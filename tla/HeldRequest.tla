---------------------------- MODULE HeldRequest ----------------------------
(***************************************************************************)
(* What an agent is promised that asks the open pages for a session,       *)
(* whatever the pages, the timers and the network do (the comments of      *)
(* POST /agent-target and POST /events): its request is answered once, the *)
(* session it is answered with is the only one that is opened for it, and  *)
(* no session is opened that it is not told about.                         *)
(***************************************************************************)
CONSTANTS
  Targets,   \* the requests
  Answers,   \* what they may be answered, records with a field session
  Sessions,  \* the sessions that may be opened
  Unanswered \* no answer yet

VARIABLES
  asked,   \* requests made
  verdict, \* per request: its answer
  opened   \* sessions opened, [target, session]

vars == <<asked, verdict, opened>>

Init == asked = {} /\ verdict = [t \in Targets |-> Unanswered] /\ opened = {}

Ask(t) == t \notin asked /\ asked' = asked \cup {t} /\ UNCHANGED <<verdict, opened>>

\* None but the requests T get an answer, and none a second one.
AnswerOnly(T) ==
  /\ verdict' \in [Targets -> Answers \cup {Unanswered}]
  /\ \A t \in Targets : verdict'[t] # verdict[t] =>
       t \in T \cap asked /\ verdict[t] = Unanswered /\ verdict'[t] \in Answers

\* A page that leaves may end the roll calls of several requests.
Answer == AnswerOnly(Targets) /\ UNCHANGED <<asked, opened>>

\* The session that request t was, or is now, answered with is opened.
Open(t, s) ==
  /\ AnswerOnly({t})
  /\ verdict'[t] # Unanswered /\ verdict'[t].session = s
  /\ opened' = opened \cup {[target |-> t, session |-> s]}
  /\ UNCHANGED asked

Next ==
  \/ \E t \in Targets : Ask(t)
  \/ Answer
  \/ \E t \in Targets, s \in Sessions : Open(t, s)

Spec == Init /\ [][Next]_vars
============================================================================
