------------------------------ MODULE RuleCore ------------------------------
(***************************************************************************)
(* The extension's rule core: the offscreen document that runs the rules   *)
(* over a page snapshot (src/browser-bundle/60-offscreen.js).  A scan is a *)
(* coroutine over messages: it stops to ask its tab something, answers the *)
(* pending request with the question, and goes on when the next            *)
(* scan-continue brings the answer.  The core holds one snapshot, so scans *)
(* take turns on a promise chain.                                          *)
(*                                                                         *)
(* A handler and the microtasks it triggers are one step: between two      *)
(* stops of a scan no other message is handled.  This module leaves its    *)
(* clients open: any tab may send any message at any time.                 *)
(***************************************************************************)
EXTENDS Integers, Sequences

CONSTANTS
  Runs,      \* the session objects; every scan-start or analyze-candidate makes one
  Ids,       \* what messages call them (msg.session)
  Tabs,
  Requests,  \* messages that expect an answer
  MaxAsks,   \* hit-test and pixel questions a run asks at most
  NULL


VARIABLES
  obj,       \* run -> its session object, while the Map or the chain still has it
  at,        \* run -> where its coroutine is
  sessions,  \* the Map: id -> run or NULL
  chain,     \* the runs that have not settled, in order; the head has the turn
  loaded,    \* the run whose snapshot the core holds, or NULL
  owed,      \* request -> answers still owed to it: 1 when it comes, 0 when answered
  answer     \* request -> the answer its sender has not read yet, or NULL

coreVars == <<obj, at, sessions, chain, loaded, owed, answer>>

Kinds == {"scan", "candidate"}
Places == {"unborn", "queued", "parked", "over"}
Stages == {"none", "findings", "visual"}
Answers == {"ask", "findings", "visual", "done", "error", "superseded"}

Session == [id: Ids, tab: Tabs, kind: Kinds, respond: Requests \cup {NULL},
            superseded: BOOLEAN, stage: Stages, asks: 0..MaxAsks]

TypeOK ==
  /\ obj \in [Runs -> Session \cup {NULL}]
  /\ at \in [Runs -> Places]
  /\ \A r \in Runs : obj[r] = NULL <=> at[r] \in {"unborn", "over"}
  /\ sessions \in [Ids -> Runs \cup {NULL}]
  /\ \A i \in Ids : sessions[i] # NULL => obj[sessions[i]] # NULL /\ obj[sessions[i]].id = i
  /\ chain \in Seq(Runs)
  /\ loaded \in Runs \cup {NULL}
  /\ owed \in [Requests -> Int]
  /\ answer \in [Requests -> Answers \cup {NULL}]

Init ==
  /\ obj = [r \in Runs |-> NULL]
  /\ at = [r \in Runs |-> "unborn"]
  /\ sessions = [i \in Ids |-> NULL]
  /\ chain = <<>>
  /\ loaded = NULL
  /\ owed = [q \in Requests |-> 0]
  /\ answer = [q \in Requests |-> NULL]

ASSUME RuleCoreAssumption ==
  /\ MaxAsks \in Nat
  /\ NULL \notin Runs /\ NULL \notin Requests
  /\ NULL \notin Answers /\ NULL \notin Session

-----------------------------------------------------------------------------
(* Answering, and leaving the Map and the chain.                           *)

\* sendResponse, for every request of Q; a request of New has just come.
Respond(Q, New, reply) ==
  /\ owed' = [q \in Requests |-> owed[q] + (IF q \in New THEN 1 ELSE 0) - (IF q \in Q THEN 1 ELSE 0)]
  /\ answer' = [q \in Requests |-> IF q \in Q THEN reply ELSE answer[q]]

\* Faulty variant: a session that settled stays in the Map.
ForgetNothing(S) == sessions

Forget(S) == [i \in Ids |-> IF sessions[i] \in S THEN NULL ELSE sessions[i]]

\* The turn passes on when the run that has it settles; no other one does.
Leave(S) == IF chain # <<>> /\ Head(chain) \in S THEN Tail(chain) ELSE chain

\* finish, and the end of the promise: the pending request is answered, the
\* session leaves the Map (if it is still its own entry) and the turn passes.
Finish(r, Q, New, reply) ==
  /\ Respond(Q, New, reply)
  /\ obj' = [obj EXCEPT ![r] = NULL]
  /\ sessions' = Forget({r})
  /\ at' = [at EXCEPT ![r] = "over"]
  /\ chain' = Leave({r})

\* ask: the pending request is answered with the question and the coroutine
\* parks.  Without one (the session was cancelled) the promise is rejected.
Ask(r, Q, New, question, session) ==
  IF Q = {}
    THEN Finish(r, Q, New, "error")
    ELSE /\ Respond(Q, New, question)
         /\ obj' = [obj EXCEPT ![r] = [session EXCEPT !.respond = NULL]]
         /\ at' = [at EXCEPT ![r] = "parked"]
         /\ UNCHANGED <<sessions, chain>>

-----------------------------------------------------------------------------
(* The coroutine up to its next stop, its pending request (if any) in Q.   *)

AskPage(r, Q, New) ==
  /\ obj[r].asks < MaxAsks
  /\ Ask(r, Q, New, "ask", [obj[r] EXCEPT !.asks = @ + 1])

ShowFindings(r, Q, New) ==
  /\ obj[r].kind = "scan" /\ obj[r].stage = "none"
  /\ Ask(r, Q, New, "findings", [obj[r] EXCEPT !.stage = "findings"])

\* The visual pass is optional (skipScan, visualContrast: false).
ShowVisual(r, Q, New) ==
  /\ obj[r].kind = "scan" /\ obj[r].stage = "findings"
  /\ Ask(r, Q, New, "visual", [obj[r] EXCEPT !.stage = "visual"])

Throw(r, Q, New) == Finish(r, Q, New, "error")

NextStop(r, Q, New) ==
  \/ AskPage(r, Q, New)
  \/ ShowFindings(r, Q, New)
  \/ ShowVisual(r, Q, New)
  \/ Throw(r, Q, New)

\* snapshot_clear and finish.
Complete(r, Q, New) ==
  /\ obj[r].kind = "scan" => obj[r].stage # "none"
  /\ loaded' = NULL
  /\ Finish(r, Q, New, "done")

Pending(r) == {obj[r].respond} \ {NULL}
\* Faulty variant: nothing serializes the scans.
TurnForAnyone(r) == \E i \in DOMAIN chain : chain[i] = r

HasTurn(r) == chain # <<>> /\ Head(chain) = r

\* A run that was superseded before its turn is skipped.
Skip(r) ==
  /\ at[r] = "queued" /\ HasTurn(r)
  /\ obj[r].superseded
  /\ at' = [at EXCEPT ![r] = "over"]
  /\ obj' = [obj EXCEPT ![r] = NULL]
  /\ chain' = Tail(chain)
  /\ UNCHANGED <<sessions, loaded, owed, answer>>

\* It has the turn and the core is there: load the snapshot and go to the
\* first stop.  (Superseded while it waited for the core, it still does.)
Load(r) ==
  /\ at[r] = "queued" /\ HasTurn(r)
  /\ \/ NextStop(r, Pending(r), {}) /\ loaded' = r
     \/ Complete(r, Pending(r), {})

\* The core does not come up, or the snapshot does not parse.
LoadFails(r) ==
  /\ at[r] = "queued" /\ HasTurn(r)
  /\ Throw(r, Pending(r), {})
  /\ UNCHANGED loaded

-----------------------------------------------------------------------------
(* The message handlers.                                                   *)

\* cancelSession of every session in S: what waits is answered, what is
\* parked is rejected and gives up its turn.
Open(id) == {sessions[id]} \ {NULL}
\* Faulty variant: the session never learned its tab.
OfNoTab(t) == {}

OfTab(t) == {r \in Runs : obj[r] # NULL /\ obj[r].tab = t /\ sessions[obj[r].id] = r}

Parked(S) == {r \in S : at[r] = "parked"}
Waiting(S) == UNION {Pending(r) : r \in S}
\* Faulty variant: the cancelled session keeps the request it answered.
SupersededKeepsRequest(S) == [r \in Runs |->
  IF r \in Parked(S) THEN NULL
  ELSE IF r \in S THEN [obj[r] EXCEPT !.superseded = TRUE]
  ELSE obj[r]]

Superseded(S) == [r \in Runs |->
  IF r \in Parked(S) THEN NULL
  ELSE IF r \in S THEN [obj[r] EXCEPT !.superseded = TRUE, !.respond = NULL]
  ELSE obj[r]]
\* Faulty variant: a parked session that is cancelled stays parked.
RejectsNothing(S) == at

Rejected(S) == [r \in Runs |-> IF r \in Parked(S) THEN "over" ELSE at[r]]

CancelAll(S) ==
  /\ obj' = Superseded(S)
  /\ at' = Rejected(S)
  /\ chain' = Leave(Parked(S))
  /\ sessions' = Forget(S)
  /\ Respond(Waiting(S), {}, "superseded")
  /\ UNCHANGED loaded

ScanCancel(id) == CancelAll(Open(id))
ScanCancelTab(t) == CancelAll(OfTab(t))

\* A sender waits for its answer before it sends again.
Fresh(q) == owed[q] = 0 /\ answer[q] = NULL

\* scan-start and analyze-candidate: the session of that id, if any, is
\* superseded; the new one queues on the chain.
ScanStart(r, id, t, kind, q) ==
  /\ at[r] = "unborn" /\ Fresh(q)
  /\ obj' = [Superseded(Open(id)) EXCEPT
       ![r] = [id |-> id, tab |-> t, kind |-> kind, respond |-> q,
               superseded |-> FALSE, stage |-> "none", asks |-> 0]]
  /\ at' = [Rejected(Open(id)) EXCEPT ![r] = "queued"]
  /\ chain' = Append(Leave(Parked(Open(id))), r)
  /\ sessions' = [sessions EXCEPT ![id] = r]
  /\ Respond(Waiting(Open(id)), {q}, "superseded")
  /\ UNCHANGED loaded

\* scan-continue: the answer to the last question resumes the coroutine.
NoSuchSession(id, q) ==
  /\ Fresh(q)
  /\ Parked(Open(id)) = {}
  /\ Respond({q}, {q}, "error")
  /\ UNCHANGED <<obj, at, sessions, chain, loaded>>

Resume(id, q) ==
  /\ Fresh(q)
  /\ \E r \in Parked(Open(id)) :
       \/ NextStop(r, {q}, {q}) /\ UNCHANGED loaded
       \/ Complete(r, {q}, {q})

ScanContinue(id, q) == NoSuchSession(id, q) \/ Resume(id, q)

-----------------------------------------------------------------------------
\* The sender reads its answer.
Read(q) ==
  /\ answer[q] # NULL
  /\ answer' = [answer EXCEPT ![q] = NULL]
  /\ UNCHANGED <<obj, at, sessions, chain, loaded, owed>>

Internal(r) == Skip(r) \/ Load(r) \/ LoadFails(r)

CoreNext ==
  \/ \E r \in Runs, id \in Ids, t \in Tabs, kind \in Kinds, q \in Requests :
       ScanStart(r, id, t, kind, q)
  \/ \E id \in Ids, q \in Requests : ScanContinue(id, q)
  \/ \E id \in Ids : ScanCancel(id)
  \/ \E t \in Tabs : ScanCancelTab(t)
  \/ \E r \in Runs : Internal(r)
  \/ \E q \in Requests : Read(q)

CoreSpec == Init /\ [][CoreNext]_coreVars

-----------------------------------------------------------------------------
(* What the core promises whatever its clients do.                         *)

\* The questions a parked scan asked, and the rules it goes on with, are
\* about its own page: the snapshot in the core is still the one it loaded
\* (serialized, snapshot_load, snapshot_clear).
OwnSnapshot == \A r \in Runs : at[r] = "parked" => loaded = r

\* "each request is answered exactly once": no request is answered twice, and
\* one that is still owed its answer is held by exactly one session that has
\* not settled, whatever overtakes whatever (ask, finish and cancelSession all
\* take the same respond).
AnsweredOnce == \A q \in Requests :
  /\ owed[q] \in {0, 1}
  /\ owed[q] = 1 <=> \E r \in Runs : obj[r] # NULL /\ obj[r].respond = q

\* Somebody can still release the turn: a parked run is in the Map under its
\* id, where scan-continue, scan-cancel and scan-cancel-tab find it.
TurnIsReachable == \A r \in Runs : at[r] = "parked" => \E i \in Ids : sessions[i] = r
=============================================================================
