---------------------------- MODULE AgentTarget ----------------------------
(***************************************************************************)
(* Agent targets (crates/live/src/server_state.rs): an agent asks every    *)
(* open page for a session on an element, and its request is held until    *)
(* one page has served it, all have declined, or time is up.               *)
(*                                                                         *)
(* The pages answer a roll call.  An eligible one claims the request and   *)
(* gets a lease on it; the others decline, as busy or for want of the      *)
(* element.  Each handler holds the state mutex and is one action.  What   *)
(* pages send arrives in any order, late, twice, or after they closed: an  *)
(* action takes any message of a page that was told of the request.  A     *)
(* page is an overlay's clientId; it may have several connections while it *)
(* reconnects.                                                             *)
(***************************************************************************)
EXTENDS Naturals, FiniteSets

CONSTANTS
  Pages,      \* overlays, each with a clientId of its own
  NULL,       \* nobody, nothing
  MaxTargets, \* bound: requests, numbered as they come
  MaxRecord,  \* answered requests the helper remembers (256)
  MaxConns,   \* bound: connections of one page at a time
  MaxGo       \* bound: sessions one page starts for one request

VARIABLES
  conns,    \* sse_clients: per page, its open connections
  asked,    \* requests made
  pending,  \* pending_agent_targets: the requests that are held
  claim,    \* per request: [owner, lapsed, last, reports, grace]
  resolved, \* resolved_agent_targets: per request, [no, session]; no = 0: none
  stopped,  \* shutdown has run
  heard,    \* per request: the pages it was sent to
  verdict,  \* history: what each request was answered
  opened,   \* history: the sessions opened for requests, [target, session]
  word      \* history: per request, pages whose latest word is a decline

vars == <<conns, asked, pending, claim, resolved, stopped, heard, verdict, opened, word>>

Targets == 1 .. MaxTargets
Reasons == {"busy", "no_match"}
Session == [page : Pages, go : 1 .. MaxGo]

\* What a request is answered: by whom, in a word, and with which session.
Verdicts == [by : {"page", "roll_call", "timeout", "stop"},
             word : {"ok", "failed", "none"} \cup Reasons, session : Session \cup {NULL}]
Claims == [owner : Pages \cup {NULL}, lapsed : BOOLEAN, last : Pages \cup {NULL},
           reports : [Pages -> Reasons \cup {NULL}], grace : {"none", "open", "over", "judged"}]

ASSUME AgentTargetAssumption ==
  /\ IsFiniteSet(Pages)
  /\ MaxTargets \in Nat /\ MaxRecord \in Nat /\ MaxConns \in Nat /\ MaxGo \in Nat
  /\ NULL \notin Pages \cup Session \cup Reasons /\ NULL \notin Verdicts

Unclaimed == [owner |-> NULL, lapsed |-> FALSE, last |-> NULL,
              reports |-> [p \in Pages |-> NULL], grace |-> "none"]

Init ==
  /\ conns = [p \in Pages |-> 0]
  /\ asked = {} /\ pending = {} /\ claim = [t \in Targets |-> Unclaimed]
  /\ resolved = [t \in Targets |-> [no |-> 0, session |-> NULL]]
  /\ stopped = FALSE /\ heard = [t \in Targets |-> {}]
  /\ verdict = [t \in Targets |-> NULL] /\ opened = {}
  /\ word = [t \in Targets |-> {}]

----------------------------------------------------------------------------
Connected(c) == {p \in Pages : c[p] > 0}
Reporters(r) == {p \in Pages : r[p] # NULL}

Verdict(by, w, s) == [by |-> by, word |-> w, session |-> s]

\* agent_target_verdict_from_reports: busy, a page may serve later, comes first.
Declined(reports, by) ==
  Verdict(by, IF \E p \in Pages : reports[p] = "busy" THEN "busy" ELSE "no_match", NULL)

\* maybe_complete_agent_target_roll_call: connected pages have all declined.
Complete(k, c) ==
  /\ k.owner = NULL
  /\ Reporters(k.reports) # {}
  /\ Cardinality(Reporters(k.reports)) >= Cardinality(Connected(c))
  /\ (\E p \in Pages : k.reports[p] = "busy") \/ k.grace # "open"

Answered == Cardinality({t \in Targets : resolved[t].no # 0})

(* resolve_agent_target: of the requests with claims k, those of T are      *)
(* answered v, the oldest first, and their answers remembered.             *)
Resolve(k, T, v) ==
  /\ pending' = pending \ T
  /\ claim' = [t \in Targets |-> IF t \in T THEN Unclaimed ELSE k[t]]
  /\ resolved' = [t \in Targets |->
       IF t \in T THEN [no |-> Answered + Cardinality({u \in T : u <= t}),
                        session |-> v[t].session]
       ELSE resolved[t]]
  /\ verdict' = [t \in Targets |-> IF t \in T THEN v[t] ELSE verdict[t]]

ResolveOne(t, v) == Resolve(claim, {t}, [u \in {t} |-> v])

\* Only the last MaxRecord answers are remembered.
Remembered(t) == resolved[t].no # 0 /\ resolved[t].no + MaxRecord > Answered

\* The requests' claims become k, and each roll call of S that is complete ends.
Judge(k, c, S) ==
  LET T == {t \in S \cap pending : Complete(k[t], c)}
  IN  Resolve(k, T, [t \in T |-> Declined(k[t].reports, "roll_call")])

----------------------------------------------------------------------------
(* GET /events: pending requests are replayed to the new connection.       *)
Connect(p) ==
  /\ conns[p] < MaxConns
  /\ conns' = [conns EXCEPT ![p] = @ + 1]
  /\ heard' = [t \in Targets |-> IF t \in pending THEN heard[t] \cup {p} ELSE heard[t]]
  /\ UNCHANGED <<asked, pending, claim, resolved, stopped, verdict, opened, word>>

\* drop_agent_target_client, for one request.
Without(k, p) ==
  [k EXCEPT !.reports[p] = NULL,
            !.owner = IF @ = p THEN NULL ELSE @,
            !.lapsed = IF k.owner = p THEN FALSE ELSE @]

\* Faulty variants: a connection is closed twice; the departed page's word
\* still counts; the roll calls are not judged anew.
DisconnectTwice(p) ==
  /\ conns' = [conns EXCEPT ![p] = @ - 1]
  /\ Judge(IF conns[p] = 1 THEN [t \in Targets |-> Without(claim[t], p)] ELSE claim, conns', Targets)
  /\ word' = IF conns[p] = 1 THEN [t \in Targets |-> word[t] \ {p}] ELSE word
  /\ UNCHANGED <<heard, asked, stopped, opened>>

DisconnectKeepingWord(p) ==
  /\ conns[p] > 0
  /\ conns' = [conns EXCEPT ![p] = @ - 1]
  /\ Judge(claim, conns', Targets)
  /\ word' = IF conns[p] = 1 THEN [t \in Targets |-> word[t] \ {p}] ELSE word
  /\ UNCHANGED <<heard, asked, stopped, opened>>

DisconnectUnjudged(p) ==
  /\ conns[p] > 0
  /\ conns' = [conns EXCEPT ![p] = @ - 1]
  /\ claim' = IF conns[p] = 1 THEN [t \in Targets |-> Without(claim[t], p)] ELSE claim
  /\ word' = IF conns[p] = 1 THEN [t \in Targets |-> word[t] \ {p}] ELSE word
  /\ UNCHANGED <<heard, asked, stopped, opened, pending, resolved, verdict>>

(* remove_sse_client: a page that has no connection left takes its word    *)
(* and its lease with it.                                                  *)
Disconnect(p) ==
  /\ conns[p] > 0
  /\ conns' = [conns EXCEPT ![p] = @ - 1]
  /\ Judge(IF conns[p] = 1 THEN [t \in Targets |-> Without(claim[t], p)] ELSE claim, conns', Targets)
  /\ word' = IF conns[p] = 1 THEN [t \in Targets |-> word[t] \ {p}] ELSE word
  /\ UNCHANGED <<heard, asked, stopped, opened>>

(* POST /agent-target: the request is held and told to every page.         *)
Register(t) ==
  /\ t \notin asked /\ 1 .. t - 1 \subseteq asked
  /\ Connected(conns) # {}
  /\ asked' = asked \cup {t} /\ pending' = pending \cup {t}
  /\ heard' = [heard EXCEPT ![t] = Connected(conns)]
  /\ UNCHANGED <<conns, claim, resolved, stopped, verdict, opened, word>>

(* POST /agent-target-claim, eligible: a grant, a renewal, or a rescue     *)
(* from an owner whose lease has lapsed.                                   *)
Claim(t, p) ==
  /\ p \in heard[t] /\ t \in pending
  /\ LET k == [claim[t] EXCEPT !.reports[p] = NULL]
         granted == k.owner \in {NULL, p} \/ k.lapsed
     IN  claim' = [claim EXCEPT ![t] =
           IF granted THEN [k EXCEPT !.owner = p, !.last = p, !.lapsed = FALSE] ELSE k]
  /\ word' = [word EXCEPT ![t] = @ \ {p}]
  /\ UNCHANGED <<heard, conns, asked, pending, resolved, stopped, verdict, opened>>

(* The same, not eligible: a page that is gone is not heard; the others'   *)
(* word counts, hands back a lease, and may end this request's roll call.  *)
Decline(t, p, reason) ==
  /\ p \in heard[t] /\ t \in pending /\ p \in Connected(conns)
  /\ LET first == reason = "no_match" /\ claim[t].reports[p] # "no_match"
         k == [Without(claim[t], p) EXCEPT !.reports[p] = reason,
                                          !.grace = IF first THEN "open" ELSE @]
     IN  Judge([claim EXCEPT ![t] = k], conns, {t})
  /\ word' = [word EXCEPT ![t] = @ \cup {p}]
  /\ UNCHANGED <<heard, conns, asked, stopped, opened>>

(* POST /agent-target-result: only the owner is heard.  word is "ok" or    *)
(* what went wrong; a dry run has no session.                              *)
Result(t, p, w, s) ==
  /\ p \in heard[t] /\ t \in pending /\ claim[t].owner = p
  /\ s # NULL => w = "ok" /\ s.page = p
  /\ ResolveOne(t, Verdict("page", w, s))
  /\ UNCHANGED <<heard, conns, asked, stopped, opened, word>>

\* Faulty variant: a request that is not remembered is open to anybody.
WelcomeForgotten(t, p, s) ==
  \/ t \in pending /\ (claim[t].owner = p \/ (claim[t].owner = NULL /\ claim[t].last = p))
  \/ t \notin pending /\ (Remembered(t) => resolved[t].session = s)

\* agent_target_refusal: the event of page p, session s, is welcome.
Welcome(t, p, s) ==
  \/ t \in pending /\ (claim[t].owner = p \/ (claim[t].owner = NULL /\ claim[t].last = p))
  \/ t \notin pending /\ Remembered(t) /\ resolved[t].session = s

(* POST /events with the generate of page p, made for t: its session is    *)
(* journaled and queued, and the request is answered with the result that  *)
(* the overlay puts into every such event (handleGo).                      *)
Generate(t, p, s) ==
  /\ p \in heard[t] /\ s.page = p /\ Welcome(t, p, s)
  /\ opened' = opened \cup {[target |-> t, session |-> s]}
  /\ IF t \in pending THEN ResolveOne(t, Verdict("page", "ok", s))
     ELSE UNCHANGED <<pending, claim, resolved, verdict>>
  /\ UNCHANGED <<heard, conns, asked, stopped, word>>

----------------------------------------------------------------------------
(* Time passes the lease's end (claimed_until).                            *)
LeaseEnds(t) ==
  /\ t \in pending /\ claim[t].owner # NULL /\ ~claim[t].lapsed
  /\ claim' = [claim EXCEPT ![t].lapsed = TRUE]
  /\ UNCHANGED <<heard, conns, asked, pending, resolved, stopped, verdict, opened, word>>

(* Time passes resolve_grace_until; its thread wakes 5 ms later.           *)
GraceEnds(t) ==
  /\ t \in pending /\ claim[t].grace = "open"
  /\ claim' = [claim EXCEPT ![t].grace = "over"]
  /\ UNCHANGED <<heard, conns, asked, pending, resolved, stopped, verdict, opened, word>>

GraceThread(t) ==
  /\ t \in pending /\ claim[t].grace = "over"
  /\ Judge([claim EXCEPT ![t].grace = "judged"], conns, {t})
  /\ UNCHANGED <<heard, conns, asked, stopped, opened, word>>

\* Faulty variant: it does not look whether the request is held still.
TimeoutBlind(t) ==
  /\ t \in asked
  /\ ResolveOne(t, Verdict("timeout", "none", NULL))
  /\ UNCHANGED <<heard, conns, asked, stopped, opened, word>>

(* The thread of register_agent_target: the pages' time is up.             *)
Timeout(t) ==
  /\ t \in pending
  /\ LET r == claim[t].reports
     IN  ResolveOne(t, IF Reporters(r) = {} THEN Verdict("timeout", "none", NULL)
                       ELSE Declined(r, "timeout"))
  /\ UNCHANGED <<heard, conns, asked, stopped, opened, word>>

(* shutdown: what is held is answered, and not recorded; requests that are *)
(* being handled still run until the process exits.                        *)
Stop ==
  /\ ~stopped /\ stopped' = TRUE
  /\ conns' = [p \in Pages |-> 0]
  /\ pending' = {} /\ claim' = [t \in Targets |-> Unclaimed]
  /\ verdict' = [t \in Targets |-> IF t \in pending
       THEN Verdict("stop", "none", NULL) ELSE verdict[t]]
  /\ word' = [t \in Targets |-> {}]
  /\ UNCHANGED <<heard, asked, resolved, opened>>

Next ==
  \/ \E p \in Pages : Connect(p) \/ Disconnect(p)
  \/ \E t \in Targets :
       \/ Register(t) \/ LeaseEnds(t) \/ GraceEnds(t) \/ GraceThread(t) \/ Timeout(t)
       \/ \E p \in Pages :
            \/ Claim(t, p)
            \/ \E reason \in Reasons : Decline(t, p, reason)
            \/ \E w \in {"ok", "failed"}, s \in Session \cup {NULL} : Result(t, p, w, s)
            \/ \E s \in Session : Generate(t, p, s)
  \/ Stop

Spec == Init /\ [][Next]_vars
----------------------------------------------------------------------------
(***************************************************************************)
(* Types.                                                                  *)
(***************************************************************************)
TypeOK ==
  /\ conns \in [Pages -> Nat]
  /\ asked \subseteq Targets /\ pending \subseteq asked
  /\ claim \in [Targets -> Claims]
  /\ resolved \in [Targets -> [no : Nat, session : Session \cup {NULL}]]
  /\ stopped \in BOOLEAN /\ heard \in [Targets -> SUBSET Pages]
  /\ verdict \in [Targets -> Verdicts \cup {NULL}]
  /\ opened \subseteq [target : Targets, session : Session]
  /\ word \in [Targets -> SUBSET Pages]

(***************************************************************************)
(* One request never gets a second session, or a session nobody was told   *)
(* about: a session that POST /events opened for a request is the one the  *)
(* agent's held request was answered with, although the claim lapsed or    *)
(* was handed over, the timeout fired, or the answer is long forgotten.    *)
(***************************************************************************)
SessionsAreTold ==
  \A o \in opened : verdict[o.target] # NULL /\ verdict[o.target].session = o.session

(***************************************************************************)
(* A roll call that is complete, with nobody holding the lease, has been   *)
(* answered, or a timer that will answer it is running: no step completes  *)
(* one without judging it, be it a decline, a hand back or a page leaving. *)
(***************************************************************************)
NoStuckRollCall ==
  \A t \in pending :
    LET k == claim[t]
    IN  /\ k.owner = NULL /\ Reporters(k.reports) # {}
        /\ Connected(conns) \subseteq Reporters(k.reports)
        => k.grace \in {"open", "over"} /\ \A p \in Pages : k.reports[p] # "busy"

(***************************************************************************)
(* The roll call, which only counts words, speaks for no page that is      *)
(* still connected and has not declined, or has since become eligible.     *)
(***************************************************************************)
RollCallUnanimous ==
  [][\A t \in Targets : verdict[t] = NULL /\ verdict'[t] # NULL /\ verdict'[t].by = "roll_call"
       => Connected(conns)' \subseteq word'[t]]_vars

(***************************************************************************)
(* The helper keeps the promise of HeldRequest.                            *)
(***************************************************************************)
Held == INSTANCE HeldRequest WITH Answers <- Verdicts, Sessions <- Session, Unanswered <- NULL
KeepsPromise == Held!Spec

(***************************************************************************)
(* The moment every connected overlay has reported busy, the held request  *)
(* answers busy without waiting on a timer (comment of claim_agent_target).*)
(* It does not when a page that left claimed the request: its lease blocks *)
(* the roll call, and nothing takes it back.                               *)
(***************************************************************************)
BusyIsPrompt ==
  \A t \in pending : Connected(conns) # {} =>
    \E p \in Connected(conns) : claim[t].reports[p] # "busy"
============================================================================
