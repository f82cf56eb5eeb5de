---------------------------- MODULE CoreClients ----------------------------
(***************************************************************************)
(* The tabs' content scripts driving the rule core                         *)
(* (src/extension/content/content-script.js over RuleCore).  A driver      *)
(* answers the questions of one session until it is done; a new scan, an   *)
(* SPA navigation and the worker's remove make the drivers of the old      *)
(* generation stop and cancel their sessions; a real navigation takes the  *)
(* whole script away, and the worker cancels the tab's sessions when the   *)
(* new document has loaded.                                                *)
(*                                                                         *)
(* Messages of one tab to the core arrive in the order they were sent, and *)
(* so do the answers of the core to one tab.                               *)
(***************************************************************************)
EXTENDS RuleCore

CONSTANTS
  MaxRuns,   \* bound: sessions, numbered as their drivers start them
  MaxGen,    \* bound: tab -> generations of its scripts
  Share,     \* bound: tab -> the runs its drivers may start
  MayThrow   \* a driver can fail while it answers

VARIABLES
  generation, \* tab -> scanGeneration
  wanted,     \* tab -> runScan has been called and has not started its driver
  active,     \* tab -> activeSessions
  candidates, \* tab -> lazily observed candidates are left (scheduleLazy)
  driver,     \* run -> the driver of its session, or NULL
  outbox,     \* tab -> messages to the core, in order
  inbox,      \* tab -> runs whose driver has an answer to read, in order
  left,       \* tabs whose document went away, the worker not having seen the next
  drawn,      \* tab -> runs whose result is in groupMap
  reported    \* tab -> runs whose result is in the last findings message

clientVars == <<generation, wanted, active, candidates, driver, outbox, inbox, left, drawn, reported>>
vars == <<coreVars, clientVars>>

Driver == [tab: Tabs, kind: Kinds, generation: Nat,
           at: {"waiting", "answering", "over", "failed", "gone"}, base: SUBSET Runs]
Message == [type: {"start", "continue", "cancel"}, run: Runs]

\* Every run is its own session ID, and its driver has one request at a time.
ASSUME RunsAssumption ==
  /\ MaxRuns \in Nat /\ Runs = 1..MaxRuns
  /\ Runs \subseteq Ids \cap Requests
  /\ Share \in [Tabs -> SUBSET Runs]
  /\ NULL \notin Driver

ClientTypeOK ==
  /\ TypeOK
  /\ generation \in [Tabs -> Nat]
  /\ wanted \in [Tabs -> BOOLEAN] /\ candidates \in [Tabs -> BOOLEAN]
  /\ active \in [Tabs -> SUBSET Runs]
  /\ driver \in [Runs -> Driver \cup {NULL}]
  /\ outbox \in [Tabs -> Seq(Message)] /\ inbox \in [Tabs -> Seq(Runs)]
  /\ left \subseteq Tabs
  /\ drawn \in [Tabs -> SUBSET Runs] /\ reported \in [Tabs -> SUBSET Runs]

ClientInit ==
  /\ Init
  /\ generation = [t \in Tabs |-> 0]
  /\ wanted = [t \in Tabs |-> FALSE] /\ candidates = [t \in Tabs |-> FALSE]
  /\ active = [t \in Tabs |-> {}]
  /\ driver = [r \in Runs |-> NULL]
  /\ outbox = [t \in Tabs |-> <<>>] /\ inbox = [t \in Tabs |-> <<>>]
  /\ left = {}
  /\ drawn = [t \in Tabs |-> {}] /\ reported = [t \in Tabs |-> {}]

Current(r) == driver[r].generation = generation[driver[r].tab]
Msg(type, r) == [type |-> type, run |-> r]

\* The runs of S, in their order (of a Map or a Set, or of sending).
InOrder(S) ==
  LET upTo[n \in 0..MaxRuns] ==
        IF n = 0 THEN <<>> ELSE IF n \in S THEN Append(upTo[n - 1], n) ELSE upTo[n - 1]
  IN  upTo[MaxRuns]

\* Answers of this step, each at its tab unless its script is gone.
Arrivals(t) == InOrder({r \in Runs :
  /\ answer[r] = NULL /\ answer'[r] # NULL
  /\ driver[r].tab = t /\ driver[r].at # "gone"})
Deliver == inbox' = [t \in Tabs |-> inbox[t] \o Arrivals(t)]

-----------------------------------------------------------------------------
(* The content script.                                                     *)

\* cancelScans: every active session is to be cancelled.
\* Faulty variant: the drivers are told to stop, the core is not.
CancelsNothing(t) == <<>>

Cancels(t) == LET ids == InOrder(active[t])
              IN [i \in DOMAIN ids |-> Msg("cancel", ids[i])]

CancelScans(t) ==
  /\ active' = [active EXCEPT ![t] = {}]
  /\ outbox' = [outbox EXCEPT ![t] = @ \o Cancels(t)]

NextGeneration(t) ==
  /\ generation[t] < MaxGen[t]
  /\ generation' = [generation EXCEPT ![t] = @ + 1]

\* runScan up to its driver; an older run that still waits there gives up.
RunScan(t) ==
  /\ NextGeneration(t)
  /\ CancelScans(t)
  /\ wanted' = [wanted EXCEPT ![t] = TRUE]
  /\ UNCHANGED <<coreVars, candidates, driver, inbox, left, drawn, reported>>

\* The worker's remove, and the popstate and hashchange handler, which acts
\* on a page that has shown findings.
Invalidate(t) ==
  /\ NextGeneration(t)
  /\ CancelScans(t)
  /\ wanted' = [wanted EXCEPT ![t] = FALSE]
  /\ candidates' = [candidates EXCEPT ![t] = FALSE]
  /\ \/ drawn' = [drawn EXCEPT ![t] = {}]
     \/ drawn[t] # {} /\ UNCHANGED drawn
  /\ UNCHANGED <<coreVars, driver, inbox, left, reported>>

\* drive: a session of its own for every driver, whose id is the run's.
Live(r) == driver[r] # NULL /\ driver[r].at \in {"waiting", "answering"}

Drive(t, r, kind) ==
  /\ driver[r] = NULL /\ (\A x \in 1..(r - 1) : driver[x] # NULL) /\ r \in Share[t]
  /\ driver' = [driver EXCEPT ![r] = [tab |-> t, kind |-> kind, generation |-> generation[t],
                                      at |-> "waiting", base |-> drawn[t]]]
  /\ active' = [active EXCEPT ![t] = @ \cup {r}]
  /\ outbox' = [outbox EXCEPT ![t] = Append(@, Msg("start", r))]

\* The scan starts once its cancelScans is answered; the lazy candidates of
\* the one before are dropped.
StartScan(t, r) ==
  /\ wanted[t]
  /\ \A i \in DOMAIN outbox[t] : outbox[t][i].type # "cancel"
  /\ Drive(t, r, "scan")
  /\ wanted' = [wanted EXCEPT ![t] = FALSE]
  /\ candidates' = [candidates EXCEPT ![t] = FALSE]
  /\ UNCHANGED <<coreVars, generation, inbox, left, drawn, reported>>

\* Faulty variant: candidates are not queued behind one another.
AllAtOnce(t) == TRUE

\* analyzeCandidate, one at a time, over the groups found so far.
OneAtATime(t) ==
  \A x \in Runs : Live(x) /\ driver[x].tab = t /\ Current(x) => driver[x].kind = "scan"

StartCandidate(t, r) ==
  /\ candidates[t]
  /\ OneAtATime(t)
  /\ Drive(t, r, "candidate")
  /\ UNCHANGED <<coreVars, generation, wanted, candidates, inbox, left, drawn, reported>>

\* The driver stops (only where it stopped matters then), or sends its next
\* message.
Stop(r, where) ==
  /\ driver' = [driver EXCEPT ![r].at = where, ![r].base = {}, ![r].generation = 0]
  /\ active' = [active EXCEPT ![driver[r].tab] = @ \ {r}]
  /\ UNCHANGED outbox

Continue(r) ==
  /\ driver' = [driver EXCEPT ![r].at = "waiting"]
  /\ outbox' = [outbox EXCEPT ![driver[r].tab] = Append(@, Msg("continue", r))]
  /\ UNCHANGED active

Show(t, groups, report) ==
  /\ drawn' = [drawn EXCEPT ![t] = groups]
  /\ reported' = [reported EXCEPT ![t] = report]

\* The answer to the driver's last message.
Take(r) ==
  LET t == driver[r].tab IN
  /\ Live(r) /\ inbox[t] # <<>> /\ Head(inbox[t]) = r
  /\ inbox' = [inbox EXCEPT ![t] = Tail(@)]
  /\ Read(r)
  /\ UNCHANGED <<generation, wanted, left>>

\* A newer scan or a navigation: the driver stops without a word; its session
\* was cancelled when the generation changed.
TakeStale(r) ==
  /\ Take(r) /\ ~Current(r)
  /\ Stop(r, "over")
  /\ UNCHANGED <<candidates, drawn, reported>>

TakeEnd(r) ==
  /\ Take(r) /\ Current(r) /\ answer[r] \in {"error", "superseded"}
  /\ Stop(r, "over")
  /\ UNCHANGED <<candidates, drawn, reported>>

TakeAsk(r) ==
  /\ Take(r) /\ Current(r) /\ answer[r] = "ask"
  /\ driver' = [driver EXCEPT ![r].at = "answering"]
  /\ UNCHANGED <<active, outbox, candidates, drawn, reported>>

\* onStage draws the groups and reports them; the visual stage leaves lazy
\* candidates to observe, or none.
TakeStage(r) ==
  /\ Take(r) /\ Current(r) /\ answer[r] \in {"findings", "visual"}
  /\ Show(driver[r].tab, {r}, {r})
  /\ \E lazy \in BOOLEAN :
       /\ lazy => answer[r] = "visual"
       /\ candidates' = [candidates EXCEPT ![driver[r].tab] = IF answer[r] = "visual" THEN lazy ELSE @]
  /\ Continue(r)

\* The last answer: the scan reports its last groups as complete, a candidate
\* adds its finding, if it has one, to the groups it was sent with.
TakeDone(r) ==
  LET t == driver[r].tab IN
  /\ Take(r) /\ Current(r) /\ answer[r] = "done"
  /\ \/ driver[r].kind = "scan" /\ Show(t, drawn[t], {r})
     \/ driver[r].kind = "candidate" /\ Show(t, drawn[t] \cup {r}, driver[r].base \cup {r})
     \/ driver[r].kind = "candidate" /\ UNCHANGED <<drawn, reported>>
  /\ Stop(r, "over")
  /\ UNCHANGED candidates

\* answer(): hit tests, images and pixels take their time, and can fail.
AnswerAsk(r) ==
  /\ Live(r) /\ driver[r].at = "answering"
  /\ \/ Current(r) /\ Continue(r)
     \/ ~Current(r) /\ Stop(r, "over")
  /\ UNCHANGED <<coreVars, generation, wanted, candidates, inbox, left, drawn, reported>>

DriverThrows(r) ==
  /\ MayThrow
  /\ Live(r) /\ driver[r].at = "answering"
  /\ Stop(r, "failed")
  /\ UNCHANGED <<coreVars, generation, wanted, candidates, inbox, left, drawn, reported>>

-----------------------------------------------------------------------------
(* The browser and the worker.                                             *)

Receive(t) ==
  /\ outbox[t] # <<>>
  /\ outbox' = [outbox EXCEPT ![t] = Tail(@)]
  /\ UNCHANGED <<generation, wanted, active, candidates, driver, left, drawn, reported>>
  /\ LET m == Head(outbox[t]) IN
     \/ m.type = "start" /\ ScanStart(m.run, m.run, t, driver[m.run].kind, m.run)
     \/ m.type = "continue" /\ ScanContinue(m.run, m.run)
     \/ m.type = "cancel" /\ ScanCancel(m.run)
  /\ Deliver

CoreStep(r) ==
  /\ UNCHANGED <<generation, wanted, active, candidates, driver, outbox, left, drawn, reported>>
  /\ Internal(r)
  /\ Deliver

\* A scan the user asked for, or the end of DevTools: the worker cancels the
\* tab's sessions, then sends scan or remove (so a generation is yet to come).
WorkerCancels(t) ==
  /\ OfTab(t) # {} /\ generation[t] < MaxGen[t]
  /\ ScanCancelTab(t)
  /\ Deliver
  /\ UNCHANGED <<generation, wanted, active, candidates, driver, outbox, left, drawn, reported>>

\* The document goes away, its script with it; what it sent still arrives.
Navigate(t) ==
  /\ active[t] # {} /\ t \notin left  \* only a document with a session at the core matters here
  /\ driver' = [r \in Runs |->
       IF driver[r] # NULL /\ driver[r].tab = t /\ Live(r)
         THEN [driver[r] EXCEPT !.at = "gone", !.base = {}, !.generation = 0]
         ELSE driver[r]]
  /\ active' = [active EXCEPT ![t] = {}]
  /\ wanted' = [wanted EXCEPT ![t] = FALSE]
  /\ candidates' = [candidates EXCEPT ![t] = FALSE]
  /\ inbox' = [inbox EXCEPT ![t] = <<>>]
  /\ Show(t, {}, {})
  /\ left' = left \cup {t}
  /\ UNCHANGED <<coreVars, generation, outbox>>

\* webNavigation.onCompleted, tabs.onRemoved: the worker cancels the tab.
Completed(t) ==
  /\ t \in left /\ outbox[t] = <<>>
  /\ left' = left \ {t}
  /\ UNCHANGED <<generation, wanted, active, candidates, driver, outbox, drawn, reported>>
  /\ ScanCancelTab(t)
  /\ Deliver

DriverGoesOn(r) ==
  TakeStale(r) \/ TakeEnd(r) \/ TakeAsk(r) \/ TakeStage(r) \/ TakeDone(r) \/ AnswerAsk(r)

ClientNext ==
  \/ \E t \in Tabs : RunScan(t) \/ Invalidate(t) \/ Navigate(t) \/ WorkerCancels(t)
  \/ \E t \in Tabs, r \in Runs : StartScan(t, r) \/ StartCandidate(t, r)
  \/ \E r \in Runs : DriverGoesOn(r) \/ DriverThrows(r) \/ CoreStep(r)
  \/ \E t \in Tabs : Receive(t) \/ Completed(t)

\* The browser delivers (and a document that went away is followed by
\* another, or its tab closes), the live drivers go on, and so does the core.
\* No fairness among them is needed: none can go on for ever.
Progress ==
  \/ \E t \in Tabs : Receive(t) \/ Completed(t)
  \/ \E r \in Runs : DriverGoesOn(r) \/ CoreStep(r)

Spec == ClientInit /\ [][ClientNext]_vars
FairSpec == Spec /\ WF_vars(Progress)

-----------------------------------------------------------------------------
(* Properties.                                                             *)

Failed(r) == driver[r] # NULL /\ driver[r].at = "failed"
CancelSent(r) == \E i \in DOMAIN outbox[driver[r].tab] : outbox[driver[r].tab][i] = Msg("cancel", r)

\* "Cancellation releases the core queue": a session that can still take or
\* hold the turn has a driver that goes on with it, or a cancel on its way
\* (from its script, or from the worker once the next document has loaded).
\* The exception is a driver that threw: nobody cancels its session.
NoOrphanHoldsTheCore ==
  \A r \in Runs : at[r] \in {"queued", "parked"} /\ ~obj[r].superseded =>
    \/ Live(r) /\ Current(r)
    \/ CancelSent(r)
    \/ driver[r].at = "gone" /\ driver[r].tab \in left
    \/ Failed(r)

\* What the worker was told last is what the page shows: a candidate's report
\* is built from the groups it started with, so none may start before the one
\* before it has merged.
ReportIsDrawn == \A t \in Tabs : drawn[t] # {} => reported[t] = drawn[t]

\* Every session settles and its driver ends, however often the other tabs
\* scan, navigate and restart, unless a driver threw and holds the turn: there
\* is always a time to come when all that have begun are settled (and a
\* session that is settled stays so).
Settled(r) == at[r] = "over" /\ ~Live(r)
HeldByFailure == \E r \in Runs : at[r] = "parked" /\ Failed(r)

EverySessionSettles ==
  []<>((\A r \in Runs : driver[r] # NULL => Settled(r)) \/ HeldByFailure)
=============================================================================
