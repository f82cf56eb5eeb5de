---------------------------- MODULE ExtensionScan ----------------------------
(***************************************************************************)
(* One tab of the browser extension: the worker that keeps the tab's scan  *)
(* state (src/extension/background/service-worker.js), the content script  *)
(* of each document the tab shows (content/content-script.js), and the     *)
(* DevTools page and panel (devtools/).                                    *)
(*                                                                         *)
(* The worker is single-threaded, but sendScanToTab, tearDownTab and the   *)
(* recovery of a scan ID await, and everything else happens in between:    *)
(* navigations, reports of older scans, DevTools closing, and the end of   *)
(* the worker itself, which loses its memory while the page lives on.      *)
(* The rule core is abstracted to what it makes of a scan (RuleCore and    *)
(* CoreClients are the detail): a result, an error, or silence when the    *)
(* worker has cancelled the tab's sessions.                                *)
(***************************************************************************)
EXTENDS Integers, Sequences, FiniteSets

CONSTANTS
  MaxScans,    \* bound: scans, whose IDs are numbered
  MaxDocs,     \* bound: documents of the tab
  MaxOpens,    \* bound: times DevTools opens
  MaxRestarts, \* bound: times the worker ends and starts anew
  MayFail,     \* scans and injections can fail
  NULL         \* an ID that was invalidated

ASSUME ExtensionScanAssumption ==
  /\ MaxScans \in Nat /\ MaxOpens \in Nat /\ MaxRestarts \in Nat
  /\ MaxDocs \in Nat \ {0}
  /\ MayFail \in BOOLEAN
  /\ NULL \notin Int

VARIABLES
  st,          \* the tab's entry of tabState
  scans,       \* IDs given so far
  jobs,        \* scan -> where its sendScanToTab is
  tears,       \* opening -> where the tearDownTab of its end is
  recovery,    \* the recovery: idle, asking, or the ID the page answered
  waiting,     \* messages that wait for the recovery
  prepare,     \* scan -> where the prepare-rule-core of its candidate is
  rescan,      \* auto-rescan timers that are running
  devtoolsTabs, panelPorts, \* the worker knows of DevTools, of the panel
  toCore,      \* scan-cancel-tab messages on their way, by who awaits them
  doc,         \* the document in the tab
  loading,     \* webNavigation.onCompleted is still to come for it
  page,        \* its content script; told is history: has it reported a scan
               \* complete in this life of the worker
  toPage, fromPage, \* messages, in order
  devtools,    \* DevTools: is it open, which opening, is its port connected
  panel,       \* the panel: what it shows, is its port connected
  restarts

coroutines == <<jobs, tears>>
recoveryVars == <<recovery, waiting, prepare>>
ports == <<devtoolsTabs, panelPorts>>
messages == <<toCore, toPage, fromPage>>
tabVars == <<doc, loading, page>>
devtoolsVars == <<devtools, panel>>
counters == <<scans, restarts>>
workerVars == <<st, jobs, tears, recoveryVars, rescan, devtoolsTabs, panelPorts>>
devVars == <<devtoolsTabs, panelPorts, devtools, panel>>
vars == <<workerVars, messages, tabVars, devtoolsVars, counters>>

Scans == 1..MaxScans
Openings == 1..MaxOpens
Undefined == 0                      \* this worker has no scan ID for the tab yet
NoReport == [scan |-> NULL, doc |-> 0, some |-> FALSE]
Fresh == [known |-> FALSE, scan |-> Undefined, report |-> NoReport, complete |-> FALSE,
          scanning |-> FALSE, error |-> FALSE, injected |-> FALSE, csInjected |-> FALSE]
NoScript == [loaded |-> FALSE, scan |-> NULL, run |-> "idle", injected |-> FALSE, timer |-> FALSE,
             told |-> FALSE]
Idle == [state |-> "idle", scan |-> NULL]

Init ==
  /\ st = Fresh /\ scans = 0
  /\ jobs = [s \in Scans |-> "over"] /\ tears = [o \in Openings |-> "over"]
  /\ recovery = Idle /\ waiting = <<>> /\ prepare = [s \in Scans |-> "none"] /\ rescan = 0
  /\ devtoolsTabs = FALSE /\ panelPorts = FALSE /\ toCore = <<>>
  /\ doc = 1 /\ loading = FALSE /\ page = NoScript
  /\ toPage = <<>> /\ fromPage = <<>>
  /\ devtools = [open |-> FALSE, opened |-> 0, linked |-> FALSE]
  /\ panel = [shows |-> "closed", linked |-> FALSE]
  /\ restarts = 0

Findings(s, some, complete) ==
  [type |-> "findings", scan |-> s, doc |-> doc, some |-> some, complete |-> complete]
Failure(s) == [type |-> "detector-error", scan |-> s]
Prepare(s) == [type |-> "prepare", scan |-> s]
Rescan == [type |-> "scan"]

\* Bound: what may still ask for a scan finds an ID left.
Rescans == {i \in DOMAIN fromPage : fromPage[i] = Rescan}
One(b) == IF b THEN 1 ELSE 0
Room == scans + rescan + One(loading) + One(page.timer) + Cardinality(Rescans) < MaxScans

-----------------------------------------------------------------------------
(* The worker: state of the tab.                                           *)

\* cancelTabScans, awaited by a scan, by a tear-down or by nobody.
ForScan(s) == [awaits |-> "scan", id |-> s]
ForTear(o) == [awaits |-> "tear", id |-> o]
ForNobody == [awaits |-> "nobody", id |-> 0]
CancelTabScans(who) == toCore' = Append(toCore, who)

\* sendScanToTab up to its first await.
StartScan ==
  /\ scans < MaxScans
  /\ scans' = scans + 1
  /\ st' = [st EXCEPT !.known = TRUE, !.scan = scans + 1, !.report = NoReport,
                      !.complete = FALSE, !.scanning = TRUE, !.error = FALSE]
  /\ jobs' = [jobs EXCEPT ![scans + 1] = "cancelling"]
  /\ CancelTabScans(ForScan(scans + 1))

\* Faulty variant: the page is told of the error, and stays "scanning".
FailedStillScanning(state, s) ==
  IF state.scan # s THEN state
  ELSE [state EXCEPT !.report = NoReport, !.complete = FALSE, !.error = TRUE]

\* reportScanFailure, for the current scan only.
Failed(state, s) ==
  IF state.scan # s THEN state
  ELSE [state EXCEPT !.report = NoReport, !.complete = FALSE, !.scanning = FALSE, !.error = TRUE]

\* A report of the page, when its scan is the current one; a prepare-rule-core
\* only asks.
Accept(state, m) ==
  IF state.scan # m.scan \/ m.type = "prepare" THEN state
  ELSE IF m.type = "detector-error" THEN Failed(state, m.scan)
  ELSE [state EXCEPT !.report = [scan |-> m.scan, doc |-> m.doc, some |-> m.some],
                     !.complete = m.complete, !.scanning = ~m.complete,
                     !.error = FALSE, !.injected = TRUE]

\* What becomes of the state when the page's reports are heard in their order.
Heard(state, reports) ==
  LET heard[n \in 0 .. Len(reports)] ==
        IF n = 0 THEN state ELSE Accept(heard[n - 1], reports[n])
  IN  heard[Len(reports)]

Cleared(state) ==
  [state EXCEPT !.report = NoReport, !.complete = FALSE, !.scanning = FALSE,
                !.error = FALSE, !.injected = FALSE, !.csInjected = FALSE]

\* What the panel makes of a message: it renders results, shows that the page
\* is being scanned after a navigation, and knows no scan-failed.
PanelShows(what) ==
  panel' = IF panelPorts /\ panel.linked THEN [panel EXCEPT !.shows = what] ELSE panel

AsksWorker(m) == fromPage' = Append(fromPage, m)
TellsPage(m) == toPage' = Append(toPage, m)

-----------------------------------------------------------------------------
(* The worker: sendScanToTab, from await to await.                         *)

Current(s) == st.scan = s
JobGoesTo(s, where) == jobs' = [jobs EXCEPT ![s] = where]

ScanCancels(s) ==
  /\ jobs[s] = "cancelled"
  /\ JobGoesTo(s, IF ~Current(s) THEN "over" ELSE IF st.csInjected THEN "starting" ELSE "injecting")
  /\ UNCHANGED <<st, tears, rescan, recoveryVars, devVars, tabVars, messages, counters>>

\* executeScript: whatever document is in the tab by then gets the script
\* (once), unless it may not be injected.
ScanInjects(s) ==
  /\ jobs[s] = "injecting"
  /\ \/ page' = [page EXCEPT !.loaded = TRUE] /\ JobGoesTo(s, "injected")
     \/ MayFail /\ UNCHANGED page /\ JobGoesTo(s, "refused")
  /\ UNCHANGED <<st, tears, rescan, doc, loading, recoveryVars, devVars, messages, counters>>

ScanInjected(s) ==
  /\ jobs[s] = "injected"
  /\ st' = IF Current(s) THEN [st EXCEPT !.csInjected = TRUE] ELSE st
  /\ JobGoesTo(s, IF Current(s) THEN "starting" ELSE "over")
  /\ UNCHANGED <<tears, rescan, recoveryVars, devVars, tabVars, messages, counters>>

\* The rule core and the settings are there: the page is told to scan.
ScanStarts(s) ==
  /\ jobs[s] = "starting"
  /\ IF Current(s) THEN TellsPage([type |-> "scan", scan |-> s]) /\ JobGoesTo(s, "sent")
                   ELSE JobGoesTo(s, "over") /\ UNCHANGED toPage
  /\ UNCHANGED <<st, tears, rescan, toCore, fromPage, recoveryVars, devVars, tabVars, counters>>

\* Faulty variant: the error is dropped.
ScanFailsSilently(s) ==
  /\ \/ jobs[s] \in {"refused", "deaf"}
     \/ MayFail /\ jobs[s] = "starting" /\ Current(s)
  /\ JobGoesTo(s, "over")
  /\ UNCHANGED <<st, tears, rescan, recoveryVars, devVars, tabVars, messages, counters>>

\* The injection was refused, the core does not come up, or nobody in the
\* page listened.
ScanFails(s) ==
  /\ \/ jobs[s] \in {"refused", "deaf"}
     \/ MayFail /\ jobs[s] = "starting" /\ Current(s)
  /\ st' = Failed(st, s)
  /\ JobGoesTo(s, "over")
  /\ UNCHANGED <<tears, rescan, recoveryVars, devVars, tabVars, messages, counters>>

-----------------------------------------------------------------------------
(* The worker: tearDownTab.                                                *)

TearCancels(o) ==
  /\ tears[o] = "cancelled"
  /\ IF st.scan = NULL
       THEN TellsPage([type |-> "remove", tear |-> o]) /\ tears' = [tears EXCEPT ![o] = "removing"]
       ELSE tears' = [tears EXCEPT ![o] = "over"] /\ UNCHANGED toPage
  /\ UNCHANGED <<st, jobs, rescan, toCore, fromPage, recoveryVars, devVars, tabVars, counters>>

\* Faulty variant: the scan ID is not read again after the last await.
TearEndsUnchecked(o) ==
  /\ tears[o] = "removed"
  /\ tears' = [tears EXCEPT ![o] = "over"]
  /\ st' = Cleared(st) /\ panelPorts' = FALSE
  /\ UNCHANGED <<jobs, rescan, devtoolsTabs, recoveryVars, devtoolsVars, tabVars, messages, counters>>

TearEnds(o) ==
  /\ tears[o] = "removed"
  /\ tears' = [tears EXCEPT ![o] = "over"]
  /\ IF st.scan = NULL THEN st' = Cleared(st) /\ panelPorts' = FALSE
                       ELSE UNCHANGED <<st, panelPorts>>
  /\ UNCHANGED <<jobs, rescan, devtoolsTabs, recoveryVars, devtoolsVars, tabVars, messages, counters>>

-----------------------------------------------------------------------------
(* The worker: messages of the page (acceptScanMessage).                   *)

\* prepareRuleCore: for the current scan the core is made ready.
Prepares(current, messagesHeard) ==
  prepare' = [s \in Scans |->
                IF \A i \in DOMAIN messagesHeard : messagesHeard[i] # Prepare(s) THEN prepare[s]
                ELSE IF s = current THEN "readying" ELSE "superseded"]

\* The core is there, or does not come up; the scan may be another by now.
RuleCoreReady(s) ==
  /\ prepare[s] = "readying"
  /\ \/ prepare' = [prepare EXCEPT ![s] = IF Current(s) THEN "ready" ELSE "superseded"]
     \/ MayFail /\ prepare' = [prepare EXCEPT ![s] = "failed"]
  /\ UNCHANGED <<st, rescan, recovery, waiting, coroutines, devVars, tabVars, messages, counters>>

\* A worker without a scan ID asks the document that is there, once for all
\* the messages that come in the meantime.
Recover(m) ==
  /\ st' = [st EXCEPT !.known = TRUE]
  /\ waiting' = Append(waiting, m)
  /\ IF recovery = Idle
       THEN recovery' = [state |-> "asking", scan |-> NULL] /\ TellsPage([type |-> "get-scan-id"])
       ELSE UNCHANGED <<recovery, toPage>>
  /\ UNCHANGED <<prepare, panel>>

ReceiveReport ==
  /\ fromPage # <<>> /\ Head(fromPage) # Rescan
  /\ LET m == Head(fromPage) IN
     IF st.scan = Undefined
       THEN Recover(m)
       ELSE /\ st' = Accept(st, m) /\ Prepares(st.scan, <<m>>)
            /\ IF Current(m.scan) /\ m.type = "findings" THEN PanelShows("result") ELSE UNCHANGED panel
            /\ UNCHANGED <<recovery, waiting, toPage>>
  /\ fromPage' = Tail(fromPage)
  /\ UNCHANGED <<rescan, toCore, devtools, coroutines, ports, tabVars, counters>>

\* The page's SPA timer, or its user, asks for a scan.
ReceiveRescan ==
  /\ fromPage # <<>> /\ Head(fromPage) = Rescan
  /\ StartScan
  /\ fromPage' = Tail(fromPage)
  /\ UNCHANGED <<tears, rescan, toPage, restarts, recoveryVars, devVars, tabVars>>

\* Faulty variant: the first report is believed, and the page's answer is not needed.
RecoveredFromReport ==
  IF st.scan = Undefined
    THEN [st EXCEPT !.scan = Head(waiting).scan, !.csInjected = TRUE]
    ELSE st

\* The recovery ends, and the messages that waited for it go on in order.
Recovered ==
  IF st.scan = Undefined /\ recovery.scan # NULL
    THEN [st EXCEPT !.scan = recovery.scan, !.csInjected = TRUE]
    ELSE st

\* Faulty variants: the recovery is not forgotten; the last report goes first.
RecoveryEndsKept ==
  /\ recovery.state = "answered" /\ waiting # <<>>
  /\ st' = Heard(Recovered, waiting)
  /\ waiting' = <<>>
  /\ UNCHANGED <<recovery, prepare, rescan, panel, devtools, coroutines, ports, tabVars, messages, counters>>
RecoveryEndsBackwards ==
  /\ recovery.state = "answered"
  /\ st' = Heard(Recovered, [i \in DOMAIN waiting |-> waiting[Len(waiting) + 1 - i]])
  /\ waiting' = <<>> /\ recovery' = Idle
  /\ Prepares(Recovered.scan, waiting)
  /\ UNCHANGED <<rescan, panel, devtools, coroutines, ports, tabVars, messages, counters>>

RecoveryEnds ==
  /\ recovery.state = "answered"
  /\ st' = Heard(Recovered, waiting) /\ Prepares(Recovered.scan, waiting)
  /\ IF \E i \in DOMAIN waiting : waiting[i].type = "findings" /\ waiting[i].scan = Recovered.scan
       THEN PanelShows("result") ELSE UNCHANGED panel
  /\ waiting' = <<>> /\ recovery' = Idle
  /\ UNCHANGED <<rescan, devtools, coroutines, ports, tabVars, messages, counters>>

-----------------------------------------------------------------------------
(* The worker: navigation, timers, the user.                               *)

\* webNavigation.onCompleted: whatever the tab had is gone; while DevTools is
\* open a page that had findings is scanned again, 300 ms later.
WasActive == st.injected \/ st.report.some

Completed ==
  /\ loading
  /\ loading' = FALSE /\ CancelTabScans(ForNobody)
  /\ st' = IF st.known THEN [Cleared(st) EXCEPT !.scan = NULL] ELSE st
  /\ IF st.known THEN PanelShows("scanning") ELSE UNCHANGED panel
  /\ rescan' = rescan + (IF devtoolsTabs /\ WasActive THEN 1 ELSE 0)
  /\ UNCHANGED <<toPage, fromPage, doc, page, devtools, coroutines, recoveryVars, ports, counters>>

\* The core drops the sessions of the tab: a driver that waits for its next
\* reply is told to go, one that is finding an answer will be told that there
\* is no such session.
Dropped(run) ==
  CASE run \in {"running", "partial"} -> {"idle", "orphaned"}
    [] run = "analyzing" -> {"done", "orphaned"}
    [] OTHER -> {run}

CancelLands ==
  /\ toCore # <<>>
  /\ toCore' = Tail(toCore)
  /\ \E run \in Dropped(page.run) : page' = [page EXCEPT !.run = run]
  /\ LET who == Head(toCore) IN
     /\ jobs' = IF who.awaits = "scan" /\ jobs[who.id] = "cancelling"
                  THEN [jobs EXCEPT ![who.id] = "cancelled"] ELSE jobs
     /\ tears' = IF who.awaits = "tear" /\ tears[who.id] = "cancelling"
                   THEN [tears EXCEPT ![who.id] = "cancelled"] ELSE tears
  /\ UNCHANGED <<st, rescan, toPage, fromPage, doc, loading, recoveryVars, devVars, counters>>

RescanTimer ==
  /\ rescan > 0 /\ rescan' = rescan - 1
  /\ StartScan
  /\ UNCHANGED <<tears, toPage, fromPage, restarts, recoveryVars, devVars, tabVars>>

\* The popup's button; a setting that changes scans the active tabs again.
UserScans ==
  /\ Room /\ StartScan
  /\ UNCHANGED <<tears, rescan, toPage, fromPage, restarts, recoveryVars, devVars, tabVars>>

-----------------------------------------------------------------------------
(* DevTools: the lifecycle port and the panel's port.                      *)

\* devtools.js connects as DevTools opens, and again after the worker ended.
DevToolsConnects ==
  /\ \/ ~devtools.open /\ devtools.opened < MaxOpens
     \/ devtools.open /\ ~devtools.linked
  /\ devtools' = [open |-> TRUE, linked |-> TRUE,
                  opened |-> IF devtools.open THEN devtools.opened ELSE devtools.opened + 1]
  /\ devtoolsTabs' = TRUE
  /\ UNCHANGED <<st, rescan, panelPorts, panel, coroutines, recoveryVars, tabVars, messages, counters>>

\* The panel opens, or connects again: it is sent the state, and without
\* findings the page is scanned.
PanelConnects ==
  /\ devtools.open /\ ~panel.linked
  /\ panel' = [shows |-> "result", linked |-> TRUE]
  /\ panelPorts' = TRUE
  /\ IF st.report.some
       THEN UNCHANGED <<st, scans, jobs, toCore>>
       ELSE Room /\ StartScan
  /\ UNCHANGED <<tears, rescan, devtoolsTabs, toPage, fromPage, devtools, restarts, recoveryVars, tabVars>>

\* Rescan, in the panel.
PanelScans ==
  /\ panel.linked /\ Room /\ StartScan
  /\ panel' = [panel EXCEPT !.shows = "scanning"]
  /\ UNCHANGED <<tears, rescan, toPage, fromPage, devtools, restarts, recoveryVars, ports, tabVars>>

\* DevTools closes: the ports the worker has disconnect, and the lifecycle
\* port's end runs tearDownTab.
DevToolsCloses ==
  /\ devtools.open
  /\ devtools' = [devtools EXCEPT !.open = FALSE, !.linked = FALSE]
  /\ panel' = [shows |-> "closed", linked |-> FALSE]
  /\ panelPorts' = FALSE
  /\ IF devtools.linked
       THEN /\ devtoolsTabs' = FALSE
            /\ st' = [st EXCEPT !.known = TRUE, !.scan = NULL]
            /\ tears' = [tears EXCEPT ![devtools.opened] = "cancelling"]
            /\ CancelTabScans(ForTear(devtools.opened))
       ELSE UNCHANGED <<devtoolsTabs, st, tears, toCore>>
  /\ UNCHANGED <<jobs, rescan, toPage, fromPage, recoveryVars, tabVars, counters>>

\* The worker ends "after ~30s of inactivity" and starts anew with the next
\* event: its memory is lost, but no await, message or short timer of its own.
Inactive ==
  /\ \A s \in Scans : jobs[s] = "over"
  /\ \A o \in Openings : tears[o] = "over"
  /\ recovery = Idle /\ \A s \in Scans : prepare[s] # "readying"
  /\ rescan = 0 /\ toCore = <<>> /\ toPage = <<>> /\ fromPage = <<>>
  /\ ~loading  \* no document takes that long

Restart ==
  /\ Inactive
  /\ restarts < MaxRestarts /\ restarts' = restarts + 1
  /\ st' = Fresh
  /\ devtoolsTabs' = FALSE /\ panelPorts' = FALSE
  /\ devtools' = [devtools EXCEPT !.linked = FALSE]
  /\ panel' = [panel EXCEPT !.linked = FALSE]
  /\ page' = [page EXCEPT !.told = FALSE]
  /\ UNCHANGED <<rescan, scans, coroutines, recoveryVars, doc, loading, messages>>

-----------------------------------------------------------------------------
(* The content script.                                                     *)

\* The awaiting sender hears whether somebody was there.
Answered(m, there) ==
  CASE m.type = "scan" ->
         /\ jobs' = IF jobs[m.scan] = "sent"
                      THEN [jobs EXCEPT ![m.scan] = IF there THEN "over" ELSE "deaf"] ELSE jobs
         /\ UNCHANGED <<tears, recovery>>
    [] m.type = "remove" ->
         /\ tears' = IF tears[m.tear] = "removing" THEN [tears EXCEPT ![m.tear] = "removed"] ELSE tears
         /\ UNCHANGED <<jobs, recovery>>
    [] m.type = "get-scan-id" ->
         /\ recovery' = [state |-> "answered", scan |-> IF there THEN page.scan ELSE NULL]
         /\ UNCHANGED <<jobs, tears>>

\* scan: a new generation, the sessions of the old one are cancelled.
\* remove: no scan any more.  get-scan-id changes nothing.
PageReceives ==
  /\ toPage # <<>>
  /\ LET m == Head(toPage) IN
     /\ Answered(m, page.loaded)
     /\ page' = IF ~page.loaded THEN page
                ELSE CASE m.type = "scan" -> [page EXCEPT !.scan = m.scan, !.run = "starting"]
                       [] m.type = "remove" -> [page EXCEPT !.scan = NULL, !.run = "idle", !.injected = FALSE]
                       [] OTHER -> page
  /\ toPage' = Tail(toPage)
  /\ UNCHANGED <<st, waiting, prepare, rescan, toCore, fromPage, doc, loading, devVars, counters>>

\* runScan and analyzeCandidate, as far as the page goes by itself: the
\* session starts; the worker has made the core ready for a candidate, or the
\* scan is superseded; what is thrown is reported.
PageGoes(where) == page' = [page EXCEPT !.run = where]
PageThrows == PageGoes("idle") /\ AsksWorker(Failure(page.scan))

PageRuns ==
  /\ \/ page.run = "starting" /\ PageGoes("running") /\ UNCHANGED fromPage
     \/ /\ page.run = "preparing" /\ prepare[page.scan] \in {"ready", "superseded"}
        /\ PageGoes(IF prepare[page.scan] = "ready" THEN "analyzing" ELSE "done")
        /\ UNCHANGED fromPage
     \/ /\ \/ MayFail /\ page.run = "starting"
           \/ page.run = "preparing" /\ prepare[page.scan] = "failed"
           \/ page.run = "orphaned"
        /\ PageThrows
  /\ UNCHANGED <<toCore, toPage, doc, loading, workerVars, devtoolsVars, counters>>

\* What the core answers the page's session: findings, or that it is done;
\* then, for a candidate, findings to add, or none.  Any of them may throw.
Completes(where, some) ==
  /\ page' = [page EXCEPT !.run = where, !.told = TRUE]
  /\ AsksWorker(Findings(page.scan, some, TRUE))

CoreAnswers(some) ==
  /\ \/ /\ page.run = "running"
        /\ page' = [page EXCEPT !.run = "partial", !.injected = TRUE]
        /\ AsksWorker(Findings(page.scan, some, FALSE))
     \/ page.run = "partial" /\ Completes("lazy", some)
     \/ page.run = "analyzing" /\ some /\ Completes("done", TRUE)
     \/ page.run = "analyzing" /\ PageGoes("done") /\ UNCHANGED fromPage
     \/ MayFail /\ page.run \in {"running", "partial", "analyzing"} /\ PageThrows
  /\ UNCHANGED <<toCore, toPage, doc, loading, workerVars, devtoolsVars, counters>>

\* A candidate scrolls into view: the page asks for the core.  Bound: one for
\* a scan, after the scan itself.
CandidateSeen ==
  /\ page.run = "lazy" /\ PageGoes("preparing") /\ AsksWorker(Prepare(page.scan))
  /\ UNCHANGED <<toCore, toPage, doc, loading, workerVars, devtoolsVars, counters>>

\* popstate, hashchange: the run is invalid now, the worker is asked for the
\* next one 500 ms later.
SpaNavigates ==
  /\ page.injected /\ ~page.timer /\ Room
  /\ page' = [page EXCEPT !.scan = NULL, !.run = "idle", !.timer = TRUE]
  /\ UNCHANGED <<doc, loading, workerVars, devtoolsVars, messages, counters>>

SpaTimer ==
  /\ page.timer /\ page' = [page EXCEPT !.timer = FALSE]
  /\ AsksWorker(Rescan)
  /\ UNCHANGED <<toCore, toPage, doc, loading, workerVars, devtoolsVars, counters>>

\* A navigation commits: another document, without a script.
Commit ==
  /\ doc < MaxDocs /\ doc' = doc + 1
  /\ loading \/ Room
  /\ loading' = TRUE /\ page' = NoScript
  /\ UNCHANGED <<workerVars, devtoolsVars, messages, counters>>

-----------------------------------------------------------------------------
Job(s) == ScanCancels(s) \/ ScanInjects(s) \/ ScanInjected(s) \/ ScanStarts(s) \/ ScanFails(s)
Tear(o) == TearCancels(o) \/ TearEnds(o)

\* What goes on by itself, without a user, an accident, the core or the page's
\* network.
Progress ==
  \/ \E s \in Scans : Job(s)
  \/ \E o \in Openings : Tear(o)
  \/ \E s \in Scans : RuleCoreReady(s)
  \/ ReceiveReport \/ ReceiveRescan \/ RecoveryEnds
  \/ CancelLands \/ RescanTimer
  \/ PageReceives \/ PageRuns \/ SpaTimer

Next ==
  \/ Progress
  \/ Completed
  \/ \E some \in BOOLEAN : CoreAnswers(some)
  \/ CandidateSeen
  \/ UserScans
  \/ DevToolsConnects \/ PanelConnects \/ PanelScans \/ DevToolsCloses
  \/ SpaNavigates \/ Commit \/ Restart

Spec == Init /\ [][Next]_vars

\* Awaited calls of the browser answer, messages arrive, timers fire; none of it
\* can go on for ever without a user.  Nothing makes the core answer a session
\* (a thrown driver of another tab may hold its chain) or a document complete.
FairSpec == Spec /\ WF_vars(Progress)
-----------------------------------------------------------------------------
Finished == {"lazy", "preparing", "analyzing", "done"}
Runs == {"idle", "starting", "running", "partial", "orphaned"} \cup Finished
ScanIds == Scans \cup {NULL}

TypeOK ==
  /\ st \in [known : BOOLEAN, scan : ScanIds \cup {Undefined},
             report : [scan : ScanIds, doc : 0..MaxDocs, some : BOOLEAN],
             complete : BOOLEAN, scanning : BOOLEAN, error : BOOLEAN,
             injected : BOOLEAN, csInjected : BOOLEAN]
  /\ scans \in 0..MaxScans
  /\ jobs \in [Scans -> {"over", "cancelling", "cancelled", "injecting", "injected", "refused", "starting", "sent", "deaf"}]
  /\ tears \in [Openings -> {"over", "cancelling", "cancelled", "removing", "removed"}]
  /\ recovery \in [state : {"idle", "asking", "answered"}, scan : ScanIds]
  /\ recovery = Idle <=> waiting = <<>>
  /\ prepare \in [Scans -> {"none", "readying", "ready", "superseded", "failed"}]
  /\ rescan \in 0..MaxScans
  /\ page \in [loaded : BOOLEAN, scan : ScanIds, run : Runs, injected : BOOLEAN, timer : BOOLEAN,
               told : BOOLEAN]
  /\ ~page.loaded => page = NoScript
  /\ panelPorts => panel.linked

TearingDown == \E o \in Openings : tears[o] # "over"

\* A page that has loaded never shows the findings of the one before it:
\* late reports, scans that were already on their way, a worker that lost its
\* memory, none brings them back.
ReportOfThisPage ==
  st.report # NoReport =>
    /\ loading \/ st.report.doc = doc
    /\ st.report.scan = st.scan \/ TearingDown

\* The user is told that a scan is running only while one is: somebody will
\* still report on it, or the page it was for is gone and the next one
\* will say so.
Underway(s) ==
  \/ s \in Scans /\ jobs[s] # "over"
  \/ \E i \in DOMAIN toPage : toPage[i].type = "scan" /\ toPage[i].scan = s
  \/ page.scan = s /\ page.run \in {"starting", "running", "partial"}
  \/ \E i \in DOMAIN fromPage : fromPage[i] # Rescan /\ fromPage[i].scan = s
NextIsComing ==
  \/ loading \/ page.timer \/ Rescan \in {fromPage[i] : i \in DOMAIN fromPage}
  \/ TearingDown
ScanningIsTrue == st.scanning => Underway(st.scan) \/ NextIsComing

\* tearDownTab never takes a newer scan away: not its page state with the
\* remove, and not its worker state when the remove is answered.
TearDownSparesNewScans ==
  /\ \A i \in DOMAIN toPage : toPage[i].type = "remove" => page.scan = NULL \/ page.scan # st.scan
  /\ \A s \in Scans : st.scan = s /\ jobs[s] # "over" => st.scanning

\* What the page finished, the worker knows as finished once it has heard
\* everything; also when a new worker had to ask the page first, and reports
\* arrived while it did.  Only a worker that came up after the page had said so
\* may know no more than the scan's ID, which it asked for on behalf of a
\* candidate: it takes no part of the report for all of it, and says neither
\* "scanning" nor an error.
CompletionIsHeard ==
  page.run \in Finished /\ st.scan = page.scan /\ fromPage = <<>> /\ waiting = <<>> =>
    \/ st.complete
    \/ ~page.told /\ st.report = NoReport /\ ~st.scanning /\ ~st.error

\* Whatever happens, the tab does not stay "scanning" for ever, unless the core
\* never answers the session of this very scan, or the document never completes.
HeldUp ==
  \/ loading
  \/ page.run \in {"running", "partial"} /\ page.scan = st.scan
ScanSettles == st.scanning ~> (~st.scanning \/ []HeldUp)
=============================================================================
