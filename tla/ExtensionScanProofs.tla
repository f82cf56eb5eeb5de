------------------------ MODULE ExtensionScanProofs ------------------------
(***************************************************************************)
(* Proofs about ExtensionScan, for any number of scans, documents,         *)
(* openings of DevTools and ends of the worker.                            *)
(***************************************************************************)
EXTENDS ExtensionScan, FunctionTheorems, FiniteSetTheorems, WellFoundedInduction, SequenceTheorems, TLAPS

Reports ==
  [type : {"findings"}, scan : Scans, doc : 1..MaxDocs, some : BOOLEAN, complete : BOOLEAN]
    \cup [type : {"detector-error", "prepare"}, scan : Scans]
FromPage == Reports \cup {Rescan}
Orders ==
  [type : {"scan"}, scan : Scans] \cup [type : {"remove"}, tear : Openings] \cup [type : {"get-scan-id"}]
Cancels ==
  [awaits : {"scan"}, id : Scans] \cup [awaits : {"tear"}, id : Openings] \cup {ForNobody}

WorkerState ==
  [known : BOOLEAN, scan : ScanIds \cup {Undefined},
   report : [scan : ScanIds, doc : 0..MaxDocs, some : BOOLEAN],
   complete : BOOLEAN, scanning : BOOLEAN, error : BOOLEAN,
   injected : BOOLEAN, csInjected : BOOLEAN]
JobStates ==
  {"over", "cancelling", "cancelled", "injecting", "injected", "refused", "starting", "sent", "deaf"}
TearStates == {"over", "cancelling", "cancelled", "removing", "removed"}
Preparations == {"none", "readying", "ready", "superseded", "failed"}
Scripts == [loaded : BOOLEAN, scan : ScanIds, run : Runs, injected : BOOLEAN, timer : BOOLEAN,
            told : BOOLEAN]

(***************************************************************************)
(* The inductive invariant, part by part: types, and the bound.            *)
(***************************************************************************)
Typed ==
  /\ st \in WorkerState /\ scans \in 0..MaxScans /\ rescan \in Nat
  /\ jobs \in [Scans -> JobStates] /\ tears \in [Openings -> TearStates]
  /\ recovery \in [state : {"idle", "asking", "answered"}, scan : ScanIds]
  /\ doc \in 1..MaxDocs /\ loading \in BOOLEAN
  /\ page \in Scripts
  /\ ~page.loaded => page = NoScript
  /\ page.run # "idle" => page.scan # NULL

Lines ==
  /\ waiting \in Seq(Reports) /\ fromPage \in Seq(FromPage)
  /\ toPage \in Seq(Orders) /\ toCore \in Seq(Cancels)

DevTools ==
  /\ devtools \in [open : BOOLEAN, opened : 0..MaxOpens, linked : BOOLEAN]
  /\ panel \in [shows : {"closed", "result", "scanning"}, linked : BOOLEAN]
  /\ devtoolsTabs \in BOOLEAN /\ panelPorts \in BOOLEAN
  /\ panelPorts => panel.linked
  /\ devtools.open => devtools.opened \in Openings

Asked == scans + rescan + One(loading) + One(page.timer) + Cardinality(Rescans)
Budget == Asked <= MaxScans

(***************************************************************************)
(* The reports that are on their way or wait for the recovery, and what    *)
(* they say of a scan in the end.                                          *)
(***************************************************************************)
ReportsIn(q) == {q[i] : i \in DOMAIN q} \ {Rescan}
Told == ReportsIn(waiting) \cup ReportsIn(fromPage)

About(m, s) == m # Rescan /\ m.type # "prepare" /\ m.scan = s
Silent(q, s) == \A i \in DOMAIN q : ~About(q[i], s)
IsLast(q, s, m) ==
  \E i \in DOMAIN q : q[i] = m /\ About(m, s) /\ \A j \in DOMAIN q : i < j => ~About(q[j], s)

IsPart(m) == m.type = "findings" /\ ~m.complete
IsWhole(m) == m.type = "findings" /\ m.complete

SaysPart(s) ==
  \/ \E m \in Reports : IsLast(fromPage, s, m) /\ IsPart(m)
  \/ /\ Silent(fromPage, s)
     /\ \/ st.scan = Undefined /\ \E m \in Reports : IsLast(waiting, s, m) /\ IsPart(m)
        \/ st.scan # Undefined /\ st.scanning
SaysWhole(s) ==
  \/ \E m \in Reports : IsLast(fromPage, s, m) /\ IsWhole(m)
  \/ /\ Silent(fromPage, s)
     /\ \/ st.scan = Undefined /\ \E m \in Reports : IsLast(waiting, s, m) /\ IsWhole(m)
        \/ st.scan # Undefined /\ st.complete

\* A worker that came up since was told nothing of the scan but its ID.
OnlyRecalls(s) ==
  /\ ~page.told
  /\ Silent(fromPage, s)
  /\ st.scan = Undefined => Silent(waiting, s)
  /\ st.report = NoReport /\ ~st.scanning /\ ~st.error

(***************************************************************************)
(* Scan IDs are given in order: none is anywhere before it was given.      *)
(***************************************************************************)
Given ==
  /\ st.scan \in Scans => st.scan <= scans
  /\ page.scan \in Scans => page.scan <= scans
  /\ recovery.scan \in Scans => recovery.scan <= scans
  /\ \A m \in Told : m.scan <= scans
  /\ \A i \in DOMAIN toCore : toCore[i].awaits = "scan" => toCore[i].id <= scans
  /\ \A s \in Scans : jobs[s] # "over" => s <= scans

(***************************************************************************)
(* A worker without a scan ID asks the page once; what it asks for is not  *)
(* in the reports of a scan it knows.                                      *)
(***************************************************************************)
Recovering ==
  /\ recovery.state = "idle" => recovery = Idle
  /\ recovery.state = "asking" => recovery.scan = NULL
  /\ recovery = Idle <=> waiting = <<>>
  /\ \A i \in DOMAIN toPage : toPage[i].type = "get-scan-id" => recovery.state = "asking"
  /\ \A i, j \in DOMAIN toPage :
        toPage[i].type = "get-scan-id" /\ toPage[j].type = "get-scan-id" => i = j
  /\ recovery # Idle => st.known
  /\ \A m \in ReportsIn(waiting) : m.scan # st.scan
  /\ ~st.known => st.scan = Undefined

(***************************************************************************)
(* A sendScanToTab that goes on has not reached the page: its scan is not  *)
(* the page's and nothing was reported on it.  Scans reach the page in     *)
(* their order.                                                            *)
(***************************************************************************)
Job1(s) ==
  /\ page.scan # s /\ recovery.scan # s
  /\ \A m \in Told : m.scan # s
  /\ st.scan = s => s = scans /\ st.scanning
  /\ st.scan \in Scans => s <= st.scan
Jobs ==
  /\ \A s \in Scans : jobs[s] # "over" => Job1(s)
  /\ \A i \in DOMAIN toPage : toPage[i].type = "scan" =>
       /\ jobs[toPage[i].scan] = "sent"
       /\ page.scan # NULL => page.scan < toPage[i].scan
  /\ \A i, j \in DOMAIN toPage :
        i < j /\ toPage[i].type = "scan" /\ toPage[j].type = "scan" => toPage[i].scan < toPage[j].scan

(***************************************************************************)
(* No scan-cancel-tab is on its way once the current scan's has landed.    *)
(***************************************************************************)
Cancelling ==
  /\ st.scan \in Scans /\ jobs[st.scan] # "cancelling" => toCore = <<>>
  /\ st.scan \in Scans /\ jobs[st.scan] = "cancelling" =>
       /\ toCore # <<>>
       /\ \A i \in DOMAIN toCore : toCore[i] = ForScan(st.scan) <=> i = Len(toCore)
  /\ st.scan = Undefined /\ toCore # <<>> => page.scan = NULL /\ recovery.scan = NULL

(***************************************************************************)
(* A worker that has lost its memory: nothing is on its way but what it    *)
(* asks the page, and what it hears is all about one scan, the page's.     *)
(***************************************************************************)
Anew ==
  st.scan = Undefined =>
    /\ \A s \in Scans : jobs[s] = "over"
    /\ \A o \in Openings : tears[o] = "over"
    /\ \A i \in DOMAIN toPage : toPage[i].type = "get-scan-id"
    /\ st.report = NoReport /\ ~st.scanning /\ ~st.complete /\ ~st.error
    /\ loading => page.scan = NULL
    /\ \A m, n \in Told : m.scan = n.scan
    /\ \A m \in Told : page.scan \in {NULL, m.scan} /\ recovery.scan \in {NULL, m.scan}
    /\ page.scan = NULL \/ recovery.scan = NULL \/ page.scan = recovery.scan
    /\ recovery.state = "answered" => page.scan \in {NULL, recovery.scan}

(***************************************************************************)
(* What is left of a scan that was torn down goes when the tear-down ends, *)
(* and a remove on its way is for an older scan.                           *)
(***************************************************************************)
Torn ==
  /\ st.scan = NULL /\ (st.scanning \/ st.report # NoReport) => TearingDown
  /\ \A i \in DOMAIN toPage : toPage[i].type = "remove" => page.scan = NULL \/ page.scan # st.scan
  /\ \A i, j \in DOMAIN toPage :
        i < j /\ toPage[i].type = "scan" /\ toPage[i].scan = st.scan => toPage[j].type # "remove"

(***************************************************************************)
(* The scan the worker takes for current, or is about to, is of the        *)
(* document in the tab, and so is the page's.                              *)
(***************************************************************************)
Taken == IF st.scan = Undefined THEN recovery.scan ELSE st.scan
Documents ==
  /\ st.report # NoReport => loading \/ st.report.doc = doc
  /\ st.report # NoReport /\ st.scan # NULL => st.report.scan = st.scan
  /\ \A m \in Told : m.type = "findings" =>
       /\ m.scan = page.scan => m.doc = doc
       /\ m.scan = Taken => loading \/ m.doc = doc

(***************************************************************************)
(* Who the worker believes, or will believe, to be scanning is; and what   *)
(* the page finished it knows as finished, or will.                        *)
(***************************************************************************)
Soon == loading \/ page.timer \/ Rescans # {}
Busy(s) ==
  \/ jobs[s] # "over"
  \/ page.scan = s /\ page.run \in {"starting", "running", "partial"}
Minds(s) == st.scan = s \/ (st.scan = Undefined /\ s \in {page.scan, recovery.scan})
Truth(s) ==
  /\ SaysPart(s) => Busy(s) \/ Soon
  /\ page.scan = s /\ page.run \in Finished => SaysWhole(s) \/ OnlyRecalls(s)
Truths == \A s \in Scans : Minds(s) => Truth(s)

EInv ==
  /\ Typed /\ Lines /\ DevTools /\ Budget
  /\ Given /\ Recovering /\ Jobs /\ Cancelling /\ Anew /\ Torn /\ Documents /\ Truths
----------------------------------------------------------------------------
(***************************************************************************)
(* Induction up to n, from the least number that is not good.              *)
(***************************************************************************)
Less == {ss \in Nat \X Nat : ss[1] < ss[2]}

LEMMA UpTo ==
  ASSUME NEW n \in Nat, NEW good,
         0 \in good,
         \A m \in 1 .. n : m - 1 \in good => m \in good
  PROVE  \A m \in 0 .. n : m \in good
<1> DEFINE bad == {m \in 0 .. n : m \notin good}
<1>1. SUFFICES ASSUME bad # {} PROVE FALSE OBVIOUS
<1>2. bad \subseteq Nat OBVIOUS
<1>3. IsWellFoundedOn(Less, Nat)
  <2>1. OpToRel(<, Nat) = Less BY DEF OpToRel, Less
  <2>. QED BY <2>1, NatLessThanWellFounded
<1>4. PICK x \in bad : \A y \in bad : <<y, x>> \notin Less BY <1>1, <1>2, <1>3, WFMin
<1>5. \A y \in bad : ~(y < x) BY <1>2, <1>4 DEF Less
<1>6. x \in 1 .. n BY <1>4
<1>7. x - 1 \in good BY <1>5, <1>6
<1>. QED BY <1>4, <1>6, <1>7

(***************************************************************************)
(* Sequences of reports.                                                   *)
(***************************************************************************)
LEMMA TailIs ==
  ASSUME NEW T, NEW q \in Seq(T), q # <<>>, NEW r, r = Tail(q)
  PROVE  /\ r \in Seq(T) /\ Head(q) \in T /\ Head(q) = q[1]
         /\ DOMAIN q = 1 .. Len(q) /\ Len(q) \in Nat \ {0} /\ 1 \in DOMAIN q
         /\ DOMAIN r = 1 .. Len(q) - 1 /\ Len(r) = Len(q) - 1
         /\ \A i \in DOMAIN r : i + 1 \in DOMAIN q /\ r[i] = q[i + 1]
<1>1. r \in Seq(T) /\ Len(r) = Len(q) - 1 /\ Len(q) \in Nat \ {0} OBVIOUS
<1>2. \A i \in 1 .. Len(q) - 1 : r[i] = q[i + 1] OBVIOUS
<1>3. DOMAIN r = 1 .. Len(r) /\ DOMAIN q = 1 .. Len(q) BY <1>1
<1>4. Head(q) = q[1] /\ q[1] \in T BY <1>1
<1>. QED BY <1>1, <1>2, <1>3, <1>4

LEMMA AppendIs ==
  ASSUME NEW T, NEW q \in Seq(T), NEW m \in T, NEW r, r = Append(q, m)
  PROVE  /\ r \in Seq(T) /\ r # <<>>
         /\ DOMAIN q = 1 .. Len(q) /\ Len(q) \in Nat /\ Len(r) = Len(q) + 1
         /\ DOMAIN r = 1 .. Len(q) + 1
         /\ \A i \in DOMAIN q : r[i] = q[i]
         /\ r[Len(q) + 1] = m
<1>1. r \in Seq(T) /\ Len(r) = Len(q) + 1 /\ Len(q) \in Nat OBVIOUS
<1>. QED BY <1>1

LEMMA ReportIsNoRescan == ASSUME NEW m \in Reports PROVE m # Rescan
<1>1. m.type # "scan" BY DEF Reports
<1>. QED BY <1>1 DEF Rescan

LEMMA ReportsInTail ==
  ASSUME NEW T, NEW q \in Seq(T), q # <<>>
  PROVE  /\ ReportsIn(Tail(q)) \subseteq ReportsIn(q)
         /\ Head(q) # Rescan => Head(q) \in ReportsIn(q)
<1> DEFINE r == Tail(q)
<1>1. /\ Head(q) = q[1] /\ 1 \in DOMAIN q
      /\ \A i \in DOMAIN r : i + 1 \in DOMAIN q /\ r[i] = q[i + 1]
  BY TailIs
<1>. QED BY <1>1 DEF ReportsIn

LEMMA ReportsInAppend ==
  ASSUME NEW T, NEW q \in Seq(T), NEW m \in T
  PROVE  ReportsIn(Append(q, m)) = ReportsIn(q) \cup ({m} \ {Rescan})
<1> DEFINE r == Append(q, m)
<1>1. /\ DOMAIN q = 1 .. Len(q) /\ Len(q) \in Nat /\ DOMAIN r = 1 .. Len(q) + 1
      /\ \A i \in DOMAIN q : r[i] = q[i]
      /\ r[Len(q) + 1] = m
  BY AppendIs
<1> HIDE DEF r
<1>2. {r[i] : i \in DOMAIN r} = {q[i] : i \in DOMAIN q} \cup {m}
  <2>1. \A i \in DOMAIN r : i \in DOMAIN q \/ i = Len(q) + 1 BY <1>1
  <2>2. DOMAIN q \subseteq DOMAIN r /\ Len(q) + 1 \in DOMAIN r BY <1>1
  <2>. QED BY <1>1, <2>1, <2>2
<1>3. ReportsIn(r) = ({q[i] : i \in DOMAIN q} \cup {m}) \ {Rescan} BY <1>2 DEF ReportsIn
<1>. QED BY <1>3 DEF ReportsIn, r

LEMMA ReportsInNone == ReportsIn(<<>>) = {}
BY DEF ReportsIn

LEMMA ReportsAreReports ==
  ASSUME Lines
  PROVE  /\ ReportsIn(waiting) \subseteq Reports
         /\ Told \subseteq Reports
<1>1. \A i \in DOMAIN waiting : waiting[i] \in Reports BY DEF Lines
<1>2. \A i \in DOMAIN fromPage : fromPage[i] \in FromPage BY DEF Lines
<1>. QED BY <1>1, <1>2 DEF Told, ReportsIn, FromPage

\* What the last report says, as reports come and go.
LEMMA SilentTail ==
  ASSUME NEW T, NEW q \in Seq(T), q # <<>>, NEW s, NEW r, r = Tail(q)
  PROVE  /\ \A m : IsLast(r, s, m) => IsLast(q, s, m)
         /\ ~About(Head(q), s) /\ Silent(r, s) => Silent(q, s)
         /\ Silent(q, s) => Silent(r, s) /\ ~About(Head(q), s)
         /\ About(Head(q), s) /\ Silent(r, s) => IsLast(q, s, Head(q))
         /\ \A m : IsLast(q, s, m) /\ ~IsLast(r, s, m) => Silent(r, s) /\ About(Head(q), s)
         /\ \A m : m # Head(q) /\ IsLast(q, s, m) => IsLast(r, s, m)
<1>1. /\ Head(q) = q[1] /\ 1 \in DOMAIN q
      /\ DOMAIN q = 1 .. Len(q) /\ Len(q) \in Nat \ {0}
      /\ DOMAIN r = 1 .. Len(q) - 1
      /\ \A i \in DOMAIN r : i + 1 \in DOMAIN q /\ r[i] = q[i + 1]
  BY TailIs
<1>2. \A i \in DOMAIN q : i = 1 \/ (i - 1 \in DOMAIN r /\ r[i - 1] = q[i] /\ i > 1)
  <2> TAKE i \in DOMAIN q
  <2>1. CASE i = 1 BY <2>1
  <2>2. CASE i # 1
    <3>1. i - 1 \in DOMAIN r /\ i > 1 BY <1>1, <2>2
    <3>2. r[i - 1] = q[(i - 1) + 1] BY <1>1, <3>1
    <3>3. (i - 1) + 1 = i BY <1>1
    <3>. QED BY <3>1, <3>2, <3>3
  <2>. QED BY <2>1, <2>2
<1>3. ASSUME NEW m, IsLast(r, s, m) PROVE IsLast(q, s, m)
  <2>1. PICK i \in DOMAIN r :
          r[i] = m /\ About(m, s) /\ \A j \in DOMAIN r : i < j => ~About(r[j], s)
    BY <1>3 DEF IsLast
  <2>2. i + 1 \in DOMAIN q /\ q[i + 1] = m BY <1>1, <2>1
  <2>3. ASSUME NEW j \in DOMAIN q, i + 1 < j PROVE ~About(q[j], s)
    <3>1. j - 1 \in DOMAIN r /\ r[j - 1] = q[j] BY <1>1, <1>2, <2>1, <2>3
    <3>2. i < j - 1 BY <1>1, <2>1, <2>3
    <3>. QED BY <2>1, <3>1, <3>2
  <2>. QED BY <2>1, <2>2, <2>3 DEF IsLast
<1>4. ~About(Head(q), s) /\ Silent(r, s) => Silent(q, s) BY <1>1, <1>2 DEF Silent
<1>5. Silent(q, s) => Silent(r, s) /\ ~About(Head(q), s) BY <1>1 DEF Silent
<1>6. ASSUME NEW m, IsLast(q, s, m) PROVE IsLast(r, s, m) \/ (m = Head(q) /\ Silent(r, s) /\ About(Head(q), s))
  <2>1. PICK i \in DOMAIN q :
          q[i] = m /\ About(m, s) /\ \A j \in DOMAIN q : i < j => ~About(q[j], s)
    BY <1>6 DEF IsLast
  <2>2. CASE i = 1
    <3>1. ASSUME NEW j \in DOMAIN r PROVE ~About(r[j], s)
      <4>1. j + 1 \in DOMAIN q /\ r[j] = q[j + 1] /\ 1 < j + 1 BY <1>1
      <4>. QED BY <2>1, <2>2, <4>1
    <3>. QED BY <1>1, <2>1, <2>2, <3>1 DEF Silent
  <2>3. CASE i # 1
    <3>1. i - 1 \in DOMAIN r /\ r[i - 1] = m BY <1>2, <2>1, <2>3
    <3>2. ASSUME NEW j \in DOMAIN r, i - 1 < j PROVE ~About(r[j], s)
      <4>1. j + 1 \in DOMAIN q /\ r[j] = q[j + 1] /\ i < j + 1 BY <1>1, <2>1, <3>2
      <4>. QED BY <2>1, <4>1
    <3>. QED BY <2>1, <3>1, <3>2 DEF IsLast
  <2>. QED BY <2>2, <2>3
<1>7. ASSUME About(Head(q), s), Silent(r, s) PROVE IsLast(q, s, Head(q))
  <2>1. ASSUME NEW j \in DOMAIN q, 1 < j PROVE ~About(q[j], s)
    <3>1. j - 1 \in DOMAIN r /\ r[j - 1] = q[j] BY <1>1, <1>2, <2>1
    <3>. QED BY <1>7, <3>1 DEF Silent
  <2>. QED BY <1>1, <1>7, <2>1 DEF IsLast
<1>. QED BY <1>3, <1>4, <1>5, <1>6, <1>7

LEMMA AppendAbout ==
  ASSUME NEW T, NEW q \in Seq(T), NEW h \in T, NEW s, About(h, s), NEW r, r = Append(q, h)
  PROVE  ~Silent(r, s) /\ IsLast(r, s, h) /\ (\A m : m # h => ~IsLast(r, s, m))
<1>0. About(h, s) OBVIOUS
<1>1. /\ DOMAIN q = 1 .. Len(q) /\ Len(q) \in Nat /\ DOMAIN r = 1 .. Len(q) + 1
      /\ \A i \in DOMAIN q : r[i] = q[i]
      /\ r[Len(q) + 1] = h
  BY AppendIs
<1>2. \A i \in DOMAIN r : i \in DOMAIN q \/ i = Len(q) + 1 BY <1>1
<1>3. DOMAIN q \subseteq DOMAIN r /\ Len(q) + 1 \in DOMAIN r BY <1>1
<1>4. ~Silent(r, s) BY <1>0, <1>1, <1>3 DEF Silent
<1>5. ASSUME NEW m, IsLast(r, s, m) PROVE m = h
  <2>1. PICK i \in DOMAIN r : r[i] = m /\ \A j \in DOMAIN r : i < j => ~About(r[j], s)
    BY <1>5 DEF IsLast
  <2>2. ~(i < Len(q) + 1) BY <1>0, <1>1, <1>3, <2>1
  <2>3. i = Len(q) + 1 BY <1>1, <2>1, <2>2
  <2>. QED BY <1>1, <2>1, <2>3
<1>6. IsLast(r, s, h)
  <2>1. \A j \in DOMAIN r : ~(Len(q) + 1 < j) BY <1>1
  <2>. QED BY <1>0, <1>1, <1>3, <2>1 DEF IsLast
<1>. QED BY <1>4, <1>5, <1>6

LEMMA AppendOther ==
  ASSUME NEW T, NEW q \in Seq(T), NEW h \in T, NEW s, ~About(h, s), NEW r, r = Append(q, h)
  PROVE  (Silent(r, s) <=> Silent(q, s)) /\ (\A m : IsLast(r, s, m) <=> IsLast(q, s, m))
<1>1. /\ DOMAIN q = 1 .. Len(q) /\ Len(q) \in Nat /\ DOMAIN r = 1 .. Len(q) + 1
      /\ \A i \in DOMAIN q : r[i] = q[i]
      /\ r[Len(q) + 1] = h
  BY AppendIs
<1>2. \A i \in DOMAIN r : i \in DOMAIN q \/ i = Len(q) + 1 BY <1>1
<1>3. DOMAIN q \subseteq DOMAIN r /\ Len(q) + 1 \in DOMAIN r BY <1>1
<1>4. Silent(r, s) <=> Silent(q, s) BY <1>1, <1>2, <1>3 DEF Silent
<1>5. ASSUME NEW m, IsLast(r, s, m) PROVE IsLast(q, s, m)
  <2>1. PICK i \in DOMAIN r :
          r[i] = m /\ About(m, s) /\ \A j \in DOMAIN r : i < j => ~About(r[j], s)
    BY <1>5 DEF IsLast
  <2>2. i \in DOMAIN q /\ q[i] = m BY <1>1, <1>2, <2>1
  <2>. QED BY <1>1, <1>3, <2>1, <2>2 DEF IsLast
<1>6. ASSUME NEW m, IsLast(q, s, m) PROVE IsLast(r, s, m)
  <2>1. PICK i \in DOMAIN q :
          q[i] = m /\ About(m, s) /\ \A j \in DOMAIN q : i < j => ~About(q[j], s)
    BY <1>6 DEF IsLast
  <2>2. i \in DOMAIN r /\ r[i] = m BY <1>1, <1>3, <2>1
  <2>3. ASSUME NEW j \in DOMAIN r, i < j PROVE ~About(r[j], s)
    BY <1>1, <1>2, <2>1, <2>3
  <2>. QED BY <2>1, <2>2, <2>3 DEF IsLast
<1>. QED BY <1>4, <1>5, <1>6

LEMMA LastExists ==
  ASSUME NEW T, NEW q \in Seq(T), NEW s
  PROVE  Silent(q, s) \/ \E m \in T : IsLast(q, s, m)
<1>0. Len(q) \in Nat /\ DOMAIN q = 1 .. Len(q) /\ \A i \in DOMAIN q : q[i] \in T OBVIOUS
<1> DEFINE last(n, i) == About(q[i], s) /\ \A j \in 1 .. n : i < j => ~About(q[j], s)
           good == {n \in 0 .. Len(q) : (\A i \in 1 .. n : ~About(q[i], s)) \/ \E i \in 1 .. n : last(n, i)}
<1>1. 0 \in good BY <1>0
<1>2. ASSUME NEW n \in 1 .. Len(q), n - 1 \in good PROVE n \in good
  <2>0. n \in 0 .. Len(q) /\ \A j \in 1 .. n : j = n \/ j \in 1 .. n - 1 BY <1>0
  <2>1. CASE About(q[n], s)
    <3>1. last(n, n) BY <1>0, <2>1
    <3>. QED BY <1>0, <2>0, <3>1
  <2>2. CASE ~About(q[n], s)
    <3>1. CASE \A i \in 1 .. n - 1 : ~About(q[i], s) BY <2>0, <2>2, <3>1
    <3>2. ASSUME NEW i \in 1 .. n - 1, last(n - 1, i) PROVE n \in good
      <4>1. last(n, i) BY <2>0, <2>2, <3>2
      <4>2. i \in 1 .. n BY <1>0
      <4>. QED BY <2>0, <4>1, <4>2
    <3>. QED BY <1>2, <3>1, <3>2
  <2>. QED BY <2>1, <2>2
<1>3. Len(q) \in good
  <2> HIDE DEF good
  <2>1. \A n \in 0 .. Len(q) : n \in good BY <1>0, <1>1, <1>2, UpTo
  <2>. QED BY <1>0, <2>1
<1>. QED BY <1>0, <1>3 DEF Silent, IsLast

----------------------------------------------------------------------------
(***************************************************************************)
(* How many rescans the page has asked for.                                *)
(***************************************************************************)
RescansIn(q) == {i \in DOMAIN q : q[i] = Rescan}

LEMMA RescansAreFinite ==
  ASSUME NEW T, NEW q \in Seq(T)
  PROVE  /\ IsFiniteSet(RescansIn(q)) /\ Cardinality(RescansIn(q)) \in Nat
         /\ Cardinality(RescansIn(q)) = 0 <=> RescansIn(q) = {}
<1>1. DOMAIN q = 1 .. Len(q) /\ Len(q) \in Int /\ 1 \in Int OBVIOUS
<1>2. IsFiniteSet(1 .. Len(q)) BY <1>1, FS_Interval
<1>3. RescansIn(q) \in SUBSET (1 .. Len(q)) BY <1>1 DEF RescansIn
<1>4. IsFiniteSet(RescansIn(q)) BY <1>2, <1>3, FS_Subset
<1>. QED BY <1>4, FS_CardinalityType, FS_EmptySet

LEMMA RescansAppend ==
  ASSUME NEW T, NEW q \in Seq(T), NEW m \in T, NEW r, r = Append(q, m)
  PROVE  /\ m = Rescan => Cardinality(RescansIn(r)) = Cardinality(RescansIn(q)) + 1
         /\ m # Rescan => RescansIn(r) = RescansIn(q)
<1>1. /\ DOMAIN q = 1 .. Len(q) /\ Len(q) \in Nat /\ DOMAIN r = 1 .. Len(q) + 1
      /\ \A i \in DOMAIN q : r[i] = q[i]
      /\ r[Len(q) + 1] = m
  BY AppendIs
<1>2. m # Rescan => RescansIn(r) = RescansIn(q) BY <1>1 DEF RescansIn
<1>3. ASSUME m = Rescan PROVE RescansIn(r) = RescansIn(q) \cup {Len(q) + 1}
  <2>1. DOMAIN r = DOMAIN q \cup {Len(q) + 1} BY <1>1
  <2>. QED BY <1>1, <1>3, <2>1 DEF RescansIn
<1>4. Len(q) + 1 \notin RescansIn(q) BY <1>1 DEF RescansIn
<1>5. IsFiniteSet(RescansIn(q)) BY RescansAreFinite
<1>. QED BY <1>2, <1>3, <1>4, <1>5, FS_AddElement

LEMMA RescansTail ==
  ASSUME NEW T, NEW q \in Seq(T), q # <<>>, NEW r, r = Tail(q)
  PROVE  /\ Head(q) = Rescan => Cardinality(RescansIn(r)) = Cardinality(RescansIn(q)) - 1
         /\ Head(q) # Rescan => /\ Cardinality(RescansIn(r)) = Cardinality(RescansIn(q))
                                /\ RescansIn(q) # {} => RescansIn(r) # {}
         /\ RescansIn(r) # {} => RescansIn(q) # {}
<1>1. /\ r \in Seq(T) /\ Head(q) = q[1] /\ 1 \in DOMAIN q
      /\ DOMAIN q = 1 .. Len(q) /\ Len(q) \in Nat \ {0}
      /\ DOMAIN r = 1 .. Len(q) - 1
      /\ \A i \in DOMAIN r : i + 1 \in DOMAIN q /\ r[i] = q[i + 1]
  BY TailIs
<1> DEFINE F == [i \in RescansIn(r) |-> i + 1]
           S == RescansIn(q) \ {1}
<1>2. F \in [RescansIn(r) -> S] BY <1>1 DEF RescansIn
<1>3. \A a, b \in RescansIn(r) : F[a] = F[b] => a = b BY <1>1 DEF RescansIn
<1>4. \A t \in S : \E a \in RescansIn(r) : F[a] = t
  <2> TAKE t \in S
  <2>1. t - 1 \in DOMAIN r BY <1>1 DEF RescansIn
  <2>2. r[t - 1] = q[(t - 1) + 1] BY <1>1, <2>1
  <2>3. (t - 1) + 1 = t BY <1>1 DEF RescansIn
  <2>4. t - 1 \in RescansIn(r) BY <2>1, <2>2, <2>3 DEF RescansIn
  <2>5. F[t - 1] = t BY <2>3, <2>4
  <2>. QED BY <2>4, <2>5
<1>5. ExistsBijection(RescansIn(r), S)
  <2> HIDE DEF F, S
  <2>1. F \in Injection(RescansIn(r), S) BY <1>2, <1>3, Fun_IsInj
  <2>2. F \in Surjection(RescansIn(r), S) BY <1>2, <1>4, Fun_IsSurj
  <2>. QED BY <2>1, <2>2, Fun_IsBij, Fun_ExistsBij
<1>6. IsFiniteSet(RescansIn(r)) BY <1>1, RescansAreFinite
<1>7. Cardinality(RescansIn(r)) = Cardinality(S) BY <1>5, <1>6, FS_Bijection
<1>8. Cardinality(S) = IF 1 \in RescansIn(q) THEN Cardinality(RescansIn(q)) - 1
                       ELSE Cardinality(RescansIn(q))
  BY RescansAreFinite, FS_RemoveElement
<1>9. 1 \in RescansIn(q) <=> Head(q) = Rescan BY <1>1 DEF RescansIn
<1>10. Head(q) # Rescan /\ RescansIn(q) # {} => RescansIn(r) # {}
  <2>1. ASSUME Head(q) # Rescan, NEW t \in RescansIn(q) PROVE RescansIn(r) # {}
    <3>1. t \in S BY <1>9, <2>1
    <3>. QED BY <1>4, <3>1
  <2>. QED BY <2>1
<1>11. RescansIn(r) # {} => RescansIn(q) # {} BY <1>1 DEF RescansIn
<1>. QED BY <1>7, <1>8, <1>9, <1>10, <1>11
----------------------------------------------------------------------------
(***************************************************************************)
(* What a report makes of the worker's state, and what several do.         *)
(***************************************************************************)
Hears(r, m) ==
  /\ r.complete <=> IsWhole(m)
  /\ r.scanning <=> IsPart(m)
  /\ \/ r.report = NoReport
     \/ m.type = "findings" /\ r.report = [scan |-> m.scan, doc |-> m.doc, some |-> m.some]

LEMMA FreshIsState ==
  NoReport \in [scan : ScanIds, doc : 0..MaxDocs, some : BOOLEAN] /\ Fresh \in WorkerState
<1>1. 0 \in 0..MaxDocs BY ExtensionScanAssumption
<1>2. NoReport \in [scan : ScanIds, doc : 0..MaxDocs, some : BOOLEAN]
  BY <1>1 DEF NoReport, ScanIds
<1>. QED BY <1>2 DEF Fresh, WorkerState

LEMMA FailedIs ==
  ASSUME NEW S \in WorkerState, NEW s, NEW r, r = Failed(S, s)
  PROVE  /\ r \in WorkerState /\ r.scan = S.scan /\ r.known = S.known
         /\ S.scan # s => r = S
         /\ S.scan = s => r.report = NoReport /\ ~r.complete /\ ~r.scanning
<1>1. r = S \/ r = [S EXCEPT !.report = NoReport, !.complete = FALSE, !.scanning = FALSE, !.error = TRUE]
  BY DEF Failed
<1>. QED BY <1>1, FreshIsState DEF Failed, WorkerState

LEMMA AcceptIs ==
  ASSUME NEW S \in WorkerState, NEW m \in Reports, NEW r, r = Accept(S, m)
  PROVE  /\ r \in WorkerState /\ r.scan = S.scan /\ r.known = S.known
         /\ ~About(m, S.scan) => r = S
         /\ About(m, S.scan) => Hears(r, m)
<1>0. About(m, S.scan) <=> m.type # "prepare" /\ S.scan = m.scan BY ReportIsNoRescan DEF About
<1>1. CASE S.scan # m.scan \/ m.type = "prepare" BY <1>0, <1>1 DEF Accept
<1>2. CASE S.scan = m.scan /\ m.type = "detector-error"
  <2>1. r = Failed(S, m.scan) BY <1>2 DEF Accept
  <2>2. /\ r \in WorkerState /\ r.scan = S.scan /\ r.known = S.known
        /\ r.report = NoReport /\ ~r.complete /\ ~r.scanning
    BY <1>2, <2>1, FailedIs
  <2>. QED BY <1>0, <1>2, <2>2 DEF Hears, IsPart, IsWhole
<1>3. CASE S.scan = m.scan /\ m.type \notin {"detector-error", "prepare"}
  <2> DEFINE rp == [scan |-> m.scan, doc |-> m.doc, some |-> m.some]
  <2>0. m \in [type : {"findings"}, scan : Scans, doc : 1..MaxDocs, some : BOOLEAN, complete : BOOLEAN]
    BY <1>3 DEF Reports
  <2>1. rp \in [scan : ScanIds, doc : 0..MaxDocs, some : BOOLEAN] /\ m.complete \in BOOLEAN
    BY <2>0, ExtensionScanAssumption DEF ScanIds
  <2>2. r = [S EXCEPT !.report = rp, !.complete = m.complete, !.scanning = ~m.complete,
                      !.error = FALSE, !.injected = TRUE]
    BY <1>3 DEF Accept
  <2>3. m.type = "findings" BY <2>0
  <2>4. r.report = rp /\ r.complete = m.complete /\ r.scanning = ~m.complete
        /\ r.scan = S.scan /\ r.known = S.known
    BY <2>2 DEF WorkerState
  <2>5. r \in WorkerState
    <3> HIDE DEF rp
    <3>1. r = [known |-> S.known, scan |-> S.scan, report |-> rp, complete |-> m.complete,
               scanning |-> ~m.complete, error |-> FALSE, injected |-> TRUE,
               csInjected |-> S.csInjected]
      BY <2>2 DEF WorkerState
    <3>. QED BY <2>1, <3>1 DEF WorkerState
  <2>. QED BY <1>0, <1>3, <2>1, <2>3, <2>4, <2>5 DEF Hears, IsPart, IsWhole
<1>. QED BY <1>1, <1>2, <1>3

LEMMA ClearedIs ==
  ASSUME NEW S \in WorkerState, NEW r, r = Cleared(S)
  PROVE  /\ r \in WorkerState /\ r.scan = S.scan /\ r.known = S.known
         /\ r.report = NoReport /\ ~r.complete /\ ~r.scanning
<1>1. r = [known |-> S.known, scan |-> S.scan, report |-> NoReport, complete |-> FALSE,
           scanning |-> FALSE, error |-> FALSE, injected |-> FALSE, csInjected |-> FALSE]
  BY DEF Cleared, WorkerState
<1>. QED BY <1>1, FreshIsState DEF WorkerState

(***************************************************************************)
(* The recursion of Heard, step by step.                                   *)
(***************************************************************************)
HeardTo(S, q, m, f) ==
  f = [n \in 0 .. m |-> IF n = 0 THEN S ELSE Accept(f[n - 1], q[n])]

LEMMA HeardExists ==
  ASSUME NEW S, NEW q, NEW n \in Nat
  PROVE  \E f : HeardTo(S, q, n, f)
<1> DEFINE good == {m \in 0 .. n : \E f : HeardTo(S, q, m, f)}
<1>1. 0 \in good
  <2>1. HeardTo(S, q, 0, [i \in 0 .. 0 |-> S]) BY DEF HeardTo
  <2>. QED BY <2>1
<1>2. ASSUME NEW m \in 1 .. n, m - 1 \in good PROVE m \in good
  <2>1. PICK g : HeardTo(S, q, m - 1, g) BY <1>2
  <2> DEFINE f == [i \in 0 .. m |-> IF i = m THEN Accept(g[m - 1], q[m]) ELSE g[i]]
  <2>2. \A i \in 0 .. m - 1 : f[i] = g[i] OBVIOUS
  <2>3. \A i \in 0 .. m - 1 : g[i] = IF i = 0 THEN S ELSE Accept(g[i - 1], q[i])
    BY <2>1 DEF HeardTo
  <2>4. ASSUME NEW i \in 0 .. m
        PROVE  f[i] = IF i = 0 THEN S ELSE Accept(f[i - 1], q[i])
    <3>1. CASE i = m BY <3>1, <2>2
    <3>2. CASE i # m
      <4>1. i \in 0 .. m - 1 /\ (i # 0 => i - 1 \in 0 .. m - 1) BY <3>2
      <4>. QED BY <4>1, <2>2, <2>3
    <3>. QED BY <3>1, <3>2
  <2>5. HeardTo(S, q, m, f) BY <2>4 DEF HeardTo
  <2>. QED BY <2>5
<1> HIDE DEF good
<1>3. n \in good BY <1>1, <1>2, UpTo
<1>. QED BY <1>3 DEF good

LEMMA HeardSteps ==
  ASSUME NEW S, NEW q, Len(q) \in Nat
  PROVE  \E f : /\ Heard(S, q) = f[Len(q)]
                /\ f[0] = S
                /\ \A i \in 1 .. Len(q) : f[i] = Accept(f[i - 1], q[i])
<1> DEFINE f == CHOOSE g : HeardTo(S, q, Len(q), g)
<1>1. HeardTo(S, q, Len(q), f) BY HeardExists
<1>2. Heard(S, q) = f[Len(q)] BY Zenon DEF Heard, HeardTo
<1> HIDE DEF f
<1>3. f[0] = S BY <1>1 DEF HeardTo
<1>4. ASSUME NEW i \in 1 .. Len(q) PROVE f[i] = Accept(f[i - 1], q[i])
  <2>1. i \in 0 .. Len(q) /\ i # 0 OBVIOUS
  <2>2. f[i] = IF i = 0 THEN S ELSE Accept(f[i - 1], q[i])
    BY <1>1, <2>1, Zenon DEF HeardTo
  <2>. QED BY <2>1, <2>2, Zenon
<1>. QED BY <1>2, <1>3, <1>4

(***************************************************************************)
(* Reports of other scans change nothing, and the last one of the scan     *)
(* that is current decides, however many came before it.                   *)
(***************************************************************************)
LEMMA HeardIs ==
  ASSUME NEW S \in WorkerState, NEW q \in Seq(Reports), NEW r, r = Heard(S, q)
  PROVE  /\ r \in WorkerState /\ r.scan = S.scan /\ r.known = S.known
         /\ Silent(q, S.scan) => r = S
         /\ \A m \in Reports : IsLast(q, S.scan, m) => Hears(r, m)
<1>1. Len(q) \in Nat /\ DOMAIN q = 1 .. Len(q) /\ \A i \in 1 .. Len(q) : q[i] \in Reports OBVIOUS
<1>2. PICK f : /\ r = f[Len(q)]
               /\ f[0] = S
               /\ \A i \in 1 .. Len(q) : f[i] = Accept(f[i - 1], q[i])
  BY <1>1, HeardSteps
<1> DEFINE good == {m \in 0 .. Len(q) : /\ f[m] \in WorkerState
                                        /\ f[m].scan = S.scan /\ f[m].known = S.known}
           same == {m \in 0 .. Len(q) : f[m] = S}
<1>3. \A m \in 0 .. Len(q) : m \in good
  <2>1. 0 \in good BY <1>1, <1>2
  <2>2. ASSUME NEW m \in 1 .. Len(q), m - 1 \in good PROVE m \in good
    <3>1. f[m] = Accept(f[m - 1], q[m]) /\ q[m] \in Reports BY <1>1, <1>2
    <3>2. f[m] \in WorkerState /\ f[m].scan = f[m - 1].scan /\ f[m].known = f[m - 1].known
      BY <2>2, <3>1, AcceptIs
    <3>. QED BY <2>2, <3>2
  <2> HIDE DEF good
  <2>. QED BY <1>1, <2>1, <2>2, UpTo
<1>4. Len(q) \in good BY <1>1, <1>3
<1>5. ASSUME Silent(q, S.scan) PROVE r = S
  <2>1. 0 \in same BY <1>1, <1>2
  <2>2. ASSUME NEW m \in 1 .. Len(q), m - 1 \in same PROVE m \in same
    <3>1. f[m] = Accept(S, q[m]) /\ q[m] \in Reports /\ ~About(q[m], S.scan)
      BY <1>1, <1>2, <1>5, <2>2 DEF Silent
    <3>2. f[m] = S BY <3>1, AcceptIs
    <3>. QED BY <2>2, <3>2
  <2>3. Len(q) \in same
    <3> HIDE DEF same
    <3>1. \A m \in 0 .. Len(q) : m \in same BY <1>1, <2>1, <2>2, UpTo
    <3>. QED BY <1>1, <3>1
  <2>. QED BY <1>2, <2>3
<1>6. ASSUME NEW m \in Reports, IsLast(q, S.scan, m) PROVE Hears(r, m)
  <2>1. PICK k \in DOMAIN q :
          q[k] = m /\ About(m, S.scan) /\ \A j \in DOMAIN q : k < j => ~About(q[j], S.scan)
    BY <1>6 DEF IsLast
  <2>2. k \in 1 .. Len(q) /\ k - 1 \in 0 .. Len(q) /\ k \in 0 .. Len(q) BY <1>1, <2>1
  <2>3. Hears(f[k], m)
    <3>1. f[k] = Accept(f[k - 1], m) BY <1>2, <2>1, <2>2
    <3>2. f[k - 1] \in WorkerState /\ f[k - 1].scan = S.scan BY <1>3, <2>2
    <3>. QED BY <2>1, <3>1, <3>2, AcceptIs
  <2> DEFINE kept == {n \in 0 .. Len(q) : n >= k => f[n] = f[k]}
  <2>4. 0 \in kept BY <1>1, <2>2
  <2>5. ASSUME NEW n \in 1 .. Len(q), n - 1 \in kept PROVE n \in kept
    <3>1. CASE n <= k BY <1>1, <2>2, <3>1
    <3>2. CASE n > k
      <4>1. n - 1 >= k /\ n - 1 \in 0 .. Len(q) BY <1>1, <2>2, <3>2
      <4>2. f[n - 1] = f[k] BY <2>5, <4>1
      <4>3. f[n] = Accept(f[k], q[n]) /\ q[n] \in Reports /\ ~About(q[n], S.scan)
        BY <1>1, <1>2, <2>1, <2>2, <3>2, <4>2
      <4>4. f[k] \in WorkerState /\ f[k].scan = S.scan BY <1>3, <2>2
      <4>5. f[n] = f[k] BY <4>3, <4>4, AcceptIs
      <4>. QED BY <4>5
    <3>. QED BY <1>1, <2>2, <3>1, <3>2
  <2> HIDE DEF kept
  <2>u. \A n \in 0 .. Len(q) : n \in kept BY <1>1, <2>4, <2>5, UpTo
  <2>6. Len(q) \in kept BY <1>1, <2>u
  <2>7. f[Len(q)] = f[k] BY <1>1, <2>2, <2>6 DEF kept
  <2>. QED BY <1>2, <2>3, <2>7
<1>. QED BY <1>2, <1>4, <1>5, <1>6
----------------------------------------------------------------------------
(***************************************************************************)
(* StartScan, whoever asks for it: its ID is nowhere yet.                  *)
(***************************************************************************)
LEMMA ScansAreNumbers ==
  /\ Scans \subseteq Int /\ Undefined \notin Scans /\ NULL \notin Scans /\ NULL # Undefined
  /\ MaxScans \in Nat
BY ExtensionScanAssumption DEF Scans, Undefined

LEMMA StartScanIs ==
  ASSUME EInv, StartScan
  PROVE  /\ scans' = scans + 1 /\ scans' \in Scans /\ scans' \in 0..MaxScans
         /\ st' \in WorkerState
         /\ st'.scan = scans' /\ st'.known /\ st'.scanning
         /\ st'.report = NoReport /\ ~st'.complete
         /\ jobs' \in [Scans -> JobStates]
         /\ jobs'[scans'] = "cancelling"
         /\ \A s \in Scans : s # scans' => jobs'[s] = jobs[s]
         /\ toCore' = Append(toCore, ForScan(scans'))
         /\ ForScan(scans') \in Cancels
<1>1. /\ scans \in 0..MaxScans /\ st \in WorkerState /\ jobs \in [Scans -> JobStates]
  BY DEF EInv, Typed
<1>2. scans' = scans + 1 /\ scans' \in Scans /\ scans' \in 0..MaxScans
  BY <1>1, ScansAreNumbers DEF StartScan, Scans
<1>3. st' = [st EXCEPT !.known = TRUE, !.scan = scans', !.report = NoReport,
                       !.complete = FALSE, !.scanning = TRUE, !.error = FALSE]
  BY <1>2 DEF StartScan
<1>4. st' = [known |-> TRUE, scan |-> scans', report |-> NoReport, complete |-> FALSE,
             scanning |-> TRUE, error |-> FALSE, injected |-> st.injected,
             csInjected |-> st.csInjected]
  BY <1>1, <1>3 DEF WorkerState
<1>5. st' \in WorkerState BY <1>1, <1>2, <1>4, FreshIsState DEF WorkerState, ScanIds
<1>6. jobs' = [jobs EXCEPT ![scans'] = "cancelling"] BY <1>2 DEF StartScan
<1>7. "cancelling" \in JobStates BY DEF JobStates
<1>8. /\ jobs' \in [Scans -> JobStates] /\ jobs'[scans'] = "cancelling"
      /\ \A s \in Scans : s # scans' => jobs'[s] = jobs[s]
  BY <1>1, <1>2, <1>6, <1>7
<1>9. toCore' = Append(toCore, ForScan(scans')) BY <1>2 DEF StartScan, CancelTabScans
<1>10. ForScan(scans') \in Cancels BY <1>2 DEF Cancels, ForScan
<1>. QED BY <1>2, <1>4, <1>5, <1>8, <1>9, <1>10

LEMMA StartScanKeeps ==
  ASSUME EInv, StartScan,
         tears' = tears, toPage' = toPage, recovery' = recovery, waiting' = waiting,
         doc' = doc, loading' = loading, page' = page,
         \/ fromPage' = fromPage
         \/ fromPage # <<>> /\ Head(fromPage) = Rescan /\ fromPage' = Tail(fromPage),
         rescan' \in Nat, Budget', DevTools'
  PROVE  EInv'
<1>0. /\ scans' = scans + 1 /\ scans' \in Scans /\ scans' \in 0..MaxScans
      /\ st' \in WorkerState
      /\ st'.scan = scans' /\ st'.known /\ st'.scanning
      /\ st'.report = NoReport /\ ~st'.complete
      /\ jobs' \in [Scans -> JobStates]
      /\ jobs'[scans'] = "cancelling"
      /\ \A s \in Scans : s # scans' => jobs'[s] = jobs[s]
      /\ toCore' = Append(toCore, ForScan(scans'))
      /\ ForScan(scans') \in Cancels
  BY StartScanIs
<1>n. /\ Scans \subseteq Int /\ Undefined \notin Scans /\ NULL \notin Scans
      /\ st'.scan # Undefined /\ st'.scan # NULL /\ scans \in Int
  BY <1>0, ScansAreNumbers DEF EInv, Typed
<1>1. Typed' BY <1>0 DEF EInv, Typed
<1>2. fromPage' \in Seq(FromPage) /\ ReportsIn(fromPage') \subseteq ReportsIn(fromPage)
  BY TailIs, ReportsInTail DEF EInv, Lines
<1>t. Told' \subseteq Told BY <1>2 DEF Told
<1>c. /\ toCore' \in Seq(Cancels) /\ toCore' # <<>> /\ Len(toCore) \in Nat
      /\ DOMAIN toCore = 1 .. Len(toCore) /\ DOMAIN toCore' = 1 .. Len(toCore) + 1
      /\ Len(toCore') = Len(toCore) + 1
      /\ \A i \in DOMAIN toCore : toCore'[i] = toCore[i]
      /\ toCore'[Len(toCore) + 1] = ForScan(scans')
  <2>1. toCore \in Seq(Cancels) BY DEF EInv, Lines
  <2>. QED BY <1>0, <2>1, AppendIs
<1>3. Lines' BY <1>2, <1>c DEF EInv, Lines
\* The new ID is nowhere yet.
<1>w. /\ page.scan # scans' /\ recovery.scan # scans'
      /\ \A m \in Told : m.scan # scans'
      /\ \A i \in DOMAIN toCore : toCore[i].awaits = "scan" => toCore[i].id # scans'
      /\ \A s \in Scans : jobs[s] # "over" => s # scans' /\ s <= scans'
      /\ jobs[scans'] = "over"
  <2>1. Given BY DEF EInv
  <2>2. ~(scans' <= scans) BY <1>0, <1>n
  <2>3. page.scan # scans' /\ recovery.scan # scans' BY <1>0, <2>1, <2>2 DEF Given
  <2>4. \A m \in Told : m.scan # scans' BY <2>1, <2>2 DEF Given
  <2>5. \A i \in DOMAIN toCore : toCore[i].awaits = "scan" => toCore[i].id # scans'
    BY <2>1, <2>2 DEF Given
  <2>6. \A s \in Scans : jobs[s] # "over" => s # scans' /\ s <= scans'
    BY <1>0, <1>n, <2>1, <2>2 DEF Given
  <2>. QED BY <1>0, <2>3, <2>4, <2>5, <2>6
<1>4. Given'
  <2>1. Given BY DEF EInv
  <2>2. \A x \in Int : x <= scans => x <= scans' BY <1>0, <1>n
  <2>3. page.scan \in Scans => page.scan <= scans' BY <1>n, <2>1, <2>2 DEF Given
  <2>4. recovery.scan \in Scans => recovery.scan <= scans' BY <1>n, <2>1, <2>2 DEF Given
  <2>5. \A m \in Told' : m.scan <= scans'
    <3>1. \A m \in Told : m.scan \in Scans BY ReportsAreReports DEF EInv, Reports
    <3>. QED BY <1>n, <1>t, <2>1, <2>2, <3>1 DEF Given
  <2>6. ASSUME NEW i \in DOMAIN toCore', toCore'[i].awaits = "scan" PROVE toCore'[i].id <= scans'
    <3>1. CASE i = Len(toCore) + 1 BY <1>0, <1>n, <1>c, <3>1 DEF ForScan
    <3>2. CASE i \in DOMAIN toCore
      <4>1. toCore[i].id <= scans BY <1>c, <2>1, <2>6, <3>2 DEF Given
      <4>2. toCore[i].id \in Scans
        <5>1. toCore[i] \in Cancels /\ toCore[i].awaits = "scan" BY <1>c, <2>6, <3>2 DEF EInv, Lines
        <5>. QED BY <5>1 DEF Cancels, ForNobody
      <4>. QED BY <1>c, <1>n, <2>2, <3>2, <4>1, <4>2
    <3>. QED BY <1>c, <2>6, <3>1, <3>2
  <2>7. \A s \in Scans : jobs'[s] # "over" => s <= scans' BY <1>0, <1>n, <1>w
  <2>8. st'.scan <= scans' BY <1>0, <1>n
  <2>. QED BY <2>3, <2>4, <2>5, <2>6, <2>7, <2>8 DEF Given
<1>5. Recovering'
  <2>1. Recovering BY DEF EInv
  <2>2. ReportsIn(waiting) \subseteq Told BY DEF Told
  <2>. QED BY <1>0, <1>w, <2>1, <2>2 DEF Recovering
<1>6. Jobs'
  <2>1. Jobs BY DEF EInv
  <2>2. ASSUME NEW s \in Scans, jobs'[s] # "over" PROVE Job1(s)'
    <3>1. CASE s = scans' BY <1>0, <1>n, <1>t, <1>w, <3>1 DEF Job1
    <3>2. CASE s # scans'
      <4>1. jobs[s] # "over" BY <1>0, <2>2, <3>2
      <4>2. Job1(s) BY <2>1, <4>1 DEF Jobs
      <4>. QED BY <1>0, <1>t, <1>w, <3>2, <4>1, <4>2 DEF Job1
    <3>. QED BY <3>1, <3>2
  <2>3. ASSUME NEW i \in DOMAIN toPage, toPage[i].type = "scan" PROVE jobs'[toPage[i].scan] = "sent"
    <3>1. toPage[i] \in Orders BY DEF EInv, Lines
    <3>2. toPage[i].scan \in Scans BY <2>3, <3>1 DEF Orders
    <3>3. jobs[toPage[i].scan] = "sent" BY <2>1, <2>3 DEF Jobs
    <3>. QED BY <1>0, <1>w, <3>2, <3>3
  <2>. QED BY <2>1, <2>2, <2>3 DEF Jobs
<1>7. Cancelling'
  <2>1. ASSUME NEW i \in DOMAIN toCore' PROVE toCore'[i] = ForScan(scans') <=> i = Len(toCore')
    <3>1. CASE i \in DOMAIN toCore
      <4>1. toCore'[i] # ForScan(scans') BY <1>c, <1>w, <3>1 DEF ForScan
      <4>. QED BY <1>c, <3>1, <4>1
    <3>. QED BY <1>c, <3>1
  <2>. QED BY <1>0, <1>c, <1>n, <2>1 DEF Cancelling
<1>8. Anew' BY <1>n DEF Anew
<1>9. Torn'
  <2>1. ASSUME NEW i \in DOMAIN toPage, toPage[i].type = "scan" PROVE toPage[i].scan # scans'
    <3>1. jobs[toPage[i].scan] = "sent" BY <2>1 DEF EInv, Jobs
    <3>. QED BY <1>w, <3>1
  <2>. QED BY <1>0, <1>n, <1>w, <2>1 DEF Torn
<1>10. Documents'
  <2>1. Taken' = scans' BY <1>0, <1>n DEF Taken
  <2>. QED BY <1>0, <1>t, <1>w, <2>1 DEF EInv, Documents
<1>11. Truths'
  <2>1. ASSUME NEW s \in Scans, Minds(s)' PROVE Truth(s)'
    <3>1. s = scans' BY <1>0, <1>n, <2>1 DEF Minds
    <3>2. Busy(s)' BY <1>0, <3>1 DEF Busy
    <3>3. page'.scan # s BY <1>w, <3>1
    <3>. QED BY <3>2, <3>3 DEF Truth
  <2>. QED BY <2>1 DEF Truths
<1>. QED BY <1>1, <1>3, <1>4, <1>5, <1>6, <1>7, <1>8, <1>9, <1>10, <1>11 DEF EInv

\* What may still ask for a scan, in numbers.
LEMMA BudgetIsInt ==
  ASSUME EInv
  PROVE  /\ Rescans = RescansIn(fromPage) /\ Cardinality(Rescans) \in Nat
         /\ (Cardinality(Rescans) = 0 <=> Rescans = {})
         /\ scans \in Nat /\ rescan \in Nat /\ MaxScans \in Nat
         /\ One(loading) \in {0, 1} /\ One(page.timer) \in {0, 1}
         /\ scans + rescan + One(loading) + One(page.timer) + Cardinality(Rescans) <= MaxScans
<1>1. fromPage \in Seq(FromPage) BY DEF EInv, Lines
<1>2. Rescans = RescansIn(fromPage) BY DEF Rescans, RescansIn
<1>3. /\ Cardinality(Rescans) \in Nat /\ (Cardinality(Rescans) = 0 <=> Rescans = {})
  BY <1>1, <1>2, RescansAreFinite
<1>4. scans \in Nat /\ rescan \in Nat /\ MaxScans \in Nat BY ScansAreNumbers DEF EInv, Typed
<1>. QED BY <1>2, <1>3, <1>4 DEF EInv, Budget, Asked, One

LEMMA ReceiveRescanKeeps == ASSUME EInv, ReceiveRescan PROVE EInv'
<1>1. /\ fromPage # <<>> /\ Head(fromPage) = Rescan /\ fromPage' = Tail(fromPage)
      /\ StartScan
      /\ tears' = tears /\ toPage' = toPage /\ recovery' = recovery /\ waiting' = waiting
      /\ doc' = doc /\ loading' = loading /\ page' = page /\ rescan' = rescan
      /\ devtoolsTabs' = devtoolsTabs /\ panelPorts' = panelPorts
      /\ devtools' = devtools /\ panel' = panel
  BY DEF ReceiveRescan, recoveryVars, devVars, tabVars
<1>2. DevTools' BY <1>1 DEF EInv, DevTools
<1>3. Cardinality(Rescans') = Cardinality(Rescans) - 1
  <2>1. fromPage \in Seq(FromPage) BY DEF EInv, Lines
  <2>2. Cardinality(RescansIn(fromPage')) = Cardinality(RescansIn(fromPage)) - 1
    BY <1>1, <2>1, RescansTail
  <2>3. Rescans' = RescansIn(fromPage') /\ Rescans = RescansIn(fromPage) BY DEF Rescans, RescansIn
  <2>. QED BY <2>2, <2>3
<1>4. Budget'
  <2>1. scans' = scans + 1 BY <1>1, StartScanIs
  <2>2. Asked \in Nat /\ Asked <= MaxScans BY BudgetIsInt DEF Asked
  <2>3. Asked' = scans' + rescan' + One(loading') + One(page'.timer) + Cardinality(Rescans')
    BY DEF Asked, One
  <2>4. Asked = scans + rescan + One(loading) + One(page.timer) + Cardinality(Rescans) BY DEF Asked
  <2>5. \A a, b, c, d, e \in Int : (a + 1) + b + c + d + (e - 1) = a + b + c + d + e OBVIOUS
  <2>6. Asked' = Asked
    <3>1. /\ scans \in Int /\ rescan \in Int /\ One(loading) \in Int /\ One(page.timer) \in Int
          /\ Cardinality(Rescans) \in Int
      BY BudgetIsInt
    <3>. QED BY <1>1, <1>3, <2>1, <2>3, <2>4, <2>5, <3>1
  <2>. QED BY <2>2, <2>6 DEF Budget
<1>. QED BY <1>1, <1>2, <1>4, BudgetIsInt, StartScanKeeps

LEMMA RescanTimerKeeps == ASSUME EInv, RescanTimer PROVE EInv'
<1>1. /\ rescan > 0 /\ rescan' = rescan - 1
      /\ StartScan
      /\ tears' = tears /\ toPage' = toPage /\ recovery' = recovery /\ waiting' = waiting
      /\ doc' = doc /\ loading' = loading /\ page' = page /\ fromPage' = fromPage
      /\ devtoolsTabs' = devtoolsTabs /\ panelPorts' = panelPorts
      /\ devtools' = devtools /\ panel' = panel
  BY DEF RescanTimer, recoveryVars, devVars, tabVars
<1>2. DevTools' BY <1>1 DEF EInv, DevTools
<1>3. Rescans' = Rescans BY <1>1 DEF Rescans
<1>4. Budget' /\ rescan' \in Nat
  <2>1. scans' = scans + 1 BY <1>1, StartScanIs
  <2>. QED BY <1>1, <1>3, <2>1, BudgetIsInt DEF Budget, Asked
<1>. QED BY <1>1, <1>2, <1>4, StartScanKeeps

\* A user who asks for a scan finds room for one.
LEMMA ScanWithRoomKeeps ==
  ASSUME EInv, Room, StartScan,
         tears' = tears, toPage' = toPage, recovery' = recovery, waiting' = waiting,
         doc' = doc, loading' = loading, page' = page,
         fromPage' = fromPage, rescan' = rescan, DevTools'
  PROVE  EInv'
<1>1. Rescans' = Rescans BY DEF Rescans
<1>2. Budget'
  <2>1. scans' = scans + 1 BY StartScanIs
  <2>2. Asked \in Nat /\ Asked < MaxScans BY BudgetIsInt DEF Asked, Room
  <2>3. Asked' = Asked + 1 BY <1>1, <2>1, BudgetIsInt DEF Asked
  <2>. QED BY <2>2, <2>3, BudgetIsInt DEF Budget
<1>. QED BY <1>2, BudgetIsInt, StartScanKeeps

LEMMA UserScansKeeps == ASSUME EInv, UserScans PROVE EInv'
<1>1. /\ Room /\ StartScan
      /\ tears' = tears /\ toPage' = toPage /\ recovery' = recovery /\ waiting' = waiting
      /\ doc' = doc /\ loading' = loading /\ page' = page
      /\ fromPage' = fromPage /\ rescan' = rescan
      /\ devtoolsTabs' = devtoolsTabs /\ panelPorts' = panelPorts
      /\ devtools' = devtools /\ panel' = panel
  BY DEF UserScans, recoveryVars, devVars, tabVars
<1>2. DevTools' BY <1>1 DEF EInv, DevTools
<1>. QED BY <1>1, <1>2, ScanWithRoomKeeps

LEMMA PanelScansKeeps == ASSUME EInv, PanelScans PROVE EInv'
<1>1. /\ Room /\ StartScan
      /\ tears' = tears /\ toPage' = toPage /\ recovery' = recovery /\ waiting' = waiting
      /\ doc' = doc /\ loading' = loading /\ page' = page
      /\ fromPage' = fromPage /\ rescan' = rescan
      /\ devtoolsTabs' = devtoolsTabs /\ panelPorts' = panelPorts
      /\ devtools' = devtools /\ panel' = [panel EXCEPT !.shows = "scanning"]
  BY DEF PanelScans, recoveryVars, ports, tabVars
<1>2. DevTools' BY <1>1 DEF EInv, DevTools
<1>. QED BY <1>1, <1>2, ScanWithRoomKeeps

(***************************************************************************)
(* DevTools connects, and its panel: nothing else may change.              *)
(***************************************************************************)
LEMMA ConnectingKeeps ==
  ASSUME EInv, DevTools',
         st' = st, scans' = scans, jobs' = jobs, tears' = tears, recovery' = recovery,
         waiting' = waiting, rescan' = rescan, toCore' = toCore, toPage' = toPage,
         fromPage' = fromPage, doc' = doc, loading' = loading, page' = page
  PROVE  EInv'
<1>1. Typed' /\ Lines' BY DEF EInv, Typed, Lines
<1>2. Told' = Told /\ Rescans' = Rescans BY DEF Told, ReportsIn, Rescans
<1>3. Budget' BY <1>2 DEF EInv, Budget, Asked
<1>4. Given' BY <1>2 DEF EInv, Given
<1>5. Recovering' BY DEF EInv, Recovering, ReportsIn
<1>6. Jobs' BY <1>2 DEF EInv, Jobs, Job1
<1>7. Cancelling' BY DEF EInv, Cancelling
<1>8. Anew' BY <1>2 DEF EInv, Anew
<1>9. Torn' BY DEF EInv, Torn, TearingDown
<1>10. Documents' BY <1>2 DEF EInv, Documents, Taken
<1>11. Truths'
  <2>1. ASSUME NEW s \in Scans, Minds(s)' PROVE Truth(s)'
    <3>1. Truth(s) BY <2>1 DEF EInv, Truths, Minds
    <3>2. /\ (SaysPart(s)' <=> SaysPart(s)) /\ (SaysWhole(s)' <=> SaysWhole(s))
          /\ OnlyRecalls(s)' <=> OnlyRecalls(s)
      BY DEF SaysPart, SaysWhole, OnlyRecalls, IsLast, Silent
    <3>3. (Busy(s)' <=> Busy(s)) /\ (Soon' <=> Soon) BY <1>2 DEF Busy, Soon
    <3>. QED BY <3>1, <3>2, <3>3 DEF Truth
  <2>. QED BY <2>1 DEF Truths
<1>. QED BY <1>1, <1>3, <1>4, <1>5, <1>6, <1>7, <1>8, <1>9, <1>10, <1>11 DEF EInv

LEMMA DevToolsConnectsKeeps == ASSUME EInv, DevToolsConnects PROVE EInv'
<1>1. /\ st' = st /\ scans' = scans /\ jobs' = jobs /\ tears' = tears /\ recovery' = recovery
      /\ waiting' = waiting /\ rescan' = rescan /\ toCore' = toCore /\ toPage' = toPage
      /\ fromPage' = fromPage /\ doc' = doc /\ loading' = loading /\ page' = page
      /\ panelPorts' = panelPorts /\ panel' = panel /\ devtoolsTabs' = TRUE
  BY DEF DevToolsConnects, coroutines, recoveryVars, tabVars, messages, counters
<1>2. DevTools'
  <2>0. DevTools /\ MaxOpens \in Nat BY ExtensionScanAssumption DEF EInv
  <2> DEFINE n == IF devtools.open THEN devtools.opened ELSE devtools.opened + 1
  <2>1. devtools' = [open |-> TRUE, linked |-> TRUE, opened |-> n] BY DEF DevToolsConnects
  <2>2. n \in Openings
    <3>1. CASE devtools.open BY <2>0, <3>1 DEF DevTools
    <3>2. CASE ~devtools.open
      <4>1. devtools.opened < MaxOpens BY <3>2 DEF DevToolsConnects
      <4>2. devtools.opened \in 0..MaxOpens BY <2>0 DEF DevTools
      <4>. QED BY <2>0, <3>2, <4>1, <4>2 DEF Openings
    <3>. QED BY <3>1, <3>2
  <2> HIDE DEF n
  <2>3. n \in 0..MaxOpens BY <2>0, <2>2 DEF Openings
  <2>. QED BY <1>1, <2>0, <2>1, <2>2, <2>3 DEF DevTools
<1>. QED BY <1>1, <1>2, ConnectingKeeps

LEMMA PanelConnectsKeeps == ASSUME EInv, PanelConnects PROVE EInv'
<1>1. /\ tears' = tears /\ rescan' = rescan /\ devtoolsTabs' = devtoolsTabs /\ toPage' = toPage
      /\ fromPage' = fromPage /\ devtools' = devtools /\ recovery' = recovery
      /\ waiting' = waiting /\ doc' = doc /\ loading' = loading /\ page' = page
      /\ panel' = [shows |-> "result", linked |-> TRUE] /\ panelPorts' = TRUE
  BY DEF PanelConnects, recoveryVars, tabVars
<1>2. DevTools' BY <1>1 DEF EInv, DevTools
<1>3. CASE st.report.some
  <2>1. st' = st /\ scans' = scans /\ jobs' = jobs /\ toCore' = toCore BY <1>3 DEF PanelConnects
  <2>. QED BY <1>1, <1>2, <2>1, ConnectingKeeps
<1>4. CASE ~st.report.some
  <2>1. Room /\ StartScan BY <1>4 DEF PanelConnects
  <2>. QED BY <1>1, <1>2, <2>1, ScanWithRoomKeeps
<1>. QED BY <1>3, <1>4

\* A step that changes nothing.
LEMMA StutterKeeps == ASSUME EInv, UNCHANGED vars PROVE EInv'
<1>1. /\ st' = st /\ scans' = scans /\ jobs' = jobs /\ tears' = tears /\ recovery' = recovery
      /\ waiting' = waiting /\ rescan' = rescan /\ toCore' = toCore /\ toPage' = toPage
      /\ fromPage' = fromPage /\ doc' = doc /\ loading' = loading /\ page' = page
      /\ panelPorts' = panelPorts /\ panel' = panel /\ devtoolsTabs' = devtoolsTabs
      /\ devtools' = devtools
  BY DEF vars, workerVars, recoveryVars, messages, tabVars, devtoolsVars, counters
<1>2. DevTools' BY <1>1 DEF EInv, DevTools
<1>. QED BY <1>1, <1>2, ConnectingKeeps
----------------------------------------------------------------------------
(***************************************************************************)
(* sendScanToTab goes on, and ends when its scan is not current any more   *)
(* or has failed.                                                          *)
(***************************************************************************)
LEMMA SameSays ==
  ASSUME fromPage' = fromPage, waiting' = waiting,
         st'.scan = st.scan, st'.scanning = st.scanning, st'.complete = st.complete,
         NEW s
  PROVE  /\ SaysPart(s)' <=> SaysPart(s)
         /\ SaysWhole(s)' <=> SaysWhole(s)
BY DEF SaysPart, SaysWhole, IsLast, Silent

LEMMA SameRecalls ==
  ASSUME fromPage' = fromPage, waiting' = waiting,
         st'.scan = st.scan, st'.scanning = st.scanning, st'.report = st.report, st'.error = st.error,
         page'.told = page.told,
         NEW s
  PROVE  OnlyRecalls(s)' <=> OnlyRecalls(s)
BY DEF OnlyRecalls, Silent

LEMMA ToldIsOfScans ==
  ASSUME EInv
  PROVE  /\ \A m \in Told : m.scan \in Scans /\ m \in Reports
         /\ ReportsIn(waiting) \subseteq Told /\ ReportsIn(fromPage) \subseteq Told
         /\ \A i \in DOMAIN toPage : toPage[i] \in Orders
         /\ \A i \in DOMAIN toPage : toPage[i].type = "scan" => toPage[i].scan \in Scans
<1>1. Told \subseteq Reports BY ReportsAreReports DEF EInv
<1>2. \A m \in Told : m.scan \in Scans /\ m \in Reports BY <1>1 DEF Reports
<1>3. \A i \in DOMAIN toPage : toPage[i] \in Orders BY DEF EInv, Lines
<1>4. \A i \in DOMAIN toPage : toPage[i].type = "scan" => toPage[i].scan \in Scans
  BY <1>3 DEF Orders
<1>. QED BY <1>2, <1>3, <1>4 DEF Told

LEMMA JobMoves ==
  ASSUME EInv,
         NEW s \in Scans, jobs[s] \notin {"over", "cancelling", "sent"},
         NEW w \in JobStates \ {"cancelling"}, jobs' = [jobs EXCEPT ![s] = w],
         st' \in WorkerState, st'.scan = st.scan, st'.known = st.known,
         \/ /\ st'.report = st.report /\ st'.scanning = st.scanning /\ st'.complete = st.complete
            /\ st'.error = st.error
            /\ w = "over" => st.scan # s
         \/ /\ st'.report = NoReport /\ ~st'.scanning /\ ~st'.complete
            /\ st.scan = s /\ w = "over",
         page' \in Scripts, page'.scan = page.scan, page'.run = page.run, page'.timer = page.timer,
         page'.told = page.told,
         page'.loaded \/ page' = page,
         \/ toPage' = toPage
         \/ /\ toPage' = Append(toPage, [type |-> "scan", scan |-> s])
            /\ w = "sent" /\ st.scan = s,
         scans' = scans, tears' = tears, recovery' = recovery, waiting' = waiting,
         rescan' = rescan, toCore' = toCore, fromPage' = fromPage, doc' = doc, loading' = loading,
         devtoolsTabs' = devtoolsTabs, panelPorts' = panelPorts, devtools' = devtools, panel' = panel
  PROVE  EInv'
<1>0. /\ Scans \subseteq Int /\ Undefined \notin Scans /\ NULL \notin Scans
      /\ jobs \in [Scans -> JobStates] /\ jobs' \in [Scans -> JobStates]
      /\ jobs'[s] = w /\ \A x \in Scans : x # s => jobs'[x] = jobs[x]
  BY ScansAreNumbers DEF EInv, Typed
<1>d. st.scan # Undefined BY DEF EInv, Anew
<1>j. /\ \A x \in Scans : jobs'[x] # "over" => jobs[x] # "over"
      /\ \A x \in Scans : jobs[x] = "sent" => jobs'[x] = "sent"
      /\ \A x \in Scans : jobs'[x] = "cancelling" <=> jobs[x] = "cancelling"
  BY <1>0
<1>t. Told' = Told /\ Rescans' = Rescans BY DEF Told, ReportsIn, Rescans
<1>1. Typed' BY <1>0 DEF EInv, Typed
<1>2. DevTools' BY DEF EInv, DevTools
<1>3. Budget' BY <1>t DEF EInv, Budget, Asked
<1>4. Given' BY <1>j, <1>t DEF EInv, Given
\* What the page is told, if it is told to scan.
<1>5. ASSUME toPage' = toPage PROVE Lines' /\ Recovering' /\ Jobs' /\ Torn'
  <2>1. Lines' BY <1>5 DEF EInv, Lines
  <2>2. Recovering' BY <1>5 DEF EInv, Recovering, ReportsIn
  <2>3. ASSUME NEW i \in DOMAIN toPage, toPage[i].type = "scan" PROVE jobs'[toPage[i].scan] = "sent"
    <3>1. jobs[toPage[i].scan] = "sent" BY <2>3 DEF EInv, Jobs
    <3>2. toPage[i].scan \in Scans BY <2>3, ToldIsOfScans
    <3>. QED BY <1>j, <3>1, <3>2
  <2>4. ASSUME NEW x \in Scans, jobs'[x] # "over" PROVE Job1(x)'
    <3>1. Job1(x) BY <1>j, <2>4 DEF EInv, Jobs
    <3>2. st.scan = x => st'.scanning = st.scanning BY <1>0, <2>4
    <3>. QED BY <1>t, <3>1, <3>2 DEF Job1
  <2>5. Jobs' BY <1>5, <2>3, <2>4 DEF EInv, Jobs
  <2>6. Torn' BY <1>5 DEF EInv, Torn, TearingDown
  <2>. QED BY <2>1, <2>2, <2>5, <2>6
<1>6. ASSUME toPage' # toPage PROVE Lines' /\ Recovering' /\ Jobs' /\ Torn'
  <2> DEFINE o == [type |-> "scan", scan |-> s]
  <2>0. /\ toPage' = Append(toPage, o) /\ w = "sent" /\ st.scan = s
        /\ st'.report = st.report /\ st'.scanning = st.scanning
        /\ o \in Orders /\ o.type = "scan" /\ o.scan = s
    BY <1>6 DEF Orders
  <2> HIDE DEF o
  <2>a. toPage \in Seq(Orders) BY DEF EInv, Lines
  <2>b. /\ toPage' \in Seq(Orders) /\ DOMAIN toPage = 1 .. Len(toPage) /\ Len(toPage) \in Nat
        /\ DOMAIN toPage' = 1 .. Len(toPage) + 1
        /\ \A i \in DOMAIN toPage : toPage'[i] = toPage[i]
        /\ toPage'[Len(toPage) + 1] = o
    BY <2>0, <2>a, AppendIs
  <2>c. \A i \in DOMAIN toPage' : i \in DOMAIN toPage \/ i = Len(toPage) + 1 BY <2>b
  <2>1. Lines' BY <2>b DEF EInv, Lines
  <2>2. Recovering'
    <3>1. \A i \in DOMAIN toPage' : toPage'[i].type = "get-scan-id" =>
            i \in DOMAIN toPage /\ toPage[i].type = "get-scan-id"
      BY <2>0, <2>b, <2>c
    <3>2. Recovering BY DEF EInv
    <3>3. ReportsIn(waiting') = ReportsIn(waiting) BY DEF ReportsIn
    <3>. QED BY <3>1, <3>2, <3>3 DEF Recovering
  <2>d. Job1(s) /\ s = scans BY <2>0 DEF EInv, Jobs, Job1
  <2>e. ASSUME NEW i \in DOMAIN toPage, toPage[i].type = "scan"
        PROVE  /\ jobs'[toPage[i].scan] = "sent" /\ toPage[i].scan \in Scans
               /\ toPage[i].scan < s
    <3>1. jobs[toPage[i].scan] = "sent" BY <2>e DEF EInv, Jobs
    <3>2. toPage[i].scan \in Scans BY <2>e, ToldIsOfScans
    <3>3. Job1(toPage[i].scan) BY <3>1, <3>2 DEF EInv, Jobs
    <3>4. toPage[i].scan <= s BY <2>0, <3>2, <3>3 DEF Job1
    <3>5. toPage[i].scan # s BY <3>1
    <3>6. toPage[i].scan \in Int /\ s \in Int BY <3>2, ExtensionScanAssumption DEF Scans
    <3>7. toPage[i].scan < s BY <3>4, <3>5, <3>6
    <3>8. jobs'[toPage[i].scan] = "sent" BY <1>j, <3>1, <3>2, <3>5
    <3>. QED BY <3>2, <3>7, <3>8
  <2>f. page.scan # NULL => page.scan < s
    <3>1. ASSUME page.scan # NULL PROVE page.scan < s
      <4>1. page.scan \in Scans BY <3>1 DEF EInv, Typed, Scripts, ScanIds
      <4>2. page.scan <= s BY <2>d, <4>1 DEF EInv, Given
      <4>3. page.scan # s BY <2>d DEF Job1
      <4>4. page.scan \in Int /\ s \in Int BY <4>1, ExtensionScanAssumption DEF Scans
      <4>. QED BY <4>2, <4>3, <4>4
    <3>. QED BY <3>1
  <2>4. ASSUME NEW x \in Scans, jobs'[x] # "over" PROVE Job1(x)'
    <3>1. Job1(x) BY <1>j, <2>4 DEF EInv, Jobs
    <3>. QED BY <1>t, <2>0, <3>1 DEF Job1
  <2>g. ASSUME NEW i \in DOMAIN toPage', toPage'[i].type = "scan"
        PROVE  /\ jobs'[toPage'[i].scan] = "sent"
               /\ page'.scan # NULL => page'.scan < toPage'[i].scan
    <3>1. CASE i \in DOMAIN toPage
      <4>1. toPage[i].type = "scan" BY <2>b, <2>g, <3>1
      <4>2. page.scan # NULL => page.scan < toPage[i].scan BY <3>1, <4>1 DEF EInv, Jobs
      <4>. QED BY <2>b, <2>e, <3>1, <4>1, <4>2
    <3>2. CASE i = Len(toPage) + 1 BY <1>0, <2>0, <2>b, <2>f, <3>2
    <3>. QED BY <2>c, <3>1, <3>2
  <2>h. ASSUME NEW i \in DOMAIN toPage', NEW j \in DOMAIN toPage', i < j,
               toPage'[i].type = "scan", toPage'[j].type = "scan"
        PROVE  toPage'[i].scan < toPage'[j].scan
    <3>1. i \in DOMAIN toPage BY <2>b, <2>h
    <3>2. CASE j \in DOMAIN toPage BY <2>b, <2>h, <3>1, <3>2 DEF EInv, Jobs
    <3>3. CASE j = Len(toPage) + 1 BY <2>0, <2>b, <2>e, <2>h, <3>1, <3>3
    <3>. QED BY <2>c, <3>2, <3>3
  <2>5. Jobs' BY <2>4, <2>g, <2>h DEF Jobs
  <2>6. Torn'
    <3>1. ASSUME NEW i \in DOMAIN toPage', toPage'[i].type = "remove" PROVE page'.scan = NULL \/ page'.scan # st'.scan
      BY <2>0, <2>b, <2>c, <3>1 DEF EInv, Torn
    <3>2. ASSUME NEW i \in DOMAIN toPage', NEW j \in DOMAIN toPage', i < j,
                 toPage'[i].type = "scan", toPage'[i].scan = st'.scan
          PROVE  FALSE
      <4>1. i \in DOMAIN toPage BY <2>b, <3>2
      <4>2. toPage[i].scan < s BY <2>b, <2>e, <3>2, <4>1
      <4>3. toPage[i].scan = s BY <2>0, <2>b, <3>2, <4>1
      <4>. QED BY <1>0, <4>2, <4>3
    <3>3. st'.scan # NULL BY <1>0, <2>0
    <3>. QED BY <3>1, <3>2, <3>3 DEF Torn
  <2>. QED BY <2>1, <2>2, <2>5, <2>6
<1>7. Cancelling' BY <1>d, <1>j DEF EInv, Cancelling
<1>8. Anew' BY <1>d DEF Anew
<1>10. Documents' BY <1>t DEF EInv, Documents, Taken
<1>11. Truths'
  <2>1. ASSUME NEW x \in Scans, Minds(x)' PROVE Truth(x)'
    <3>1. st.scan = x /\ Truth(x) BY <1>d, <2>1 DEF EInv, Truths, Minds
    <3>2. Soon' <=> Soon BY <1>t DEF Soon
    <3>3. CASE /\ st'.scanning = st.scanning /\ st'.complete = st.complete
               /\ st'.report = st.report /\ st'.error = st.error /\ (w = "over" => st.scan # s)
      <4>1. (SaysPart(x)' <=> SaysPart(x)) /\ (SaysWhole(x)' <=> SaysWhole(x)) BY <3>3, SameSays
      <4>3. OnlyRecalls(x)' <=> OnlyRecalls(x) BY <3>3, SameRecalls
      <4>2. Busy(x) => Busy(x)' BY <1>0, <3>1, <3>3 DEF Busy
      <4>. QED BY <3>1, <3>2, <4>1, <4>2, <4>3 DEF Truth
    <3>4. CASE ~st'.scanning /\ st.scan = s
      <4>1. Job1(s) BY DEF EInv, Jobs
      <4>2. \A m : ~IsLast(fromPage, s, m)
        <5>1. ASSUME NEW m, IsLast(fromPage, s, m) PROVE FALSE
          <6>1. m \in ReportsIn(fromPage) /\ m.scan = s BY <5>1 DEF IsLast, About, ReportsIn
          <6>. QED BY <4>1, <6>1 DEF Job1, Told
        <5>. QED BY <5>1
      <4>3. ~SaysPart(x)'
        <5>1. \A m : ~IsLast(fromPage', s, m) BY <4>2
        <5>. QED BY <1>d, <3>1, <3>4, <5>1 DEF SaysPart
      <4>4. page'.scan # x BY <3>1, <3>4, <4>1 DEF Job1
      <4>. QED BY <4>3, <4>4 DEF Truth
    <3>. QED BY <3>3, <3>4
  <2>. QED BY <2>1 DEF Truths
<1>. QED BY <1>1, <1>2, <1>3, <1>4, <1>5, <1>6, <1>7, <1>8, <1>10, <1>11 DEF EInv

LEMMA ScanCancelsKeeps == ASSUME EInv, NEW s \in Scans, ScanCancels(s) PROVE EInv'
<1> DEFINE w == IF ~Current(s) THEN "over" ELSE IF st.csInjected THEN "starting" ELSE "injecting"
<1>1. /\ jobs[s] = "cancelled" /\ jobs' = [jobs EXCEPT ![s] = w]
      /\ st' = st /\ page' = page /\ toPage' = toPage
      /\ scans' = scans /\ tears' = tears /\ recovery' = recovery /\ waiting' = waiting
      /\ rescan' = rescan /\ toCore' = toCore /\ fromPage' = fromPage /\ doc' = doc /\ loading' = loading
      /\ devtoolsTabs' = devtoolsTabs /\ panelPorts' = panelPorts /\ devtools' = devtools /\ panel' = panel
  BY DEF ScanCancels, JobGoesTo, recoveryVars, devVars, tabVars, messages, counters
<1>2. w \in JobStates \ {"cancelling"} /\ (w = "over" => st.scan # s) BY DEF JobStates, Current
<1>3. st \in WorkerState /\ page \in Scripts BY DEF EInv, Typed
<1> HIDE DEF w
<1>. QED BY <1>1, <1>2, <1>3, JobMoves

LEMMA ScanInjectsKeeps == ASSUME EInv, NEW s \in Scans, ScanInjects(s) PROVE EInv'
<1>1. /\ jobs[s] = "injecting"
      /\ \/ page' = [page EXCEPT !.loaded = TRUE] /\ jobs' = [jobs EXCEPT ![s] = "injected"]
         \/ page' = page /\ jobs' = [jobs EXCEPT ![s] = "refused"]
      /\ st' = st /\ toPage' = toPage
      /\ scans' = scans /\ tears' = tears /\ recovery' = recovery /\ waiting' = waiting
      /\ rescan' = rescan /\ toCore' = toCore /\ fromPage' = fromPage /\ doc' = doc /\ loading' = loading
      /\ devtoolsTabs' = devtoolsTabs /\ panelPorts' = panelPorts /\ devtools' = devtools /\ panel' = panel
  BY DEF ScanInjects, JobGoesTo, recoveryVars, devVars, messages, counters
<1>2. st \in WorkerState /\ page \in Scripts BY DEF EInv, Typed
<1>3. /\ page' \in Scripts /\ page'.scan = page.scan /\ page'.run = page.run
      /\ page'.timer = page.timer /\ page'.told = page.told /\ (page'.loaded \/ page' = page)
  BY <1>1, <1>2 DEF Scripts
<1>4. {"injected", "refused"} \subseteq JobStates \ {"cancelling", "over"} BY DEF JobStates
<1>5. PICK w \in {"injected", "refused"} : jobs' = [jobs EXCEPT ![s] = w] BY <1>1
<1>. QED BY <1>1, <1>2, <1>3, <1>4, <1>5, JobMoves

LEMMA ScanInjectedKeeps == ASSUME EInv, NEW s \in Scans, ScanInjected(s) PROVE EInv'
<1> DEFINE w == IF Current(s) THEN "starting" ELSE "over"
<1>1. /\ jobs[s] = "injected" /\ jobs' = [jobs EXCEPT ![s] = w]
      /\ st' = IF Current(s) THEN [st EXCEPT !.csInjected = TRUE] ELSE st
      /\ page' = page /\ toPage' = toPage
      /\ scans' = scans /\ tears' = tears /\ recovery' = recovery /\ waiting' = waiting
      /\ rescan' = rescan /\ toCore' = toCore /\ fromPage' = fromPage /\ doc' = doc /\ loading' = loading
      /\ devtoolsTabs' = devtoolsTabs /\ panelPorts' = panelPorts /\ devtools' = devtools /\ panel' = panel
  BY DEF ScanInjected, JobGoesTo, recoveryVars, devVars, tabVars, messages, counters
<1>2. w \in JobStates \ {"cancelling"} /\ (w = "over" => st.scan # s) BY DEF JobStates, Current
<1>3. st \in WorkerState /\ page \in Scripts BY DEF EInv, Typed
<1>4. /\ st' \in WorkerState /\ st'.scan = st.scan /\ st'.known = st.known /\ st'.report = st.report
      /\ st'.scanning = st.scanning /\ st'.complete = st.complete /\ st'.error = st.error
  BY <1>1, <1>3 DEF WorkerState
<1> HIDE DEF w
<1>. QED BY <1>1, <1>2, <1>3, <1>4, JobMoves

LEMMA ScanStartsKeeps == ASSUME EInv, NEW s \in Scans, ScanStarts(s) PROVE EInv'
<1>1. /\ jobs[s] = "starting"
      /\ \/ /\ st.scan = s /\ jobs' = [jobs EXCEPT ![s] = "sent"]
            /\ toPage' = Append(toPage, [type |-> "scan", scan |-> s])
         \/ st.scan # s /\ jobs' = [jobs EXCEPT ![s] = "over"] /\ toPage' = toPage
      /\ st' = st /\ page' = page
      /\ scans' = scans /\ tears' = tears /\ recovery' = recovery /\ waiting' = waiting
      /\ rescan' = rescan /\ toCore' = toCore /\ fromPage' = fromPage /\ doc' = doc /\ loading' = loading
      /\ devtoolsTabs' = devtoolsTabs /\ panelPorts' = panelPorts /\ devtools' = devtools /\ panel' = panel
  BY DEF ScanStarts, JobGoesTo, TellsPage, Current, recoveryVars, devVars, tabVars, counters
<1>2. st \in WorkerState /\ page \in Scripts BY DEF EInv, Typed
<1>3. {"sent", "over"} \subseteq JobStates \ {"cancelling"} BY DEF JobStates
<1>4. CASE st.scan = s BY <1>1, <1>2, <1>3, <1>4, JobMoves
<1>5. CASE st.scan # s BY <1>1, <1>2, <1>3, <1>5, JobMoves
<1>. QED BY <1>4, <1>5

LEMMA ScanFailsKeeps == ASSUME EInv, NEW s \in Scans, ScanFails(s) PROVE EInv'
<1>1. /\ jobs[s] \in {"refused", "deaf", "starting"} /\ jobs' = [jobs EXCEPT ![s] = "over"]
      /\ st' = Failed(st, s) /\ page' = page /\ toPage' = toPage
      /\ scans' = scans /\ tears' = tears /\ recovery' = recovery /\ waiting' = waiting
      /\ rescan' = rescan /\ toCore' = toCore /\ fromPage' = fromPage /\ doc' = doc /\ loading' = loading
      /\ devtoolsTabs' = devtoolsTabs /\ panelPorts' = panelPorts /\ devtools' = devtools /\ panel' = panel
  BY DEF ScanFails, JobGoesTo, recoveryVars, devVars, tabVars, messages, counters
<1>2. st \in WorkerState /\ page \in Scripts BY DEF EInv, Typed
<1>3. "over" \in JobStates \ {"cancelling"} BY DEF JobStates
<1>4. /\ st' \in WorkerState /\ st'.scan = st.scan /\ st'.known = st.known
      /\ st.scan # s => st' = st
      /\ st.scan = s => st'.report = NoReport /\ ~st'.complete /\ ~st'.scanning
  BY <1>1, <1>2, FailedIs
<1>. QED BY <1>1, <1>2, <1>3, <1>4, JobMoves
----------------------------------------------------------------------------
(***************************************************************************)
(* tearDownTab goes on: a remove is for a page without a current scan, and *)
(* what is left of the scan goes when it is answered.                      *)
(***************************************************************************)
LEMMA TearCancelsKeeps == ASSUME EInv, NEW o \in Openings, TearCancels(o) PROVE EInv'
<1> DEFINE r == [type |-> "remove", tear |-> o]
<1>0. /\ tears[o] = "cancelled"
      /\ \/ /\ st.scan = NULL /\ toPage' = Append(toPage, r)
            /\ tears' = [tears EXCEPT ![o] = "removing"]
         \/ /\ st.scan # NULL /\ toPage' = toPage
            /\ tears' = [tears EXCEPT ![o] = "over"]
      /\ st' = st /\ jobs' = jobs /\ page' = page
      /\ scans' = scans /\ recovery' = recovery /\ waiting' = waiting
      /\ rescan' = rescan /\ toCore' = toCore /\ fromPage' = fromPage /\ doc' = doc /\ loading' = loading
      /\ devtoolsTabs' = devtoolsTabs /\ panelPorts' = panelPorts /\ devtools' = devtools /\ panel' = panel
  BY DEF TearCancels, TellsPage, recoveryVars, devVars, tabVars, counters
<1>r. r \in Orders /\ r.type = "remove" BY DEF Orders
<1> HIDE DEF r
<1>d. st.scan # Undefined BY <1>0 DEF EInv, Anew
<1>a. tears \in [Openings -> TearStates] /\ toPage \in Seq(Orders) BY DEF EInv, Typed, Lines
\* What the page is still told besides the remove.
<1>b. /\ toPage' \in Seq(Orders)
      /\ DOMAIN toPage' \subseteq Int
      /\ \A i \in DOMAIN toPage' : toPage'[i].type # "remove" \/ st.scan # NULL =>
           i \in DOMAIN toPage /\ toPage'[i] = toPage[i]
  <2>1. CASE st.scan = NULL
    <3>1. toPage' = Append(toPage, r) BY <1>0, <2>1
    <3>2. /\ toPage' \in Seq(Orders) /\ DOMAIN toPage' = 1 .. Len(toPage) + 1
          /\ Len(toPage) \in Nat /\ DOMAIN toPage = 1 .. Len(toPage)
          /\ \A i \in DOMAIN toPage : toPage'[i] = toPage[i]
          /\ toPage'[Len(toPage) + 1] = r
      BY <1>a, <1>r, <3>1, AppendIs
    <3>3. \A i \in DOMAIN toPage' : i \in DOMAIN toPage \/ i = Len(toPage) + 1 BY <3>2
    <3>. QED BY <1>r, <2>1, <3>2, <3>3
  <2>2. CASE st.scan # NULL
    <3>1. toPage' = toPage /\ DOMAIN toPage = 1 .. Len(toPage) BY <1>0, <1>a, <2>2
    <3>. QED BY <1>a, <3>1
  <2>. QED BY <2>1, <2>2
<1>t. Told' = Told /\ Rescans' = Rescans BY <1>0 DEF Told, ReportsIn, Rescans
<1>1. Typed'
  <2>1. {"removing", "over"} \subseteq TearStates BY DEF TearStates
  <2>2. tears' \in [Openings -> TearStates] BY <1>0, <1>a, <2>1
  <2>. QED BY <1>0, <2>2 DEF EInv, Typed
<1>2. Lines' /\ DevTools' BY <1>0, <1>b DEF EInv, Lines, DevTools
<1>3. Budget' BY <1>0, <1>t DEF EInv, Budget, Asked
<1>4. Given' BY <1>0, <1>t DEF EInv, Given
<1>5. Recovering'
  <2>1. \A i \in DOMAIN toPage' : toPage'[i].type = "get-scan-id" =>
          i \in DOMAIN toPage /\ toPage'[i] = toPage[i]
    BY <1>b
  <2>2. Recovering /\ ReportsIn(waiting') = ReportsIn(waiting) BY <1>0 DEF EInv, ReportsIn
  <2>. QED BY <1>0, <2>1, <2>2 DEF Recovering
<1>s. \A i \in DOMAIN toPage' : toPage'[i].type = "scan" =>
        i \in DOMAIN toPage /\ toPage'[i] = toPage[i]
  BY <1>b
<1>6. Jobs'
  <2>1. Jobs BY DEF EInv
  <2>2. \A x \in Scans : Job1(x)' <=> Job1(x) BY <1>0, <1>t DEF Job1
  <2>. QED BY <1>0, <1>s, <2>1, <2>2 DEF Jobs
<1>7. Cancelling' BY <1>0 DEF EInv, Cancelling
<1>8. Anew' BY <1>0, <1>d DEF Anew
<1>9. Torn'
  <2>1. CASE st.scan = NULL
    <3>1. TearingDown'
      <4>1. tears' = [tears EXCEPT ![o] = "removing"] BY <1>0, <2>1
      <4>2. tears'[o] # "over" BY <1>a, <4>1
      <4>. QED BY <4>2 DEF TearingDown
    <3>2. \A i \in DOMAIN toPage' : toPage'[i].type = "scan" => toPage'[i].scan # NULL
      BY <1>s, ToldIsOfScans, ScansAreNumbers
    <3>. QED BY <1>0, <2>1, <3>1, <3>2 DEF Torn
  <2>2. CASE st.scan # NULL BY <1>0, <2>2 DEF EInv, Torn
  <2>. QED BY <2>1, <2>2
<1>10. Documents' BY <1>0, <1>t DEF EInv, Documents, Taken
<1>11. Truths'
  <2>1. ASSUME NEW x \in Scans, Minds(x)' PROVE Truth(x)'
    <3>1. Truth(x) BY <1>0, <2>1 DEF EInv, Truths, Minds
    <3>2. (SaysPart(x)' <=> SaysPart(x)) /\ (SaysWhole(x)' <=> SaysWhole(x)) BY <1>0, SameSays
    <3>4. OnlyRecalls(x)' <=> OnlyRecalls(x) BY <1>0, SameRecalls
    <3>3. (Busy(x)' <=> Busy(x)) /\ (Soon' <=> Soon) BY <1>0, <1>t DEF Busy, Soon
    <3>. QED BY <1>0, <3>1, <3>2, <3>3, <3>4 DEF Truth
  <2>. QED BY <2>1 DEF Truths
<1>. QED BY <1>1, <1>2, <1>3, <1>4, <1>5, <1>6, <1>7, <1>8, <1>9, <1>10, <1>11 DEF EInv

LEMMA TearEndsKeeps == ASSUME EInv, NEW o \in Openings, TearEnds(o) PROVE EInv'
<1>0. /\ tears[o] = "removed" /\ tears' = [tears EXCEPT ![o] = "over"]
      /\ \/ st.scan = NULL /\ st' = Cleared(st) /\ panelPorts' = FALSE
         \/ st.scan # NULL /\ st' = st /\ panelPorts' = panelPorts
      /\ jobs' = jobs /\ page' = page /\ toPage' = toPage
      /\ scans' = scans /\ recovery' = recovery /\ waiting' = waiting
      /\ rescan' = rescan /\ toCore' = toCore /\ fromPage' = fromPage /\ doc' = doc /\ loading' = loading
      /\ devtoolsTabs' = devtoolsTabs /\ devtools' = devtools /\ panel' = panel
  BY DEF TearEnds, recoveryVars, devtoolsVars, tabVars, messages, counters
<1>d. st.scan # Undefined BY <1>0 DEF EInv, Anew
<1>c. /\ st' \in WorkerState /\ st'.scan = st.scan /\ st'.known = st.known
      /\ st.scan # NULL => st' = st
      /\ st.scan = NULL => st'.report = NoReport /\ ~st'.scanning
  <2>1. st \in WorkerState BY DEF EInv, Typed
  <2>. QED BY <1>0, <2>1, ClearedIs
<1>n. NULL \notin Scans BY ScansAreNumbers
<1>t. Told' = Told /\ Rescans' = Rescans BY <1>0 DEF Told, ReportsIn, Rescans
<1>1. Typed'
  <2>1. "over" \in TearStates /\ tears \in [Openings -> TearStates] BY DEF EInv, Typed, TearStates
  <2>2. tears' \in [Openings -> TearStates] BY <1>0, <2>1
  <2>. QED BY <1>0, <1>c, <2>2 DEF EInv, Typed
<1>2. Lines' /\ DevTools'
  <2>1. Lines' BY <1>0 DEF EInv, Lines
  <2>2. panelPorts' \in BOOLEAN /\ (panelPorts' => panelPorts)
    <3>0. panelPorts \in BOOLEAN BY DEF EInv, DevTools
    <3>1. CASE panelPorts' = FALSE BY <3>1
    <3>2. CASE panelPorts' = panelPorts BY <3>0, <3>2
    <3>. QED BY <1>0, <3>1, <3>2
  <2>3. devtoolsTabs' = devtoolsTabs /\ devtools' = devtools /\ panel' = panel BY <1>0
  <2>4. DevTools' BY <2>2, <2>3 DEF EInv, DevTools
  <2>. QED BY <2>1, <2>4
<1>3. Budget' BY <1>0, <1>t DEF EInv, Budget, Asked
<1>4. Given' BY <1>0, <1>c, <1>t DEF EInv, Given
<1>5. Recovering' BY <1>0, <1>c DEF EInv, Recovering, ReportsIn
<1>6. Jobs'
  <2>1. \A x \in Scans : Job1(x) => Job1(x)' BY <1>0, <1>c, <1>n, <1>t DEF Job1
  <2>. QED BY <1>0, <2>1 DEF EInv, Jobs
<1>7. Cancelling' BY <1>0, <1>c DEF EInv, Cancelling
<1>8. Anew' BY <1>c, <1>d DEF Anew
<1>9. Torn' BY <1>0, <1>c DEF EInv, Torn
<1>10. Documents' BY <1>0, <1>c, <1>t DEF EInv, Documents, Taken
<1>11. Truths'
  <2>1. ASSUME NEW x \in Scans, Minds(x)' PROVE Truth(x)'
    <3>0. st.scan = x /\ st' = st BY <1>c, <1>d, <1>n, <2>1 DEF Minds
    <3>1. Truth(x) BY <3>0 DEF EInv, Truths, Minds
    <3>2. (SaysPart(x)' <=> SaysPart(x)) /\ (SaysWhole(x)' <=> SaysWhole(x)) BY <1>0, <3>0, SameSays
    <3>4. OnlyRecalls(x)' <=> OnlyRecalls(x) BY <1>0, <3>0, SameRecalls
    <3>3. (Busy(x)' <=> Busy(x)) /\ (Soon' <=> Soon) BY <1>0, <1>t DEF Busy, Soon
    <3>. QED BY <1>0, <3>1, <3>2, <3>3, <3>4 DEF Truth
  <2>. QED BY <2>1 DEF Truths
<1>. QED BY <1>1, <1>2, <1>3, <1>4, <1>5, <1>6, <1>7, <1>8, <1>9, <1>10, <1>11 DEF EInv
----------------------------------------------------------------------------
(***************************************************************************)
(* The scan ID is invalidated, by a navigation or as DevTools closes: no   *)
(* report is believed, and nothing is said of any scan.                    *)
(***************************************************************************)
LEMMA InvalidatedKeeps ==
  ASSUME EInv, NEW who \in Cancels, who.awaits # "scan", toCore' = Append(toCore, who),
         st' \in WorkerState, st'.scan = NULL, st'.known,
         scans' = scans, jobs' = jobs, recovery' = recovery, waiting' = waiting,
         toPage' = toPage, fromPage' = fromPage, doc' = doc, page' = page
  PROVE  Lines' /\ Given' /\ Recovering' /\ Jobs' /\ Cancelling' /\ Anew' /\ Truths'
<1>n. NULL \notin Scans /\ NULL # Undefined BY ScansAreNumbers
<1>c. /\ toCore' \in Seq(Cancels)
      /\ DOMAIN toCore = 1 .. Len(toCore) /\ DOMAIN toCore' = 1 .. Len(toCore) + 1
      /\ Len(toCore) \in Nat
      /\ \A i \in DOMAIN toCore : toCore'[i] = toCore[i]
      /\ toCore'[Len(toCore) + 1] = who
  <2>1. toCore \in Seq(Cancels) BY DEF EInv, Lines
  <2>. QED BY <2>1, AppendIs
<1>t. Told' = Told BY DEF Told, ReportsIn
<1>1. Lines' BY <1>c DEF EInv, Lines
<1>2. Given'
  <2>1. ASSUME NEW i \in DOMAIN toCore', toCore'[i].awaits = "scan" PROVE toCore'[i].id <= scans
    <3>1. i \in DOMAIN toCore
      <4>1. i # Len(toCore) + 1 BY <1>c, <2>1
      <4>. QED BY <1>c, <4>1
    <3>. QED BY <1>c, <2>1, <3>1 DEF EInv, Given
  <2>. QED BY <1>n, <1>t, <2>1 DEF EInv, Given
<1>3. Recovering'
  <2>1. \A m \in ReportsIn(waiting) : m.scan # NULL BY <1>n, ToldIsOfScans
  <2>2. ReportsIn(waiting') = ReportsIn(waiting) BY DEF ReportsIn
  <2>. QED BY <2>1, <2>2 DEF EInv, Recovering
<1>4. Jobs'
  <2>1. \A x \in Scans : Job1(x) => Job1(x)' BY <1>n, <1>t DEF Job1
  <2>. QED BY <2>1 DEF EInv, Jobs
<1>5. Cancelling' BY <1>n DEF Cancelling
<1>6. Anew' BY <1>n DEF Anew
<1>7. Truths' BY <1>n DEF Truths, Minds
<1>. QED BY <1>1, <1>2, <1>3, <1>4, <1>5, <1>6, <1>7

LEMMA ScansAreToldToPage ==
  ASSUME EInv
  PROVE  \A i \in DOMAIN toPage : toPage[i].type = "scan" => toPage[i].scan # NULL
BY ToldIsOfScans, ScansAreNumbers

LEMMA DevToolsClosesKeeps == ASSUME EInv, DevToolsCloses PROVE EInv'
<1>0. /\ devtools.open
      /\ devtools' = [devtools EXCEPT !.open = FALSE, !.linked = FALSE]
      /\ panel' = [shows |-> "closed", linked |-> FALSE] /\ panelPorts' = FALSE
      /\ jobs' = jobs /\ page' = page /\ toPage' = toPage
      /\ scans' = scans /\ recovery' = recovery /\ waiting' = waiting
      /\ rescan' = rescan /\ fromPage' = fromPage /\ doc' = doc /\ loading' = loading
  BY DEF DevToolsCloses, recoveryVars, tabVars, counters
<1>1. devtoolsTabs' \in BOOLEAN
  <2>1. devtoolsTabs \in BOOLEAN BY DEF EInv, DevTools
  <2>. QED BY <2>1 DEF DevToolsCloses
<1>2. DevTools' /\ devtools.opened \in Openings BY <1>0, <1>1 DEF EInv, DevTools
<1>3. CASE ~devtools.linked
  <2>1. st' = st /\ tears' = tears /\ toCore' = toCore BY <1>3 DEF DevToolsCloses
  <2>. QED BY <1>0, <1>2, <2>1, ConnectingKeeps
<1>4. CASE devtools.linked
  <2> DEFINE o == devtools.opened
  <2>1. /\ st' = [st EXCEPT !.known = TRUE, !.scan = NULL]
        /\ tears' = [tears EXCEPT ![o] = "cancelling"]
        /\ toCore' = Append(toCore, ForTear(o))
    BY <1>4 DEF DevToolsCloses, CancelTabScans
  <2>2. st \in WorkerState /\ tears \in [Openings -> TearStates] BY DEF EInv, Typed
  <2>3. /\ st' \in WorkerState /\ st'.scan = NULL /\ st'.known
        /\ st'.report = st.report
    BY <2>1, <2>2 DEF WorkerState, ScanIds
  <2>4. ForTear(o) \in Cancels /\ ForTear(o).awaits # "scan" BY <1>2 DEF ForTear, Cancels
  <2>5. /\ tears' \in [Openings -> TearStates] /\ TearingDown'
    <3>1. "cancelling" \in TearStates BY DEF TearStates
    <3>2. tears' \in [Openings -> TearStates] /\ tears'[o] = "cancelling" BY <1>2, <2>1, <2>2, <3>1
    <3>. QED BY <1>2, <3>2 DEF TearingDown
  <2> HIDE DEF o
  <2>6. Lines' /\ Given' /\ Recovering' /\ Jobs' /\ Cancelling' /\ Anew' /\ Truths'
    BY <1>0, <2>1, <2>3, <2>4, InvalidatedKeeps
  <2>7. Typed' BY <1>0, <2>3, <2>5 DEF EInv, Typed
  <2>8. Budget'
    <3>1. Rescans' = Rescans BY <1>0 DEF Rescans
    <3>. QED BY <1>0, <3>1 DEF EInv, Budget, Asked
  <2>9. Torn' BY <1>0, <2>3, <2>5, ScansAreToldToPage DEF Torn
  <2>10. Documents'
    <3>1. Taken' = NULL BY <2>3, ScansAreNumbers DEF Taken
    <3>2. Told' = Told BY <1>0 DEF Told, ReportsIn
    <3>3. \A m \in Told : m.scan # NULL BY ToldIsOfScans, ScansAreNumbers
    <3>. QED BY <1>0, <2>3, <3>1, <3>2, <3>3 DEF EInv, Documents
  <2>. QED BY <1>2, <2>6, <2>7, <2>8, <2>9, <2>10 DEF EInv
<1>. QED BY <1>3, <1>4

\* What the panel shows is all a message to it may change.
LEMMA PanelShowsKeeps ==
  ASSUME EInv, NEW what \in {"closed", "result", "scanning"}, PanelShows(what) \/ panel' = panel,
         devtoolsTabs' = devtoolsTabs, panelPorts' = panelPorts, devtools' = devtools
  PROVE  DevTools'
<1>1. panel \in [shows : {"closed", "result", "scanning"}, linked : BOOLEAN] BY DEF EInv, DevTools
<1>2. panel' = panel \/ panel' = [panel EXCEPT !.shows = what] BY DEF PanelShows
<1>3. /\ panel' \in [shows : {"closed", "result", "scanning"}, linked : BOOLEAN]
      /\ panel'.linked = panel.linked
  BY <1>1, <1>2
<1>. QED BY <1>3 DEF EInv, DevTools

LEMMA CompletedKeeps == ASSUME EInv, Completed PROVE EInv'
<1>0. /\ loading /\ loading' = FALSE /\ toCore' = Append(toCore, ForNobody)
      /\ st' = IF st.known THEN [Cleared(st) EXCEPT !.scan = NULL] ELSE st
      /\ PanelShows("scanning") \/ panel' = panel
      /\ rescan' = rescan \/ rescan' = rescan + 1
      /\ jobs' = jobs /\ tears' = tears /\ page' = page /\ toPage' = toPage
      /\ scans' = scans /\ recovery' = recovery /\ waiting' = waiting
      /\ fromPage' = fromPage /\ doc' = doc
      /\ devtoolsTabs' = devtoolsTabs /\ panelPorts' = panelPorts /\ devtools' = devtools
  <2>1. rescan \in Nat BY DEF EInv, Typed
  <2>2. rescan' = rescan \/ rescan' = rescan + 1 BY <2>1 DEF Completed
  <2>. QED BY <2>2 DEF Completed, CancelTabScans, coroutines, recoveryVars, ports, counters
<1>n. NULL \notin Scans /\ NULL # Undefined BY ScansAreNumbers
<1>w. ForNobody \in Cancels /\ ForNobody.awaits # "scan" /\ ForNobody.awaits = "nobody"
  BY DEF Cancels, ForNobody
<1>t. Told' = Told /\ Rescans' = Rescans BY <1>0 DEF Told, ReportsIn, Rescans
<1>m. \A m \in Told : m.scan # NULL BY <1>n, ToldIsOfScans
<1>1. DevTools' BY <1>0, PanelShowsKeeps
<1>2. Budget' /\ rescan' \in Nat
  <2>1. One(loading) = 1 /\ One(loading') = 0 BY <1>0 DEF One
  <2>2. One(page'.timer) = One(page.timer) BY <1>0
  <2>3. rescan' \in Nat BY <1>0, BudgetIsInt
  <2>4. Asked' = scans + rescan' + 0 + One(page.timer) + Cardinality(Rescans)
    BY <1>0, <1>t, <2>1, <2>2 DEF Asked
  <2>5. scans + rescan + 1 + One(page.timer) + Cardinality(Rescans) <= MaxScans BY <2>1, BudgetIsInt
  <2>6. Asked' <= MaxScans BY <1>0, <2>4, <2>5, BudgetIsInt
  <2>. QED BY <2>3, <2>6 DEF Budget
<1>3. CASE st.known
  <2>1. /\ st' \in WorkerState /\ st'.scan = NULL /\ st'.known
        /\ st'.report = NoReport /\ ~st'.scanning
    <3> DEFINE c == Cleared(st)
    <3>1. st \in WorkerState BY DEF EInv, Typed
    <3>2. /\ c \in WorkerState /\ c.known = st.known /\ c.report = NoReport /\ ~c.scanning
      BY <3>1, ClearedIs
    <3>3. st' = [c EXCEPT !.scan = NULL] BY <1>0, <1>3
    <3> HIDE DEF c
    <3>. QED BY <1>3, <3>2, <3>3 DEF WorkerState, ScanIds
  <2>2. Lines' /\ Given' /\ Recovering' /\ Jobs' /\ Cancelling' /\ Anew' /\ Truths'
    BY <1>0, <1>w, <2>1, InvalidatedKeeps
  <2>3. Typed' BY <1>0, <1>2, <2>1 DEF EInv, Typed
  <2>4. Torn' BY <1>0, <2>1, ScansAreToldToPage DEF Torn
  <2>5. Documents'
    <3>1. Taken' = NULL BY <1>n, <2>1 DEF Taken
    <3>. QED BY <1>0, <1>m, <1>t, <2>1, <3>1 DEF EInv, Documents
  <2>. QED BY <1>1, <1>2, <2>2, <2>3, <2>4, <2>5 DEF EInv
\* A worker that does not know the tab: nothing was reported, and the page
\* has no scan.
<1>4. CASE ~st.known
  <2>1. st' = st /\ st.scan = Undefined BY <1>0, <1>4 DEF EInv, Recovering
  <2>2. recovery.scan = NULL BY <1>4 DEF EInv, Recovering, Idle
  <2>3. page.scan = NULL BY <1>0, <2>1 DEF EInv, Anew
  <2>4. Typed' BY <1>0, <1>2, <2>1 DEF EInv, Typed
  <2>c. /\ toCore' \in Seq(Cancels)
        /\ DOMAIN toCore = 1 .. Len(toCore) /\ DOMAIN toCore' = 1 .. Len(toCore) + 1
        /\ Len(toCore) \in Nat
        /\ \A i \in DOMAIN toCore : toCore'[i] = toCore[i]
        /\ toCore'[Len(toCore) + 1] = ForNobody
    <3>1. toCore \in Seq(Cancels) BY DEF EInv, Lines
    <3>. QED BY <1>0, <1>w, <3>1, AppendIs
  <2>5. Lines' BY <1>0, <2>c DEF EInv, Lines
  <2>6. Given'
    <3>1. ASSUME NEW i \in DOMAIN toCore', toCore'[i].awaits = "scan" PROVE toCore'[i].id <= scans
      <4>1. i # Len(toCore) + 1 BY <1>w, <2>c, <3>1
      <4>2. i \in DOMAIN toCore BY <2>c, <4>1
      <4>. QED BY <2>c, <3>1, <4>2 DEF EInv, Given
    <3>. QED BY <1>0, <1>t, <2>1, <3>1 DEF EInv, Given
  <2>7. Recovering' BY <1>0, <2>1 DEF EInv, Recovering, ReportsIn
  <2>8. Jobs'
    <3>1. \A x \in Scans : Job1(x)' <=> Job1(x) BY <1>0, <1>t, <2>1 DEF Job1
    <3>. QED BY <1>0, <3>1 DEF EInv, Jobs
  <2>9. Cancelling' BY <1>0, <2>1, <2>2, <2>3, ScansAreNumbers DEF Cancelling
  <2>10. Anew' BY <1>0, <1>t, <2>1, <2>2, <2>3 DEF EInv, Anew
  <2>11. Torn'
    <3>1. st' = st /\ tears' = tears /\ toPage' = toPage /\ page' = page BY <1>0, <2>1
    <3>. QED BY <3>1 DEF EInv, Torn, TearingDown
  <2>12. Documents'
    <3>1. Taken' = NULL BY <1>0, <2>1, <2>2 DEF Taken
    <3>2. st.report = NoReport BY <2>1 DEF EInv, Anew
    <3>. QED BY <1>0, <1>m, <1>t, <2>1, <2>3, <3>1, <3>2 DEF Documents
  <2>13. Truths' BY <1>0, <1>n, <2>1, <2>2, <2>3, ScansAreNumbers DEF Truths, Minds
  <2>. QED BY <1>1, <1>2, <2>4, <2>5, <2>6, <2>7, <2>8, <2>9, <2>10, <2>11, <2>12, <2>13 DEF EInv
<1>. QED BY <1>3, <1>4
----------------------------------------------------------------------------
(***************************************************************************)
(* The core drops the sessions of the tab: of the current scan none is     *)
(* there yet, because a scan starts one only when its own cancel has       *)
(* landed.                                                                 *)
(***************************************************************************)
LEMMA CancelLandsKeeps == ASSUME EInv, CancelLands PROVE EInv'
<1> DEFINE who == Head(toCore)
<1>0. /\ toCore # <<>> /\ toCore' = Tail(toCore)
      /\ \E run \in Dropped(page.run) : page' = [page EXCEPT !.run = run]
      /\ jobs' = IF who.awaits = "scan" /\ jobs[who.id] = "cancelling"
                   THEN [jobs EXCEPT ![who.id] = "cancelled"] ELSE jobs
      /\ tears' = IF who.awaits = "tear" /\ tears[who.id] = "cancelling"
                    THEN [tears EXCEPT ![who.id] = "cancelled"] ELSE tears
      /\ st' = st /\ toPage' = toPage /\ rescan' = rescan
      /\ scans' = scans /\ recovery' = recovery /\ waiting' = waiting
      /\ fromPage' = fromPage /\ doc' = doc /\ loading' = loading
      /\ devtoolsTabs' = devtoolsTabs /\ panelPorts' = panelPorts
      /\ devtools' = devtools /\ panel' = panel
  BY DEF CancelLands, recoveryVars, devVars, counters
<1> HIDE DEF who
<1>n. Undefined \notin Scans /\ NULL \notin Scans /\ Scans \subseteq Int BY ScansAreNumbers
<1>c. /\ toCore' \in Seq(Cancels) /\ who \in Cancels /\ who = toCore[1]
      /\ DOMAIN toCore = 1 .. Len(toCore) /\ Len(toCore) \in Nat \ {0} /\ 1 \in DOMAIN toCore
      /\ DOMAIN toCore' = 1 .. Len(toCore) - 1 /\ Len(toCore') = Len(toCore) - 1
      /\ \A i \in DOMAIN toCore' : i + 1 \in DOMAIN toCore /\ toCore'[i] = toCore[i + 1]
  <2>1. toCore \in Seq(Cancels) BY DEF EInv, Lines
  <2>. QED BY <1>0, <2>1, TailIs DEF who
<1>w. /\ who.awaits = "scan" => who.id \in Scans /\ who = ForScan(who.id)
      /\ who.awaits = "tear" => who.id \in Openings
  BY <1>c DEF Cancels, ForScan, ForNobody
<1>j. /\ jobs' \in [Scans -> JobStates]
      /\ \A x \in Scans : jobs'[x] # jobs[x] =>
           /\ jobs[x] = "cancelling" /\ jobs'[x] = "cancelled" /\ who = ForScan(x)
      /\ \A x \in Scans : who = ForScan(x) => jobs'[x] # "cancelling"
  <2>1. jobs \in [Scans -> JobStates] /\ "cancelled" \in JobStates BY DEF EInv, Typed, JobStates
  <2>2. \A x \in Scans : who = ForScan(x) => who.awaits = "scan" /\ who.id = x BY DEF ForScan
  <2>3. CASE who.awaits = "scan" /\ jobs[who.id] = "cancelling"
    <3>1. jobs' = [jobs EXCEPT ![who.id] = "cancelled"] /\ who.id \in Scans /\ who = ForScan(who.id)
      BY <1>0, <1>w, <2>3
    <3>. QED BY <2>1, <2>2, <2>3, <3>1
  <2>4. CASE ~(who.awaits = "scan" /\ jobs[who.id] = "cancelling")
    <3>1. jobs' = jobs BY <1>0, <2>4
    <3>. QED BY <2>1, <2>2, <2>4, <3>1
  <2>. QED BY <2>3, <2>4
<1>r. /\ tears' \in [Openings -> TearStates]
      /\ \A o \in Openings : tears'[o] = "over" <=> tears[o] = "over"
  <2>1. tears \in [Openings -> TearStates] /\ "cancelled" \in TearStates BY DEF EInv, Typed, TearStates
  <2>2. tears' = tears \/ \E o \in Openings : tears[o] = "cancelling" /\ tears' = [tears EXCEPT ![o] = "cancelled"]
    BY <1>0, <1>w
  <2>. QED BY <2>1, <2>2
<1>p. /\ page' \in Scripts /\ page'.scan = page.scan /\ page'.timer = page.timer
      /\ page'.run # "idle" => page.run # "idle"
      /\ ~page'.loaded => page' = NoScript
  <2>1. page \in Scripts /\ (~page.loaded => page = NoScript) BY DEF EInv, Typed
  <2>2. PICK run \in Dropped(page.run) : page' = [page EXCEPT !.run = run] BY <1>0
  <2>3. run \in Runs /\ (run # "idle" => page.run # "idle") /\ (page.run = "idle" => run = "idle")
    BY <2>1 DEF Dropped, Runs, Finished, Scripts
  <2>4. CASE page.loaded BY <2>1, <2>2, <2>3, <2>4 DEF Scripts
  <2>5. CASE ~page.loaded
    <3>1. page.run = "idle" /\ run = "idle" BY <2>1, <2>3, <2>5 DEF NoScript
    <3>2. page' = page BY <2>1, <2>2, <3>1 DEF Scripts
    <3>. QED BY <2>1, <3>1, <3>2
  <2>. QED BY <2>4, <2>5
<1>t. Told' = Told /\ Rescans' = Rescans BY <1>0 DEF Told, ReportsIn, Rescans
<1>1. Typed' BY <1>0, <1>j, <1>r, <1>p DEF EInv, Typed
<1>2. Lines' /\ DevTools' BY <1>0, <1>c DEF EInv, Lines, DevTools
<1>3. Budget' BY <1>0, <1>p, <1>t DEF EInv, Budget, Asked
<1>4. Given'
  <2>1. \A x \in Scans : jobs'[x] # "over" => jobs[x] # "over" BY <1>j
  <2>. QED BY <1>0, <1>c, <1>p, <1>t, <2>1 DEF EInv, Given
<1>5. Recovering' BY <1>0 DEF EInv, Recovering, ReportsIn
<1>6. Jobs'
  <2>1. \A x \in Scans : Job1(x)' <=> Job1(x) BY <1>0, <1>p, <1>t DEF Job1
  <2>2. \A x \in Scans : jobs'[x] # "over" => jobs[x] # "over" BY <1>j
  <2>3. \A x \in Scans : jobs[x] = "sent" => jobs'[x] = "sent" BY <1>j
  <2>. QED BY <1>0, <1>p, <2>1, <2>2, <2>3, ToldIsOfScans DEF EInv, Jobs
<1>7. Cancelling'
  <2>1. ASSUME st.scan \in Scans, jobs'[st.scan] # "cancelling" PROVE toCore' = <<>>
    <3>1. jobs[st.scan] = "cancelling" BY <1>0, <2>1 DEF EInv, Cancelling
    <3>2. toCore[1] = ForScan(st.scan) BY <1>c, <1>j, <2>1, <3>1
    <3>3. 1 = Len(toCore) BY <1>c, <2>1, <3>1, <3>2 DEF EInv, Cancelling
    <3>4. Len(toCore') = Len(toCore) - 1 BY <1>c
    <3>5. Len(toCore') = 0 BY <3>3, <3>4
    <3>. QED BY <1>c, <3>5
  <2>2. ASSUME st.scan \in Scans, jobs'[st.scan] = "cancelling"
        PROVE  /\ toCore' # <<>>
               /\ \A i \in DOMAIN toCore' : toCore'[i] = ForScan(st.scan) <=> i = Len(toCore')
    <3>1. jobs[st.scan] = "cancelling" BY <1>j, <2>2
    <3>2. \A i \in DOMAIN toCore : toCore[i] = ForScan(st.scan) <=> i = Len(toCore)
      BY <2>2, <3>1 DEF EInv, Cancelling
    <3>3. who # ForScan(st.scan) BY <1>j, <2>2
    <3>4. Len(toCore) # 1 BY <1>c, <3>2, <3>3
    <3>5. Len(toCore') # 0 BY <1>c, <3>4
    <3>6. ASSUME NEW i \in DOMAIN toCore' PROVE toCore'[i] = ForScan(st.scan) <=> i = Len(toCore')
      <4>1. toCore'[i] = toCore[i + 1] /\ i + 1 \in DOMAIN toCore BY <1>c
      <4>2. i + 1 = Len(toCore) <=> i = Len(toCore') BY <1>c
      <4>. QED BY <3>2, <4>1, <4>2
    <3>. QED BY <3>5, <3>6
  <2>3. st.scan = Undefined => page.scan = NULL /\ recovery.scan = NULL
    BY <1>0 DEF EInv, Cancelling
  <2>. QED BY <1>0, <1>p, <2>1, <2>2, <2>3 DEF Cancelling
<1>8. Anew'
  <2>1. ASSUME st.scan = Undefined PROVE \A x \in Scans : jobs'[x] = "over"
    BY <1>j, <2>1 DEF EInv, Anew
  <2>. QED BY <1>0, <1>p, <1>r, <1>t, <2>1 DEF EInv, Anew
<1>9. Torn' BY <1>0, <1>p, <1>r DEF EInv, Torn, TearingDown
<1>10. Documents' BY <1>0, <1>p, <1>t DEF EInv, Documents, Taken
<1>11. Truths'
  <2>1. ASSUME NEW x \in Scans, Minds(x)' PROVE Truth(x)'
    <3>1. Minds(x) BY <1>0, <1>p, <2>1 DEF Minds
    <3>2. st.scan = x
      <4>1. ASSUME st.scan = Undefined PROVE FALSE
        <5>1. page.scan = NULL /\ recovery.scan = NULL BY <1>0, <4>1 DEF EInv, Cancelling
        <5>. QED BY <1>n, <3>1, <4>1, <5>1 DEF Minds
      <4>. QED BY <3>1, <4>1 DEF Minds
    <3>3. jobs[x] = "cancelling" BY <1>0, <3>2 DEF EInv, Cancelling
    <3>4. Busy(x)' BY <1>j, <3>3 DEF Busy
    <3>5. page'.scan # x BY <1>p, <3>3 DEF EInv, Jobs, Job1
    <3>. QED BY <3>4, <3>5 DEF Truth
  <2>. QED BY <2>1 DEF Truths
<1>. QED BY <1>1, <1>2, <1>3, <1>4, <1>5, <1>6, <1>7, <1>8, <1>9, <1>10, <1>11 DEF EInv
----------------------------------------------------------------------------
(***************************************************************************)
(* The page forgets its scan: the script navigates, or another document    *)
(* commits.  The next scan is coming.                                      *)
(***************************************************************************)
LEMMA PageForgetsKeeps ==
  ASSUME EInv,
         page' \in Scripts, page'.scan = NULL, page'.run = "idle",
         ~page'.loaded => page' = NoScript,
         loading' \in BOOLEAN, loading' \/ (loading' = loading /\ doc' = doc /\ page'.timer),
         doc' \in 1..MaxDocs, Budget',
         st' = st, scans' = scans, jobs' = jobs, tears' = tears, recovery' = recovery,
         waiting' = waiting, rescan' = rescan, toCore' = toCore, toPage' = toPage,
         fromPage' = fromPage,
         devtoolsTabs' = devtoolsTabs, panelPorts' = panelPorts, devtools' = devtools, panel' = panel
  PROVE  EInv'
<1>n. NULL \notin Scans BY ScansAreNumbers
<1>t. Told' = Told /\ Rescans' = Rescans BY DEF Told, ReportsIn, Rescans
<1>m. \A m \in Told : m.scan # NULL BY <1>n, ToldIsOfScans
<1>1. Typed' BY DEF EInv, Typed
<1>2. Lines' /\ DevTools' BY DEF EInv, Lines, DevTools
<1>4. Given' BY <1>n, <1>t DEF EInv, Given
<1>5. Recovering' BY DEF EInv, Recovering, ReportsIn
<1>6. Jobs'
  <2>1. \A x \in Scans : Job1(x) => Job1(x)' BY <1>n, <1>t DEF Job1
  <2>. QED BY <2>1 DEF EInv, Jobs
<1>7. Cancelling' BY DEF EInv, Cancelling
<1>8. Anew' BY <1>t DEF EInv, Anew
<1>9. Torn' BY DEF EInv, Torn, TearingDown
<1>10. Documents' BY <1>m, <1>t DEF EInv, Documents, Taken
<1>11. Truths'
  <2>1. ASSUME NEW x \in Scans PROVE Truth(x)'
    <3>1. Soon' BY DEF Soon
    <3>2. page'.scan # x BY <1>n
    <3>. QED BY <3>1, <3>2 DEF Truth
  <2>. QED BY <2>1 DEF Truths
<1>. QED BY <1>1, <1>2, <1>4, <1>5, <1>6, <1>7, <1>8, <1>9, <1>10, <1>11 DEF EInv

LEMMA SpaNavigatesKeeps == ASSUME EInv, SpaNavigates PROVE EInv'
<1>0. /\ page.injected /\ ~page.timer /\ Room
      /\ page' = [page EXCEPT !.scan = NULL, !.run = "idle", !.timer = TRUE]
      /\ st' = st /\ scans' = scans /\ jobs' = jobs /\ tears' = tears /\ recovery' = recovery
      /\ waiting' = waiting /\ rescan' = rescan /\ toCore' = toCore /\ toPage' = toPage
      /\ fromPage' = fromPage /\ doc' = doc /\ loading' = loading
      /\ devtoolsTabs' = devtoolsTabs /\ panelPorts' = panelPorts /\ devtools' = devtools /\ panel' = panel
  BY DEF SpaNavigates, workerVars, recoveryVars, devtoolsVars, messages, counters
<1>1. /\ page \in Scripts /\ (~page.loaded => page = NoScript)
      /\ loading \in BOOLEAN /\ doc \in 1..MaxDocs
  BY DEF EInv, Typed
<1>2. page.loaded BY <1>0, <1>1 DEF NoScript
<1>3. /\ page' \in Scripts /\ page'.scan = NULL /\ page'.run = "idle" /\ page'.timer /\ page'.loaded
  BY <1>0, <1>1, <1>2 DEF Scripts, ScanIds, Runs
<1>4. Budget'
  <2>1. Rescans' = Rescans BY <1>0 DEF Rescans
  <2>2. One(page.timer) = 0 /\ One(page'.timer) = 1 BY <1>0, <1>3 DEF One
  <2>3. Asked' = scans + rescan + One(loading) + 1 + Cardinality(Rescans)
    BY <1>0, <2>1, <2>2 DEF Asked
  <2>4. scans + rescan + One(loading) + 0 + Cardinality(Rescans) < MaxScans BY <1>0, <2>2 DEF Room
  <2>. QED BY <2>3, <2>4, BudgetIsInt DEF Budget
<1>. QED BY <1>0, <1>1, <1>3, <1>4, PageForgetsKeeps

LEMMA CommitKeeps == ASSUME EInv, Commit PROVE EInv'
<1>0. /\ doc < MaxDocs /\ doc' = doc + 1 /\ (loading \/ Room) /\ loading' = TRUE /\ page' = NoScript
      /\ st' = st /\ scans' = scans /\ jobs' = jobs /\ tears' = tears /\ recovery' = recovery
      /\ waiting' = waiting /\ rescan' = rescan /\ toCore' = toCore /\ toPage' = toPage
      /\ fromPage' = fromPage
      /\ devtoolsTabs' = devtoolsTabs /\ panelPorts' = panelPorts /\ devtools' = devtools /\ panel' = panel
  BY DEF Commit, workerVars, recoveryVars, devtoolsVars, messages, counters
<1>1. NoScript \in Scripts /\ NoScript.scan = NULL /\ NoScript.run = "idle" /\ ~NoScript.timer
  BY DEF NoScript, Scripts, ScanIds, Runs
<1>2. doc' \in 1..MaxDocs
  <2>1. doc \in 1..MaxDocs /\ MaxDocs \in Nat BY ExtensionScanAssumption DEF EInv, Typed
  <2>. QED BY <1>0, <2>1
<1>3. Budget'
  <2>1. Rescans' = Rescans BY <1>0 DEF Rescans
  <2>2. One(page'.timer) = 0 /\ One(loading') = 1 BY <1>0, <1>1 DEF One
  <2>3. Asked' = scans + rescan + 1 + 0 + Cardinality(Rescans)
    BY <1>0, <2>1, <2>2 DEF Asked
  <2>4. CASE loading
    <3>1. One(loading) = 1 BY <2>4 DEF One
    <3>2. scans + rescan + 1 + One(page.timer) + Cardinality(Rescans) <= MaxScans BY <3>1, BudgetIsInt
    <3>. QED BY <2>3, <3>2, BudgetIsInt DEF Budget
  <2>5. CASE Room
    <3>1. scans + rescan + One(loading) + One(page.timer) + Cardinality(Rescans) < MaxScans
      BY <2>5 DEF Room
    <3>. QED BY <2>3, <3>1, BudgetIsInt DEF Budget
  <2>. QED BY <1>0, <2>4, <2>5
<1>4. page' \in Scripts /\ page'.scan = NULL /\ page'.run = "idle" BY <1>0, <1>1
<1>5. loading' \in BOOLEAN /\ loading' BY <1>0
<1>. QED BY <1>0, <1>2, <1>3, <1>4, <1>5, PageForgetsKeeps

LEMMA SpaTimerKeeps == ASSUME EInv, SpaTimer PROVE EInv'
<1>0. /\ page.timer /\ page' = [page EXCEPT !.timer = FALSE] /\ fromPage' = Append(fromPage, Rescan)
      /\ st' = st /\ scans' = scans /\ jobs' = jobs /\ tears' = tears /\ recovery' = recovery
      /\ waiting' = waiting /\ rescan' = rescan /\ toCore' = toCore /\ toPage' = toPage
      /\ doc' = doc /\ loading' = loading
      /\ devtoolsTabs' = devtoolsTabs /\ panelPorts' = panelPorts /\ devtools' = devtools /\ panel' = panel
  BY DEF SpaTimer, AsksWorker, workerVars, recoveryVars, devtoolsVars, counters
<1>f. fromPage \in Seq(FromPage) /\ Rescan \in FromPage BY DEF EInv, Lines, FromPage
<1>1. Typed'
  <2>1. page \in Scripts /\ page.loaded BY <1>0 DEF EInv, Typed, NoScript
  <2>2. /\ page' \in Scripts /\ page'.scan = page.scan /\ page'.run = page.run /\ page'.loaded
        /\ page'.timer = FALSE
    BY <1>0, <2>1 DEF Scripts
  <2>. QED BY <1>0, <2>2 DEF EInv, Typed
<1>p. page'.scan = page.scan /\ page'.run = page.run /\ page'.timer = FALSE /\ page'.told = page.told
  <2>1. page \in Scripts BY DEF EInv, Typed
  <2>. QED BY <1>0, <2>1 DEF Scripts
<1>2. Lines' /\ DevTools'
  <2>1. fromPage' \in Seq(FromPage) BY <1>0, <1>f, AppendIs
  <2>. QED BY <1>0, <2>1 DEF EInv, Lines, DevTools
<1>r. Cardinality(Rescans') = Cardinality(Rescans) + 1 /\ Rescans' # {}
  <2>1. Cardinality(RescansIn(fromPage')) = Cardinality(RescansIn(fromPage)) + 1
    BY <1>0, <1>f, RescansAppend
  <2>2. Rescans' = RescansIn(fromPage') /\ Rescans = RescansIn(fromPage) BY DEF Rescans, RescansIn
  <2>3. Cardinality(Rescans) + 1 # 0 BY BudgetIsInt
  <2>. QED BY <2>1, <2>2, <2>3, FS_EmptySet
<1>3. Budget'
  <2>1. One(page.timer) = 1 /\ One(page'.timer) = 0 BY <1>0, <1>p DEF One
  <2>2. Asked' = scans + rescan + One(loading) + 0 + (Cardinality(Rescans) + 1)
    BY <1>0, <1>r, <2>1 DEF Asked
  <2>3. scans + rescan + One(loading) + 1 + Cardinality(Rescans) <= MaxScans BY <2>1, BudgetIsInt
  <2>. QED BY <2>2, <2>3, BudgetIsInt DEF Budget
<1>t. Told' = Told
  <2>0. fromPage' = Append(fromPage, Rescan) BY <1>0
  <2>1. ReportsIn(Append(fromPage, Rescan)) = ReportsIn(fromPage) \cup ({Rescan} \ {Rescan})
    BY <1>f, ReportsInAppend
  <2>2. ReportsIn(fromPage') = ReportsIn(fromPage) BY <2>0, <2>1
  <2>3. ReportsIn(waiting') = ReportsIn(waiting) BY <1>0
  <2>. QED BY <2>2, <2>3 DEF Told
<1>4. Given' BY <1>0, <1>p, <1>t DEF EInv, Given
<1>5. Recovering' BY <1>0 DEF EInv, Recovering, ReportsIn
<1>6. Jobs'
  <2>1. \A x \in Scans : Job1(x)' <=> Job1(x) BY <1>0, <1>p, <1>t DEF Job1
  <2>. QED BY <1>0, <1>p, <2>1 DEF EInv, Jobs
<1>7. Cancelling' BY <1>0, <1>p DEF EInv, Cancelling
<1>8. Anew' BY <1>0, <1>p, <1>t DEF EInv, Anew
<1>9. Torn' BY <1>0, <1>p DEF EInv, Torn, TearingDown
<1>10. Documents' BY <1>0, <1>p, <1>t DEF EInv, Documents, Taken
<1>11. Truths'
  <2>1. ASSUME NEW x \in Scans, Minds(x)' PROVE Truth(x)'
    <3>1. Truth(x) BY <1>0, <1>p, <2>1 DEF EInv, Truths, Minds
    <3>2. Soon' BY <1>r DEF Soon
    <3>3. ~About(Rescan, x) BY DEF About
    <3>4. /\ Silent(fromPage', x) <=> Silent(fromPage, x)
          /\ \A m : IsLast(fromPage', x, m) <=> IsLast(fromPage, x, m)
      <4>1. fromPage' = Append(fromPage, Rescan) BY <1>0
      <4>. QED BY <1>f, <3>3, <4>1, AppendOther
    <3>5. SaysWhole(x) => SaysWhole(x)' BY <1>0, <3>4 DEF SaysWhole
    <3>6. OnlyRecalls(x) => OnlyRecalls(x)' BY <1>0, <1>p, <3>4 DEF OnlyRecalls
    <3>. QED BY <1>p, <3>1, <3>2, <3>5, <3>6 DEF Truth
  <2>. QED BY <2>1 DEF Truths
<1>. QED BY <1>1, <1>2, <1>3, <1>4, <1>5, <1>6, <1>7, <1>8, <1>9, <1>10, <1>11 DEF EInv

(***************************************************************************)
(* The page reports on its scan, which is of its document.                 *)
(***************************************************************************)
LEMMA ReportsKeep ==
  ASSUME EInv, page.run # "idle",
         NEW run \in Runs, NEW inj \in BOOLEAN, NEW told \in BOOLEAN,
         page' = [page EXCEPT !.run = run, !.injected = inj, !.told = told],
         NEW m \in Reports, m.scan = page.scan,
         m.type = "findings" => m.doc = doc,
         \/ /\ m.type # "prepare"
            /\ IsPart(m) => run = "partial"
            /\ run \in Finished => IsWhole(m)
         \/ /\ m.type = "prepare" /\ told = page.told
            /\ page.run \in Finished /\ run \in Finished,
         fromPage' = Append(fromPage, m),
         st' = st, scans' = scans, jobs' = jobs, tears' = tears, recovery' = recovery,
         waiting' = waiting, rescan' = rescan, toCore' = toCore, toPage' = toPage,
         doc' = doc, loading' = loading,
         devtoolsTabs' = devtoolsTabs, panelPorts' = panelPorts, devtools' = devtools, panel' = panel
  PROVE  EInv'
<1>n. NULL \notin Scans BY ScansAreNumbers
<1>f. fromPage \in Seq(FromPage) /\ m \in FromPage /\ m # Rescan
  BY ReportIsNoRescan DEF EInv, Lines, FromPage
<1>p. /\ page \in Scripts /\ page.loaded /\ page.scan # NULL /\ page.scan \in Scans
      /\ page' \in Scripts /\ page'.scan = page.scan /\ page'.timer = page.timer
      /\ page'.loaded /\ page'.run = run /\ page'.told = told
  <2>1. page \in Scripts /\ page.loaded /\ page.scan # NULL BY DEF EInv, Typed, NoScript
  <2>2. page.scan \in Scans BY <2>1 DEF Scripts, ScanIds
  <2>. QED BY <2>1, <2>2 DEF Scripts
<1>t. Told' = Told \cup {m}
  <2>1. ReportsIn(Append(fromPage, m)) = ReportsIn(fromPage) \cup ({m} \ {Rescan})
    BY <1>f, ReportsInAppend
  <2>2. ReportsIn(fromPage') = ReportsIn(fromPage) \cup {m} BY <1>f, <2>1
  <2>3. ReportsIn(waiting') = ReportsIn(waiting) OBVIOUS
  <2>. QED BY <2>2, <2>3 DEF Told
<1>r. Rescans' = Rescans
  <2>1. RescansIn(fromPage') = RescansIn(fromPage) BY <1>f, RescansAppend
  <2>. QED BY <2>1 DEF Rescans, RescansIn
<1>1. Typed' BY <1>p DEF EInv, Typed
<1>2. Lines' /\ DevTools'
  <2>1. fromPage' \in Seq(FromPage) BY <1>f, AppendIs
  <2>. QED BY <2>1 DEF EInv, Lines, DevTools
<1>3. Budget' BY <1>p, <1>r DEF EInv, Budget, Asked
<1>4. Given'
  <2>1. m.scan <= scans BY <1>p DEF EInv, Given
  <2>. QED BY <1>p, <1>t, <2>1 DEF EInv, Given
<1>5. Recovering' BY DEF EInv, Recovering, ReportsIn
<1>6. Jobs'
  <2>1. \A x \in Scans : Job1(x) => Job1(x)' BY <1>p, <1>t DEF Job1
  <2>. QED BY <1>p, <2>1 DEF EInv, Jobs
<1>7. Cancelling' BY <1>p DEF EInv, Cancelling
<1>8. Anew'
  <2>1. ASSUME st.scan = Undefined
        PROVE  /\ \A k, l \in Told' : k.scan = l.scan
               /\ \A k \in Told' : page'.scan \in {NULL, k.scan} /\ recovery'.scan \in {NULL, k.scan}
    <3>1. \A k \in Told : page.scan = k.scan BY <1>p, <2>1 DEF EInv, Anew
    <3>2. \A k \in Told' : page.scan = k.scan BY <1>t, <3>1
    <3>3. recovery.scan \in {NULL, page.scan} BY <1>p, <2>1 DEF EInv, Anew
    <3>. QED BY <1>p, <3>2, <3>3
  <2>. QED BY <1>p, <2>1 DEF EInv, Anew
<1>9. Torn' BY <1>p DEF EInv, Torn, TearingDown
<1>10. Documents' BY <1>p, <1>t DEF EInv, Documents, Taken
<1>11. Truths'
  <2>1. ASSUME NEW x \in Scans, Minds(x)' PROVE Truth(x)'
    <3>1. Truth(x) BY <1>p, <2>1 DEF EInv, Truths, Minds
    <3>2. Soon' <=> Soon BY <1>p, <1>r DEF Soon
    <3>3. CASE page.scan = x /\ m.type # "prepare"
      <4>1. ~Silent(fromPage', x) /\ IsLast(fromPage', x, m) /\ (\A k : IsLast(fromPage', x, k) => k = m)
        <5>1. About(m, x) /\ fromPage' = Append(fromPage, m) BY <1>f, <3>3 DEF About
        <5>2. ~Silent(fromPage', x) /\ IsLast(fromPage', x, m) BY <1>f, <5>1, AppendAbout
        <5>3. \A k : k # m => ~IsLast(fromPage', x, k) BY <1>f, <5>1, AppendAbout
        <5>. QED BY <5>2, <5>3
      <4>2. SaysPart(x)' => IsPart(m) BY <4>1 DEF SaysPart
      <4>3. IsWhole(m) => SaysWhole(x)' BY <4>1 DEF SaysWhole
      <4>4. IsPart(m) => Busy(x)' BY <1>p, <3>3 DEF Busy
      <4>5. page'.run \in Finished => IsWhole(m) BY <1>p, <3>3
      <4>6. SaysPart(x)' => Busy(x)' BY <4>2, <4>4
      <4>7. page'.run \in Finished => SaysWhole(x)' BY <4>3, <4>5
      <4>. QED BY <4>6, <4>7 DEF Truth
    <3>4. CASE page.scan # x
      <4>1. ~About(m, x) BY <3>4 DEF About
      <4>2. (Silent(fromPage', x) <=> Silent(fromPage, x))
            /\ (\A k : IsLast(fromPage', x, k) <=> IsLast(fromPage, x, k))
        BY <1>f, <4>1, AppendOther
      <4>3. SaysPart(x)' => SaysPart(x) BY <4>2 DEF SaysPart
      <4>4. Busy(x) => Busy(x)' BY <1>p, <3>4 DEF Busy
      <4>. QED BY <1>p, <3>1, <3>2, <3>4, <4>3, <4>4 DEF Truth
    <3>5. CASE page.scan = x /\ m.type = "prepare"
      <4>1. ~About(m, x) BY <3>5 DEF About
      <4>2. (Silent(fromPage', x) <=> Silent(fromPage, x))
            /\ (\A k : IsLast(fromPage', x, k) <=> IsLast(fromPage, x, k))
        BY <1>f, <4>1, AppendOther
      <4>3. SaysPart(x)' => SaysPart(x) BY <4>2 DEF SaysPart
      <4>4. SaysWhole(x) => SaysWhole(x)' BY <4>2 DEF SaysWhole
      <4>5. OnlyRecalls(x) => OnlyRecalls(x)' BY <1>p, <3>5, <4>2 DEF OnlyRecalls
      <4>6. page.run \in Finished /\ page'.run \in Finished /\ (Busy(x) => Busy(x)')
        BY <1>p, <3>5 DEF Busy, Finished
      <4>. QED BY <1>p, <3>1, <3>2, <3>5, <4>3, <4>4, <4>5, <4>6 DEF Truth
    <3>. QED BY <3>3, <3>4, <3>5
  <2>. QED BY <2>1 DEF Truths
<1>. QED BY <1>1, <1>2, <1>3, <1>4, <1>5, <1>6, <1>7, <1>8, <1>9, <1>10, <1>11 DEF EInv

LEMMA PageGoesKeeps ==
  ASSUME EInv, NEW run \in Runs, page' = [page EXCEPT !.run = run],
         \/ page.run = "starting" /\ run = "running"
         \/ page.run \in Finished /\ run \in Finished,
         fromPage' = fromPage,
         st' = st, scans' = scans, jobs' = jobs, tears' = tears, recovery' = recovery,
         waiting' = waiting, rescan' = rescan, toCore' = toCore, toPage' = toPage,
         doc' = doc, loading' = loading,
         devtoolsTabs' = devtoolsTabs, panelPorts' = panelPorts, devtools' = devtools, panel' = panel
  PROVE  EInv'
<1>p. /\ page' \in Scripts /\ page'.scan = page.scan /\ page'.timer = page.timer
      /\ page'.loaded /\ page'.run = run /\ page.scan # NULL
      /\ page'.told = page.told
  <2>1. page \in Scripts /\ page.run # "idle" BY DEF EInv, Typed, Finished
  <2>2. page.loaded /\ page.scan # NULL BY <2>1 DEF EInv, Typed, NoScript
  <2>. QED BY <2>1, <2>2 DEF Scripts
<1>t. Told' = Told /\ Rescans' = Rescans BY DEF Told, ReportsIn, Rescans
<1>1. Typed' BY <1>p DEF EInv, Typed
<1>2. Lines' /\ DevTools' BY DEF EInv, Lines, DevTools
<1>3. Budget' BY <1>p, <1>t DEF EInv, Budget, Asked
<1>4. Given' BY <1>p, <1>t DEF EInv, Given
<1>5. Recovering' BY DEF EInv, Recovering, ReportsIn
<1>6. Jobs'
  <2>1. \A x \in Scans : Job1(x) => Job1(x)' BY <1>p, <1>t DEF Job1
  <2>. QED BY <1>p, <2>1 DEF EInv, Jobs
<1>7. Cancelling' BY <1>p DEF EInv, Cancelling
<1>8. Anew' BY <1>p, <1>t DEF EInv, Anew
<1>9. Torn' BY <1>p DEF EInv, Torn, TearingDown
<1>10. Documents' BY <1>p, <1>t DEF EInv, Documents, Taken
<1>11. Truths'
  <2>1. ASSUME NEW x \in Scans, Minds(x)' PROVE Truth(x)'
    <3>1. Truth(x) BY <1>p, <2>1 DEF EInv, Truths, Minds
    <3>2. (Soon' <=> Soon) /\ (Busy(x) => Busy(x)') BY <1>p, <1>t DEF Soon, Busy, Finished
    <3>3. (SaysPart(x)' <=> SaysPart(x)) /\ (SaysWhole(x)' <=> SaysWhole(x)) BY SameSays
    <3>4. OnlyRecalls(x)' <=> OnlyRecalls(x) BY <1>p, SameRecalls
    <3>5. page'.run \in Finished => page.run \in Finished BY <1>p DEF Finished
    <3>. QED BY <1>p, <3>1, <3>2, <3>3, <3>4, <3>5 DEF Truth
  <2>. QED BY <2>1 DEF Truths
<1>. QED BY <1>1, <1>2, <1>3, <1>4, <1>5, <1>6, <1>7, <1>8, <1>9, <1>10, <1>11 DEF EInv

\* What the page throws is reported, and its scan is over.
LEMMA PageThrowsKeeps ==
  ASSUME EInv, page.run # "idle", PageThrows,
         st' = st, scans' = scans, jobs' = jobs, tears' = tears, recovery' = recovery,
         waiting' = waiting, rescan' = rescan, toCore' = toCore, toPage' = toPage,
         doc' = doc, loading' = loading,
         devtoolsTabs' = devtoolsTabs, panelPorts' = panelPorts, devtools' = devtools, panel' = panel
  PROVE  EInv'
<1> DEFINE m == Failure(page.scan)
<1>1. page \in Scripts BY DEF EInv, Typed
<1>2. page.scan \in Scans BY <1>1 DEF EInv, Typed, Scripts, ScanIds
<1>3. m = [type |-> "detector-error", scan |-> page.scan] BY DEF Failure
<1>4. m \in Reports /\ m.scan = page.scan /\ m.type = "detector-error" BY <1>2, <1>3 DEF Reports
<1>5. /\ page.injected \in BOOLEAN /\ page.told \in BOOLEAN /\ "idle" \in Runs /\ "idle" \notin Finished
      /\ page' = [page EXCEPT !.run = "idle", !.injected = page.injected, !.told = page.told]
  BY <1>1 DEF Scripts, PageThrows, PageGoes, Runs, Finished
<1>6. fromPage' = Append(fromPage, m) BY DEF PageThrows, AsksWorker
<1> HIDE DEF m
<1>7. ~IsPart(m) /\ m.type # "findings" /\ m.type # "prepare" BY <1>4 DEF IsPart
<1>. QED BY <1>4, <1>5, <1>6, <1>7, ReportsKeep

\* What the core found is reported, as a part of the scan or as the whole.
LEMMA FindingsKeep ==
  ASSUME EInv, page.run # "idle",
         NEW run \in Runs, NEW inj \in BOOLEAN, NEW told \in BOOLEAN,
         NEW some \in BOOLEAN, NEW complete \in BOOLEAN,
         page' = [page EXCEPT !.run = run, !.injected = inj, !.told = told],
         (run = "partial" /\ ~complete) \/ (run \in Finished /\ complete),
         AsksWorker(Findings(page.scan, some, complete)),
         st' = st, scans' = scans, jobs' = jobs, tears' = tears, recovery' = recovery,
         waiting' = waiting, rescan' = rescan, toCore' = toCore, toPage' = toPage,
         doc' = doc, loading' = loading,
         devtoolsTabs' = devtoolsTabs, panelPorts' = panelPorts, devtools' = devtools, panel' = panel
  PROVE  EInv'
<1> DEFINE m == Findings(page.scan, some, complete)
<1>1. page \in Scripts /\ doc \in 1..MaxDocs BY DEF EInv, Typed
<1>2. page.scan \in Scans BY <1>1 DEF EInv, Typed, Scripts, ScanIds
<1>3. m = [type |-> "findings", scan |-> page.scan, doc |-> doc, some |-> some, complete |-> complete]
  BY DEF Findings
<1>4. /\ m \in Reports /\ m.scan = page.scan /\ m.type = "findings" /\ m.doc = doc
      /\ m.complete = complete
  BY <1>1, <1>2, <1>3 DEF Reports
<1>5. fromPage' = Append(fromPage, m) BY DEF AsksWorker
<1> HIDE DEF m
<1>6. /\ m.type # "prepare" /\ (IsPart(m) => run = "partial") /\ (run \in Finished => IsWhole(m))
  BY <1>4 DEF IsPart, IsWhole, Finished
<1>. QED BY <1>4, <1>5, <1>6, ReportsKeep

LEMMA PageRunsKeeps == ASSUME EInv, PageRuns PROVE EInv'
<1>0. /\ st' = st /\ scans' = scans /\ jobs' = jobs /\ tears' = tears /\ recovery' = recovery
      /\ waiting' = waiting /\ rescan' = rescan /\ toCore' = toCore /\ toPage' = toPage
      /\ doc' = doc /\ loading' = loading
      /\ devtoolsTabs' = devtoolsTabs /\ panelPorts' = panelPorts /\ devtools' = devtools /\ panel' = panel
  BY DEF PageRuns, workerVars, recoveryVars, devtoolsVars, counters
<1>r. {"running", "analyzing", "done"} \subseteq Runs BY DEF Runs, Finished
<1>1. CASE page.run = "starting" /\ PageGoes("running") /\ fromPage' = fromPage
  BY <1>0, <1>1, <1>r, PageGoesKeeps DEF PageGoes
<1>2. ASSUME page.run = "preparing", NEW run \in {"analyzing", "done"}, PageGoes(run), fromPage' = fromPage
      PROVE  EInv'
  <2>1. run \in Finished /\ page.run \in Finished /\ run \in Runs BY <1>2, <1>r DEF Finished
  <2>. QED BY <1>0, <1>2, <2>1, PageGoesKeeps DEF PageGoes
<1>3. CASE page.run # "idle" /\ PageThrows BY <1>0, <1>3, PageThrowsKeeps
<1>. QED BY <1>1, <1>2, <1>3 DEF PageRuns

LEMMA CoreAnswersKeeps == ASSUME EInv, NEW some \in BOOLEAN, CoreAnswers(some) PROVE EInv'
<1>0. /\ st' = st /\ scans' = scans /\ jobs' = jobs /\ tears' = tears /\ recovery' = recovery
      /\ waiting' = waiting /\ rescan' = rescan /\ toCore' = toCore /\ toPage' = toPage
      /\ doc' = doc /\ loading' = loading
      /\ devtoolsTabs' = devtoolsTabs /\ panelPorts' = panelPorts /\ devtools' = devtools /\ panel' = panel
  BY DEF CoreAnswers, workerVars, recoveryVars, devtoolsVars, counters
<1>1. page \in Scripts BY DEF EInv, Typed
<1>2. page.injected \in BOOLEAN /\ page.told \in BOOLEAN BY <1>1 DEF Scripts
<1>r. {"partial", "lazy", "done"} \subseteq Runs /\ {"lazy", "done", "analyzing"} \subseteq Finished
  BY DEF Runs, Finished
<1>3. CASE /\ page.run = "running"
           /\ page' = [page EXCEPT !.run = "partial", !.injected = TRUE]
           /\ AsksWorker(Findings(page.scan, some, FALSE))
  <2>1. page' = [page EXCEPT !.run = "partial", !.injected = TRUE, !.told = page.told]
    BY <1>1, <1>3 DEF Scripts
  <2>. QED BY <1>0, <1>2, <1>3, <1>r, <2>1, FindingsKeep
<1>4. ASSUME page.run # "idle", NEW run \in {"lazy", "done"}, NEW found \in BOOLEAN, Completes(run, found)
      PROVE  EInv'
  <2>1. page' = [page EXCEPT !.run = run, !.injected = page.injected, !.told = TRUE]
    BY <1>1, <1>4 DEF Scripts, Completes
  <2>2. AsksWorker(Findings(page.scan, found, TRUE)) BY <1>4 DEF Completes
  <2>3. run \in Runs /\ run \in Finished BY <1>r
  <2>. QED BY <1>0, <1>2, <1>4, <2>1, <2>2, <2>3, FindingsKeep
<1>5. CASE page.run = "analyzing" /\ PageGoes("done") /\ fromPage' = fromPage
  BY <1>0, <1>5, <1>r, PageGoesKeeps DEF PageGoes
<1>6. CASE page.run # "idle" /\ PageThrows BY <1>0, <1>6, PageThrowsKeeps
<1>. QED BY <1>3, <1>4, <1>5, <1>6 DEF CoreAnswers

\* A prepare-rule-core says nothing of the scan.
LEMMA CandidateSeenKeeps == ASSUME EInv, CandidateSeen PROVE EInv'
<1> DEFINE m == Prepare(page.scan)
<1>0. /\ st' = st /\ scans' = scans /\ jobs' = jobs /\ tears' = tears /\ recovery' = recovery
      /\ waiting' = waiting /\ rescan' = rescan /\ toCore' = toCore /\ toPage' = toPage
      /\ doc' = doc /\ loading' = loading
      /\ devtoolsTabs' = devtoolsTabs /\ panelPorts' = panelPorts /\ devtools' = devtools /\ panel' = panel
  BY DEF CandidateSeen, workerVars, recoveryVars, devtoolsVars, counters
<1>1. page \in Scripts /\ page.run = "lazy" BY DEF EInv, Typed, CandidateSeen
<1>2. page.scan \in Scans BY <1>1 DEF EInv, Typed, Scripts, ScanIds
<1>3. m = [type |-> "prepare", scan |-> page.scan] BY DEF Prepare
<1>4. m \in Reports /\ m.scan = page.scan /\ m.type = "prepare" BY <1>2, <1>3 DEF Reports
<1>5. /\ page.injected \in BOOLEAN /\ page.told \in BOOLEAN /\ "preparing" \in Runs
      /\ page' = [page EXCEPT !.run = "preparing", !.injected = page.injected, !.told = page.told]
  BY <1>1 DEF Scripts, CandidateSeen, PageGoes, Runs, Finished
<1>6. fromPage' = Append(fromPage, m) BY DEF CandidateSeen, AsksWorker
<1> HIDE DEF m
<1>7. page.run \in Finished /\ "preparing" \in Finished /\ page.run # "idle" BY <1>1 DEF Finished
<1>. QED BY <1>0, <1>4, <1>5, <1>6, <1>7, ReportsKeep

LEMMA RuleCoreReadyKeeps == ASSUME EInv, NEW s \in Scans, RuleCoreReady(s) PROVE EInv'
<1>1. /\ st' = st /\ scans' = scans /\ jobs' = jobs /\ tears' = tears /\ recovery' = recovery
      /\ waiting' = waiting /\ rescan' = rescan /\ toCore' = toCore /\ toPage' = toPage
      /\ fromPage' = fromPage /\ doc' = doc /\ loading' = loading /\ page' = page
      /\ devtoolsTabs' = devtoolsTabs /\ panelPorts' = panelPorts /\ devtools' = devtools /\ panel' = panel
  BY DEF RuleCoreReady, coroutines, devVars, tabVars, messages, counters
<1>2. DevTools' BY <1>1 DEF EInv, DevTools
<1>. QED BY <1>1, <1>2, ConnectingKeeps

LEMMA RestartKeeps == ASSUME EInv, Restart PROVE EInv'
<1>0. /\ \A s \in Scans : jobs[s] = "over"
      /\ \A o \in Openings : tears[o] = "over"
      /\ recovery = Idle /\ toCore = <<>> /\ toPage = <<>> /\ fromPage = <<>> /\ ~loading
      /\ st' = Fresh /\ devtoolsTabs' = FALSE /\ panelPorts' = FALSE
      /\ devtools' = [devtools EXCEPT !.linked = FALSE]
      /\ panel' = [panel EXCEPT !.linked = FALSE]
      /\ scans' = scans /\ jobs' = jobs /\ tears' = tears /\ recovery' = recovery
      /\ waiting' = waiting /\ rescan' = rescan /\ toCore' = toCore /\ toPage' = toPage
      /\ fromPage' = fromPage /\ doc' = doc /\ loading' = loading
      /\ page' = [page EXCEPT !.told = FALSE]
  BY DEF Restart, Inactive, coroutines, recoveryVars, messages
<1>p. /\ page' \in Scripts /\ page'.scan = page.scan /\ page'.run = page.run
      /\ page'.timer = page.timer /\ ~page'.told /\ page'.loaded = page.loaded
      /\ ~page'.loaded => page' = NoScript
  <2>1. page \in Scripts /\ (~page.loaded => page = NoScript) BY DEF EInv, Typed
  <2>2. NoScript \in Scripts /\ ~NoScript.told BY DEF NoScript, Scripts, ScanIds, Runs
  <2>5. ASSUME NEW p \in Scripts, ~p.told PROVE [p EXCEPT !.told = FALSE] = p BY <2>5 DEF Scripts
  <2>3. ~page.loaded => page' = NoScript BY <1>0, <2>1, <2>2, <2>5
  <2>4. /\ page' \in Scripts /\ page'.scan = page.scan /\ page'.run = page.run
        /\ page'.timer = page.timer /\ ~page'.told /\ page'.loaded = page.loaded
    BY <1>0, <2>1 DEF Scripts
  <2>. QED BY <2>3, <2>4
<1>n. Undefined \notin Scans /\ NULL # Undefined BY ScansAreNumbers
<1>w. waiting = <<>> BY <1>0 DEF EInv, Recovering
<1>s. /\ st' \in WorkerState /\ st'.scan = Undefined /\ ~st'.known /\ st'.report = NoReport
      /\ ~st'.scanning /\ ~st'.complete /\ ~st'.error
  BY <1>0, FreshIsState DEF Fresh
<1>t. Told' = {} /\ Rescans' = Rescans /\ ReportsIn(waiting) = {}
  BY <1>0, <1>w DEF Told, ReportsIn, Rescans
<1>1. Typed' BY <1>0, <1>p, <1>s DEF EInv, Typed
<1>2. Lines' BY <1>0 DEF EInv, Lines
<1>3. DevTools' BY <1>0 DEF EInv, DevTools
<1>4. Budget' BY <1>0, <1>p, <1>t DEF EInv, Budget, Asked
<1>5. Given' BY <1>0, <1>n, <1>p, <1>s, <1>t DEF EInv, Given
<1>6. Recovering'
  <2>1. ReportsIn(waiting') = {} BY <1>0, <1>t
  <2>. QED BY <1>0, <1>s, <1>w, <2>1 DEF EInv, Recovering
<1>7. Jobs' BY <1>0 DEF Jobs
<1>8. Cancelling' BY <1>0, <1>n, <1>s DEF Cancelling
<1>9. Anew'
  <2>1. recovery.scan = NULL /\ recovery.state = "idle" BY <1>0 DEF Idle
  <2>. QED BY <1>0, <1>s, <1>t, <2>1 DEF Anew
<1>10. Torn' BY <1>0, <1>n, <1>s DEF Torn
<1>11. Documents' BY <1>s, <1>t DEF Documents
<1>12. Truths'
  <2>1. ASSUME NEW x \in Scans PROVE Truth(x)'
    <3>1. Silent(fromPage', x) /\ \A m : ~IsLast(fromPage', x, m) BY <1>0 DEF Silent, IsLast
    <3>2. ~SaysPart(x)' BY <1>0, <1>s, <1>w, <3>1 DEF SaysPart, IsLast
    <3>3. OnlyRecalls(x)' BY <1>0, <1>p, <1>s, <1>w, <3>1 DEF OnlyRecalls, Silent
    <3>. QED BY <3>2, <3>3 DEF Truth
  <2>. QED BY <2>1 DEF Truths
<1>. QED BY <1>1, <1>2, <1>3, <1>4, <1>5, <1>6, <1>7, <1>8, <1>9, <1>10, <1>11, <1>12 DEF EInv
----------------------------------------------------------------------------
(***************************************************************************)
(* The page receives a message of the worker: a scan, a remove, or the     *)
(* question which scan it is at.                                           *)
(***************************************************************************)
LEMMA OrderIs ==
  ASSUME EInv, toPage # <<>>
  PROVE  /\ Head(toPage) = toPage[1] /\ 1 \in DOMAIN toPage /\ toPage[1] \in Orders
         /\ Tail(toPage) \in Seq(Orders)
         /\ DOMAIN toPage \subseteq Int /\ DOMAIN Tail(toPage) \subseteq Int
         /\ \A i \in DOMAIN Tail(toPage) :
              i + 1 \in DOMAIN toPage /\ Tail(toPage)[i] = toPage[i + 1] /\ 1 < i + 1
<1>1. toPage \in Seq(Orders) BY DEF EInv, Lines
<1> DEFINE r == Tail(toPage)
<1>2. /\ r \in Seq(Orders) /\ Head(toPage) \in Orders /\ Head(toPage) = toPage[1]
      /\ DOMAIN toPage = 1 .. Len(toPage) /\ Len(toPage) \in Nat \ {0} /\ 1 \in DOMAIN toPage
      /\ DOMAIN r = 1 .. Len(toPage) - 1
      /\ \A i \in DOMAIN r : i + 1 \in DOMAIN toPage /\ r[i] = toPage[i + 1]
  BY <1>1, TailIs
<1> HIDE DEF r
<1>3. \A i \in DOMAIN r : 1 < i + 1 BY <1>2
<1>4. DOMAIN toPage \subseteq Int /\ DOMAIN r \subseteq Int BY <1>2
<1>. QED BY <1>2, <1>3, <1>4 DEF r

LEMMA PageScansKeeps ==
  ASSUME EInv, toPage # <<>>, toPage' = Tail(toPage), toPage[1].type = "scan",
         NEW w \in {"over", "deaf"}, jobs' = [jobs EXCEPT ![toPage[1].scan] = w],
         \/ /\ page.loaded /\ w = "over"
            /\ page' = [page EXCEPT !.scan = toPage[1].scan, !.run = "starting"]
         \/ ~page.loaded /\ w = "deaf" /\ page' = page,
         st' = st, scans' = scans, tears' = tears, recovery' = recovery,
         waiting' = waiting, rescan' = rescan, toCore' = toCore, fromPage' = fromPage,
         doc' = doc, loading' = loading,
         devtoolsTabs' = devtoolsTabs, panelPorts' = panelPorts, devtools' = devtools, panel' = panel
  PROVE  EInv'
<1> DEFINE z == toPage[1].scan
<1>o. /\ 1 \in DOMAIN toPage
      /\ toPage' \in Seq(Orders) /\ DOMAIN toPage \subseteq Int /\ DOMAIN toPage' \subseteq Int
      /\ \A i \in DOMAIN toPage' :
           i + 1 \in DOMAIN toPage /\ toPage'[i] = toPage[i + 1] /\ 1 < i + 1
  BY OrderIs
<1>n. Undefined \notin Scans /\ NULL \notin Scans /\ Scans \subseteq Int BY ScansAreNumbers
<1>z. z \in Scans BY <1>o, ToldIsOfScans
<1>s. jobs[z] = "sent" /\ Job1(z) BY <1>o, <1>z DEF EInv, Jobs
<1>d. st.scan # Undefined BY <1>o DEF EInv, Anew
<1>j. /\ jobs \in [Scans -> JobStates] /\ jobs' \in [Scans -> JobStates]
      /\ jobs'[z] = w /\ \A x \in Scans : x # z => jobs'[x] = jobs[x]
      /\ w # "cancelling"
  <2>1. jobs \in [Scans -> JobStates] /\ w \in JobStates BY DEF EInv, Typed, JobStates
  <2>. QED BY <1>z, <2>1
<1>t. Told' = Told /\ Rescans' = Rescans BY DEF Told, ReportsIn, Rescans
\* The next scans on their way are later ones.
<1>l. \A i \in DOMAIN toPage' : toPage'[i].type = "scan" =>
        /\ toPage'[i].scan \in Scans /\ z < toPage'[i].scan
        /\ jobs'[toPage'[i].scan] = "sent"
  <2> SUFFICES ASSUME NEW i \in DOMAIN toPage', toPage'[i].type = "scan"
               PROVE  /\ toPage'[i].scan \in Scans /\ z < toPage'[i].scan
                      /\ jobs'[toPage'[i].scan] = "sent"
    OBVIOUS
  <2>1. i + 1 \in DOMAIN toPage /\ 1 < i + 1 /\ toPage'[i] = toPage[i + 1] BY <1>o
  <2>2. toPage[i + 1].type = "scan" BY <2>1
  <2>3. toPage[i + 1].scan \in Scans BY <2>1, <2>2, ToldIsOfScans
  <2>4. toPage[1].scan < toPage[i + 1].scan BY <1>o, <2>1, <2>2 DEF EInv, Jobs
  <2>5. jobs[toPage[i + 1].scan] = "sent" BY <2>1, <2>2 DEF EInv, Jobs
  <2>6. toPage[i + 1].scan # z BY <1>n, <1>z, <2>3, <2>4
  <2>. QED BY <1>j, <2>1, <2>3, <2>4, <2>5, <2>6
<1> HIDE DEF z
<1>p. \/ /\ w = "over" /\ page' \in Scripts /\ page'.scan = z /\ page'.run = "starting"
         /\ page'.timer = page.timer /\ page'.loaded
      \/ w = "deaf" /\ page' = page
  <2>1. page \in Scripts BY DEF EInv, Typed
  <2>2. "starting" \in Runs /\ z \in ScanIds BY <1>z DEF Runs, ScanIds
  <2>3. CASE page' = [page EXCEPT !.scan = toPage[1].scan, !.run = "starting"] /\ page.loaded /\ w = "over"
    <3>1. page' = [page EXCEPT !.scan = z, !.run = "starting"] BY <2>3 DEF z
    <3>. QED BY <2>1, <2>2, <2>3, <3>1 DEF Scripts
  <2>4. CASE page' = page /\ w = "deaf" BY <2>4
  <2>. QED BY <2>3, <2>4
<1>q. page'.timer = page.timer BY <1>p
<1>1. Typed'
  <2>1. page' \in Scripts /\ (~page'.loaded => page' = NoScript) /\ (page'.run # "idle" => page'.scan # NULL)
    BY <1>n, <1>p, <1>z DEF EInv, Typed
  <2>. QED BY <1>j, <2>1 DEF EInv, Typed
<1>2. Lines' /\ DevTools' BY <1>o DEF EInv, Lines, DevTools
<1>3. Budget' BY <1>q, <1>t DEF EInv, Budget, Asked
<1>4. Given'
  <2>1. z <= scans BY <1>s, <1>z DEF EInv, Given
  <2>2. \A x \in Scans : jobs'[x] # "over" => jobs[x] # "over" BY <1>j, <1>s
  <2>. QED BY <1>p, <1>t, <2>1, <2>2 DEF EInv, Given
<1>5. Recovering'
  <2>1. \A i \in DOMAIN toPage' : toPage'[i].type = "get-scan-id" => recovery.state = "asking"
    BY <1>o DEF EInv, Recovering
  <2>2. ASSUME NEW i \in DOMAIN toPage', NEW k \in DOMAIN toPage',
               toPage'[i].type = "get-scan-id", toPage'[k].type = "get-scan-id"
        PROVE  i = k
    <3>1. i + 1 = k + 1 BY <1>o, <2>2 DEF EInv, Recovering
    <3>. QED BY <1>o, <3>1
  <2>3. ReportsIn(waiting') = ReportsIn(waiting) OBVIOUS
  <2>. QED BY <2>1, <2>2, <2>3 DEF EInv, Recovering
<1>6. Jobs'
  <2>1. ASSUME NEW x \in Scans, jobs'[x] # "over" PROVE Job1(x)'
    <3>1. Job1(x) /\ (x = z => w = "deaf") BY <1>j, <1>s, <2>1 DEF EInv, Jobs
    <3>2. page'.scan # x BY <1>p, <3>1 DEF Job1
    <3>. QED BY <1>t, <3>1, <3>2 DEF Job1
  <2>2. ASSUME NEW i \in DOMAIN toPage', toPage'[i].type = "scan", page'.scan # NULL
        PROVE  page'.scan < toPage'[i].scan
    <3>1. CASE page'.scan = z BY <1>l, <2>2, <3>1
    <3>2. CASE page' = page
      <4>1. i + 1 \in DOMAIN toPage /\ toPage'[i] = toPage[i + 1] BY <1>o
      <4>. QED BY <2>2, <3>2, <4>1 DEF EInv, Jobs
    <3>. QED BY <1>p, <3>1, <3>2
  <2>3. ASSUME NEW i \in DOMAIN toPage', NEW k \in DOMAIN toPage', i < k,
               toPage'[i].type = "scan", toPage'[k].type = "scan"
        PROVE  toPage'[i].scan < toPage'[k].scan
    <3>1. i + 1 < k + 1 BY <1>o, <2>3
    <3>. QED BY <1>o, <2>3, <3>1 DEF EInv, Jobs
  <2>. QED BY <1>l, <2>1, <2>2, <2>3 DEF Jobs
<1>7. Cancelling'
  <2>1. \A x \in Scans : jobs'[x] = "cancelling" <=> jobs[x] = "cancelling" BY <1>j, <1>s
  <2>. QED BY <1>d, <2>1 DEF EInv, Cancelling
<1>8. Anew' BY <1>d DEF Anew
<1>9. Torn'
  <2>1. ASSUME NEW i \in DOMAIN toPage', toPage'[i].type = "remove"
        PROVE  page'.scan = NULL \/ page'.scan # st.scan
    <3>1. i + 1 \in DOMAIN toPage /\ toPage'[i] = toPage[i + 1] /\ 1 < i + 1 BY <1>o
    <3>2. CASE page' = page BY <2>1, <3>1, <3>2 DEF EInv, Torn
    <3>3. CASE page'.scan = z
      <4>1. z # st.scan BY <1>o, <2>1, <3>1 DEF EInv, Torn, z
      <4>. QED BY <3>3, <4>1
    <3>. QED BY <1>p, <3>2, <3>3
  <2>2. ASSUME NEW i \in DOMAIN toPage', NEW k \in DOMAIN toPage', i < k,
               toPage'[i].type = "scan", toPage'[i].scan = st.scan
        PROVE  toPage'[k].type # "remove"
    <3>1. i + 1 < k + 1 BY <1>o, <2>2
    <3>. QED BY <1>o, <2>2, <3>1 DEF EInv, Torn
  <2>. QED BY <2>1, <2>2 DEF EInv, Torn, TearingDown
<1>10. Documents'
  <2>1. \A m \in Told : m.scan = page'.scan => m.scan = page.scan BY <1>p, <1>s DEF Job1
  <2>. QED BY <1>t, <2>1 DEF EInv, Documents, Taken
<1>11. Truths'
  <2>1. ASSUME NEW x \in Scans, Minds(x)' PROVE Truth(x)'
    <3>1. st.scan = x /\ Truth(x) BY <1>d, <2>1 DEF EInv, Truths, Minds
    <3>2. (SaysPart(x)' <=> SaysPart(x)) /\ (SaysWhole(x)' <=> SaysWhole(x)) BY SameSays
    <3>3. Soon' <=> Soon BY <1>q, <1>t DEF Soon
    <3>4. CASE page' = page /\ w = "deaf"
      <4>1. Busy(x) => Busy(x)' BY <1>j, <3>4 DEF Busy
      <4>2. OnlyRecalls(x)' <=> OnlyRecalls(x) BY <3>4, SameRecalls
      <4>. QED BY <3>1, <3>2, <3>3, <3>4, <4>1, <4>2 DEF Truth
    <3>5. CASE page'.scan = z /\ page'.run = "starting"
      <4>1. CASE x = z BY <3>5, <4>1 DEF Truth, Busy, Finished
      <4>2. CASE x # z
        <5>1. page.scan # x
          <6>1. ASSUME page.scan = x PROVE FALSE
            <7>1. page.scan < z BY <1>n, <1>o, <6>1 DEF EInv, Jobs, z
            <7>2. z <= x BY <1>s, <3>1 DEF Job1
            <7>. QED BY <1>n, <1>z, <6>1, <7>1, <7>2
          <6>. QED BY <6>1
        <5>2. Busy(x) => Busy(x)' BY <1>j, <4>2, <5>1 DEF Busy
        <5>. QED BY <3>1, <3>2, <3>3, <3>5, <4>2, <5>2 DEF Truth
      <4>. QED BY <4>1, <4>2
    <3>. QED BY <1>p, <3>4, <3>5
  <2>. QED BY <2>1 DEF Truths
<1>. QED BY <1>1, <1>2, <1>3, <1>4, <1>5, <1>6, <1>7, <1>8, <1>9, <1>10, <1>11 DEF EInv

LEMMA PageRemovesKeeps ==
  ASSUME EInv, toPage # <<>>, toPage' = Tail(toPage), toPage[1].type = "remove",
         tears' = [tears EXCEPT ![toPage[1].tear] = "removed"] \/ tears' = tears,
         \A o \in Openings : tears'[o] = "over" <=> tears[o] = "over",
         page' = [page EXCEPT !.scan = NULL, !.run = "idle", !.injected = FALSE] \/ page' = page,
         st' = st, scans' = scans, jobs' = jobs, recovery' = recovery,
         waiting' = waiting, rescan' = rescan, toCore' = toCore, fromPage' = fromPage,
         doc' = doc, loading' = loading, page.loaded \/ page' = page,
         devtoolsTabs' = devtoolsTabs, panelPorts' = panelPorts, devtools' = devtools, panel' = panel
  PROVE  EInv'
<1>o. /\ 1 \in DOMAIN toPage
      /\ toPage' \in Seq(Orders) /\ DOMAIN toPage \subseteq Int /\ DOMAIN toPage' \subseteq Int
      /\ \A i \in DOMAIN toPage' :
           i + 1 \in DOMAIN toPage /\ toPage'[i] = toPage[i + 1] /\ 1 < i + 1
  BY OrderIs
<1>n. Undefined \notin Scans /\ NULL \notin Scans BY ScansAreNumbers
<1>d. st.scan # Undefined BY <1>o DEF EInv, Anew
<1>t. Told' = Told /\ Rescans' = Rescans BY DEF Told, ReportsIn, Rescans
<1>p. /\ page' \in Scripts /\ page'.timer = page.timer
      /\ (~page'.loaded => page' = NoScript)
      /\ page' = page \/ (page'.scan = NULL /\ page'.run = "idle")
  <2>1. page \in Scripts /\ (~page.loaded => page = NoScript) BY DEF EInv, Typed
  <2>2. CASE page' = page BY <2>1, <2>2
  <2>3. CASE /\ page' = [page EXCEPT !.scan = NULL, !.run = "idle", !.injected = FALSE]
             /\ page.loaded
    BY <2>1, <2>3 DEF Scripts, ScanIds, Runs
  <2>. QED BY <2>2, <2>3
<1>1. Typed'
  <2>1. tears \in [Openings -> TearStates] /\ "removed" \in TearStates BY DEF EInv, Typed, TearStates
  <2>2. tears' \in [Openings -> TearStates] BY <2>1
  <2>. QED BY <1>p, <2>2 DEF EInv, Typed
<1>2. Lines' /\ DevTools' BY <1>o DEF EInv, Lines, DevTools
<1>3. Budget' BY <1>p, <1>t DEF EInv, Budget, Asked
<1>4. Given' BY <1>n, <1>p, <1>t DEF EInv, Given
<1>5. Recovering'
  <2>1. \A i \in DOMAIN toPage' : toPage'[i].type = "get-scan-id" => recovery.state = "asking"
    BY <1>o DEF EInv, Recovering
  <2>2. ASSUME NEW i \in DOMAIN toPage', NEW k \in DOMAIN toPage',
               toPage'[i].type = "get-scan-id", toPage'[k].type = "get-scan-id"
        PROVE  i = k
    <3>1. i + 1 = k + 1 BY <1>o, <2>2 DEF EInv, Recovering
    <3>. QED BY <1>o, <3>1
  <2>3. ReportsIn(waiting') = ReportsIn(waiting) OBVIOUS
  <2>. QED BY <2>1, <2>2, <2>3 DEF EInv, Recovering
<1>6. Jobs'
  <2>1. \A x \in Scans : Job1(x) => Job1(x)' BY <1>n, <1>p, <1>t DEF Job1
  <2>2. ASSUME NEW i \in DOMAIN toPage', toPage'[i].type = "scan"
        PROVE  /\ jobs'[toPage'[i].scan] = "sent"
               /\ page'.scan # NULL => page'.scan < toPage'[i].scan
    <3>1. i + 1 \in DOMAIN toPage /\ toPage'[i] = toPage[i + 1] BY <1>o
    <3>2. page'.scan # NULL => page'.scan = page.scan BY <1>p
    <3>. QED BY <2>2, <3>1, <3>2 DEF EInv, Jobs
  <2>3. ASSUME NEW i \in DOMAIN toPage', NEW k \in DOMAIN toPage', i < k,
               toPage'[i].type = "scan", toPage'[k].type = "scan"
        PROVE  toPage'[i].scan < toPage'[k].scan
    <3>1. i + 1 < k + 1 BY <1>o, <2>3
    <3>. QED BY <1>o, <2>3, <3>1 DEF EInv, Jobs
  <2>. QED BY <2>1, <2>2, <2>3 DEF EInv, Jobs
<1>7. Cancelling' BY <1>d DEF EInv, Cancelling
<1>8. Anew' BY <1>d DEF Anew
<1>9. Torn'
  <2>1. ASSUME NEW i \in DOMAIN toPage', toPage'[i].type = "remove"
        PROVE  page'.scan = NULL \/ page'.scan # st.scan
    <3>1. i + 1 \in DOMAIN toPage /\ toPage'[i] = toPage[i + 1] BY <1>o
    <3>. QED BY <1>p, <2>1, <3>1 DEF EInv, Torn
  <2>2. ASSUME NEW i \in DOMAIN toPage', NEW k \in DOMAIN toPage', i < k,
               toPage'[i].type = "scan", toPage'[i].scan = st.scan
        PROVE  toPage'[k].type # "remove"
    <3>1. i + 1 < k + 1 BY <1>o, <2>2
    <3>. QED BY <1>o, <2>2, <3>1 DEF EInv, Torn
  <2>. QED BY <2>1, <2>2 DEF EInv, Torn, TearingDown
<1>10. Documents'
  <2>1. \A m \in Told : m.scan = page'.scan => m.scan = page.scan BY <1>n, <1>p, ToldIsOfScans
  <2>. QED BY <1>t, <2>1 DEF EInv, Documents, Taken
\* The page's scan is not the current one any more.
<1>11. Truths'
  <2>1. ASSUME NEW x \in Scans, Minds(x)' PROVE Truth(x)'
    <3>1. st.scan = x /\ Truth(x) BY <1>d, <2>1 DEF EInv, Truths, Minds
    <3>2. (SaysPart(x)' <=> SaysPart(x)) /\ (SaysWhole(x)' <=> SaysWhole(x)) BY SameSays
    <3>3. Soon' <=> Soon BY <1>p, <1>t DEF Soon
    <3>4. page.scan # x BY <1>n, <1>o, <3>1 DEF EInv, Torn
    <3>5. page'.scan # x BY <1>n, <1>p, <3>4
    <3>6. Busy(x) => Busy(x)' BY <3>4 DEF Busy
    <3>. QED BY <3>1, <3>2, <3>3, <3>5, <3>6 DEF Truth
  <2>. QED BY <2>1 DEF Truths
<1>. QED BY <1>1, <1>2, <1>3, <1>4, <1>5, <1>6, <1>7, <1>8, <1>9, <1>10, <1>11 DEF EInv

LEMMA PageTellsKeeps ==
  ASSUME EInv, toPage # <<>>, toPage' = Tail(toPage), toPage[1].type = "get-scan-id",
         recovery' = [state |-> "answered", scan |-> page.scan],
         st' = st, scans' = scans, jobs' = jobs, tears' = tears, page' = page,
         waiting' = waiting, rescan' = rescan, toCore' = toCore, fromPage' = fromPage,
         doc' = doc, loading' = loading,
         devtoolsTabs' = devtoolsTabs, panelPorts' = panelPorts, devtools' = devtools, panel' = panel
  PROVE  EInv'
<1>o. /\ 1 \in DOMAIN toPage
      /\ toPage' \in Seq(Orders) /\ DOMAIN toPage \subseteq Int /\ DOMAIN toPage' \subseteq Int
      /\ \A i \in DOMAIN toPage' :
           i + 1 \in DOMAIN toPage /\ toPage'[i] = toPage[i + 1] /\ 1 < i + 1
  BY OrderIs
<1>n. Undefined \notin Scans /\ NULL \notin Scans BY ScansAreNumbers
<1>r. recovery'.scan = page.scan /\ recovery'.state = "answered" /\ recovery' # Idle BY DEF Idle
<1>k. recovery # Idle /\ waiting # <<>> /\ st.known
  <2>1. recovery.state = "asking" BY <1>o DEF EInv, Recovering
  <2>2. recovery # Idle BY <2>1 DEF Idle
  <2>. QED BY <2>2 DEF EInv, Recovering
<1>t. Told' = Told /\ Rescans' = Rescans BY DEF Told, ReportsIn, Rescans
<1>1. Typed'
  <2>1. page.scan \in ScanIds BY DEF EInv, Typed, Scripts
  <2>. QED BY <2>1 DEF EInv, Typed
<1>2. Lines' /\ DevTools' BY <1>o DEF EInv, Lines, DevTools
<1>3. Budget' BY <1>t DEF EInv, Budget, Asked
<1>4. Given' BY <1>r, <1>t DEF EInv, Given
<1>5. Recovering'
  <2>1. \A i \in DOMAIN toPage' : toPage'[i].type # "get-scan-id"
    <3> SUFFICES ASSUME NEW i \in DOMAIN toPage', toPage'[i].type = "get-scan-id" PROVE FALSE
      OBVIOUS
    <3>1. i + 1 \in DOMAIN toPage /\ toPage[i + 1].type = "get-scan-id" /\ 1 < i + 1 BY <1>o
    <3>2. i + 1 = 1 BY <1>o, <3>1 DEF EInv, Recovering
    <3>. QED BY <3>1, <3>2
  <2>2. ReportsIn(waiting') = ReportsIn(waiting) OBVIOUS
  <2>. QED BY <1>k, <1>r, <2>1, <2>2 DEF EInv, Recovering
<1>6. Jobs'
  <2>1. \A x \in Scans : Job1(x) => Job1(x)' BY <1>r, <1>t DEF Job1
  <2>2. ASSUME NEW i \in DOMAIN toPage', toPage'[i].type = "scan"
        PROVE  /\ jobs'[toPage'[i].scan] = "sent"
               /\ page'.scan # NULL => page'.scan < toPage'[i].scan
    <3>1. i + 1 \in DOMAIN toPage /\ toPage'[i] = toPage[i + 1] BY <1>o
    <3>. QED BY <2>2, <3>1 DEF EInv, Jobs
  <2>3. ASSUME NEW i \in DOMAIN toPage', NEW k \in DOMAIN toPage', i < k,
               toPage'[i].type = "scan", toPage'[k].type = "scan"
        PROVE  toPage'[i].scan < toPage'[k].scan
    <3>1. i + 1 < k + 1 BY <1>o, <2>3
    <3>. QED BY <1>o, <2>3, <3>1 DEF EInv, Jobs
  <2>. QED BY <2>1, <2>2, <2>3 DEF EInv, Jobs
<1>7. Cancelling' BY <1>r DEF EInv, Cancelling
<1>8. Anew'
  <2>1. ASSUME st.scan = Undefined
        PROVE  \A m \in Told' : page'.scan \in {NULL, m.scan} /\ recovery'.scan \in {NULL, m.scan}
    BY <1>r, <1>t, <2>1 DEF EInv, Anew
  <2>2. ASSUME st.scan = Undefined PROVE \A i \in DOMAIN toPage' : toPage'[i].type = "get-scan-id"
    BY <1>o, <2>2 DEF EInv, Anew
  <2>. QED BY <1>r, <1>t, <2>1, <2>2 DEF EInv, Anew
<1>9. Torn'
  <2>1. ASSUME NEW i \in DOMAIN toPage', toPage'[i].type = "remove"
        PROVE  page'.scan = NULL \/ page'.scan # st.scan
    <3>1. i + 1 \in DOMAIN toPage /\ toPage'[i] = toPage[i + 1] BY <1>o
    <3>. QED BY <2>1, <3>1 DEF EInv, Torn
  <2>2. ASSUME NEW i \in DOMAIN toPage', NEW k \in DOMAIN toPage', i < k,
               toPage'[i].type = "scan", toPage'[i].scan = st.scan
        PROVE  toPage'[k].type # "remove"
    <3>1. i + 1 < k + 1 BY <1>o, <2>2
    <3>. QED BY <1>o, <2>2, <3>1 DEF EInv, Torn
  <2>. QED BY <2>1, <2>2 DEF EInv, Torn, TearingDown
<1>10. Documents'
  <2>1. Taken' = IF st.scan = Undefined THEN page.scan ELSE Taken BY <1>r DEF Taken
  <2>. QED BY <1>t, <2>1 DEF EInv, Documents
<1>11. Truths'
  <2>1. ASSUME NEW x \in Scans, Minds(x)' PROVE Truth(x)'
    <3>1. Truth(x) BY <1>r, <2>1 DEF EInv, Truths, Minds
    <3>2. (SaysPart(x)' <=> SaysPart(x)) /\ (SaysWhole(x)' <=> SaysWhole(x)) BY SameSays
    <3>3. (Soon' <=> Soon) /\ (Busy(x) => Busy(x)') BY <1>t DEF Soon, Busy
    <3>4. OnlyRecalls(x)' <=> OnlyRecalls(x) BY SameRecalls
    <3>. QED BY <3>1, <3>2, <3>3, <3>4 DEF Truth
  <2>. QED BY <2>1 DEF Truths
<1>. QED BY <1>1, <1>2, <1>3, <1>4, <1>5, <1>6, <1>7, <1>8, <1>9, <1>10, <1>11 DEF EInv

LEMMA PageReceivesKeeps == ASSUME EInv, PageReceives PROVE EInv'
<1> DEFINE m == toPage[1]
<1>o. Head(toPage) = toPage[1] /\ 1 \in DOMAIN toPage /\ toPage[1] \in Orders /\ toPage # <<>>
  BY OrderIs DEF PageReceives
<1>0. /\ toPage' = Tail(toPage) /\ Answered(m, page.loaded)
      /\ page' = IF ~page.loaded THEN page
                 ELSE CASE m.type = "scan" -> [page EXCEPT !.scan = m.scan, !.run = "starting"]
                        [] m.type = "remove" -> [page EXCEPT !.scan = NULL, !.run = "idle", !.injected = FALSE]
                        [] OTHER -> page
      /\ st' = st /\ scans' = scans /\ waiting' = waiting /\ rescan' = rescan
      /\ toCore' = toCore /\ fromPage' = fromPage /\ doc' = doc /\ loading' = loading
      /\ devtoolsTabs' = devtoolsTabs /\ panelPorts' = panelPorts /\ devtools' = devtools /\ panel' = panel
  BY <1>o DEF PageReceives, devVars, counters
<1>m. \/ m.type = "scan" /\ m.scan \in Scans
      \/ m.type = "remove" /\ m.tear \in Openings
      \/ m.type = "get-scan-id"
  BY <1>o DEF Orders
<1>1. ASSUME m.type = "scan", m.scan \in Scans PROVE EInv'
  <2>1. jobs[m.scan] = "sent" BY <1>o, <1>1 DEF EInv, Jobs
  <2>2. /\ jobs' = [jobs EXCEPT ![m.scan] = IF page.loaded THEN "over" ELSE "deaf"]
        /\ tears' = tears /\ recovery' = recovery
    BY <1>0, <1>1, <2>1 DEF Answered
  <2>3. CASE page.loaded
    <3>1. page' = [page EXCEPT !.scan = m.scan, !.run = "starting"] BY <1>0, <1>1, <2>3
    <3>2. jobs' = [jobs EXCEPT ![m.scan] = "over"] BY <2>2, <2>3
    <3>. QED BY <1>0, <1>1, <1>o, <2>2, <2>3, <3>1, <3>2, PageScansKeeps
  <2>4. CASE ~page.loaded
    <3>1. page' = page /\ jobs' = [jobs EXCEPT ![m.scan] = "deaf"] BY <1>0, <2>2, <2>4
    <3>. QED BY <1>0, <1>1, <1>o, <2>2, <2>4, <3>1, PageScansKeeps
  <2>. QED BY <2>3, <2>4
<1>2. ASSUME m.type = "remove", m.tear \in Openings PROVE EInv'
  <2>1. /\ tears' = IF tears[m.tear] = "removing" THEN [tears EXCEPT ![m.tear] = "removed"] ELSE tears
        /\ jobs' = jobs /\ recovery' = recovery
    BY <1>0, <1>2 DEF Answered
  <2>2. tears \in [Openings -> TearStates] BY DEF EInv, Typed
  <2>3. /\ tears' = [tears EXCEPT ![m.tear] = "removed"] \/ tears' = tears
        /\ \A o \in Openings : tears'[o] = "over" <=> tears[o] = "over"
    BY <1>2, <2>1, <2>2
  <2>4. /\ page' = [page EXCEPT !.scan = NULL, !.run = "idle", !.injected = FALSE] \/ page' = page
        /\ page.loaded \/ page' = page
    BY <1>0, <1>2
  <2>. QED BY <1>0, <1>2, <1>o, <2>1, <2>3, <2>4, PageRemovesKeeps
<1>3. ASSUME m.type = "get-scan-id" PROVE EInv'
  <2>1. ~page.loaded => page.scan = NULL BY DEF EInv, Typed, NoScript
  <2>2. /\ recovery' = [state |-> "answered", scan |-> IF page.loaded THEN page.scan ELSE NULL]
        /\ jobs' = jobs /\ tears' = tears
    BY <1>0, <1>3 DEF Answered
  <2>3. recovery' = [state |-> "answered", scan |-> page.scan] BY <2>1, <2>2
  <2>4. page' = page BY <1>0, <1>3
  <2>. QED BY <1>0, <1>3, <1>o, <2>2, <2>3, <2>4, PageTellsKeeps
<1>. QED BY <1>m, <1>1, <1>2, <1>3
----------------------------------------------------------------------------
(***************************************************************************)
(* The worker receives a report.                                           *)
(***************************************************************************)
LEMMA HeadIsReport ==
  ASSUME EInv, fromPage # <<>>, Head(fromPage) # Rescan, NEW m, m = Head(fromPage)
  PROVE  /\ m \in Reports /\ m # Rescan /\ m \in Told /\ m.scan \in Scans
         /\ Tail(fromPage) \in Seq(FromPage)
         /\ ReportsIn(Tail(fromPage)) \subseteq ReportsIn(fromPage)
         /\ m \in ReportsIn(fromPage)
         /\ Cardinality(RescansIn(Tail(fromPage))) = Cardinality(RescansIn(fromPage))
         /\ RescansIn(fromPage) # {} => RescansIn(Tail(fromPage)) # {}
<1>1. fromPage \in Seq(FromPage) BY DEF EInv, Lines
<1>2. Tail(fromPage) \in Seq(FromPage) /\ m \in FromPage BY <1>1, TailIs
<1>3. /\ ReportsIn(Tail(fromPage)) \subseteq ReportsIn(fromPage) /\ m \in ReportsIn(fromPage)
  BY <1>1, ReportsInTail
<1>4. m \in Reports BY <1>2 DEF FromPage
<1>5. /\ Cardinality(RescansIn(Tail(fromPage))) = Cardinality(RescansIn(fromPage))
      /\ RescansIn(fromPage) # {} => RescansIn(Tail(fromPage)) # {}
  BY <1>1, RescansTail
<1>. QED BY <1>2, <1>3, <1>4, <1>5, ToldIsOfScans

\* What was said of a scan, when a report has been taken off the line.
LEMMA LineMoves ==
  ASSUME EInv, fromPage # <<>>, NEW r, r = Tail(fromPage), NEW s
  PROVE  /\ \A m : IsLast(r, s, m) => IsLast(fromPage, s, m)
         /\ ~About(Head(fromPage), s) /\ Silent(r, s) => Silent(fromPage, s)
         /\ Silent(fromPage, s) => Silent(r, s) /\ ~About(Head(fromPage), s)
         /\ About(Head(fromPage), s) /\ Silent(r, s) => IsLast(fromPage, s, Head(fromPage))
         /\ \A m : IsLast(fromPage, s, m) /\ ~IsLast(r, s, m) =>
              Silent(r, s) /\ About(Head(fromPage), s)
         /\ \A m : m # Head(fromPage) /\ IsLast(fromPage, s, m) => IsLast(r, s, m)
<1>1. fromPage \in Seq(FromPage) BY DEF EInv, Lines
<1>. QED BY <1>1, SilentTail

\* A report for the worker that knows the tab's scan.
LEMMA KnownReportKeeps ==
  ASSUME EInv, fromPage # <<>>, Head(fromPage) # Rescan, fromPage' = Tail(fromPage),
         st.scan # Undefined, st' = Accept(st, Head(fromPage)),
         scans' = scans, jobs' = jobs, tears' = tears, recovery' = recovery,
         waiting' = waiting, rescan' = rescan, toCore' = toCore, toPage' = toPage,
         doc' = doc, loading' = loading, page' = page, DevTools'
  PROVE  EInv'
<1> DEFINE m == Head(fromPage)
<1>m. /\ m \in Reports /\ m # Rescan /\ m \in Told /\ m.scan \in Scans
      /\ fromPage' \in Seq(FromPage)
      /\ ReportsIn(fromPage') \subseteq ReportsIn(fromPage)
      /\ Cardinality(RescansIn(fromPage')) = Cardinality(RescansIn(fromPage))
      /\ RescansIn(fromPage) # {} => RescansIn(fromPage') # {}
  BY HeadIsReport
<1>n. NULL \notin Scans BY ScansAreNumbers
<1>a. st' = Accept(st, m) OBVIOUS
<1>l. \A s : /\ \A k : IsLast(fromPage', s, k) => IsLast(fromPage, s, k)
             /\ ~About(m, s) /\ Silent(fromPage', s) => Silent(fromPage, s)
             /\ Silent(fromPage, s) => Silent(fromPage', s) /\ ~About(m, s)
             /\ About(m, s) /\ Silent(fromPage', s) => IsLast(fromPage, s, m)
             /\ \A k : IsLast(fromPage, s, k) /\ ~IsLast(fromPage', s, k) =>
                  Silent(fromPage', s) /\ About(m, s)
             /\ \A k : k # m /\ IsLast(fromPage, s, k) => IsLast(fromPage', s, k)
  BY LineMoves
<1> HIDE DEF m
<1>s. /\ st' \in WorkerState /\ st'.scan = st.scan /\ st'.known = st.known
      /\ ~About(m, st.scan) => st' = st
      /\ About(m, st.scan) => Hears(st', m) /\ st.scan = m.scan
  <2>1. st \in WorkerState BY DEF EInv, Typed
  <2>2. About(m, st.scan) => st.scan = m.scan BY DEF About
  <2>. QED BY <1>a, <1>m, <2>1, <2>2, AcceptIs
<1>t. Told' \subseteq Told BY <1>m DEF Told
<1>r. Cardinality(Rescans') = Cardinality(Rescans) /\ (Rescans # {} => Rescans' # {})
  BY <1>m DEF Rescans, RescansIn
<1>1. Typed' BY <1>s DEF EInv, Typed
<1>2. Lines' BY <1>m DEF EInv, Lines
<1>3. Budget' BY <1>r DEF EInv, Budget, Asked
<1>4. Given' BY <1>s, <1>t DEF EInv, Given
<1>5. Recovering' BY <1>s DEF EInv, Recovering, ReportsIn
<1>6. Jobs'
  <2>1. ASSUME NEW x \in Scans, jobs[x] # "over" PROVE Job1(x)'
    <3>1. Job1(x) BY <2>1 DEF EInv, Jobs
    <3>2. m.scan # x BY <1>m, <3>1 DEF Job1
    <3>3. st.scan = x => st' = st BY <1>s, <3>2
    <3>. QED BY <1>s, <1>t, <3>1, <3>3 DEF Job1
  <2>. QED BY <2>1 DEF EInv, Jobs
<1>7. Cancelling' BY <1>s DEF EInv, Cancelling
<1>8. Anew' BY <1>s DEF Anew
<1>9. Torn'
  <2>1. st.scan = NULL => st' = st BY <1>m, <1>n, <1>s
  <2>. QED BY <1>s, <2>1 DEF EInv, Torn, TearingDown
<1>10. Documents'
  <2>1. CASE ~About(m, st.scan)
    <3>1. st' = st BY <1>s, <2>1
    <3>. QED BY <1>t, <3>1 DEF EInv, Documents, Taken
  <2>2. CASE About(m, st.scan)
    <3>1. Hears(st', m) BY <1>s, <2>2
    <3>2. m.type = "findings" => loading \/ m.doc = doc BY <1>m, <1>s, <2>2 DEF EInv, Documents, Taken
    <3>3. st'.report # NoReport => /\ loading \/ st'.report.doc = doc
                                   /\ st'.report.scan = m.scan
      BY <3>1, <3>2 DEF Hears
    <3>. QED BY <1>s, <1>t, <2>2, <3>3 DEF EInv, Documents, Taken
  <2>. QED BY <2>1, <2>2
<1>11. Truths'
  <2>1. ASSUME NEW x \in Scans, Minds(x)' PROVE Truth(x)'
    <3>1. st.scan = x /\ Truth(x) BY <1>s, <2>1 DEF EInv, Truths, Minds
    <3>2. (Soon => Soon') /\ (Busy(x)' <=> Busy(x)) BY <1>r DEF Soon, Busy
    <3>3. CASE ~About(m, x)
      <4>0. st' = st /\ ~About(m, x) BY <1>s, <3>1, <3>3
      <4>1. SaysPart(x)' => SaysPart(x) BY <1>l, <4>0 DEF SaysPart
      <4>2. SaysWhole(x) => SaysWhole(x)'
        <5>1. \A k : IsLast(fromPage, x, k) => IsLast(fromPage', x, k) BY <1>l, <4>0
        <5>. QED BY <1>l, <4>0, <5>1 DEF SaysWhole
      <4>3. OnlyRecalls(x) => OnlyRecalls(x)' BY <1>l, <4>0 DEF OnlyRecalls
      <4>. QED BY <3>1, <3>2, <4>1, <4>2, <4>3 DEF Truth
    <3>4. CASE About(m, x)
      <4>0. About(m, x) /\ Hears(st', m) BY <1>s, <3>1, <3>4
      <4>1. SaysPart(x)' => SaysPart(x)
        <5>1. ASSUME NEW k \in Reports, IsLast(fromPage', x, k), IsPart(k) PROVE SaysPart(x)
          BY <1>l, <5>1 DEF SaysPart
        <5>2. ASSUME Silent(fromPage', x), st'.scanning PROVE SaysPart(x)
          <6>1. IsLast(fromPage, x, m) BY <1>l, <4>0, <5>2
          <6>2. IsPart(m) BY <4>0, <5>2 DEF Hears
          <6>. QED BY <1>m, <6>1, <6>2 DEF SaysPart
        <5>. QED BY <1>s, <5>1, <5>2 DEF SaysPart
      <4>2. SaysWhole(x) => SaysWhole(x)'
        <5>1. ~Silent(fromPage, x) BY <1>l, <4>0
        <5>2. ASSUME NEW k \in Reports, IsLast(fromPage, x, k), IsWhole(k) PROVE SaysWhole(x)'
          <6>1. CASE IsLast(fromPage', x, k) BY <5>2, <6>1 DEF SaysWhole
          <6>2. CASE ~IsLast(fromPage', x, k)
            <7>1. Silent(fromPage', x) BY <1>l, <5>2, <6>2
            <7>2. k = m BY <1>l, <5>2, <6>2
            <7>3. st'.complete BY <4>0, <5>2, <7>2 DEF Hears
            <7>. QED BY <1>s, <7>1, <7>3 DEF SaysWhole
          <6>. QED BY <6>1, <6>2
        <5>. QED BY <5>1, <5>2 DEF SaysWhole
      <4>3. ~OnlyRecalls(x) BY <1>l, <4>0 DEF OnlyRecalls
      <4>. QED BY <3>1, <3>2, <4>1, <4>2, <4>3 DEF Truth
    <3>. QED BY <3>3, <3>4
  <2>. QED BY <2>1 DEF Truths
<1>. QED BY <1>1, <1>2, <1>3, <1>4, <1>5, <1>6, <1>7, <1>8, <1>9, <1>10, <1>11 DEF EInv

\* A report for a worker that has lost its memory: it waits, and the page is
\* asked, once.
LEMMA RecoverKeeps ==
  ASSUME EInv, fromPage # <<>>, Head(fromPage) # Rescan, fromPage' = Tail(fromPage),
         st.scan = Undefined, Recover(Head(fromPage)),
         scans' = scans, jobs' = jobs, tears' = tears,
         rescan' = rescan, toCore' = toCore,
         doc' = doc, loading' = loading, page' = page, DevTools'
  PROVE  EInv'
<1> DEFINE m == Head(fromPage)
           ask == [type |-> "get-scan-id"]
<1>m. /\ m \in Reports /\ m # Rescan /\ m \in Told /\ m.scan \in Scans
      /\ fromPage' \in Seq(FromPage)
      /\ ReportsIn(fromPage') \subseteq ReportsIn(fromPage)
      /\ m \in ReportsIn(fromPage)
      /\ Cardinality(RescansIn(fromPage')) = Cardinality(RescansIn(fromPage))
      /\ RescansIn(fromPage) # {} => RescansIn(fromPage') # {}
  BY HeadIsReport
<1>n. NULL \notin Scans /\ Undefined \notin Scans BY ScansAreNumbers
<1>a. /\ st' = [st EXCEPT !.known = TRUE]
      /\ waiting' = Append(waiting, m)
      /\ \/ /\ recovery = Idle /\ recovery' = [state |-> "asking", scan |-> NULL]
            /\ toPage' = Append(toPage, ask)
         \/ recovery # Idle /\ recovery' = recovery /\ toPage' = toPage
  BY DEF Recover, TellsPage
<1>l. \A s : /\ \A k : IsLast(fromPage', s, k) => IsLast(fromPage, s, k)
             /\ Silent(fromPage, s) => ~About(m, s) /\ Silent(fromPage', s)
             /\ ~About(m, s) /\ Silent(fromPage', s) => Silent(fromPage, s)
             /\ About(m, s) /\ Silent(fromPage', s) => IsLast(fromPage, s, m)
             /\ \A k : IsLast(fromPage, s, k) /\ ~IsLast(fromPage', s, k) =>
                  Silent(fromPage', s) /\ About(m, s)
             /\ \A k : k # m /\ IsLast(fromPage, s, k) => IsLast(fromPage', s, k)
  BY LineMoves
<1> HIDE DEF m, ask
<1>s. /\ st' \in WorkerState /\ st'.scan = st.scan /\ st'.known /\ st'.report = st.report
      /\ st'.scanning = st.scanning /\ st'.complete = st.complete /\ st'.error = st.error
  <2>1. st \in WorkerState BY DEF EInv, Typed
  <2>. QED BY <1>a, <2>1 DEF WorkerState
<1>w. /\ waiting' \in Seq(Reports) /\ waiting' # <<>>
      /\ ReportsIn(waiting') = ReportsIn(waiting) \cup {m}
  <2>1. waiting \in Seq(Reports) BY DEF EInv, Lines
  <2>a. waiting' = Append(waiting, m) BY <1>a
  <2>b. m \in Reports BY <1>m
  <2>2. waiting' \in Seq(Reports) /\ waiting' # <<>>
    BY ONLY <2>a, <2>b, <2>1, AppendIs
  <2>4. ReportsIn(Append(waiting, m)) = ReportsIn(waiting) \cup ({m} \ {Rescan})
    BY <1>m, <2>1, ReportsInAppend
  <2>. QED BY <1>a, <1>m, <2>2, <2>4
<1>t. Told' \subseteq Told BY <1>m, <1>w DEF Told
<1>r. Cardinality(Rescans') = Cardinality(Rescans) /\ (Rescans # {} => Rescans' # {})
  BY <1>m DEF Rescans, RescansIn
<1>y. /\ recovery' # Idle /\ recovery'.scan \in {NULL, recovery.scan}
      /\ recovery' \in [state : {"idle", "asking", "answered"}, scan : ScanIds]
      /\ recovery'.state # "idle"
      /\ recovery'.state = "asking" => recovery'.scan = NULL
  <2>1. /\ recovery \in [state : {"idle", "asking", "answered"}, scan : ScanIds]
        /\ recovery.state = "idle" => recovery = Idle
        /\ recovery.state = "asking" => recovery.scan = NULL
    BY DEF EInv, Typed, Recovering
  <2>2. CASE recovery' = [state |-> "asking", scan |-> NULL] BY <2>2 DEF Idle, ScanIds
  <2>3. CASE recovery # Idle /\ recovery' = recovery BY <2>1, <2>3
  <2>. QED BY <1>a, <2>2, <2>3
\* The page is asked once.
<1>o. /\ toPage' \in Seq(Orders)
      /\ \A i \in DOMAIN toPage' : toPage'[i].type = "get-scan-id" /\ recovery'.state = "asking"
      /\ \A i, j \in DOMAIN toPage' : i = j
  <2>1. /\ toPage \in Seq(Orders)
        /\ \A i \in DOMAIN toPage : toPage[i].type = "get-scan-id" /\ recovery.state = "asking"
        /\ \A i, j \in DOMAIN toPage : i = j
    <3>1. \A i \in DOMAIN toPage : toPage[i].type = "get-scan-id" BY DEF EInv, Anew
    <3>2. toPage \in Seq(Orders) BY DEF EInv, Lines
    <3>. QED BY <3>1, <3>2 DEF EInv, Recovering
  <2>2. CASE recovery = Idle /\ recovery' = [state |-> "asking", scan |-> NULL] /\ toPage' = Append(toPage, ask)
    <3>1. DOMAIN toPage = {} BY <2>1, <2>2 DEF Idle
    <3>2. ask \in Orders /\ ask.type = "get-scan-id" BY DEF ask, Orders
    <3>3. /\ toPage' \in Seq(Orders) /\ DOMAIN toPage' = 1 .. Len(toPage) + 1
          /\ DOMAIN toPage = 1 .. Len(toPage) /\ Len(toPage) \in Nat
          /\ toPage'[Len(toPage) + 1] = ask
      BY <2>1, <2>2, <3>2, AppendIs
    <3>4. \A i \in DOMAIN toPage' : i = Len(toPage) + 1
      <4>1. \A i \in DOMAIN toPage' : i \in DOMAIN toPage \/ i = Len(toPage) + 1 BY <3>3
      <4>. QED BY <3>1, <4>1
    <3>. QED BY <2>2, <3>2, <3>3, <3>4
  <2>3. CASE recovery' = recovery /\ toPage' = toPage BY <2>1, <2>3
  <2>. QED BY <1>a, <2>2, <2>3
<1>p. \A i \in DOMAIN toPage' : toPage'[i].type = "get-scan-id" /\ recovery'.state = "asking"
  BY <1>o
<1>1. Typed' BY <1>s, <1>y DEF EInv, Typed
<1>2. Lines' BY <1>m, <1>o, <1>w DEF EInv, Lines
<1>3. Budget' BY <1>r DEF EInv, Budget, Asked
<1>4. Given' BY <1>n, <1>s, <1>t, <1>y DEF EInv, Given
<1>5. Recovering'
  <2>1. \A k \in ReportsIn(waiting') : k.scan # st'.scan
    <3>1. ReportsIn(waiting') \subseteq Told' BY DEF Told
    <3>. QED BY <1>n, <1>s, <1>t, <3>1, ToldIsOfScans
  <2>. QED BY <1>o, <1>p, <1>s, <1>w, <1>y, <2>1 DEF Recovering
<1>6. Jobs'
  <2>1. \A x \in Scans : jobs'[x] = "over" BY DEF EInv, Anew
  <2>. QED BY <1>p, <2>1 DEF Jobs
<1>7. Cancelling' BY <1>n, <1>s, <1>y DEF EInv, Cancelling
<1>8. Anew'
  <2>1. \A x \in Scans : jobs'[x] = "over" BY DEF EInv, Anew
  <2>2. \A x \in Openings : tears'[x] = "over" BY DEF EInv, Anew
  <2>3. \A k, l \in Told' : k.scan = l.scan BY <1>t DEF EInv, Anew
  <2>4. \A k \in Told' : page'.scan \in {NULL, k.scan} /\ recovery'.scan \in {NULL, k.scan}
    BY <1>t, <1>y DEF EInv, Anew
  <2>5. recovery'.state = "answered" => recovery' = recovery BY <1>a
  <2>. QED BY <1>p, <1>s, <1>y, <2>1, <2>2, <2>3, <2>4, <2>5 DEF EInv, Anew
<1>9. Torn' BY <1>n, <1>p, <1>s, ScansAreNumbers DEF Torn
<1>10. Documents'
  <2>1. st'.report = NoReport BY <1>s DEF EInv, Anew
  <2>2. Taken = recovery.scan /\ Taken' = recovery'.scan BY <1>s DEF Taken
  <2>3. \A k \in Told' : k.scan = Taken' => k.scan = Taken BY <1>n, <1>t, <1>y, <2>2, ToldIsOfScans
  <2>. QED BY <1>t, <2>1, <2>3 DEF EInv, Documents
<1>11. Truths'
  <2>1. ASSUME NEW x \in Scans, Minds(x)' PROVE Truth(x)'
    <3>0. x \in {page.scan, recovery.scan} BY <1>n, <1>s, <1>y, <2>1 DEF Minds
    <3>1. Truth(x) BY <3>0 DEF EInv, Truths, Minds
    <3>2. (Soon => Soon') /\ (Busy(x)' <=> Busy(x)) BY <1>r DEF Soon, Busy
    <3>w. waiting \in Seq(Reports) /\ waiting' = Append(waiting, m) /\ m \in Reports
      BY <1>a, <1>m DEF EInv, Lines
    <3>3. CASE About(m, x)
      <4>0. /\ ~Silent(waiting', x) /\ IsLast(waiting', x, m)
            /\ \A k : IsLast(waiting', x, k) => k = m
        <5>1. ~Silent(waiting', x) /\ IsLast(waiting', x, m) BY <3>3, <3>w, AppendAbout
        <5>2. \A k : k # m => ~IsLast(waiting', x, k) BY <3>3, <3>w, AppendAbout
        <5>. QED BY <5>1, <5>2
      <4>1. SaysPart(x)' => SaysPart(x)
        <5>1. ASSUME NEW k \in Reports, IsLast(fromPage', x, k), IsPart(k) PROVE SaysPart(x)
          BY <1>l, <5>1 DEF SaysPart
        <5>2. ASSUME Silent(fromPage', x), IsPart(m) PROVE SaysPart(x)
          <6>1. IsLast(fromPage, x, m) BY <1>l, <3>3, <5>2
          <6>. QED BY <1>m, <5>2, <6>1 DEF SaysPart
        <5>. QED BY <1>s, <4>0, <5>1, <5>2 DEF SaysPart
      <4>2. SaysWhole(x) => SaysWhole(x)'
        <5>1. ~Silent(fromPage, x) BY <1>l, <3>3
        <5>2. ASSUME NEW k \in Reports, IsLast(fromPage, x, k), IsWhole(k) PROVE SaysWhole(x)'
          <6>1. CASE IsLast(fromPage', x, k) BY <5>2, <6>1 DEF SaysWhole
          <6>2. CASE ~IsLast(fromPage', x, k)
            <7>1. Silent(fromPage', x) /\ k = m BY <1>l, <5>2, <6>2
            <7>. QED BY <1>s, <4>0, <5>2, <7>1 DEF SaysWhole
          <6>. QED BY <6>1, <6>2
        <5>. QED BY <5>1, <5>2 DEF SaysWhole
      <4>3. ~OnlyRecalls(x) BY <1>l, <3>3 DEF OnlyRecalls
      <4>. QED BY <3>1, <3>2, <4>1, <4>2, <4>3 DEF Truth
    <3>4. CASE ~About(m, x)
      <4>1. /\ Silent(waiting', x) <=> Silent(waiting, x)
            /\ \A k : IsLast(waiting', x, k) <=> IsLast(waiting, x, k)
        BY <3>4, <3>w, AppendOther
      <4>2. /\ Silent(fromPage', x) <=> Silent(fromPage, x)
            /\ \A k : IsLast(fromPage', x, k) <=> IsLast(fromPage, x, k)
        BY <1>l, <3>4
      <4>3. SaysPart(x)' => SaysPart(x) BY <1>s, <4>1, <4>2 DEF SaysPart
      <4>4. SaysWhole(x) => SaysWhole(x)' BY <1>s, <4>1, <4>2 DEF SaysWhole
      <4>5. OnlyRecalls(x) => OnlyRecalls(x)' BY <1>s, <4>1, <4>2 DEF OnlyRecalls
      <4>. QED BY <3>1, <3>2, <4>3, <4>4, <4>5 DEF Truth
    <3>. QED BY <3>3, <3>4
  <2>. QED BY <2>1 DEF Truths
<1>. QED BY <1>1, <1>2, <1>3, <1>4, <1>5, <1>6, <1>7, <1>8, <1>9, <1>10, <1>11 DEF EInv

LEMMA ReceiveReportKeeps == ASSUME EInv, ReceiveReport PROVE EInv'
<1>0. /\ fromPage # <<>> /\ Head(fromPage) # Rescan /\ fromPage' = Tail(fromPage)
      /\ scans' = scans /\ jobs' = jobs /\ tears' = tears
      /\ rescan' = rescan /\ toCore' = toCore
      /\ doc' = doc /\ loading' = loading /\ page' = page
      /\ devtoolsTabs' = devtoolsTabs /\ panelPorts' = panelPorts /\ devtools' = devtools
  BY DEF ReceiveReport, coroutines, ports, tabVars, counters
<1>1. PanelShows("result") \/ panel' = panel BY DEF ReceiveReport, Recover
<1>2. DevTools' BY <1>0, <1>1, PanelShowsKeeps
<1>3. CASE st.scan = Undefined
  <2>1. Recover(Head(fromPage)) BY <1>3 DEF ReceiveReport
  <2>. QED BY <1>0, <1>2, <1>3, <2>1, RecoverKeeps
<1>4. CASE st.scan # Undefined
  <2>1. /\ st' = Accept(st, Head(fromPage)) /\ recovery' = recovery
        /\ waiting' = waiting /\ toPage' = toPage
    BY <1>4 DEF ReceiveReport
  <2>. QED BY <1>0, <1>2, <1>4, <2>1, KnownReportKeeps
<1>. QED BY <1>3, <1>4

----------------------------------------------------------------------------
(***************************************************************************)
(* The end of a recovery.                                                  *)
(***************************************************************************)
\* The page is asked no more, and the reports that waited are known.
LEMMA RecoveryIsAnswered ==
  ASSUME EInv, recovery.state = "answered"
  PROVE  /\ waiting \in Seq(Reports) /\ waiting # <<>> /\ st.known
         /\ \A i \in DOMAIN toPage : toPage[i].type # "get-scan-id"
         /\ \A i \in DOMAIN waiting : waiting[i] \in ReportsIn(waiting)
         /\ ReportsIn(waiting) \subseteq Told
<1>1. recovery # Idle BY DEF Idle
<1>2. waiting \in Seq(Reports) /\ waiting # <<>> /\ st.known BY <1>1 DEF EInv, Recovering, Lines
<1>3. \A i \in DOMAIN toPage : toPage[i].type # "get-scan-id"
  <2>1. \A i \in DOMAIN toPage : toPage[i].type = "get-scan-id" => recovery.state = "asking"
    BY DEF EInv, Recovering
  <2>. QED BY <2>1
<1>4. \A i \in DOMAIN waiting : waiting[i] \in Reports /\ waiting[i] # Rescan
  BY <1>2, ReportIsNoRescan
<1>5. \A i \in DOMAIN waiting : waiting[i] \in ReportsIn(waiting) BY <1>4 DEF ReportsIn
<1>. QED BY <1>2, <1>3, <1>4, <1>5 DEF Told

\* The reports are not on a scan that the worker knows: it hears nothing new.
LEMMA NothingIsRecovered ==
  ASSUME EInv, recovery.state = "answered", st' = st, waiting' = <<>>, recovery' = Idle,
         st.scan = Undefined => recovery.scan = NULL,
         scans' = scans, jobs' = jobs, tears' = tears, rescan' = rescan, toCore' = toCore,
         toPage' = toPage, fromPage' = fromPage, doc' = doc, loading' = loading, page' = page, DevTools'
  PROVE  EInv'
<1>n. NULL \notin Scans /\ Undefined \notin Scans BY ScansAreNumbers
<1>i. Idle.scan = NULL /\ Idle.state = "idle" BY DEF Idle
<1>t. Told' \subseteq Told /\ ReportsIn(waiting') = {} BY ReportsInNone DEF Told
<1>g. \A i \in DOMAIN toPage : toPage[i].type # "get-scan-id" BY RecoveryIsAnswered
<1>1. Typed' BY <1>i DEF EInv, Typed, Idle, ScanIds
<1>2. Lines' BY DEF EInv, Lines
<1>3. Budget' BY DEF EInv, Budget, Asked, Rescans
<1>4. Given' BY <1>i, <1>n, <1>t DEF EInv, Given
<1>5. Recovering' BY <1>g, <1>i, <1>t DEF EInv, Recovering
<1>6. Jobs'
  <2>1. ASSUME NEW x \in Scans, jobs[x] # "over" PROVE Job1(x)'
    <3>1. Job1(x) BY <2>1 DEF EInv, Jobs
    <3>. QED BY <1>i, <1>n, <1>t, <3>1 DEF Job1
  <2>. QED BY <2>1 DEF EInv, Jobs
<1>7. Cancelling' BY <1>i DEF EInv, Cancelling
<1>8. Anew' BY <1>i, <1>t DEF EInv, Anew
<1>9. Torn' BY DEF EInv, Torn, TearingDown
<1>10. Documents'
  <2>1. Taken' = Taken BY <1>i DEF Taken
  <2>. QED BY <1>t, <2>1 DEF EInv, Documents
<1>11. Truths'
  <2>1. ASSUME NEW x \in Scans, Minds(x)' PROVE Truth(x)'
    <3>1. Minds(x) BY <1>i, <1>n, <2>1 DEF Minds
    <3>2. Truth(x) BY <3>1 DEF EInv, Truths
    <3>k. st.scan # Undefined
      <4>1. ASSUME st.scan = Undefined PROVE FALSE
        <5>1. recovery.scan = NULL /\ page.scan = NULL BY <4>1 DEF EInv, Anew
        <5>. QED BY <1>n, <3>1, <4>1, <5>1 DEF Minds
      <4>. QED BY <4>1
    <3>3. SaysPart(x)' => SaysPart(x) BY <3>k DEF SaysPart
    <3>4. SaysWhole(x) => SaysWhole(x)' BY <3>k DEF SaysWhole
    <3>5. OnlyRecalls(x) => OnlyRecalls(x)' BY <3>k DEF OnlyRecalls
    <3>. QED BY <3>2, <3>3, <3>4, <3>5 DEF Truth, Busy, Soon, Rescans
  <2>. QED BY <2>1 DEF Truths
<1>. QED BY <1>1, <1>2, <1>3, <1>4, <1>5, <1>6, <1>7, <1>8, <1>9, <1>10, <1>11 DEF EInv

\* The page's scan is the worker's again, and all that waited is on it: the
\* worker knows what the last of the reports says.
LEMMA ScanIsRecovered ==
  ASSUME EInv, recovery.state = "answered", waiting' = <<>>, recovery' = Idle,
         st.scan = Undefined, recovery.scan \in Scans,
         st' \in WorkerState, st'.scan = recovery.scan, st'.known,
         Silent(waiting, recovery.scan) => st'.report = NoReport /\ ~st'.scanning /\ ~st'.error,
         \A m \in Reports : IsLast(waiting, recovery.scan, m) => Hears(st', m),
         scans' = scans, jobs' = jobs, tears' = tears, rescan' = rescan, toCore' = toCore,
         toPage' = toPage, fromPage' = fromPage, doc' = doc, loading' = loading, page' = page, DevTools'
  PROVE  EInv'
<1>n. NULL \notin Scans /\ Undefined \notin Scans BY ScansAreNumbers
<1>i. Idle.scan = NULL /\ Idle.state = "idle" BY DEF Idle
<1>t. Told' \subseteq Told /\ ReportsIn(waiting') = {} BY ReportsInNone DEF Told
<1>g. /\ \A i \in DOMAIN toPage : toPage[i].type # "get-scan-id"
      /\ waiting # <<>> /\ waiting \in Seq(Reports) /\ ReportsIn(waiting) \subseteq Told
  BY RecoveryIsAnswered
<1>p. DOMAIN toPage = {} BY <1>g DEF EInv, Anew
<1>o. \A x \in Scans : jobs[x] = "over" BY DEF EInv, Anew
\* Either nothing was said of the scan, or the last report decides.
<1>y. \/ Silent(waiting, recovery.scan)
      \/ \E m \in Reports : /\ IsLast(waiting, recovery.scan, m) /\ Hears(st', m)
                             /\ m.scan = recovery.scan /\ m \in Told
  <2>1. Silent(waiting, recovery.scan) \/ \E m \in Reports : IsLast(waiting, recovery.scan, m)
    BY <1>g, LastExists
  <2>2. \A m \in Reports : IsLast(waiting, recovery.scan, m) =>
          m.scan = recovery.scan /\ m \in ReportsIn(waiting)
    BY ReportIsNoRescan DEF IsLast, About, ReportsIn
  <2>. QED BY <1>g, <2>1, <2>2
<1>1. Typed' BY <1>i DEF EInv, Typed, Idle, ScanIds
<1>2. Lines' BY DEF EInv, Lines
<1>3. Budget' BY DEF EInv, Budget, Asked, Rescans
<1>4. Given' BY <1>i, <1>n, <1>t DEF EInv, Given
<1>5. Recovering' BY <1>i, <1>p, <1>t DEF Recovering
<1>6. Jobs' BY <1>o, <1>p DEF Jobs
<1>7. Cancelling'
  <2>1. toCore = <<>> BY <1>n DEF EInv, Cancelling
  <2>. QED BY <1>n, <1>o, <2>1 DEF Cancelling
<1>8. Anew' BY <1>n DEF Anew
<1>9. Torn' BY <1>n, <1>p DEF Torn
<1>10. Documents'
  <2>1. Taken' = Taken /\ Taken = recovery.scan BY <1>n DEF Taken
  <2>2. \A m \in Told : m.scan = recovery.scan /\ m.type = "findings" => loading \/ m.doc = doc
    BY <2>1 DEF EInv, Documents
  <2>3. st'.report # NoReport => /\ loading \/ st'.report.doc = doc
                                 /\ st'.report.scan = st'.scan
    <3>1. CASE Silent(waiting, recovery.scan) BY <3>1
    <3>2. ASSUME NEW m \in Reports, Hears(st', m), m.scan = recovery.scan, m \in Told,
                 st'.report # NoReport
          PROVE  (loading \/ st'.report.doc = doc) /\ st'.report.scan = st'.scan
      <4>1. m.type = "findings" /\ st'.report.doc = m.doc /\ st'.report.scan = m.scan
        BY <3>2 DEF Hears
      <4>. QED BY <2>2, <3>2, <4>1
    <3>. QED BY <1>y, <3>1, <3>2
  <2>. QED BY <1>t, <2>1, <2>3 DEF EInv, Documents
<1>11. Truths'
  <2>1. ASSUME NEW x \in Scans, Minds(x)' PROVE Truth(x)'
    <3>1. x = recovery.scan BY <1>n, <2>1 DEF Minds
    <3>2. Truth(x) BY <3>1 DEF EInv, Truths, Minds
    <3>3. SaysPart(x)' => SaysPart(x) BY <1>n, <1>y, <3>1 DEF SaysPart, Hears
    <3>4. SaysWhole(x) => SaysWhole(x)' BY <1>n, <3>1 DEF SaysWhole, Hears
    <3>5. OnlyRecalls(x) => OnlyRecalls(x)' BY <1>n, <3>1 DEF OnlyRecalls
    <3>. QED BY <3>2, <3>3, <3>4, <3>5 DEF Truth, Busy, Soon, Rescans
  <2>. QED BY <2>1 DEF Truths
<1>. QED BY <1>1, <1>2, <1>3, <1>4, <1>5, <1>6, <1>7, <1>8, <1>9, <1>10, <1>11 DEF EInv

LEMMA RecoveryEndsKeeps == ASSUME EInv, RecoveryEnds PROVE EInv'
<1>n. NULL \notin Scans /\ Undefined \notin Scans /\ NULL # Undefined BY ScansAreNumbers
<1>0. /\ recovery.state = "answered" /\ waiting' = <<>> /\ recovery' = Idle
      /\ scans' = scans /\ jobs' = jobs /\ tears' = tears /\ rescan' = rescan /\ toCore' = toCore
      /\ toPage' = toPage /\ fromPage' = fromPage
      /\ doc' = doc /\ loading' = loading /\ page' = page
      /\ devtoolsTabs' = devtoolsTabs /\ panelPorts' = panelPorts /\ devtools' = devtools
  BY DEF RecoveryEnds, coroutines, ports, tabVars, messages, counters
<1>1. PanelShows("result") \/ panel' = panel BY DEF RecoveryEnds
<1>2. DevTools' BY <1>0, <1>1, PanelShowsKeeps
<1>3. st' = Heard(Recovered, waiting) BY DEF RecoveryEnds
<1>4. /\ waiting \in Seq(Reports) /\ waiting # <<>> /\ st.known
      /\ \A i \in DOMAIN waiting : waiting[i] \in ReportsIn(waiting)
  BY <1>0, RecoveryIsAnswered
<1>5. st \in WorkerState /\ recovery.scan \in ScanIds BY DEF EInv, Typed
<1>6. CASE st.scan = Undefined => recovery.scan = NULL
  <2>1. Recovered = st BY <1>6 DEF Recovered
  <2>2. st' = Heard(st, waiting) BY <1>3, <2>1
  <2>3. Silent(waiting, st.scan) BY <1>4 DEF EInv, Recovering, Silent, About
  <2>4. waiting \in Seq(Reports) BY <1>4
  <2>5. st' = st BY ONLY <1>5, <2>2, <2>3, <2>4, HeardIs
  <2>. QED BY <1>0, <1>2, <1>6, <2>5, NothingIsRecovered
<1>7. CASE st.scan = Undefined /\ recovery.scan # NULL
  <2> DEFINE R == [st EXCEPT !.scan = recovery.scan, !.csInjected = TRUE]
  <2>1. Recovered = R BY <1>7 DEF Recovered
  <2>2. R \in WorkerState /\ R.scan = recovery.scan /\ R.known = st.known BY <1>5 DEF WorkerState
  <2> HIDE DEF R
  <2>3. st' = Heard(R, waiting) BY <1>3, <2>1
  <2>4. waiting \in Seq(Reports) /\ waiting # <<>> BY <1>4
  <2>5. /\ st' \in WorkerState /\ st'.scan = R.scan /\ st'.known = R.known
        /\ Silent(waiting, R.scan) => st' = R
        /\ \A m \in Reports : IsLast(waiting, R.scan, m) => Hears(st', m)
    BY ONLY <2>2, <2>3, <2>4, HeardIs
  <2>6. recovery.scan \in Scans BY <1>5, <1>7 DEF ScanIds
  <2>7. R.report = NoReport /\ ~R.scanning /\ ~R.error BY <1>5, <1>7 DEF EInv, Anew, WorkerState, R
  <2>. QED BY <1>0, <1>2, <1>4, <1>7, <2>2, <2>5, <2>6, <2>7, ScanIsRecovered
<1>. QED BY <1>6, <1>7

----------------------------------------------------------------------------
(***************************************************************************)
(* The invariant holds at the start and is kept by every step.             *)
(***************************************************************************)
LEMMA InitHasEInv == ASSUME Init PROVE EInv
<1>0. /\ st = Fresh /\ scans = 0 /\ recovery = Idle /\ waiting = <<>> /\ rescan = 0
      /\ jobs = [s \in Scans |-> "over"] /\ tears = [o \in Openings |-> "over"]
      /\ devtoolsTabs = FALSE /\ panelPorts = FALSE /\ toCore = <<>>
      /\ doc = 1 /\ loading = FALSE /\ page = NoScript /\ toPage = <<>> /\ fromPage = <<>>
      /\ devtools = [open |-> FALSE, opened |-> 0, linked |-> FALSE]
      /\ panel = [shows |-> "closed", linked |-> FALSE]
  BY DEF Init
<1>n. NULL \notin Scans /\ Undefined \notin Scans /\ NULL # Undefined BY ScansAreNumbers
<1>c. /\ MaxScans \in Nat /\ MaxOpens \in Nat /\ MaxDocs \in Nat /\ MaxDocs >= 1
  BY ExtensionScanAssumption
<1>f. /\ Fresh.scan = Undefined /\ ~Fresh.known /\ ~Fresh.scanning /\ ~Fresh.complete
      /\ Fresh.report = NoReport /\ ~Fresh.error
  BY DEF Fresh
<1>i. Idle.scan = NULL /\ Idle.state = "idle" BY DEF Idle
<1>e. DOMAIN toPage = {} /\ DOMAIN fromPage = {} /\ DOMAIN waiting = {} /\ DOMAIN toCore = {}
  BY <1>0
<1>p. /\ page.scan = NULL /\ page.run = "idle" /\ page.timer = FALSE /\ page \in Scripts
  BY <1>0 DEF NoScript, Scripts, Runs, ScanIds
<1>t. Told = {} /\ ReportsIn(waiting) = {} BY <1>0, ReportsInNone DEF Told
<1>1. Typed
  <2>1. jobs \in [Scans -> JobStates] BY <1>0 DEF JobStates
  <2>2. tears \in [Openings -> TearStates] BY <1>0 DEF TearStates
  <2>3. recovery \in [state : {"idle", "asking", "answered"}, scan : ScanIds]
    BY <1>0 DEF Idle, ScanIds
  <2>4. st \in WorkerState BY <1>0, FreshIsState
  <2>5. scans \in 0..MaxScans /\ rescan \in Nat /\ doc \in 1..MaxDocs BY <1>0, <1>c
  <2>. QED BY <1>0, <1>p, <2>1, <2>2, <2>3, <2>4, <2>5 DEF Typed
<1>2. Lines BY <1>0 DEF Lines
<1>3. DevTools
  <2>1. 0 \in 0..MaxOpens BY <1>c
  <2>2. devtools \in [open : BOOLEAN, opened : 0..MaxOpens, linked : BOOLEAN] BY <1>0, <2>1
  <2>3. panel \in [shows : {"closed", "result", "scanning"}, linked : BOOLEAN] BY <1>0
  <2>4. ~devtools.open BY <1>0
  <2>. QED BY <1>0, <2>2, <2>3, <2>4 DEF DevTools
<1>4. Budget
  <2>1. Rescans = {} BY <1>e DEF Rescans
  <2>2. Cardinality(Rescans) = 0 BY <2>1, FS_EmptySet
  <2>3. One(loading) = 0 /\ One(page.timer) = 0 BY <1>0, <1>p DEF One
  <2>. QED BY <1>0, <1>c, <2>2, <2>3 DEF Budget, Asked
<1>5. Given BY <1>0, <1>e, <1>f, <1>i, <1>n, <1>p, <1>t DEF Given
<1>6. Recovering BY <1>0, <1>e, <1>f, <1>i, <1>t DEF Recovering
<1>7. Jobs BY <1>0, <1>e DEF Jobs
<1>8. Cancelling BY <1>0, <1>f, <1>n DEF Cancelling
<1>9. Anew BY <1>0, <1>e, <1>f, <1>i, <1>p, <1>t DEF Anew
<1>10. Torn BY <1>0, <1>e, <1>f DEF Torn
<1>11. Documents BY <1>0, <1>f, <1>t DEF Documents
<1>12. Truths BY <1>0, <1>f, <1>i, <1>n, <1>p DEF Truths, Minds
<1>. QED BY <1>1, <1>2, <1>3, <1>4, <1>5, <1>6, <1>7, <1>8, <1>9, <1>10, <1>11, <1>12 DEF EInv

LEMMA ProgressKeeps == ASSUME EInv, Progress PROVE EInv'
<1>1. ASSUME NEW s \in Scans, Job(s) PROVE EInv'
  BY <1>1, ScanCancelsKeeps, ScanInjectsKeeps, ScanInjectedKeeps, ScanStartsKeeps, ScanFailsKeeps DEF Job
<1>2. ASSUME NEW o \in Openings, Tear(o) PROVE EInv'
  BY <1>2, TearCancelsKeeps, TearEndsKeeps DEF Tear
<1>3. CASE ReceiveReport BY <1>3, ReceiveReportKeeps
<1>4. CASE ReceiveRescan BY <1>4, ReceiveRescanKeeps
<1>5. CASE RecoveryEnds BY <1>5, RecoveryEndsKeeps
<1>6. ASSUME NEW s \in Scans, RuleCoreReady(s) PROVE EInv' BY <1>6, RuleCoreReadyKeeps
<1>7. CASE CancelLands BY <1>7, CancelLandsKeeps
<1>8. CASE RescanTimer BY <1>8, RescanTimerKeeps
<1>9. CASE PageReceives BY <1>9, PageReceivesKeeps
<1>10. CASE SpaTimer BY <1>10, SpaTimerKeeps
<1>11. CASE PageRuns BY <1>11, PageRunsKeeps
<1>. QED BY <1>1, <1>2, <1>3, <1>4, <1>5, <1>6, <1>7, <1>8, <1>9, <1>10, <1>11 DEF Progress

LEMMA NextKeeps == ASSUME EInv, [Next]_vars PROVE EInv'
<1>1. CASE Progress BY <1>1, ProgressKeeps
<1>2. CASE UserScans BY <1>2, UserScansKeeps
<1>3. CASE DevToolsConnects BY <1>3, DevToolsConnectsKeeps
<1>4. CASE PanelConnects BY <1>4, PanelConnectsKeeps
<1>5. CASE PanelScans BY <1>5, PanelScansKeeps
<1>6. CASE DevToolsCloses BY <1>6, DevToolsClosesKeeps
<1>7. CASE SpaNavigates BY <1>7, SpaNavigatesKeeps
<1>8. CASE Commit BY <1>8, CommitKeeps
<1>9. CASE Restart BY <1>9, RestartKeeps
<1>10. CASE UNCHANGED vars BY <1>10, StutterKeeps
<1>11. CASE Completed BY <1>11, CompletedKeeps
<1>12. ASSUME NEW some \in BOOLEAN, CoreAnswers(some) PROVE EInv' BY <1>12, CoreAnswersKeeps
<1>13. CASE CandidateSeen BY <1>13, CandidateSeenKeeps
<1>. QED BY <1>1, <1>2, <1>3, <1>4, <1>5, <1>6, <1>7, <1>8, <1>9, <1>10, <1>11, <1>12, <1>13 DEF Next

THEOREM EInvHolds == Spec => []EInv
<1>1. Init => EInv BY InitHasEInv
<1>2. EInv /\ [Next]_vars => EInv' BY NextKeeps
<1>. QED BY <1>1, <1>2, PTL DEF Spec

----------------------------------------------------------------------------
(***************************************************************************)
(* Where the prepare-rule-core messages are.                               *)
(***************************************************************************)
PreparesTyped == prepare \in [Scans -> Preparations]

LEMMA PreparesKeep ==
  ASSUME PreparesTyped, NEW current, NEW q, Prepares(current, q)
  PROVE  PreparesTyped'
BY DEF PreparesTyped, Prepares, Preparations

LEMMA PreparesHaveType == Spec => []PreparesTyped
<1>1. Init => PreparesTyped BY DEF Init, PreparesTyped, Preparations
<1>2. ASSUME PreparesTyped, [Next]_vars PROVE PreparesTyped'
  <2>0. ASSUME prepare' = prepare PROVE PreparesTyped' BY <1>2, <2>0 DEF PreparesTyped
  <2>1. ASSUME NEW s \in Scans, RuleCoreReady(s) PROVE PreparesTyped'
    BY <1>2, <2>1 DEF RuleCoreReady, PreparesTyped, Preparations
  <2>2. CASE ReceiveReport BY <1>2, <2>0, <2>2, PreparesKeep DEF ReceiveReport, Recover
  <2>3. CASE RecoveryEnds BY <1>2, <2>3, PreparesKeep DEF RecoveryEnds
  <2>4. ASSUME NEW s \in Scans, Job(s) PROVE PreparesTyped'
    BY <2>0, <2>4 DEF Job, ScanCancels, ScanInjects, ScanInjected, ScanStarts, ScanFails, recoveryVars
  <2>5. ASSUME NEW o \in Openings, Tear(o) PROVE PreparesTyped'
    BY <2>0, <2>5 DEF Tear, TearCancels, TearEnds, recoveryVars
  <2>6. CASE ReceiveRescan \/ CancelLands \/ RescanTimer \/ PageReceives \/ PageRuns \/ SpaTimer
    BY <2>0, <2>6 DEF ReceiveRescan, CancelLands, RescanTimer, PageReceives, PageRuns, SpaTimer,
                      recoveryVars, workerVars
  <2>7. CASE Completed \/ CandidateSeen \/ UserScans \/ DevToolsConnects \/ PanelConnects \/ PanelScans
    BY <2>0, <2>7 DEF Completed, CandidateSeen, UserScans, DevToolsConnects, PanelConnects, PanelScans,
                      recoveryVars, workerVars
  <2>8. CASE DevToolsCloses \/ SpaNavigates \/ Commit \/ Restart \/ UNCHANGED vars
    BY <2>0, <2>8 DEF DevToolsCloses, SpaNavigates, Commit, Restart, vars, recoveryVars, workerVars
  <2>9. ASSUME NEW some \in BOOLEAN, CoreAnswers(some) PROVE PreparesTyped'
    BY <2>0, <2>9 DEF CoreAnswers, recoveryVars, workerVars
  <2>. QED BY <1>2, <2>1, <2>2, <2>3, <2>4, <2>5, <2>6, <2>7, <2>8, <2>9 DEF Next, Progress
<1>. QED BY <1>1, <1>2, PTL DEF Spec

----------------------------------------------------------------------------
(***************************************************************************)
(* What follows from it.                                                   *)
(***************************************************************************)
\* Every variable of the tab keeps its type; reports wait exactly while the
\* page is asked for its scan (acceptScanMessage), a document without a script has
\* nothing to keep, and the worker posts to no panel that has gone.
THEOREM ScanTypes == Spec => []TypeOK
<1>1. EInv /\ PreparesTyped => TypeOK
  <2> SUFFICES ASSUME EInv, PreparesTyped PROVE TypeOK OBVIOUS
  <2>1. rescan \in 0..MaxScans
    <3>1. /\ scans \in Nat /\ rescan \in Nat /\ MaxScans \in Nat /\ Cardinality(Rescans) \in Nat
          /\ One(loading) \in {0, 1} /\ One(page.timer) \in {0, 1}
          /\ scans + rescan + One(loading) + One(page.timer) + Cardinality(Rescans) <= MaxScans
      BY BudgetIsInt
    <3>. QED BY <3>1
  <2>. QED BY <2>1 DEF EInv, Typed, DevTools, Recovering, PreparesTyped, Preparations, TypeOK, WorkerState, JobStates, TearStates, Scripts
<1>. QED BY <1>1, EInvHolds, PreparesHaveType, PTL

\* The report the worker keeps for the tab is of the document in the tab, or
\* of one that a navigation is about to clear, and of the tab's current scan,
\* or a tear-down is clearing it: acceptScanMessage compares scan IDs only.
THEOREM ScanReportsThisPage == Spec => []ReportOfThisPage
<1>1. EInv => ReportOfThisPage
  BY DEF EInv, Documents, Torn, ReportOfThisPage
<1>. QED BY <1>1, EInvHolds, PTL

\* A scan that some report on its way is about is under way.
LEMMA NotSilent ==
  ASSUME NEW s, ~Silent(fromPage, s) PROVE Underway(s)
BY DEF Silent, About, Underway

\* A tab whose state says that it is being scanned has somebody who scans it
\* or a message that will say otherwise.
THEOREM ScanningIsTold == Spec => []ScanningIsTrue
<1>1. EInv => ScanningIsTrue
  <2> SUFFICES ASSUME EInv, st.scanning PROVE Underway(st.scan) \/ NextIsComing
    BY DEF ScanningIsTrue
  <2>1. st.scan # Undefined BY DEF EInv, Anew
  <2>2. CASE st.scan = NULL BY <2>2 DEF EInv, Torn, NextIsComing
  <2>3. CASE st.scan # NULL
    <3>1. st.scan \in Scans BY <2>1, <2>3 DEF EInv, Typed, WorkerState, ScanIds
    <3>2. Truth(st.scan) BY <3>1 DEF EInv, Truths, Minds
    <3>3. CASE ~Silent(fromPage, st.scan) BY <3>3, NotSilent
    <3>4. CASE Silent(fromPage, st.scan)
      <4>1. SaysPart(st.scan) BY <2>1, <3>4 DEF SaysPart
      <4>2. Busy(st.scan) \/ Soon BY <3>2, <4>1 DEF Truth
      <4>3. Busy(st.scan) => Underway(st.scan) BY <3>1 DEF Busy, Underway
      <4>4. Soon => NextIsComing BY DEF Soon, NextIsComing, Rescans
      <4>. QED BY <4>2, <4>3, <4>4
    <3>. QED BY <3>3, <3>4
  <2>. QED BY <2>2, <2>3
<1>. QED BY <1>1, EInvHolds, PTL

\* A tear-down that ends late never takes a newer scan away from the page or
\* from the worker (tearDownTab reads the scan ID again after each await).
THEOREM TearDownSparesScans == Spec => []TearDownSparesNewScans
<1>1. EInv => TearDownSparesNewScans
  <2> SUFFICES ASSUME EInv PROVE TearDownSparesNewScans OBVIOUS
  <2>1. \A s \in Scans : st.scan = s /\ jobs[s] # "over" => st.scanning
    <3>1. \A s \in Scans : jobs[s] # "over" => Job1(s) BY DEF EInv, Jobs
    <3>. QED BY <3>1 DEF Job1
  <2>. QED BY <2>1 DEF EInv, Torn, TearDownSparesNewScans
<1>. QED BY <1>1, EInvHolds, PTL

\* What the page has finished, the worker knows as finished when it has heard
\* all that was sent, also when it lost its memory in between; one that only
\* asked for the scan's ID since, for a candidate (prepare-rule-core goes
\* through acceptScanMessage), holds no part of the report and no error.
THEOREM CompletionReachesWorker == Spec => []CompletionIsHeard
<1>1. EInv => CompletionIsHeard
  <2> SUFFICES ASSUME EInv, page.run \in Finished, st.scan = page.scan, fromPage = <<>>, waiting = <<>>
               PROVE  st.complete \/ (~page.told /\ st.report = NoReport /\ ~st.scanning /\ ~st.error)
    BY DEF CompletionIsHeard
  <2>1. page.scan \in ScanIds /\ page.scan # NULL BY DEF EInv, Typed, Scripts, Finished
  <2>2. st.scan \in Scans /\ st.scan # Undefined BY <2>1, ScansAreNumbers DEF ScanIds
  <2>3. SaysWhole(st.scan) \/ OnlyRecalls(st.scan) BY <2>2 DEF EInv, Truths, Minds, Truth
  <2>4. \A m : ~IsLast(fromPage, st.scan, m) BY DEF IsLast
  <2>. QED BY <2>2, <2>3, <2>4 DEF SaysWhole, OnlyRecalls
<1>. QED BY <1>1, EInvHolds, PTL
=============================================================================
