------------------------- MODULE AgentTargetProofs -------------------------
(***************************************************************************)
(* Proofs about agent targets, for any set of pages and any number of      *)
(* requests, connections and remembered answers.                           *)
(***************************************************************************)
EXTENDS AgentTarget, FiniteSetTheorems, TLAPS

\* A request that is held, or not made yet, is not answered; what the helper
\* remembers of an answer is what was answered.
AnswersKept ==
  /\ \A t \in Targets : t \notin asked \/ t \in pending => verdict[t] = NULL
  /\ \A t \in Targets : resolved[t].no # 0 =>
       verdict[t] # NULL /\ verdict[t].session = resolved[t].session

\* The claims k count the words of connected pages only, and their latest.
Counts(k, P, c, w) ==
  /\ \A t \in P : Reporters(k[t].reports) \subseteq Connected(c) \cap w[t]
  /\ \A t \in Targets \ P : Reporters(k[t].reports) = {}

WordsCounted == Counts(claim, pending, conns, word)

Inv == TypeOK /\ AnswersKept /\ WordsCounted /\ SessionsAreTold /\ NoStuckRollCall

----------------------------------------------------------------------------
\* Sets of pages and of requests are finite and have a size.
LEMMA Sizes ==
  /\ \A S \in SUBSET Pages : IsFiniteSet(S) /\ Cardinality(S) \in Nat
  /\ \A S \in SUBSET Targets : IsFiniteSet(S) /\ Cardinality(S) \in Nat
<1>1. IsFiniteSet(Pages) /\ IsFiniteSet(Targets)
  <2>1. 1 \in Int /\ MaxTargets \in Int
    BY AgentTargetAssumption
  <2> QED
    BY <2>1, FS_Interval, AgentTargetAssumption DEF Targets
<1> QED
  BY <1>1, FS_Subset, FS_CardinalityType

\* A verdict made of the right parts is a verdict, and no absent one.
LEMMA VerdictType ==
  ASSUME NEW by \in {"page", "roll_call", "timeout", "stop"},
         NEW w \in {"ok", "failed", "none"} \cup Reasons, NEW s \in Session \cup {NULL}
  PROVE  /\ Verdict(by, w, s) \in Verdicts /\ Verdict(by, w, s) # NULL
         /\ Verdict(by, w, s).by = by /\ Verdict(by, w, s).session = s
BY AgentTargetAssumption DEF Verdict, Verdicts

\* What the reports of a roll call, or of a timeout, add up to.
LEMMA DeclinedType ==
  ASSUME NEW r, NEW by \in {"roll_call", "timeout"}
  PROVE  /\ Declined(r, by) \in Verdicts /\ Declined(r, by) # NULL
         /\ Declined(r, by).by = by /\ Declined(r, by).session = NULL
BY VerdictType DEF Declined, Reasons

LEMMA UnclaimedType == Unclaimed \in Claims /\ Reporters(Unclaimed.reports) = {}
BY DEF Unclaimed, Claims, Reporters

\* Answering requests that are held keeps the types, and every older answer.
LEMMA ResolveKeeps ==
  ASSUME TypeOK, AnswersKept,
         NEW k \in [Targets -> Claims], NEW T \in SUBSET pending, NEW v \in [T -> Verdicts],
         Resolve(k, T, v), asked' = asked
  PROVE  /\ pending' \subseteq asked'
         /\ claim' \in [Targets -> Claims]
         /\ resolved' \in [Targets -> [no : Nat, session : Session \cup {NULL}]]
         /\ verdict' \in [Targets -> Verdicts \cup {NULL}]
         /\ AnswersKept'
         /\ \A t \in Targets : verdict'[t] # verdict[t] =>
              t \in T /\ verdict[t] = NULL /\ verdict'[t] = v[t]
         /\ \A t \in T : verdict'[t] = v[t] /\ verdict'[t] # NULL
<1>1. T \subseteq Targets /\ pending' \subseteq asked' /\ pending' = pending \ T
  BY DEF Resolve, TypeOK
<1>2. claim' \in [Targets -> Claims]
  BY UnclaimedType DEF Resolve
<1>3. \A t \in T : v[t] \in Verdicts /\ v[t] # NULL /\ v[t].session \in Session \cup {NULL}
  BY AgentTargetAssumption DEF Verdicts
<1>4. resolved' \in [Targets -> [no : Nat, session : Session \cup {NULL}]]
  <2>1. Answered \in Nat
    BY Sizes DEF Answered
  <2>2. \A t \in Targets : Cardinality({u \in T : u <= t}) \in Nat
    BY Sizes, <1>1
  <2>3. \A t \in Targets : Answered + Cardinality({u \in T : u <= t}) \in Nat
    BY <2>1, <2>2
  <2> QED
    BY <1>1, <1>3, <2>3 DEF Resolve, TypeOK
<1>5. verdict' = [t \in Targets |-> IF t \in T THEN v[t] ELSE verdict[t]]
  BY DEF Resolve
<1>6. verdict' \in [Targets -> Verdicts \cup {NULL}]
  BY <1>3, <1>5 DEF TypeOK
<1>7. AnswersKept'
  <2>1. ASSUME NEW t \in Targets, t \notin asked' \/ t \in pending'
        PROVE  verdict'[t] = NULL
    <3>1. t \notin T /\ (t \notin asked \/ t \in pending)
      BY <1>1, <2>1 DEF TypeOK
    <3> QED
      BY <3>1, <1>5 DEF AnswersKept
  <2>2. ASSUME NEW t \in Targets, resolved'[t].no # 0
        PROVE  verdict'[t] # NULL /\ verdict'[t].session = resolved'[t].session
    <3>1. CASE t \in T
      BY <3>1, <1>3, <1>5 DEF Resolve
    <3>2. CASE t \notin T
      BY <3>2, <2>2, <1>5 DEF Resolve, AnswersKept
    <3> QED
      BY <3>1, <3>2
  <2> QED
    BY <2>1, <2>2 DEF AnswersKept
<1>8. \A t \in Targets : verdict'[t] # verdict[t] =>
        t \in T /\ verdict[t] = NULL /\ verdict'[t] = v[t]
  BY <1>1, <1>5 DEF AnswersKept, TypeOK
<1>9. \A t \in T : verdict'[t] = v[t] /\ verdict'[t] # NULL
  BY <1>1, <1>3, <1>5
<1> QED
  BY <1>1, <1>2, <1>4, <1>6, <1>7, <1>8, <1>9

\* An answer that does not change keeps the sessions told of.
LEMMA ToldStay ==
  ASSUME TypeOK, SessionsAreTold, opened' = opened,
         \A t \in Targets : verdict'[t] # verdict[t] => verdict[t] = NULL
  PROVE  SessionsAreTold'
BY DEF SessionsAreTold, TypeOK

\* A roll call that the connected pages complete is complete by its count.
LEMMA EnoughReports ==
  ASSUME NEW k \in Claims, NEW c,
         k.owner = NULL, Reporters(k.reports) # {}, Connected(c) \subseteq Reporters(k.reports)
  PROVE  Complete(k, c) \/ (k.grace = "open" /\ \A p \in Pages : k.reports[p] # "busy")
<1>1. Reporters(k.reports) \in SUBSET Pages /\ Connected(c) \in SUBSET Pages
  BY DEF Reporters, Connected
<1>2. Cardinality(Connected(c)) <= Cardinality(Reporters(k.reports))
  BY <1>1, Sizes, FS_Subset
<1>3. /\ Cardinality(Connected(c)) \in Nat
      /\ Cardinality(Reporters(k.reports)) \in Nat
  BY <1>1, Sizes
<1>4. Cardinality(Reporters(k.reports)) >= Cardinality(Connected(c))
  BY <1>2, <1>3
<1> QED
  BY <1>4 DEF Complete

\* As many words as connected pages, and only theirs, are everybody's.
LEMMA EverybodySpoke ==
  ASSUME NEW k \in Claims, NEW c, Complete(k, c), Reporters(k.reports) \subseteq Connected(c)
  PROVE  Reporters(k.reports) = Connected(c)
<1>1. Reporters(k.reports) \in SUBSET Connected(c) /\ Connected(c) \in SUBSET Pages
  BY DEF Reporters, Connected
<1>2. IsFiniteSet(Connected(c)) /\ Cardinality(Connected(c)) \in Nat
  BY <1>1, Sizes
<1>3. Cardinality(Reporters(k.reports)) \in Nat
  BY <1>1, Sizes
<1>4. Cardinality(Reporters(k.reports)) <= Cardinality(Connected(c))
  BY <1>1, <1>2, FS_Subset
<1>5. Cardinality(Reporters(k.reports)) >= Cardinality(Connected(c))
  BY DEF Complete
<1>6. Cardinality(Reporters(k.reports)) = Cardinality(Connected(c))
  BY <1>2, <1>3, <1>4, <1>5
<1> QED
  BY <1>1, <1>2, <1>6, FS_Subset

\* Every step that judges the roll calls: those that end have heard every
\* connected page, and those that go on have not, or wait for a timer. What a
\* step does not judge it does not touch.
Rest(k, c, S) == S = Targets \/ (c = conns /\ \A t \in Targets \ S : k[t] = claim[t])

LEMMA JudgeKeeps ==
  ASSUME Inv, NEW k \in [Targets -> Claims], NEW c, c = conns', NEW S, Rest(k, c, S),
         Counts(k, pending, conns', word'), Judge(k, c, S), asked' = asked, opened' = opened
  PROVE  /\ pending' \subseteq asked'
         /\ claim' \in [Targets -> Claims]
         /\ resolved' \in [Targets -> [no : Nat, session : Session \cup {NULL}]]
         /\ verdict' \in [Targets -> Verdicts \cup {NULL}]
         /\ AnswersKept' /\ WordsCounted' /\ SessionsAreTold' /\ NoStuckRollCall'
         /\ \A t \in Targets : verdict'[t] # verdict[t] =>
              /\ t \in pending /\ verdict[t] = NULL
              /\ Connected(conns') \subseteq word'[t]
<1> DEFINE T == {t \in S \cap pending : Complete(k[t], c)}
           v == [t \in T |-> Declined(k[t].reports, "roll_call")]
<1>1. /\ T \in SUBSET pending /\ T \subseteq Targets /\ pending \subseteq Targets
      /\ v \in [T -> Verdicts] /\ Resolve(k, T, v)
  BY DeclinedType DEF Judge, Inv, TypeOK
<1> HIDE DEF v
<1>2. /\ pending' \subseteq asked'
      /\ claim' \in [Targets -> Claims]
      /\ resolved' \in [Targets -> [no : Nat, session : Session \cup {NULL}]]
      /\ verdict' \in [Targets -> Verdicts \cup {NULL}]
      /\ AnswersKept'
      /\ \A t \in Targets : verdict'[t] # verdict[t] => t \in T /\ verdict[t] = NULL
  BY <1>1, ResolveKeeps DEF Inv
<1>3. /\ pending' = pending \ T
      /\ \A t \in T : claim'[t] = Unclaimed
      /\ \A t \in Targets \ T : claim'[t] = k[t]
  BY <1>1 DEF Resolve
<1>4. WordsCounted'
  BY <1>1, <1>3, UnclaimedType DEF WordsCounted, Counts
<1>5. SessionsAreTold'
  BY <1>2, ToldStay DEF Inv
<1>6. NoStuckRollCall'
  <2> SUFFICES ASSUME NEW t \in pending', claim'[t].owner = NULL, Reporters(claim'[t].reports) # {},
                      Connected(conns') \subseteq Reporters(claim'[t].reports)
               PROVE  /\ claim'[t].grace \in {"open", "over"}
                      /\ \A p \in Pages : claim'[t].reports[p] # "busy"
    BY DEF NoStuckRollCall
  <2>1. t \in Targets /\ t \in pending /\ t \notin T /\ claim'[t] = k[t]
    BY <1>1, <1>3
  <2>2. k[t] \in Claims
    BY <2>1
  <2>3. CASE t \in S
    <3>1. ~ Complete(k[t], c)
      BY <2>1, <2>3
    <3> QED
      BY <2>1, <2>2, <3>1, EnoughReports
  <2>4. CASE t \notin S
    <3>1. conns' = conns /\ k[t] = claim[t]
      BY <2>1, <2>4 DEF Rest
    <3> QED
      BY <2>1, <3>1 DEF Inv, NoStuckRollCall
  <2> QED
    BY <2>3, <2>4
<1>7. ASSUME NEW t \in T
      PROVE  Connected(conns') \subseteq word'[t]
  <2>1. k[t] \in Claims /\ Complete(k[t], conns')
    BY <1>1
  <2>2. Reporters(k[t].reports) \subseteq Connected(conns') \cap word'[t]
    BY <1>1 DEF Counts
  <2> QED
    BY <2>1, <2>2, EverybodySpoke
<1> QED
  BY <1>2, <1>4, <1>5, <1>6, <1>7

\* Every step that answers one request, by a page or by its timeout.
LEMMA ResolveOneKeeps ==
  ASSUME Inv, NEW t \in pending, NEW v \in Verdicts, ResolveOne(t, v),
         asked' = asked, conns' = conns, word' = word
  PROVE  /\ pending' \subseteq asked'
         /\ claim' \in [Targets -> Claims]
         /\ resolved' \in [Targets -> [no : Nat, session : Session \cup {NULL}]]
         /\ verdict' \in [Targets -> Verdicts \cup {NULL}]
         /\ AnswersKept' /\ WordsCounted' /\ NoStuckRollCall'
         /\ verdict[t] = NULL /\ verdict'[t] = v /\ v # NULL
         /\ \A u \in Targets : u # t => verdict'[u] = verdict[u]
<1> DEFINE T == {t}
           w == [u \in T |-> v]
<1>1. /\ T \in SUBSET pending /\ T \subseteq Targets /\ pending \subseteq Targets
      /\ w \in [T -> Verdicts] /\ Resolve(claim, T, w) /\ claim \in [Targets -> Claims]
  BY DEF ResolveOne, Inv, TypeOK
<1> HIDE DEF w
<1>2. /\ pending' \subseteq asked'
      /\ claim' \in [Targets -> Claims]
      /\ resolved' \in [Targets -> [no : Nat, session : Session \cup {NULL}]]
      /\ verdict' \in [Targets -> Verdicts \cup {NULL}]
      /\ AnswersKept'
      /\ \A u \in Targets : verdict'[u] # verdict[u] => u \in T
      /\ \A u \in T : verdict'[u] = w[u] /\ verdict'[u] # NULL
  BY <1>1, ResolveKeeps DEF Inv
<1>3. /\ pending' = pending \ T
      /\ \A u \in T : claim'[u] = Unclaimed
      /\ \A u \in Targets \ T : claim'[u] = claim[u]
  BY <1>1 DEF Resolve
<1>4. WordsCounted'
  BY <1>1, <1>3, UnclaimedType DEF WordsCounted, Counts, Inv
<1>5. NoStuckRollCall'
  BY <1>1, <1>3 DEF NoStuckRollCall, Inv
<1>6. verdict[t] = NULL
  BY <1>1 DEF Inv, AnswersKept
<1>7. verdict'[t] = v /\ v # NULL
  BY <1>2 DEF w
<1> QED
  BY <1>2, <1>4, <1>5, <1>6, <1>7

----------------------------------------------------------------------------
LEMMA InitInv == Init => Inv
<1> SUFFICES ASSUME Init PROVE Inv
  OBVIOUS
<1>1. TypeOK
  BY UnclaimedType DEF Init, TypeOK
<1>2. AnswersKept /\ SessionsAreTold /\ NoStuckRollCall
  BY DEF Init, AnswersKept, SessionsAreTold, NoStuckRollCall
<1>3. WordsCounted
  BY UnclaimedType DEF Init, WordsCounted, Counts
<1> QED
  BY <1>1, <1>2, <1>3 DEF Inv

\* What a page leaves behind when it goes, or hands its lease back.
LEMMA WithoutType ==
  ASSUME NEW k \in Claims, NEW p \in Pages
  PROVE  /\ Without(k, p) \in Claims
         /\ Reporters(Without(k, p).reports) = Reporters(k.reports) \ {p}
<1>1. Without(k, p) \in Claims
  BY DEF Without, Claims
<1>2. Without(k, p).reports = [k.reports EXCEPT ![p] = NULL]
  BY DEF Without, Claims
<1>3. k.reports \in [Pages -> Reasons \cup {NULL}]
  BY DEF Claims
<1>4. Reporters([k.reports EXCEPT ![p] = NULL]) = Reporters(k.reports) \ {p}
  BY <1>3 DEF Reporters
<1> QED
  BY <1>1, <1>2, <1>4

\* The promise, as one step of HeldRequest or none.
Promised == Held!Next \/ UNCHANGED Held!vars

\* No roll call speaks for a connected page that has not declined.
Heeded ==
  \A t \in Targets : verdict[t] = NULL /\ verdict'[t] # NULL /\ verdict'[t].by = "roll_call"
    => Connected(conns)' \subseteq word'[t]

\* Answers alone keep the promise.
LEMMA AnswerPromised ==
  ASSUME TypeOK, verdict' \in [Targets -> Verdicts \cup {NULL}], asked' = asked, opened' = opened,
         \A t \in Targets : verdict'[t] # verdict[t] => t \in asked /\ verdict[t] = NULL
  PROVE  Promised
BY DEF Promised, TypeOK, Held!Next, Held!Answer, Held!AnswerOnly

\* A step that judges the roll calls keeps all there is to keep.
LEMMA JudgeStep ==
  ASSUME Inv, NEW k \in [Targets -> Claims], NEW c, c = conns', c \in [Pages -> Nat],
         NEW S, Rest(k, c, S), Counts(k, pending, conns', word'), Judge(k, c, S), word' \in [Targets -> SUBSET Pages],
         asked' = asked, opened' = opened, stopped' = stopped, heard' = heard
  PROVE  Inv' /\ Promised /\ Heeded
<1>1. /\ pending' \subseteq asked'
      /\ claim' \in [Targets -> Claims]
      /\ resolved' \in [Targets -> [no : Nat, session : Session \cup {NULL}]]
      /\ verdict' \in [Targets -> Verdicts \cup {NULL}]
      /\ AnswersKept' /\ WordsCounted' /\ SessionsAreTold' /\ NoStuckRollCall'
      /\ \A t \in Targets : verdict'[t] # verdict[t] =>
           /\ t \in pending /\ verdict[t] = NULL
           /\ Connected(conns') \subseteq word'[t]
  BY JudgeKeeps
<1>2. TypeOK'
  BY <1>1 DEF TypeOK, Inv
<1>3. Promised
  <2>1. TypeOK /\ pending \subseteq asked
    BY DEF Inv, TypeOK
  <2> QED
    BY <1>1, <2>1, AnswerPromised
<1>4. Heeded
  BY <1>1 DEF Heeded
<1> QED
  BY <1>1, <1>2, <1>3, <1>4 DEF Inv

\* A step that changes one claim and answers nothing.
LEMMA ClaimStep ==
  ASSUME Inv, NEW t \in pending, NEW k \in Claims, claim' = [claim EXCEPT ![t] = k],
         word' \in [Targets -> SUBSET Pages], \A u \in Targets : u # t => word'[u] = word[u],
         Reporters(k.reports) \subseteq Reporters(claim[t].reports) \cap word'[t],
         \/ k.owner # NULL
         \/ /\ k.owner = claim[t].owner /\ k.reports = claim[t].reports
            /\ claim[t].grace \in {"open", "over"} => k.grace \in {"open", "over"},
         UNCHANGED <<heard, conns, asked, pending, resolved, stopped, verdict, opened>>
  PROVE  Inv' /\ Promised /\ Heeded
<1>1. t \in Targets /\ claim \in [Targets -> Claims] /\ pending \subseteq Targets
  BY DEF Inv, TypeOK
<1>2. claim' \in [Targets -> Claims] /\ claim'[t] = k /\ \A u \in Targets : u # t => claim'[u] = claim[u]
  BY <1>1
<1>3. TypeOK'
  BY <1>2 DEF Inv, TypeOK
<1>4. AnswersKept' /\ SessionsAreTold'
  BY DEF Inv, AnswersKept, SessionsAreTold
<1>5. WordsCounted'
  <2>1. \A u \in pending : Reporters(claim'[u].reports) \subseteq Connected(conns) \cap word'[u]
    BY <1>1, <1>2 DEF Inv, WordsCounted, Counts
  <2>2. \A u \in Targets \ pending : Reporters(claim'[u].reports) = {}
    BY <1>1, <1>2 DEF Inv, WordsCounted, Counts
  <2> QED
    BY <2>1, <2>2 DEF WordsCounted, Counts
<1>6. NoStuckRollCall'
  BY <1>1, <1>2 DEF Inv, NoStuckRollCall
<1>7. Promised /\ Heeded
  BY DEF Promised, Heeded, Held!vars
<1> QED
  BY <1>3, <1>4, <1>5, <1>6, <1>7 DEF Inv

----------------------------------------------------------------------------
LEMMA ConnectKeeps ==
  ASSUME Inv, NEW p \in Pages, Connect(p)
  PROVE  Inv' /\ Promised /\ Heeded
<1>1. TypeOK'
  BY DEF Inv, TypeOK, Connect
<1>2. Connected(conns) \subseteq Connected(conns')
  BY DEF Inv, TypeOK, Connect, Connected
<1>3. AnswersKept' /\ SessionsAreTold'
  BY DEF Inv, AnswersKept, SessionsAreTold, Connect
<1>4. WordsCounted' /\ NoStuckRollCall'
  BY <1>2 DEF Inv, WordsCounted, Counts, NoStuckRollCall, Connect
<1>5. Promised /\ Heeded
  BY DEF Connect, Promised, Heeded, Held!vars
<1> QED
  BY <1>1, <1>3, <1>4, <1>5 DEF Inv

LEMMA DisconnectKeeps ==
  ASSUME Inv, NEW p \in Pages, Disconnect(p)
  PROVE  Inv' /\ Promised /\ Heeded
<1> DEFINE k == IF conns[p] = 1 THEN [t \in Targets |-> Without(claim[t], p)] ELSE claim
<1>1. claim \in [Targets -> Claims] /\ pending \subseteq Targets
  BY DEF Inv, TypeOK
<1>2. k \in [Targets -> Claims]
  BY <1>1, WithoutType
<1>3. /\ conns' \in [Pages -> Nat]
      /\ conns[p] = 1 => Connected(conns') = Connected(conns) \ {p}
      /\ conns[p] # 1 => Connected(conns') = Connected(conns)
  BY DEF Inv, TypeOK, Disconnect, Connected
<1>4. word' \in [Targets -> SUBSET Pages]
  BY DEF Inv, TypeOK, Disconnect
<1>5. Counts(k, pending, conns', word')
  <2>1. CASE conns[p] = 1
    <3>1. \A t \in Targets : /\ Reporters(k[t].reports) = Reporters(claim[t].reports) \ {p}
                            /\ word'[t] = word[t] \ {p}
      BY <1>1, <2>1, WithoutType DEF Disconnect
    <3> QED
      BY <1>1, <1>3, <2>1, <3>1 DEF Inv, WordsCounted, Counts
  <2>2. CASE conns[p] # 1
    BY <1>3, <2>2 DEF Inv, WordsCounted, Counts, Disconnect
  <2> QED
    BY <2>1, <2>2
<1>6. Judge(k, conns', Targets) /\ asked' = asked /\ opened' = opened /\ stopped' = stopped /\ heard' = heard
  BY DEF Disconnect
<1> HIDE DEF k
<1> QED
  BY <1>2, <1>3, <1>4, <1>5, <1>6, JudgeStep DEF Rest

LEMMA RegisterKeeps ==
  ASSUME Inv, NEW t \in Targets, Register(t)
  PROVE  Inv' /\ Promised /\ Heeded
<1>1. TypeOK'
  BY DEF Inv, TypeOK, Register, Connected
<1>2. AnswersKept' /\ SessionsAreTold'
  BY DEF Inv, TypeOK, AnswersKept, SessionsAreTold, Register
<1>3. Reporters(claim[t].reports) = {}
  BY DEF Inv, TypeOK, WordsCounted, Counts, Register
<1>4. WordsCounted' /\ NoStuckRollCall'
  BY <1>3 DEF Inv, WordsCounted, Counts, NoStuckRollCall, Register
<1>5. Promised
  BY DEF Register, Promised, Held!Next, Held!Ask
<1>6. Heeded
  BY DEF Register, Heeded
<1> QED
  BY <1>1, <1>2, <1>4, <1>5, <1>6 DEF Inv

LEMMA ClaimKeeps ==
  ASSUME Inv, NEW t \in Targets, NEW p \in Pages, Claim(t, p)
  PROVE  Inv' /\ Promised /\ Heeded
<1> DEFINE q == [claim[t] EXCEPT !.reports[p] = NULL]
           k == IF q.owner \in {NULL, p} \/ q.lapsed
                THEN [q EXCEPT !.owner = p, !.last = p, !.lapsed = FALSE] ELSE q
<1>1. t \in pending /\ claim[t] \in Claims
  BY DEF Inv, TypeOK, Claim
<1>2. k \in Claims /\ k.owner # NULL
  BY <1>1, AgentTargetAssumption DEF Claims
<1>3. k.reports = [claim[t].reports EXCEPT ![p] = NULL]
  BY <1>1 DEF Claims
<1>4. Reporters(k.reports) = Reporters(claim[t].reports) \ {p}
  BY <1>1, <1>3 DEF Claims, Reporters
<1>5. /\ word' \in [Targets -> SUBSET Pages] /\ word'[t] = word[t] \ {p}
      /\ \A u \in Targets : u # t => word'[u] = word[u]
  BY DEF Inv, TypeOK, Claim
<1>6. Reporters(claim[t].reports) \subseteq word[t]
  BY <1>1 DEF Inv, WordsCounted, Counts
<1>7. /\ claim' = [claim EXCEPT ![t] = k]
      /\ UNCHANGED <<heard, conns, asked, pending, resolved, stopped, verdict, opened>>
  BY DEF Claim
<1> HIDE DEF k
<1>8. Reporters(k.reports) \subseteq Reporters(claim[t].reports) \cap word'[t]
  BY <1>4, <1>5, <1>6
<1> QED
  BY <1>1, <1>2, <1>5, <1>7, <1>8, ClaimStep

LEMMA DeclineKeeps ==
  ASSUME Inv, NEW t \in Targets, NEW p \in Pages, NEW reason \in Reasons, Decline(t, p, reason)
  PROVE  Inv' /\ Promised /\ Heeded
<1> DEFINE first == reason = "no_match" /\ claim[t].reports[p] # "no_match"
           q == Without(claim[t], p)
           k == [q EXCEPT !.reports[p] = reason, !.grace = IF first THEN "open" ELSE @]
           m == [claim EXCEPT ![t] = k]
<1>1. /\ t \in pending /\ claim \in [Targets -> Claims] /\ pending \subseteq Targets
      /\ conns \in [Pages -> Nat] /\ p \in Connected(conns)
  BY DEF Inv, TypeOK, Decline
<1>2. q \in Claims
  BY <1>1, WithoutType
<1>3. k \in Claims /\ k.reports = [q.reports EXCEPT ![p] = reason]
  <2> HIDE DEF q, first
  <2> QED
    BY <1>2 DEF Claims
<1>4. Reporters(k.reports) \subseteq Reporters(claim[t].reports) \cup {p}
  <2>1. Reporters(q.reports) = Reporters(claim[t].reports) \ {p}
    BY <1>1, WithoutType
  <2> HIDE DEF q, k
  <2> QED
    BY <1>2, <1>3, <2>1 DEF Claims, Reporters
<1>5. Judge(m, conns, {t}) /\ UNCHANGED <<heard, conns, asked, stopped, opened>>
  BY DEF Decline
<1>6. word' \in [Targets -> SUBSET Pages] /\ word' = [word EXCEPT ![t] = @ \cup {p}]
  BY DEF Inv, TypeOK, Decline
<1>7. \A u \in Targets : word'[u] = IF u = t THEN word[u] \cup {p} ELSE word[u]
  BY <1>6 DEF Inv, TypeOK
<1> HIDE DEF k
<1>8. m \in [Targets -> Claims] /\ \A u \in Targets : m[u] = IF u = t THEN k ELSE claim[u]
  BY <1>1, <1>3
<1> HIDE DEF m
<1>9. Counts(m, pending, conns', word')
  <2>1. \A u \in pending : Reporters(m[u].reports) \subseteq Connected(conns) \cap word'[u]
    BY <1>1, <1>4, <1>7, <1>8 DEF Inv, WordsCounted, Counts
  <2>2. \A u \in Targets \ pending : Reporters(m[u].reports) = {}
    BY <1>1, <1>8 DEF Inv, WordsCounted, Counts
  <2> QED
    BY <1>5, <2>1, <2>2 DEF Counts
<1>10. Rest(m, conns, {t}) /\ conns' = conns
  BY <1>5, <1>8 DEF Rest
<1> QED
  BY <1>1, <1>5, <1>6, <1>8, <1>9, <1>10, JudgeStep

----------------------------------------------------------------------------
\* An answer that is no roll call's, and opens nothing.
LEMMA AnswerStep ==
  ASSUME Inv, NEW t \in pending, NEW v \in Verdicts, v.by # "roll_call", ResolveOne(t, v),
         UNCHANGED <<heard, conns, asked, stopped, opened, word>>
  PROVE  Inv' /\ Promised /\ Heeded
<1>1. t \in Targets /\ t \in asked /\ TypeOK
  BY DEF Inv, TypeOK
<1>2. /\ pending' \subseteq asked'
      /\ claim' \in [Targets -> Claims]
      /\ resolved' \in [Targets -> [no : Nat, session : Session \cup {NULL}]]
      /\ verdict' \in [Targets -> Verdicts \cup {NULL}]
      /\ AnswersKept' /\ WordsCounted' /\ NoStuckRollCall'
      /\ verdict[t] = NULL /\ verdict'[t] = v /\ v # NULL
      /\ \A u \in Targets : u # t => verdict'[u] = verdict[u]
  BY ResolveOneKeeps
<1>3. TypeOK'
  BY <1>1, <1>2 DEF TypeOK
<1>4. SessionsAreTold'
  BY <1>1, <1>2, ToldStay DEF Inv
<1>5. Promised
  BY <1>1, <1>2, AnswerPromised
<1>6. Heeded
  BY <1>2 DEF Heeded
<1> QED
  BY <1>2, <1>3, <1>4, <1>5, <1>6 DEF Inv

LEMMA ResultKeeps ==
  ASSUME Inv, NEW t \in Targets, NEW p \in Pages, NEW w \in {"ok", "failed"},
         NEW s \in Session \cup {NULL}, Result(t, p, w, s)
  PROVE  Inv' /\ Promised /\ Heeded
BY VerdictType, AnswerStep DEF Result

LEMMA TimeoutKeeps ==
  ASSUME Inv, NEW t \in Targets, Timeout(t)
  PROVE  Inv' /\ Promised /\ Heeded
BY VerdictType, DeclinedType, AnswerStep DEF Timeout

(***************************************************************************)
(* A session is opened for a request only as the request is answered with  *)
(* it, or after it was.                                                    *)
(***************************************************************************)
LEMMA GenerateKeeps ==
  ASSUME Inv, NEW t \in Targets, NEW p \in Pages, NEW s \in Session, Generate(t, p, s)
  PROVE  Inv' /\ Promised /\ Heeded
<1> DEFINE v == Verdict("page", "ok", s)
<1>1. v \in Verdicts /\ v # NULL /\ v.by = "page" /\ v.session = s /\ s # NULL
  BY VerdictType, AgentTargetAssumption
<1> HIDE DEF v
<1>2. /\ opened' = opened \cup {[target |-> t, session |-> s]}
      /\ UNCHANGED <<heard, conns, asked, stopped, word>>
  BY DEF Generate
<1>3. CASE t \in pending
  <2>1. ResolveOne(t, v)
    BY <1>3 DEF Generate, v
  <2>2. /\ pending' \subseteq asked'
        /\ claim' \in [Targets -> Claims]
        /\ resolved' \in [Targets -> [no : Nat, session : Session \cup {NULL}]]
        /\ verdict' \in [Targets -> Verdicts \cup {NULL}]
        /\ AnswersKept' /\ WordsCounted' /\ NoStuckRollCall'
        /\ verdict[t] = NULL /\ verdict'[t] = v
        /\ \A u \in Targets : u # t => verdict'[u] = verdict[u]
    BY <1>1, <1>2, <1>3, <2>1, ResolveOneKeeps
  <2>3. TypeOK'
    BY <1>2, <2>2 DEF Inv, TypeOK
  <2>4. SessionsAreTold'
    BY <1>1, <1>2, <2>2 DEF Inv, TypeOK, SessionsAreTold
  <2>5. Promised
    <3>1. t \in asked
      BY <1>3 DEF Inv, TypeOK
    <3>2. Held!AnswerOnly({t})
      BY <1>1, <2>2, <3>1 DEF Held!AnswerOnly
    <3>3. Held!Open(t, s)
      BY <1>1, <1>2, <2>2, <3>2 DEF Held!Open
    <3> QED
      BY <3>3 DEF Promised, Held!Next
  <2>6. Heeded
    BY <1>1, <2>2 DEF Heeded
  <2> QED
    BY <2>2, <2>3, <2>4, <2>5, <2>6 DEF Inv
<1>4. CASE t \notin pending
  <2>1. /\ UNCHANGED <<pending, claim, resolved, verdict>>
        /\ verdict[t] # NULL /\ verdict[t].session = s
    BY <1>4 DEF Generate, Welcome, Remembered, Inv, AnswersKept
  <2>2. TypeOK' /\ AnswersKept' /\ WordsCounted' /\ NoStuckRollCall'
    <3>1. TypeOK'
      BY <1>2, <2>1 DEF Inv, TypeOK
    <3>2. AnswersKept'
      BY <1>2, <2>1 DEF Inv, AnswersKept
    <3>3. WordsCounted' /\ NoStuckRollCall'
      BY <1>2, <2>1 DEF Inv, WordsCounted, Counts, NoStuckRollCall
    <3> QED
      BY <3>1, <3>2, <3>3
  <2>3. SessionsAreTold'
    BY <1>2, <2>1 DEF Inv, SessionsAreTold
  <2>4. Promised
    <3>1. Held!AnswerOnly({t})
      BY <2>1 DEF Held!AnswerOnly, Inv, TypeOK
    <3>2. Held!Open(t, s)
      BY <1>2, <2>1, <3>1 DEF Held!Open
    <3> QED
      BY <3>2 DEF Promised, Held!Next
  <2>5. Heeded
    BY <2>1 DEF Heeded
  <2> QED
    BY <2>2, <2>3, <2>4, <2>5 DEF Inv
<1> QED
  BY <1>3, <1>4

LEMMA TimeKeeps ==
  ASSUME Inv, NEW t \in Targets, LeaseEnds(t) \/ GraceEnds(t)
  PROVE  Inv' /\ Promised /\ Heeded
<1>1. t \in pending /\ claim \in [Targets -> Claims] /\ claim[t] \in Claims
  BY DEF Inv, TypeOK, LeaseEnds, GraceEnds
<1>2. /\ UNCHANGED <<heard, conns, asked, pending, resolved, stopped, verdict, opened, word>>
      /\ word' \in [Targets -> SUBSET Pages]
      /\ Reporters(claim[t].reports) \subseteq word'[t]
  BY <1>1 DEF Inv, TypeOK, WordsCounted, Counts, LeaseEnds, GraceEnds
<1>3. CASE LeaseEnds(t)
  <2> DEFINE k == [claim[t] EXCEPT !.lapsed = TRUE]
  <2>1. k \in Claims /\ k.owner # NULL /\ k.reports = claim[t].reports
    BY <1>1, <1>3 DEF Claims, LeaseEnds
  <2>2. claim' = [claim EXCEPT ![t] = k]
    BY <1>3 DEF LeaseEnds
  <2> HIDE DEF k
  <2> QED
    BY <1>1, <1>2, <2>1, <2>2, ClaimStep
<1>4. CASE GraceEnds(t)
  <2> DEFINE k == [claim[t] EXCEPT !.grace = "over"]
  <2>1. k \in Claims /\ k.owner = claim[t].owner /\ k.reports = claim[t].reports /\ k.grace = "over"
    BY <1>1 DEF Claims
  <2>2. claim' = [claim EXCEPT ![t] = k]
    BY <1>4 DEF GraceEnds
  <2> HIDE DEF k
  <2> QED
    BY <1>1, <1>2, <2>1, <2>2, ClaimStep
<1> QED
  BY <1>3, <1>4

LEMMA GraceThreadKeeps ==
  ASSUME Inv, NEW t \in Targets, GraceThread(t)
  PROVE  Inv' /\ Promised /\ Heeded
<1> DEFINE k == [claim EXCEPT ![t].grace = "judged"]
<1>1. /\ claim \in [Targets -> Claims] /\ conns \in [Pages -> Nat]
      /\ word' \in [Targets -> SUBSET Pages] /\ pending \subseteq Targets
  BY DEF Inv, TypeOK, GraceThread
<1>2. /\ k \in [Targets -> Claims] /\ \A u \in Targets : k[u].reports = claim[u].reports
      /\ \A u \in Targets \ {t} : k[u] = claim[u]
  BY <1>1 DEF Claims
<1>3. Judge(k, conns, {t}) /\ UNCHANGED <<heard, conns, asked, stopped, opened, word>>
  BY DEF GraceThread
<1> HIDE DEF k
<1>4. Counts(k, pending, conns', word')
  BY <1>1, <1>2, <1>3 DEF Inv, WordsCounted, Counts
<1> QED
  BY <1>1, <1>2, <1>3, <1>4, JudgeStep DEF Rest

LEMMA StopKeeps ==
  ASSUME Inv, Stop
  PROVE  Inv' /\ Promised /\ Heeded
<1> DEFINE v == Verdict("stop", "none", NULL)
<1>1. v \in Verdicts /\ v # NULL /\ v.by = "stop"
  BY VerdictType
<1>2. verdict' = [t \in Targets |-> IF t \in pending THEN v ELSE verdict[t]]
  BY DEF Stop
<1> HIDE DEF v
<1>3. \A t \in Targets : verdict'[t] # verdict[t] =>
        t \in asked /\ verdict[t] = NULL /\ verdict'[t] = v
  BY <1>2 DEF Inv, TypeOK, AnswersKept
<1>4. verdict' \in [Targets -> Verdicts \cup {NULL}]
  BY <1>1, <1>2 DEF Inv, TypeOK
<1>5. TypeOK'
  BY <1>4, UnclaimedType DEF Inv, TypeOK, Stop
<1>6. AnswersKept'
  BY <1>2 DEF Inv, TypeOK, AnswersKept, Stop
<1>7. WordsCounted' /\ NoStuckRollCall'
  BY UnclaimedType DEF WordsCounted, Counts, NoStuckRollCall, Stop
<1>8. SessionsAreTold'
  BY <1>3, ToldStay DEF Inv, Stop
<1>9. Promised
  BY <1>3, <1>4, AnswerPromised DEF Inv, Stop
<1>10. Heeded
  BY <1>1, <1>3 DEF Heeded
<1> QED
  BY <1>5, <1>6, <1>7, <1>8, <1>9, <1>10 DEF Inv

----------------------------------------------------------------------------
\* The inductive step, one case per action.
LEMMA StepKeeps ==
  ASSUME Inv, [Next]_vars
  PROVE  Inv' /\ Promised /\ Heeded
<1>1. CASE UNCHANGED vars
  <2>1. Inv'
    BY <1>1 DEF Inv, TypeOK, AnswersKept, WordsCounted, SessionsAreTold, NoStuckRollCall, vars
  <2>2. Promised /\ Heeded
    BY <1>1 DEF Promised, Heeded, vars, Held!vars
  <2> QED
    BY <2>1, <2>2
<1>2. CASE \E p \in Pages : Connect(p) \/ Disconnect(p)
  BY <1>2, ConnectKeeps, DisconnectKeeps
<1>3. ASSUME NEW t \in Targets,
             Register(t) \/ LeaseEnds(t) \/ GraceEnds(t) \/ GraceThread(t) \/ Timeout(t)
      PROVE  Inv' /\ Promised /\ Heeded
  BY <1>3, RegisterKeeps, TimeKeeps, GraceThreadKeeps, TimeoutKeeps
<1>4. ASSUME NEW t \in Targets, NEW p \in Pages,
             \/ Claim(t, p)
             \/ \E reason \in Reasons : Decline(t, p, reason)
             \/ \E w \in {"ok", "failed"}, s \in Session \cup {NULL} : Result(t, p, w, s)
             \/ \E s \in Session : Generate(t, p, s)
      PROVE  Inv' /\ Promised /\ Heeded
  BY <1>4, ClaimKeeps, DeclineKeeps, ResultKeeps, GenerateKeeps
<1>5. CASE Stop
  BY <1>5, StopKeeps
<1> QED
  BY <1>1, <1>2, <1>3, <1>4, <1>5 DEF Next

LEMMA Invariance == Spec => []Inv
<1>1. Inv /\ [Next]_vars => Inv'
  BY StepKeeps
<1> QED
  BY <1>1, InitInv, PTL DEF Spec

(***************************************************************************)
(* The types hold, whatever the pages send.                                *)
(***************************************************************************)
THEOREM TypeCorrect == Spec => []TypeOK
<1>1. Inv => TypeOK
  BY DEF Inv
<1> QED
  BY <1>1, Invariance, PTL

(***************************************************************************)
(* The sessions that POST /events opens for a request are the one session  *)
(* its agent was told.                                                     *)
(***************************************************************************)
THEOREM OneSessionAndTold == Spec => []SessionsAreTold
<1>1. Inv => SessionsAreTold
  BY DEF Inv
<1> QED
  BY <1>1, Invariance, PTL

(***************************************************************************)
(* No step leaves a complete roll call without an answer or a timer.       *)
(***************************************************************************)
THEOREM RollCallsEnd == Spec => []NoStuckRollCall
<1>1. Inv => NoStuckRollCall
  BY DEF Inv
<1> QED
  BY <1>1, Invariance, PTL

(***************************************************************************)
(* Counting the words suffices: the roll call of a request ends only when  *)
(* every connected page's latest word is a decline.                        *)
(***************************************************************************)
THEOREM NoPageUnheard == Spec => RollCallUnanimous
<1>1. Inv /\ [Next]_vars => [Heeded]_vars
  BY StepKeeps
<1>2. Spec => [][Heeded]_vars
  BY <1>1, Invariance, PTL DEF Spec
<1> QED
  BY <1>2 DEF RollCallUnanimous, Heeded

(***************************************************************************)
(* The helper implements HeldRequest: one answer, and no untold session.   *)
(***************************************************************************)
THEOREM PromiseKept == Spec => KeepsPromise
<1>1. Init => Held!Init
  BY DEF Init, Held!Init
<1>2. Inv /\ [Next]_vars => [Held!Next]_(Held!vars)
  BY StepKeeps DEF Promised
<1> QED
  BY <1>1, <1>2, Invariance, PTL DEF Spec, KeepsPromise, Held!Spec
============================================================================
