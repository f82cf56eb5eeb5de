-------------------------- MODULE LiveServerProofs --------------------------
(***************************************************************************)
(* Proofs about LiveServer, for any sessions, agents, posts and replies,   *)
(* and any bounds.                                                         *)
(***************************************************************************)
EXTENDS LiveServer, PendingQueueProofs, FiniteSetTheorems

IsSnapshot(s) ==
  /\ DOMAIN s = DOMAIN BaseSnapshot
  /\ s.phase \in Phases /\ s.canceled \in BOOLEAN /\ s.pending \in Requests \cup {NULL}

LEMMA BaseFields ==
  /\ {"phase", "pending", "pendingSeq", "canceled", "diags", "render", "completed", "arrived"}
       \subseteq DOMAIN BaseSnapshot
  /\ BaseSnapshot.phase = "new" /\ BaseSnapshot.pending = NULL /\ BaseSnapshot.canceled = FALSE
BY DEF BaseSnapshot

LEMMA PhasesOfRequests ==
  /\ RequestPhase["generate"] = "generate_requested" /\ RequestPhase["steer"] = "steer_requested"
  /\ RequestPhase["accept"] = "accept_requested" /\ RequestPhase["discard"] = "discard_requested"
  /\ {"generate", "steer", "accept", "discard"} \subseteq RequestTypes
BY DEF RequestPhase, RequestTypes

LEMMA SomePhases ==
  /\ {RequestPhase[t] : t \in RequestTypes} \subseteq Phases
  /\ FencedPhases \cup {"new", "variants_ready", "steer_done", "agent_error"} \cup BrowserPhases \subseteq Phases
  /\ TerminalPhases \subseteq FencedPhases
  /\ BrowserPhases \cap FencedPhases = {}
  /\ FencedPhases = {"completed", "discarded", "accept_requested", "discard_requested", "carbonize_required"}
BY LiveSessionAssumption DEF Phases, ReducerPhases, FencedPhases, TerminalPhases

LEMMA BaseIsSnapshot == IsSnapshot(BaseSnapshot)
BY BaseFields, SomePhases DEF IsSnapshot

----------------------------------------------------------------------------
(***************************************************************************)
(* What an entry of the journal does to the phase, the decision and the    *)
(* pending event.                                                          *)
(***************************************************************************)
Alike(s, t) ==
  IsSnapshot(t) /\ t.phase = s.phase /\ t.canceled = s.canceled /\ t.pending = s.pending
Cleared(s, t) == IsSnapshot(t) /\ t.pending = NULL /\ t.canceled = s.canceled
Asks(t, e) == IsSnapshot(t) /\ t.pending = e /\ t.phase = RequestPhase[e.type]

LEMMA AlikeFields ==
  ASSUME NEW s, IsSnapshot(s), NEW t, DOMAIN t = DOMAIN s,
         t.phase = s.phase, t.canceled = s.canceled, t.pending = s.pending
  PROVE  Alike(s, t)
BY DEF Alike, IsSnapshot

LEMMA WithDiagAlike ==
  ASSUME NEW s, IsSnapshot(s), NEW k
  PROVE  Alike(s, WithDiag(s, k))
BY BaseFields DEF Alike, IsSnapshot, WithDiag

LEMMA RerenderAlike ==
  ASSUME NEW s, IsSnapshot(s)
  PROVE  Alike(s, Rerender(s))
BY BaseFields DEF Alike, IsSnapshot, Rerender

LEMMA AgentPhaseAlike ==
  ASSUME NEW s, IsSnapshot(s), NEW e
  PROVE  Alike(s, ApplyAgentPhase(s, e))
BY BaseFields, AlikeFields DEF IsSnapshot, ApplyAgentPhase

LEMMA RequestAsks ==
  ASSUME NEW s, IsSnapshot(s), NEW e \in Requests, e.type \in RequestTypes
  PROVE  Asks(Request(s, e, 0), e) /\ Request(s, e, 0).canceled = s.canceled
BY BaseFields, SomePhases DEF Asks, IsSnapshot, Request

LEMMA GenerateAsks ==
  ASSUME NEW s, IsSnapshot(s), NEW e \in Requests, e.type = "generate"
  PROVE  Asks(Journal(s, e), e) /\ Journal(s, e).canceled = s.canceled
<1> DEFINE r == Request(s, e, 0)
<1>1. Asks(r, e) /\ r.canceled = s.canceled BY RequestAsks, PhasesOfRequests
<1>2. Journal(s, e) = ApplyGenerate(s, e, 0) BY DEF Journal, ApplyEvent
<1>3. /\ DOMAIN ApplyGenerate(s, e, 0) = DOMAIN r
      /\ ApplyGenerate(s, e, 0).phase = r.phase
      /\ ApplyGenerate(s, e, 0).canceled = r.canceled
      /\ ApplyGenerate(s, e, 0).pending = r.pending
  <2> HIDE DEF r
  <2>. QED BY <1>1, BaseFields DEF ApplyGenerate, Asks, IsSnapshot, r
<1> HIDE DEF r
<1>. QED BY <1>1, <1>2, <1>3, AlikeFields DEF Asks, Alike, IsSnapshot

LEMMA DecisionAsks ==
  ASSUME NEW s, IsSnapshot(s), NEW e \in Requests, e.type \in Decisions
  PROVE  Asks(Journal(s, e), e) /\ Journal(s, e).canceled = TRUE
<1> DEFINE r == Request(s, e, 0)
<1>1. Asks(r, e) BY RequestAsks, PhasesOfRequests DEF Decisions
<1>2. ASSUME NEW t, t \in {ApplyAccept(s, e, 0), ApplyDiscard(s, e, 0)}
      PROVE  DOMAIN t = DOMAIN r /\ t.phase = r.phase /\ t.pending = r.pending /\ t.canceled = TRUE
  <2>1. DOMAIN r = DOMAIN BaseSnapshot BY <1>1 DEF Asks, IsSnapshot
  <2> HIDE DEF r
  <2>. QED BY <1>2, <2>1, BaseFields DEF ApplyAccept, ApplyDiscard, r
<1>3. Journal(s, e) \in {ApplyAccept(s, e, 0), ApplyDiscard(s, e, 0)}
  BY DEF Journal, ApplyEvent, Decisions
<1> HIDE DEF r
<1>. QED BY <1>1, <1>2, <1>3 DEF Asks, IsSnapshot

LEMMA FinishClears ==
  ASSUME NEW s, IsSnapshot(s), NEW p \in TerminalPhases
  PROVE  Cleared(s, Finish(s, p)) /\ Finish(s, p).phase = p
BY BaseFields, SomePhases DEF Cleared, IsSnapshot, Finish, DropDiag, ClearPending

LEMMA SteerDoneClears ==
  ASSUME NEW s, IsSnapshot(s)
  PROVE  Cleared(s, ApplySteerDone(s))
BY BaseFields, SomePhases DEF Cleared, IsSnapshot, ApplySteerDone, ClearPending

LEMMA ErrorClears ==
  ASSUME NEW s, IsSnapshot(s), NEW e
  PROVE  IF s.canceled /\ Field(e, "source", NULL) = "generate"
         THEN Alike(s, ApplyAgentError(s, e)) ELSE Cleared(s, ApplyAgentError(s, e))
<1> DEFINE r == [ClearPending(s) EXCEPT !.phase = "agent_error"]
<1>1. Cleared(s, r) BY BaseFields, SomePhases DEF Cleared, IsSnapshot, ClearPending
<1> HIDE DEF r
<1>2. Cleared(s, WithDiag(r, "agent_error")) BY <1>1, WithDiagAlike DEF Cleared, Alike
<1>. QED BY <1>2, WithDiagAlike DEF ApplyAgentError, r

LEMMA PublicationClears ==
  ASSUME NEW s, IsSnapshot(s), NEW e
  PROVE  IF (s.canceled \/ Fenced(s)) /\ ~ClosesAccept(s, e)
         THEN Alike(s, ApplyPublication(s, e)) ELSE Cleared(s, ApplyPublication(s, e))
<1>1. CASE (s.canceled \/ Fenced(s)) /\ ~ClosesAccept(s, e)
  BY <1>1, WithDiagAlike DEF ApplyPublication
<1>2. CASE ~((s.canceled \/ Fenced(s)) /\ ~ClosesAccept(s, e))
  <2> DEFINE carbonize == Field(e, "carbonize", FALSE)
             p    == IF carbonize THEN "carbonize_required" ELSE "variants_ready"
             done == [ClearPending(s) EXCEPT
                        !.phase = p,
                        !.completed = TRUE,
                        !.arrived = Field(e, "arrived", IF s.expected # 0 THEN s.expected ELSE @)]
             r    == IF carbonize THEN WithDiag(done, "carbonize_cleanup_required") ELSE done
  <2>1. p \in Phases BY SomePhases
  <2>2. Cleared(s, done)
    <3> HIDE DEF p
    <3>. QED BY <2>1, BaseFields DEF Cleared, IsSnapshot, ClearPending
  <2>3. Cleared(s, r)
    <3> HIDE DEF done
    <3>. QED BY <2>2, WithDiagAlike DEF Cleared, Alike
  <2>4. Cleared(s, Rerender(r))
    <3> HIDE DEF r
    <3>. QED BY <2>3, RerenderAlike DEF Cleared, Alike
  <2>. QED BY <2>4, <1>2 DEF ApplyPublication
<1>. QED BY <1>1, <1>2

(***************************************************************************)
(* The reply of an agent: it ends what is pending, unless it is late.      *)
(***************************************************************************)
Late(s, e) ==
  \/ e.type = "agent_done" /\ (s.canceled \/ Fenced(s)) /\ ~ClosesAccept(s, e)
  \/ e.type = "agent_error" /\ s.canceled /\ e.source = "generate"

LEMMA EntryIs ==
  ASSUME NEW s, IsSnapshot(s), NEW e \in Entries
  PROVE  IF Late(s, e) THEN Alike(s, Journal(s, e)) ELSE Cleared(s, Journal(s, e))
<1>1. e.type \in {"agent_done", "agent_error", "complete", "discarded", "steer_done"}
  BY DEF Entries, JournalType, Range
<1>2. Field(e, "source", NULL) = e.source BY DEF Entries, Field
<1>3. CASE e.type = "agent_done"
  BY <1>3, PublicationClears DEF Late, Journal, ApplyEvent
<1>4. CASE e.type = "agent_error"
  BY <1>2, <1>4, ErrorClears DEF Late, Journal, ApplyEvent
<1>5. CASE e.type \in {"complete", "discarded"}
  BY <1>5, FinishClears DEF Late, Journal, ApplyEvent, TerminalPhases
<1>6. CASE e.type = "steer_done"
  BY <1>6, SteerDoneClears DEF Late, Journal, ApplyEvent
<1>. QED BY <1>1, <1>3, <1>4, <1>5, <1>6

(***************************************************************************)
(* Milestones are noted beside what is pending.                            *)
(***************************************************************************)
RecordTo(s, phases, m, f) ==
  f = [i \in 0 .. m |->
        IF i = 0 THEN s
        ELSE Journal(f[i - 1], [type |-> "agent_phase", phase |-> phases[i]])]

LEMMA RecordExists ==
  ASSUME NEW s, NEW phases, NEW n \in Nat
  PROVE  \E f : RecordTo(s, phases, n, f)
<1> DEFINE good == {m \in 0 .. n : \E f : RecordTo(s, phases, m, f)}
<1>1. 0 \in good
  <2>1. RecordTo(s, phases, 0, [i \in 0 .. 0 |-> s]) BY DEF RecordTo
  <2>. QED BY <2>1
<1>2. ASSUME NEW m \in 1 .. n, m - 1 \in good PROVE m \in good
  <2>1. PICK g : RecordTo(s, phases, m - 1, g) BY <1>2
  <2> DEFINE next(i) == Journal(g[i - 1], [type |-> "agent_phase", phase |-> phases[i]])
             f == [i \in 0 .. m |-> IF i = m THEN next(m) ELSE g[i]]
  <2>2. \A i \in 0 .. m - 1 : f[i] = g[i] OBVIOUS
  <2>3. \A i \in 0 .. m - 1 : g[i] = IF i = 0 THEN s ELSE next(i) BY <2>1 DEF RecordTo
  <2>4. ASSUME NEW i \in 0 .. m
        PROVE  f[i] = IF i = 0 THEN s
                      ELSE Journal(f[i - 1], [type |-> "agent_phase", phase |-> phases[i]])
    <3>1. CASE i = m BY <3>1, <2>2
    <3>2. CASE i # m
      <4>1. i \in 0 .. m - 1 /\ (i # 0 => i - 1 \in 0 .. m - 1) BY <3>2
      <4>. QED BY <4>1, <2>2, <2>3
    <3>. QED BY <3>1, <3>2
  <2>5. RecordTo(s, phases, m, f) BY <2>4 DEF RecordTo
  <2>. QED BY <2>5
<1> HIDE DEF good
<1>3. n \in good BY <1>1, <1>2, UpTo
<1>. QED BY <1>3 DEF good

LEMMA RecordAlike ==
  ASSUME NEW s, IsSnapshot(s), NEW phases, Len(phases) \in Nat
  PROVE  Alike(s, Record(s, phases))
<1> DEFINE f == CHOOSE g : RecordTo(s, phases, Len(phases), g)
<1>1. RecordTo(s, phases, Len(phases), f) BY RecordExists
<1>2. Record(s, phases) = f[Len(phases)] BY Zenon DEF Record, RecordTo
<1> HIDE DEF f
<1> DEFINE good == {m \in 0 .. Len(phases) : Alike(s, f[m])}
<1>3. 0 \in good
  <2>1. f[0] = s BY <1>1 DEF RecordTo
  <2>. QED BY <2>1 DEF Alike
<1>4. ASSUME NEW m \in 1 .. Len(phases), m - 1 \in good PROVE m \in good
  <2> DEFINE e == [type |-> "agent_phase", phase |-> phases[m]]
  <2>1. f[m] = Journal(f[m - 1], e) BY <1>1 DEF RecordTo
  <2>2. Journal(f[m - 1], e) = ApplyAgentPhase(f[m - 1], e) BY DEF Journal, ApplyEvent
  <2>3. Alike(s, f[m - 1]) BY <1>4
  <2>4. Alike(f[m - 1], f[m]) BY <2>1, <2>2, <2>3, AgentPhaseAlike DEF Alike
  <2>. QED BY <2>3, <2>4 DEF Alike
<1> HIDE DEF good
<1>5. \A m \in 0 .. Len(phases) : m \in good BY <1>3, <1>4, UpTo
<1>6. Len(phases) \in good BY <1>5
<1>. QED BY <1>2, <1>6 DEF good

LEMMA MilestonesAreFew ==
  ASSUME NEW s, NEW e
  PROVE  Len(Milestones(s, e)) \in Nat
<1> DEFINE S == Seq({"first_reviewable", "second_reviewable", "all_variants_ready"})
           first(p, reached) == IF reached /\ p \notin s.timings THEN <<p>> ELSE <<>>
<1>1. \A reached : /\ first("first_reviewable", reached) \in S
                   /\ first("second_reviewable", reached) \in S
                   /\ first("all_variants_ready", reached) \in S
  OBVIOUS
<1> HIDE DEF first
<1>2. \A a, b, c \in S : a \o b \o c \in S OBVIOUS
<1>3. <<>> \in S OBVIOUS
<1>4. Milestones(s, e) \in S
  BY <1>1, <1>2, <1>3 DEF Milestones, first
<1>. QED BY <1>4

----------------------------------------------------------------------------
(***************************************************************************)
(* What the overlay posts.                                                 *)
(***************************************************************************)
LEMMA MountedAlike ==
  ASSUME NEW s, IsSnapshot(s), NEW e
  PROVE  Alike(s, ApplyMounted(s, e))
<1> DEFINE r == [s EXCEPT !.mounted = @ \cup {e.variant}]
<1>1. Alike(s, r) BY BaseFields, AlikeFields DEF IsSnapshot
<1> HIDE DEF r
<1>2. Alike(s, Rerender(r)) BY <1>1, RerenderAlike DEF Alike
<1>. QED BY <1>2, WithDiagAlike DEF ApplyMounted, r

LEMMA MountFailedIs ==
  ASSUME NEW s, IsSnapshot(s), NEW e \in Requests
  PROVE  LET t == ApplyMountFailed(s, e)
         IN  /\ IsSnapshot(t) /\ t.phase = s.phase /\ t.canceled = s.canceled
             /\ t.pending = s.pending \/ (s.pending = NULL /\ t.pending = e)
<1> DEFINE f == [s EXCEPT !.failures = LastOf(Append(@, e.variant), MountFailureHistory)]
           r == Rerender(f)
<1>1. Alike(s, f) BY BaseFields, AlikeFields DEF IsSnapshot
<1>2. Alike(s, r)
  <2> HIDE DEF f
  <2>. QED BY <1>1, RerenderAlike DEF Alike
<1>3. LET t == [r EXCEPT !.pending = e]
      IN  IsSnapshot(t) /\ t.phase = s.phase /\ t.canceled = s.canceled /\ t.pending = e
  <2> HIDE DEF r
  <2>. QED BY <1>2, BaseFields DEF Alike, IsSnapshot
<1>4. Alike(s, WithDiag(s, "malformed_mount_ack")) BY WithDiagAlike
<1>5. ApplyMountFailed(s, e) \in
        {IF s.pending = NULL THEN [r EXCEPT !.pending = e] ELSE r, WithDiag(s, "malformed_mount_ack")}
  BY DEF ApplyMountFailed
<1> HIDE DEF r
<1>. QED BY <1>2, <1>3, <1>4, <1>5 DEF Alike

LEMMA CheckpointIs ==
  ASSUME NEW s, IsSnapshot(s), NEW e \in Posts, e.type = "checkpoint"
  PROVE  LET t == ApplyCheckpoint(s, e)
         IN  /\ IsSnapshot(t) /\ t.canceled = s.canceled /\ t.pending = s.pending
             /\ \/ t.phase = s.phase
                \/ t.phase \in BrowserPhases /\ ~s.canceled /\ s.phase \notin FencedPhases
<1> DEFINE q == [s EXCEPT !.phase = Field(e, "phase", @), !.arrived = Field(e, "arrived", @)]
           fine(t) == /\ DOMAIN t = DOMAIN s
                      /\ t.canceled = s.canceled /\ t.pending = s.pending
                      /\ t.phase \in BrowserPhases \cup {s.phase}
<1>1. Field(e, "phase", s.phase) \in BrowserPhases \cup {s.phase}
  BY LiveServerAssumption DEF Field
<1>2. fine(q) BY <1>1, BaseFields DEF IsSnapshot
<1>3. \A v : fine([q EXCEPT !.publicationRev = v])
  <2> HIDE DEF q
  <2>. QED BY <1>2, BaseFields DEF IsSnapshot
<1>4. \A v, o, w : fine([q EXCEPT !.browserRev = v, !.owner = o, !.visible = w])
  <2> HIDE DEF q
  <2>. QED BY <1>2, BaseFields DEF IsSnapshot
<1>5. \A k : fine(WithDiag(s, k)) /\ WithDiag(s, k).phase = s.phase
  BY WithDiagAlike DEF Alike, IsSnapshot
<1> DEFINE t == ApplyCheckpoint(s, e)
<1>6. fine(t) /\ (s.canceled \/ Fenced(s) => t.phase = s.phase)
  <2> HIDE DEF fine
  <2>1. CASE s.canceled \/ Fenced(s) BY <2>1, <1>5, Zenon DEF ApplyCheckpoint
  <2>2. CASE ~(s.canceled \/ Fenced(s))
    <3> DEFINE old == e.revision < IF IsPublication(e) THEN s.publicationRev ELSE s.browserRev
    <3>1. t = IF old THEN WithDiag(s, "stale_checkpoint_ignored")
              ELSE IF IsPublication(e) THEN [q EXCEPT !.publicationRev = e.revision]
              ELSE [q EXCEPT !.browserRev = e.revision, !.owner = Field(e, "owner", @),
                             !.visible = Field(e, "visible", @)]
      BY <2>2, Zenon DEF ApplyCheckpoint
    <3> HIDE DEF q, old, t
    <3>. QED BY <2>2, <3>1, <1>3, <1>4, <1>5
  <2>. QED BY <2>1, <2>2
<1> HIDE DEF t, q
<1>. QED BY <1>6, SomePhases DEF IsSnapshot, Fenced, t

(***************************************************************************)
(* POST /events, by what is posted: a request, an orphaned discard, or an  *)
(* observation of the page.                                                *)
(***************************************************************************)
Observes == {"checkpoint", "variant_mounted", "variant_mount_failed"}

LEMMA PostsAreRequests ==
  /\ Posts \subseteq Requests /\ NULL \notin Requests
  /\ \A e \in Posts : e.id \in Sessions /\ e.type \in PostTypes
BY LiveServerAssumption DEF Requests

LEMMA ToldIs ==
  ASSUME NEW s, IsSnapshot(s), NEW e \in Posts
  PROVE  LET t == Journal(s, e)
         IN  /\ e.type \notin Observes => Asks(t, e)
             /\ e.type \in Observes =>
                  /\ IsSnapshot(t)
                  /\ t.pending = s.pending \/ (e.type = "variant_mount_failed" /\ t.pending = e)
                  /\ \/ t.phase = s.phase
                     \/ t.phase \in BrowserPhases /\ ~s.canceled /\ s.phase \notin FencedPhases
             /\ t.canceled = (s.canceled \/ e.type \in Decisions)
<1>0. e \in Requests /\ e.type \in PostTypes BY PostsAreRequests
<1>1. s.canceled \in BOOLEAN BY DEF IsSnapshot
<1>2. CASE e.type = "generate" BY <1>0, <1>1, <1>2, GenerateAsks DEF Observes, Decisions
<1>3. CASE e.type \in Decisions BY <1>0, <1>3, DecisionAsks DEF Observes, Decisions
<1>4. CASE e.type = "steer"
  <2>1. Journal(s, e) = Request(s, e, 0) BY <1>4 DEF Journal, ApplyEvent
  <2>. QED BY <1>0, <1>1, <1>4, <2>1, RequestAsks, PhasesOfRequests DEF Observes, Decisions
<1>5. CASE e.type = "checkpoint"
  <2>1. Journal(s, e) = ApplyCheckpoint(s, e) BY <1>5 DEF Journal, ApplyEvent
  <2>. QED BY <1>1, <1>5, <2>1, CheckpointIs DEF Observes, Decisions
<1>6. CASE e.type = "variant_mounted"
  <2>1. Journal(s, e) = ApplyMounted(s, e) BY <1>6 DEF Journal, ApplyEvent
  <2>. QED BY <1>1, <1>6, <2>1, MountedAlike DEF Alike, Observes, Decisions
<1>7. CASE e.type = "variant_mount_failed"
  <2>1. Journal(s, e) = ApplyMountFailed(s, e) BY <1>7 DEF Journal, ApplyEvent
  <2>. QED BY <1>0, <1>1, <1>7, <2>1, MountFailedIs DEF Observes, Decisions
<1>. QED BY <1>0, <1>2, <1>3, <1>4, <1>5, <1>6, <1>7 DEF PostTypes, Decisions

LEMMA JournaledIs ==
  ASSUME NEW s, IsSnapshot(s), NEW e \in Posts
  PROVE  LET t == Journaled(s, e)
         IN  /\ Orphaned(e) => IsSnapshot(t) /\ t.pending = NULL /\ t.phase = "discarded"
             /\ ~Orphaned(e) /\ e.type \notin Observes => Asks(t, e)
             /\ e.type \in Observes =>
                  /\ IsSnapshot(t)
                  /\ t.pending = s.pending \/ (e.type = "variant_mount_failed" /\ t.pending = e)
                  /\ \/ t.phase = s.phase
                     \/ t.phase \in BrowserPhases /\ ~s.canceled /\ s.phase \notin FencedPhases
             /\ t.canceled = (s.canceled \/ e.type \in Decisions)
<1> DEFINE told == Journal(s, e)
           done == Record(told, Milestones(told, e))
           over == Journal(done, [type |-> "discarded"])
<1>1. IsSnapshot(told) BY ToldIs DEF Asks
<1>2. Alike(told, done)
  <2> HIDE DEF told
  <2>. QED BY <1>1, RecordAlike, MilestonesAreFew
<1>3. Cleared(done, over) /\ over.phase = "discarded"
  <2>1. over = Finish(done, "discarded") BY DEF Journal, ApplyEvent
  <2>2. IsSnapshot(done) BY <1>2 DEF Alike
  <2> HIDE DEF done, over
  <2>. QED BY <2>1, <2>2, FinishClears DEF TerminalPhases
<1>4. Journaled(s, e) = IF Orphaned(e) THEN over ELSE done BY DEF Journaled
<1>5. Orphaned(e) => e.type = "discard" BY DEF Orphaned
<1>6. IF Orphaned(e) THEN Cleared(done, Journaled(s, e)) /\ Journaled(s, e).phase = "discarded"
      ELSE Alike(told, Journaled(s, e))
  <2> HIDE DEF told, done, over
  <2>. QED BY <1>2, <1>3, <1>4
<1>7. done.canceled = told.canceled BY <1>2 DEF Alike
<1> HIDE DEF done, over
<1>8. CASE Orphaned(e)
  BY <1>5, <1>6, <1>7, <1>8, ToldIs DEF Cleared, Observes
<1>9. CASE ~Orphaned(e)
  <2>1. Alike(told, Journaled(s, e)) BY <1>6, <1>9
  <2>2. e.type \notin Observes => Asks(Journaled(s, e), e) BY <2>1, ToldIs DEF Alike, Asks
  <2>. QED BY <1>9, <2>1, <2>2, ToldIs DEF Alike
<1>. QED BY <1>8, <1>9

----------------------------------------------------------------------------
(***************************************************************************)
(* Events that are asked for, and the queue of them.                       *)
(***************************************************************************)
LEMMA RequestIs ==
  ASSUME NEW e \in Requests
  PROVE  /\ HasId(e) /\ e.id \in Sessions /\ e.type \in PostTypes /\ e # NULL
         /\ SameRequest(e, e)
<1>1. e # NULL BY PostsAreRequests
<1>2. CASE e \in Posts
  BY <1>1, <1>2, LiveServerAssumption DEF HasId, SameRequest
<1>3. CASE e \notin Posts
  <2>1. PICK p \in Generates, g \in Stages : e = [p EXCEPT !.stage = g]
    BY <1>3 DEF Requests
  <2>2. /\ p \in Posts /\ p.type = "generate" /\ {"id", "type", "stage"} \subseteq DOMAIN p
        /\ p.id \in Sessions
    BY LiveServerAssumption DEF Generates
  <2>3. DOMAIN e = DOMAIN p /\ e.id = p.id /\ e.type = "generate" BY <2>1, <2>2
  <2>. QED BY <1>1, <2>2, <2>3 DEF HasId, SameRequest, PostTypes
<1>. QED BY <1>2, <1>3

\* A stamp changes the stage only.
LEMMA StampedIs ==
  ASSUME NEW e \in Requests, e.type = "generate", NEW g \in Stages
  PROVE  LET f == [e EXCEPT !.stage = g]
         IN  f \in Requests /\ f.id = e.id /\ f.type = "generate" /\ f.stage = g
<1> DEFINE f == [e EXCEPT !.stage = g]
<1>1. PICK p \in Generates : e = p \/ \E h \in Stages : e = [p EXCEPT !.stage = h]
  BY DEF Requests, Generates
<1>2. /\ p.type = "generate" /\ {"id", "type", "stage"} \subseteq DOMAIN p
  BY LiveServerAssumption DEF Generates
<1>3. DOMAIN e = DOMAIN p /\ e.id = p.id BY <1>1, <1>2
<1>4. f = [p EXCEPT !.stage = g] BY <1>1
<1>5. f \in Requests BY <1>4 DEF Requests
<1>6. f.id = e.id /\ f.type = "generate" /\ f.stage = g BY <1>2, <1>3
<1>. QED BY <1>5, <1>6

LEMMA SameAsIs ==
  ASSUME NEW e, NEW f, NEW g, SameRequest(e, f)
  PROVE  (SameRequest(g, e) <=> SameRequest(g, f)) /\ (SameRequest(e, g) <=> SameRequest(f, g))
BY Zenon DEF SameRequest

IsQueue(q) == q \in Queues(1 .. MaxSeq, Requests) /\ Numbered(q) /\ NoCopies(q)

LEMMA EntriesOf ==
  ASSUME NEW q, IsQueue(q)
  PROVE  /\ DOMAIN q = 1 .. Len(q) /\ Len(q) \in Nat
         /\ \A i \in DOMAIN q : /\ q[i].seq \in 1 .. MaxSeq /\ q[i].event \in Requests
                                /\ q[i].lease \in {"free", "held", "lapsed"}
<1>1. \A i \in DOMAIN q : q[i] \in [seq : 1 .. MaxSeq, event : Requests, lease : {"free", "held", "lapsed"}]
  BY QueueEntries DEF IsQueue
<1>. QED BY <1>1 DEF IsQueue, Queues

\* r has no entry that q has not, but for the leases.
Within(q, r) ==
  IsQueue(r) /\ \A k \in DOMAIN r : \E i \in DOMAIN q : r[k].seq = q[i].seq /\ r[k].event = q[i].event

LEMMA LeaseWithin ==
  ASSUME NEW q, IsQueue(q), NEW seqs, NEW l \in {"free", "held", "lapsed"}
  PROVE  LET r == SetLease(q, seqs, l)
         IN  /\ Within(q, r) /\ DOMAIN r = DOMAIN q
             /\ \A i \in DOMAIN q : /\ r[i].seq = q[i].seq /\ r[i].event = q[i].event
                                    /\ r[i].lease = IF q[i].seq \in seqs THEN l ELSE q[i].lease
<1> DEFINE r == SetLease(q, seqs, l)
<1>1. IsQueue(r) BY SetLeaseQueue DEF IsQueue
<1>2. /\ DOMAIN r = DOMAIN q
      /\ \A i \in DOMAIN q : /\ r[i].seq = q[i].seq /\ r[i].event = q[i].event
                             /\ r[i].lease = IF q[i].seq \in seqs THEN l ELSE q[i].lease
  BY SetLeaseIs DEF IsQueue
<1> HIDE DEF r
<1>. QED BY <1>1, <1>2 DEF Within, r

LEMMA RetainWithin ==
  ASSUME NEW q, IsQueue(q), NEW keep
  PROVE  LET r == Retain(q, keep)
         IN  /\ Within(q, r)
             /\ \A k \in DOMAIN r : \E i \in DOMAIN q : i \in keep /\ r[k] = q[i]
             /\ \A i \in DOMAIN q : i \in keep => \E k \in DOMAIN r : r[k] = q[i]
<1> DEFINE r == Retain(q, keep)
<1>1. /\ IsQueue(r)
      /\ \A k \in DOMAIN r : \E i \in DOMAIN q : i \in keep /\ r[k] = q[i]
  BY RetainQueue DEF IsQueue
<1>2. \A i \in DOMAIN q : i \in keep => \E k \in DOMAIN r : r[k] = q[i]
  <2> DEFINE T == [seq : 1 .. MaxSeq, event : Requests, lease : {"free", "held", "lapsed"}]
  <2>1. q \in Seq(T) BY DEF IsQueue, Queues
  <2> HIDE DEF T
  <2>2. ASSUME NEW u, u = Retain(q, keep)
        PROVE  \A i \in DOMAIN q : i \in keep => \E k \in DOMAIN u : u[k] = q[i]
    BY <2>1, <2>2, RetainIs
  <2>. QED BY <2>2
<1> HIDE DEF r
<1>. QED BY <1>1, <1>2 DEF Within, r

LEMMA MatchingFirst ==
  ASSUME NEW q, IsQueue(q), NEW id, NEW type, Matching(q, id, type) # {}
  PROVE  First(Matching(q, id, type)) \in Matching(q, id, type)
<1>1. Matching(q, id, type) \subseteq Nat BY EntriesOf DEF Matching
<1>. QED BY <1>1, FirstIsLeast

\* An acknowledged entry leaves the queue, and no other.
LEMMA AcknowledgeIs ==
  ASSUME NEW q, IsQueue(q), NEW id, NEW type
  PROVE  LET r == Acknowledge(q, id, type)
         IN  /\ Within(q, r)
             /\ \A k \in DOMAIN r : \E i \in DOMAIN q :
                  r[k] = q[i] /\ (Matching(q, id, type) # {} => i # First(Matching(q, id, type)))
             /\ \A i \in DOMAIN q :
                  \/ Matching(q, id, type) # {} /\ i = First(Matching(q, id, type))
                  \/ \E k \in DOMAIN r : r[k] = q[i]
<1> DEFINE M == Matching(q, id, type)
           r == Acknowledge(q, id, type)
<1>1. CASE M = {}
  <2>1. r = q BY <1>1 DEF Acknowledge
  <2>. QED BY <1>1, <2>1 DEF Within
<1>2. CASE M # {}
  <2> DEFINE f == First(M)
             keep == {i \in DOMAIN q : q[i].seq \notin {q[f].seq}}
  <2>0. f \in M BY <1>2, MatchingFirst
  <2>1. f \in M /\ f \in DOMAIN q BY <2>0 DEF Matching
  <2>2. r = Retain(q, keep) BY <1>2 DEF Acknowledge, Without
  <2>3. \A i \in DOMAIN q : i \in keep <=> i # f BY <2>1 DEF IsQueue, Numbered
  <2> HIDE DEF M, r, f, keep
  <2>4. /\ Within(q, r)
        /\ \A k \in DOMAIN r : \E i \in DOMAIN q : i \in keep /\ r[k] = q[i]
        /\ \A i \in DOMAIN q : i \in keep => \E k \in DOMAIN r : r[k] = q[i]
    BY <2>2, RetainWithin
  <2>5. /\ \A k \in DOMAIN r : \E i \in DOMAIN q : r[k] = q[i] /\ i # f
        /\ \A i \in DOMAIN q : i = f \/ \E k \in DOMAIN r : r[k] = q[i]
    BY <2>3, <2>4
  <2>. QED BY <1>2, <2>4, <2>5 DEF f, M, r
<1>. QED BY <1>1, <1>2

LEMMA RetireIs ==
  ASSUME NEW q, IsQueue(q), NEW id
  PROVE  LET r == RetireGeneration(q, id)
         IN  /\ Within(q, r)
             /\ \A k \in DOMAIN r : \E i \in DOMAIN q :
                  r[k] = q[i] /\ ~(q[i].event.type = "generate" /\ q[i].event.id = id)
             /\ \A i \in DOMAIN q : \/ q[i].event.type = "generate" /\ q[i].event.id = id
                                    \/ \E k \in DOMAIN r : r[k] = q[i]
<1> DEFINE keep == DOMAIN q \ Matching(q, id, "generate")
           r == RetireGeneration(q, id)
<1>1. r = Retain(q, keep) BY DEF RetireGeneration
<1>2. \A i \in DOMAIN q : i \in keep <=> ~(q[i].event.type = "generate" /\ q[i].event.id = id)
  BY EntriesOf, RequestIs DEF Matching
<1> HIDE DEF keep, r
<1>3. /\ Within(q, r)
      /\ \A k \in DOMAIN r : \E i \in DOMAIN q : i \in keep /\ r[k] = q[i]
      /\ \A i \in DOMAIN q : i \in keep => \E k \in DOMAIN r : r[k] = q[i]
  BY <1>1, RetainWithin
<1>. QED BY <1>2, <1>3 DEF r

LEMMA StoreIs ==
  ASSUME NEW q, IsQueue(q), NEW e \in Requests, NEW s,
         \A i \in DOMAIN q : q[i].seq = s => SameRequest(q[i].event, e)
  PROVE  LET r == Store(q, s, e)
         IN  /\ IsQueue(r) /\ DOMAIN r = DOMAIN q
             /\ \A i \in DOMAIN q : /\ r[i].seq = q[i].seq /\ r[i].lease = q[i].lease
                                    /\ r[i].event = IF q[i].seq = s THEN e ELSE q[i].event
<1> DEFINE r == Store(q, s, e)
           T == [seq : 1 .. MaxSeq, event : Requests, lease : {"free", "held", "lapsed"}]
<1>1. DOMAIN r = DOMAIN q BY DEF Store
<1>2. \A i \in DOMAIN q : q[i] \in T BY QueueEntries DEF IsQueue
<1>3. \A i \in DOMAIN q : r[i] = IF q[i].seq = s THEN [q[i] EXCEPT !.event = e] ELSE q[i]
  BY DEF Store
<1>4. \A i \in DOMAIN q : /\ r[i] \in T
                          /\ r[i].seq = q[i].seq /\ r[i].lease = q[i].lease
                          /\ r[i].event = IF q[i].seq = s THEN e ELSE q[i].event
  BY <1>2, <1>3
<1>5. r \in Queues(1 .. MaxSeq, Requests)
  <2>1. DOMAIN q = 1 .. Len(q) /\ Len(q) \in Nat BY EntriesOf
  <2>2. \A i \in 1 .. Len(q) : r[i] \in T BY <1>4, <2>1
  <2>3. r = [i \in 1 .. Len(q) |-> r[i]] BY <2>1 DEF Store
  <2> HIDE DEF T, r
  <2>4. r \in Seq(T) BY <2>1, <2>2, <2>3
  <2>. QED BY <2>4 DEF T, Queues
<1>6. Numbered(r) BY <1>1, <1>4 DEF IsQueue, Numbered
<1>7. NoCopies(r)
  <2> SUFFICES ASSUME NEW i \in DOMAIN q, NEW j \in DOMAIN q, SameRequest(r[i].event, r[j].event)
               PROVE  i = j
    BY <1>1 DEF NoCopies
  <2>1. \A k \in DOMAIN q : r[k].event = q[k].event \/ SameRequest(q[k].event, r[k].event)
    BY <1>4
  <2>2. SameRequest(q[i].event, q[j].event) BY <2>1, SameAsIs
  <2>. QED BY <2>2 DEF IsQueue, NoCopies
<1>. QED BY <1>1, <1>4, <1>5, <1>6, <1>7 DEF IsQueue

LEMMA EnqueueIs ==
  ASSUME NEW q, IsQueue(q), NEW e \in Requests, NEW n \in 1 .. MaxSeq,
         \A i \in DOMAIN q : q[i].seq < n
  PROVE  LET r == Enqueue(q, e, n)
         IN  /\ IsQueue(r)
             /\ \A k \in DOMAIN r : \/ k \in DOMAIN q /\ r[k] = q[k]
                                    \/ /\ r[k] = [seq |-> n, event |-> e, lease |-> "free"]
                                       /\ ~Duplicate(q, e)
             /\ \A i \in DOMAIN q : i \in DOMAIN r /\ r[i] = q[i]
             /\ \E k \in DOMAIN r : SameRequest(r[k].event, e)
<1> DEFINE r == Enqueue(q, e, n)
           new == [seq |-> n, event |-> e, lease |-> "free"]
<1>0. DOMAIN q = 1 .. Len(q) /\ Len(q) \in Nat /\ \A i \in DOMAIN q : q[i].seq \in 1 .. MaxSeq
  BY EntriesOf
<1>1. n \notin Seqs(q) BY <1>0 DEF Seqs
<1>2. IsQueue(r) BY <1>1, EnqueueQueue DEF IsQueue
<1>3. CASE Duplicate(q, e)
  <2>1. r = q BY <1>3 DEF Enqueue
  <2>. QED BY <1>2, <1>3, <2>1 DEF Duplicate
<1>4. CASE ~Duplicate(q, e)
  <2>1. r = Append(q, new) BY <1>4 DEF Enqueue
  <2>2. /\ DOMAIN r = 1 .. Len(q) + 1 /\ r[Len(q) + 1] = new
        /\ \A i \in DOMAIN q : r[i] = q[i]
    BY <1>0, <2>1 DEF IsQueue, Queues
  <2>3. \A k \in DOMAIN r : k \in DOMAIN q \/ k = Len(q) + 1 BY <1>0, <2>2
  <2>4. new.event = e /\ SameRequest(e, e) BY RequestIs
  <2> HIDE DEF new, r
  <2>5. SameRequest(r[Len(q) + 1].event, e) BY <2>2, <2>4
  <2>. QED BY <1>0, <1>2, <1>4, <2>2, <2>3, <2>5 DEF r, new
<1>. QED BY <1>3, <1>4

----------------------------------------------------------------------------
(***************************************************************************)
(* What a restart queues again.                                            *)
(***************************************************************************)
RestoreNext(q, s) ==
  IF Active(s) /\ s.pending # NULL THEN Enqueue(q, s.pending, Len(q) + 1) ELSE q
RestoredTo(m, f) ==
  f = [i \in 0 .. m |-> IF i = 0 THEN <<>> ELSE RestoreNext(f[i - 1], snap[Order[i]])]

LEMMA RestoredExists ==
  ASSUME NEW n \in Nat
  PROVE  \E f : RestoredTo(n, f)
<1> DEFINE good == {m \in 0 .. n : \E f : RestoredTo(m, f)}
<1>1. 0 \in good
  <2>1. RestoredTo(0, [i \in 0 .. 0 |-> <<>>]) BY DEF RestoredTo
  <2>. QED BY <2>1
<1>2. ASSUME NEW m \in 1 .. n, m - 1 \in good PROVE m \in good
  <2>1. PICK g : RestoredTo(m - 1, g) BY <1>2
  <2> DEFINE next(i) == RestoreNext(g[i - 1], snap[Order[i]])
             f == [i \in 0 .. m |-> IF i = m THEN next(m) ELSE g[i]]
  <2>2. \A i \in 0 .. m - 1 : f[i] = g[i] OBVIOUS
  <2>3. \A i \in 0 .. m - 1 : g[i] = IF i = 0 THEN <<>> ELSE next(i) BY <2>1 DEF RestoredTo
  <2>4. ASSUME NEW i \in 0 .. m
        PROVE  f[i] = IF i = 0 THEN <<>> ELSE RestoreNext(f[i - 1], snap[Order[i]])
    <3>1. CASE i = m BY <3>1, <2>2
    <3>2. CASE i # m
      <4>1. i \in 0 .. m - 1 /\ (i # 0 => i - 1 \in 0 .. m - 1) BY <3>2
      <4>. QED BY <4>1, <2>2, <2>3
    <3>. QED BY <3>1, <3>2
  <2>5. RestoredTo(m, f) BY <2>4 DEF RestoredTo
  <2>. QED BY <2>5
<1> HIDE DEF good
<1>3. \A m \in 0 .. n : m \in good BY <1>1, <1>2, UpTo
<1>4. n \in good BY <1>3
<1>. QED BY <1>4 DEF good

LEMMA RestoredSteps ==
  \E f : /\ Restored = f[Len(Order)]
         /\ f[0] = <<>>
         /\ \A i \in 1 .. Len(Order) : f[i] = RestoreNext(f[i - 1], snap[Order[i]])
<1> DEFINE f == CHOOSE g : RestoredTo(Len(Order), g)
<1>0. Len(Order) \in Nat BY LiveServerAssumption
<1>1. RestoredTo(Len(Order), f) BY <1>0, RestoredExists
<1>2. Restored = f[Len(Order)]
  <2> DEFINE h == CHOOSE g : g = [i \in 0 .. Len(Order) |->
                    IF i = 0 THEN <<>>
                    ELSE IF Active(snap[Order[i]]) /\ snap[Order[i]].pending # NULL
                         THEN Enqueue(g[i - 1], snap[Order[i]].pending, Len(g[i - 1]) + 1)
                         ELSE g[i - 1]]
  <2>1. Restored = h[Len(Order)] BY Zenon DEF Restored
  <2>2. f = h BY Zenon DEF RestoredTo, RestoreNext
  <2>. QED BY <2>1, <2>2
<1> HIDE DEF f
<1>3. f[0] = <<>> BY <1>1 DEF RestoredTo
<1>4. ASSUME NEW i \in 1 .. Len(Order) PROVE f[i] = RestoreNext(f[i - 1], snap[Order[i]])
  <2>1. i \in 0 .. Len(Order) /\ i # 0 BY <1>0
  <2>2. f[i] = IF i = 0 THEN <<>> ELSE RestoreNext(f[i - 1], snap[Order[i]])
    BY <1>1, <2>1, Zenon DEF RestoredTo
  <2>. QED BY <2>1, <2>2, Zenon
<1>. QED BY <1>2, <1>3, <1>4

\* The sessions that a restart has something to queue of.
Owed(s) == Active(snap[s]) /\ snap[s].pending # NULL

SnapOK ==
  /\ DOMAIN snap = Sessions
  /\ \A s \in Sessions : /\ IsSnapshot(snap[s])
                         /\ snap[s].pending # NULL => snap[s].pending.id = s
                         /\ s \notin known => snap[s] = BaseSnapshot

\* What is restored of the first m sessions.
Restores(q, m) ==
  /\ q \in Queues(Nat \ {0}, Requests) /\ Numbered(q) /\ NoCopies(q)
  /\ \A i \in DOMAIN q :
       /\ q[i].seq <= Len(q) /\ q[i].lease = "free"
       /\ \E s \in Sessions : Owed(s) /\ q[i].event = snap[s].pending
  /\ \A j \in 1 .. m : Owed(Order[j]) =>
       \E i \in DOMAIN q : SameRequest(q[i].event, snap[Order[j]].pending)

LEMMA SessionsAreOrdered ==
  /\ Len(Order) \in Nat
  /\ \A j \in 1 .. Len(Order) : Order[j] \in Sessions
  /\ \A s \in Sessions : \E j \in 1 .. Len(Order) : Order[j] = s
BY LiveServerAssumption DEF Sessions, Range

LEMMA RestoreNextRestores ==
  ASSUME SnapOK, NEW m \in 1 .. Len(Order), NEW q, Restores(q, m - 1)
  PROVE  Restores(RestoreNext(q, snap[Order[m]]), m)
<1> DEFINE s == Order[m]
           e == snap[s].pending
           n == Len(q) + 1
           r == Enqueue(q, e, n)
<1>0. s \in Sessions /\ Len(Order) \in Nat BY SessionsAreOrdered
<1>1. CASE ~Owed(s)
  <2>1. RestoreNext(q, snap[s]) = q BY <1>1 DEF RestoreNext, Owed
  <2>2. \A j \in 1 .. m : j \in 1 .. m - 1 \/ j = m BY <1>0
  <2>. QED BY <1>1, <2>1, <2>2 DEF Restores
<1>2. CASE Owed(s)
  <2>1. RestoreNext(q, snap[s]) = r BY <1>2 DEF RestoreNext, Owed
  <2>2. e \in Requests /\ SameRequest(e, e) BY <1>0, <1>2, RequestIs DEF Owed, SnapOK, IsSnapshot
  <2>3. q \in Queues(Nat \ {0}, Requests) /\ Numbered(q) /\ NoCopies(q) BY DEF Restores
  <2>4. Len(q) \in Nat /\ DOMAIN q = 1 .. Len(q) BY <2>3 DEF Queues
  <2>5. n \in Nat \ {0} /\ n \notin Seqs(q)
    <3>1. \A i \in DOMAIN q : q[i].seq <= Len(q) BY DEF Restores
    <3>. QED BY <2>4, <3>1 DEF Seqs
  <2> HIDE DEF n, e
  <2>6. /\ r \in Queues(Nat \ {0}, Requests) /\ Numbered(r) /\ NoCopies(r)
        /\ \A k \in DOMAIN r : \/ k \in DOMAIN q /\ r[k] = q[k]
                               \/ r[k] = [seq |-> n, event |-> e, lease |-> "free"]
    BY <2>2, <2>3, <2>5, EnqueueQueue
  <2>7. /\ \A i \in DOMAIN q : i \in DOMAIN r /\ r[i] = q[i]
        /\ Len(q) <= Len(r)
        /\ (\E k \in DOMAIN r : r[k] = [seq |-> n, event |-> e, lease |-> "free"]) => n <= Len(r)
        /\ \E k \in DOMAIN r : SameRequest(r[k].event, e)
    <3>1. CASE Duplicate(q, e)
      <4>1. r = q BY <3>1 DEF Enqueue
      <4>2. \A k \in DOMAIN q : q[k].seq # n BY <2>5 DEF Seqs
      <4>. QED BY <2>4, <3>1, <4>1, <4>2 DEF Duplicate
    <3>2. CASE ~Duplicate(q, e)
      <4> DEFINE new == [seq |-> n, event |-> e, lease |-> "free"]
      <4>1. r = Append(q, new) BY <3>2 DEF Enqueue
      <4>2. /\ DOMAIN r = 1 .. Len(q) + 1 /\ r[Len(q) + 1] = new /\ Len(r) = n
            /\ \A i \in DOMAIN q : r[i] = q[i]
        BY <2>3, <2>4, <4>1 DEF Queues, n
      <4>3. new.event = e OBVIOUS
      <4> HIDE DEF new, r
      <4>4. Len(q) + 1 \in DOMAIN r /\ SameRequest(r[Len(q) + 1].event, e)
        BY <2>2, <2>4, <4>2, <4>3
      <4>5. Len(q) <= n /\ n <= n BY <2>4 DEF n
      <4>. QED BY <2>4, <4>2, <4>4, <4>5
    <3>. QED BY <3>1, <3>2
  <2> HIDE DEF r
  <2>8. Len(r) \in Nat BY <2>6 DEF Queues
  <2>9. ASSUME NEW k \in DOMAIN r
        PROVE  /\ r[k].seq <= Len(r) /\ r[k].lease = "free"
               /\ \E x \in Sessions : Owed(x) /\ r[k].event = snap[x].pending
    <3>1. CASE k \in DOMAIN q /\ r[k] = q[k]
      <4>1. q[k].seq <= Len(q) /\ q[k].seq \in Nat BY <2>3, <3>1, QueueEntries DEF Restores
      <4>2. r[k].seq <= Len(r) BY <2>4, <2>7, <2>8, <3>1, <4>1
      <4>. QED BY <3>1, <4>2 DEF Restores
    <3>2. CASE r[k] = [seq |-> n, event |-> e, lease |-> "free"]
      <4>1. n <= Len(r) BY <2>7, <3>2
      <4>2. Owed(s) /\ r[k].event = snap[s].pending BY <1>2, <3>2 DEF e
      <4>. QED BY <1>0, <3>2, <4>1, <4>2
    <3>. QED BY <2>6, <3>1, <3>2
  <2>10. ASSUME NEW j \in 1 .. m, Owed(Order[j])
         PROVE  \E i \in DOMAIN r : SameRequest(r[i].event, snap[Order[j]].pending)
    <3>1. CASE j = m BY <3>1, <2>7 DEF e
    <3>2. CASE j # m
      <4>1. j \in 1 .. m - 1 BY <1>0, <3>2
      <4>2. PICK i \in DOMAIN q : SameRequest(q[i].event, snap[Order[j]].pending)
        BY <2>10, <4>1 DEF Restores
      <4>3. i \in DOMAIN r /\ r[i] = q[i] BY <2>7
      <4>. QED BY <4>2, <4>3
    <3>. QED BY <3>1, <3>2
  <2>11. Restores(r, m) BY <2>6, <2>9, <2>10 DEF Restores
  <2>. QED BY <2>1, <2>11
<1>. QED BY <1>1, <1>2

LEMMA IntervalCounts ==
  ASSUME NEW n \in Nat
  PROVE  Cardinality(1 .. n) = n
<1>1. 1 \in Int /\ n \in Int OBVIOUS
<1>2. Cardinality(1 .. n) = IF 1 > n THEN 0 ELSE n - 1 + 1 BY <1>1, FS_Interval
<1>. QED BY <1>2

LEMMA RestoredIs ==
  ASSUME SnapOK, NEW T, IsFiniteSet(T), Cardinality(T) <= MaxSeq,
         \A s \in Sessions : Owed(s) => s \in T
  PROVE  /\ IsQueue(Restored) /\ Len(Restored) \in 0 .. MaxSeq
         /\ \A i \in DOMAIN Restored :
              /\ Restored[i].seq <= Len(Restored) /\ Restored[i].lease = "free"
              /\ \E s \in Sessions : Owed(s) /\ Restored[i].event = snap[s].pending
         /\ \A s \in Sessions : Owed(s) =>
              \E i \in DOMAIN Restored : SameRequest(Restored[i].event, snap[s].pending)
<1> DEFINE R == Restored
<1>0. Len(Order) \in Nat BY SessionsAreOrdered
<1>1. PICK f : /\ R = f[Len(Order)] /\ f[0] = <<>>
               /\ \A i \in 1 .. Len(Order) : f[i] = RestoreNext(f[i - 1], snap[Order[i]])
  BY RestoredSteps
<1> HIDE DEF R
<1> DEFINE good == {m \in 0 .. Len(Order) : Restores(f[m], m)}
<1>2. 0 \in good
  <2>1. f[0] \in Queues(Nat \ {0}, Requests) /\ DOMAIN f[0] = {} BY <1>1 DEF Queues
  <2>2. Restores(f[0], 0) BY <2>1 DEF Restores, Numbered, NoCopies
  <2>. QED BY <1>0, <2>2
<1>3. ASSUME NEW m \in 1 .. Len(Order), m - 1 \in good PROVE m \in good
  <2>1. Restores(f[m], m) BY <1>1, <1>3, RestoreNextRestores
  <2>. QED BY <2>1
<1> HIDE DEF good
<1>4. \A m \in 0 .. Len(Order) : m \in good BY <1>0, <1>2, <1>3, UpTo
<1>5. Restores(R, Len(Order)) BY <1>0, <1>1, <1>4 DEF good
<1>6. /\ R \in Queues(Nat \ {0}, Requests) /\ Numbered(R) /\ NoCopies(R)
      /\ DOMAIN R = 1 .. Len(R) /\ Len(R) \in Nat
  BY <1>5 DEF Restores, Queues
<1>7. Len(R) <= MaxSeq
  <2> DEFINE id == [i \in 1 .. Len(R) |-> R[i].event.id]
  <2>1. ASSUME NEW i \in DOMAIN R
        PROVE  R[i].event.id \in T /\ R[i].event = snap[R[i].event.id].pending /\ SameRequest(R[i].event, R[i].event)
    <3>1. PICK s \in Sessions : Owed(s) /\ R[i].event = snap[s].pending BY <1>5 DEF Restores
    <3>2. R[i].event.id = s /\ R[i].event \in Requests BY <3>1 DEF SnapOK, Owed, IsSnapshot
    <3>. QED BY <3>1, <3>2, RequestIs
  <2>2. ASSUME NEW i \in DOMAIN R, NEW j \in DOMAIN R, R[i].event.id = R[j].event.id
        PROVE  i = j
    <3>1. SameRequest(R[i].event, R[j].event) BY <2>1, <2>2
    <3>. QED BY <1>6, <3>1 DEF NoCopies
  <2>3. id \in Injection(1 .. Len(R), T) BY <1>6, <2>1, <2>2 DEF Injection, IsInjective
  <2>4. Cardinality(1 .. Len(R)) <= Cardinality(T)
    <3> HIDE DEF id
    <3>. QED BY <2>3, FS_Injection
  <2>5. Cardinality(1 .. Len(R)) = Len(R) BY <1>6, IntervalCounts
  <2>6. Cardinality(T) \in Nat /\ MaxSeq \in Nat BY FS_CardinalityType, LiveServerAssumption
  <2>. QED BY <1>6, <2>4, <2>5, <2>6
<1>8. R \in Queues(1 .. MaxSeq, Requests)
  <2> DEFINE E == [seq : 1 .. MaxSeq, event : Requests, lease : {"free", "held", "lapsed"}]
  <2>1. \A i \in DOMAIN R : R[i] \in [seq : Nat \ {0}, event : Requests, lease : {"free", "held", "lapsed"}]
    BY <1>6, QueueEntries
  <2>2. \A i \in DOMAIN R : R[i].seq <= Len(R) BY <1>5 DEF Restores
  <2>3. MaxSeq \in Nat BY LiveServerAssumption
  <2>4. \A i \in DOMAIN R : R[i].seq \in 1 .. MaxSeq BY <1>6, <1>7, <2>1, <2>2, <2>3
  <2>5. \A i \in DOMAIN R : R[i] \in E BY <2>1, <2>4
  <2>6. R = [i \in 1 .. Len(R) |-> R[i]] BY <1>6 DEF Queues
  <2> HIDE DEF E
  <2>7. R \in Seq(E) BY <1>6, <2>5, <2>6
  <2>. QED BY <2>7 DEF E, Queues
<1>9. \A s \in Sessions : Owed(s) => \E i \in DOMAIN R : SameRequest(R[i].event, snap[s].pending)
  BY <1>5, SessionsAreOrdered DEF Restores
<1>10. MaxSeq \in Nat BY LiveServerAssumption
<1>. QED BY <1>5, <1>6, <1>7, <1>8, <1>9, <1>10 DEF IsQueue, Restores, R

----------------------------------------------------------------------------
(***************************************************************************)
(* The inductive invariant: types, and whose event an agent has.           *)
(***************************************************************************)
Places == {"idle", "claimed", "preflight", "prepared", "working", "checking", "cleanup"}
Works == [seq : 0 .. MaxSeq, event : Requests \cup {NULL}, reply : Entries \cup {NULL}]

BoundsOK ==
  /\ known \subseteq Sessions /\ shown \subseteq known
  /\ nextSeq \in 1 .. MaxSeq + 1 /\ restarts \in 0 .. MaxRestarts

QueueOK ==
  IsQueue(queue) /\ \A i \in DOMAIN queue : queue[i].seq < nextSeq /\ queue[i].event.id \in known

\* A lease names the entry it was given, if that is still queued.
Leases(a) ==
  /\ work[a].seq \in 1 .. MaxSeq /\ work[a].seq < nextSeq
  /\ \A i \in DOMAIN queue :
       queue[i].seq = work[a].seq => SameRequest(queue[i].event, work[a].event)
AgentOK(a) ==
  at[a] # "idle" =>
    /\ work[a].event \in Requests /\ work[a].event.id \in known
    /\ at[a] = "preflight" => NeedsPreflight(work[a].event)
    /\ at[a] = "checking" /\ work[a].reply # NULL => work[a].reply.id = work[a].event.id
    /\ a \in Leasing => Leases(a)
AgentsOK ==
  at \in [Agents -> Places] /\ work \in [Agents -> Works] /\ \A a \in Agents : AgentOK(a)

(* Every session in use has taken a number of its own since the start of   *)
(* the process, so that what a restart queues fits in the bound.           *)
InUse ==
  {queue[i].event.id : i \in DOMAIN queue} \cup {work[a].event.id : a \in Leasing}
    \cup {s \in Sessions : Owed(s)}
Counted == IsFiniteSet(InUse) /\ Cardinality(InUse) < nextSeq

LInv == BoundsOK /\ QueueOK /\ AgentsOK /\ SnapOK /\ Counted

LEMMA CountedStays ==
  ASSUME LInv, InUse' \subseteq InUse, nextSeq' = nextSeq
  PROVE  Counted'
<1>1. IsFiniteSet(InUse) /\ Cardinality(InUse) < nextSeq /\ nextSeq \in Nat
  BY LiveServerAssumption DEF LInv, Counted, BoundsOK
<1>2. IsFiniteSet(InUse') /\ Cardinality(InUse') <= Cardinality(InUse) BY <1>1, FS_Subset
<1>3. Cardinality(InUse') \in Nat /\ Cardinality(InUse) \in Nat BY <1>1, <1>2, FS_CardinalityType
<1>. QED BY <1>1, <1>2, <1>3 DEF Counted

LEMMA CountedGrows ==
  ASSUME LInv, NEW s, InUse' \subseteq InUse \cup {s}, nextSeq' = nextSeq + 1
  PROVE  Counted'
<1> DEFINE T == InUse \cup {s}
<1>1. IsFiniteSet(InUse) /\ Cardinality(InUse) < nextSeq /\ nextSeq \in Nat
  BY LiveServerAssumption DEF LInv, Counted, BoundsOK
<1>2. Cardinality(InUse) \in Nat BY <1>1, FS_CardinalityType
<1>3. IsFiniteSet(T) /\ Cardinality(T) <= Cardinality(InUse) + 1
  <2>1. IsFiniteSet(T) /\ Cardinality(T) = IF s \in InUse THEN Cardinality(InUse) ELSE Cardinality(InUse) + 1
    BY <1>1, FS_AddElement
  <2> HIDE DEF T
  <2>. QED BY <1>2, <2>1
<1> HIDE DEF T
<1>4. InUse' \in SUBSET T BY DEF T
<1>5. IsFiniteSet(InUse') /\ Cardinality(InUse') <= Cardinality(T) BY <1>3, <1>4, FS_Subset
<1>6. Cardinality(InUse') \in Nat /\ Cardinality(T) \in Nat BY <1>3, <1>5, FS_CardinalityType
<1>. QED BY <1>1, <1>2, <1>3, <1>5, <1>6 DEF Counted

\* One session's snapshot changes.
Becomes(id, t) ==
  /\ IsSnapshot(t) /\ (t.pending # NULL => t.pending.id = id)
  /\ snap' = [snap EXCEPT ![id] = t]

LEMMA SnapOf ==
  ASSUME SnapOK, NEW id \in Sessions, NEW t, Becomes(id, t)
  PROVE  DOMAIN snap' = Sessions /\ snap'[id] = t /\ \A s \in Sessions : s # id => snap'[s] = snap[s]
BY DEF SnapOK, Becomes

LEMMA SnapBecomes ==
  ASSUME SnapOK, NEW id \in Sessions, NEW t, Becomes(id, t), known \subseteq known', id \in known'
  PROVE  SnapOK'
BY SnapOf DEF SnapOK, Becomes

LEMMA SnapStays ==
  ASSUME SnapOK, snap' = snap, known' = known
  PROVE  SnapOK' /\ \A s \in Sessions : Owed(s)' = Owed(s)
BY DEF SnapOK, Owed, Active

\* The queue takes in new entries only, and keeps the requests of the others.
Moves ==
  \A k \in DOMAIN queue' :
    \/ queue'[k].seq >= nextSeq
    \/ \E i \in DOMAIN queue : /\ queue'[k].seq = queue[i].seq
                               /\ SameRequest(queue'[k].event, queue[i].event)

LEMMA AgentStays ==
  ASSUME LInv, NEW a \in Agents, at'[a] = at[a], work'[a] = work[a],
         known \subseteq known', nextSeq <= nextSeq', nextSeq' \in Nat, Moves
  PROVE  AgentOK(a)'
<1> SUFFICES ASSUME at[a] # "idle" PROVE AgentOK(a)' BY DEF AgentOK
<1>1. AgentOK(a) BY DEF LInv, AgentsOK
<1>2. (a \in Leasing)' = (a \in Leasing) BY DEF Leasing
<1>3. ASSUME a \in Leasing PROVE Leases(a)'
  <2>1. Leases(a) BY <1>1, <1>3 DEF AgentOK
  <2>2. work[a].seq \in Nat /\ nextSeq \in Nat BY <2>1, LiveServerAssumption DEF LInv, BoundsOK, Leases
  <2>3. ASSUME NEW k \in DOMAIN queue', queue'[k].seq = work[a].seq
        PROVE  SameRequest(queue'[k].event, work[a].event)
    <3>1. PICK i \in DOMAIN queue : /\ queue'[k].seq = queue[i].seq
                                    /\ SameRequest(queue'[k].event, queue[i].event)
      BY <2>1, <2>2, <2>3 DEF Moves, Leases
    <3>2. SameRequest(queue[i].event, work[a].event) BY <2>1, <2>3, <3>1 DEF Leases
    <3>. QED BY <3>1, <3>2, SameAsIs
  <2>. QED BY <2>1, <2>2, <2>3 DEF Leases
<1>. QED BY <1>1, <1>2, <1>3 DEF AgentOK

\* Entries leave the queue, or their leases change.
LEMMA WithinKeeps ==
  ASSUME LInv, Within(queue, queue'), nextSeq' = nextSeq, known \subseteq known'
  PROVE  /\ QueueOK' /\ Moves /\ nextSeq <= nextSeq' /\ nextSeq' \in Nat
         /\ \A k \in DOMAIN queue' : \E i \in DOMAIN queue : queue'[k].event.id = queue[i].event.id
<1>1. \A k \in DOMAIN queue' : \E i \in DOMAIN queue :
        queue'[k].seq = queue[i].seq /\ queue'[k].event = queue[i].event
  BY DEF Within
<1>2. \A i \in DOMAIN queue : SameRequest(queue[i].event, queue[i].event)
  BY EntriesOf, RequestIs DEF LInv, QueueOK
<1>3. Moves BY <1>1, <1>2 DEF Moves
<1>4. QueueOK' BY <1>1 DEF Within, LInv, QueueOK
<1>5. nextSeq \in Nat BY LiveServerAssumption DEF LInv, BoundsOK
<1>. QED BY <1>1, <1>3, <1>4, <1>5

LEMMA QueueStays ==
  ASSUME LInv, queue' = queue
  PROVE  Within(queue, queue')
BY DEF LInv, QueueOK, Within

----------------------------------------------------------------------------
(***************************************************************************)
(* The invariant holds at first, and every action keeps it.                *)
(***************************************************************************)
LEMMA InitLInv == ASSUME Init PROVE LInv
<1>0. MaxSeq \in Nat /\ MaxRestarts \in Nat BY LiveServerAssumption
<1>1. BoundsOK BY <1>0 DEF Init, BoundsOK
<1>2. IsQueue(<<>>)
  BY DEF IsQueue, Queues, Numbered, NoCopies
<1>3. QueueOK BY <1>2 DEF Init, QueueOK
<1>4. NoWork \in Works BY <1>0 DEF NoWork, Works
<1>5. AgentsOK BY <1>4 DEF Init, AgentsOK, AgentOK, Places
<1>6. SnapOK BY BaseIsSnapshot, BaseFields DEF Init, SnapOK
<1>7. InUse = {}
  <2>1. DOMAIN queue = {} BY DEF Init
  <2>2. Leasing = {} BY DEF Init, Leasing
  <2>3. \A s \in Sessions : ~Owed(s) BY BaseFields DEF Init, Owed
  <2>. QED BY <2>1, <2>2, <2>3 DEF InUse
<1>8. Counted
  <2>1. IsFiniteSet({}) /\ Cardinality({}) = 0 BY FS_EmptySet
  <2>. QED BY <1>7, <2>1 DEF Counted, Init
<1>. QED BY <1>1, <1>3, <1>5, <1>6, <1>8 DEF LInv

LEMMA UsesAre ==
  ASSUME NEW U, \A k \in DOMAIN queue : queue[k].event.id \in U,
         \A a \in Leasing : work[a].event.id \in U,
         \A s \in Sessions : Owed(s) => s \in U
  PROVE  InUse \subseteq U
BY DEF InUse

LEMMA InUseHas ==
  /\ \A k \in DOMAIN queue : queue[k].event.id \in InUse
  /\ \A a \in Leasing : work[a].event.id \in InUse
  /\ \A s \in Sessions : Owed(s) => s \in InUse
BY DEF InUse

\* One agent moves.
LEMMA AgentMoves ==
  ASSUME LInv, NEW a \in Agents, NEW p \in Places, NEW w \in Works,
         at' = [at EXCEPT ![a] = p], work' = [work EXCEPT ![a] = w],
         AgentOK(a)', known \subseteq known', nextSeq <= nextSeq', nextSeq' \in Nat, Moves
  PROVE  AgentsOK'
<1>1. at' \in [Agents -> Places] /\ work' \in [Agents -> Works] BY DEF LInv, AgentsOK
<1>2. ASSUME NEW b \in Agents PROVE AgentOK(b)'
  <2>1. CASE b = a BY <2>1
  <2>2. CASE b # a
    <3>1. at'[b] = at[b] /\ work'[b] = work[b] BY <2>2 DEF LInv, AgentsOK
    <3>. QED BY <3>1, AgentStays
  <2>. QED BY <2>1, <2>2
<1>. QED BY <1>1, <1>2 DEF AgentsOK

LEMMA AgentsStay ==
  ASSUME LInv, at' = at, work' = work,
         known \subseteq known', nextSeq <= nextSeq', nextSeq' \in Nat, Moves
  PROVE  AgentsOK'
<1>1. at' \in [Agents -> Places] /\ work' \in [Agents -> Works] BY DEF LInv, AgentsOK
<1>2. ASSUME NEW b \in Agents PROVE AgentOK(b)' BY AgentStays
<1>. QED BY <1>1, <1>2 DEF AgentsOK

\* What an event of the overlay leaves pending is that event.
LEMMA PostBecomes ==
  ASSUME LInv, NEW e \in Posts
  PROVE  Becomes(e.id, Journaled(snap[e.id], e)) <=>
           snap' = [snap EXCEPT ![e.id] = Journaled(@, e)]
<1> DEFINE t == Journaled(snap[e.id], e)
<1>1. e.id \in Sessions BY PostsAreRequests
<1>2. IsSnapshot(snap[e.id]) /\ (snap[e.id].pending # NULL => snap[e.id].pending.id = e.id)
  BY <1>1 DEF LInv, SnapOK
<1>3. IsSnapshot(t) /\ (t.pending # NULL => t.pending.id = e.id)
  BY <1>2, JournaledIs DEF Asks
<1>4. [snap EXCEPT ![e.id] = Journaled(@, e)] = [snap EXCEPT ![e.id] = t] OBVIOUS
<1> HIDE DEF t
<1>5. Becomes(e.id, t) <=> snap' = [snap EXCEPT ![e.id] = Journaled(@, e)]
  BY <1>3, <1>4 DEF Becomes
<1>. QED BY <1>5 DEF t

LEMMA PostKeeps ==
  ASSUME LInv, NEW e \in Posts, Post(e)
  PROVE  LInv'
<1> DEFINE id == e.id
           kept == IF e.type \in Decisions THEN RetireGeneration(queue, id) ELSE queue
           t == Journaled(snap[id], e)
<1>0. id \in Sessions /\ e \in Requests /\ e.type \in PostTypes BY PostsAreRequests
<1>1. nextSeq \in 1 .. MaxSeq /\ MaxSeq \in Nat
  BY LiveServerAssumption DEF Post, LInv, BoundsOK
<1>2. Within(queue, kept) BY RetireIs, QueueStays DEF LInv, QueueOK, Within
<1>3. IsQueue(kept) /\ \A k \in DOMAIN kept : kept[k].seq < nextSeq /\ kept[k].event.id \in known
  BY <1>2 DEF Within, LInv, QueueOK
<1>4. Becomes(id, t) BY PostBecomes DEF Post
<1>5. /\ known' = known \cup {id} /\ at' = at /\ work' = work
      /\ shown' = shown /\ restarts' = restarts
  BY DEF Post
<1>6. SnapOK' BY <1>0, <1>4, <1>5, SnapBecomes DEF LInv
<1>7. /\ DOMAIN snap' = Sessions /\ snap'[id] = t
      /\ \A s \in Sessions : s # id => snap'[s] = snap[s]
  BY <1>0, <1>4, SnapOf DEF LInv
<1>8. Leasing' = Leasing BY <1>5 DEF Leasing
<1>9. \A s \in Sessions : Owed(s)' => s \in InUse \cup {id}
  <2>1. ASSUME NEW s \in Sessions, s # id PROVE Owed(s)' = Owed(s) BY <1>7, <2>1 DEF Owed
  <2>. QED BY <2>1, InUseHas
<1>10. \A k \in DOMAIN kept : /\ kept[k].event.id \in InUse
                              /\ \E i \in DOMAIN queue : kept[k].seq = queue[i].seq
                                                         /\ SameRequest(kept[k].event, queue[i].event)
  <2>1. \A i \in DOMAIN queue : SameRequest(queue[i].event, queue[i].event)
    BY EntriesOf, RequestIs DEF LInv, QueueOK
  <2>. QED BY <1>2, <2>1, InUseHas DEF Within
<1>11. CASE ~Queued(e)
  <2>1. queue' = kept /\ nextSeq' = nextSeq BY <1>11 DEF Post
  <2>2. Owed(id)' => Owed(id)
    <3>1. t.pending = NULL \/ e.type \in {"checkpoint", "variant_mounted"}
      BY <1>0, <1>11, JournaledIs DEF Queued, LInv, SnapOK
    <3>2. CASE t.pending = NULL BY <1>7, <3>2 DEF Owed
    <3>3. CASE e.type \in {"checkpoint", "variant_mounted"}
      <4>1. t.pending = snap[id].pending /\ (t.phase = snap[id].phase \/ snap[id].phase \notin FencedPhases)
        BY <1>0, <3>3, JournaledIs DEF Observes, LInv, SnapOK
      <4>. QED BY <1>7, <4>1, SomePhases DEF Owed, Active
    <3>. QED BY <3>1, <3>2, <3>3
  <2>3. \A s \in Sessions : Owed(s)' => s \in InUse
    <3>1. ASSUME NEW s \in Sessions, s # id PROVE Owed(s)' = Owed(s) BY <1>7, <3>1 DEF Owed
    <3>. QED BY <2>2, <3>1, InUseHas
  <2>4. InUse' \subseteq InUse
    <3>1. \A k \in DOMAIN queue' : queue'[k].event.id \in InUse BY <1>10, <2>1
    <3>2. \A a \in Leasing' : work'[a].event.id \in InUse BY <1>5, <1>8, InUseHas
    <3>. QED BY <2>3, <3>1, <3>2 DEF InUse
  <2>5. Counted' BY <2>1, <2>4, CountedStays
  <2>6. QueueOK' BY <1>3, <1>5, <2>1 DEF QueueOK
  <2>7. Moves BY <1>10, <2>1 DEF Moves
  <2>8. AgentsOK' BY <1>1, <1>5, <2>1, <2>7, AgentsStay
  <2>9. BoundsOK' BY <1>0, <1>5, <2>1 DEF LInv, BoundsOK
  <2>. QED BY <1>6, <2>5, <2>6, <2>8, <2>9 DEF LInv
<1>12. CASE Queued(e)
  <2>1. /\ queue' = Enqueue(kept, e, nextSeq)
        /\ nextSeq' = IF Duplicate(kept, e) THEN nextSeq ELSE nextSeq + 1
    BY <1>12 DEF Post
  <2> HIDE DEF kept, t
  <2>2. /\ IsQueue(queue')
        /\ \A k \in DOMAIN queue' :
             \/ k \in DOMAIN kept /\ queue'[k] = kept[k]
             \/ queue'[k] = [seq |-> nextSeq, event |-> e, lease |-> "free"] /\ ~Duplicate(kept, e)
    BY <1>0, <1>1, <1>3, <2>1, EnqueueIs
  <2>3. QueueOK'
    <3>1. ASSUME NEW k \in DOMAIN queue' PROVE queue'[k].seq < nextSeq' /\ queue'[k].event.id \in known'
      <4>1. CASE k \in DOMAIN kept /\ queue'[k] = kept[k]
        <5>1. kept[k].seq \in Nat /\ kept[k].seq < nextSeq BY <1>1, <1>3, <4>1, EntriesOf
        <5>. QED BY <1>1, <1>3, <1>5, <2>1, <4>1, <5>1
      <4>2. CASE queue'[k] = [seq |-> nextSeq, event |-> e, lease |-> "free"] /\ ~Duplicate(kept, e)
        BY <1>1, <1>5, <2>1, <4>2
      <4>. QED BY <2>2, <4>1, <4>2
    <3>. QED BY <2>2, <3>1 DEF QueueOK
  <2>4. Moves
    <3>1. ASSUME NEW k \in DOMAIN queue'
          PROVE  \/ queue'[k].seq >= nextSeq
                 \/ \E i \in DOMAIN queue : /\ queue'[k].seq = queue[i].seq
                                            /\ SameRequest(queue'[k].event, queue[i].event)
      BY <1>1, <1>10, <2>2
    <3>. QED BY <3>1 DEF Moves
  <2>5. nextSeq <= nextSeq' /\ nextSeq' \in 1 .. MaxSeq + 1 BY <1>1, <2>1
  <2>6. AgentsOK' BY <1>1, <1>5, <2>4, <2>5, AgentsStay
  <2>7. InUse' \subseteq InUse \cup {id}
    <3>1. \A k \in DOMAIN queue' : queue'[k].event.id \in InUse \cup {id} BY <1>10, <2>2
    <3>2. \A a \in Leasing' : work'[a].event.id \in InUse BY <1>5, <1>8, InUseHas
    <3>. QED BY <1>9, <3>1, <3>2 DEF InUse
  <2>8. Counted'
    <3>1. CASE ~Duplicate(kept, e) BY <2>1, <2>7, <3>1, CountedGrows
    <3>2. CASE Duplicate(kept, e)
      <4>1. id \in InUse
        <5>1. PICK k \in DOMAIN kept : SameRequest(kept[k].event, e) BY <3>2 DEF Duplicate
        <5>2. kept[k].event.id = id BY <5>1 DEF SameRequest
        <5>. QED BY <1>10, <5>2
      <4>. QED BY <2>1, <2>7, <3>2, <4>1, CountedStays
    <3>. QED BY <3>1, <3>2
  <2>9. BoundsOK' BY <1>0, <1>5, <2>5 DEF LInv, BoundsOK
  <2>. QED BY <1>6, <2>3, <2>6, <2>8, <2>9 DEF LInv
<1>. QED BY <1>11, <1>12

\* What is free to lease, and the work that it is.
LEMMA PollIs ==
  ASSUME LInv, NEW a \in Agents, Poll(a)
  PROVE  \E i \in DOMAIN queue :
           /\ queue[i].lease # "held"
           /\ queue' = SetLease(queue, {queue[i].seq}, "held")
           /\ work' = [work EXCEPT ![a] = [seq |-> queue[i].seq, event |-> queue[i].event, reply |-> NULL]]
<1> DEFINE i == Selected(queue, Unfiltered)
<1>1. IsQueue(queue) BY DEF LInv, QueueOK
<1>2. Numbered(queue) /\ \A k \in DOMAIN queue : queue[k].seq \in Nat
  BY <1>1, EntriesOf DEF IsQueue
<1>3. i \in Candidates(queue, Unfiltered) BY <1>2, SelectedIsCandidate DEF Poll
<1>4. i \in DOMAIN queue /\ queue[i].lease # "held" BY <1>3 DEF Candidates
<1>5. /\ queue' = SetLease(queue, {queue[i].seq}, "held")
      /\ work' = [work EXCEPT ![a] = [NoWork EXCEPT !.seq = queue[i].seq, !.event = queue[i].event]]
  BY DEF Poll
<1> HIDE DEF i
<1>6. \A n, e : [NoWork EXCEPT !.seq = n, !.event = e] = [seq |-> n, event |-> e, reply |-> NULL]
  <2> SUFFICES ASSUME NEW n, NEW e
               PROVE  [NoWork EXCEPT !.seq = n, !.event = e] = [seq |-> n, event |-> e, reply |-> NULL]
    OBVIOUS
  <2>1. [NoWork EXCEPT !.seq = n] = [seq |-> n, event |-> NULL, reply |-> NULL] BY DEF NoWork
  <2>2. [[seq |-> n, event |-> NULL, reply |-> NULL] EXCEPT !.event = e]
          = [seq |-> n, event |-> e, reply |-> NULL]
    OBVIOUS
  <2>. QED BY <2>1, <2>2
<1>7. work' = [work EXCEPT ![a] = [seq |-> queue[i].seq, event |-> queue[i].event, reply |-> NULL]]
  BY <1>5, <1>6, Zenon
<1>. QED BY <1>4, <1>5, <1>7

LEMMA PollKeeps ==
  ASSUME LInv, NEW a \in Agents, Poll(a)
  PROVE  LInv'
<1>1. PICK i \in DOMAIN queue :
        /\ queue' = SetLease(queue, {queue[i].seq}, "held")
        /\ work' = [work EXCEPT ![a] = [seq |-> queue[i].seq, event |-> queue[i].event, reply |-> NULL]]
  BY PollIs
<1> DEFINE w == [seq |-> queue[i].seq, event |-> queue[i].event, reply |-> NULL]
<1>2. /\ at[a] = "idle" /\ at' = [at EXCEPT ![a] = "claimed"]
      /\ UNCHANGED <<known, snap, nextSeq, shown, restarts>>
  BY DEF Poll
<1>3. /\ Within(queue, queue') /\ DOMAIN queue' = DOMAIN queue
      /\ \A k \in DOMAIN queue : queue'[k].seq = queue[k].seq /\ queue'[k].event = queue[k].event
  BY <1>1, LeaseWithin DEF LInv, QueueOK
<1>4. /\ QueueOK' /\ Moves /\ nextSeq <= nextSeq' /\ nextSeq' \in Nat
      /\ \A k \in DOMAIN queue' : \E j \in DOMAIN queue : queue'[k].event.id = queue[j].event.id
  BY <1>2, <1>3, WithinKeeps
<1>5. /\ queue[i].seq \in 1 .. MaxSeq /\ queue[i].seq < nextSeq
      /\ queue[i].event \in Requests /\ queue[i].event.id \in known
  BY EntriesOf DEF LInv, QueueOK
<1>6. w \in Works BY <1>5 DEF Works
<1>7. at'[a] = "claimed" /\ work'[a] = w BY <1>1, <1>2 DEF LInv, AgentsOK
<1>8. AgentOK(a)'
  <2>1. \A k \in DOMAIN queue' : queue'[k].seq = queue[i].seq => k = i
    BY <1>3 DEF LInv, QueueOK, IsQueue, Numbered
  <2>2. SameRequest(queue[i].event, queue[i].event) BY <1>5, RequestIs
  <2>3. Leases(a)' BY <1>2, <1>3, <1>5, <1>7, <2>1, <2>2 DEF Leases
  <2>. QED BY <1>2, <1>5, <1>7, <2>3 DEF AgentOK
<1>9. AgentsOK'
  <2> HIDE DEF w
  <2>. QED BY <1>1, <1>2, <1>4, <1>6, <1>8, AgentMoves DEF Places, w
<1>10. InUse' \subseteq InUse
  <2>1. \A k \in DOMAIN queue' : queue'[k].event.id \in InUse BY <1>4, InUseHas
  <2>2. \A b \in Leasing' : work'[b].event.id \in InUse
    <3>1. ASSUME NEW b \in Leasing', b # a PROVE b \in Leasing /\ work'[b] = work[b]
      BY <1>1, <1>2, <3>1 DEF Leasing, LInv, AgentsOK
    <3>. QED BY <1>7, <3>1, InUseHas
  <2>3. \A s \in Sessions : Owed(s)' => s \in InUse BY <1>2, InUseHas DEF Owed
  <2>. QED BY <2>1, <2>2, <2>3 DEF InUse
<1>11. Counted' BY <1>2, <1>10, CountedStays
<1>12. SnapOK' BY <1>2, SnapStays DEF LInv
<1>13. BoundsOK' BY <1>2 DEF LInv, BoundsOK
<1>. QED BY <1>4, <1>9, <1>11, <1>12, <1>13 DEF LInv

LEMMA PhasesAlike ==
  ASSUME NEW s, IsSnapshot(s), NEW p
  PROVE  Alike(s, Record(s, <<p>>)) /\ \A q : Alike(s, Record(s, <<p, q>>))
<1>1. \A q : Len(<<p>>) \in Nat /\ Len(<<p, q>>) \in Nat OBVIOUS
<1>. QED BY <1>1, RecordAlike

\* The lease thread tells the journal, and nothing else.
LEMMA PickUpKeeps ==
  ASSUME LInv, NEW a \in Agents, PickUp(a)
  PROVE  LInv'
<1> DEFINE id == work[a].event.id
           t == Record(snap[id], <<"picked_up", "scaffolding">>)
<1>1. at[a] = "claimed" /\ UNCHANGED <<known, queue, nextSeq, work, shown, restarts>>
  BY DEF PickUp
<1>2. AgentOK(a) /\ a \in Leasing /\ Leases(a) /\ work[a].event \in Requests /\ id \in known /\ id \in Sessions
  BY <1>1 DEF LInv, AgentsOK, AgentOK, Leasing, BoundsOK
<1>3. IsSnapshot(snap[id]) /\ (snap[id].pending # NULL => snap[id].pending.id = id)
  BY <1>2 DEF LInv, SnapOK
<1>4. Alike(snap[id], t) BY <1>3, PhasesAlike
<1>5. PICK p \in {"preflight", "prepared"} :
        /\ at' = [at EXCEPT ![a] = p]
        /\ p = "preflight" => NeedsPreflight(work[a].event)
        /\ snap' = snap \/ snap' = [snap EXCEPT ![id] = t]
  BY DEF PickUp
<1> HIDE DEF t
<1>6. SnapOK' /\ \A s \in Sessions : Owed(s)' = Owed(s)
  <2>1. CASE snap' = snap BY <1>1, <2>1, SnapStays DEF LInv
  <2>2. CASE snap' = [snap EXCEPT ![id] = t]
    <3>1. Becomes(id, t) BY <1>3, <1>4, <2>2 DEF Becomes, Alike
    <3>2. SnapOK' BY <1>1, <1>2, <3>1, SnapBecomes DEF LInv
    <3>3. \A s \in Sessions : snap'[s].phase = snap[s].phase /\ snap'[s].pending = snap[s].pending
      BY <1>2, <1>4, <3>1, SnapOf DEF LInv, Alike
    <3>. QED BY <3>2, <3>3 DEF Owed, Active
  <2>. QED BY <1>5, <2>1, <2>2
<1>7. Within(queue, queue') BY <1>1, QueueStays
<1>8. QueueOK' /\ Moves /\ nextSeq <= nextSeq' /\ nextSeq' \in Nat BY <1>1, <1>7, WithinKeeps
<1>9. at'[a] = p /\ work'[a] = work[a] BY <1>1, <1>5 DEF LInv, AgentsOK
<1>10. AgentOK(a)'
  <2>1. Leases(a)' BY <1>1, <1>2 DEF Leases
  <2>. QED BY <1>1, <1>2, <1>5, <1>9, <2>1 DEF AgentOK
<1>11. AgentsOK'
  <2>1. work' = [work EXCEPT ![a] = work[a]] /\ work[a] \in Works BY <1>1 DEF LInv, AgentsOK
  <2>2. p \in Places BY DEF Places
  <2>. QED BY <1>1, <1>5, <1>8, <1>10, <2>1, <2>2, AgentMoves
<1>12. InUse' \subseteq InUse
  <2>1. \A b \in Leasing' : b \in Leasing
    <3>1. ASSUME NEW b \in Leasing', b # a PROVE b \in Leasing
      BY <1>5, <3>1 DEF Leasing, LInv, AgentsOK
    <3>. QED BY <1>2, <3>1
  <2>. QED BY <1>1, <1>6, <2>1, InUseHas DEF InUse
<1>13. Counted' BY <1>1, <1>12, CountedStays
<1>14. BoundsOK' BY <1>1 DEF LInv, BoundsOK
<1>. QED BY <1>6, <1>8, <1>11, <1>13, <1>14 DEF LInv

(***************************************************************************)
(* A stamp renews the event wherever it is: with the agent, in its entry,  *)
(* and in the journal, whose pending event it becomes.                     *)
(***************************************************************************)
LEMMA StampIs ==
  ASSUME LInv, NEW a \in Agents, a \in Leasing, work[a].event.type = "generate",
         NEW g \in Stages, NEW phase, Stamp(a, g, phase)
  PROVE  LET e == [work[a].event EXCEPT !.stage = g]
             t == Record(Journal(snap[e.id], e), <<phase>>)
         IN  /\ e \in Requests /\ e.id = work[a].event.id /\ e.type = "generate" /\ e.stage = g
             /\ SameRequest(work[a].event, e)
             /\ work' = [work EXCEPT ![a] = [work[a] EXCEPT !.event = e]]
             /\ work'[a] \in Works /\ work'[a].event = e /\ work'[a].seq = work[a].seq
             /\ Becomes(e.id, t) /\ Asks(t, e) /\ t.canceled = snap[e.id].canceled
             /\ IsQueue(queue') /\ DOMAIN queue' = DOMAIN queue
             /\ \A i \in DOMAIN queue :
                  /\ queue'[i].seq = queue[i].seq
                  /\ queue'[i].event = IF queue[i].seq = work[a].seq THEN e ELSE queue[i].event
                  /\ queue'[i].lease = IF g = "ready" /\ queue[i].seq = work[a].seq THEN "held"
                                       ELSE queue[i].lease
<1> DEFINE e == [work[a].event EXCEPT !.stage = g]
           j == Journal(snap[e.id], e)
           t == Record(j, <<phase>>)
           w == [work[a] EXCEPT !.event = e]
           l == SetLease(queue, {work[a].seq}, "held")
<1>1. work[a].event \in Requests /\ Leases(a) /\ work[a].event.id \in Sessions
  BY DEF LInv, AgentsOK, AgentOK, Leasing, BoundsOK
<1>2. e \in Requests /\ e.id = work[a].event.id /\ e.type = "generate" /\ e.stage = g
  BY <1>1, StampedIs
<1>3. SameRequest(work[a].event, e) BY <1>1, <1>2, RequestIs DEF SameRequest
<1>4. /\ work' = [work EXCEPT ![a].event = e]
      /\ snap' = [snap EXCEPT ![e.id] = Record(Journal(@, e), <<phase>>)]
      /\ queue' = IF g = "ready" THEN Store(l, work[a].seq, e) ELSE Store(queue, work[a].seq, e)
  BY DEF Stamp
<1> HIDE DEF e
<1>5. work \in [Agents -> Works] BY DEF LInv, AgentsOK
<1>6. /\ work' = [work EXCEPT ![a] = w]
      /\ work'[a] \in Works /\ work'[a].event = e /\ work'[a].seq = work[a].seq
  BY <1>2, <1>4, <1>5 DEF Works
<1>7. IsSnapshot(snap[e.id]) BY <1>1, <1>2 DEF LInv, SnapOK
<1>8. Asks(j, e) /\ j.canceled = snap[e.id].canceled BY <1>2, <1>7, GenerateAsks
<1>9. Asks(t, e) /\ t.canceled = snap[e.id].canceled
  <2>1. IsSnapshot(j) BY <1>8 DEF Asks
  <2> HIDE DEF j
  <2>2. Alike(j, t) BY <2>1, PhasesAlike
  <2>. QED BY <1>8, <2>2 DEF Alike, Asks
<1>10. snap' = [snap EXCEPT ![e.id] = t] BY <1>4
<1> HIDE DEF t
<1>11. Becomes(e.id, t) BY <1>9, <1>10 DEF Becomes, Asks
<1>12. /\ IsQueue(queue') /\ DOMAIN queue' = DOMAIN queue
       /\ \A i \in DOMAIN queue :
            /\ queue'[i].seq = queue[i].seq
            /\ queue'[i].event = IF queue[i].seq = work[a].seq THEN e ELSE queue[i].event
            /\ queue'[i].lease = IF g = "ready" /\ queue[i].seq = work[a].seq THEN "held"
                                 ELSE queue[i].lease
  <2>1. IsQueue(queue) BY DEF LInv, QueueOK
  <2>2. \A i \in DOMAIN queue : queue[i].seq = work[a].seq => SameRequest(queue[i].event, e)
    BY <1>1, <1>3, SameAsIs DEF Leases
  <2>3. CASE g # "ready"
    <3>1. queue' = Store(queue, work[a].seq, e) BY <1>4, <2>3
    <3>. QED BY <1>2, <2>1, <2>2, <2>3, <3>1, StoreIs
  <2>4. CASE g = "ready"
    <3>1. queue' = Store(l, work[a].seq, e) BY <1>4, <2>4
    <3>2. /\ IsQueue(l) /\ DOMAIN l = DOMAIN queue
          /\ \A i \in DOMAIN queue :
               /\ l[i].seq = queue[i].seq /\ l[i].event = queue[i].event
               /\ l[i].lease = IF queue[i].seq \in {work[a].seq} THEN "held" ELSE queue[i].lease
      <4>1. Within(queue, l) BY <2>1, LeaseWithin
      <4>2. IsQueue(l) BY <4>1 DEF Within
      <4> HIDE DEF l
      <4>. QED BY <2>1, <4>2, LeaseWithin DEF l
    <3> HIDE DEF l
    <3>3. \A i \in DOMAIN l : l[i].seq = work[a].seq => SameRequest(l[i].event, e) BY <2>2, <3>2
    <3>4. /\ IsQueue(queue') /\ DOMAIN queue' = DOMAIN l
          /\ \A i \in DOMAIN l : /\ queue'[i].seq = l[i].seq /\ queue'[i].lease = l[i].lease
                                 /\ queue'[i].event = IF l[i].seq = work[a].seq THEN e ELSE l[i].event
      BY <1>2, <3>1, <3>2, <3>3, StoreIs
    <3>. QED BY <2>4, <3>2, <3>4
  <2>. QED BY <2>3, <2>4
<1>. QED BY <1>2, <1>3, <1>6, <1>9, <1>11, <1>12 DEF e, t

LEMMA StampKeeps ==
  ASSUME LInv, NEW a \in Agents, a \in Leasing, work[a].event.type = "generate",
         NEW g \in Stages, NEW phase, Stamp(a, g, phase),
         NEW p \in {"prepared", "working"}, at' = [at EXCEPT ![a] = p],
         UNCHANGED <<known, nextSeq, shown, restarts>>
  PROVE  LInv'
<1> DEFINE e == [work[a].event EXCEPT !.stage = g]
           t == Record(Journal(snap[e.id], e), <<phase>>)
<1>1. /\ e \in Requests /\ e.id = work[a].event.id
      /\ SameRequest(work[a].event, e)
      /\ work' = [work EXCEPT ![a] = [work[a] EXCEPT !.event = e]]
      /\ work'[a] \in Works /\ work'[a].event = e /\ work'[a].seq = work[a].seq
      /\ Becomes(e.id, t)
      /\ IsQueue(queue') /\ DOMAIN queue' = DOMAIN queue
      /\ \A i \in DOMAIN queue :
           /\ queue'[i].seq = queue[i].seq
           /\ queue'[i].event = IF queue[i].seq = work[a].seq THEN e ELSE queue[i].event
  BY StampIs
<1> HIDE DEF e, t
<1>2. /\ AgentOK(a) /\ Leases(a) /\ e.id \in known /\ e.id \in Sessions
      /\ work[a].event.id \in InUse
  BY <1>1, InUseHas DEF LInv, AgentsOK, AgentOK, Leasing, BoundsOK
<1>3. \A i \in DOMAIN queue : SameRequest(queue'[i].event, queue[i].event)
  <2> SUFFICES ASSUME NEW i \in DOMAIN queue PROVE SameRequest(queue'[i].event, queue[i].event)
    OBVIOUS
  <2>1. CASE queue[i].seq = work[a].seq
    <3>1. SameRequest(queue[i].event, work[a].event) BY <1>2, <2>1 DEF Leases
    <3>2. SameRequest(queue[i].event, e) BY <1>1, <3>1, SameAsIs
    <3>. QED BY <1>1, <2>1, <3>2, SameRequestIsSymmetric
  <2>2. CASE queue[i].seq # work[a].seq
    BY <1>1, <2>2, EntriesOf, RequestIs DEF LInv, QueueOK
  <2>. QED BY <2>1, <2>2
<1>4. Moves BY <1>1, <1>3 DEF Moves
<1>5. \A i \in DOMAIN queue : queue'[i].event.id = queue[i].event.id
  BY <1>3, Zenon DEF SameRequest
<1>6. QueueOK' BY <1>1, <1>5 DEF QueueOK, LInv
<1>7. SnapOK' BY <1>1, <1>2, SnapBecomes DEF LInv
<1>8. /\ DOMAIN snap' = Sessions /\ \A s \in Sessions : s # e.id => snap'[s] = snap[s]
  BY <1>1, <1>2, SnapOf DEF LInv
<1>9. nextSeq \in Nat BY LiveServerAssumption DEF LInv, BoundsOK
<1>10. at'[a] = p BY DEF LInv, AgentsOK
<1>11. AgentOK(a)'
  <2>1. Leases(a)'
    <3>1. ASSUME NEW i \in DOMAIN queue', queue'[i].seq = work'[a].seq
          PROVE  SameRequest(queue'[i].event, work'[a].event)
      <4>1. queue'[i].event = e /\ work'[a].event = e BY <1>1, <3>1
      <4>. QED BY <1>1, <4>1, RequestIs
    <3>. QED BY <1>1, <1>2, <3>1 DEF Leases
  <2>. QED BY <1>1, <1>2, <1>10, <2>1 DEF AgentOK
<1>12. AgentsOK'
  <2> DEFINE w == [work[a] EXCEPT !.event = e]
  <2>1. w \in Works /\ work' = [work EXCEPT ![a] = w]
    BY <1>1 DEF LInv, AgentsOK
  <2>2. p \in Places BY DEF Places
  <2>3. known \subseteq known' /\ nextSeq <= nextSeq' /\ nextSeq' \in Nat BY <1>9
  <2> HIDE DEF w
  <2>. QED BY <1>4, <1>11, <2>1, <2>2, <2>3, AgentMoves
<1>13. InUse' \subseteq InUse
  <2>1. \A k \in DOMAIN queue' : queue'[k].event.id \in InUse BY <1>1, <1>5, InUseHas
  <2>2. \A b \in Leasing' : work'[b].event.id \in InUse
    <3>1. ASSUME NEW b \in Leasing', b # a PROVE b \in Leasing /\ work'[b] = work[b]
      BY <1>1, <3>1 DEF Leasing, LInv, AgentsOK
    <3>. QED BY <1>1, <1>2, <3>1, InUseHas
  <2>3. \A s \in Sessions : Owed(s)' => s \in InUse
    <3>1. ASSUME NEW s \in Sessions, s # e.id PROVE Owed(s)' = Owed(s) BY <1>8, <3>1 DEF Owed
    <3>. QED BY <1>1, <1>2, <3>1, InUseHas
  <2>. QED BY <2>1, <2>2, <2>3 DEF InUse
<1>14. Counted' BY <1>13, CountedStays
<1>15. BoundsOK' BY DEF LInv, BoundsOK
<1>. QED BY <1>6, <1>7, <1>12, <1>14, <1>15 DEF LInv

LEMMA PrepareKeeps ==
  ASSUME LInv, NEW a \in Agents, Prepare(a)
  PROVE  LInv'
<1>1. at[a] = "preflight" BY DEF Prepare
<1>2. a \in Leasing /\ work[a].event.type = "generate"
  BY <1>1 DEF Leasing, LInv, AgentsOK, AgentOK, NeedsPreflight
<1>3. PICK phase : Stamp(a, "scaffolded", phase) BY DEF Prepare
<1>. QED BY <1>2, <1>3, StampKeeps DEF Prepare, Stages

LEMMA DeliverKeeps ==
  ASSUME LInv, NEW a \in Agents, Deliver(a)
  PROVE  LInv'
<1>1. /\ at[a] = "prepared" /\ a \in Leasing
      /\ at' = [at EXCEPT ![a] = "working"] /\ UNCHANGED <<known, nextSeq, shown, restarts>>
  BY DEF Deliver, Leasing
<1>2. CASE Undelivered(work[a].event)
  <2>1. Stamp(a, "ready", "generation_ready") BY <1>2 DEF Deliver
  <2>. QED BY <1>1, <1>2, <2>1, StampKeeps DEF Stages, Undelivered
<1>3. CASE ~Undelivered(work[a].event)
  <2>1. queue' = SetLease(queue, {work[a].seq}, "held") /\ work' = work /\ snap' = snap
    BY <1>3 DEF Deliver
  <2>2. Within(queue, queue') BY <2>1, LeaseWithin DEF LInv, QueueOK
  <2>3. /\ QueueOK' /\ Moves /\ nextSeq <= nextSeq' /\ nextSeq' \in Nat
        /\ \A k \in DOMAIN queue' : \E i \in DOMAIN queue : queue'[k].event.id = queue[i].event.id
    BY <1>1, <2>2, WithinKeeps
  <2>4. at'[a] = "working" BY <1>1 DEF LInv, AgentsOK
  <2>5. AgentOK(a)' BY <1>1, <2>1, <2>4 DEF LInv, AgentsOK, AgentOK, Leasing
  <2>6. work' = [work EXCEPT ![a] = work[a]] /\ work[a] \in Works BY <2>1 DEF LInv, AgentsOK
  <2>7. AgentsOK' BY <1>1, <2>3, <2>5, <2>6, AgentMoves DEF Places
  <2>8. SnapOK' /\ \A s \in Sessions : Owed(s)' = Owed(s) BY <1>1, <2>1, SnapStays DEF LInv
  <2>9. InUse' \subseteq InUse
    <3>1. \A b \in Leasing' : b \in Leasing
      <4>1. ASSUME NEW b \in Leasing', b # a PROVE b \in Leasing
        BY <1>1, <4>1 DEF Leasing, LInv, AgentsOK
      <4>. QED BY <1>1, <4>1
    <3>2. \A k \in DOMAIN queue' : queue'[k].event.id \in InUse BY <2>3, InUseHas
    <3>3. \A b \in Leasing' : work'[b].event.id \in InUse BY <2>1, <3>1, InUseHas
    <3>4. \A s \in Sessions : Owed(s)' => s \in InUse BY <2>8, InUseHas
    <3>. QED BY <3>2, <3>3, <3>4 DEF InUse
  <2>10. Counted' BY <1>1, <2>9, CountedStays
  <2>11. BoundsOK' BY <1>1 DEF LInv, BoundsOK
  <2>. QED BY <2>3, <2>7, <2>8, <2>10, <2>11 DEF LInv
<1>. QED BY <1>2, <1>3

\* The journal hears of a reply, or there is nothing to tell it.
LEMMA JournalReplyIs ==
  ASSUME LInv, NEW e \in Entries \cup {NULL}, e # NULL => e.id \in known,
         JournalReply(e), known' = known
  PROVE  /\ SnapOK'
         /\ \A s \in Sessions :
              IF e = NULL \/ s # e.id THEN snap'[s] = snap[s]
              ELSE IF Late(snap[s], e) THEN Alike(snap[s], snap'[s])
              ELSE Cleared(snap[s], snap'[s])
         /\ \A s \in Sessions : Owed(s)' => Owed(s)
         /\ \A s \in Sessions : snap'[s].canceled = snap[s].canceled
<1>1. CASE e = NULL
  <2>1. snap' = snap BY <1>1 DEF JournalReply
  <2>2. SnapOK' /\ \A s \in Sessions : Owed(s)' = Owed(s) BY <2>1, SnapStays DEF LInv
  <2>. QED BY <1>1, <2>1, <2>2
<1>2. CASE e # NULL
  <2> DEFINE id == e.id
             t == Journal(snap[id], e)
  <2>1. id \in known /\ id \in Sessions /\ e \in Entries BY <1>2 DEF LInv, BoundsOK
  <2>2. IsSnapshot(snap[id]) /\ (snap[id].pending # NULL => snap[id].pending.id = id)
    BY <2>1 DEF LInv, SnapOK
  <2>3. IF Late(snap[id], e) THEN Alike(snap[id], t) ELSE Cleared(snap[id], t)
    BY <2>1, <2>2, EntryIs
  <2>4. snap' = [snap EXCEPT ![id] = t] BY <1>2 DEF JournalReply
  <2> HIDE DEF t
  <2>5. Becomes(id, t) BY <2>2, <2>3, <2>4 DEF Becomes, Alike, Cleared
  <2>6. SnapOK' BY <2>1, <2>5, SnapBecomes DEF LInv
  <2>7. snap'[id] = t /\ \A s \in Sessions : s # id => snap'[s] = snap[s]
    BY <2>1, <2>5, SnapOf DEF LInv
  <2>8. t.canceled = snap[id].canceled BY <2>3 DEF Alike, Cleared
  <2>9. Owed(id)' => Owed(id) BY <2>3, <2>7 DEF Owed, Active, Alike, Cleared
  <2>10. \A s \in Sessions : s # id => Owed(s)' = Owed(s) BY <2>7 DEF Owed
  <2>11. \A s \in Sessions : Owed(s)' => Owed(s) BY <2>9, <2>10
  <2>. QED BY <1>2, <2>3, <2>6, <2>7, <2>8, <2>11
<1>. QED BY <1>1, <1>2

\* An agent outside of its lease moves on, and the queue takes in nothing.
LEMMA SettlesKeeps ==
  ASSUME LInv, Within(queue, queue'), UNCHANGED <<known, nextSeq, restarts>>, shown' \subseteq known,
         NEW a \in Agents, NEW p \in {"idle", "working", "checking", "cleanup"}, NEW w \in Works,
         at' = [at EXCEPT ![a] = p], work' = [work EXCEPT ![a] = w], AgentOK(a)',
         SnapOK', \A s \in Sessions : Owed(s)' => Owed(s)
  PROVE  LInv'
<1>1. /\ QueueOK' /\ Moves /\ nextSeq <= nextSeq' /\ nextSeq' \in Nat
      /\ \A k \in DOMAIN queue' : \E i \in DOMAIN queue : queue'[k].event.id = queue[i].event.id
  BY WithinKeeps
<1>2. p \in Places BY DEF Places
<1>3. AgentsOK' BY <1>1, <1>2, AgentMoves
<1>4. InUse' \subseteq InUse
  <2>1. \A k \in DOMAIN queue' : queue'[k].event.id \in InUse BY <1>1, InUseHas
  <2>2. ASSUME NEW b \in Leasing' PROVE b \in Leasing /\ work'[b] = work[b]
    BY <2>2 DEF Leasing, LInv, AgentsOK
  <2>3. \A b \in Leasing' : work'[b].event.id \in InUse BY <2>2, InUseHas
  <2>4. \A s \in Sessions : Owed(s)' => s \in InUse BY InUseHas
  <2>. QED BY <2>1, <2>3, <2>4 DEF InUse
<1>5. Counted' BY <1>4, CountedStays
<1>6. BoundsOK' BY DEF LInv, BoundsOK
<1>. QED BY <1>1, <1>3, <1>5, <1>6 DEF LInv

LEMMA NoWorkIs == NoWork \in Works
BY LiveServerAssumption DEF NoWork, Works

LEMMA LeaseEndsKeeps ==
  ASSUME LInv, NEW s, LeaseEnds(s)
  PROVE  LInv'
<1>1. UNCHANGED <<known, snap, nextSeq, at, work, shown, restarts>> BY DEF LeaseEnds
<1>2. Within(queue, queue') BY LeaseWithin DEF LeaseEnds, LInv, QueueOK
<1>3. /\ QueueOK' /\ Moves /\ nextSeq <= nextSeq' /\ nextSeq' \in Nat
      /\ \A k \in DOMAIN queue' : \E i \in DOMAIN queue : queue'[k].event.id = queue[i].event.id
  BY <1>1, <1>2, WithinKeeps
<1>4. AgentsOK' BY <1>1, <1>3, AgentsStay
<1>5. SnapOK' /\ \A x \in Sessions : Owed(x)' = Owed(x) BY <1>1, SnapStays DEF LInv
<1>6. InUse' \subseteq InUse
  <2>1. \A k \in DOMAIN queue' : queue'[k].event.id \in InUse BY <1>3, InUseHas
  <2>2. \A b \in Leasing' : work'[b].event.id \in InUse BY <1>1, InUseHas DEF Leasing
  <2>3. \A x \in Sessions : Owed(x)' => x \in InUse BY <1>5, InUseHas
  <2>. QED BY <2>1, <2>2, <2>3 DEF InUse
<1>7. Counted' BY <1>1, <1>6, CountedStays
<1>8. BoundsOK' BY <1>1 DEF LInv, BoundsOK
<1>. QED BY <1>3, <1>4, <1>5, <1>7, <1>8 DEF LInv

LEMMA WriteKeeps ==
  ASSUME LInv, NEW a \in Agents, Write(a)
  PROVE  LInv'
<1>1. /\ at[a] = "working" /\ UNCHANGED <<known, snap, queue, nextSeq, at, work, restarts>>
      /\ shown' = shown \cup {work[a].event.id}
  BY DEF Write
<1>2. AgentOK(a) /\ work[a].event.id \in known BY <1>1 DEF LInv, AgentsOK, AgentOK
<1>3. Within(queue, queue') BY <1>1, QueueStays
<1>4. at' = [at EXCEPT ![a] = "working"] /\ work' = [work EXCEPT ![a] = work[a]] /\ work[a] \in Works
  BY <1>1 DEF LInv, AgentsOK
<1>5. AgentOK(a)'
  <2>1. Moves /\ nextSeq <= nextSeq' /\ nextSeq' \in Nat BY <1>1, <1>3, WithinKeeps
  <2>. QED BY <1>1, <2>1, AgentStays
<1>6. SnapOK' /\ \A s \in Sessions : Owed(s)' = Owed(s) BY <1>1, SnapStays DEF LInv
<1>7. shown' \subseteq known BY <1>1, <1>2 DEF LInv, BoundsOK
<1>. QED BY <1>1, <1>3, <1>4, <1>5, <1>6, <1>7, SettlesKeeps

\* The type of the event that an answer acknowledges.
Acked(id, source) ==
  LET hits == Matching(queue, id, source)
  IN  IF hits = {} THEN NULL ELSE queue[First(hits)].event.type

\* What an agent answers becomes an entry about its event's session.
LEMMA ReplyEntryIs ==
  ASSUME LInv, NEW r \in Replies, NEW id \in Sessions, NEW source
  PROVE  LET e == ReplyEntry(id, r, Acked(id, source))
         IN  /\ Acked(id, source) \in PostTypes \cup {NULL}
             /\ e \in Entries \cup {NULL} /\ (e # NULL => e.id = id /\ e.source = Acked(id, source))
<1> DEFINE hits == Matching(queue, id, source)
           acked == Acked(id, source)
           e == ReplyEntry(id, r, acked)
<1>1. acked \in PostTypes \cup {NULL}
  <2>1. CASE hits = {} BY <2>1 DEF Acked
  <2>2. CASE hits # {}
    <3>1. First(hits) \in DOMAIN queue
      <4>1. First(hits) \in hits BY <2>2, MatchingFirst DEF LInv, QueueOK
      <4>. QED BY <4>1 DEF Matching
    <3>. QED BY <2>2, <3>1, EntriesOf, RequestIs DEF LInv, QueueOK, Acked
  <2>. QED BY <2>1, <2>2
<1> HIDE DEF acked
<1>2. r.type \in DOMAIN JournalType /\ r.carbonize \in BOOLEAN BY LiveServerAssumption
<1>3. JournalType[r.type] \in Range(JournalType) BY <1>2 DEF Range
<1>4. e \in Entries \cup {NULL} /\ (e # NULL => e.id = id /\ e.source = acked)
  <2>1. [type |-> JournalType[r.type], id |-> id, source |-> acked, carbonize |-> r.carbonize] \in Entries
    BY <1>1, <1>2, <1>3 DEF Entries
  <2>. QED BY <2>1 DEF ReplyEntry
<1>. QED BY <1>1, <1>4 DEF acked

LEMMA FinishedIs ==
  ASSUME LInv, NEW a \in Agents, at[a] # "idle", NEW carbonize \in BOOLEAN, Finished(a, carbonize)
  PROVE  \E p \in {"idle", "cleanup"} : \E w \in Works :
           /\ at' = [at EXCEPT ![a] = p] /\ work' = [work EXCEPT ![a] = w]
           /\ p = "cleanup" => carbonize /\ w.event = work[a].event /\ w.reply = NULL
<1>1. CASE carbonize
  <2> DEFINE w == [work[a] EXCEPT !.reply = NULL]
  <2>1. w \in Works /\ w.event = work[a].event /\ w.reply = NULL
    BY DEF LInv, AgentsOK, Works
  <2>2. at' = [at EXCEPT ![a] = "cleanup"] /\ work' = [work EXCEPT ![a] = w]
    BY <1>1 DEF Finished
  <2> HIDE DEF w
  <2>. QED BY <1>1, <2>1, <2>2
<1>2. CASE ~carbonize
  <2>1. at' = [at EXCEPT ![a] = "idle"] /\ work' = [work EXCEPT ![a] = NoWork]
    BY <1>2 DEF Finished
  <2>. QED BY <2>1, NoWorkIs
<1>. QED BY <1>1, <1>2

\* An agent outside of its lease has an event of a known session.
LEMMA AgentOutside ==
  ASSUME LInv, NEW a \in Agents, NEW p \in {"idle", "working", "checking", "cleanup"}, NEW w \in Works,
         at' = [at EXCEPT ![a] = p], work' = [work EXCEPT ![a] = w], known' = known,
         p # "idle" => w.event = work[a].event /\ at[a] # "idle",
         p = "checking" /\ w.reply # NULL => w.reply.id = work[a].event.id
  PROVE  AgentOK(a)'
<1>1. at'[a] = p /\ work'[a] = w BY DEF LInv, AgentsOK
<1>2. a \notin Leasing' BY <1>1 DEF Leasing
<1>3. at[a] # "idle" => work[a].event \in Requests /\ work[a].event.id \in known
  BY DEF LInv, AgentsOK, AgentOK
<1>. QED BY <1>1, <1>2, <1>3 DEF AgentOK

LEMMA ReplyKeeps ==
  ASSUME LInv, NEW a \in Agents, NEW r \in Replies, Reply(a, r)
  PROVE  LInv'
<1> DEFINE id == work[a].event.id
           source == IF r.sourced THEN Task(a) ELSE Infer(id, r.type)
           e == ReplyEntry(id, r, Acked(id, source))
<1>1. /\ at[a] \in {"working", "cleanup"} /\ UNCHANGED <<known, nextSeq, shown, restarts>>
      /\ queue' = Acknowledge(queue, id, source)
      /\ IF r.svelte
         THEN /\ at' = [at EXCEPT ![a] = "checking"]
              /\ work' = [work EXCEPT ![a].reply = e]
              /\ UNCHANGED snap
         ELSE JournalReply(e) /\ Finished(a, r.carbonize)
  BY DEF Reply, Acked
<1> HIDE DEF source
<1>2. /\ id \in known /\ id \in Sessions /\ work[a] \in Works
  BY <1>1 DEF LInv, AgentsOK, AgentOK, BoundsOK
<1>3. e \in Entries \cup {NULL} /\ (e # NULL => e.id = id)
  BY <1>2, ReplyEntryIs
<1> HIDE DEF e
<1>4. Within(queue, queue') BY <1>1, AcknowledgeIs DEF LInv, QueueOK
<1>5. shown' \subseteq known BY <1>1 DEF LInv, BoundsOK
<1>6. CASE r.svelte
  <2> DEFINE w == [work[a] EXCEPT !.reply = e]
  <2>1. w \in Works /\ w.event = work[a].event /\ w.reply = e BY <1>2, <1>3 DEF Works
  <2>2. at' = [at EXCEPT ![a] = "checking"] /\ work' = [work EXCEPT ![a] = w]
    BY <1>1, <1>6
  <2> HIDE DEF w
  <2>3. AgentOK(a)' BY <1>1, <1>3, <2>1, <2>2, AgentOutside
  <2>4. SnapOK' /\ \A s \in Sessions : Owed(s)' = Owed(s) BY <1>1, <1>6, SnapStays DEF LInv
  <2>. QED BY <1>1, <1>4, <1>5, <2>1, <2>2, <2>3, <2>4, SettlesKeeps
<1>7. CASE ~r.svelte
  <2>1. SnapOK' /\ \A s \in Sessions : Owed(s)' => Owed(s)
    BY <1>1, <1>2, <1>3, <1>7, JournalReplyIs
  <2>2. r.carbonize \in BOOLEAN BY LiveServerAssumption
  <2>3. PICK p \in {"idle", "cleanup"}, w \in Works :
          /\ at' = [at EXCEPT ![a] = p] /\ work' = [work EXCEPT ![a] = w]
          /\ p = "cleanup" => w.event = work[a].event /\ w.reply = NULL
    BY <1>1, <1>7, <2>2, FinishedIs
  <2>4. AgentOK(a)' BY <1>1, <2>3, AgentOutside
  <2>. QED BY <1>1, <1>4, <1>5, <2>1, <2>3, <2>4, SettlesKeeps
<1>. QED BY <1>6, <1>7

LEMMA CompilesKeeps ==
  ASSUME LInv, NEW a \in Agents, Compiles(a)
  PROVE  LInv'
<1>1. /\ at[a] = "checking" /\ UNCHANGED <<known, queue, nextSeq, shown, restarts>>
      /\ JournalReply(work[a].reply) /\ Finished(a, FALSE)
  BY DEF Compiles
<1>2. /\ work[a].reply \in Entries \cup {NULL} /\ work[a].event.id \in known
      /\ work[a].reply # NULL => work[a].reply.id = work[a].event.id
  BY <1>1 DEF LInv, AgentsOK, AgentOK, Works
<1>3. SnapOK' /\ \A s \in Sessions : Owed(s)' => Owed(s) BY <1>1, <1>2, JournalReplyIs
<1>4. PICK p \in {"idle", "cleanup"}, w \in Works :
        /\ at' = [at EXCEPT ![a] = p] /\ work' = [work EXCEPT ![a] = w]
        /\ p = "cleanup" => w.event = work[a].event /\ w.reply = NULL
  BY <1>1, FinishedIs
<1>5. AgentOK(a)' BY <1>1, <1>4, AgentOutside
<1>6. Within(queue, queue') /\ shown' \subseteq known
  BY <1>1, QueueStays DEF LInv, BoundsOK
<1>. QED BY <1>1, <1>3, <1>4, <1>5, <1>6, SettlesKeeps

LEMMA CompileFailsKeeps ==
  ASSUME LInv, NEW a \in Agents, CompileFails(a)
  PROVE  LInv'
<1> DEFINE w == [work[a] EXCEPT !.reply = NULL]
<1>1. /\ at[a] = "checking" /\ UNCHANGED <<known, snap, queue, nextSeq, shown, restarts>>
      /\ at' = [at EXCEPT ![a] = "working"] /\ work' = [work EXCEPT ![a] = w]
  BY DEF CompileFails
<1>2. w \in Works /\ w.event = work[a].event /\ w.reply = NULL BY DEF LInv, AgentsOK, Works
<1> HIDE DEF w
<1>3. AgentOK(a)' BY <1>1, <1>2, AgentOutside
<1>4. SnapOK' /\ \A s \in Sessions : Owed(s)' = Owed(s) BY <1>1, SnapStays DEF LInv
<1>5. Within(queue, queue') /\ shown' \subseteq known
  BY <1>1, QueueStays DEF LInv, BoundsOK
<1>. QED BY <1>1, <1>2, <1>3, <1>4, <1>5, SettlesKeeps

LEMMA RetryKeeps ==
  ASSUME LInv, NEW a \in Agents, Retry(a)
  PROVE  LInv'
<1>1. /\ UNCHANGED <<known, snap, nextSeq, shown, restarts>>
      /\ at' = [at EXCEPT ![a] = "idle"] /\ work' = [work EXCEPT ![a] = NoWork]
      /\ queue' = Release(queue, work[a].event.id, work[a].event.type)
  BY DEF Retry
<1>2. Within(queue, queue')
  <2>1. Within(queue, queue) BY DEF Within, LInv, QueueOK
  <2>. QED BY <1>1, <2>1, LeaseWithin DEF Release, LInv, QueueOK
<1>3. AgentOK(a)' BY <1>1, NoWorkIs, AgentOutside
<1>4. SnapOK' /\ \A s \in Sessions : Owed(s)' = Owed(s) BY <1>1, SnapStays DEF LInv
<1>5. shown' \subseteq known BY <1>1 DEF LInv, BoundsOK
<1>. QED BY <1>1, <1>2, <1>3, <1>4, <1>5, NoWorkIs, SettlesKeeps

\* What is owed had a place in the queue before, and has one again.
LEMMA RestartKeeps ==
  ASSUME LInv, Restart
  PROVE  LInv'
<1>1. /\ restarts < MaxRestarts /\ restarts' = restarts + 1
      /\ queue' = Restored /\ nextSeq' = Len(Restored) + 1
      /\ UNCHANGED <<known, snap, shown>>
  BY DEF Restart
<1>2. SnapOK /\ MaxSeq \in Nat /\ MaxRestarts \in Nat BY LiveServerAssumption DEF LInv
<1>3. IsFiniteSet(InUse) /\ Cardinality(InUse) <= MaxSeq
  <2>1. IsFiniteSet(InUse) /\ Cardinality(InUse) < nextSeq /\ nextSeq \in 1 .. MaxSeq + 1
    BY DEF LInv, Counted, BoundsOK
  <2>2. Cardinality(InUse) \in Nat BY <2>1, FS_CardinalityType
  <2>. QED BY <1>2, <2>1, <2>2
<1>4. /\ IsQueue(queue') /\ Len(queue') \in 0 .. MaxSeq
      /\ \A i \in DOMAIN queue' :
           queue'[i].seq <= Len(queue') /\ \E s \in Sessions : Owed(s) /\ queue'[i].event = snap[s].pending
      /\ \A s \in Sessions : Owed(s) =>
           \E i \in DOMAIN queue' : SameRequest(queue'[i].event, snap[s].pending)
  BY <1>1, <1>2, <1>3, RestoredIs, InUseHas
<1>5. SnapOK' /\ \A s \in Sessions : Owed(s)' = Owed(s) BY <1>1, <1>2, SnapStays
<1>6. BoundsOK' BY <1>1, <1>2, <1>4 DEF LInv, BoundsOK
<1>7. QueueOK'
  <2>1. ASSUME NEW i \in DOMAIN queue' PROVE queue'[i].seq < nextSeq' /\ queue'[i].event.id \in known
    <3>1. PICK s \in Sessions : Owed(s) /\ queue'[i].event = snap[s].pending BY <1>4
    <3>2. queue'[i].event.id = s BY <1>2, <3>1 DEF SnapOK, Owed
    <3>3. s \in known BY <1>2, <3>1, BaseFields DEF SnapOK, Owed
    <3>4. queue'[i].seq \in Nat BY <1>2, <1>4, EntriesOf
    <3>. QED BY <1>1, <1>4, <3>2, <3>3, <3>4
  <2>. QED BY <1>1, <1>4, <2>1 DEF QueueOK
<1>8. \A a \in Agents :
        /\ at'[a] = IF a \in Leasing THEN "idle" ELSE IF at[a] = "checking" THEN "working" ELSE at[a]
        /\ work'[a] = IF a \in Leasing THEN NoWork ELSE [work[a] EXCEPT !.reply = NULL]
  BY DEF Restart
<1>9. AgentsOK'
  <2>1. at' \in [Agents -> Places] /\ work' \in [Agents -> Works]
    <3>1. \A a \in Agents : at[a] \in Places /\ work[a] \in Works BY DEF LInv, AgentsOK
    <3>2. \A a \in Agents : [work[a] EXCEPT !.reply = NULL] \in Works BY <3>1 DEF Works
    <3>3. \A a \in Agents : at'[a] \in Places BY <1>8, <3>1 DEF Places
    <3>4. \A a \in Agents : work'[a] \in Works BY <1>8, <3>2, NoWorkIs
    <3>. QED BY <3>3, <3>4 DEF Restart
  <2>2. ASSUME NEW a \in Agents PROVE AgentOK(a)'
    <3>1. a \notin Leasing' BY <1>8 DEF Leasing
    <3>2. CASE a \in Leasing BY <1>8, <3>2 DEF AgentOK
    <3>3. CASE a \notin Leasing
      <4>1. work'[a].event = work[a].event /\ work'[a].reply = NULL
        BY <1>8, <3>3 DEF LInv, AgentsOK, Works
      <4>2. at'[a] # "idle" => at[a] # "idle" BY <1>8, <3>3
      <4>3. at'[a] # "preflight" BY <3>1 DEF Leasing
      <4>. QED BY <1>1, <3>1, <4>1, <4>2, <4>3 DEF LInv, AgentsOK, AgentOK
    <3>. QED BY <3>2, <3>3
  <2>. QED BY <2>1, <2>2 DEF AgentsOK
<1>10. Counted'
  <2> DEFINE n == Len(queue')
             ids == {queue'[i].event.id : i \in 1 .. n}
             id == [i \in 1 .. n |-> queue'[i].event.id]
  <2>1. n \in Nat /\ DOMAIN queue' = 1 .. n BY <1>4, EntriesOf
  <2>2. InUse' \subseteq ids
    <3>1. \A s \in Sessions : Owed(s)' => s \in ids
      <4>1. ASSUME NEW s \in Sessions, Owed(s) PROVE s \in ids
        <5>1. PICK i \in DOMAIN queue' : SameRequest(queue'[i].event, snap[s].pending) BY <1>4, <4>1
        <5>2. queue'[i].event.id = s BY <1>2, <4>1, <5>1 DEF SnapOK, Owed, SameRequest
        <5>. QED BY <2>1, <5>1, <5>2
      <4>. QED BY <1>5, <4>1
    <3>2. Leasing' = {} BY <1>8 DEF Leasing
    <3>. QED BY <2>1, <3>1, <3>2 DEF InUse
  <2>3. IsFiniteSet(1 .. n) /\ Cardinality(1 .. n) = n
    BY <2>1, IntervalCounts, FS_Interval
  <2>4. id \in Surjection(1 .. n, ids) BY DEF Surjection
  <2> HIDE DEF id, n, ids
  <2>5. IsFiniteSet(ids) /\ Cardinality(ids) <= Cardinality(1 .. n) BY <2>3, <2>4, FS_Surjection
  <2>6. IsFiniteSet(InUse') /\ Cardinality(InUse') <= Cardinality(ids) BY <2>2, <2>5, FS_Subset
  <2>7. Cardinality(InUse') \in Nat /\ Cardinality(ids) \in Nat BY <2>5, <2>6, FS_CardinalityType
  <2>. QED BY <1>1, <2>1, <2>3, <2>5, <2>6, <2>7 DEF Counted, n
<1>. QED BY <1>5, <1>6, <1>7, <1>9, <1>10 DEF LInv

LEMMA NextLInv ==
  ASSUME LInv, [Next]_vars
  PROVE  LInv'
<1>1. CASE UNCHANGED vars
  <2>1. UNCHANGED <<known, snap, queue, nextSeq, at, work, shown, restarts>> BY <1>1 DEF vars
  <2>. QED BY <2>1
         DEF LInv, BoundsOK, QueueOK, AgentsOK, AgentOK, Leases, Leasing, SnapOK, Counted, InUse, Owed
<1>2. ASSUME NEW e \in Posts, Post(e) PROVE LInv' BY <1>2, PostKeeps
<1>3. ASSUME NEW a \in Agents, Poll(a) PROVE LInv' BY <1>3, PollKeeps
<1>4. ASSUME NEW a \in Agents, PickUp(a) PROVE LInv' BY <1>4, PickUpKeeps
<1>5. ASSUME NEW a \in Agents, Prepare(a) PROVE LInv' BY <1>5, PrepareKeeps
<1>6. ASSUME NEW a \in Agents, Deliver(a) PROVE LInv' BY <1>6, DeliverKeeps
<1>7. ASSUME NEW a \in Agents, Write(a) PROVE LInv' BY <1>7, WriteKeeps
<1>8. ASSUME NEW a \in Agents, NEW r \in Replies, Reply(a, r) PROVE LInv' BY <1>8, ReplyKeeps
<1>9. ASSUME NEW a \in Agents, Compiles(a) PROVE LInv' BY <1>9, CompilesKeeps
<1>10. ASSUME NEW a \in Agents, CompileFails(a) PROVE LInv' BY <1>10, CompileFailsKeeps
<1>11. ASSUME NEW a \in Agents, Retry(a) PROVE LInv' BY <1>11, RetryKeeps
<1>12. ASSUME NEW s \in 1 .. MaxSeq, LeaseEnds(s) PROVE LInv' BY <1>12, LeaseEndsKeeps
<1>13. CASE Restart BY <1>13, RestartKeeps
<1>. QED
  BY <1>1, <1>2, <1>3, <1>4, <1>5, <1>6, <1>7, <1>8, <1>9, <1>10, <1>11, <1>12, <1>13 DEF Next

THEOREM LiveInvariant == Spec => []LInv
<1>1. Init => LInv BY InitLInv
<1>2. LInv /\ [Next]_vars => LInv' BY NextLInv
<1>. QED BY <1>1, <1>2, PTL DEF Spec

(***************************************************************************)
(* The types of the helper's state, whatever is posted, answered, timed    *)
(* out and restarted: the queue holds well-formed requests under numbers   *)
(* of this process, and what a restart requeues always fits.               *)
(***************************************************************************)
THEOREM LiveTypes == Spec => []TypeOK
<1>1. LInv => TypeOK
  <2> SUFFICES ASSUME LInv PROVE TypeOK OBVIOUS
  <2>1. queue \in Seq([seq : 1 .. MaxSeq, event : Requests, lease : {"free", "held", "lapsed"}])
    BY DEF LInv, QueueOK, IsQueue, Queues
  <2>2. \A s \in Sessions : /\ snap[s].phase \in Phases /\ snap[s].canceled \in BOOLEAN
                            /\ snap[s].pending \in Requests \cup {NULL}
    BY DEF LInv, SnapOK, IsSnapshot
  <2>3. at \in [Agents -> {"idle", "claimed", "preflight", "prepared", "working", "checking", "cleanup"}]
    BY DEF LInv, AgentsOK, Places
  <2>4. \A a \in Agents : work[a].event \in Requests \cup {NULL} BY DEF LInv, AgentsOK, Works
  <2>. QED BY <2>1, <2>2, <2>3, <2>4 DEF LInv, BoundsOK, TypeOK
<1>. QED BY <1>1, LiveInvariant, PTL

----------------------------------------------------------------------------
(***************************************************************************)
(* What was retired stays retired.                                         *)
(***************************************************************************)
Retires ==
  \A s \in Sessions : snap'[s].canceled /\ GenerateQueued(s)' => snap[s].canceled /\ GenerateQueued(s)

\* No request joins the queue, and nobody decides.
Quiet ==
  /\ \A k \in DOMAIN queue' : \E i \in DOMAIN queue : SameRequest(queue'[k].event, queue[i].event)
  /\ \A s \in Sessions : snap'[s].canceled = snap[s].canceled

LEMMA QuietRetires == ASSUME Quiet PROVE Retires
<1>1. ASSUME NEW s \in Sessions, GenerateQueued(s)' PROVE GenerateQueued(s)
  <2>1. PICK k \in DOMAIN queue' : queue'[k].event.type = "generate" /\ queue'[k].event.id = s
    BY <1>1 DEF GenerateQueued
  <2>2. PICK i \in DOMAIN queue : SameRequest(queue'[k].event, queue[i].event) BY DEF Quiet
  <2>3. queue[i].event.type = "generate" /\ queue[i].event.id = s BY <2>1, <2>2 DEF SameRequest
  <2>. QED BY <2>3 DEF GenerateQueued
<1>. QED BY <1>1 DEF Quiet, Retires

LEMMA WithinQuiet ==
  ASSUME LInv, Within(queue, queue'), \A s \in Sessions : snap'[s].canceled = snap[s].canceled
  PROVE  Quiet
<1>1. \A i \in DOMAIN queue : SameRequest(queue[i].event, queue[i].event)
  BY EntriesOf, RequestIs DEF LInv, QueueOK
<1>. QED BY <1>1 DEF Within, Quiet

LEMMA StampQuiet ==
  ASSUME LInv, NEW a \in Agents, a \in Leasing, work[a].event.type = "generate",
         NEW g \in Stages, NEW phase, Stamp(a, g, phase)
  PROVE  Quiet
<1> DEFINE e == [work[a].event EXCEPT !.stage = g]
           t == Record(Journal(snap[e.id], e), <<phase>>)
<1>1. /\ e \in Requests /\ e.id = work[a].event.id
      /\ SameRequest(work[a].event, e)
      /\ Becomes(e.id, t) /\ t.canceled = snap[e.id].canceled
      /\ DOMAIN queue' = DOMAIN queue
      /\ \A i \in DOMAIN queue :
           queue'[i].event = IF queue[i].seq = work[a].seq THEN e ELSE queue[i].event
  BY StampIs
<1> HIDE DEF e, t
<1>2. Leases(a) /\ e.id \in Sessions
  BY <1>1 DEF LInv, AgentsOK, AgentOK, Leasing, BoundsOK
<1>3. ASSUME NEW i \in DOMAIN queue PROVE SameRequest(queue'[i].event, queue[i].event)
  <2>1. CASE queue[i].seq = work[a].seq
    <3>1. SameRequest(queue[i].event, work[a].event) BY <1>2, <2>1 DEF Leases
    <3>2. SameRequest(queue[i].event, e) BY <1>1, <3>1, SameAsIs
    <3>. QED BY <1>1, <2>1, <3>2, SameRequestIsSymmetric
  <2>2. CASE queue[i].seq # work[a].seq
    BY <1>1, <2>2, EntriesOf, RequestIs DEF LInv, QueueOK
  <2>. QED BY <2>1, <2>2
<1>4. \A s \in Sessions : snap'[s].canceled = snap[s].canceled
  BY <1>1, <1>2, SnapOf DEF LInv
<1>. QED BY <1>1, <1>3, <1>4 DEF Quiet

LEMMA PickUpQuiet ==
  ASSUME LInv, NEW a \in Agents, PickUp(a)
  PROVE  Quiet
<1> DEFINE id == work[a].event.id
           t == Record(snap[id], <<"picked_up", "scaffolding">>)
<1>1. at[a] = "claimed" /\ queue' = queue /\ (snap' = snap \/ snap' = [snap EXCEPT ![id] = t])
  BY DEF PickUp
<1>2. id \in Sessions BY <1>1 DEF LInv, AgentsOK, AgentOK, BoundsOK
<1>3. IsSnapshot(snap[id]) /\ DOMAIN snap = Sessions BY <1>2 DEF LInv, SnapOK
<1>4. Alike(snap[id], t) BY <1>3, PhasesAlike
<1> HIDE DEF t
<1>5. \A s \in Sessions : snap'[s].canceled = snap[s].canceled BY <1>1, <1>3, <1>4 DEF Alike
<1>. QED BY <1>1, <1>5, QueueStays, WithinQuiet

LEMMA ReplyQuiet ==
  ASSUME LInv, NEW a \in Agents, NEW r \in Replies, Reply(a, r)
  PROVE  Quiet
<1> DEFINE id == work[a].event.id
           source == IF r.sourced THEN Task(a) ELSE Infer(id, r.type)
           e == ReplyEntry(id, r, Acked(id, source))
<1>1. /\ at[a] \in {"working", "cleanup"} /\ known' = known
      /\ queue' = Acknowledge(queue, id, source)
      /\ UNCHANGED snap \/ JournalReply(e)
  BY DEF Reply, Acked
<1> HIDE DEF source
<1>2. id \in known /\ id \in Sessions BY <1>1 DEF LInv, AgentsOK, AgentOK, BoundsOK
<1>3. e \in Entries \cup {NULL} /\ (e # NULL => e.id = id) BY <1>2, ReplyEntryIs
<1> HIDE DEF e
<1>4. Within(queue, queue') BY <1>1, AcknowledgeIs DEF LInv, QueueOK
<1>5. \A s \in Sessions : snap'[s].canceled = snap[s].canceled BY <1>1, <1>2, <1>3, JournalReplyIs
<1>. QED BY <1>4, <1>5, WithinQuiet

\* Only a decision cancels, and it retires the generate; only the first
\* event of a session is a generate.
LEMMA PostRetires ==
  ASSUME LInv, NEW e \in Posts, Post(e)
  PROVE  Retires
<1> DEFINE id == e.id
           kept == IF e.type \in Decisions THEN RetireGeneration(queue, id) ELSE queue
           t == Journaled(snap[id], e)
<1>1. id \in Sessions /\ e \in Requests /\ nextSeq \in 1 .. MaxSeq
  BY PostsAreRequests, LiveServerAssumption DEF Post, LInv, BoundsOK
<1>2. IsSnapshot(snap[id]) BY <1>1 DEF LInv, SnapOK
<1>3. Becomes(id, t) BY PostBecomes DEF Post
<1>4. snap'[id] = t /\ \A s \in Sessions : s # id => snap'[s] = snap[s]
  BY <1>1, <1>3, SnapOf DEF LInv
<1>5. t.canceled = (snap[id].canceled \/ e.type \in Decisions) BY <1>2, JournaledIs
<1>6. IsQueue(queue) BY DEF LInv, QueueOK
<1>7. /\ IsQueue(kept) /\ \A k \in DOMAIN kept : kept[k].seq < nextSeq
      /\ \A k \in DOMAIN kept : /\ \E i \in DOMAIN queue : kept[k].event = queue[i].event
                                /\ e.type \in Decisions =>
                                     ~(kept[k].event.type = "generate" /\ kept[k].event.id = id)
  <2>1. CASE e.type \in Decisions
    <3>1. kept = RetireGeneration(queue, id) BY <2>1
    <3> HIDE DEF kept
    <3>2. /\ Within(queue, kept)
          /\ \A k \in DOMAIN kept : \E i \in DOMAIN queue :
               kept[k] = queue[i] /\ ~(queue[i].event.type = "generate" /\ queue[i].event.id = id)
      BY <1>6, <3>1, RetireIs
    <3>. QED BY <3>2 DEF Within, LInv, QueueOK
  <2>2. CASE e.type \notin Decisions BY <1>6, <2>2 DEF LInv, QueueOK
  <2>. QED BY <2>1, <2>2
<1>8. queue' = kept \/ queue' = Enqueue(kept, e, nextSeq) BY DEF Post
<1> HIDE DEF kept, t
<1>9. \A k \in DOMAIN queue' : (k \in DOMAIN kept /\ queue'[k] = kept[k]) \/ queue'[k].event = e
  BY <1>1, <1>7, <1>8, EnqueueIs
<1>10. e.type = "generate" => ~snap[id].canceled
  BY <1>1, BaseFields DEF Post, Offered, LInv, SnapOK
<1>11. ASSUME NEW s \in Sessions, snap'[s].canceled, GenerateQueued(s)'
       PROVE  snap[s].canceled /\ GenerateQueued(s)
  <2>1. PICK k \in DOMAIN queue' : queue'[k].event.type = "generate" /\ queue'[k].event.id = s
    BY <1>11 DEF GenerateQueued
  <2>2. CASE s # id
    <3>1. queue'[k].event # e BY <2>1, <2>2
    <3>2. GenerateQueued(s) BY <1>7, <1>9, <2>1, <3>1 DEF GenerateQueued
    <3>. QED BY <1>4, <1>11, <2>2, <3>2
  <2>3. CASE s = id
    <3>1. e.type \notin Decisions
      <4>1. SUFFICES ASSUME e.type \in Decisions PROVE FALSE OBVIOUS
      <4>2. e.type # "generate" BY <4>1 DEF Decisions
      <4>3. k \in DOMAIN kept /\ queue'[k] = kept[k] BY <1>9, <2>1, <4>2
      <4>. QED BY <1>7, <2>1, <2>3, <4>1, <4>3
    <3>2. snap[id].canceled BY <1>4, <1>5, <1>11, <2>3, <3>1
    <3>3. e.type # "generate" BY <1>10, <3>2
    <3>4. k \in DOMAIN kept /\ queue'[k] = kept[k] BY <1>9, <2>1, <3>3
    <3>5. GenerateQueued(s) BY <1>7, <2>1, <3>4 DEF GenerateQueued
    <3>. QED BY <2>3, <3>2, <3>5
  <2>. QED BY <2>2, <2>3
<1>. QED BY <1>11 DEF Retires

LEMMA NextRetires ==
  ASSUME LInv, [Next]_vars, restarts' = restarts
  PROVE  Retires
<1>0. snap' = snap => \A s \in Sessions : snap'[s].canceled = snap[s].canceled OBVIOUS
<1>1. CASE UNCHANGED vars
  BY <1>0, <1>1, QueueStays, WithinQuiet, QuietRetires DEF vars
<1>2. ASSUME NEW e \in Posts, Post(e) PROVE Retires BY <1>2, PostRetires
<1>3. ASSUME NEW a \in Agents, Poll(a) PROVE Retires
  <2>1. snap' = snap BY <1>3 DEF Poll
  <2>2. PICK i \in DOMAIN queue : queue' = SetLease(queue, {queue[i].seq}, "held") BY <1>3, PollIs
  <2>3. Within(queue, queue') BY <2>2, LeaseWithin DEF LInv, QueueOK
  <2>. QED BY <1>0, <2>1, <2>3, WithinQuiet, QuietRetires
<1>4. ASSUME NEW a \in Agents, PickUp(a) PROVE Retires BY <1>4, PickUpQuiet, QuietRetires
<1>5. ASSUME NEW a \in Agents, Prepare(a) PROVE Retires
  <2>1. a \in Leasing /\ work[a].event.type = "generate"
    BY <1>5 DEF Prepare, Leasing, LInv, AgentsOK, AgentOK, NeedsPreflight
  <2>2. PICK phase : Stamp(a, "scaffolded", phase) BY <1>5 DEF Prepare
  <2>. QED BY <2>1, <2>2, StampQuiet, QuietRetires DEF Stages
<1>6. ASSUME NEW a \in Agents, Deliver(a) PROVE Retires
  <2>1. a \in Leasing BY <1>6 DEF Deliver, Leasing
  <2>2. CASE Undelivered(work[a].event)
    <3>1. Stamp(a, "ready", "generation_ready") BY <1>6, <2>2 DEF Deliver
    <3>. QED BY <2>1, <2>2, <3>1, StampQuiet, QuietRetires DEF Stages, Undelivered
  <2>3. CASE ~Undelivered(work[a].event)
    <3>1. queue' = SetLease(queue, {work[a].seq}, "held") /\ snap' = snap BY <1>6, <2>3 DEF Deliver
    <3>2. Within(queue, queue') BY <3>1, LeaseWithin DEF LInv, QueueOK
    <3>. QED BY <1>0, <3>1, <3>2, WithinQuiet, QuietRetires
  <2>. QED BY <2>2, <2>3
<1>7. ASSUME NEW a \in Agents, Write(a) PROVE Retires
  BY <1>0, <1>7, QueueStays, WithinQuiet, QuietRetires DEF Write
<1>8. ASSUME NEW a \in Agents, NEW r \in Replies, Reply(a, r) PROVE Retires
  BY <1>8, ReplyQuiet, QuietRetires
<1>9. ASSUME NEW a \in Agents, Compiles(a) PROVE Retires
  <2>1. /\ queue' = queue /\ known' = known /\ JournalReply(work[a].reply)
        /\ work[a].reply \in Entries \cup {NULL}
        /\ work[a].reply # NULL => work[a].reply.id \in known
    BY <1>9 DEF Compiles, LInv, AgentsOK, AgentOK, Works
  <2>2. \A s \in Sessions : snap'[s].canceled = snap[s].canceled BY <2>1, JournalReplyIs
  <2>. QED BY <2>1, <2>2, QueueStays, WithinQuiet, QuietRetires
<1>10. ASSUME NEW a \in Agents, CompileFails(a) PROVE Retires
  BY <1>0, <1>10, QueueStays, WithinQuiet, QuietRetires DEF CompileFails
<1>11. ASSUME NEW a \in Agents, Retry(a) PROVE Retires
  <2>1. snap' = snap /\ queue' = Release(queue, work[a].event.id, work[a].event.type)
    BY <1>11 DEF Retry
  <2>2. Within(queue, queue) BY DEF Within, LInv, QueueOK
  <2>3. Within(queue, queue') BY <2>1, <2>2, LeaseWithin DEF Release, LInv, QueueOK
  <2>. QED BY <1>0, <2>1, <2>3, WithinQuiet, QuietRetires
<1>12. ASSUME NEW s \in 1 .. MaxSeq, LeaseEnds(s) PROVE Retires
  <2>1. snap' = snap /\ Within(queue, queue') BY <1>12, LeaseWithin DEF LeaseEnds, LInv, QueueOK
  <2>. QED BY <1>0, <2>1, WithinQuiet, QuietRetires
<1>13. ~Restart
  <2>1. restarts \in Nat BY LiveServerAssumption DEF LInv, BoundsOK
  <2>. QED BY <2>1 DEF Restart
<1>. QED
  BY <1>1, <1>2, <1>3, <1>4, <1>5, <1>6, <1>7, <1>8, <1>9, <1>10, <1>11, <1>12, <1>13 DEF Next

(***************************************************************************)
(* An accept or a discard withdraws the session's generate for good (POST  *)
(* /events retires it): while the process lives, no post, no stamp of a    *)
(* lease thread that is on its way, no retry and no lapse of a lease puts  *)
(* it back in the queue of a session that is decided.                      *)
(***************************************************************************)
THEOREM WithdrawnForGood == Spec => RetiredStaysRetired
<1>1. LInv /\ [Next]_vars => [restarts' = restarts => Retires]_vars
  BY NextRetires
<1>2. [][restarts' = restarts => Retires]_vars => RetiredStaysRetired
  BY PTL DEF RetiredStaysRetired, Retires
<1>. QED BY <1>1, <1>2, LiveInvariant, PTL DEF Spec

----------------------------------------------------------------------------
(***************************************************************************)
(* The journals and the queue agree, as long as the overlay and the agents *)
(* keep to their parts (Orderly).                                          *)
(***************************************************************************)
\* The session awaits its variants.
Asked(s) == snap[s].pending # NULL /\ snap[s].pending.type = "generate"

\* A session awaits its variants until it is decided.
PendingOK ==
  \A s \in Sessions :
    LET e == snap[s].pending
    IN  e # NULL =>
          /\ e.type \in Decisions \cup {"generate"}
          /\ e.type = "generate" => ~snap[s].canceled /\ snap[s].phase \notin FencedPhases
          /\ e.type \in Decisions => snap[s].canceled /\ snap[s].phase = RequestPhase[e.type]

\* A queued generate is stamped as far as the journal knows.
Durable ==
  \A i \in DOMAIN queue : /\ Restorable(queue[i])
                          /\ queue[i].event.type = "generate" => queue[i].event = snap[queue[i].event.id].pending

\* An agent that is to stamp its generate holds the entry of it.
Stamper(a) ==
  /\ a \in Leasing
  /\ \E i \in DOMAIN queue : /\ queue[i].seq = work[a].seq /\ queue[i].lease = "held"
                             /\ queue[i].event = work[a].event

\* A publication that is being compiled was acknowledged.
Checker(a) ==
  /\ work[a].event.type = "generate" /\ ~GenerateQueued(work[a].event.id)
  /\ IF work[a].reply = NULL THEN ~Asked(work[a].event.id)
     ELSE work[a].reply.type = "agent_done" /\ ~work[a].reply.carbonize

\* Nobody else has the event of a session whose generate is not yet delivered.
Doer(a) ==
  LET e == work[a].event
  IN  /\ e.type \in Decisions \cup {"generate"}
      /\ e.type \in Decisions => snap[e.id].canceled
      /\ at[a] = "checking" => Checker(a)
      /\ at[a] = "cleanup" => e.type = "accept"
      /\ Undelivered(e) => Stamper(a)
      /\ Asked(e.id) /\ Undelivered(snap[e.id].pending) => Undelivered(e)
Stamps(a) == at[a] # "idle" /\ Undelivered(work[a].event)
Doers ==
  /\ \A a \in Agents : at[a] # "idle" => Doer(a)
  /\ \A a, b \in Agents :
       Stamps(a) /\ Stamps(b) /\ work[a].event.id = work[b].event.id => a = b

RInv == PendingOK /\ Durable /\ Doers /\ AnsweredIsNotPending

LEMMA OrderlyRequests ==
  ASSUME Orderly
  PROVE  /\ \A e \in Requests : e.type \in {"generate", "accept", "discard", "checkpoint", "variant_mounted"}
         /\ \A e, f \in Requests : e.id = f.id /\ e.type \in Decisions /\ f.type \in Decisions => SameRequest(e, f)
         /\ \A e, f \in Requests : e.id = f.id /\ e.type = "generate" /\ f.type = "generate" => SameRequest(e, f)
<1>1. \A e \in Requests : e \in Posts \/ e.type = "generate"
  <2>1. ASSUME NEW e \in Requests, e \notin Posts PROVE e.type = "generate"
    <3>1. PICK p \in Generates, g \in Stages : e = [p EXCEPT !.stage = g] BY <2>1 DEF Requests
    <3>2. p.type = "generate" /\ "type" \in DOMAIN p BY LiveServerAssumption DEF Generates
    <3>. QED BY <3>1, <3>2
  <2>. QED BY <2>1
<1>2. \A e, f \in Requests : e.id = f.id /\ e.type \in Decisions /\ f.type \in Decisions => e.type = f.type
  BY <1>1 DEF Orderly, Decisions
<1>3. \A e \in Requests : HasId(e) BY RequestIs
<1>4. \A e \in Requests : e.type \in {"generate", "accept", "discard", "checkpoint", "variant_mounted"}
  BY <1>1 DEF Orderly
<1>. QED BY <1>2, <1>3, <1>4 DEF SameRequest, Decisions

\* What is queued is what its session owes.
LEMMA QueuedIs ==
  ASSUME LInv, RInv, NEW i \in DOMAIN queue
  PROVE  LET e == queue[i].event
             s == snap[e.id]
         IN  /\ e \in Requests /\ e.id \in Sessions /\ e.id \in known /\ Owed(e.id)
             /\ s.pending \in Requests /\ s.pending.id = e.id
             /\ SameRequest(s.pending, e) /\ s.pending.type = e.type
             /\ e.type \in Decisions \cup {"generate"}
             /\ e.type = "generate" => e = s.pending /\ ~s.canceled /\ Asked(e.id)
             /\ e.type \in Decisions => s.canceled
<1>1. queue[i].event \in Requests /\ queue[i].event.id \in Sessions /\ queue[i].event.id \in known
  BY EntriesOf DEF LInv, QueueOK, BoundsOK
<1>2. Restorable(queue[i]) BY DEF RInv, Durable
<1>3. /\ Owed(queue[i].event.id)
      /\ SameRequest(snap[queue[i].event.id].pending, queue[i].event)
  BY <1>2 DEF Restorable, Owed
<1>4. snap[queue[i].event.id].pending.type = queue[i].event.type BY <1>3 DEF SameRequest
<1>5. /\ snap[queue[i].event.id].pending \in Requests
      /\ snap[queue[i].event.id].pending.id = queue[i].event.id
  BY <1>1, <1>3 DEF LInv, SnapOK, IsSnapshot, Owed
<1>. QED BY <1>1, <1>3, <1>4, <1>5 DEF RInv, Durable, PendingOK, Owed, Asked

LEMMA OnePerSession ==
  ASSUME LInv, RInv, NEW i \in DOMAIN queue, NEW j \in DOMAIN queue,
         queue[i].event.id = queue[j].event.id
  PROVE  i = j
<1>1. SameRequest(snap[queue[i].event.id].pending, queue[i].event) BY QueuedIs
<1>2. SameRequest(snap[queue[i].event.id].pending, queue[j].event) BY QueuedIs
<1>3. SameRequest(queue[i].event, queue[j].event) BY <1>1, <1>2, SameAsIs
<1>. QED BY <1>3 DEF LInv, QueueOK, IsQueue, NoCopies

\* The session of an agent that is out of its lease has no stamp to come.
LEMMA NoStamperBeside ==
  ASSUME LInv, RInv, NEW a \in Agents, at[a] # "idle", a \notin Leasing
  PROVE  /\ ~Undelivered(work[a].event)
         /\ \A b \in Agents : Stamps(b) => work[b].event.id # work[a].event.id
<1>1. Doer(a) BY DEF RInv, Doers
<1>2. ~Undelivered(work[a].event) BY <1>1 DEF Doer, Stamper
<1>3. ASSUME NEW b \in Agents, Stamps(b) PROVE work[b].event.id # work[a].event.id
  <2>1. Stamper(b) BY <1>3 DEF Stamps, RInv, Doers, Doer
  <2>2. PICK i \in DOMAIN queue : queue[i].event = work[b].event BY <2>1 DEF Stamper
  <2>3. queue[i].event.type = "generate" BY <1>3, <2>2 DEF Stamps, Undelivered
  <2>4. /\ Asked(work[b].event.id) /\ Undelivered(snap[work[b].event.id].pending)
    BY <1>3, <2>2, <2>3, QueuedIs DEF Stamps
  <2>. QED BY <1>1, <1>2, <2>4 DEF Doer
<1>. QED BY <1>2, <1>3

----------------------------------------------------------------------------
\* No journal says anything new of what is pending.
Calm ==
  \A s \in Sessions : /\ snap'[s].phase = snap[s].phase /\ snap'[s].canceled = snap[s].canceled
                      /\ snap'[s].pending = snap[s].pending

LEMMA CalmPending ==
  ASSUME RInv, Calm
  PROVE  PendingOK' /\ \A s \in Sessions : Owed(s)' = Owed(s) /\ Asked(s)' = Asked(s)
BY DEF RInv, PendingOK, Calm, Owed, Asked, Active

LEMMA CalmDurable ==
  ASSUME LInv, RInv, Calm, Within(queue, queue')
  PROVE  Durable'
<1> SUFFICES ASSUME NEW k \in DOMAIN queue'
             PROVE  /\ Restorable(queue[k])'
                    /\ queue'[k].event.type = "generate" =>
                         queue'[k].event = snap'[queue'[k].event.id].pending
  BY DEF Durable
<1>1. PICK i \in DOMAIN queue : queue'[k].event = queue[i].event BY DEF Within
<1>2. queue[i].event.id \in Sessions BY QueuedIs
<1>3. Restorable(queue[i])
      /\ (queue[i].event.type = "generate" => queue[i].event = snap[queue[i].event.id].pending)
  BY DEF RInv, Durable
<1>. QED BY <1>1, <1>2, <1>3 DEF Calm, Restorable, Active

LEMMA CalmAnswered ==
  ASSUME RInv, Calm, known' = known, known \subseteq Sessions,
         \A i \in DOMAIN queue : \E k \in DOMAIN queue' : queue'[k].event = queue[i].event,
         \A a \in Agents : at[a] \in {"working", "checking"} =>
                             at'[a] \in {"working", "checking"} /\ work'[a].event = work[a].event
  PROVE  AnsweredIsNotPending'
<1> SUFFICES ASSUME NEW s \in known, Active(snap'[s]), snap'[s].pending # NULL
             PROVE  \/ \E k \in DOMAIN queue' : SameRequest(queue'[k].event, snap'[s].pending)
                    \/ \E a \in Agents : /\ at'[a] \in {"working", "checking"}
                                         /\ SameRequest(work'[a].event, snap'[s].pending)
  BY DEF AnsweredIsNotPending
<1>1. snap'[s].pending = snap[s].pending /\ Active(snap[s]) BY DEF Calm, Active
<1>2. \/ \E i \in DOMAIN queue : SameRequest(queue[i].event, snap[s].pending)
      \/ \E a \in Agents : at[a] \in {"working", "checking"} /\ SameRequest(work[a].event, snap[s].pending)
  BY <1>1 DEF RInv, AnsweredIsNotPending
<1>3. CASE \E i \in DOMAIN queue : SameRequest(queue[i].event, snap[s].pending)
  BY <1>1, <1>3
<1>4. CASE \E a \in Agents : at[a] \in {"working", "checking"} /\ SameRequest(work[a].event, snap[s].pending)
  BY <1>1, <1>4
<1>. QED BY <1>2, <1>3, <1>4

\* An agent keeps its event.
LEMMA DoerStays ==
  ASSUME RInv, NEW a \in Agents, at[a] # "idle", work'[a].event = work[a].event, work'[a].seq = work[a].seq,
         at'[a] \in {"checking", "cleanup"} => at'[a] = at[a] /\ work'[a].reply = work[a].reply,
         NEW s, s = work[a].event.id,
         snap[s].canceled => snap'[s].canceled,
         at[a] = "checking" /\ GenerateQueued(s)' => GenerateQueued(s),
         Asked(s)' => Asked(s) /\ snap'[s].pending = snap[s].pending,
         Stamps(a) => Stamper(a)'
  PROVE  Doer(a)'
<1>1. Doer(a) BY DEF RInv, Doers
<1>2. at'[a] = "checking" => Checker(a)' BY <1>1 DEF Doer, Checker
<1>. QED BY <1>1, <1>2 DEF Doer, Stamps

LEMMA StamperStays ==
  ASSUME NEW a \in Agents, a \in Leasing', work'[a].event = work[a].event, work'[a].seq = work[a].seq,
         \A i \in DOMAIN queue : queue[i].seq = work[a].seq /\ queue[i].lease = "held" /\ queue[i].event = work[a].event
           => \E k \in DOMAIN queue' : /\ queue'[k].seq = queue[i].seq /\ queue'[k].lease = "held"
                                       /\ queue'[k].event = queue[i].event,
         Stamper(a)
  PROVE  Stamper(a)'
BY DEF Stamper

LEMMA WithinGenerates ==
  ASSUME Within(queue, queue')
  PROVE  \A s : GenerateQueued(s)' => GenerateQueued(s)
BY DEF Within, GenerateQueued

\* At most one agent is to stamp a session, if no agent comes to be.
LEMMA StampersStay ==
  ASSUME RInv, \A a \in Agents : Stamps(a)' => Stamps(a) /\ work'[a].event.id = work[a].event.id
  PROVE  \A a, b \in Agents :
           Stamps(a)' /\ Stamps(b)' /\ work'[a].event.id = work'[b].event.id => a = b
BY DEF RInv, Doers

----------------------------------------------------------------------------
LEMMA InitRInv == ASSUME Init PROVE RInv
<1>1. PendingOK BY BaseFields DEF Init, PendingOK
<1>2. DOMAIN queue = {} BY DEF Init
<1>3. Doers /\ Durable BY <1>2 DEF Init, Doers, Durable, Stamps
<1>4. AnsweredIsNotPending BY DEF Init, AnsweredIsNotPending
<1>. QED BY <1>1, <1>3, <1>4 DEF RInv

(***************************************************************************)
(* What the overlay posts of a session: its request, or what it sees.      *)
(***************************************************************************)
LEMMA OrderlyPostIs ==
  ASSUME LInv, RInv, Orderly, NEW e \in Posts, Post(e)
  PROVE  LET s == snap[e.id]
             t == snap'[e.id]
         IN  /\ e.id \in Sessions /\ e \in Requests /\ \A x \in Sessions : x # e.id => snap'[x] = snap[x]
             /\ t.canceled = (s.canceled \/ e.type \in Decisions)
             /\ IF Queued(e)
                THEN /\ e.type \in Decisions \cup {"generate"}
                     /\ t.pending = e /\ t.phase = RequestPhase[e.type]
                     /\ e.type = "generate" => e.id \notin known /\ ~t.canceled
                ELSE /\ e.id \in known /\ e.type \notin Decisions /\ t.pending = s.pending
                     /\ \/ t.phase = s.phase
                        \/ t.phase \in BrowserPhases /\ ~s.canceled /\ s.phase \notin FencedPhases
<1> DEFINE id == e.id
           t == Journaled(snap[id], e)
<1>1. id \in Sessions /\ e \in Requests BY PostsAreRequests
<1>2. IsSnapshot(snap[id]) BY <1>1 DEF LInv, SnapOK
<1>3. Becomes(id, t) BY PostBecomes DEF Post
<1>4. snap'[id] = t /\ \A s \in Sessions : s # id => snap'[s] = snap[s]
  BY <1>1, <1>3, SnapOf DEF LInv
<1>5. /\ e.type \in {"generate", "accept", "discard", "checkpoint", "variant_mounted"} /\ ~Orphaned(e)
  BY DEF Orderly
<1>6. t.canceled = (snap[id].canceled \/ e.type \in Decisions) BY <1>2, JournaledIs
<1>7. CASE Queued(e)
  <2>1. e.type \in Decisions \cup {"generate"} BY <1>5, <1>7 DEF Queued, Decisions
  <2>2. e.type \notin Observes BY <2>1 DEF Observes, Decisions
  <2>3. Asks(t, e) BY <1>2, <1>5, <2>2, JournaledIs
  <2>4. e.type = "generate" => id \notin known BY DEF Post, Offered
  <2>5. id \notin known => ~snap[id].canceled BY <1>1, BaseFields DEF LInv, SnapOK
  <2>6. e.type = "generate" => e.type \notin Decisions BY DEF Decisions
  <2> HIDE DEF t
  <2>. QED BY <1>1, <1>4, <1>6, <1>7, <2>1, <2>3, <2>4, <2>5, <2>6 DEF Asks
<1>8. CASE ~Queued(e)
  <2>1. e.type \in {"checkpoint", "variant_mounted"} BY <1>5, <1>8 DEF Queued
  <2>2. id \in known BY <2>1 DEF Post
  <2>3. e.type \in Observes /\ e.type # "variant_mount_failed" /\ e.type \notin Decisions
    BY <2>1 DEF Observes, Decisions
  <2>4. /\ t.pending = snap[id].pending
        /\ \/ t.phase = snap[id].phase
           \/ t.phase \in BrowserPhases /\ ~snap[id].canceled /\ snap[id].phase \notin FencedPhases
    BY <1>2, <2>3, JournaledIs
  <2> HIDE DEF t
  <2>. QED BY <1>1, <1>4, <1>6, <1>8, <2>2, <2>3, <2>4
<1>. QED BY <1>7, <1>8

LEMMA RequestsAreActive ==
  ASSUME NEW t \in Decisions \cup {"generate"}
  PROVE  RequestPhase[t] \notin TerminalPhases /\ RequestPhase["generate"] \notin FencedPhases
BY PhasesOfRequests, SomePhases DEF Decisions, TerminalPhases

\* The queue after a post: what is kept of it, and the request.
LEMMA OrderlyQueueIs ==
  ASSUME LInv, NEW e \in Posts, e \in Requests, Post(e)
  PROVE  /\ \A k \in DOMAIN queue' :
              \/ \E i \in DOMAIN queue : /\ queue'[k].event = queue[i].event
                                         /\ e.type \in Decisions =>
                                              ~(queue[i].event.type = "generate" /\ queue[i].event.id = e.id)
              \/ Queued(e) /\ queue'[k].event = e
         /\ \A i \in DOMAIN queue :
              \/ queue[i].event.id = e.id /\ e.type \in Decisions
              \/ \E k \in DOMAIN queue' : queue'[k].event = queue[i].event
         /\ Queued(e) => \E k \in DOMAIN queue' : SameRequest(queue'[k].event, e)
<1> DEFINE kept == IF e.type \in Decisions THEN RetireGeneration(queue, e.id) ELSE queue
<1>1. IsQueue(queue) /\ nextSeq \in 1 .. MaxSeq
  BY LiveServerAssumption DEF Post, LInv, QueueOK, BoundsOK
<1>2. /\ IsQueue(kept) /\ \A k \in DOMAIN kept : kept[k].seq < nextSeq
      /\ \A k \in DOMAIN kept : \E i \in DOMAIN queue :
           /\ kept[k].event = queue[i].event
           /\ e.type \in Decisions => ~(queue[i].event.type = "generate" /\ queue[i].event.id = e.id)
      /\ \A i \in DOMAIN queue : \/ queue[i].event.id = e.id /\ e.type \in Decisions
                                 \/ \E k \in DOMAIN kept : kept[k] = queue[i]
  <2>1. CASE e.type \in Decisions
    <3>1. kept = RetireGeneration(queue, e.id) BY <2>1
    <3> HIDE DEF kept
    <3>2. /\ Within(queue, kept)
          /\ \A k \in DOMAIN kept : \E i \in DOMAIN queue :
               kept[k] = queue[i] /\ ~(queue[i].event.type = "generate" /\ queue[i].event.id = e.id)
          /\ \A i \in DOMAIN queue : \/ queue[i].event.type = "generate" /\ queue[i].event.id = e.id
                                     \/ \E k \in DOMAIN kept : kept[k] = queue[i]
      BY <1>1, <3>1, RetireIs
    <3>3. \A k \in DOMAIN kept : kept[k].seq < nextSeq BY <3>2 DEF Within, LInv, QueueOK
    <3>. QED BY <2>1, <3>2, <3>3 DEF Within
  <2>2. CASE e.type \notin Decisions BY <1>1, <2>2 DEF LInv, QueueOK
  <2>. QED BY <2>1, <2>2
<1>3. IF Queued(e) THEN queue' = Enqueue(kept, e, nextSeq) ELSE queue' = kept BY DEF Post
<1> HIDE DEF kept
<1>4. CASE ~Queued(e) BY <1>2, <1>3, <1>4
<1>5. CASE Queued(e)
  <2>1. queue' = Enqueue(kept, e, nextSeq) BY <1>3, <1>5
  <2>2. /\ \A k \in DOMAIN queue' : \/ k \in DOMAIN kept /\ queue'[k] = kept[k]
                                    \/ queue'[k].event = e
        /\ \A i \in DOMAIN kept : i \in DOMAIN queue' /\ queue'[i] = kept[i]
        /\ \E k \in DOMAIN queue' : SameRequest(queue'[k].event, e)
    BY <1>1, <1>2, <2>1, EnqueueIs
  <2>. QED BY <1>2, <1>5, <2>2
<1>. QED BY <1>4, <1>5

LEMMA PostRInv ==
  ASSUME LInv, RInv, Orderly, NEW e \in Posts, Post(e)
  PROVE  RInv'
<1> DEFINE id == e.id
<1>1. /\ id \in Sessions /\ e \in Requests /\ \A x \in Sessions : x # id => snap'[x] = snap[x]
      /\ snap'[id].canceled = (snap[id].canceled \/ e.type \in Decisions)
      /\ Queued(e) => /\ e.type \in Decisions \cup {"generate"}
                      /\ snap'[id].pending = e /\ snap'[id].phase = RequestPhase[e.type]
                      /\ e.type = "generate" => id \notin known /\ ~snap'[id].canceled
      /\ ~Queued(e) => /\ id \in known /\ e.type \notin Decisions
                       /\ snap'[id].pending = snap[id].pending
                       /\ \/ snap'[id].phase = snap[id].phase
                          \/ /\ snap'[id].phase \in BrowserPhases
                             /\ ~snap[id].canceled /\ snap[id].phase \notin FencedPhases
  BY OrderlyPostIs
<1>2. /\ \A k \in DOMAIN queue' :
           \/ \E i \in DOMAIN queue : /\ queue'[k].event = queue[i].event
                                      /\ e.type \in Decisions =>
                                           ~(queue[i].event.type = "generate" /\ queue[i].event.id = id)
           \/ Queued(e) /\ queue'[k].event = e
      /\ \A i \in DOMAIN queue : \/ queue[i].event.id = id /\ e.type \in Decisions
                                 \/ \E k \in DOMAIN queue' : queue'[k].event = queue[i].event
      /\ Queued(e) => \E k \in DOMAIN queue' : SameRequest(queue'[k].event, e)
  BY <1>1, OrderlyQueueIs
<1>3. /\ known' = known \cup {id} /\ at' = at /\ work' = work /\ Leasing = {}
      /\ HasId(e) /\ SameRequest(e, e) /\ e # NULL
  BY <1>1, RequestIs DEF Post, Orderly
<1>4. BrowserPhases \cap FencedPhases = {} /\ TerminalPhases \subseteq FencedPhases BY SomePhases
<1>5. Queued(e) => Active(snap'[id]) BY <1>1, RequestsAreActive DEF Active
<1>6. ~Queued(e) => Owed(id)' = Owed(id) BY <1>1, <1>4 DEF Owed, Active
<1>7. PendingOK'
  <2> SUFFICES ASSUME NEW s \in Sessions, snap'[s].pending # NULL
               PROVE  LET p == snap'[s].pending
                      IN  /\ p.type \in Decisions \cup {"generate"}
                          /\ p.type = "generate" => ~snap'[s].canceled /\ snap'[s].phase \notin FencedPhases
                          /\ p.type \in Decisions => snap'[s].canceled /\ snap'[s].phase = RequestPhase[p.type]
    BY DEF PendingOK
  <2>1. CASE s # id BY <1>1, <2>1 DEF RInv, PendingOK
  <2>2. CASE s = id /\ Queued(e) BY <1>1, <2>2, RequestsAreActive
  <2>3. CASE s = id /\ ~Queued(e) BY <1>1, <1>4, <2>3 DEF RInv, PendingOK
  <2>. QED BY <2>1, <2>2, <2>3
<1>8. Durable'
  <2> SUFFICES ASSUME NEW k \in DOMAIN queue'
               PROVE  LET f == queue'[k].event
                      IN  /\ Active(snap'[f.id]) /\ snap'[f.id].pending # NULL
                          /\ SameRequest(snap'[f.id].pending, f)
                          /\ f.type = "generate" => f = snap'[f.id].pending
    BY DEF Durable, Restorable
  <2>1. CASE Queued(e) /\ queue'[k].event = e BY <1>1, <1>3, <1>5, <2>1
  <2>2. CASE \E i \in DOMAIN queue : /\ queue'[k].event = queue[i].event
                                     /\ e.type \in Decisions =>
                                          ~(queue[i].event.type = "generate" /\ queue[i].event.id = id)
    <3>1. PICK i \in DOMAIN queue : /\ queue'[k].event = queue[i].event
                                    /\ e.type \in Decisions =>
                                         ~(queue[i].event.type = "generate" /\ queue[i].event.id = id)
      BY <2>2
    <3> DEFINE f == queue[i].event
    <3>2. /\ f \in Requests /\ f.id \in Sessions /\ f.id \in known /\ Owed(f.id)
          /\ SameRequest(snap[f.id].pending, f)
          /\ f.type \in Decisions \cup {"generate"}
          /\ f.type = "generate" => f = snap[f.id].pending
      BY QueuedIs
    <3> HIDE DEF f
    <3>3. CASE f.id # id BY <1>1, <3>1, <3>2, <3>3 DEF Owed, f
    <3>4. CASE f.id = id /\ Queued(e)
      <4>1. e.type \in Decisions /\ f.type \in Decisions BY <1>1, <3>1, <3>2, <3>4 DEF f
      <4>2. SameRequest(e, f) BY <1>1, <3>2, <3>4, <4>1, OrderlyRequests
      <4>3. f.type # "generate" BY <4>1 DEF Decisions
      <4>. QED BY <1>1, <1>3, <1>5, <3>1, <3>4, <4>2, <4>3 DEF f
    <3>5. CASE f.id = id /\ ~Queued(e)
      <4>1. Owed(id)' BY <1>6, <3>2, <3>5
      <4>. QED BY <1>1, <3>1, <3>2, <3>5, <4>1 DEF f, Owed
    <3>. QED BY <3>3, <3>4, <3>5
  <2>. QED BY <1>2, <2>1, <2>2
<1>9. Doers'
  <2>1. \A a \in Agents : at[a] # "idle" => ~Undelivered(work[a].event)
    BY <1>3 DEF RInv, Doers, Doer, Stamper
  <2>2. ASSUME NEW a \in Agents, at'[a] # "idle" PROVE Doer(a)'
    <3>1. PICK s \in Sessions : s = work[a].event.id /\ s \in known
      BY <1>3, <2>2 DEF LInv, AgentsOK, AgentOK, BoundsOK
    <3>2. snap[s].canceled => snap'[s].canceled BY <1>1, <3>1
    <3>3. Asked(s)' => Asked(s) /\ snap'[s].pending = snap[s].pending
      <4>1. CASE s # id BY <1>1, <3>1, <4>1 DEF Asked
      <4>2. CASE s = id /\ ~Queued(e) BY <1>1, <4>2 DEF Asked
      <4>3. CASE s = id /\ Queued(e)
        <5>1. e.type # "generate" BY <1>1, <3>1, <4>3
        <5>. QED BY <1>1, <4>3, <5>1 DEF Asked
      <4>. QED BY <4>1, <4>2, <4>3
    <3>4. GenerateQueued(s)' => GenerateQueued(s)
      <4>1. ASSUME NEW k \in DOMAIN queue', queue'[k].event.type = "generate", queue'[k].event.id = s
            PROVE  GenerateQueued(s)
        <5>1. ~(Queued(e) /\ queue'[k].event = e) BY <1>1, <3>1, <4>1
        <5>. QED BY <1>2, <4>1, <5>1 DEF GenerateQueued
      <4>. QED BY <4>1 DEF GenerateQueued
    <3>5. at[a] # "idle" /\ ~Stamps(a) BY <1>3, <2>1, <2>2 DEF Stamps
    <3>. QED BY <1>3, <3>1, <3>2, <3>3, <3>4, <3>5, DoerStays
  <2>3. \A a, b \in Agents :
          Stamps(a)' /\ Stamps(b)' /\ work'[a].event.id = work'[b].event.id => a = b
    BY <1>3, <2>1 DEF Stamps
  <2>. QED BY <2>2, <2>3 DEF Doers
<1>10. AnsweredIsNotPending'
  <2> SUFFICES ASSUME NEW s \in known', Owed(s)'
               PROVE  \/ \E k \in DOMAIN queue' : SameRequest(queue'[k].event, snap'[s].pending)
                      \/ \E a \in Agents : /\ at'[a] \in {"working", "checking"}
                                           /\ SameRequest(work'[a].event, snap'[s].pending)
    BY DEF AnsweredIsNotPending, Owed
  <2>1. CASE s = id /\ Queued(e) BY <1>1, <1>2, <2>1
  <2>2. CASE ~(s = id /\ Queued(e))
    <3>1. s \in known /\ s \in Sessions BY <1>1, <1>3, <2>2 DEF LInv, BoundsOK
    <3>2. snap'[s].pending = snap[s].pending /\ Owed(s)
      BY <1>1, <1>6, <2>2, <3>1 DEF Owed
    <3>3. \/ \E i \in DOMAIN queue : SameRequest(queue[i].event, snap[s].pending)
          \/ \E a \in Agents : at[a] \in {"working", "checking"} /\ SameRequest(work[a].event, snap[s].pending)
      BY <3>1, <3>2 DEF RInv, AnsweredIsNotPending, Owed
    <3>4. CASE \E a \in Agents : at[a] \in {"working", "checking"} /\ SameRequest(work[a].event, snap[s].pending)
      BY <1>3, <3>2, <3>4
    <3>5. CASE \E i \in DOMAIN queue : SameRequest(queue[i].event, snap[s].pending)
      <4>1. PICK i \in DOMAIN queue : SameRequest(queue[i].event, snap[s].pending) BY <3>5
      <4>2. snap[s].pending.id = s BY <3>1, <3>2 DEF LInv, SnapOK, Owed
      <4>3. queue[i].event.id = s BY <4>1, <4>2 DEF SameRequest
      <4>4. e.type \in Decisions => Queued(e) BY <1>1
      <4>5. \E k \in DOMAIN queue' : queue'[k].event = queue[i].event BY <1>2, <2>2, <4>3, <4>4
      <4>. QED BY <3>2, <4>1, <4>5
    <3>. QED BY <3>3, <3>4, <3>5
  <2>. QED BY <2>1, <2>2
<1>. QED BY <1>7, <1>8, <1>9, <1>10 DEF RInv

\* The others, when one agent moves and the journals say nothing new.
LEMMA OthersStay ==
  ASSUME LInv, RInv, Calm, NEW a \in Agents, NEW p, NEW w,
         at' = [at EXCEPT ![a] = p], work' = [work EXCEPT ![a] = w],
         \A s : GenerateQueued(s)' => GenerateQueued(s),
         NEW b \in Agents, b # a, at'[b] # "idle", Stamps(b) => Stamper(b)'
  PROVE  Doer(b)'
<1>1. at'[b] = at[b] /\ work'[b] = work[b] BY DEF LInv, AgentsOK
<1>2. PICK s \in Sessions : s = work[b].event.id
  BY <1>1 DEF LInv, AgentsOK, AgentOK, BoundsOK
<1>3. snap[s].canceled => snap'[s].canceled BY DEF Calm
<1>4. Asked(s)' => Asked(s) /\ snap'[s].pending = snap[s].pending BY DEF Calm, Asked
<1>. QED BY <1>1, <1>2, <1>3, <1>4, DoerStays

LEMMA PollRInv ==
  ASSUME LInv, RInv, NEW a \in Agents, Poll(a)
  PROVE  RInv'
<1>1. PICK i \in DOMAIN queue :
        /\ queue[i].lease # "held"
        /\ queue' = SetLease(queue, {queue[i].seq}, "held")
        /\ work' = [work EXCEPT ![a] = [seq |-> queue[i].seq, event |-> queue[i].event, reply |-> NULL]]
  BY PollIs
<1> DEFINE w == [seq |-> queue[i].seq, event |-> queue[i].event, reply |-> NULL]
<1>2. at[a] = "idle" /\ at' = [at EXCEPT ![a] = "claimed"] /\ UNCHANGED <<known, snap>>
  BY DEF Poll
<1>3. /\ Within(queue, queue') /\ DOMAIN queue' = DOMAIN queue
      /\ \A k \in DOMAIN queue :
           /\ queue'[k].seq = queue[k].seq /\ queue'[k].event = queue[k].event
           /\ queue'[k].lease = IF queue[k].seq \in {queue[i].seq} THEN "held" ELSE queue[k].lease
  BY <1>1, LeaseWithin DEF LInv, QueueOK
<1>4. Calm BY <1>2 DEF Calm
<1>5. PendingOK' /\ Durable' BY <1>3, <1>4, CalmPending, CalmDurable
<1>6. at'[a] = "claimed" /\ work'[a] = w
      /\ \A b \in Agents : b # a => at'[b] = at[b] /\ work'[b] = work[b]
  BY <1>1, <1>2 DEF LInv, AgentsOK
<1>7. known \subseteq Sessions BY DEF LInv, BoundsOK
<1>8. AnsweredIsNotPending'
  <2>1. \A k \in DOMAIN queue : k \in DOMAIN queue' /\ queue'[k].event = queue[k].event BY <1>3
  <2>2. \A b \in Agents : at[b] \in {"working", "checking"} =>
                            at'[b] \in {"working", "checking"} /\ work'[b].event = work[b].event
    BY <1>2, <1>6
  <2>. QED BY <1>2, <1>4, <1>7, <2>1, <2>2, CalmAnswered
<1>9. \A s : GenerateQueued(s)' => GenerateQueued(s) BY <1>3, WithinGenerates
<1>10. \A b \in Agents : b # a /\ Stamps(b) => Stamper(b) /\ Stamper(b)'
  <2> SUFFICES ASSUME NEW b \in Agents, b # a, Stamps(b) PROVE Stamper(b) /\ Stamper(b)'
    OBVIOUS
  <2>1. Stamper(b) BY DEF Stamps, RInv, Doers, Doer
  <2>2. b \in Leasing' BY <1>6, <2>1 DEF Stamper, Leasing
  <2>3. Stamper(b)' BY <1>3, <1>6, <2>1, <2>2, StamperStays
  <2>. QED BY <2>1, <2>3
<1>11. queue[i].event.type = "generate" => queue[i].event = snap[queue[i].event.id].pending
  BY QueuedIs
<1>12. Doer(a)'
  <2>1. w.event = queue[i].event /\ w.seq = queue[i].seq OBVIOUS
  <2> HIDE DEF w
  <2>2. /\ w.event.type \in Decisions \cup {"generate"}
        /\ w.event.type \in Decisions => snap[w.event.id].canceled
    BY <2>1, QueuedIs
  <2>3. Asked(w.event.id) /\ Undelivered(snap[w.event.id].pending) => Undelivered(w.event)
    BY <1>11, <2>1, QueuedIs DEF Asked
  <2>4. Stamper(a)'
    <3>1. a \in Leasing' BY <1>6 DEF Leasing
    <3>. QED BY <1>3, <1>6, <2>1, <3>1 DEF Stamper
  <2>. QED BY <1>2, <1>6, <2>2, <2>3, <2>4 DEF Doer, Asked
<1>13. ASSUME NEW b \in Agents, at'[b] # "idle" PROVE Doer(b)'
  <2>1. CASE b = a BY <1>12, <2>1
  <2>2. CASE b # a
    <3> HIDE DEF w
    <3>. QED BY <1>1, <1>2, <1>4, <1>9, <1>10, <1>13, <2>2, OthersStay DEF w
  <2>. QED BY <2>1, <2>2
<1>14. ASSUME NEW b \in Agents, b # a, Stamps(b), Undelivered(queue[i].event)
       PROVE  work[b].event.id # queue[i].event.id
  <2>1. PICK j \in DOMAIN queue : queue[j].lease = "held" /\ queue[j].event = work[b].event
    BY <1>10, <1>14 DEF Stamper
  <2>. QED BY <1>1, <2>1, OnePerSession
<1>15. ASSUME NEW b \in Agents, NEW c \in Agents, Stamps(b)', Stamps(c)', work'[b].event.id = work'[c].event.id
       PROVE  b = c
  <2>1. \A d \in Agents : d # a /\ Stamps(d)' => Stamps(d) /\ work'[d].event.id = work[d].event.id
    BY <1>6 DEF Stamps
  <2>2. Stamps(a)' => Undelivered(queue[i].event) BY <1>6 DEF Stamps
  <2>3. work'[a].event.id = queue[i].event.id BY <1>6
  <2>4. CASE b = a BY <1>14, <1>15, <2>1, <2>2, <2>3, <2>4
  <2>5. CASE c = a BY <1>14, <1>15, <2>1, <2>2, <2>3, <2>5
  <2>6. CASE b # a /\ c # a BY <1>15, <2>1, <2>6 DEF RInv, Doers
  <2>. QED BY <2>4, <2>5, <2>6
<1>16. Doers' BY <1>13, <1>15 DEF Doers
<1>. QED BY <1>5, <1>8, <1>16 DEF RInv

\* Steps that leave the queue's events, the agents' events, and what the
\* journals say of what is pending.
LEMMA IdleStepRInv ==
  ASSUME LInv, RInv, Calm, known' = known, Within(queue, queue'),
         \A i \in DOMAIN queue : \E k \in DOMAIN queue' : queue'[k].event = queue[i].event,
         \A a \in Agents : /\ work'[a].event = work[a].event /\ work'[a].seq = work[a].seq
                           /\ at'[a] = "idle" <=> at[a] = "idle"
                           /\ at[a] \in {"working", "checking"} => at'[a] \in {"working", "checking"}
                           /\ at'[a] \in {"checking", "cleanup"} =>
                                at'[a] = at[a] /\ work'[a].reply = work[a].reply
                           /\ Stamps(a) => Stamper(a)'
  PROVE  RInv'
<1>1. PendingOK' /\ Durable' BY CalmPending, CalmDurable
<1>2. known \subseteq Sessions BY DEF LInv, BoundsOK
<1>3. AnsweredIsNotPending' BY <1>2, CalmAnswered
<1>4. ASSUME NEW a \in Agents, at'[a] # "idle" PROVE Doer(a)'
  <2>1. at[a] # "idle" BY <1>4
  <2>2. PICK s \in Sessions : s = work[a].event.id
    BY <2>1 DEF LInv, AgentsOK, AgentOK, BoundsOK
  <2>3. snap[s].canceled => snap'[s].canceled BY DEF Calm
  <2>4. Asked(s)' => Asked(s) /\ snap'[s].pending = snap[s].pending BY DEF Calm, Asked
  <2>5. GenerateQueued(s)' => GenerateQueued(s) BY WithinGenerates
  <2>. QED BY <2>1, <2>2, <2>3, <2>4, <2>5, DoerStays
<1>5. \A a \in Agents : Stamps(a)' => Stamps(a) /\ work'[a].event.id = work[a].event.id
  BY DEF Stamps
<1>6. Doers' BY <1>4, <1>5, StampersStay DEF Doers
<1>. QED BY <1>1, <1>3, <1>6 DEF RInv

LEMMA PickUpRInv ==
  ASSUME LInv, RInv, NEW a \in Agents, PickUp(a)
  PROVE  RInv'
<1> DEFINE id == work[a].event.id
           t == Record(snap[id], <<"picked_up", "scaffolding">>)
<1>1. /\ at[a] = "claimed" /\ UNCHANGED <<known, queue, work>>
      /\ at' = [at EXCEPT ![a] = "preflight"] \/ at' = [at EXCEPT ![a] = "prepared"]
      /\ snap' = snap \/ snap' = [snap EXCEPT ![id] = t]
  BY DEF PickUp
<1>2. id \in Sessions BY <1>1 DEF LInv, AgentsOK, AgentOK, BoundsOK
<1>3. IsSnapshot(snap[id]) /\ DOMAIN snap = Sessions BY <1>2 DEF LInv, SnapOK
<1>4. Alike(snap[id], t) BY <1>3, PhasesAlike
<1> HIDE DEF t
<1>5. Calm BY <1>1, <1>3, <1>4 DEF Alike, Calm
<1>6. Within(queue, queue') BY <1>1, QueueStays
<1>7. \A b \in Agents : at'[b] = at[b] \/ (at'[b] \in {"preflight", "prepared"} /\ at[b] = "claimed")
  BY <1>1 DEF LInv, AgentsOK
<1>8. ASSUME NEW b \in Agents, Stamps(b) PROVE Stamper(b)'
  <2>1. Stamper(b) BY <1>8 DEF Stamps, RInv, Doers, Doer
  <2>2. b \in Leasing' BY <1>7, <2>1 DEF Stamper, Leasing
  <2>. QED BY <1>1, <2>1, <2>2 DEF Stamper
<1>. QED BY <1>1, <1>5, <1>6, <1>7, <1>8, IdleStepRInv

LEMMA LeaseEndsRInv ==
  ASSUME LInv, RInv, NEW s, LeaseEnds(s)
  PROVE  RInv'
<1>1. UNCHANGED <<known, snap, at, work>> /\ \A a \in Leasing : work[a].seq # s BY DEF LeaseEnds
<1>2. /\ Within(queue, queue') /\ DOMAIN queue' = DOMAIN queue
      /\ \A k \in DOMAIN queue :
           /\ queue'[k].seq = queue[k].seq /\ queue'[k].event = queue[k].event
           /\ queue'[k].lease = IF queue[k].seq \in {s} THEN "lapsed" ELSE queue[k].lease
  BY LeaseWithin DEF LeaseEnds, LInv, QueueOK
<1>3. Calm BY <1>1 DEF Calm
<1>4. ASSUME NEW b \in Agents, Stamps(b) PROVE Stamper(b)'
  <2>1. Stamper(b) BY <1>4 DEF Stamps, RInv, Doers, Doer
  <2>2. b \in Leasing' /\ work[b].seq # s BY <1>1, <2>1 DEF Stamper, Leasing
  <2>. QED BY <1>1, <1>2, <2>1, <2>2 DEF Stamper
<1>. QED BY <1>1, <1>2, <1>3, <1>4, IdleStepRInv

LEMMA WriteRInv ==
  ASSUME LInv, RInv, NEW a \in Agents, Write(a)
  PROVE  RInv'
<1>1. UNCHANGED <<known, snap, queue, at, work>> BY DEF Write
<1>2. Calm BY <1>1 DEF Calm
<1>3. Within(queue, queue') BY <1>1, QueueStays
<1>4. \A b \in Agents : Stamps(b) => Stamper(b)'
  BY <1>1 DEF Stamper, Leasing, Stamps, RInv, Doers, Doer
<1>. QED BY <1>1, <1>2, <1>3, <1>4, IdleStepRInv

LEMMA CompileFailsRInv ==
  ASSUME LInv, RInv, NEW a \in Agents, CompileFails(a)
  PROVE  RInv'
<1>1. /\ at[a] = "checking" /\ UNCHANGED <<known, snap, queue>>
      /\ at' = [at EXCEPT ![a] = "working"] /\ work' = [work EXCEPT ![a].reply = NULL]
  BY DEF CompileFails
<1>2. Calm BY <1>1 DEF Calm
<1>3. Within(queue, queue') BY <1>1, QueueStays
<1>4. \A b \in Agents : b # a => at'[b] = at[b] /\ work'[b] = work[b]
  BY <1>1 DEF LInv, AgentsOK
<1>5. at'[a] = "working" /\ work'[a].event = work[a].event /\ work'[a].seq = work[a].seq
  <2>1. work[a] \in Works BY DEF LInv, AgentsOK
  <2>. QED BY <1>1, <2>1 DEF LInv, AgentsOK, Works
<1>6. ASSUME NEW b \in Agents, Stamps(b) PROVE Stamper(b)'
  <2>1. Stamper(b) BY <1>6 DEF Stamps, RInv, Doers, Doer
  <2>2. b # a BY <1>1, <2>1 DEF Stamper, Leasing
  <2>3. b \in Leasing' BY <1>4, <2>1, <2>2 DEF Stamper, Leasing
  <2>. QED BY <1>1, <1>4, <2>1, <2>2, <2>3 DEF Stamper
<1>7. \A b \in Agents : /\ work'[b].event = work[b].event /\ work'[b].seq = work[b].seq
                        /\ at'[b] = "idle" <=> at[b] = "idle"
                        /\ at[b] \in {"working", "checking"} => at'[b] \in {"working", "checking"}
                        /\ at'[b] \in {"checking", "cleanup"} => at'[b] = at[b] /\ work'[b].reply = work[b].reply
  BY <1>1, <1>4, <1>5
<1>. QED BY <1>1, <1>2, <1>3, <1>6, <1>7, IdleStepRInv

(***************************************************************************)
(* A stamp meets nobody: the session is the stamping agent's alone, and    *)
(* what it owes is the event that is stamped.                              *)
(***************************************************************************)
LEMMA StampRInv ==
  ASSUME LInv, RInv, NEW a \in Agents, Stamps(a), a \in Leasing,
         NEW g \in Stages, NEW phase, Stamp(a, g, phase),
         NEW p, at' = [at EXCEPT ![a] = p], known' = known,
         p = "prepared" \/ (p = "working" /\ g = "ready")
  PROVE  RInv'
<1> DEFINE e0 == [work[a].event EXCEPT !.stage = g]
<1>0. work[a].event.type = "generate" BY DEF Stamps, Undelivered
<1>1. PICK e, t :
        /\ e \in Requests /\ e.id = work[a].event.id /\ e.type = "generate" /\ e.stage = g
        /\ SameRequest(work[a].event, e)
        /\ work' = [work EXCEPT ![a] = [work[a] EXCEPT !.event = e]]
        /\ work'[a].event = e /\ work'[a].seq = work[a].seq
        /\ Becomes(e.id, t) /\ Asks(t, e) /\ t.canceled = snap[e.id].canceled
        /\ DOMAIN queue' = DOMAIN queue
        /\ \A i \in DOMAIN queue :
             /\ queue'[i].seq = queue[i].seq
             /\ queue'[i].event = IF queue[i].seq = work[a].seq THEN e ELSE queue[i].event
             /\ queue'[i].lease = IF g = "ready" /\ queue[i].seq = work[a].seq THEN "held"
                                  ELSE queue[i].lease
  <2> DEFINE t0 == Record(Journal(snap[e0.id], e0), <<phase>>)
  <2>1. /\ e0 \in Requests /\ e0.id = work[a].event.id /\ e0.type = "generate" /\ e0.stage = g
        /\ SameRequest(work[a].event, e0)
        /\ work' = [work EXCEPT ![a] = [work[a] EXCEPT !.event = e0]]
        /\ work'[a].event = e0 /\ work'[a].seq = work[a].seq
        /\ Becomes(e0.id, t0) /\ Asks(t0, e0) /\ t0.canceled = snap[e0.id].canceled
        /\ DOMAIN queue' = DOMAIN queue
        /\ \A i \in DOMAIN queue :
             /\ queue'[i].seq = queue[i].seq
             /\ queue'[i].event = IF queue[i].seq = work[a].seq THEN e0 ELSE queue[i].event
             /\ queue'[i].lease = IF g = "ready" /\ queue[i].seq = work[a].seq THEN "held"
                                  ELSE queue[i].lease
    BY <1>0, StampIs
  <2> HIDE DEF e0, t0
  <2>. QED BY <2>1
<1>2. Stamper(a) BY DEF Stamps, RInv, Doers, Doer
<1>3. PICK j \in DOMAIN queue : /\ queue[j].seq = work[a].seq /\ queue[j].lease = "held"
                                /\ queue[j].event = work[a].event
  BY <1>2 DEF Stamper
<1>4. PICK s \in Sessions : s = e.id /\ s \in known
  BY <1>1 DEF LInv, AgentsOK, AgentOK, Leasing, BoundsOK
<1>5. /\ snap[s].pending = work[a].event /\ ~snap[s].canceled /\ Asked(s)
      /\ Undelivered(snap[s].pending)
  BY <1>0, <1>1, <1>3, <1>4, QueuedIs DEF Stamps
<1>6. /\ snap'[s] = t /\ \A x \in Sessions : x # s => snap'[x] = snap[x]
  BY <1>1, <1>4, SnapOf DEF LInv
<1>7. /\ t.pending = e /\ e # NULL /\ HasId(e) /\ SameRequest(e, e)
      /\ t.phase = "generate_requested" /\ ~t.canceled
      /\ "generate_requested" \notin FencedPhases \cup TerminalPhases
  BY <1>1, <1>4, <1>5, RequestIs, PhasesOfRequests, RequestsAreActive DEF Asks
<1>8. /\ at'[a] = p /\ \A b \in Agents : b # a => at'[b] = at[b] /\ work'[b] = work[b]
  BY <1>1 DEF LInv, AgentsOK
<1>9. \A i \in DOMAIN queue : queue[i].event.id = s => i = j
  BY <1>1, <1>3, <1>4, OnePerSession
<1>10. \A i \in DOMAIN queue : i # j => queue[i].seq # work[a].seq
  BY <1>3 DEF LInv, QueueOK, IsQueue, Numbered
<1>11. ASSUME NEW b \in Agents, b # a, at[b] # "idle" PROVE work[b].event.id # s
  <2>1. Doer(b) /\ (work[b].event.id = s => Undelivered(work[b].event))
    BY <1>5, <1>11 DEF RInv, Doers, Doer
  <2>2. work[b].event.id = s => Stamps(b) BY <1>11, <2>1 DEF Stamps
  <2>. QED BY <1>1, <1>4, <1>11, <2>2 DEF RInv, Doers
<1>12. PendingOK'
  <2>1. ASSUME NEW x \in Sessions, x # s, snap'[x].pending # NULL
        PROVE  LET f == snap'[x].pending
               IN  /\ f.type \in Decisions \cup {"generate"}
                   /\ f.type = "generate" => ~snap'[x].canceled /\ snap'[x].phase \notin FencedPhases
                   /\ f.type \in Decisions => snap'[x].canceled /\ snap'[x].phase = RequestPhase[f.type]
    BY <1>6, <2>1 DEF RInv, PendingOK
  <2>2. "generate" \notin Decisions BY DEF Decisions
  <2>. QED BY <1>1, <1>6, <1>7, <2>1, <2>2 DEF PendingOK
<1>13. Durable'
  <2> SUFFICES ASSUME NEW i \in DOMAIN queue'
               PROVE  LET f == queue'[i].event
                      IN  /\ Active(snap'[f.id]) /\ snap'[f.id].pending # NULL
                          /\ SameRequest(snap'[f.id].pending, f)
                          /\ f.type = "generate" => f = snap'[f.id].pending
    BY DEF Durable, Restorable
  <2>1. CASE i = j BY <1>1, <1>3, <1>4, <1>6, <1>7, <2>1 DEF Active
  <2>2. CASE i # j
    <3>1. queue'[i].event = queue[i].event BY <1>1, <1>10, <2>2
    <3>2. queue[i].event.id # s /\ queue[i].event.id \in Sessions BY <1>1, <1>9, <2>2, QueuedIs
    <3>3. Restorable(queue[i])
          /\ (queue[i].event.type = "generate" => queue[i].event = snap[queue[i].event.id].pending)
      BY <1>1 DEF RInv, Durable
    <3>. QED BY <1>6, <3>1, <3>2, <3>3 DEF Restorable
  <2>. QED BY <2>1, <2>2
<1>14. ASSUME NEW b \in Agents, at'[b] # "idle" PROVE Doer(b)'
  <2>1. CASE b = a
    <3>1. Undelivered(e) => Stamper(a)'
      <4>1. SUFFICES ASSUME Undelivered(e) PROVE Stamper(a)' OBVIOUS
      <4>2. a \in Leasing' BY <1>1, <1>8, <4>1 DEF Undelivered, Leasing
      <4>3. /\ queue'[j].seq = work[a].seq /\ queue'[j].event = e /\ queue'[j].lease = "held"
            /\ j \in DOMAIN queue'
        BY <1>1, <1>3
      <4>. QED BY <1>1, <4>2, <4>3 DEF Stamper
    <3>2. snap'[e.id].pending = e BY <1>4, <1>6, <1>7
    <3>3. e.type \notin Decisions BY <1>1 DEF Decisions
    <3>4. at'[a] \notin {"checking", "cleanup"} BY <1>8
    <3>. QED BY <1>1, <2>1, <3>1, <3>2, <3>3, <3>4 DEF Doer, Asked
  <2>2. CASE b # a
    <3>1. at[b] # "idle" /\ at'[b] = at[b] /\ work'[b] = work[b] BY <1>8, <1>14, <2>2
    <3>2. PICK x \in Sessions : x = work[b].event.id
      BY <3>1 DEF LInv, AgentsOK, AgentOK, BoundsOK
    <3>3. x # s BY <1>11, <2>2, <3>1, <3>2
    <3>4. snap'[x] = snap[x] BY <1>6, <3>3
    <3>5. GenerateQueued(x)' => GenerateQueued(x)
      <4>1. ASSUME NEW i \in DOMAIN queue', queue'[i].event.type = "generate", queue'[i].event.id = x
            PROVE  GenerateQueued(x)
        <5>1. i # j BY <1>1, <1>3, <1>4, <3>3, <4>1
        <5>2. queue'[i].event = queue[i].event BY <1>1, <1>10, <5>1
        <5>. QED BY <1>1, <4>1, <5>2 DEF GenerateQueued
      <4>. QED BY <4>1 DEF GenerateQueued
    <3>6. Stamps(b) => Stamper(b)'
      <4>1. SUFFICES ASSUME Stamps(b) PROVE Stamper(b)' OBVIOUS
      <4>2. Stamper(b) BY <4>1 DEF Stamps, RInv, Doers, Doer
      <4>3. b \in Leasing' BY <3>1, <4>2 DEF Stamper, Leasing
      <4>4. PICK i \in DOMAIN queue : /\ queue[i].seq = work[b].seq /\ queue[i].lease = "held"
                                      /\ queue[i].event = work[b].event
        BY <4>2 DEF Stamper
      <4>5. i # j BY <1>1, <1>3, <1>4, <3>2, <3>3, <4>4
      <4>6. queue'[i].event = queue[i].event /\ queue'[i].lease = "held" /\ queue'[i].seq = queue[i].seq
        BY <1>1, <1>10, <4>4, <4>5
      <4>. QED BY <1>1, <3>1, <4>3, <4>4, <4>6 DEF Stamper
    <3>7. Asked(x)' => Asked(x) /\ snap'[x].pending = snap[x].pending BY <3>4 DEF Asked
    <3>. QED BY <3>1, <3>2, <3>4, <3>5, <3>6, <3>7, DoerStays
  <2>. QED BY <2>1, <2>2
<1>15. \A b \in Agents : Stamps(b)' => Stamps(b) /\ work'[b].event.id = work[b].event.id
  BY <1>1, <1>8 DEF Stamps
<1>16. Doers' BY <1>14, <1>15, StampersStay DEF Doers
<1>17. AnsweredIsNotPending'
  <2> SUFFICES ASSUME NEW x \in known, Owed(x)'
               PROVE  \/ \E k \in DOMAIN queue' : SameRequest(queue'[k].event, snap'[x].pending)
                      \/ \E b \in Agents : /\ at'[b] \in {"working", "checking"}
                                           /\ SameRequest(work'[b].event, snap'[x].pending)
    BY DEF AnsweredIsNotPending, Owed
  <2>1. CASE x = s BY <1>1, <1>3, <1>6, <1>7, <2>1
  <2>2. CASE x # s
    <3>1. snap'[x] = snap[x] /\ Owed(x) /\ x \in Sessions BY <1>6, <2>2 DEF LInv, BoundsOK, Owed
    <3>2. snap[x].pending.id = x BY <3>1 DEF LInv, SnapOK, Owed
    <3>3. \/ \E i \in DOMAIN queue : SameRequest(queue[i].event, snap[x].pending)
          \/ \E b \in Agents : at[b] \in {"working", "checking"} /\ SameRequest(work[b].event, snap[x].pending)
      BY <3>1 DEF RInv, AnsweredIsNotPending, Owed
    <3>4. CASE \E i \in DOMAIN queue : SameRequest(queue[i].event, snap[x].pending)
      <4>1. PICK i \in DOMAIN queue : SameRequest(queue[i].event, snap[x].pending) BY <3>4
      <4>2. queue[i].event.id # s BY <2>2, <3>2, <4>1 DEF SameRequest
      <4>3. i # j BY <1>1, <1>3, <1>4, <4>2
      <4>. QED BY <1>1, <1>10, <3>1, <4>1, <4>3
    <3>5. CASE \E b \in Agents : at[b] \in {"working", "checking"} /\ SameRequest(work[b].event, snap[x].pending)
      <4>1. PICK b \in Agents : at[b] \in {"working", "checking"} /\ SameRequest(work[b].event, snap[x].pending)
        BY <3>5
      <4>2. b # a BY <4>1 DEF Leasing
      <4>. QED BY <1>8, <3>1, <4>1, <4>2
    <3>. QED BY <3>3, <3>4, <3>5
  <2>. QED BY <2>1, <2>2
<1>. QED BY <1>12, <1>13, <1>16, <1>17 DEF RInv

LEMMA PrepareRInv ==
  ASSUME LInv, RInv, NEW a \in Agents, Prepare(a)
  PROVE  RInv'
<1>1. /\ at[a] = "preflight" /\ known' = known /\ at' = [at EXCEPT ![a] = "prepared"]
      /\ \E phase : Stamp(a, "scaffolded", phase)
  BY DEF Prepare
<1>2. a \in Leasing BY <1>1 DEF Leasing
<1>3. Stamps(a)
  BY <1>1 DEF LInv, AgentsOK, AgentOK, NeedsPreflight, Stamps, Undelivered
<1>4. "scaffolded" \in Stages BY DEF Stages
<1>. QED BY <1>1, <1>2, <1>3, <1>4, StampRInv

LEMMA DeliverRInv ==
  ASSUME LInv, RInv, NEW a \in Agents, Deliver(a)
  PROVE  RInv'
<1>1. /\ at[a] = "prepared" /\ known' = known /\ at' = [at EXCEPT ![a] = "working"] /\ a \in Leasing
  BY DEF Deliver, Leasing
<1>2. CASE Undelivered(work[a].event)
  <2>1. Stamps(a) BY <1>1, <1>2 DEF Stamps
  <2>2. Stamp(a, "ready", "generation_ready") BY <1>2 DEF Deliver
  <2>3. "ready" \in Stages BY DEF Stages
  <2>. QED BY <1>1, <2>1, <2>2, <2>3, StampRInv
<1>3. CASE ~Undelivered(work[a].event)
  <2>1. queue' = SetLease(queue, {work[a].seq}, "held") /\ work' = work /\ snap' = snap
    BY <1>3 DEF Deliver
  <2>2. /\ Within(queue, queue') /\ DOMAIN queue' = DOMAIN queue
        /\ \A k \in DOMAIN queue :
             /\ queue'[k].seq = queue[k].seq /\ queue'[k].event = queue[k].event
             /\ queue'[k].lease = IF queue[k].seq \in {work[a].seq} THEN "held" ELSE queue[k].lease
    BY <2>1, LeaseWithin DEF LInv, QueueOK
  <2>3. Calm BY <2>1 DEF Calm
  <2>4. at'[a] = "working" /\ \A b \in Agents : b # a => at'[b] = at[b]
    BY <1>1 DEF LInv, AgentsOK
  <2>5. ASSUME NEW b \in Agents, Stamps(b) PROVE Stamper(b)'
    <3>1. Stamper(b) /\ b # a BY <1>3, <2>5 DEF Stamps, RInv, Doers, Doer
    <3>2. b \in Leasing' BY <2>4, <3>1 DEF Stamper, Leasing
    <3>. QED BY <2>1, <2>2, <3>1, <3>2 DEF Stamper
  <2>6. \A b \in Agents : /\ work'[b].event = work[b].event /\ work'[b].seq = work[b].seq
                          /\ at'[b] = "idle" <=> at[b] = "idle"
                          /\ at[b] \in {"working", "checking"} => at'[b] \in {"working", "checking"}
                          /\ at'[b] \in {"checking", "cleanup"} => at'[b] = at[b] /\ work'[b].reply = work[b].reply
    BY <1>1, <2>1, <2>4
  <2>. QED BY <1>1, <2>2, <2>3, <2>5, <2>6, IdleStepRInv
<1>. QED BY <1>2, <1>3

(***************************************************************************)
(* An answer is acknowledged for the event it answers: whatever its        *)
(* session has queued that the agent's answer could clear is that event.   *)
(***************************************************************************)
LEMMA PreferredIs ==
  ASSUME LInv, NEW id, NEW wanted, NEW n \in DOMAIN wanted, NEW other, DOMAIN wanted \subseteq Nat,
         \A i \in DOMAIN wanted : wanted[i] \in QueuedTypes(id) => i = n
  PROVE  Preferred(id, wanted, other) = IF wanted[n] \in QueuedTypes(id) THEN wanted[n] ELSE other
<1> DEFINE queued == {i \in DOMAIN wanted : wanted[i] \in QueuedTypes(id)}
<1>1. Preferred(id, wanted, other) = IF queued = {} THEN other ELSE wanted[First(queued)]
  BY DEF Preferred
<1>2. queued \subseteq Nat /\ queued \subseteq {n} OBVIOUS
<1>3. queued # {} => First(queued) \in queued
  <2> HIDE DEF queued
  <2>. QED BY <1>2, FirstIsLeast
<1>4. wanted[n] \in QueuedTypes(id) <=> queued # {} BY <1>2
<1>. QED BY <1>1, <1>2, <1>3, <1>4

LEMMA QueuedTypesAre ==
  ASSUME LInv, RInv, NEW s
  PROVE  QueuedTypes(s) = {queue[i].event.type : i \in {k \in DOMAIN queue : queue[k].event.id = s}}
<1>1. \A i \in DOMAIN queue : HasId(queue[i].event) BY QueuedIs, RequestIs
<1>. QED BY <1>1 DEF QueuedTypes, Matching

\* The agent of a decision finds nothing queued but that decision.
LEMMA DecisionAlone ==
  ASSUME LInv, RInv, Orderly, NEW a \in Agents, at[a] # "idle", work[a].event.type \in Decisions,
         NEW s \in Sessions, s = work[a].event.id
  PROVE  /\ snap[s].canceled /\ ~Asked(s)
         /\ \A i \in DOMAIN queue : queue[i].event.id = s => queue[i].event.type = work[a].event.type
         /\ snap[s].pending # NULL => snap[s].pending.type = work[a].event.type
<1>1. snap[s].canceled BY DEF RInv, Doers, Doer
<1>2. ~Asked(s) BY <1>1 DEF RInv, PendingOK, Asked
<1>3. work[a].event \in Requests BY DEF LInv, AgentsOK, AgentOK
<1>4. ASSUME NEW i \in DOMAIN queue, queue[i].event.id = s
      PROVE  queue[i].event.type = work[a].event.type
  <2>1. queue[i].event \in Requests /\ queue[i].event.type \in Decisions BY <1>1, <1>4, QueuedIs
  <2>2. SameRequest(queue[i].event, work[a].event) BY <1>3, <1>4, <2>1, OrderlyRequests
  <2>. QED BY <2>2 DEF SameRequest
<1>5. ASSUME snap[s].pending # NULL PROVE snap[s].pending.type = work[a].event.type
  <2>1. snap[s].pending \in Requests /\ snap[s].pending.id = s BY <1>5 DEF LInv, SnapOK, IsSnapshot
  <2>2. snap[s].pending.type \in Decisions BY <1>2, <1>5 DEF RInv, PendingOK, Asked
  <2>3. SameRequest(snap[s].pending, work[a].event) BY <1>3, <2>1, <2>2, OrderlyRequests
  <2>. QED BY <2>3 DEF SameRequest
<1>. QED BY <1>1, <1>2, <1>4, <1>5

LEMMA ReplySource ==
  ASSUME LInv, RInv, Orderly, NEW a \in Agents, NEW r \in Replies,
         at[a] \in {"working", "cleanup"}, r.to = Task(a),
         NEW s \in Sessions, s = work[a].event.id, NEW source,
         source = IF r.sourced THEN Task(a) ELSE Infer(s, r.type)
  PROVE  /\ work[a].event.type \in Decisions \cup {"generate"} => Task(a) \in {work[a].event.type, "cleanup"}
         /\ work[a].event.type = "generate" => r.type = "done" /\ ~r.carbonize /\ source = "generate"
         /\ work[a].event.type \in Decisions =>
              \A i \in DOMAIN queue : queue[i].event.id = s => i \in Matching(queue, s, source)
<1>1. Doer(a) BY DEF RInv, Doers
<1>2. at[a] = "cleanup" => work[a].event.type = "accept" BY <1>1 DEF Doer
<1>3. Task(a) = IF at[a] = "cleanup" THEN "cleanup" ELSE work[a].event.type BY DEF Task
<1>4. \A i \in DOMAIN queue : queue[i].event.id = s =>
        HasId(queue[i].event) /\ queue[i].event.type \in {"generate", "accept", "discard"}
  BY QueuedIs, RequestIs DEF Decisions
<1>5. ASSUME work[a].event.type = "generate"
      PROVE  r.type = "done" /\ ~r.carbonize /\ source = "generate"
  <2>1. Task(a) = "generate" /\ r.type = "done" /\ ~r.carbonize BY <1>2, <1>3, <1>5 DEF Orderly
  <2>2. Infer(s, "done") = "generate"
    <3> DEFINE wanted == <<"generate", "variant_mount_failed">>
    <3>1. DOMAIN wanted = 1 .. 2 /\ wanted[1] = "generate" /\ wanted[2] = "variant_mount_failed" OBVIOUS
    <3>2. "variant_mount_failed" \notin QueuedTypes(s) BY <1>4, QueuedTypesAre
    <3>3. Infer(s, "done") = Preferred(s, wanted, "generate") BY DEF Infer
    <3> HIDE DEF wanted
    <3>4. 1 \in DOMAIN wanted /\ DOMAIN wanted \subseteq Nat
          /\ \A i \in DOMAIN wanted : wanted[i] \in QueuedTypes(s) => i = 1
      BY <3>1, <3>2
    <3>5. Preferred(s, wanted, "generate") = IF wanted[1] \in QueuedTypes(s) THEN wanted[1] ELSE "generate"
      BY <3>4, PreferredIs
    <3>. QED BY <3>1, <3>3, <3>5
  <2>. QED BY <2>1, <2>2
<1>6. ASSUME work[a].event.type \in Decisions,
             NEW i \in DOMAIN queue, queue[i].event.id = s
      PROVE  i \in Matching(queue, s, source)
  <2>1. queue[i].event.type = work[a].event.type BY <1>6, DecisionAlone
  <2>2. CASE at[a] # "cleanup"
    <3>1. Task(a) = work[a].event.type /\ r.sourced BY <1>3, <1>6, <2>2 DEF Orderly, Decisions
    <3>. QED BY <1>4, <1>6, <2>1, <3>1 DEF Matching
  <2>3. CASE at[a] = "cleanup"
    <3> DEFINE wanted == <<"carbonize_cleanup", "accept", "generate">>
    <3>1. /\ DOMAIN wanted = 1 .. 3
          /\ wanted[1] = "carbonize_cleanup" /\ wanted[2] = "accept" /\ wanted[3] = "generate"
      OBVIOUS
    <3>2. QueuedTypes(s) \subseteq {"accept"} BY <1>2, <1>6, <2>3, DecisionAlone, QueuedTypesAre
    <3>3. r.type = "complete" /\ ~r.sourced BY <1>3, <2>3 DEF Orderly
    <3>4. Infer(s, "complete") = Preferred(s, wanted, "any") BY DEF Infer
    <3> HIDE DEF wanted
    <3>5. 2 \in DOMAIN wanted /\ DOMAIN wanted \subseteq Nat
          /\ \A k \in DOMAIN wanted : wanted[k] \in QueuedTypes(s) => k = 2
      BY <3>1, <3>2
    <3>6. Preferred(s, wanted, "any") = IF wanted[2] \in QueuedTypes(s) THEN wanted[2] ELSE "any"
      BY <3>5, PreferredIs
    <3>7. source \in {"accept", "any"} BY <3>1, <3>3, <3>4, <3>6
    <3>8. queue[i].event.type = "accept" BY <1>2, <2>1, <2>3
    <3>. QED BY <1>4, <1>6, <3>7, <3>8 DEF Matching
  <2>. QED BY <2>2, <2>3
<1>. QED BY <1>3, <1>5, <1>6

LEMMA ReplyTakes ==
  ASSUME LInv, RInv, Orderly, NEW a \in Agents, NEW r \in Replies,
         at[a] \in {"working", "cleanup"}, r.to = Task(a),
         NEW s \in Sessions, s = work[a].event.id, NEW source,
         source = IF r.sourced THEN Task(a) ELSE Infer(s, r.type),
         queue' = Acknowledge(queue, s, source),
         work[a].event.type \in Decisions \cup {"generate"}
  PROVE  /\ Within(queue, queue')
         /\ \A i \in DOMAIN queue : queue[i].event.id # s => \E k \in DOMAIN queue' : queue'[k] = queue[i]
         /\ IF work[a].event.type = "generate"
            THEN /\ ~GenerateQueued(s)'
                 /\ \A i \in DOMAIN queue : queue[i].event.type # "generate" =>
                      \E k \in DOMAIN queue' : queue'[k] = queue[i]
            ELSE \A k \in DOMAIN queue' : queue'[k].event.id # s
<1> DEFINE M == Matching(queue, s, source)
<1>1. IsQueue(queue) BY DEF LInv, QueueOK
<1>2. /\ Within(queue, queue')
      /\ \A k \in DOMAIN queue' : \E i \in DOMAIN queue : queue'[k] = queue[i] /\ (M # {} => i # First(M))
      /\ \A i \in DOMAIN queue : \/ M # {} /\ i = First(M)
                                 \/ \E k \in DOMAIN queue' : queue'[k] = queue[i]
  BY <1>1, AcknowledgeIs
<1>3. M # {} => First(M) \in M BY <1>1, MatchingFirst
<1>4. \A i \in M : i \in DOMAIN queue /\ queue[i].event.id = s BY DEF Matching
<1>5. \A i \in M : i = First(M) BY <1>3, <1>4, OnePerSession
<1>6. source = "generate" => \A i \in DOMAIN queue : i \in M <=> queue[i].event.id = s /\ queue[i].event.type = "generate"
  <2>1. \A i \in DOMAIN queue : HasId(queue[i].event) BY QueuedIs, RequestIs
  <2>. QED BY <2>1 DEF Matching
<1>7. work[a].event.type = "generate" => source = "generate" BY ReplySource
<1>8. work[a].event.type \in Decisions => \A i \in DOMAIN queue : queue[i].event.id = s => i \in M
  BY ReplySource
<1> HIDE DEF M
<1>9. ASSUME NEW k \in DOMAIN queue', queue'[k].event.id = s
      PROVE  /\ work[a].event.type = "generate" /\ queue'[k].event.type # "generate"
  <2>1. PICK i \in DOMAIN queue : queue'[k] = queue[i] /\ (M # {} => i # First(M)) BY <1>2
  <2>2. i \notin M BY <1>5, <2>1
  <2>. QED BY <1>6, <1>7, <1>8, <1>9, <2>1, <2>2 DEF Decisions
<1>10. ~GenerateQueued(s)' BY <1>9 DEF GenerateQueued
<1>. QED BY <1>2, <1>3, <1>4, <1>6, <1>7, <1>9, <1>10

LEMMA JournalTypes ==
  /\ JournalType["done"] = "agent_done" /\ JournalType["error"] = "agent_error"
  /\ JournalType["complete"] = "complete" /\ JournalType["discarded"] = "discarded"
BY DEF JournalType

\* What an answer clears is what was answered; what it does not clear is
\* no request of the agent's kind.
LEMMA ReplyTells ==
  ASSUME LInv, RInv, Orderly, NEW a \in Agents, NEW r \in Replies,
         at[a] \in {"working", "cleanup"}, r.to = Task(a),
         NEW s \in Sessions, s = work[a].event.id, NEW source,
         source = IF r.sourced THEN Task(a) ELSE Infer(s, r.type),
         work[a].event.type \in Decisions \cup {"generate"},
         NEW acked, acked = Acked(s, source), NEW e, e = ReplyEntry(s, r, acked)
  PROVE  /\ e \in Entries \cup {NULL} /\ (e # NULL => e.id = s)
         /\ e # NULL /\ work[a].event.type = "generate" => e.type = "agent_done" /\ ~e.carbonize
         /\ e = NULL \/ Late(snap[s], e) =>
              ~Asked(s) /\ (Owed(s) => work[a].event.type = "generate")
<1>1. /\ acked \in PostTypes \cup {NULL}
      /\ e \in Entries \cup {NULL} /\ (e # NULL => e.id = s /\ e.source = acked)
  BY ReplyEntryIs
<1>2. /\ e = NULL => snap[s].phase \in TerminalPhases
      /\ e # NULL => e.type = JournalType[r.type] /\ e.carbonize = r.carbonize
  <2> DEFINE rec == [type |-> JournalType[r.type], id |-> s, source |-> acked, carbonize |-> r.carbonize]
  <2>1. r.type \in DOMAIN JournalType /\ r.carbonize \in BOOLEAN BY LiveServerAssumption
  <2>2. JournalType[r.type] \in Range(JournalType) BY <2>1 DEF Range
  <2>3. rec \in Entries BY <1>1, <2>1, <2>2 DEF Entries
  <2>4. rec # NULL BY <2>3, LiveServerAssumption
  <2>5. e = IF acked = NULL /\ snap[s].phase \in TerminalPhases THEN NULL ELSE rec BY DEF ReplyEntry
  <2>6. rec.type = JournalType[r.type] /\ rec.carbonize = r.carbonize OBVIOUS
  <2> HIDE DEF rec
  <2>. QED BY <2>4, <2>5, <2>6
<1>3. TerminalPhases \subseteq FencedPhases BY SomePhases
<1>4. Asked(s) => ~snap[s].canceled /\ snap[s].phase \notin FencedPhases
  BY DEF RInv, PendingOK, Asked
<1>5. e = NULL => ~Asked(s) /\ ~Owed(s) BY <1>2, <1>3, <1>4 DEF Owed, Active
<1>6. CASE work[a].event.type = "generate"
  <2>1. r.type = "done" /\ ~r.carbonize BY <1>6, ReplySource
  <2>2. e # NULL => e.type = "agent_done" /\ ~e.carbonize BY <1>2, <2>1, JournalTypes
  <2>3. e # NULL /\ Late(snap[s], e) => ~Asked(s)
    BY <1>1, <1>4, <2>2 DEF Late, Fenced
  <2>. QED BY <1>1, <1>5, <1>6, <2>2, <2>3
<1>7. CASE work[a].event.type \in Decisions
  <2>1. /\ snap[s].canceled /\ ~Asked(s)
        /\ \A i \in DOMAIN queue : queue[i].event.id = s => queue[i].event.type = work[a].event.type
        /\ snap[s].pending # NULL => snap[s].pending.type = work[a].event.type
    BY <1>7, DecisionAlone
  <2>2. acked # "generate"
    <3>1. Matching(queue, s, source) # {} =>
            First(Matching(queue, s, source)) \in Matching(queue, s, source)
      BY MatchingFirst DEF LInv, QueueOK
    <3>2. Matching(queue, s, source) # {} => acked = work[a].event.type
      BY <2>1, <3>1 DEF Matching, Acked
    <3>3. NULL # "generate" BY LiveServerAssumption DEF PostTypes
    <3>. QED BY <1>7, <3>2, <3>3 DEF Decisions, Acked
  <2>3. /\ r.type \in {"complete", "error", "discarded", "done"}
        /\ r.type = "done" => r.carbonize /\ work[a].event.type = "accept"
    <3>1. Task(a) \in {"accept", "discard", "cleanup"} /\ (Task(a) = "accept" => work[a].event.type = "accept")
      BY <1>7 DEF Task, Decisions
    <3>. QED BY <3>1 DEF Orderly
  <2>4. ASSUME e # NULL, Late(snap[s], e) PROVE ~Owed(s)
    <3>1. e.type \in {"complete", "agent_error", "discarded", "agent_done"}
          /\ (e.type = "agent_done" => r.type = "done")
      BY <1>2, <2>3, <2>4, JournalTypes
    <3>2. e.source = acked BY <1>1, <2>4
    <3>3. e.type = "agent_done" /\ ~ClosesAccept(snap[s], e) BY <2>2, <2>4, <3>1, <3>2 DEF Late
    <3>4. Field(e, "carbonize", FALSE) = TRUE
      <4>1. e \in Entries /\ e.carbonize = r.carbonize /\ r.carbonize BY <1>1, <1>2, <2>3, <2>4, <3>1, <3>3
      <4>. QED BY <4>1 DEF Field, Entries
    <3>5. snap[s].phase # "accept_requested" BY <3>3, <3>4 DEF ClosesAccept
    <3>6. work[a].event.type = "accept" BY <2>3, <3>1, <3>3
    <3>7. snap[s].pending # NULL => snap[s].phase = "accept_requested"
      BY <1>7, <2>1, <3>6, PhasesOfRequests DEF RInv, PendingOK
    <3>. QED BY <3>5, <3>7 DEF Owed
  <2>5. work[a].event.type # "generate" BY <1>7 DEF Decisions
  <2>. QED BY <1>1, <1>5, <2>1, <2>4, <2>5
<1>. QED BY <1>6, <1>7

(***************************************************************************)
(* An answer settles its session: the session owes nothing and has nothing *)
(* queued, or the answer came late and what is owed is someone else's.     *)
(***************************************************************************)
LEMMA SettlesRInv ==
  ASSUME LInv, RInv, known' = known, NEW a \in Agents, at[a] # "idle", a \notin Leasing,
         NEW s \in Sessions, s = work[a].event.id, s \in known,
         Within(queue, queue'),
         \A i \in DOMAIN queue : queue[i].event.id # s => \E k \in DOMAIN queue' : queue'[k] = queue[i],
         IF work[a].event.type = "generate"
         THEN /\ ~GenerateQueued(s)'
              /\ \A i \in DOMAIN queue : queue[i].event.type # "generate" =>
                   \E k \in DOMAIN queue' : queue'[k] = queue[i]
         ELSE \A k \in DOMAIN queue' : queue'[k].event.id # s,
         NEW e \in Entries \cup {NULL}, e # NULL => e.id = s, JournalReply(e),
         e # NULL /\ work[a].event.type = "generate" => e.type = "agent_done" /\ ~e.carbonize,
         e = NULL \/ Late(snap[s], e) => ~Asked(s) /\ (Owed(s) => work[a].event.type = "generate"),
         NEW p \in {"idle", "cleanup"}, NEW w,
         at' = [at EXCEPT ![a] = p], work' = [work EXCEPT ![a] = w],
         p = "cleanup" => w.event = work[a].event /\ w.event.type = "accept"
  PROVE  RInv'
<1>1. \A x \in Sessions :
        IF e = NULL \/ x # e.id THEN snap'[x] = snap[x]
        ELSE IF Late(snap[x], e) THEN Alike(snap[x], snap'[x])
        ELSE Cleared(snap[x], snap'[x])
  BY JournalReplyIs
<1>2. \A x \in Sessions : x # s => snap'[x] = snap[x] BY <1>1
<1>3. snap'[s].canceled = snap[s].canceled BY <1>1 DEF Alike, Cleared
<1>4. \/ snap'[s].pending = NULL /\ \A k \in DOMAIN queue' : queue'[k].event.id # s
      \/ /\ snap'[s].phase = snap[s].phase /\ snap'[s].pending = snap[s].pending /\ ~Asked(s)
         /\ Owed(s) => /\ work[a].event.type = "generate"
                       /\ \A i \in DOMAIN queue : \E k \in DOMAIN queue' : queue'[k] = queue[i]
  <2>1. CASE e = NULL \/ Late(snap[s], e)
    <3>1. /\ snap'[s].phase = snap[s].phase /\ snap'[s].pending = snap[s].pending
      BY <1>1, <2>1 DEF Alike
    <3>2. \A i \in DOMAIN queue : queue[i].event.type = "generate" => queue[i].event.id # s
      BY <2>1, QueuedIs
    <3>. QED BY <2>1, <3>1, <3>2
  <2>2. CASE e # NULL /\ ~Late(snap[s], e)
    <3>1. snap'[s].pending = NULL BY <1>1, <2>2 DEF Cleared
    <3>2. ASSUME work[a].event.type = "generate", NEW k \in DOMAIN queue', queue'[k].event.id = s
          PROVE  FALSE
      <4>1. ~snap[s].canceled
        <5>1. e.type = "agent_done" /\ ~e.carbonize /\ e \in Entries BY <2>2, <3>2
        <5>2. Field(e, "carbonize", FALSE) = FALSE BY <5>1 DEF Field, Entries
        <5>. QED BY <2>2, <5>1, <5>2 DEF Late, ClosesAccept
      <4>2. PICK i \in DOMAIN queue : queue'[k].event = queue[i].event BY DEF Within
      <4>3. queue[i].event.type = "generate" BY <3>2, <4>1, <4>2, QueuedIs
      <4>. QED BY <3>2, <4>2, <4>3 DEF GenerateQueued
    <3>. QED BY <3>1, <3>2
  <2>. QED BY <2>1, <2>2
<1>5. Asked(s)' => FALSE BY <1>4 DEF Asked
<1>6. /\ at'[a] = p /\ work'[a] = w
      /\ \A b \in Agents : b # a => at'[b] = at[b] /\ work'[b] = work[b]
  BY DEF LInv, AgentsOK
<1>7. PendingOK'
  <2> SUFFICES ASSUME NEW x \in Sessions, snap'[x].pending # NULL
               PROVE  LET f == snap'[x].pending
                      IN  /\ f.type \in Decisions \cup {"generate"}
                          /\ f.type = "generate" => ~snap'[x].canceled /\ snap'[x].phase \notin FencedPhases
                          /\ f.type \in Decisions => snap'[x].canceled /\ snap'[x].phase = RequestPhase[f.type]
    BY DEF PendingOK
  <2>1. /\ snap'[x].pending = snap[x].pending /\ snap'[x].phase = snap[x].phase
        /\ snap'[x].canceled = snap[x].canceled
    BY <1>2, <1>3, <1>4
  <2>. QED BY <2>1 DEF RInv, PendingOK
<1>8. Durable'
  <2> SUFFICES ASSUME NEW k \in DOMAIN queue'
               PROVE  LET f == queue'[k].event
                      IN  /\ Active(snap'[f.id]) /\ snap'[f.id].pending # NULL
                          /\ SameRequest(snap'[f.id].pending, f)
                          /\ f.type = "generate" => f = snap'[f.id].pending
    BY DEF Durable, Restorable
  <2>1. PICK i \in DOMAIN queue : queue'[k].event = queue[i].event BY DEF Within
  <2>2. queue[i].event.id \in Sessions BY QueuedIs
  <2>3. Restorable(queue[i])
        /\ (queue[i].event.type = "generate" => queue[i].event = snap[queue[i].event.id].pending)
    BY DEF RInv, Durable
  <2>4. /\ snap'[queue[i].event.id].pending = snap[queue[i].event.id].pending
        /\ snap'[queue[i].event.id].phase = snap[queue[i].event.id].phase
    BY <1>2, <1>4, <2>1, <2>2
  <2>. QED BY <2>1, <2>3, <2>4 DEF Restorable, Active
<1>9. AnsweredIsNotPending'
  <2> SUFFICES ASSUME NEW x \in known, Active(snap'[x]), snap'[x].pending # NULL
               PROVE  \/ \E k \in DOMAIN queue' : SameRequest(queue'[k].event, snap'[x].pending)
                      \/ \E b \in Agents : /\ at'[b] \in {"working", "checking"}
                                           /\ SameRequest(work'[b].event, snap'[x].pending)
    BY DEF AnsweredIsNotPending
  <2>1. x \in Sessions BY DEF LInv, BoundsOK
  <2>2. snap'[x].pending = snap[x].pending /\ Owed(x) BY <1>2, <1>4, <2>1 DEF Owed, Active
  <2>3. snap[x].pending.id = x BY <2>1, <2>2 DEF LInv, SnapOK, Owed
  <2>4. CASE \E i \in DOMAIN queue : SameRequest(queue[i].event, snap[x].pending)
    <3>1. PICK i \in DOMAIN queue : SameRequest(queue[i].event, snap[x].pending) BY <2>4
    <3>2. queue[i].event.id = x BY <2>3, <3>1 DEF SameRequest
    <3>3. \E k \in DOMAIN queue' : queue'[k] = queue[i] BY <1>4, <2>2, <3>2
    <3>. QED BY <2>2, <3>1, <3>3
  <2>5. CASE \E b \in Agents : at[b] \in {"working", "checking"} /\ SameRequest(work[b].event, snap[x].pending)
    <3>1. PICK b \in Agents : at[b] \in {"working", "checking"} /\ SameRequest(work[b].event, snap[x].pending)
      BY <2>5
    <3>2. b # a
      <4>1. x = s => work[a].event.type = "generate" /\ snap[x].pending.type # "generate"
        BY <1>4, <2>2 DEF Asked
      <4>. QED BY <2>3, <3>1, <4>1 DEF SameRequest
    <3>. QED BY <1>6, <2>2, <3>1, <3>2
  <2>. QED BY <2>2, <2>4, <2>5 DEF RInv, AnsweredIsNotPending, Owed
<1>10. \A b \in Agents : Stamps(b) => work[b].event.id # s BY NoStamperBeside
<1>11. ~Stamps(a)' BY <1>6 DEF Stamps, Undelivered
<1>12. ASSUME at'[a] # "idle" PROVE Doer(a)'
  <2>1. p = "cleanup" /\ w.event = work[a].event /\ w.event.type = "accept" BY <1>6, <1>12
  <2>2. w.event.type \in Decisions BY <2>1 DEF Decisions
  <2>3. Doer(a) BY DEF RInv, Doers
  <2>4. snap'[s].canceled BY <1>3, <2>1, <2>2, <2>3 DEF Doer
  <2>. QED BY <1>5, <1>6, <2>1, <2>2, <2>4 DEF Doer, Undelivered, Asked
<1>13. ASSUME NEW b \in Agents, b # a, at'[b] # "idle" PROVE Doer(b)'
  <2>1. at'[b] = at[b] /\ work'[b] = work[b] BY <1>6, <1>13
  <2>2. PICK x \in Sessions : x = work[b].event.id
    BY <1>13, <2>1 DEF LInv, AgentsOK, AgentOK, BoundsOK
  <2>3. snap[x].canceled => snap'[x].canceled BY <1>2, <1>3
  <2>4. Asked(x)' => Asked(x) /\ snap'[x].pending = snap[x].pending BY <1>2, <1>5 DEF Asked
  <2>5. GenerateQueued(x)' => GenerateQueued(x) BY WithinGenerates
  <2>6. ASSUME Stamps(b) PROVE Stamper(b)'
    <3>1. Stamper(b) BY <2>6 DEF Stamps, RInv, Doers, Doer
    <3>2. PICK i \in DOMAIN queue : /\ queue[i].seq = work[b].seq /\ queue[i].lease = "held"
                                    /\ queue[i].event = work[b].event
      BY <3>1 DEF Stamper
    <3>3. \E k \in DOMAIN queue' : queue'[k] = queue[i] BY <1>10, <2>6, <3>2
    <3>4. b \in Leasing' BY <2>1, <3>1 DEF Stamper, Leasing
    <3>. QED BY <2>1, <3>2, <3>3, <3>4 DEF Stamper
  <2>. QED BY <1>13, <2>1, <2>2, <2>3, <2>4, <2>5, <2>6, DoerStays
<1>14. \A b \in Agents : Stamps(b)' => Stamps(b) /\ work'[b].event.id = work[b].event.id
  BY <1>6, <1>11 DEF Stamps
<1>15. Doers' BY <1>12, <1>13, <1>14, StampersStay DEF Doers
<1>. QED BY <1>7, <1>8, <1>9, <1>15 DEF RInv

\* A Svelte publication is acknowledged, and not journaled before it compiles.
LEMMA PublishRInv ==
  ASSUME LInv, RInv, Orderly, NEW a \in Agents, at[a] = "working", work[a].event.type = "generate",
         NEW s \in Sessions, s = work[a].event.id, UNCHANGED <<known, snap>>,
         Within(queue, queue'), ~GenerateQueued(s)',
         \A i \in DOMAIN queue : queue[i].event.id # s => \E k \in DOMAIN queue' : queue'[k] = queue[i],
         \A i \in DOMAIN queue : queue[i].event.type # "generate" =>
           \E k \in DOMAIN queue' : queue'[k] = queue[i],
         NEW e, IF e = NULL THEN ~Asked(s) ELSE e.type = "agent_done" /\ ~e.carbonize,
         at' = [at EXCEPT ![a] = "checking"], work' = [work EXCEPT ![a].reply = e]
  PROVE  RInv'
<1> DEFINE w == [work[a] EXCEPT !.reply = e]
<1>1. /\ w.event = work[a].event /\ w.seq = work[a].seq /\ w.reply = e
      /\ work' = [work EXCEPT ![a] = w]
  BY DEF LInv, AgentsOK, Works
<1> HIDE DEF w
<1>2. /\ at'[a] = "checking" /\ work'[a] = w
      /\ \A b \in Agents : b # a => at'[b] = at[b] /\ work'[b] = work[b]
  BY <1>1 DEF LInv, AgentsOK
<1>3. Calm BY DEF Calm
<1>4. PendingOK' /\ Durable' BY <1>3, CalmPending, CalmDurable
<1>5. AnsweredIsNotPending'
  <2> SUFFICES ASSUME NEW x \in known, Active(snap[x]), snap[x].pending # NULL
               PROVE  \/ \E k \in DOMAIN queue' : SameRequest(queue'[k].event, snap[x].pending)
                      \/ \E b \in Agents : /\ at'[b] \in {"working", "checking"}
                                           /\ SameRequest(work'[b].event, snap[x].pending)
    BY DEF AnsweredIsNotPending
  <2>1. x \in Sessions BY DEF LInv, BoundsOK
  <2>2. snap[x].pending.id = x /\ snap[x].pending \in Requests BY <2>1 DEF LInv, SnapOK, IsSnapshot
  <2>3. CASE x = s /\ Asked(s)
    <3>1. work[a].event \in Requests BY DEF LInv, AgentsOK, AgentOK
    <3>2. SameRequest(work[a].event, snap[x].pending) BY <2>2, <2>3, <3>1, OrderlyRequests DEF Asked
    <3>. QED BY <1>1, <1>2, <3>2
  <2>4. CASE ~(x = s /\ Asked(s))
    <3>1. ASSUME NEW i \in DOMAIN queue, SameRequest(queue[i].event, snap[x].pending)
          PROVE  \E k \in DOMAIN queue' : queue'[k] = queue[i]
      <4>1. queue[i].event.id = x /\ queue[i].event.type = snap[x].pending.type
        BY <2>2, <3>1 DEF SameRequest
      <4>. QED BY <2>4, <4>1 DEF Asked
    <3>2. \/ \E i \in DOMAIN queue : SameRequest(queue[i].event, snap[x].pending)
          \/ \E b \in Agents : at[b] \in {"working", "checking"} /\ SameRequest(work[b].event, snap[x].pending)
      BY DEF RInv, AnsweredIsNotPending
    <3>3. CASE \E i \in DOMAIN queue : SameRequest(queue[i].event, snap[x].pending) BY <3>1, <3>3
    <3>4. CASE \E b \in Agents : at[b] \in {"working", "checking"} /\ SameRequest(work[b].event, snap[x].pending)
      BY <1>1, <1>2, <3>4
    <3>. QED BY <3>2, <3>3, <3>4
  <2>. QED BY <2>3, <2>4
<1>6. \A x : GenerateQueued(x)' => GenerateQueued(x) BY WithinGenerates
<1>7. a \notin Leasing BY DEF Leasing
<1>8. ~Undelivered(work[a].event) /\ \A b \in Agents : Stamps(b) => work[b].event.id # s
  BY <1>7, NoStamperBeside
<1>9. ASSUME NEW b \in Agents, b # a, Stamps(b) PROVE Stamper(b)'
  <2>1. Stamper(b) BY <1>9 DEF Stamps, RInv, Doers, Doer
  <2>2. PICK i \in DOMAIN queue : /\ queue[i].seq = work[b].seq /\ queue[i].lease = "held"
                                  /\ queue[i].event = work[b].event
    BY <2>1 DEF Stamper
  <2>3. \E k \in DOMAIN queue' : queue'[k] = queue[i] BY <1>8, <1>9, <2>2
  <2>4. b \in Leasing' BY <1>2, <1>9, <2>1 DEF Stamper, Leasing
  <2>. QED BY <1>2, <1>9, <2>2, <2>3, <2>4 DEF Stamper
<1>10. Doer(a)'
  <2>1. Doer(a) BY DEF RInv, Doers
  <2>2. Asked(s)' = Asked(s) BY DEF Asked
  <2>3. Checker(a)' BY <1>1, <1>2, <2>2 DEF Checker
  <2>4. Asked(s)' /\ Undelivered(snap'[s].pending) => Undelivered(work'[a].event)
    BY <1>1, <1>2, <2>1, <2>2 DEF Doer
  <2>. QED BY <1>1, <1>2, <1>8, <2>1, <2>3, <2>4 DEF Doer, Decisions
<1>11. \A b \in Agents : at'[b] # "idle" => Doer(b)'
  <2>1. ASSUME NEW b \in Agents, b # a, at'[b] # "idle" PROVE Doer(b)'
    BY <1>1, <1>3, <1>6, <1>9, <2>1, OthersStay
  <2>. QED BY <1>10, <2>1
<1>12. \A b \in Agents : Stamps(b)' => Stamps(b) /\ work'[b].event.id = work[b].event.id
  BY <1>1, <1>2 DEF Stamps
<1>13. Doers' BY <1>11, <1>12, StampersStay DEF Doers
<1>. QED BY <1>4, <1>5, <1>13 DEF RInv

LEMMA ReplyRInv ==
  ASSUME LInv, RInv, Orderly, NEW a \in Agents, NEW r \in Replies, Reply(a, r)
  PROVE  RInv'
<1>0. /\ at[a] \in {"working", "cleanup"} /\ r.to = Task(a) /\ UNCHANGED <<known, nextSeq>>
  BY DEF Reply
<1>1. PICK s \in Sessions : s = work[a].event.id /\ s \in known
  BY <1>0 DEF LInv, AgentsOK, AgentOK, BoundsOK
<1>2. PICK source : source = IF r.sourced THEN Task(a) ELSE Infer(s, r.type) OBVIOUS
<1>3. PICK e : e = ReplyEntry(s, r, Acked(s, source)) OBVIOUS
<1>4. /\ queue' = Acknowledge(queue, s, source)
      /\ IF r.svelte
         THEN /\ at' = [at EXCEPT ![a] = "checking"]
              /\ work' = [work EXCEPT ![a].reply = e]
              /\ UNCHANGED snap
         ELSE JournalReply(e) /\ Finished(a, r.carbonize)
  BY <1>1, <1>2, <1>3 DEF Reply, Acked
<1>5. work[a].event.type \in Decisions \cup {"generate"} /\ (at[a] = "cleanup" => work[a].event.type = "accept")
  BY <1>0 DEF RInv, Doers, Doer
<1>6. /\ Within(queue, queue')
      /\ \A i \in DOMAIN queue : queue[i].event.id # s => \E k \in DOMAIN queue' : queue'[k] = queue[i]
      /\ IF work[a].event.type = "generate"
         THEN /\ ~GenerateQueued(s)'
              /\ \A i \in DOMAIN queue : queue[i].event.type # "generate" =>
                   \E k \in DOMAIN queue' : queue'[k] = queue[i]
         ELSE \A k \in DOMAIN queue' : queue'[k].event.id # s
  BY <1>0, <1>1, <1>2, <1>4, <1>5, ReplyTakes
<1>7. /\ e \in Entries \cup {NULL} /\ (e # NULL => e.id = s)
      /\ e # NULL /\ work[a].event.type = "generate" => e.type = "agent_done" /\ ~e.carbonize
      /\ e = NULL \/ Late(snap[s], e) =>
           ~Asked(s) /\ (Owed(s) => work[a].event.type = "generate")
  BY <1>0, <1>1, <1>2, <1>3, <1>5, ReplyTells
<1>8. a \notin Leasing BY <1>0 DEF Leasing
<1>9. CASE r.svelte
  <2>1. at[a] = "working" /\ work[a].event.type = "generate"
    BY <1>0, <1>9 DEF Orderly, Task
  <2>2. /\ at' = [at EXCEPT ![a] = "checking"] /\ work' = [work EXCEPT ![a].reply = e]
        /\ UNCHANGED <<known, snap>>
    BY <1>0, <1>4, <1>9
  <2>3. IF e = NULL THEN ~Asked(s) ELSE e.type = "agent_done" /\ ~e.carbonize BY <1>7, <2>1
  <2>4. /\ Within(queue, queue') /\ ~GenerateQueued(s)'
        /\ \A i \in DOMAIN queue : queue[i].event.id # s => \E k \in DOMAIN queue' : queue'[k] = queue[i]
        /\ \A i \in DOMAIN queue : queue[i].event.type # "generate" =>
             \E k \in DOMAIN queue' : queue'[k] = queue[i]
    BY <1>6, <2>1
  <2>. QED BY <1>1, <2>1, <2>2, <2>3, <2>4, PublishRInv
<1>10. CASE ~r.svelte
  <2>1. r.carbonize \in BOOLEAN /\ (r.carbonize => r.to = "accept")
    BY LiveServerAssumption DEF Orderly
  <2>2. PICK p \in {"idle", "cleanup"}, w \in Works :
          /\ at' = [at EXCEPT ![a] = p] /\ work' = [work EXCEPT ![a] = w]
          /\ p = "cleanup" => r.carbonize /\ w.event = work[a].event /\ w.reply = NULL
    BY <1>0, <1>4, <1>10, <2>1, FinishedIs
  <2>3. r.carbonize => work[a].event.type = "accept" BY <1>0, <1>5, <2>1 DEF Task
  <2>. QED BY <1>0, <1>1, <1>4, <1>6, <1>7, <1>8, <1>10, <2>2, <2>3, SettlesRInv
<1>. QED BY <1>9, <1>10

LEMMA CompilesRInv ==
  ASSUME LInv, RInv, NEW a \in Agents, Compiles(a)
  PROVE  RInv'
<1>1. /\ at[a] = "checking" /\ UNCHANGED <<known, queue>> /\ JournalReply(work[a].reply) /\ Finished(a, FALSE)
  BY DEF Compiles
<1>2. PICK e : e = work[a].reply OBVIOUS
<1>3. PICK s \in Sessions : s = work[a].event.id /\ s \in known
  BY <1>1 DEF LInv, AgentsOK, AgentOK, BoundsOK
<1>4. e \in Entries \cup {NULL} /\ (e # NULL => e.id = s)
  BY <1>1, <1>2, <1>3 DEF LInv, AgentsOK, AgentOK, Works
<1>5. Checker(a) /\ a \notin Leasing BY <1>1 DEF RInv, Doers, Doer, Leasing
<1>6. /\ work[a].event.type = "generate" /\ ~GenerateQueued(s)
      /\ IF e = NULL THEN ~Asked(s) ELSE e.type = "agent_done" /\ ~e.carbonize
  BY <1>2, <1>3, <1>5 DEF Checker
<1>7. ~GenerateQueued(s)' BY <1>1, <1>6 DEF GenerateQueued
<1>8. e # NULL /\ Late(snap[s], e) => ~Asked(s)
  BY <1>6 DEF Late, Fenced, RInv, PendingOK, Asked
<1>9. Within(queue, queue') BY <1>1, QueueStays
<1>10. \A i \in DOMAIN queue : \E k \in DOMAIN queue' : queue'[k] = queue[i] BY <1>1
<1>11. PICK p \in {"idle", "cleanup"}, w \in Works :
        /\ at' = [at EXCEPT ![a] = p] /\ work' = [work EXCEPT ![a] = w]
        /\ p = "cleanup" => FALSE
  BY <1>1, FinishedIs
<1>. QED BY <1>1, <1>2, <1>3, <1>4, <1>5, <1>6, <1>7, <1>8, <1>9, <1>10, <1>11, SettlesRInv

\* An event that is handed back is queued, for the next agent.
LEMMA RetryRInv ==
  ASSUME LInv, RInv, NEW a \in Agents, Retry(a)
  PROVE  RInv'
<1>1. PICK s \in Sessions : s = work[a].event.id
  BY DEF Retry, LInv, AgentsOK, AgentOK, BoundsOK
<1> DEFINE M == Matching(queue, s, work[a].event.type)
           f == First(M)
<1>2. /\ at[a] = "working" /\ UNCHANGED <<known, snap>> /\ M # {}
      /\ queue' = SetLease(queue, {queue[f].seq}, "free")
      /\ at' = [at EXCEPT ![a] = "idle"] /\ work' = [work EXCEPT ![a] = NoWork]
  BY <1>1 DEF Retry, Release
<1>3. f \in M BY <1>2, MatchingFirst DEF LInv, QueueOK
<1>4. f \in DOMAIN queue /\ queue[f].event.id = s BY <1>3 DEF Matching
<1> HIDE DEF f, M
<1>5. /\ Within(queue, queue') /\ DOMAIN queue' = DOMAIN queue
      /\ \A k \in DOMAIN queue :
           /\ queue'[k].seq = queue[k].seq /\ queue'[k].event = queue[k].event
           /\ queue'[k].lease = IF queue[k].seq \in {queue[f].seq} THEN "free" ELSE queue[k].lease
  BY <1>2, LeaseWithin DEF LInv, QueueOK
<1>6. /\ at'[a] = "idle"
      /\ \A b \in Agents : b # a => at'[b] = at[b] /\ work'[b] = work[b]
  BY <1>2 DEF LInv, AgentsOK
<1>7. Calm BY <1>2 DEF Calm
<1>8. PendingOK' /\ Durable' BY <1>5, <1>7, CalmPending, CalmDurable
<1>9. AnsweredIsNotPending'
  <2> SUFFICES ASSUME NEW x \in known, Active(snap[x]), snap[x].pending # NULL
               PROVE  \/ \E k \in DOMAIN queue' : SameRequest(queue'[k].event, snap[x].pending)
                      \/ \E b \in Agents : /\ at'[b] \in {"working", "checking"}
                                           /\ SameRequest(work'[b].event, snap[x].pending)
    BY <1>2 DEF AnsweredIsNotPending
  <2>1. \/ \E i \in DOMAIN queue : SameRequest(queue[i].event, snap[x].pending)
        \/ \E b \in Agents : at[b] \in {"working", "checking"} /\ SameRequest(work[b].event, snap[x].pending)
    BY DEF RInv, AnsweredIsNotPending
  <2>2. CASE \E i \in DOMAIN queue : SameRequest(queue[i].event, snap[x].pending)
    BY <1>5, <2>2
  <2>3. CASE \E b \in Agents : at[b] \in {"working", "checking"} /\ SameRequest(work[b].event, snap[x].pending)
    <3>1. PICK b \in Agents : at[b] \in {"working", "checking"} /\ SameRequest(work[b].event, snap[x].pending)
      BY <2>3
    <3>2. CASE b # a BY <1>6, <3>1, <3>2
    <3>3. CASE b = a
      <4>1. x \in Sessions BY DEF LInv, BoundsOK
      <4>2. snap[x].pending.id = x BY <4>1 DEF LInv, SnapOK
      <4>3. s = x BY <1>1, <3>1, <3>3, <4>2 DEF SameRequest
      <4>4. SameRequest(snap[x].pending, queue[f].event) BY <1>4, <4>3, QueuedIs
      <4>5. SameRequest(queue[f].event, snap[x].pending) BY <4>4 DEF SameRequest
      <4>. QED BY <1>4, <1>5, <4>5
    <3>. QED BY <3>2, <3>3
  <2>. QED BY <2>1, <2>2, <2>3
<1>10. \A y : GenerateQueued(y)' => GenerateQueued(y) BY <1>5, WithinGenerates
<1>11. \A b \in Agents : Stamps(b) => work[b].event.id # s
  <2>1. a \notin Leasing BY <1>2 DEF Leasing
  <2>. QED BY <1>1, <1>2, <2>1, NoStamperBeside
<1>12. ASSUME NEW b \in Agents, b # a, Stamps(b) PROVE Stamper(b)'
  <2>1. Stamper(b) BY <1>12 DEF Stamps, RInv, Doers, Doer
  <2>2. PICK i \in DOMAIN queue : /\ queue[i].seq = work[b].seq /\ queue[i].lease = "held"
                                  /\ queue[i].event = work[b].event
    BY <2>1 DEF Stamper
  <2>3. i # f BY <1>4, <1>11, <1>12, <2>2
  <2>4. queue[i].seq # queue[f].seq BY <1>4, <2>3 DEF LInv, QueueOK, IsQueue, Numbered
  <2>5. b \in Leasing' BY <1>6, <1>12, <2>1 DEF Stamper, Leasing
  <2>. QED BY <1>5, <1>6, <1>12, <2>2, <2>4, <2>5 DEF Stamper
<1>13. ASSUME NEW b \in Agents, at'[b] # "idle" PROVE Doer(b)'
  BY <1>2, <1>6, <1>7, <1>10, <1>12, <1>13, OthersStay
<1>14. \A b \in Agents : Stamps(b)' => Stamps(b) /\ work'[b].event.id = work[b].event.id
  BY <1>6 DEF Stamps
<1>15. Doers' BY <1>13, <1>14, StampersStay DEF Doers
<1>. QED BY <1>8, <1>9, <1>15 DEF RInv

\* The queue is what the journals owe, and no lease is under way.
LEMMA RestartRInv ==
  ASSUME LInv, RInv, Restart
  PROVE  RInv'
<1>1. queue' = Restored /\ UNCHANGED <<known, snap>> BY DEF Restart
<1>2. MaxSeq \in Nat BY LiveServerAssumption
<1>3. IsFiniteSet(InUse) /\ Cardinality(InUse) <= MaxSeq
  <2>1. IsFiniteSet(InUse) /\ Cardinality(InUse) < nextSeq /\ nextSeq \in 1 .. MaxSeq + 1
    BY DEF LInv, Counted, BoundsOK
  <2>2. Cardinality(InUse) \in Nat BY <2>1, FS_CardinalityType
  <2>. QED BY <1>2, <2>1, <2>2
<1>4. /\ \A i \in DOMAIN queue' : \E s \in Sessions : Owed(s) /\ queue'[i].event = snap[s].pending
      /\ \A s \in Sessions : Owed(s) =>
           \E i \in DOMAIN queue' : SameRequest(queue'[i].event, snap[s].pending)
  <2>1. SnapOK BY DEF LInv
  <2>. QED BY <1>1, <1>3, <2>1, RestoredIs, InUseHas
<1>5. Calm BY <1>1 DEF Calm
<1>6. PendingOK' BY <1>5, CalmPending
<1>7. Durable'
  <2> SUFFICES ASSUME NEW k \in DOMAIN queue'
               PROVE  LET f == queue'[k].event
                      IN  /\ Active(snap[f.id]) /\ snap[f.id].pending # NULL
                          /\ SameRequest(snap[f.id].pending, f)
                          /\ f.type = "generate" => f = snap[f.id].pending
    BY <1>1 DEF Durable, Restorable
  <2>1. PICK s \in Sessions : Owed(s) /\ queue'[k].event = snap[s].pending BY <1>4
  <2>2. snap[s].pending.id = s /\ snap[s].pending \in Requests
    BY <2>1 DEF LInv, SnapOK, IsSnapshot, Owed
  <2>3. SameRequest(snap[s].pending, snap[s].pending) BY <2>2, RequestIs
  <2>. QED BY <2>1, <2>2, <2>3 DEF Owed
<1>8. AnsweredIsNotPending'
  <2>1. known \subseteq Sessions BY DEF LInv, BoundsOK
  <2>. QED BY <1>1, <1>4, <2>1 DEF AnsweredIsNotPending, Owed
<1>9. ASSUME NEW b \in Agents, at'[b] # "idle"
      PROVE  /\ at[b] # "idle" /\ b \notin Leasing /\ work'[b].event = work[b].event
             /\ at'[b] # "checking" /\ (at'[b] = "cleanup" => at[b] = "cleanup")
  <2>1. /\ at'[b] = IF b \in Leasing THEN "idle" ELSE IF at[b] = "checking" THEN "working" ELSE at[b]
        /\ work'[b] = IF b \in Leasing THEN NoWork ELSE [work[b] EXCEPT !.reply = NULL]
    BY DEF Restart
  <2>2. b \notin Leasing BY <1>9, <2>1
  <2>3. work[b] \in Works BY DEF LInv, AgentsOK
  <2>4. work'[b].event = work[b].event BY <2>1, <2>2, <2>3 DEF Works
  <2>. QED BY <1>9, <2>1, <2>2, <2>4
<1>10. ASSUME NEW b \in Agents, at'[b] # "idle" PROVE Doer(b)' /\ ~Stamps(b)'
  <2>1. Doer(b) BY <1>9, <1>10 DEF RInv, Doers
  <2>2. ~Undelivered(work[b].event) BY <1>9, <1>10, NoStamperBeside
  <2>. QED BY <1>1, <1>9, <1>10, <2>1, <2>2 DEF Doer, Stamps, Asked
<1>11. \A b \in Agents : ~Stamps(b)' BY <1>10 DEF Stamps
<1>12. Doers' BY <1>10, <1>11 DEF Doers
<1>. QED BY <1>6, <1>7, <1>8, <1>12 DEF RInv

LEMMA NextRInv ==
  ASSUME LInv, RInv, Orderly, [Next]_vars
  PROVE  RInv'
<1>1. CASE UNCHANGED vars
  <2>1. UNCHANGED <<known, snap, queue, at, work>> BY <1>1 DEF vars
  <2>. QED BY <2>1
         DEF RInv, PendingOK, Durable, Restorable, Doers, Doer, Stamps, Stamper, Checker, Asked, Leasing,
             GenerateQueued, AnsweredIsNotPending
<1>2. ASSUME NEW e \in Posts, Post(e) PROVE RInv' BY <1>2, PostRInv
<1>3. ASSUME NEW a \in Agents, Poll(a) PROVE RInv' BY <1>3, PollRInv
<1>4. ASSUME NEW a \in Agents, PickUp(a) PROVE RInv' BY <1>4, PickUpRInv
<1>5. ASSUME NEW a \in Agents, Prepare(a) PROVE RInv' BY <1>5, PrepareRInv
<1>6. ASSUME NEW a \in Agents, Deliver(a) PROVE RInv' BY <1>6, DeliverRInv
<1>7. ASSUME NEW a \in Agents, Write(a) PROVE RInv' BY <1>7, WriteRInv
<1>8. ASSUME NEW a \in Agents, NEW r \in Replies, Reply(a, r) PROVE RInv' BY <1>8, ReplyRInv
<1>9. ASSUME NEW a \in Agents, Compiles(a) PROVE RInv' BY <1>9, CompilesRInv
<1>10. ASSUME NEW a \in Agents, CompileFails(a) PROVE RInv' BY <1>10, CompileFailsRInv
<1>11. ASSUME NEW a \in Agents, Retry(a) PROVE RInv' BY <1>11, RetryRInv
<1>12. ASSUME NEW s \in 1 .. MaxSeq, LeaseEnds(s) PROVE RInv' BY <1>12, LeaseEndsRInv
<1>13. CASE Restart BY <1>13, RestartRInv
<1>. QED
  BY <1>1, <1>2, <1>3, <1>4, <1>5, <1>6, <1>7, <1>8, <1>9, <1>10, <1>11, <1>12, <1>13 DEF Next

THEOREM OrderlyInvariant == ASSUME Orderly PROVE Spec => []RInv
<1>1. Init => RInv BY InitRInv
<1>2. LInv /\ RInv /\ [Next]_vars => RInv' BY NextRInv
<1>. QED BY <1>1, <1>2, LiveInvariant, PTL DEF Spec

(***************************************************************************)
(* Whatever is queued would be queued again if the helper restarted now:   *)
(* through leases, stamps, answers, compilations, retries and restarts the *)
(* journal of a session keeps pending the very event that is queued of it. *)
(***************************************************************************)
THEOREM QueuedSurvives == ASSUME Orderly PROVE Spec => []UnackedIsDurable
<1>1. RInv => UnackedIsDurable BY DEF RInv, Durable, UnackedIsDurable
<1>. QED BY <1>1, OrderlyInvariant, PTL

(***************************************************************************)
(* A restart redelivers nothing that was answered: what a journal keeps    *)
(* pending is queued, or its publication is being compiled or mended.      *)
(***************************************************************************)
THEOREM AnsweredIsOver == ASSUME Orderly PROVE Spec => []AnsweredIsNotPending
<1>1. RInv => AnsweredIsNotPending BY DEF RInv
<1>. QED BY <1>1, OrderlyInvariant, PTL
=============================================================================
