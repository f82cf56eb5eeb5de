------------------------- MODULE SessionStoreProofs -------------------------
(***************************************************************************)
(* Proofs about the session store, for any set of writers and of events    *)
(* and any bound on the journal.                                           *)
(***************************************************************************)
EXTENDS SessionStore, TLAPS

\* What the reducer maintains in a snapshot.
Settled(s) ==
  /\ s.phase \in {RequestPhase[t] : t \in RequestTypes} =>
       /\ s.pending # NULL
       /\ s.pending.type \in RequestTypes
       /\ RequestPhase[s.pending.type] = s.phase
  /\ s.canceled => s.phase \notin BrowserPhases \cup {"variants_ready"}

GoodSnap(s) == IsSnap(s) /\ Settled(s)

\* The fields the invariants speak of are fields of every snapshot.
LEMMA BaseFields ==
  {"phase", "pending", "canceled"} \subseteq DOMAIN BaseSnapshot
BY DEF BaseSnapshot

\* The phases of outstanding requests, spelled out.
LEMMA RequestPhases ==
  /\ {RequestPhase[t] : t \in RequestTypes} =
       {"generate_requested", "accept_requested", "discard_requested", "steer_requested",
        "manual_edit_apply_requested", "carbonize_cleanup_requested"}
  /\ RequestTypes = {"generate", "accept", "accept_intent", "discard", "steer",
                     "manual_edit_apply", "carbonize_cleanup"}
  /\ \A t \in RequestTypes : RequestPhase[t] \notin BrowserPhases
BY LiveSessionAssumption DEF RequestPhase, RequestTypes, ReducerPhases

\* A diagnostic changes nothing the invariants speak of.
LEMMA WithDiagGood ==
  ASSUME NEW s, GoodSnap(s), NEW k
  PROVE  GoodSnap(WithDiag(s, k))
BY BaseFields DEF GoodSnap, IsSnap, Settled, WithDiag

\* Every request leaves itself pending under its own phase.
LEMMA RequestGood ==
  ASSUME NEW s, GoodSnap(s), NEW e \in Events, e.type \in RequestTypes, NEW seq
  PROVE  GoodSnap(Request(s, e, seq))
<1> DEFINE r == Request(s, e, seq)
<1>1. /\ DOMAIN r = DOMAIN BaseSnapshot
      /\ r.phase = RequestPhase[e.type]
      /\ r.pending = e
      /\ r.canceled = s.canceled
  BY BaseFields DEF Request, GoodSnap, IsSnap
<1>2. RequestPhase[e.type] \in Phases
  BY DEF Phases, ReducerPhases
<1>3. e # NULL
  BY StoreAssumption
<1>4. RequestPhase[e.type] # "variants_ready"
  BY RequestPhases
<1> QED
  BY <1>1, <1>2, <1>3, <1>4, RequestPhases DEF GoodSnap, IsSnap, Settled

\* A generate request is pending under its own phase.
LEMMA GenerateGood ==
  ASSUME NEW s, GoodSnap(s), NEW e \in Events, e.type = "generate", NEW seq
  PROVE  GoodSnap(ApplyGenerate(s, e, seq))
<1>1. GoodSnap(Request(s, e, seq))
  BY RequestGood, RequestPhases
<1> QED
  BY <1>1, BaseFields DEF ApplyGenerate, GoodSnap, IsSnap, Settled

\* So is an accept, whatever was pending before it.
LEMMA AcceptGood ==
  ASSUME NEW s, GoodSnap(s), NEW e \in Events, e.type \in {"accept", "accept_intent"}, NEW seq
  PROVE  GoodSnap(ApplyAccept(s, e, seq))
<1> DEFINE r == Request(s, e, seq)
           a == ApplyAccept(s, e, seq)
<1>1. GoodSnap(r) /\ e.type \in RequestTypes
  BY RequestGood, RequestPhases
<1>2. r.phase = RequestPhase[e.type]
  BY BaseFields DEF Request, GoodSnap, IsSnap
<1>3. /\ DOMAIN a = DOMAIN r
      /\ a.phase = r.phase /\ a.pending = r.pending /\ a.canceled = TRUE
  BY <1>1, BaseFields DEF ApplyAccept, GoodSnap, IsSnap
<1>4. r.phase \notin BrowserPhases \cup {"variants_ready"}
  BY <1>1, <1>2, RequestPhases
<1> QED
  BY <1>1, <1>3, <1>4 DEF GoodSnap, IsSnap, Settled

\* So is a discard.
LEMMA DiscardGood ==
  ASSUME NEW s, GoodSnap(s), NEW e \in Events, e.type = "discard", NEW seq
  PROVE  GoodSnap(ApplyDiscard(s, e, seq))
<1> DEFINE r == Request(s, e, seq)
           a == ApplyDiscard(s, e, seq)
<1>1. GoodSnap(r) /\ e.type \in RequestTypes
  BY RequestGood, RequestPhases
<1>2. r.phase = RequestPhase[e.type]
  BY BaseFields DEF Request, GoodSnap, IsSnap
<1>3. /\ DOMAIN a = DOMAIN r
      /\ a.phase = r.phase /\ a.pending = r.pending /\ a.canceled = TRUE
  BY <1>1, BaseFields DEF ApplyDiscard, GoodSnap, IsSnap
<1>4. r.phase \notin BrowserPhases \cup {"variants_ready"}
  BY <1>1, <1>2, RequestPhases
<1> QED
  BY <1>1, <1>3, <1>4 DEF GoodSnap, IsSnap, Settled

\* Closing a session, an accept or a steer: the phase is no request's.
LEMMA ClosingGood ==
  ASSUME NEW s, GoodSnap(s),
         NEW p \in ReducerPhases \ {RequestPhase[t] : t \in RequestTypes},
         s.canceled => p # "variants_ready",
         NEW r, DOMAIN r = DOMAIN s,
         r.phase = p, r.pending = NULL, r.canceled = s.canceled
  PROVE  GoodSnap(r)
<1>1. p \notin BrowserPhases /\ p \in Phases
  BY LiveSessionAssumption DEF Phases
<1> QED
  BY <1>1 DEF GoodSnap, IsSnap, Settled

\* Completing or discarding a session leaves no request behind.
LEMMA FinishGood ==
  ASSUME NEW s, GoodSnap(s), NEW p \in TerminalPhases
  PROVE  GoodSnap(Finish(s, p))
<1>1. p \in ReducerPhases \ {RequestPhase[t] : t \in RequestTypes} /\ p # "variants_ready"
  BY RequestPhases DEF ReducerPhases, FencedPhases, TerminalPhases
<1>2. /\ DOMAIN Finish(s, p) = DOMAIN s
      /\ Finish(s, p).phase = p /\ Finish(s, p).pending = NULL
      /\ Finish(s, p).canceled = s.canceled
  BY BaseFields DEF Finish, DropDiag, ClearPending, GoodSnap, IsSnap
<1> QED
  BY <1>1, <1>2, ClosingGood

\* A finished steer leaves no request behind.
LEMMA SteerDoneGood ==
  ASSUME NEW s, GoodSnap(s)
  PROVE  GoodSnap(ApplySteerDone(s))
<1>1. "steer_done" \in ReducerPhases \ {RequestPhase[t] : t \in RequestTypes}
  BY RequestPhases DEF ReducerPhases
<1>2. /\ DOMAIN ApplySteerDone(s) = DOMAIN s
      /\ ApplySteerDone(s).phase = "steer_done" /\ ApplySteerDone(s).pending = NULL
      /\ ApplySteerDone(s).canceled = s.canceled
  BY BaseFields DEF ApplySteerDone, ClearPending, GoodSnap, IsSnap
<1> QED
  BY <1>1, <1>2, ClosingGood

\* An agent error ends the request, or is ignored as late.
LEMMA AgentErrorGood ==
  ASSUME NEW s, GoodSnap(s), NEW e
  PROVE  GoodSnap(ApplyAgentError(s, e))
<1> DEFINE r == [ClearPending(s) EXCEPT !.phase = "agent_error"]
<1>1. "agent_error" \in ReducerPhases \ {RequestPhase[t] : t \in RequestTypes}
  BY RequestPhases DEF ReducerPhases
<1>2. /\ DOMAIN r = DOMAIN s
      /\ r.phase = "agent_error" /\ r.pending = NULL /\ r.canceled = s.canceled
  BY BaseFields DEF ClearPending, GoodSnap, IsSnap
<1>3. GoodSnap(r)
  BY <1>1, <1>2, ClosingGood
<1> QED
  BY <1>3, WithDiagGood DEF ApplyAgentError

\* An entry that leaves the phase and the request alone.
LEMMA AsideGood ==
  ASSUME NEW s, GoodSnap(s),
         NEW r, DOMAIN r = DOMAIN s,
         r.phase = s.phase, r.pending = s.pending, r.canceled = s.canceled
  PROVE  GoodSnap(r)
BY DEF GoodSnap, IsSnap, Settled

\* The render state is not what the invariants speak of.
LEMMA RerenderGood ==
  ASSUME NEW s, GoodSnap(s)
  PROVE  GoodSnap(Rerender(s))
BY AsideGood, BaseFields DEF Rerender, GoodSnap, IsSnap

\* A publication ends the request, or is ignored as late.
LEMMA PublicationGood ==
  ASSUME NEW s, GoodSnap(s), NEW e
  PROVE  GoodSnap(ApplyPublication(s, e))
<1>1. CASE (s.canceled \/ Fenced(s)) /\ ~ClosesAccept(s, e)
  BY <1>1, WithDiagGood DEF ApplyPublication
<1>2. CASE ~((s.canceled \/ Fenced(s)) /\ ~ClosesAccept(s, e))
  <2> DEFINE carbonize == Field(e, "carbonize", FALSE)
             p    == IF carbonize THEN "carbonize_required" ELSE "variants_ready"
             done == [ClearPending(s) EXCEPT
                        !.phase = p,
                        !.completed = TRUE,
                        !.arrived = Field(e, "arrived", IF s.expected # 0 THEN s.expected ELSE @)]
             r    == IF carbonize THEN WithDiag(done, "carbonize_cleanup_required") ELSE done
  <2>1. s.canceled => carbonize
    BY <1>2 DEF ClosesAccept
  <2>2. p \in ReducerPhases \ {RequestPhase[t] : t \in RequestTypes}
    BY RequestPhases DEF ReducerPhases, FencedPhases
  <2>3. /\ DOMAIN done = DOMAIN s
        /\ done.phase = p /\ done.pending = NULL /\ done.canceled = s.canceled
    BY BaseFields DEF ClearPending, GoodSnap, IsSnap
  <2>4. s.canceled => p # "variants_ready"
    BY <2>1
  <2>5. GoodSnap(done)
    <3> HIDE DEF done, p
    <3> QED BY <2>2, <2>3, <2>4, ClosingGood
  <2>6. GoodSnap(r)
    <3> HIDE DEF done
    <3> QED BY <2>5, WithDiagGood
  <2>7. GoodSnap(Rerender(r))
    <3> HIDE DEF r
    <3> QED BY <2>6, RerenderGood
  <2> QED
    BY <2>7, <1>2 DEF ApplyPublication
<1> QED
  BY <1>1, <1>2

\* A mounted variant leaves the phase and the request alone.
LEMMA MountedGood ==
  ASSUME NEW s, GoodSnap(s), NEW e
  PROVE  GoodSnap(ApplyMounted(s, e))
<1> DEFINE r == [s EXCEPT !.mounted = @ \cup {e.variant}]
<1>1. GoodSnap(r)
  BY AsideGood, BaseFields DEF GoodSnap, IsSnap
<1> QED
  BY <1>1, RerenderGood, WithDiagGood DEF ApplyMounted

\* A mount failure becomes the pending event only when nothing else is.
LEMMA MountFailedGood ==
  ASSUME NEW s, GoodSnap(s), NEW e \in Events
  PROVE  GoodSnap(ApplyMountFailed(s, e))
<1> DEFINE f == [s EXCEPT !.failures = LastOf(Append(@, e.variant), MountFailureHistory)]
           r == Rerender(f)
<1>1. GoodSnap(f) /\ f.pending = s.pending
  BY AsideGood, BaseFields DEF GoodSnap, IsSnap
<1>2. GoodSnap(r) /\ r.pending = s.pending
  <2> HIDE DEF f
  <2> QED BY <1>1, RerenderGood, BaseFields DEF Rerender, GoodSnap, IsSnap
<1>3. s.pending = NULL => GoodSnap([r EXCEPT !.pending = e])
  <2> HIDE DEF r
  <2> QED BY <1>2, BaseFields DEF GoodSnap, IsSnap, Settled
<1> QED
  BY <1>2, <1>3, WithDiagGood DEF ApplyMountFailed

\* A checkpoint moves the phase only to one of the overlay's own.
LEMMA CheckpointGood ==
  ASSUME NEW s, GoodSnap(s), NEW e \in Events, e.type = "checkpoint"
  PROVE  GoodSnap(ApplyCheckpoint(s, e))
<1> DEFINE q == [s EXCEPT !.phase = Field(e, "phase", @), !.arrived = Field(e, "arrived", @)]
<1>1. Field(e, "phase", s.phase) \in BrowserPhases \cup {s.phase}
  BY StoreAssumption DEF Field
<1>2. ~s.canceled => GoodSnap(q) /\ DOMAIN q = DOMAIN s
  BY <1>1, RequestPhases, BaseFields DEF GoodSnap, IsSnap, Settled, Phases
<1>3. ASSUME ~s.canceled, NEW v
      PROVE  GoodSnap([q EXCEPT !.publicationRev = v])
  <2> HIDE DEF q
  <2> QED BY <1>2, <1>3, AsideGood, BaseFields DEF GoodSnap, IsSnap
<1>4. ASSUME ~s.canceled, NEW v, NEW o, NEW w
      PROVE  GoodSnap([q EXCEPT !.browserRev = v, !.owner = o, !.visible = w])
  <2> HIDE DEF q
  <2> QED BY <1>2, <1>4, AsideGood, BaseFields DEF GoodSnap, IsSnap
<1> QED
  BY <1>3, <1>4, WithDiagGood DEF ApplyCheckpoint

\* The variant plan leaves the phase and the request alone.
LEMMA VariantPlanGood ==
  ASSUME NEW s, GoodSnap(s), NEW e
  PROVE  GoodSnap(ApplyVariantPlan(s, e))
BY AsideGood, BaseFields DEF ApplyVariantPlan, GoodSnap, IsSnap

\* The progress of the agent leaves the phase and the request alone.
LEMMA AgentPhaseGood ==
  ASSUME NEW s, GoodSnap(s), NEW e
  PROVE  GoodSnap(ApplyAgentPhase(s, e))
BY AsideGood, BaseFields DEF ApplyAgentPhase, GoodSnap, IsSnap

(***************************************************************************)
(* apply_event preserves what a snapshot promises, whatever the entry.     *)
(***************************************************************************)
THEOREM ApplyEventGood ==
  ASSUME NEW s, GoodSnap(s), NEW e \in Events, NEW seq
  PROVE  GoodSnap(ApplyEvent(s, e, seq))
<1> USE DEF ApplyEvent
<1>1. CASE e.type = "generate"             BY <1>1, GenerateGood
<1>2. CASE e.type = "variant_plan"         BY <1>2, VariantPlanGood
<1>3. CASE e.type = "agent_phase"          BY <1>3, AgentPhaseGood
<1>4. CASE e.type \in {"variants_ready", "agent_done"}  BY <1>4, PublicationGood
<1>5. CASE e.type = "variant_mounted"      BY <1>5, MountedGood
<1>6. CASE e.type = "variant_mount_failed" BY <1>6, MountFailedGood
<1>7. CASE e.type = "checkpoint"           BY <1>7, CheckpointGood
<1>8. CASE e.type \in {"accept", "accept_intent"}       BY <1>8, AcceptGood
<1>9. CASE e.type \in {"manual_edit_apply", "steer", "carbonize_cleanup"}
  BY <1>9, RequestGood, RequestPhases
<1>10. CASE e.type = "steer_done"          BY <1>10, SteerDoneGood
<1>11. CASE e.type = "discard"             BY <1>11, DiscardGood
<1>12. CASE e.type = "discarded"           BY <1>12, FinishGood DEF TerminalPhases
<1>13. CASE e.type = "complete"            BY <1>13, FinishGood DEF TerminalPhases
<1>14. CASE e.type = "agent_error"         BY <1>14, AgentErrorGood
<1>15. CASE e.type = "detector_waivers"    BY <1>15
<1>16. CASE e.type \notin {"generate", "variant_plan", "detector_waivers", "agent_phase", "variants_ready",
                           "agent_done", "variant_mounted", "variant_mount_failed",
                           "checkpoint", "accept", "accept_intent", "manual_edit_apply",
                           "steer", "carbonize_cleanup", "steer_done", "discard",
                           "discarded", "complete", "agent_error"}
  BY <1>16, WithDiagGood
<1> QED
  BY <1>1, <1>2, <1>3, <1>4, <1>5, <1>6, <1>7, <1>8, <1>9, <1>10, <1>11, <1>12, <1>13,
     <1>14, <1>15, <1>16
----------------------------------------------------------------------------
GoodState(st) == IsState(st) /\ Settled(st.snap)

\* The state of a session without a journal is good.
LEMMA EmptyGood == GoodState(EmptyState)
<1>1. IsSnap(BaseSnapshot)
  BY DEF IsSnap, BaseSnapshot, Phases, ReducerPhases
<1>2. Settled(BaseSnapshot)
  BY RequestPhases DEF Settled, BaseSnapshot
<1> QED
  BY <1>1, <1>2 DEF GoodState, IsState, EmptyState

\* Replaying one more line, good or damaged, keeps a state good.
LEMMA StepGood ==
  ASSUME NEW st, GoodState(st), NEW line \in [seq : Nat, event : Events \cup {NULL}]
  PROVE  GoodState(Step(st, line))
<1>1. CASE line.event = NULL
  <2>1. GoodSnap(WithDiag(st.snap, "journal_parse_failed"))
    BY WithDiagGood DEF GoodState, GoodSnap, IsState
  <2> QED
    BY <2>1, <1>1 DEF GoodState, GoodSnap, IsState, Step
<1>2. CASE line.event \in Events
  <2>1. GoodSnap(ApplyEvent(st.snap, line.event, line.seq))
    BY <1>2, ApplyEventGood DEF GoodState, GoodSnap, IsState
  <2> QED
    BY <2>1, <1>2, StoreAssumption DEF GoodState, GoodSnap, IsState, Step
<1> QED
  BY <1>1, <1>2

\* A writer between its first step and its return holds an event.
Busy == \A w \in Writers : pc[w] # "idle" => op[w] \in Events

IInv == /\ TypeOK
        /\ Busy
        /\ Settled(rebuilt.snap)
        /\ snapFile.state # NULL => Settled(snapFile.state.snap)
        /\ \A w \in Writers : Settled(prior[w].snap)

Line == [seq : Nat, event : Events \cup {NULL}]

GoodStart == /\ GoodState(rebuilt)
             /\ journal \in Seq(Line)
             /\ where \in {"absent", "legacy", "primary"} /\ bytes \in Nat

\* The invariant of the reducer holds at first: a legacy journal is one generate.
LEMMA InitIInv == Init => IInv
<1> SUFFICES ASSUME Init PROVE IInv
  OBVIOUS
<1>1. GoodState(EmptyState)
  BY EmptyGood
<1>2. ASSUME where = "absent", journal = <<>>, bytes = 0, rebuilt = EmptyState
      PROVE  GoodStart
  BY <1>1, <1>2 DEF GoodStart
<1>3. ASSUME ~(where = "absent" /\ journal = <<>> /\ bytes = 0 /\ rebuilt = EmptyState)
      PROVE  GoodStart
  <2>1. PICK e \in Events : /\ where = "legacy" /\ bytes = 1
                            /\ journal = <<[seq |-> 1, event |-> e]>>
                            /\ rebuilt = Step(EmptyState, [seq |-> 1, event |-> e])
    BY <1>3 DEF Init
  <2> DEFINE first == [seq |-> 1, event |-> e]
  <2>2. first \in Line
    BY DEF Line
  <2>3. journal \in Seq(Line)
    <3> HIDE DEF first
    <3> QED BY <2>1, <2>2 DEF first
  <2>4. GoodState(Step(EmptyState, first))
    BY <1>1, <2>2, StepGood DEF Line
  <2> QED
    BY <2>1, <2>3, <2>4 DEF GoodStart
<1>4. GoodStart
  BY <1>2, <1>3
<1>5. snapFile.stamp \in Int /\ snapFile.state = NULL /\ DOMAIN snapFile = {"stamp", "state"}
  BY DEF Init, NoJournal
<1>6. /\ pc \in [Writers -> {"idle", "append", "persist"}]
      /\ op \in [Writers -> Events \cup {NULL}]
      /\ DOMAIN prior = Writers /\ \A w \in Writers : GoodState(prior[w])
      /\ Busy
  BY <1>1 DEF Init, Busy
<1>7. torn \in BOOLEAN /\ acked \subseteq [seq : Nat, event : Events]
  BY DEF Init
<1> QED
  BY <1>4, <1>5, <1>6, <1>7 DEF GoodStart, Line, IInv, TypeOK, GoodState

\* Every step of a writer, a crash included, keeps every state good.
LEMMA NextIInv == IInv /\ [Next]_vars => IInv'
<1> SUFFICES ASSUME IInv, [Next]_vars PROVE IInv'
  OBVIOUS
<1> USE DEF IInv, TypeOK
<1>1. ASSUME NEW w \in Writers, NEW e \in Events, BeginAppend(w, e)
      PROVE  IInv'
  <2>1. GoodState(ReadState)
    BY DEF ReadState, Trusted, GoodState
  <2> QED
    BY <1>1, <2>1 DEF BeginAppend, Busy, GoodState
<1>2. ASSUME NEW w \in Writers, AppendLine(w)
      PROVE  IInv'
  <2>1. Entry(w) \in [seq : Nat, event : Events \cup {NULL}]
    BY DEF Entry, IsState
  <2>2. Damaged \in [seq : Nat, event : Events \cup {NULL}]
    BY DEF Damaged
  <2>3. GoodState(rebuilt')
    BY <1>2, <2>1, <2>2, StepGood DEF AppendLine, WriteLine, CutLine, GoodState
  <2>4. /\ journal' \in Seq(Line)
        /\ torn' \in BOOLEAN /\ bytes' \in Nat
    <3>1. Entry(w) \in Line /\ Damaged \in Line /\ journal \in Seq(Line)
      BY <2>1, <2>2 DEF Line
    <3>2. \A x \in Line : Append(journal, x) \in Seq(Line)
      BY <3>1
    <3>3. bytes' \in Nat
      BY <1>2 DEF AppendLine, WriteLine, CutLine
    <3>4. torn' \in BOOLEAN
      BY <1>2, Zenon DEF AppendLine, WriteLine, CutLine
    <3>5. \/ journal' = journal
          \/ journal' = Append(journal, Entry(w))
          \/ journal' = Append(journal, Damaged)
      BY <1>2 DEF AppendLine, WriteLine, CutLine
    <3> QED
      BY <3>1, <3>2, <3>3, <3>4, <3>5
  <2> QED
    BY <1>2, <2>3, <2>4 DEF AppendLine, Busy, GoodState, Line
<1>3. ASSUME NEW w \in Writers, Persist(w)
      PROVE  IInv'
  <2>1. op[w] \in Events
    BY <1>3 DEF Persist, Busy
  <2>2. GoodSnap(ApplyEvent(prior[w].snap, op[w], prior[w].next))
    BY <2>1, ApplyEventGood DEF GoodSnap, IsState
  <2>3. GoodState(Derived(w))
    BY <2>2 DEF Derived, GoodState, IsState, GoodSnap
  <2>4. Entry(w) \in [seq : Nat, event : Events]
    BY <2>1 DEF Entry, IsState
  <2>5. Size \in Int
    BY DEF Size, NoJournal
  <2> QED
    BY <1>3, <2>3, <2>4, <2>5, EmptyGood DEF Persist, Return, Busy, GoodState
<1>4. ASSUME NEW w \in Writers, Crash(w)
      PROVE  IInv'
  BY <1>4, EmptyGood DEF Crash, Return, Busy, GoodState, NoJournal
<1>5. CASE UNCHANGED vars
  BY <1>5 DEF vars, Busy
<1> QED
  BY <1>1, <1>2, <1>3, <1>4, <1>5 DEF Next

(***************************************************************************)
(* Types: every state the store reads, holds or writes is a snapshot the   *)
(* reducer could have produced.                                            *)
(***************************************************************************)
THEOREM Typing == Spec => []TypeOK
<1>1. IInv => TypeOK
  BY DEF IInv
<1> QED
  BY InitIInv, NextIInv, <1>1, PTL DEF Spec

(***************************************************************************)
(* A request stays pending until it is answered, whoever writes to the     *)
(* journal and whatever the disk does: a restart finds it.                 *)
(***************************************************************************)
THEOREM RequestsStayPending == Spec => []RequestIsPending
<1>1. IInv => RequestIsPending
  BY DEF IInv, RequestIsPending, Settled
<1> QED
  BY InitIInv, NextIInv, <1>1, PTL DEF Spec

(***************************************************************************)
(* A decision of the user stands: no entry offers the variants again.      *)
(***************************************************************************)
THEOREM DecisionsStand == Spec => []CanceledIsNeverRepublished
<1>1. IInv => CanceledIsNeverRepublished
  BY DEF IInv, CanceledIsNeverRepublished, Settled
<1> QED
  BY InitIInv, NextIInv, <1>1, PTL DEF Spec
----------------------------------------------------------------------------
(***************************************************************************)
(* The helper alone, on a disk that takes whole lines: while a call is     *)
(* under way nobody else is, so what it read is still what replay gives.   *)
(***************************************************************************)
AtMostOne == \A v, w \in Writers : pc[v] # "idle" /\ pc[w] # "idle" => v = w

Fresh == \A w \in Writers :
           /\ pc[w] = "append" => prior[w] = rebuilt
           /\ pc[w] = "persist" => Derived(w) = rebuilt

XInv == /\ IInv
        /\ torn = FALSE
        /\ rebuilt.next = Len(journal) + 1
        /\ SeqsAreDense
        /\ AtMostOne
        /\ Fresh
        /\ snapFile.stamp <= bytes
        /\ TrustedSnapshotIsReplay

\* The invariant of the exclusive store holds at first.
LEMMA InitXInv == Init => XInv
<1> SUFFICES ASSUME Init PROVE XInv
  OBVIOUS
<1>1. IInv
  BY InitIInv
<1>2. rebuilt.next = Len(journal) + 1 /\ SeqsAreDense /\ bytes \in Nat
  <2>1. ASSUME journal = <<>>, bytes = 0, rebuilt = EmptyState
        PROVE  <1>2!1
    BY <2>1 DEF EmptyState, SeqsAreDense
  <2>2. ASSUME NEW e \in Events, bytes = 1, journal = <<[seq |-> 1, event |-> e]>>,
               rebuilt = Step(EmptyState, [seq |-> 1, event |-> e])
        PROVE  <1>2!1
    <3>1. Len(journal) = 1 /\ journal[1].seq = 1 /\ DOMAIN journal = {1}
      BY <2>2
    <3>2. rebuilt.next = 2
      BY <2>2, StoreAssumption DEF Step, EmptyState
    <3> QED
      BY <2>2, <3>1, <3>2 DEF SeqsAreDense
  <2>3. CASE where = "absent"
    BY <2>1, <2>3 DEF Init
  <2>4. CASE where = "legacy"
    <3>1. PICK e \in Events : /\ bytes = 1 /\ journal = <<[seq |-> 1, event |-> e]>>
                              /\ rebuilt = Step(EmptyState, [seq |-> 1, event |-> e])
      BY <2>4 DEF Init
    <3> QED
      BY <2>2, <3>1
  <2> QED
    BY <2>3, <2>4 DEF Init
<1> QED
  BY <1>1, <1>2 DEF Init, XInv, AtMostOne, Fresh, NoJournal, TrustedSnapshotIsReplay, Trusted

\* Every step of exclusive writers keeps the snapshot the replay of the journal.
LEMMA NextXInv ==
  ASSUME Exclusive, ~WriteFaults
  PROVE  XInv /\ [Next]_vars => XInv'
<1> SUFFICES ASSUME XInv, [Next]_vars PROVE XInv'
  OBVIOUS
<1>0. IInv'
  BY NextIInv DEF XInv
<1> USE DEF XInv, IInv, TypeOK
<1>1. ASSUME NEW w \in Writers, NEW e \in Events, BeginAppend(w, e)
      PROVE  XInv'
  <2>1. ReadState = rebuilt
    BY DEF ReadState, TrustedSnapshotIsReplay
  <2>2. AtMostOne'
    BY <1>1 DEF BeginAppend, MayStart, Idle, AtMostOne
  <2>3. Fresh'
    BY <1>1, <2>1 DEF BeginAppend, MayStart, Idle, Fresh
  <2>4. TrustedSnapshotIsReplay'
    BY <1>1 DEF BeginAppend, TrustedSnapshotIsReplay, Trusted, Size
  <2> QED
    BY <1>0, <1>1, <2>2, <2>3, <2>4 DEF BeginAppend, SeqsAreDense
<1>2. ASSUME NEW w \in Writers, AppendLine(w)
      PROVE  XInv'
  <2>1. /\ journal' = Append(journal, Entry(w)) /\ rebuilt' = Step(rebuilt, Entry(w))
        /\ bytes' = bytes + 1 /\ torn' = FALSE
    BY <1>2 DEF AppendLine, WriteLine
  <2>2. op[w] \in Events /\ op[w] # NULL /\ prior[w] = rebuilt
    BY <1>2, StoreAssumption DEF AppendLine, Busy, Fresh
  <2>3. rebuilt' = Derived(w) /\ rebuilt'.next = rebuilt.next + 1
    BY <2>1, <2>2 DEF Step, Entry, Derived, IsState
  <2>4. AtMostOne'
    BY <1>2 DEF AppendLine, AtMostOne
  <2>5. Fresh'
    <3>1. \A v \in Writers : v # w => pc[v] = "idle" /\ pc'[v] = "idle"
      BY <1>2 DEF AppendLine, AtMostOne
    <3>2. pc'[w] = "persist" /\ Derived(w)' = Derived(w)
      BY <1>2 DEF AppendLine, Derived
    <3> QED
      BY <2>3, <3>1, <3>2 DEF Fresh
  <2>6. Entry(w).seq = Len(journal) + 1
    BY <2>2 DEF Entry
  <2>7. SeqsAreDense' /\ rebuilt'.next = Len(journal') + 1
    BY <2>1, <2>3, <2>6 DEF SeqsAreDense
  <2>8. snapFile'.stamp < bytes'
    BY <1>2, <2>1 DEF AppendLine
  <2>9. TrustedSnapshotIsReplay'
    BY <1>2, <2>8 DEF AppendLine, TrustedSnapshotIsReplay, Trusted, Size
  <2> QED
    BY <1>0, <2>1, <2>4, <2>5, <2>7, <2>8, <2>9
<1>3. ASSUME NEW w \in Writers, Persist(w)
      PROVE  XInv'
  <2>1. Derived(w) = rebuilt
    BY <1>3 DEF Persist, Fresh
  <2>2. \A v \in Writers : pc'[v] = "idle"
    BY <1>3 DEF Persist, Return, AtMostOne
  <2>3. snapFile'.state = rebuilt' /\ snapFile'.stamp <= bytes'
    BY <1>3, <2>1 DEF Persist, Size, NoJournal
  <2> QED
    BY <1>0, <1>3, <2>2, <2>3
       DEF Persist, SeqsAreDense, AtMostOne, Fresh, TrustedSnapshotIsReplay
<1>4. ASSUME NEW w \in Writers, Crash(w)
      PROVE  XInv'
  <2>1. \A v \in Writers : pc'[v] = "idle"
    BY <1>4 DEF Crash, Idle, Return, AtMostOne
  <2>2. snapFile' = snapFile \/ (snapFile'.state = NULL /\ snapFile'.stamp = -1)
    BY <1>4 DEF Crash, NoJournal
  <2> QED
    BY <1>0, <1>4, <2>1, <2>2
       DEF Crash, SeqsAreDense, AtMostOne, Fresh, TrustedSnapshotIsReplay, Trusted, Size
<1>5. CASE UNCHANGED vars
  BY <1>0, <1>5 DEF vars, SeqsAreDense, AtMostOne, Fresh, Derived, TrustedSnapshotIsReplay,
                    Trusted, Size
<1> QED
  BY <1>1, <1>2, <1>3, <1>4, <1>5 DEF Next

(***************************************************************************)
(* One process, whole writes: whatever step it dies at, a snapshot that is *)
(* trusted is the replay of the journal.                                   *)
(***************************************************************************)
THEOREM SnapshotIsReplay ==
  ASSUME Exclusive, ~WriteFaults
  PROVE  Spec => []TrustedSnapshotIsReplay
<1>1. XInv => TrustedSnapshotIsReplay
  BY DEF XInv
<1> QED
  BY InitXInv, NextXInv, <1>1, PTL DEF Spec

(***************************************************************************)
(* One process, whole writes: no entry's number is skipped or used twice.  *)
(***************************************************************************)
THEOREM EntriesAreNumbered ==
  ASSUME Exclusive, ~WriteFaults
  PROVE  Spec => []SeqsAreDense
<1>1. XInv => SeqsAreDense
  BY DEF XInv
<1> QED
  BY InitXInv, NextXInv, <1>1, PTL DEF Spec

----------------------------------------------------------------------------
\* An entry that is in the journal stays there when a line is appended.
LEMMA AppendKeeps ==
  ASSUME NEW S, NEW q \in Seq(S), NEW x \in S
  PROVE  /\ DOMAIN Append(q, x) = DOMAIN q \cup {Len(q) + 1}
         /\ \A i \in DOMAIN q : Append(q, x)[i] = q[i]
         /\ Append(q, x)[Len(q) + 1] = x
OBVIOUS

\* The journal is opened for append, so a second process cannot erase an entry.
Recorded(a) == \E i \in DOMAIN journal : journal[i] = a

AInv == /\ IInv
        /\ torn = FALSE
        /\ AckedIsJournaled
        /\ \A w \in Writers : pc[w] = "persist" => Recorded(Entry(w))

\* Every step keeps what was acknowledged in the journal.
LEMMA NextAInv ==
  ASSUME ~WriteFaults
  PROVE  AInv /\ [Next]_vars => AInv'
<1> SUFFICES ASSUME AInv, [Next]_vars PROVE AInv'
  OBVIOUS
<1>0. IInv'
  BY NextIInv DEF AInv
<1> USE DEF AInv, IInv, TypeOK, AckedIsJournaled, Recorded
<1>1. ASSUME NEW w \in Writers, NEW e \in Events, BeginAppend(w, e)
      PROVE  AInv'
  BY <1>0, <1>1 DEF BeginAppend, Entry
<1>2. ASSUME NEW w \in Writers, AppendLine(w)
      PROVE  AInv'
  <2>1. journal' = Append(journal, Entry(w)) /\ torn' = FALSE
    BY <1>2 DEF AppendLine, WriteLine
  <2>0. Entry(w) \in Line /\ journal \in Seq(Line)
    BY DEF Entry, IsState, Line
  <2>2. \A a : Recorded(a) => Recorded(a)'
    BY <2>0, <2>1, AppendKeeps
  <2>3. Recorded(Entry(w))'
    <3>1. Entry(w)' = Entry(w)
      BY <1>2 DEF AppendLine, Entry
    <3>2. \E i \in DOMAIN journal' : journal'[i] = Entry(w)
      BY <2>0, <2>1, AppendKeeps
    <3> QED
      BY <3>1, <3>2
  <2>4. \A v \in Writers : Entry(v)' = Entry(v)
    BY <1>2 DEF AppendLine, Entry
  <2>5. \A v \in Writers : v # w => pc'[v] = pc[v]
    BY <1>2 DEF AppendLine
  <2>6. acked' = acked
    BY <1>2 DEF AppendLine
  <2> QED
    <3>1. AckedIsJournaled'
      BY <2>2, <2>6
    <3>2. ASSUME NEW v \in Writers, pc'[v] = "persist" PROVE Recorded(Entry(v))'
      <4>1. CASE v = w
        BY <2>3, <4>1
      <4>2. CASE v # w
        <5>1. \E i \in DOMAIN journal : journal[i] = Entry(v)
          BY <2>5, <3>2, <4>2
        <5>2. \E i \in DOMAIN journal' : journal'[i] = Entry(v)
          BY <5>1, <2>0, <2>1, AppendKeeps
        <5> QED
          BY <5>2, <2>4
      <4> QED
        BY <4>1, <4>2
    <3> QED
      BY <1>0, <2>1, <3>1, <3>2
<1>3. ASSUME NEW w \in Writers, Persist(w)
      PROVE  AInv'
  BY <1>0, <1>3 DEF Persist, Return, Entry
<1>4. ASSUME NEW w \in Writers, Crash(w)
      PROVE  AInv'
  BY <1>0, <1>4 DEF Crash, Return, Entry
<1>5. CASE UNCHANGED vars
  BY <1>0, <1>5 DEF vars, Entry
<1> QED
  BY <1>1, <1>2, <1>3, <1>4, <1>5 DEF Next

(***************************************************************************)
(* What the store acknowledged is in the journal, also when the helper and *)
(* a command-line tool append at the same time.                            *)
(***************************************************************************)
THEOREM AckedIsDurable ==
  ASSUME ~WriteFaults
  PROVE  Spec => []AckedIsJournaled
<1>1. Init => AInv
  BY InitIInv DEF Init, AInv, AckedIsJournaled
<1>2. AInv => AckedIsJournaled
  BY DEF AInv
<1> QED
  BY <1>1, NextAInv, <1>2, PTL DEF Spec
=============================================================================
