---------------------------- MODULE LiveSession ----------------------------
(***************************************************************************)
(* The session reducer of live mode: what one journal entry does to the    *)
(* derived snapshot of a variant session (crates/live/src/session.rs,      *)
(* base_snapshot and apply_event).  The server folds a session's journal   *)
(* through it, and so does every command-line tool that reads the session. *)
(*                                                                         *)
(* A snapshot keeps what the delivery of work and the overlay's recovery   *)
(* depend on.  File names, page urls, timestamps and messages are left     *)
(* out; diagnostics are kept as the set of their kinds.                    *)
(***************************************************************************)
EXTENDS Naturals, Sequences, FiniteSets

CONSTANTS
  NULL,              \* JSON null / a missing key
  BrowserPhases,     \* phases the overlay reports in its checkpoints
  MountFailureHistory \* failures kept per session (MOUNT_FAILURE_HISTORY)

(***************************************************************************)
(* The phases a request leaves behind while its event awaits the agent.    *)
(***************************************************************************)
RequestPhase ==
  [ generate          |-> "generate_requested",
    accept            |-> "accept_requested",
    accept_intent     |-> "accept_requested",
    discard           |-> "discard_requested",
    steer             |-> "steer_requested",
    manual_edit_apply |-> "manual_edit_apply_requested",
    carbonize_cleanup |-> "carbonize_cleanup_requested" ]

RequestTypes == DOMAIN RequestPhase

TerminalPhases == {"completed", "discarded"}

FencedPhases ==
  TerminalPhases \cup {"accept_requested", "discard_requested", "carbonize_required"}

\* Every phase the reducer itself assigns.
ReducerPhases ==
  {RequestPhase[t] : t \in RequestTypes} \cup FencedPhases
    \cup {"new", "variants_ready", "steer_done", "agent_error"}

Phases == ReducerPhases \cup BrowserPhases

(***************************************************************************)
(* The overlay reports the name of its own state (checkpointPayload), and  *)
(* none of these is a phase of the reducer.                                *)
(***************************************************************************)
ASSUME LiveSessionAssumption ==
  /\ BrowserPhases \cap ReducerPhases = {}
  /\ MountFailureHistory \in Nat \ {0}

DiagnosticKinds ==
  { "late_generation_event_ignored", "carbonize_cleanup_required",
    "checkpoint_after_terminal_ignored", "stale_checkpoint_ignored",
    "malformed_mount_ack", "agent_error", "unknown_event_type",
    "journal_parse_failed" }

BaseSnapshot ==
  [ phase |-> "new", pending |-> NULL, pendingSeq |-> NULL,
    expected |-> 0, arrived |-> 0, visible |-> NULL,
    browserRev |-> 0, publicationRev |-> 0, owner |-> NULL,
    genPhase |-> NULL, timings |-> {}, completed |-> FALSE, plan |-> NULL,
    canceled |-> FALSE, reason |-> NULL,
    mounted |-> {}, failures |-> <<>>, render |-> NULL, diags |-> {} ]

----------------------------------------------------------------------------
\* e.k ?? d: the event's field when it carries one, d otherwise.
Field(e, k, d) == IF k \in DOMAIN e THEN e[k] ELSE d

Fenced(s) == s.phase \in FencedPhases

WithDiag(s, kind) == [s EXCEPT !.diags = @ \cup {kind}]
DropDiag(s, kind) == [s EXCEPT !.diags = @ \ {kind}]

DeriveRenderState(s) ==
  IF s.mounted # {} THEN "mounted"
  ELSE IF s.failures # <<>> THEN "failed"
  ELSE IF s.completed THEN "pending"
  ELSE NULL

Rerender(s) == [s EXCEPT !.render = DeriveRenderState(s)]

ClearPending(s) == [s EXCEPT !.pending = NULL, !.pendingSeq = NULL]

\* Faulty variant: the phase is named after the event.
RequestByName(s, e, seq) ==
  [s EXCEPT !.phase = e.type, !.pending = e, !.pendingSeq = seq]

\* What every request event does: its phase, and itself as the pending event.
Request(s, e, seq) ==
  [s EXCEPT !.phase = RequestPhase[e.type], !.pending = e, !.pendingSeq = seq]

----------------------------------------------------------------------------
ApplyGenerate(s, e, seq) ==
  [Request(s, e, seq) EXCEPT
     !.expected = Field(e, "count", @), !.plan = NULL,
     !.mounted = {}, !.failures = <<>>, !.render = NULL]

ApplyVariantPlan(s, e) ==
  IF s.canceled \/ Fenced(s) THEN s ELSE [s EXCEPT !.plan = Field(e, "plan", @)]

ApplyAgentPhase(s, e) ==
  [s EXCEPT !.genPhase = e.phase, !.timings = @ \cup {e.phase}]

\* A reply that closes the accept the user asked for by promoting its source.
ClosesAccept(s, e) ==
  e.type = "agent_done" /\ Field(e, "carbonize", FALSE) /\ s.phase = "accept_requested"

\* Faulty variant: it publishes whatever the user decided meanwhile.
ApplyPublicationUnfenced(s, e) ==
  Rerender([ClearPending(s) EXCEPT
              !.phase = IF Field(e, "carbonize", FALSE) THEN "carbonize_required" ELSE "variants_ready",
              !.completed = TRUE, !.arrived = Field(e, "arrived", @)])

ApplyPublication(s, e) ==
  IF (s.canceled \/ Fenced(s)) /\ ~ClosesAccept(s, e)
  THEN WithDiag(s, "late_generation_event_ignored")
  ELSE LET carbonize == Field(e, "carbonize", FALSE)
           done == [ClearPending(s) EXCEPT
                      !.phase = IF carbonize THEN "carbonize_required" ELSE "variants_ready",
                      !.completed = TRUE,
                      !.arrived = Field(e, "arrived", IF s.expected # 0 THEN s.expected ELSE @)]
       IN  Rerender(IF carbonize THEN WithDiag(done, "carbonize_cleanup_required") ELSE done)

ApplyMounted(s, e) ==
  IF e.variant \in Nat \ {0}
  THEN Rerender([s EXCEPT !.mounted = @ \cup {e.variant}])
  ELSE WithDiag(s, "malformed_mount_ack")

\* The last n elements of q.
LastOf(q, n) == IF Len(q) <= n THEN q ELSE SubSeq(q, Len(q) - n + 1, Len(q))

\* Faulty variant: the failure displaces the pending request.
ApplyMountFailedFirst(s, e) ==
  Rerender([s EXCEPT !.failures = LastOf(Append(@, e.variant), MountFailureHistory), !.pending = e])

ApplyMountFailed(s, e) ==
  IF e.variant \in Nat \ {0}
  THEN LET failed == Rerender([s EXCEPT !.failures =
                                 LastOf(Append(@, e.variant), MountFailureHistory)])
       IN  IF s.pending = NULL THEN [failed EXCEPT !.pending = e] ELSE failed
  ELSE WithDiag(s, "malformed_mount_ack")

\* Publication progress and the overlay count revisions separately.
IsPublication(e) ==
  \/ Field(e, "domain", NULL) = "publication"
  \/ Field(e, "reason", NULL) = "variants_progress" /\ Field(e, "owner", NULL) = NULL

ApplyCheckpoint(s, e) ==
  LET publication == IsPublication(e)
      current     == IF publication THEN s.publicationRev ELSE s.browserRev
      progress    == [s EXCEPT !.phase = Field(e, "phase", @),
                               !.arrived = Field(e, "arrived", @)]
  IN  IF s.canceled \/ Fenced(s) THEN WithDiag(s, "checkpoint_after_terminal_ignored")
      ELSE IF e.revision < current THEN WithDiag(s, "stale_checkpoint_ignored")
      ELSE IF publication THEN [progress EXCEPT !.publicationRev = e.revision]
      ELSE [progress EXCEPT !.browserRev = e.revision,
                            !.owner = Field(e, "owner", @),
                            !.visible = Field(e, "visible", @)]

ApplyAccept(s, e, seq) ==
  [Request(s, e, seq) EXCEPT !.canceled = TRUE, !.reason = "accept",
                             !.visible = Field(e, "variant", @)]

ApplyDiscard(s, e, seq) ==
  [Request(s, e, seq) EXCEPT !.canceled = TRUE, !.reason = "discard"]

ApplySteerDone(s) == [ClearPending(s) EXCEPT !.phase = "steer_done"]

Finish(s, phase) ==
  DropDiag([ClearPending(s) EXCEPT !.phase = phase], "carbonize_cleanup_required")

ApplyAgentError(s, e) ==
  IF s.canceled /\ Field(e, "source", NULL) = "generate"
  THEN WithDiag(s, "late_generation_event_ignored")
  ELSE WithDiag([ClearPending(s) EXCEPT !.phase = "agent_error"], "agent_error")

(***************************************************************************)
(* apply_event(snapshot, { seq, event }).                                  *)
(***************************************************************************)
ApplyEvent(s, e, seq) ==
  CASE e.type = "generate"             -> ApplyGenerate(s, e, seq)
    [] e.type = "variant_plan"         -> ApplyVariantPlan(s, e)
    [] e.type = "detector_waivers"     -> s   \* the waivers are data that nothing here reads
    [] e.type = "agent_phase"          -> ApplyAgentPhase(s, e)
    [] e.type \in {"variants_ready", "agent_done"} -> ApplyPublication(s, e)
    [] e.type = "variant_mounted"      -> ApplyMounted(s, e)
    [] e.type = "variant_mount_failed" -> ApplyMountFailed(s, e)
    [] e.type = "checkpoint"           -> ApplyCheckpoint(s, e)
    [] e.type \in {"accept", "accept_intent"} -> ApplyAccept(s, e, seq)
    [] e.type \in {"manual_edit_apply", "steer", "carbonize_cleanup"} -> Request(s, e, seq)
    [] e.type = "steer_done"           -> ApplySteerDone(s)
    [] e.type = "discard"              -> ApplyDiscard(s, e, seq)
    [] e.type = "discarded"            -> Finish(s, "discarded")
    [] e.type = "complete"             -> Finish(s, "completed")
    [] e.type = "agent_error"          -> ApplyAgentError(s, e)
    [] OTHER                           -> WithDiag(s, "unknown_event_type")

\* list_active_sessions lists the sessions whose phase is not terminal.
Active(s) == s.phase \notin TerminalPhases
============================================================================
