----------------------------- MODULE LiveServer -----------------------------
(***************************************************************************)
(* The helper of live mode as a whole (crates/live/src/live_server.rs and  *)
(* server_state.rs): the overlay's events are journaled, queued, leased to *)
(* agents and answered, and a restarted helper requeues what the journals  *)
(* say is still pending.                                                   *)
(*                                                                         *)
(* Handlers hold the state mutex, so each is one action.  Two of them let  *)
(* it go in between: a lease runs the generation preflight unlocked, and a *)
(* reply compiles the variants unlocked.  SessionStore is the detail of    *)
(* the journal, which this module takes as what it is worth: the snapshot  *)
(* its entries add up to.  EventQueue is the detail of parking and waking. *)
(***************************************************************************)
EXTENDS LiveSession, PendingQueue, Functions

CONSTANTS
  Order,         \* the session ids, sorted
  Agents,        \* agents that poll
  Posts,         \* the events the overlay may post
  Replies,       \* the answers agents give, [to, type, sourced, carbonize, svelte]
  SlowPreflight, \* TRUE: the overlay may post while a preflight runs
  MaxSeq,        \* bound: entries queued by one helper process
  MaxRestarts    \* bound: restarts of the helper

VARIABLES
  known,     \* sessions that have a journal
  snap,      \* per session: the snapshot its journal adds up to
  queue,     \* pending_events
  nextSeq,   \* next_event_seq
  at, work,  \* per agent: where its request is, and [seq, event, reply]
  shown,     \* sessions whose variants are in the page
  restarts   \* restarts so far

vars == <<known, snap, queue, nextSeq, at, work, shown, restarts>>

Sessions == Range(Order)
NoWork == [seq |-> 0, event |-> NULL, reply |-> NULL]

\* What the overlay may post about a session (validate_event).
PostTypes ==
  {"generate", "accept", "discard", "steer", "checkpoint", "variant_mounted", "variant_mount_failed"}

\* A generate event is stamped scaffoldAttempted, then generationReadyAt.
Stages == {"raw", "scaffolded", "ready"}
Generates == {e \in Posts : e.type = "generate"}
Requests == Posts \cup {[e EXCEPT !.stage = g] : e \in Generates, g \in Stages}

\* Which entry of the journal an agent's answer is.
JournalType ==
  [ done |-> "agent_done", error |-> "agent_error", complete |-> "complete",
    discarded |-> "discarded", steer_done |-> "steer_done" ]
Entries ==
  [type : Range(JournalType), id : Sessions, source : PostTypes \cup {NULL}, carbonize : BOOLEAN]

ASSUME LiveServerAssumption ==
  /\ SlowPreflight \in BOOLEAN
  /\ MaxSeq \in Nat /\ MaxRestarts \in Nat
  /\ Order \in Seq(Sessions)
  /\ \A e \in Posts : /\ {"id", "type"} \subseteq DOMAIN e
                      /\ e.id \in Sessions /\ e.type \in PostTypes
                      /\ e.type = "checkpoint" => Field(e, "phase", "cycling") \in BrowserPhases
  /\ \A e \in Generates : "stage" \in DOMAIN e
  /\ \A r \in Replies : r.type \in DOMAIN JournalType /\ r.carbonize \in BOOLEAN
  /\ NULL \notin Requests \cup Entries \cup PostTypes

Init ==
  /\ known = {} /\ snap = [s \in Sessions |-> BaseSnapshot]
  /\ queue = <<>> /\ nextSeq = 1
  /\ at = [a \in Agents |-> "idle"] /\ work = [a \in Agents |-> NoWork]
  /\ shown = {} /\ restarts = 0

----------------------------------------------------------------------------
\* append_event; entries are told apart by SessionStore, not here.
Journal(s, e) == ApplyEvent(s, e, 0)

\* record_agent_phase, for one phase after the other.
Record(s, phases) ==
  LET recorded[i \in 0 .. Len(phases)] ==
        IF i = 0 THEN s
        ELSE Journal(recorded[i - 1], [type |-> "agent_phase", phase |-> phases[i]])
  IN  recorded[Len(phases)]

Progress == {"variants_progress", "variants_ready"}

\* record_generation_checkpoint: the milestones a checkpoint is first to reach.
Milestones(s, e) ==
  LET first(p, reached) == IF reached /\ p \notin s.timings THEN <<p>> ELSE <<>>
  IN  IF e.type # "checkpoint" \/ s.canceled \/ e.reason \notin Progress \/ 0 \in {e.arrived, e.expected}
      THEN <<>>
      ELSE first("first_reviewable", TRUE)
             \o first("second_reviewable", e.arrived >= 2 /\ e.expected >= 3)
             \o first("all_variants_ready", e.arrived >= e.expected)

\* A discard of a session that has lost its page asks nobody for anything.
Orphaned(e) == e.type = "discard" /\ Field(e, "orphaned", FALSE)

\* What the journal says after the overlay's event e.
Journaled(s, e) ==
  LET told == Journal(s, e)
      done == Record(told, Milestones(told, e))
  IN  IF Orphaned(e) THEN Journal(done, [type |-> "discarded"]) ELSE done

Decisions == {"accept", "discard"}

Queued(e) == e.type \notin {"checkpoint", "variant_mounted"} /\ ~Orphaned(e)

\* A lease that has begun and not ended: its thread is on its way.
Leasing == {a \in Agents : at[a] \in {"claimed", "preflight", "prepared"}}

(* What the overlay asks of a session: generate once, accept once there is *)
(* a variant to accept.                                                    *)
Offered(e) ==
  CASE e.type = "generate" -> e.id \notin known
    [] e.type \in {"accept", "checkpoint", "variant_mounted", "variant_mount_failed"} ->
         e.id \in shown
    [] OTHER -> TRUE

(* POST /events.                                                           *)
Post(e) ==
  /\ nextSeq <= MaxSeq /\ Offered(e)
  /\ SlowPreflight \/ Leasing = {}
  /\ e.type \notin {"generate", "steer"} => e.id \in known
  /\ known' = known \cup {e.id}
  /\ snap' = [snap EXCEPT ![e.id] = Journaled(@, e)]
  /\ LET kept == IF e.type \in Decisions THEN RetireGeneration(queue, e.id) ELSE queue
     IN  IF Queued(e)
         THEN /\ queue' = Enqueue(kept, e, nextSeq)
              /\ nextSeq' = IF Duplicate(kept, e) THEN nextSeq ELSE nextSeq + 1
         ELSE queue' = kept /\ UNCHANGED nextSeq
  /\ UNCHANGED <<at, work, shown, restarts>>

----------------------------------------------------------------------------
Unfiltered == [types |-> {}, ids |-> {}]

(* GET /poll leases the most urgent free event, under the mutex.           *)
Poll(a) ==
  /\ at[a] = "idle" /\ Candidates(queue, Unfiltered) # {}
  /\ LET entry == queue[Selected(queue, Unfiltered)]
     IN  /\ queue' = SetLease(queue, {entry.seq}, "held")
         /\ work' = [work EXCEPT ![a] = [NoWork EXCEPT !.seq = entry.seq, !.event = entry.event]]
         /\ at' = [at EXCEPT ![a] = "claimed"]
  /\ UNCHANGED <<known, snap, nextSeq, shown, restarts>>

NeedsPreflight(e) == e.type = "generate" /\ e.stage = "raw"
Undelivered(e) == e.type = "generate" /\ e.stage # "ready"

\* Lease thread, first lock: tell the journal that the generate is taken.
PickUp(a) ==
  /\ at[a] = "claimed"
  /\ IF NeedsPreflight(work[a].event)
     THEN /\ snap' = [snap EXCEPT ![work[a].event.id] = Record(@, <<"picked_up", "scaffolding">>)]
          /\ at' = [at EXCEPT ![a] = "preflight"]
     ELSE /\ at' = [at EXCEPT ![a] = "prepared"]
          /\ UNCHANGED snap
  /\ UNCHANGED <<known, queue, nextSeq, work, shown, restarts>>

\* Faulty variant: an entry that is gone is put back.
StoreOrInsert(q, s, e) ==
  IF s \in Seqs(q) THEN [i \in DOMAIN q |-> IF q[i].seq = s THEN [q[i] EXCEPT !.event = e] ELSE q[i]]
  ELSE Append(q, [seq |-> s, event |-> e, lease |-> "held"])

\* The entry of a lease, if it is still queued, holds its event as it is now.
Store(q, s, e) == [i \in DOMAIN q |-> IF q[i].seq = s THEN [q[i] EXCEPT !.event = e] ELSE q[i]]

\* The stamped event goes to the entry, to the journal and to the agent.
Stamp(a, stage, phase) ==
  LET e == [work[a].event EXCEPT !.stage = stage]
  IN  /\ work' = [work EXCEPT ![a].event = e]
      /\ snap' = [snap EXCEPT ![e.id] = Record(Journal(@, e), <<phase>>)]
      /\ queue' = IF stage = "ready"
                  THEN Store(SetLease(queue, {work[a].seq}, "held"), work[a].seq, e)
                  ELSE Store(queue, work[a].seq, e)

(* Second lock: the preflight is over, with or without a scaffold.         *)
Prepare(a) ==
  /\ at[a] = "preflight"
  /\ \E phase \in {"source_ready", "scaffold_fallback"} : Stamp(a, "scaffolded", phase)
  /\ at' = [at EXCEPT ![a] = "prepared"]
  /\ UNCHANGED <<known, nextSeq, shown, restarts>>

(* Third lock: the lease runs from here, and the agent gets the event.     *)
Deliver(a) ==
  /\ at[a] = "prepared"
  /\ IF Undelivered(work[a].event) THEN Stamp(a, "ready", "generation_ready")
     ELSE /\ queue' = SetLease(queue, {work[a].seq}, "held")
          /\ UNCHANGED <<work, snap>>
  /\ at' = [at EXCEPT ![a] = "working"]
  /\ UNCHANGED <<known, nextSeq, shown, restarts>>

(* A lease outlasts the preflight (30 s or more, against 15 s).            *)
LeaseEnds(s) ==
  /\ s \in HeldSeqs(queue)
  /\ \A a \in Leasing : work[a].seq # s
  /\ queue' = SetLease(queue, {s}, "lapsed")
  /\ UNCHANGED <<known, snap, nextSeq, at, work, shown, restarts>>

(* The agent writes a variant into the source, and the page shows it.      *)
Write(a) ==
  /\ at[a] = "working" /\ work[a].event.type = "generate"
  /\ shown' = shown \cup {work[a].event.id}
  /\ UNCHANGED <<known, snap, queue, nextSeq, at, work, restarts>>

----------------------------------------------------------------------------
QueuedTypes(id) == {queue[i].event.type : i \in Matching(queue, id, "any")}
HeldOf(id) == {i \in Matching(queue, id, "any") : queue[i].lease = "held"}

\* The first of wanted that is queued, or else other.
Preferred(id, wanted, other) ==
  LET queued == {i \in DOMAIN wanted : wanted[i] \in QueuedTypes(id)}
  IN  IF queued = {} THEN other ELSE wanted[First(queued)]

(* infer_source_event_type: which event an answer without it must mean.    *)
Infer(id, type) ==
  CASE type = "discarded"  -> "discard"
    [] type = "steer_done" -> "steer"
    [] type = "complete"   -> Preferred(id, <<"carbonize_cleanup", "accept", "generate">>, "any")
    [] type = "done"       -> Preferred(id, <<"generate", "variant_mount_failed">>, "generate")
    [] type = "error"      -> IF HeldOf(id) = {} THEN "generate"
                              ELSE queue[First(HeldOf(id))].event.type

\* Faulty variant: a reply is journaled only if its event was queued still.
ReplyEntryQueuedOnly(id, r, acked) ==
  IF acked = NULL THEN NULL
  ELSE [type |-> JournalType[r.type], id |-> id, source |-> acked, carbonize |-> r.carbonize]

\* The reply's entry in the journal; none for a session that is over.
ReplyEntry(id, r, acked) ==
  IF acked = NULL /\ snap[id].phase \in TerminalPhases THEN NULL
  ELSE [type |-> JournalType[r.type], id |-> id, source |-> acked, carbonize |-> r.carbonize]

JournalReply(e) ==
  IF e = NULL THEN UNCHANGED snap ELSE snap' = [snap EXCEPT ![e.id] = Journal(@, e)]

\* After a carbonize the agent cleans the source up and completes the session.
Finished(a, carbonize) ==
  IF carbonize THEN /\ at' = [at EXCEPT ![a] = "cleanup"]
                    /\ work' = [work EXCEPT ![a].reply = NULL]
  ELSE at' = [at EXCEPT ![a] = "idle"] /\ work' = [work EXCEPT ![a] = NoWork]

\* What agent a still owes an answer to.
Task(a) == IF at[a] = "cleanup" THEN "cleanup" ELSE work[a].event.type

(* POST /poll: acknowledge the event, then journal the reply; a Svelte     *)
(* publication is compiled in between, with the mutex released.            *)
Reply(a, r) ==
  /\ at[a] \in {"working", "cleanup"} /\ r.to = Task(a)
  /\ LET id     == work[a].event.id
         source == IF r.sourced THEN Task(a) ELSE Infer(id, r.type)
         hits   == Matching(queue, id, source)
         acked  == IF hits = {} THEN NULL ELSE queue[First(hits)].event.type
         entry  == ReplyEntry(id, r, acked)
     IN  /\ queue' = Acknowledge(queue, id, source)
         /\ IF r.svelte
            THEN /\ at' = [at EXCEPT ![a] = "checking"]
                 /\ work' = [work EXCEPT ![a].reply = entry]
                 /\ UNCHANGED snap
            ELSE JournalReply(entry) /\ Finished(a, r.carbonize)
  /\ UNCHANGED <<known, nextSeq, shown, restarts>>

Compiles(a) ==
  /\ at[a] = "checking"
  /\ JournalReply(work[a].reply) /\ Finished(a, FALSE)
  /\ UNCHANGED <<known, queue, nextSeq, shown, restarts>>

\* 422: the agent is told to fix the variants and to send the reply again.
CompileFails(a) ==
  /\ at[a] = "checking"
  /\ at' = [at EXCEPT ![a] = "working"] /\ work' = [work EXCEPT ![a].reply = NULL]
  /\ UNCHANGED <<known, snap, queue, nextSeq, shown, restarts>>

(* POST /poll with type retry: the agent hands its event back.  One that   *)
(* is not queued answers 404, and the agent still has it.                  *)
Retry(a) ==
  /\ at[a] = "working" /\ Matching(queue, work[a].event.id, work[a].event.type) # {}
  /\ queue' = Release(queue, work[a].event.id, work[a].event.type)
  /\ at' = [at EXCEPT ![a] = "idle"] /\ work' = [work EXCEPT ![a] = NoWork]
  /\ UNCHANGED <<known, snap, nextSeq, shown, restarts>>

----------------------------------------------------------------------------
\* Faulty variant: a canceled session is taken for finished.
RestoredUncanceled ==
  LET restored[i \in 0 .. Len(Order)] ==
        IF i = 0 THEN <<>>
        ELSE LET q == restored[i - 1] s == snap[Order[i]]
             IN  IF Active(s) /\ ~s.canceled /\ s.pending # NULL
                 THEN Enqueue(q, s.pending, Len(q) + 1) ELSE q
  IN  restored[Len(Order)]

\* restore_pending_events_from_store, over the active sessions in order; of
\* one without a journal nothing is pending.
Restored ==
  LET restored[i \in 0 .. Len(Order)] ==
        IF i = 0 THEN <<>>
        ELSE LET q == restored[i - 1] s == snap[Order[i]]
             IN  IF Active(s) /\ s.pending # NULL
                 THEN Enqueue(q, s.pending, Len(q) + 1) ELSE q
  IN  restored[Len(Order)]

(* The helper dies and is started again.  Its threads are gone; an agent   *)
(* whose reply was cut off sends it again.                                 *)
Restart ==
  /\ restarts < MaxRestarts /\ restarts' = restarts + 1
  /\ queue' = Restored /\ nextSeq' = Len(Restored) + 1
  /\ at' = [a \in Agents |-> IF a \in Leasing THEN "idle"
                            ELSE IF at[a] = "checking" THEN "working" ELSE at[a]]
  /\ work' = [a \in Agents |-> IF a \in Leasing THEN NoWork ELSE [work[a] EXCEPT !.reply = NULL]]
  /\ UNCHANGED <<known, snap, shown>>

Next ==
  \/ \E e \in Posts : Post(e)
  \/ \E a \in Agents : \/ Poll(a) \/ PickUp(a) \/ Prepare(a) \/ Deliver(a) \/ Write(a)
                       \/ \E r \in Replies : Reply(a, r)
                       \/ Compiles(a) \/ CompileFails(a) \/ Retry(a)
  \/ \E s \in 1 .. MaxSeq : LeaseEnds(s)
  \/ Restart

(* The process schedules its threads, time passes, and agents keep polling *)
(* and answer what they are given: none hands its events back for ever, or *)
(* sends variants for ever that do not compile.                            *)
Fairness ==
  /\ \A a \in Agents : /\ WF_vars(Poll(a)) /\ WF_vars(PickUp(a)) /\ WF_vars(Prepare(a))
                       /\ WF_vars(Deliver(a)) /\ SF_vars(\E r \in Replies : Reply(a, r))
                       /\ SF_vars(Compiles(a))
  /\ \A s \in 1 .. MaxSeq : WF_vars(LeaseEnds(s))

Spec == Init /\ [][Next]_vars
FairSpec == Spec /\ Fairness
----------------------------------------------------------------------------
(***************************************************************************)
(* The parts of the overlay and the agents for which the journals and the  *)
(* queue agree (UnackedIsDurable, AnsweredIsNotPending):                   *)
(*   - the overlay posts nothing while a preflight runs, decides a session *)
(*     one way only, and posts no steer, mount failure or orphaned discard *)
(*     (the reducer keeps one pending event, and those share its place);   *)
(*   - agents answer a generate with done only, and say of an answer to a  *)
(*     decision which event it is for; they close an accept with complete, *)
(*     error or a carbonize, and the cleanup after it with complete.       *)
(* LiveStaleLease shows what comes of a post during a preflight.           *)
(***************************************************************************)
Orderly ==
  /\ ~SlowPreflight
  /\ \A e \in Posts : /\ e.type \in {"generate", "accept", "discard", "checkpoint", "variant_mounted"}
                      /\ ~Orphaned(e)
  /\ \A e, f \in Posts : e.id = f.id /\ {e.type, f.type} \subseteq Decisions => e.type = f.type
  /\ \A r \in Replies :
       /\ r.to = "generate" => r.type = "done"
       /\ r.to = "accept" => r.sourced /\ (r.type \in {"complete", "error"} \/ (r.type = "done" /\ r.carbonize))
       /\ r.to = "discard" => r.sourced /\ r.type \in {"discarded", "error"}
       /\ r.to = "cleanup" => r.type = "complete" /\ ~r.sourced
       /\ r.carbonize => r.to = "accept" /\ r.type = "done"
       /\ r.svelte => r.to = "generate"

(***************************************************************************)
(* Types.                                                                  *)
(***************************************************************************)
TypeOK ==
  /\ known \subseteq Sessions /\ shown \subseteq known
  /\ \A s \in Sessions : /\ snap[s].phase \in Phases /\ snap[s].canceled \in BOOLEAN
                         /\ snap[s].pending \in Requests \cup {NULL}
  /\ queue \in Seq([seq : 1 .. MaxSeq, event : Requests, lease : {"free", "held", "lapsed"}])
  /\ nextSeq \in 1 .. MaxSeq + 1
  /\ at \in [Agents -> {"idle", "claimed", "preflight", "prepared", "working", "checking", "cleanup"}]
  /\ \A a \in Agents : work[a].event \in Requests \cup {NULL}
  /\ restarts \in 0 .. MaxRestarts

\* What a restart would requeue stands for the queued entry en.
Restorable(en) ==
  LET s == snap[en.event.id]
  IN  Active(s) /\ s.pending # NULL /\ SameRequest(s.pending, en.event)

(***************************************************************************)
(* Whatever is queued would be queued again if the helper restarted now:   *)
(* the one pending event a snapshot keeps is the one that is queued,       *)
(* through leases, stamps, answers and restarts.                           *)
(***************************************************************************)
UnackedIsDurable == \A i \in DOMAIN queue : Restorable(queue[i])

(***************************************************************************)
(* An accept or a discard that the overlay was told is recorded, and that  *)
(* no agent has answered, would be queued again after a restart.           *)
(***************************************************************************)
DecisionIsDurable ==
  \A i \in DOMAIN queue : queue[i].event.type \in Decisions => Restorable(queue[i])

(***************************************************************************)
(* Conversely, a restart redelivers nothing that was answered: what a      *)
(* snapshot keeps as pending is queued, or its publication is being        *)
(* compiled or mended.                                                     *)
(***************************************************************************)
AnsweredIsNotPending ==
  \A s \in known :
    Active(snap[s]) /\ snap[s].pending # NULL =>
      \/ \E i \in DOMAIN queue : SameRequest(queue[i].event, snap[s].pending)
      \/ \E a \in Agents : at[a] \in {"working", "checking"} /\ SameRequest(work[a].event, snap[s].pending)

GenerateQueued(s) == \E i \in DOMAIN queue : queue[i].event.type = "generate" /\ queue[i].event.id = s

(***************************************************************************)
(* Once the user accepted or discarded, the session's generate is not      *)
(* offered to an agent again: POST /events retires it, and no lease thread *)
(* that is on its way puts it back.  A restart may, see DecisionIsDurable. *)
(***************************************************************************)
RetiredStaysRetired ==
  [][restarts' = restarts =>
       \A s \in Sessions : snap'[s].canceled /\ GenerateQueued(s)'
                             => snap[s].canceled /\ GenerateQueued(s)]_vars

DecisionsOn(s) == {i \in DOMAIN queue : queue[i].event.id = s /\ queue[i].event.type \in Decisions}

Deciding(s) ==
  DecisionsOn(s) # {} \/ snap[s].phase \in {"accept_requested", "discard_requested"}

\* No decision waits, and the last one was carried out, or reported failed.
Settled(s) == DecisionsOn(s) = {} /\ snap[s].phase \in TerminalPhases \cup {"agent_error"}

\* The stamp of a lease, or the error of a generation, took the place of the
\* decisions in the snapshot, and the helper may restart.
MayBeForgotten(s) ==
  /\ restarts < MaxRestarts
  /\ DecisionsOn(s) # {} /\ \A i \in DecisionsOn(s) : ~Restorable(queue[i])

(***************************************************************************)
(* A decision comes to an end that the overlay hears of: an agent carries  *)
(* it out, or reports that it failed, although leases lapse, replies are   *)
(* late, stale or for a generate that was retired, and the helper          *)
(* restarts.  Only what DecisionIsDurable shows may come in between: a     *)
(* restart after something else took the decision's place in the snapshot. *)
(***************************************************************************)
DecisionSettles == \A s \in Sessions : Deciding(s) ~> Settled(s) \/ MayBeForgotten(s)

=============================================================================
