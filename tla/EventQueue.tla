----------------------------- MODULE EventQueue -----------------------------
(***************************************************************************)
(* How queued events reach agents: GET /poll parks a connection until an   *)
(* event it wants is free, leases the event to it, and POST /poll answers  *)
(* it (crates/live/src/server_state.rs, live_server.rs handle_poll_get).   *)
(*                                                                         *)
(* Handlers run under one lock, so each is one action; what happens        *)
(* between two handlers is the rest: a lease runs on a thread of its own,  *)
(* leases lapse as time passes, the lease timer, the poll timeout, a       *)
(* connection that closes, an agent that dies with an event in its hands.  *)
(***************************************************************************)
EXTENDS PendingQueue, FiniteSets

CONSTANTS
  Clients,    \* agents that poll, one connection each
  Filter,     \* the filter [types, ids] each of them polls with
  Events,     \* events the overlay posts
  MaxSeq,     \* bound: entries queued in a run
  MaxFaults   \* bound: answers lost and agents dying in a run

VARIABLES
  queue,      \* pending_events
  nextSeq,    \* next_event_seq
  parked,     \* pending_polls: the parked connections, oldest first
  timer,      \* the lease timer: "off", "armed", or "due"
  at,         \* per client: idle, parked, leasing or working
  work,       \* per client: the entry [seq, event] it was given
  fresh,      \* history: clients whose lease has not run out
  overlays,   \* is an overlay connected to /events
  exitTimer,  \* the timer that queues exit once they are all gone
  faults,     \* faults so far
  skew        \* does time slip, in this behaviour: handlers run between a
              \* lease's end and its timer, and leases lapse between two
              \* clock reads of one handler

queueVars == <<queue, nextSeq, parked, timer, at, work, fresh>>
vars == <<queue, nextSeq, parked, timer, at, work, fresh, overlays, exitTimer, faults, skew>>

NoWork == [seq |-> 0, event |-> [type |-> "none"]]

\* The exit timer's exit has a type and nothing else; what an overlay posts
\* carries the helper's token, also into the queue.
Exit == [type |-> "exit"]

\* Posted events name their session, but for exit and prefetch.
ASSUME EventQueueAssumption ==
  /\ MaxSeq \in Nat /\ MaxFaults \in Nat
  /\ Exit \notin Events
  /\ \A e \in Events : HasId(e) \/ e.type \in {"exit", "prefetch"}

----------------------------------------------------------------------------
(* The state a handler works on, and flush_pending_polls over it: while    *)
(* some parked poll wants a free entry, the first such poll gets it.       *)
State == [queue |-> queue, parked |-> parked, at |-> at, work |-> work, fresh |-> fresh]

Waiting(st) == {p \in DOMAIN st.parked : Candidates(st.queue, Filter[st.parked[p]]) # {}}

\* Faulty variant: the lease thread claims the event, not the handler.
ClaimLate(st, c) ==
  LET entry == st.queue[Selected(st.queue, Filter[c])]
  IN  [st EXCEPT !.at[c] = "leasing", !.fresh = @ \cup {c},
                 !.work[c] = [seq |-> entry.seq, event |-> entry.event]]

\* The lease is claimed under the lock, before the lease thread starts.
Claim(st, c) ==
  LET entry == st.queue[Selected(st.queue, Filter[c])]
  IN  [st EXCEPT !.queue = SetLease(@, {entry.seq}, "held"),
                 !.at[c] = "leasing",
                 !.work[c] = [seq |-> entry.seq, event |-> entry.event],
                 !.fresh = @ \cup {c}]

Unpark(st, c) == [st EXCEPT !.parked = Retain(@, {i \in DOMAIN @ : @[i] # c})]

FlushOne(st) ==
  IF Waiting(st) = {} THEN st
  ELSE LET c == st.parked[First(Waiting(st))] IN Unpark(Claim(st, c), c)

Flush(st) ==
  LET round[n \in 0 .. Len(st.parked)] == IF n = 0 THEN st ELSE FlushOne(round[n - 1])
  IN  round[Len(st.parked)]

Held(st) == HeldSeqs(st.queue)
Stale(st, seqs) == {c \in st.fresh : st.work[c].seq \in seqs}

\* The leases that run out while a handler reads the clock a second time.
Lapses(st) == IF skew THEN SUBSET Held(st) ELSE {{}}

Lapse(st, seqs) == [st EXCEPT !.queue = SetLease(@, seqs, "lapsed"),
                              !.fresh = @ \ Stale(st, seqs)]

Become(st) ==
  /\ queue' = st.queue /\ parked' = st.parked
  /\ at' = st.at /\ work' = st.work /\ fresh' = st.fresh

(* A handler ends in schedule_lease_flush: the timer waits for the first   *)
(* of the leases that are held by then.                                    *)
Schedule(result) ==
  \E st \in {result} : \E late \in Lapses(st) :
    /\ Become(Lapse(st, late))
    /\ timer' = IF Held(st) \ late = {} THEN "off" ELSE "armed"

Init ==
  /\ queue = <<>> /\ nextSeq = 1 /\ parked = <<>> /\ timer = "off"
  /\ at = [c \in Clients |-> "idle"] /\ work = [c \in Clients |-> NoWork]
  /\ fresh = {} /\ overlays = TRUE /\ exitTimer = FALSE /\ faults = 0 /\ skew \in BOOLEAN

----------------------------------------------------------------------------
\* enqueue_event: a duplicate changes nothing, anything else is flushed.
Queue(st, e) ==
  IF Duplicate(st.queue, e)
  THEN /\ IF st = State THEN Become(st) /\ UNCHANGED timer ELSE Schedule(st)
       /\ UNCHANGED nextSeq
  ELSE /\ nextSeq' = nextSeq + 1
       /\ Schedule(Flush([st EXCEPT !.queue = Enqueue(@, e, nextSeq)]))

(* POST /events: accept and discard first retire the session's generate.   *)
Post(e) ==
  /\ nextSeq <= MaxSeq
  /\ Queue(IF e.type \in {"accept", "discard"}
           THEN [State EXCEPT !.queue = RetireGeneration(@, e.id)]
           ELSE State, e)
  /\ UNCHANGED <<overlays, exitTimer, skew, faults>>

(* GET /poll: lease a free entry at once, or park.                         *)
Poll(c) ==
  /\ at[c] = "idle"
  /\ IF Candidates(queue, Filter[c]) # {}
     THEN Become(Claim(State, c)) /\ UNCHANGED timer
     ELSE Schedule([State EXCEPT !.parked = Append(@, c), !.at[c] = "parked"])
  /\ UNCHANGED <<nextSeq, overlays, exitTimer, skew, faults>>

\* Faulty variant: the lease is not timed when it is stamped anew.
RespondUntimed(st, c) ==
  Become([st EXCEPT !.at[c] = "working"]) /\ UNCHANGED <<timer, faults>>

\* The response reaches the agent, or its connection is gone.
Respond(st, c) ==
  \/ Schedule([st EXCEPT !.at[c] = "working"]) /\ UNCHANGED faults
  \/ /\ faults < MaxFaults /\ faults' = faults + 1
     /\ Schedule([st EXCEPT !.at[c] = "idle", !.work[c] = NoWork, !.fresh = @ \ {c}])

(* The lease thread ends: an anonymous entry leaves the queue with its     *)
(* delivery, any other is leased anew from now on.                         *)
Deliver(c) ==
  /\ at[c] = "leasing"
  /\ IF HasId(work[c].event)
     THEN Respond([State EXCEPT !.queue = SetLease(@, {work[c].seq}, "held")], c)
     ELSE /\ Become([State EXCEPT !.queue = Without(@, {work[c].seq}),
                                  !.at[c] = "idle", !.work[c] = NoWork, !.fresh = @ \ {c}])
          /\ UNCHANGED <<timer, faults>>
  /\ UNCHANGED <<nextSeq, overlays, exitTimer, skew>>

(* The poll times out, or its connection closes, while it is still parked. *)
PollEnds(c) ==
  /\ at[c] = "parked"
  /\ Become(Unpark([State EXCEPT !.at[c] = "idle"], c))
  /\ UNCHANGED <<nextSeq, timer, overlays, exitTimer, skew, faults>>

\* Faulty variant: the answered event still counts as leased to c.
IdleStillLeased(st, c) == [st EXCEPT !.at[c] = "idle", !.work[c] = NoWork]

Idle(st, c) == [st EXCEPT !.at[c] = "idle", !.work[c] = NoWork, !.fresh = @ \ {c}]

\* Faulty variant: an answer counts for whatever its session has queued.
AnswerAny(c) ==
  /\ at[c] = "working"
  /\ LET e == work[c].event
     IN  Schedule(Flush([Idle(State, c) EXCEPT !.queue = Acknowledge(@, e.id, "any")]))
  /\ UNCHANGED <<nextSeq, overlays, exitTimer, skew, faults>>

(* POST /poll: the agent answers the event it was given, late or not.      *)
Answer(c) ==
  /\ at[c] = "working"
  /\ LET e == work[c].event
     IN  Schedule(Flush([Idle(State, c) EXCEPT !.queue = Acknowledge(@, e.id, e.type)]))
  /\ UNCHANGED <<nextSeq, overlays, exitTimer, skew, faults>>

(* POST /poll with type retry: the agent hands the event back.  The        *)
(* handler does not check who holds the lease; an agent is taken to retry  *)
(* in time, and not when a later request has replaced the one it has.      *)
Retry(c) ==
  /\ at[c] = "working" /\ c \in fresh
  /\ work[c].seq \in Seqs(queue) \/ Matching(queue, work[c].event.id, work[c].event.type) = {}
  /\ faults < MaxFaults /\ faults' = faults + 1
  /\ LET e == work[c].event
     IN  IF Matching(queue, e.id, e.type) = {}
         THEN Become(Idle(State, c)) /\ UNCHANGED timer
         ELSE Schedule(Flush([Idle(State, c) EXCEPT !.queue = Release(@, e.id, e.type)]))
  /\ UNCHANGED <<nextSeq, overlays, exitTimer, skew>>

(* The agent dies with the event: nothing tells the helper.                *)
Die(c) ==
  /\ at[c] = "working" /\ faults < MaxFaults /\ faults' = faults + 1
  /\ Become(Idle(State, c))
  /\ UNCHANGED <<nextSeq, timer, overlays, exitTimer, skew>>

(* Time passes a lease's end.  No lease is shorter than the preflight that *)
(* the lease thread may run, so none lapses under it.                      *)
LeaseEnds(s) ==
  /\ s \in HeldSeqs(queue)
  /\ \A c \in Clients : at[c] = "leasing" => work[c].seq # s
  /\ Become(Lapse(State, {s}))
  /\ timer' = IF timer = "armed" THEN "due" ELSE timer
  /\ UNCHANGED <<nextSeq, overlays, exitTimer, skew, faults>>

\* Faulty variant: the timer is armed anew, but wakes nobody.
LeaseTimerSilent ==
  /\ timer = "due" /\ Schedule(State)
  /\ UNCHANGED <<nextSeq, overlays, exitTimer, skew, faults>>

LeaseTimer ==
  /\ timer = "due"
  /\ Schedule(Flush(State))
  /\ UNCHANGED <<nextSeq, overlays, exitTimer, skew, faults>>

\* Faulty variant: the exit that is queued already stays queued.
ConnectToExit ==
  /\ ~overlays
  /\ overlays' = TRUE /\ exitTimer' = FALSE
  /\ UNCHANGED <<queueVars, faults, skew>>

(* GET /events: an overlay connects; an exit in the queue is dropped, also  *)
(* one that an overlay has posted.                                         *)
Connect ==
  /\ ~overlays
  /\ overlays' = TRUE /\ exitTimer' = FALSE
  /\ LET kept == CancelAnonymousExit(queue)
     IN  IF kept = queue THEN UNCHANGED queueVars
         ELSE Schedule([State EXCEPT !.queue = kept]) /\ UNCHANGED nextSeq
  /\ UNCHANGED <<faults, skew>>

Disconnect ==
  /\ overlays
  /\ overlays' = FALSE /\ exitTimer' = TRUE
  /\ UNCHANGED <<queueVars, faults, skew>>

ExitTimer ==
  /\ exitTimer /\ exitTimer' = FALSE
  /\ IF overlays THEN UNCHANGED queueVars
     ELSE nextSeq <= MaxSeq /\ Queue(State, Exit)
  /\ UNCHANGED <<overlays, faults, skew>>

(* The lease timer is due 2 ms after the lease's end (its grace); unless    *)
(* time slips no handler comes in between.                                 *)
Punctual == skew \/ timer # "due"

Next ==
  \/ Punctual /\ \E e \in Events : Post(e)
  \/ Punctual /\ \E c \in Clients :
       Poll(c) \/ Deliver(c) \/ PollEnds(c) \/ Answer(c) \/ Retry(c) \/ Die(c)
  \/ Punctual /\ (Connect \/ Disconnect \/ ExitTimer)
  \/ \E s \in 1 .. MaxSeq : LeaseEnds(s)
  \/ LeaseTimer

(***************************************************************************)
(* Threads the process schedules run, time passes, and the agents do what  *)
(* the skill tells them: poll again, and answer what they are given.       *)
(***************************************************************************)
Fairness ==
  /\ \A c \in Clients : /\ WF_vars(Poll(c)) /\ WF_vars(Deliver(c))
                        /\ WF_vars(PollEnds(c)) /\ WF_vars(Answer(c))
  /\ \A s \in 1 .. MaxSeq : WF_vars(LeaseEnds(s))
  /\ WF_vars(LeaseTimer)

Spec == Init /\ [][Next]_vars
FairSpec == Spec /\ Fairness
----------------------------------------------------------------------------
(***************************************************************************)
(* Types.                                                                  *)
(***************************************************************************)
Entries == [seq : 1 .. MaxSeq, event : Events \cup {Exit}, lease : {"free", "held", "lapsed"}]

TypeOK ==
  /\ queue \in Seq(Entries)
  /\ nextSeq \in 1 .. MaxSeq + 1
  /\ parked \in Seq(Clients)
  /\ timer \in {"off", "armed", "due"}
  /\ at \in [Clients -> {"idle", "parked", "leasing", "working"}]
  /\ work \in [Clients -> [seq : 0 .. MaxSeq, event : Events \cup {Exit, NoWork.event}]]
  /\ fresh \subseteq {c \in Clients : at[c] \in {"leasing", "working"}}
  /\ overlays \in BOOLEAN /\ exitTimer \in BOOLEAN
  /\ faults \in 0 .. MaxFaults /\ skew \in BOOLEAN

(***************************************************************************)
(* No two agents hold an unexpired lease on the same event, whatever the   *)
(* order in which polls, lease threads, expiries and answers come.         *)
(***************************************************************************)
OneHolder ==
  /\ \A c, d \in fresh : c # d => work[c].seq # work[d].seq
  /\ \A c \in fresh : work[c].seq \in Seqs(queue) => work[c].seq \in HeldSeqs(queue)

(***************************************************************************)
(* No poll stays parked beside a free event it wants: every handler that   *)
(* frees or queues an event wakes a poll, or the lease timer is about to.  *)
(* Unless time slips: a handler that runs in the timer's grace re-arms the *)
(* timer without the lease that has just lapsed, and nobody is woken.      *)
(***************************************************************************)
NoLostWakeup ==
  ~skew /\ timer # "due" => \A i \in DOMAIN parked : Candidates(queue, Filter[parked[i]]) = {}

(***************************************************************************)
(* Every lease that an agent may let lapse has the timer armed for it, or  *)
(* a lease thread that will arm it: no event waits for the next request.   *)
(***************************************************************************)
LeasesAreTimed ==
  \A s \in HeldSeqs(queue) :
    timer # "off" \/ \E c \in Clients : at[c] = "leasing" /\ work[c].seq = s

(***************************************************************************)
(* While an overlay is connected no exit of the exit timer's is queued to  *)
(* end an agent's session, also when the overlay reconnects as the timer   *)
(* fires: only one that the user has asked for may be.                     *)
(***************************************************************************)
ExitOnlyWhenAlone ==
  overlays => \A i \in DOMAIN queue : queue[i].event # Exit

\* What Delivery sees of a queue, and of the state.
Requests(q) == {[seq |-> q[i].seq, event |-> q[i].event] : i \in DOMAIN q}

Promise == INSTANCE Delivery WITH
  Agents <- Clients, Events <- Events \cup {Exit}, Nothing <- NoWork,
  waiting <- Requests(queue), leased <- HeldSeqs(queue), given <- work, owners <- fresh,
  next <- nextSeq, slips <- skew

(***************************************************************************)
(* The queue keeps the promise of Delivery: no request is lost, none comes *)
(* back, none goes to a second agent in the first one's time, and a poll   *)
(* gets the most urgent one it wants, however many a handler serves.       *)
(***************************************************************************)
DeliversAsPromised == Promise!Spec

(***************************************************************************)
(* Nothing stays queued for ever: an agent is given it and answers,        *)
(* although answers get lost, agents die and leases run out.               *)
(***************************************************************************)
EventuallyServed ==
  \A s \in 1 .. MaxSeq : s \in Seqs(queue) ~> s \notin Seqs(queue)
=============================================================================
