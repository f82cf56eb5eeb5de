---------------------------- MODULE PendingQueue ----------------------------
(***************************************************************************)
(* The helper's queue of events that await an agent, as operators on the   *)
(* sequence pending_events (crates/live/src/server_state.rs).  An entry is *)
(* [seq, event, lease].  lease_until is kept as what it says of the clock: *)
(* "free" (0), "held" (in the future) or "lapsed" (in the past).           *)
(*                                                                         *)
(* An event without an id field is anonymous: the exit the helper queues   *)
(* for itself, and what an overlay posts as exit or prefetch.              *)
(***************************************************************************)
EXTENDS Naturals, Sequences

HasId(e) == "id" \in DOMAIN e

Priority(e) ==
  CASE e.type \in {"accept", "discard", "exit"} -> 0
    [] e.type \in {"manual_edit_apply", "steer", "carbonize_cleanup"} -> 1
    [] e.type = "generate" -> 2
    [] OTHER -> 3

\* A poll's filter [types, ids]; an empty set filters nothing.
Wants(filter, e) ==
  /\ filter.types # {} => e.type \in filter.types
  /\ filter.ids # {} => HasId(e) /\ e.id \in filter.ids

Candidates(q, filter) == {i \in DOMAIN q : q[i].lease # "held" /\ Wants(filter, q[i].event)}

Precedes(a, b) ==
  \/ Priority(a.event) < Priority(b.event)
  \/ Priority(a.event) = Priority(b.event) /\ a.seq < b.seq

\* Of the candidates, the most urgent and then the oldest.
Selected(q, filter) ==
  CHOOSE i \in Candidates(q, filter) :
    \A j \in Candidates(q, filter) : i # j => Precedes(q[i], q[j])

\* enqueue_event drops a second copy of what is queued already.
SameRequest(e, f) ==
  /\ HasId(e) /\ HasId(f) /\ e.id = f.id
  /\ e.type = f.type
  /\ e.type = "variant_mount_failed" => e.variant = f.variant

Duplicate(q, e) == \E i \in DOMAIN q : SameRequest(q[i].event, e)

Enqueue(q, e, seq) ==
  IF Duplicate(q, e) THEN q ELSE Append(q, [seq |-> seq, event |-> e, lease |-> "free"])

\* The entries an agent's answer about (id, type) may be meant for; an
\* answer whose type nobody could tell is about "any".
Matching(q, id, type) ==
  {i \in DOMAIN q : /\ HasId(q[i].event) /\ q[i].event.id = id
                    /\ type = "any" \/ q[i].event.type = type}

First(indices) == CHOOSE i \in indices : \A j \in indices : i <= j

\* Vec::retain: what is at the places in keep, in its order.
Retain(q, keep) ==
  LET kept[i \in 0 .. Len(q)] ==
        IF i = 0 THEN <<>>
        ELSE IF i \in keep THEN Append(kept[i - 1], q[i]) ELSE kept[i - 1]
  IN  kept[Len(q)]

Without(q, seqs) == Retain(q, {i \in DOMAIN q : q[i].seq \notin seqs})

SetLease(q, seqs, lease) ==
  [i \in DOMAIN q |-> IF q[i].seq \in seqs THEN [q[i] EXCEPT !.lease = lease] ELSE q[i]]

\* Faulty variant: only an answer in time counts.
AcknowledgeHeld(q, id, type) ==
  LET held == {i \in Matching(q, id, type) : q[i].lease = "held"}
  IN  IF held = {} THEN q ELSE Without(q, {q[First(held)].seq})

Acknowledge(q, id, type) ==
  IF Matching(q, id, type) = {} THEN q
  ELSE Without(q, {q[First(Matching(q, id, type))].seq})

Release(q, id, type) ==
  IF Matching(q, id, type) = {} THEN q
  ELSE SetLease(q, {q[First(Matching(q, id, type))].seq}, "free")

\* Faulty variant: a generate that is leased is left to its agent.
RetireUnleased(q, id) ==
  Retain(q, {i \in DOMAIN q : i \in Matching(q, id, "generate") => q[i].lease = "held"})

RetireGeneration(q, id) == Retain(q, DOMAIN q \ Matching(q, id, "generate"))

CancelAnonymousExit(q) ==
  Retain(q, {i \in DOMAIN q : HasId(q[i].event) \/ q[i].event.type # "exit"})

Seqs(q) == {q[i].seq : i \in DOMAIN q}
HeldSeqs(q) == {q[i].seq : i \in {j \in DOMAIN q : q[j].lease = "held"}}
=============================================================================
