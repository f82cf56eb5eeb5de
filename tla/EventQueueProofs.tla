-------------------------- MODULE EventQueueProofs --------------------------
(***************************************************************************)
(* Proofs about EventQueue, for any agents, filters, events and bounds.    *)
(*                                                                         *)
(* A handler computes on a record of the state it works on, so what its    *)
(* helpers keep is stated of such records: Sound, which gives the types,   *)
(* Exclusive, which gives that no two agents hold the same event, and      *)
(* Carries, which gives that the handler's step is one of Delivery's.      *)
(***************************************************************************)
EXTENDS EventQueue, PendingQueueProofs

Queueable == Events \cup {Exit}
Places == {"idle", "parked", "leasing", "working"}
Works == [seq : 0 .. MaxSeq, event : Queueable \cup {NoWork.event}]

Handlers ==
  [queue : Queues(1 .. MaxSeq, Queueable), parked : Seq(Clients),
   at : [Clients -> Places], work : [Clients -> Works], fresh : SUBSET Clients]

(***************************************************************************)
(* Numbers below n are in use, each by one entry; who is parked waits, and *)
(* who has a lease is about to get its event or works on it.               *)
(***************************************************************************)
Sound(st, n) ==
  /\ st \in Handlers
  /\ Numbered(st.queue)
  /\ \A i \in DOMAIN st.queue : st.queue[i].seq < n
  /\ \A c \in Clients : st.work[c].seq < n
  /\ \A i \in DOMAIN st.parked : st.at[st.parked[i]] = "parked"
  /\ \A c \in st.fresh : st.at[c] \in {"leasing", "working"}

(***************************************************************************)
(* An agent has the event of the entry it was given; the entry is held for *)
(* as long as its lease is fresh, and no other agent's lease is on it.     *)
(***************************************************************************)
Exclusive(st) ==
  /\ NoCopies(st.queue)
  /\ \A c \in Clients : st.at[c] = "working" => HasId(st.work[c].event)
  /\ \A c \in Clients, i \in DOMAIN st.queue :
       st.work[c].seq = st.queue[i].seq => st.work[c].event = st.queue[i].event
  /\ \A c \in st.fresh, i \in DOMAIN st.queue :
       st.work[c].seq = st.queue[i].seq => st.queue[i].lease = "held"
  /\ \A c, d \in st.fresh : c # d => st.work[c].seq # st.work[d].seq


----------------------------------------------------------------------------
(***************************************************************************)
(* The helpers' records, written out.                                      *)
(***************************************************************************)
LEMMA HandlerFields ==
  ASSUME NEW st \in Handlers
  PROVE  /\ st.queue \in Queues(1 .. MaxSeq, Queueable)
         /\ st.parked \in Seq(Clients)
         /\ st.at \in [Clients -> Places]
         /\ st.work \in [Clients -> Works]
         /\ st.fresh \subseteq Clients
         /\ st = [queue |-> st.queue, parked |-> st.parked, at |-> st.at,
                  work |-> st.work, fresh |-> st.fresh]
BY DEF Handlers

LEMMA HandlerRecord ==
  ASSUME NEW q, NEW p, NEW a, NEW w, NEW f, NEW r,
         r = [queue |-> q, parked |-> p, at |-> a, work |-> w, fresh |-> f]
  PROVE  /\ r.queue = q /\ r.parked = p /\ r.at = a /\ r.work = w /\ r.fresh = f
         /\ /\ q \in Queues(1 .. MaxSeq, Queueable) /\ p \in Seq(Clients)
            /\ a \in [Clients -> Places] /\ w \in [Clients -> Works]
            /\ f \subseteq Clients
            => r \in Handlers
BY DEF Handlers

LEMMA UnparkIs ==
  ASSUME NEW st \in Handlers, NEW c \in Clients, NEW r, r = Unpark(st, c)
  PROVE  r = [queue |-> st.queue,
              parked |-> Retain(st.parked, {i \in DOMAIN st.parked : st.parked[i] # c}),
              at |-> st.at, work |-> st.work, fresh |-> st.fresh]
BY DEF Unpark, Handlers

LEMMA LapseIs ==
  ASSUME NEW st \in Handlers, NEW seqs, NEW r, r = Lapse(st, seqs)
  PROVE  r = [queue |-> SetLease(st.queue, seqs, "lapsed"), parked |-> st.parked,
              at |-> st.at, work |-> st.work, fresh |-> st.fresh \ Stale(st, seqs)]
BY DEF Lapse, Handlers

LEMMA IdleIs ==
  ASSUME NEW st \in Handlers, NEW c \in Clients, NEW r, r = Idle(st, c)
  PROVE  r = [queue |-> st.queue, parked |-> st.parked,
              at |-> [st.at EXCEPT ![c] = "idle"],
              work |-> [st.work EXCEPT ![c] = NoWork],
              fresh |-> st.fresh \ {c}]
BY DEF Idle, Handlers
----------------------------------------------------------------------------
(***************************************************************************)
(* Claim takes an entry nobody holds, so nobody else's lease is on it.     *)
(***************************************************************************)
LEMMA ClaimedEntry ==
  ASSUME NEW n, NEW st, Sound(st, n), NEW c \in Clients,
         Candidates(st.queue, Filter[c]) # {},
         NEW entry, entry = st.queue[Selected(st.queue, Filter[c])]
  PROVE  \E i \in DOMAIN st.queue :
           /\ entry = st.queue[i] /\ entry.lease # "held"
           /\ entry.seq \in 1 .. MaxSeq /\ entry.event \in Queueable /\ entry.seq < n
<1> DEFINE i == Selected(st.queue, Filter[c])
<1>1. st.queue \in Queues(1 .. MaxSeq, Queueable) /\ Numbered(st.queue)
  BY HandlerFields DEF Sound
<1>2. DOMAIN st.queue = 1 .. Len(st.queue) BY <1>1 DEF Queues
<1>3. \A j \in DOMAIN st.queue :
        st.queue[j] \in [seq : 1 .. MaxSeq, event : Queueable, lease : {"free", "held", "lapsed"}]
  BY <1>1, <1>2, ElementOfSeq DEF Queues
<1>4. \A j \in DOMAIN st.queue : st.queue[j].seq \in Nat
  BY <1>3, EventQueueAssumption
<1>5. i \in Candidates(st.queue, Filter[c]) BY <1>1, <1>4, SelectedIsCandidate
<1>6. i \in DOMAIN st.queue /\ st.queue[i].lease # "held" BY <1>5 DEF Candidates
<1>7. st.queue[i].seq \in 1 .. MaxSeq /\ st.queue[i].event \in Queueable BY <1>3, <1>6
<1>8. st.queue[i].seq < n BY <1>6 DEF Sound
<1>. QED BY <1>6, <1>7, <1>8

LEMMA ClaimSound ==
  ASSUME NEW n, NEW st, Sound(st, n), NEW c \in Clients,
         Candidates(st.queue, Filter[c]) # {},
         \A i \in DOMAIN st.parked : st.parked[i] # c,
         NEW r, r = Claim(st, c)
  PROVE  Sound(r, n)
<1> DEFINE entry == st.queue[Selected(st.queue, Filter[c])]
<1>1. /\ entry.seq \in 1 .. MaxSeq /\ entry.event \in Queueable /\ entry.seq < n
  BY ClaimedEntry
<1>2. st \in Handlers BY DEF Sound
<1> HIDE DEF entry
<1>3. r = [queue |-> SetLease(st.queue, {entry.seq}, "held"),
           parked |-> st.parked,
           at |-> [st.at EXCEPT ![c] = "leasing"],
           work |-> [st.work EXCEPT ![c] = [seq |-> entry.seq, event |-> entry.event]],
           fresh |-> st.fresh \cup {c}]
  BY <1>2 DEF Claim, Handlers, entry
<1>4. /\ r.queue \in Queues(1 .. MaxSeq, Queueable)
      /\ Numbered(r.queue)
      /\ DOMAIN r.queue = DOMAIN st.queue
      /\ \A i \in DOMAIN st.queue : r.queue[i].seq = st.queue[i].seq
  BY <1>2, <1>3, HandlerFields, SetLeaseQueue, SetLeaseIs DEF Sound
<1>5. r.at \in [Clients -> Places] /\ r.at = [st.at EXCEPT ![c] = "leasing"]
  BY <1>2, <1>3, HandlerFields DEF Places
<1>6. /\ r.work \in [Clients -> Works]
      /\ r.work = [st.work EXCEPT ![c] = [seq |-> entry.seq, event |-> entry.event]]
  BY <1>1, <1>2, <1>3, HandlerFields, EventQueueAssumption DEF Works
<1>7. r.parked = st.parked /\ r.fresh = st.fresh \cup {c} BY <1>3
<1>8. r \in Handlers
  BY <1>2, <1>3, <1>4, <1>5, <1>6, <1>7, HandlerFields DEF Handlers
<1>9. \A i \in DOMAIN r.queue : r.queue[i].seq < n BY <1>4 DEF Sound
<1>10. \A d \in Clients : r.work[d].seq < n
  BY <1>1, <1>2, <1>6, HandlerFields DEF Sound
<1>11. \A i \in DOMAIN r.parked : r.at[r.parked[i]] = "parked"
  BY <1>2, <1>5, <1>7, HandlerFields DEF Sound
<1>12. \A d \in r.fresh : r.at[d] \in {"leasing", "working"}
  BY <1>2, <1>5, <1>7, HandlerFields DEF Sound
<1>. QED BY <1>4, <1>8, <1>9, <1>10, <1>11, <1>12 DEF Sound
LEMMA ClaimExclusive ==
  ASSUME NEW n, NEW st, Sound(st, n), Exclusive(st), NEW c \in Clients \ st.fresh,
         Candidates(st.queue, Filter[c]) # {},
         NEW r, r = Claim(st, c)
  PROVE  Exclusive(r)
<1> DEFINE entry == st.queue[Selected(st.queue, Filter[c])]
<1>1. PICK i \in DOMAIN st.queue : entry = st.queue[i] /\ entry.lease # "held"
  BY ClaimedEntry
<1>2. st \in Handlers /\ Numbered(st.queue) BY DEF Sound
<1> HIDE DEF entry
<1>3. r = [queue |-> SetLease(st.queue, {entry.seq}, "held"),
           parked |-> st.parked,
           at |-> [st.at EXCEPT ![c] = "leasing"],
           work |-> [st.work EXCEPT ![c] = [seq |-> entry.seq, event |-> entry.event]],
           fresh |-> st.fresh \cup {c}]
  BY <1>2 DEF Claim, Handlers, entry
<1>4. /\ NoCopies(r.queue)
      /\ DOMAIN r.queue = DOMAIN st.queue
      /\ \A j \in DOMAIN st.queue :
           /\ r.queue[j].seq = st.queue[j].seq /\ r.queue[j].event = st.queue[j].event
           /\ r.queue[j].lease = IF st.queue[j].seq \in {entry.seq} THEN "held"
                                 ELSE st.queue[j].lease
  BY <1>2, <1>3, HandlerFields, SetLeaseQueue, SetLeaseIs DEF Exclusive
<1>5. /\ r.fresh = st.fresh \cup {c}
      /\ r.at[c] = "leasing" /\ r.work[c].seq = entry.seq /\ r.work[c].event = entry.event
      /\ \A d \in Clients \ {c} : r.at[d] = st.at[d] /\ r.work[d] = st.work[d]
  BY <1>2, <1>3, HandlerFields
<1>6. \A d \in Clients : r.at[d] = "working" => HasId(r.work[d].event)
  <2> SUFFICES ASSUME NEW d \in Clients, r.at[d] = "working" PROVE HasId(r.work[d].event)
    OBVIOUS
  <2>1. d # c /\ r.work[d] = st.work[d] /\ st.at[d] = "working" BY <1>5
  <2>. QED BY <2>1 DEF Exclusive
<1>7. ASSUME NEW d \in Clients, NEW j \in DOMAIN r.queue, r.work[d].seq = r.queue[j].seq
      PROVE  r.work[d].event = r.queue[j].event
  <2>1. CASE d = c
    <3>1. st.queue[j].seq = st.queue[i].seq BY <1>1, <1>4, <1>5, <1>7, <2>1
    <3>2. j = i BY <1>1, <1>2, <1>4, <3>1 DEF Numbered
    <3>. QED BY <1>1, <1>4, <1>5, <2>1, <3>2
  <2>2. CASE d # c BY <1>4, <1>5, <1>7, <2>2 DEF Exclusive
  <2>. QED BY <2>1, <2>2
<1>8. ASSUME NEW d \in r.fresh, NEW j \in DOMAIN r.queue, r.work[d].seq = r.queue[j].seq
      PROVE  r.queue[j].lease = "held"
  <2>1. CASE d = c BY <1>4, <1>5, <1>8, <2>1
  <2>2. CASE d # c
    <3>1. d \in st.fresh /\ d \in Clients BY <1>2, <1>5, <2>2, HandlerFields
    <3>2. st.queue[j].lease = "held" BY <1>4, <1>5, <1>8, <2>2, <3>1 DEF Exclusive
    <3>. QED BY <1>4, <3>2
  <2>. QED BY <2>1, <2>2
<1>9. \A d \in st.fresh : st.work[d].seq # entry.seq BY <1>1 DEF Exclusive
<1>10. \A d, e \in r.fresh : d # e => r.work[d].seq # r.work[e].seq
  <2>1. \A d \in st.fresh : d # c /\ r.work[d] = st.work[d] BY <1>2, <1>5, HandlerFields
  <2>. QED BY <1>5, <1>9, <2>1 DEF Exclusive
<1>. QED BY <1>4, <1>6, <1>7, <1>8, <1>10 DEF Exclusive

(***************************************************************************)
(* A poll that leaves the line touches nothing else.                       *)
(***************************************************************************)
LEMMA UnparkSound ==
  ASSUME NEW n, NEW st, Sound(st, n), NEW c \in Clients, NEW r, r = Unpark(st, c)
  PROVE  /\ Sound(r, n)
         /\ Exclusive(st) => Exclusive(r)
         /\ r.queue = st.queue /\ r.at = st.at /\ r.work = st.work /\ r.fresh = st.fresh
         /\ \A k \in DOMAIN r.parked : r.parked[k] # c
         /\ \A k \in DOMAIN r.parked : \E i \in DOMAIN st.parked : r.parked[k] = st.parked[i]
         /\ Len(r.parked) \in Nat /\ Len(st.parked) \in Nat
         /\ (\E i \in DOMAIN st.parked : st.parked[i] = c) => Len(r.parked) < Len(st.parked)
<1>1. st \in Handlers BY DEF Sound
<1> DEFINE keep == {i \in DOMAIN st.parked : st.parked[i] # c}
<1>2. r = [queue |-> st.queue, parked |-> Retain(st.parked, keep),
           at |-> st.at, work |-> st.work, fresh |-> st.fresh]
  BY <1>1, UnparkIs
<1>3. /\ r.parked = Retain(st.parked, keep)
      /\ r.queue = st.queue /\ r.at = st.at /\ r.work = st.work /\ r.fresh = st.fresh
  BY <1>2
<1>4. st.parked \in Seq(Clients) BY <1>1, HandlerFields
<1>5. /\ r.parked \in Seq(Clients)
      /\ \A k \in DOMAIN r.parked : \E i \in DOMAIN st.parked :
           i \in keep /\ r.parked[k] = st.parked[i]
      /\ \A i \in DOMAIN st.parked : i \notin keep => Len(r.parked) < Len(st.parked)
  <2> HIDE DEF keep
  <2>. QED BY <1>3, <1>4, RetainIs
<1>6. r \in Handlers
  <2>1. /\ st.queue \in Queues(1 .. MaxSeq, Queueable) /\ st.at \in [Clients -> Places]
        /\ st.work \in [Clients -> Works] /\ st.fresh \subseteq Clients
    BY <1>1, HandlerFields
  <2>2. Retain(st.parked, keep) \in Seq(Clients) BY <1>3, <1>5
  <2> HIDE DEF keep
  <2>. QED BY <1>2, <2>1, <2>2 DEF Handlers
<1>7. \A k \in DOMAIN r.parked : r.at[r.parked[k]] = "parked"
  BY <1>3, <1>5 DEF Sound
<1>8. Sound(r, n)
  <2>1. /\ Numbered(r.queue)
        /\ \A i \in DOMAIN r.queue : r.queue[i].seq < n
        /\ \A d \in Clients : r.work[d].seq < n
        /\ \A d \in r.fresh : r.at[d] \in {"leasing", "working"}
    BY <1>3 DEF Sound
  <2>. QED BY <1>6, <1>7, <2>1 DEF Sound
<1>9. Exclusive(st) => Exclusive(r) BY <1>3 DEF Exclusive
<1>10. \A k \in DOMAIN r.parked : r.parked[k] # c BY <1>5
<1>11. (\E i \in DOMAIN st.parked : st.parked[i] = c) => Len(r.parked) < Len(st.parked)
  BY <1>5
<1>12. \A k \in DOMAIN r.parked : \E i \in DOMAIN st.parked : r.parked[k] = st.parked[i]
  BY <1>5
<1>13. Len(r.parked) \in Nat /\ Len(st.parked) \in Nat BY <1>4, <1>5
<1>. QED BY <1>3, <1>8, <1>9, <1>10, <1>11, <1>12, <1>13
----------------------------------------------------------------------------
NoExit(q) == \A i \in DOMAIN q : q[i].event # Exit

LEMMA ClaimNoExit ==
  ASSUME NEW st \in Handlers, NEW c, NoExit(st.queue), NEW r, r = Claim(st, c)
  PROVE  NoExit(r.queue)
<1> DEFINE entry == st.queue[Selected(st.queue, Filter[c])]
<1>1. r.queue = SetLease(st.queue, {entry.seq}, "held") BY DEF Claim, Handlers
<1> HIDE DEF entry
<1>2. /\ DOMAIN r.queue = DOMAIN st.queue
      /\ \A i \in DOMAIN st.queue : r.queue[i].event = st.queue[i].event
  BY <1>1, HandlerFields, SetLeaseIs
<1>. QED BY <1>2 DEF NoExit

LEMMA ClaimIs ==
  ASSUME NEW st \in Handlers, NEW c \in Clients,
         NEW entry, entry = st.queue[Selected(st.queue, Filter[c])]
  PROVE  Claim(st, c) =
           [queue |-> SetLease(st.queue, {entry.seq}, "held"),
            parked |-> st.parked,
            at |-> [st.at EXCEPT ![c] = "leasing"],
            work |-> [st.work EXCEPT ![c] = [seq |-> entry.seq, event |-> entry.event]],
            fresh |-> st.fresh \cup {c}]
<1> SUFFICES ASSUME NEW r, r = Claim(st, c)
             PROVE  r = [queue |-> SetLease(st.queue, {entry.seq}, "held"),
                         parked |-> st.parked,
                         at |-> [st.at EXCEPT ![c] = "leasing"],
                         work |-> [st.work EXCEPT ![c] = [seq |-> entry.seq, event |-> entry.event]],
                         fresh |-> st.fresh \cup {c}]
  OBVIOUS
<1>. QED BY DEF Claim, Handlers

LEMMA UnparkRecord ==
  ASSUME NEW q, NEW p, NEW a, NEW w, NEW f, NEW c
  PROVE  Unpark([queue |-> q, parked |-> p, at |-> a, work |-> w, fresh |-> f], c) =
           [queue |-> q, parked |-> Retain(p, {i \in DOMAIN p : p[i] # c}),
            at |-> a, work |-> w, fresh |-> f]
BY DEF Unpark

\* It makes no difference when the poll that is served leaves the line.
LEMMA ClaimUnparkCommute ==
  ASSUME NEW st \in Handlers, NEW c \in Clients, Unpark(st, c) \in Handlers
  PROVE  Unpark(Claim(st, c), c) = Claim(Unpark(st, c), c)
<1> DEFINE entry == st.queue[Selected(st.queue, Filter[c])]
           line == Retain(st.parked, {i \in DOMAIN st.parked : st.parked[i] # c})
           q == SetLease(st.queue, {entry.seq}, "held")
           a == [st.at EXCEPT ![c] = "leasing"]
           w == [st.work EXCEPT ![c] = [seq |-> entry.seq, event |-> entry.event]]
           f == st.fresh \cup {c}
           u == Unpark(st, c)
<1>1. Claim(st, c) = [queue |-> q, parked |-> st.parked, at |-> a, work |-> w, fresh |-> f]
  <2> HIDE DEF entry
  <2>. QED BY ClaimIs DEF entry
<1>2. u = [queue |-> st.queue, parked |-> line, at |-> st.at, work |-> st.work,
           fresh |-> st.fresh]
  BY UnparkIs
<1>3. u.queue = st.queue /\ u.parked = line /\ u.at = st.at /\ u.work = st.work
      /\ u.fresh = st.fresh
  <2> HIDE DEF line, u
  <2>. QED BY <1>2
<1>4. Unpark(Claim(st, c), c) =
        [queue |-> q, parked |-> line, at |-> a, work |-> w, fresh |-> f]
  <2> HIDE DEF q, a, w, f
  <2>. QED BY <1>1, UnparkRecord
<1>5. Claim(u, c) = [queue |-> q, parked |-> line, at |-> a, work |-> w, fresh |-> f]
  <2>1. entry = u.queue[Selected(u.queue, Filter[c])] BY <1>3
  <2>2. u \in Handlers OBVIOUS
  <2> HIDE DEF entry, line, u
  <2>3. Claim(u, c) =
          [queue |-> SetLease(u.queue, {entry.seq}, "held"), parked |-> u.parked,
           at |-> [u.at EXCEPT ![c] = "leasing"],
           work |-> [u.work EXCEPT ![c] = [seq |-> entry.seq, event |-> entry.event]],
           fresh |-> u.fresh \cup {c}]
    BY <2>1, <2>2, ClaimIs
  <2>. QED BY <1>3, <2>3
<1>. QED BY <1>4, <1>5

----------------------------------------------------------------------------
(***************************************************************************)
(* What Delivery says of handing out, said of records: from x to r, some   *)
(* agents that waited have been served, each with the most urgent request  *)
(* it wants of those that nobody has.                                      *)
(***************************************************************************)
Passed(x, r, c) ==
  r.at[c] = x.at[c] /\ r.work[c] = x.work[c] /\ (c \in r.fresh <=> c \in x.fresh)

Best(r, c) ==
  /\ r.work[c] \in Requests(r.queue) /\ Wants(Filter[c], r.work[c].event)
  /\ \A v \in Requests(r.queue) :
       v # r.work[c] /\ v.seq \notin HeldSeqs(r.queue) /\ Wants(Filter[c], v.event)
         => Precedes(r.work[c], v)

Serves(x, r, c) ==
  /\ x.at[c] = "parked"
  /\ r.at[c] = "leasing" /\ c \in r.fresh /\ Best(r, c)

Served(x, r) ==
  /\ Requests(r.queue) = Requests(x.queue)
  /\ HeldSeqs(x.queue) \subseteq HeldSeqs(r.queue)
  /\ \A c \in Clients : Passed(x, r, c) \/ Serves(x, r, c)

LEMMA ServedOn ==
  ASSUME NEW x, NEW y, NEW z, Served(x, y), Served(y, z)
  PROVE  Served(x, z)
<1>1. /\ Requests(z.queue) = Requests(y.queue) /\ Requests(y.queue) = Requests(x.queue)
      /\ HeldSeqs(x.queue) \subseteq HeldSeqs(y.queue)
      /\ HeldSeqs(y.queue) \subseteq HeldSeqs(z.queue)
  BY DEF Served
<1>2. ASSUME NEW c \in Clients PROVE Passed(x, z, c) \/ Serves(x, z, c)
  <2>1. (Passed(x, y, c) \/ Serves(x, y, c)) /\ (Passed(y, z, c) \/ Serves(y, z, c))
    BY DEF Served
  <2>2. CASE Passed(x, y, c) BY <2>1, <2>2 DEF Passed, Serves
  <2>3. CASE Serves(x, y, c)
    <3>1. Passed(y, z, c) BY <2>1, <2>3 DEF Serves
    <3>2. Best(y, c) => Best(z, c) BY <1>1, <3>1 DEF Best, Passed
    <3>. QED BY <2>3, <3>1, <3>2 DEF Serves, Passed
  <2>. QED BY <2>1, <2>2, <2>3
<1>. QED BY <1>1, <1>2 DEF Served

\* The requests of a queue that has got other leases.
LEMMA LeasesOnly ==
  ASSUME NEW q, NEW r, DOMAIN r = DOMAIN q,
         \A i \in DOMAIN q : r[i].seq = q[i].seq /\ r[i].event = q[i].event
  PROVE  Requests(r) = Requests(q)
BY DEF Requests

LEMMA ClaimBest ==
  ASSUME NEW n, NEW st, Sound(st, n), NEW c \in Clients,
         Candidates(st.queue, Filter[c]) # {},
         NEW r, r = Claim(st, c)
  PROVE  /\ Requests(r.queue) = Requests(st.queue)
         /\ HeldSeqs(st.queue) \subseteq HeldSeqs(r.queue)
         /\ r.at[c] = "leasing" /\ c \in r.fresh /\ Best(r, c)
         /\ \A d \in Clients \ {c} : Passed(st, r, d)
<1> DEFINE s == Selected(st.queue, Filter[c])
           entry == st.queue[s]
<1>1. st \in Handlers /\ Numbered(st.queue) BY DEF Sound
<1>2. /\ st.queue \in Queues(1 .. MaxSeq, Queueable)
      /\ st.at \in [Clients -> Places] /\ st.work \in [Clients -> Works]
      /\ st.fresh \subseteq Clients
  BY <1>1, HandlerFields
<1>3. \A i \in DOMAIN st.queue : st.queue[i].seq \in Nat
  <2>1. \A i \in DOMAIN st.queue : st.queue[i].seq \in 1 .. MaxSeq BY <1>2, QueueEntries
  <2>. QED BY <2>1, EventQueueAssumption
<1>4. /\ s \in Candidates(st.queue, Filter[c])
      /\ \A j \in Candidates(st.queue, Filter[c]) : s # j => Precedes(st.queue[s], st.queue[j])
  BY <1>1, <1>3, SelectedIsCandidate
<1> HIDE DEF s
<1>5. s \in DOMAIN st.queue /\ Wants(Filter[c], entry.event) BY <1>4 DEF Candidates
<1>6. r = [queue |-> SetLease(st.queue, {entry.seq}, "held"), parked |-> st.parked,
           at |-> [st.at EXCEPT ![c] = "leasing"],
           work |-> [st.work EXCEPT ![c] = [seq |-> entry.seq, event |-> entry.event]],
           fresh |-> st.fresh \cup {c}]
  <2>1. entry = st.queue[Selected(st.queue, Filter[c])] BY DEF s
  <2> HIDE DEF entry
  <2>. QED BY <1>1, <2>1, ClaimIs
<1> HIDE DEF entry
<1>7. /\ r.queue = SetLease(st.queue, {entry.seq}, "held")
      /\ r.at[c] = "leasing" /\ r.work[c] = [seq |-> entry.seq, event |-> entry.event]
      /\ c \in r.fresh
      /\ \A d \in Clients \ {c} : Passed(st, r, d)
  BY <1>2, <1>6 DEF Passed
<1>8. /\ DOMAIN r.queue = DOMAIN st.queue
      /\ \A i \in DOMAIN st.queue :
           /\ r.queue[i].seq = st.queue[i].seq /\ r.queue[i].event = st.queue[i].event
           /\ r.queue[i].lease = IF st.queue[i].seq \in {entry.seq} THEN "held"
                                 ELSE st.queue[i].lease
  BY <1>2, <1>7, SetLeaseIs
<1>9. Requests(r.queue) = Requests(st.queue) BY <1>8, LeasesOnly
<1>10. HeldSeqs(st.queue) \subseteq HeldSeqs(r.queue) BY <1>8 DEF HeldSeqs
<1>11. Best(r, c)
  <2>1. r.work[c] \in Requests(r.queue) /\ Wants(Filter[c], r.work[c].event)
    <3>1. [seq |-> st.queue[s].seq, event |-> st.queue[s].event] \in Requests(st.queue)
      BY <1>5 DEF Requests
    <3>2. r.work[c] = [seq |-> st.queue[s].seq, event |-> st.queue[s].event]
      BY <1>7 DEF entry
    <3>. QED BY <1>5, <1>9, <3>1, <3>2 DEF entry
  <2>2. ASSUME NEW v \in Requests(r.queue), v # r.work[c], v.seq \notin HeldSeqs(r.queue),
               Wants(Filter[c], v.event)
        PROVE  Precedes(r.work[c], v)
    <3>1. PICK j \in DOMAIN st.queue :
            v = [seq |-> st.queue[j].seq, event |-> st.queue[j].event]
      BY <1>9 DEF Requests
    <3>2. v.seq = st.queue[j].seq /\ v.event = st.queue[j].event BY <3>1
    <3>3. v.seq \notin HeldSeqs(st.queue) BY <1>10, <2>2
    <3>4. j \in Candidates(st.queue, Filter[c])
      BY <2>2, <3>2, <3>3 DEF Candidates, HeldSeqs
    <3>5. s # j BY <1>7, <2>2, <3>1 DEF entry
    <3>6. Precedes(st.queue[s], st.queue[j]) BY <1>4, <3>4, <3>5
    <3>. QED BY <1>7, <3>2, <3>6 DEF Precedes, entry
  <2>. QED BY <2>1, <2>2 DEF Best
<1>. QED BY <1>7, <1>9, <1>10, <1>11

LEMMA ClaimServes ==
  ASSUME NEW n, NEW st, Sound(st, n), NEW c \in Clients, st.at[c] = "parked",
         Candidates(st.queue, Filter[c]) # {},
         NEW r, r = Claim(st, c)
  PROVE  Served(st, r)
BY ClaimBest DEF Served, Serves

(***************************************************************************)
(* A round of flush_pending_polls serves a parked poll, and takes it out   *)
(* of the line; or it changes nothing, because no poll can be served.      *)
(***************************************************************************)
LEMMA FlushOneSound ==
  ASSUME NEW n, NEW st, Sound(st, n), NEW r, r = FlushOne(st)
  PROVE  /\ Sound(r, n)
         /\ Exclusive(st) => Exclusive(r)
         /\ NoExit(st.queue) => NoExit(r.queue)
         /\ Served(st, r)
         /\ Waiting(st) = {} => r = st
         /\ Waiting(st) # {} => Len(r.parked) < Len(st.parked)
         /\ Len(r.parked) \in Nat /\ Len(st.parked) \in Nat
<1>0. st \in Handlers /\ st.parked \in Seq(Clients) BY HandlerFields DEF Sound
<1>1. CASE Waiting(st) = {}
  BY <1>0, <1>1 DEF FlushOne, Served, Passed
<1>2. CASE Waiting(st) # {}
  <2> DEFINE w == First(Waiting(st))
             c == st.parked[w]
             u == Unpark(st, c)
  <2>1. DOMAIN st.parked = 1 .. Len(st.parked) BY <1>0
  <2>2. w \in Waiting(st)
    <3>1. Waiting(st) \subseteq Nat BY <2>1 DEF Waiting
    <3>. QED BY <1>2, <3>1, FirstIsLeast
  <2>3. w \in DOMAIN st.parked /\ Candidates(st.queue, Filter[c]) # {}
    BY <2>2 DEF Waiting
  <2>4. c \in Clients BY <1>0, <2>1, <2>3
  <2>5. st.at[c] = "parked" BY <2>3 DEF Sound
  <2>6. c \notin st.fresh BY <2>5 DEF Sound
  <2>7. r = Unpark(Claim(st, c), c) BY <1>2 DEF FlushOne
  <2> HIDE DEF w, c, u
  <2>8. /\ Sound(u, n)
        /\ Exclusive(st) => Exclusive(u)
        /\ u.queue = st.queue /\ u.at = st.at /\ u.work = st.work /\ u.fresh = st.fresh
        /\ \A k \in DOMAIN u.parked : u.parked[k] # c
        /\ Len(u.parked) \in Nat /\ Len(st.parked) \in Nat
    BY <2>4, UnparkSound DEF u
  <2>9. r = Claim(u, c)
    <3>1. u \in Handlers BY <2>8 DEF Sound
    <3>. QED BY <1>0, <2>4, <2>7, <3>1, ClaimUnparkCommute DEF u
  <2>10. Len(u.parked) < Len(st.parked)
    <3>1. \E i \in DOMAIN st.parked : st.parked[i] = c BY <2>3 DEF c
    <3>. QED BY <2>4, <3>1, UnparkSound DEF u
  <2>11. Candidates(u.queue, Filter[c]) # {} BY <2>3, <2>8
  <2>12. Sound(r, n) BY <2>4, <2>8, <2>9, <2>11, ClaimSound
  <2>13. Exclusive(st) => Exclusive(r)
    BY <2>4, <2>6, <2>8, <2>9, <2>11, ClaimExclusive
  <2>14. u \in Handlers BY <2>8 DEF Sound
  <2>15. NoExit(st.queue) => NoExit(r.queue)
    BY <2>8, <2>9, <2>14, ClaimNoExit
  <2>16. r.parked = u.parked BY <2>9, <2>14 DEF Claim, Handlers
  <2>17. Served(u, r) BY <2>4, <2>5, <2>8, <2>9, <2>11, ClaimServes
  <2>18. Served(st, r) BY <2>8, <2>17 DEF Served, Passed, Serves
  <2>. QED BY <1>2, <2>8, <2>10, <2>12, <2>13, <2>15, <2>16, <2>18
<1>. QED BY <1>1, <1>2

----------------------------------------------------------------------------
(***************************************************************************)
(* The recursion of Flush, step by step.                                   *)
(***************************************************************************)
Rounds(st, m, f) == f = [i \in 0 .. m |-> IF i = 0 THEN st ELSE FlushOne(f[i - 1])]

LEMMA RoundsExist ==
  ASSUME NEW st, NEW n \in Nat
  PROVE  \E f : Rounds(st, n, f)
<1> DEFINE good == {m \in 0 .. n : \E f : Rounds(st, m, f)}
<1>1. 0 \in good
  <2>1. Rounds(st, 0, [i \in 0 .. 0 |-> st]) BY DEF Rounds
  <2>. QED BY <2>1
<1>2. ASSUME NEW m \in 1 .. n, m - 1 \in good PROVE m \in good
  <2>1. PICK g : Rounds(st, m - 1, g) BY <1>2
  <2> DEFINE f == [i \in 0 .. m |-> IF i = m THEN FlushOne(g[m - 1]) ELSE g[i]]
  <2>2. \A i \in 0 .. m - 1 : f[i] = g[i] OBVIOUS
  <2>3. \A i \in 0 .. m - 1 : g[i] = IF i = 0 THEN st ELSE FlushOne(g[i - 1])
    BY <2>1 DEF Rounds
  <2>4. ASSUME NEW i \in 0 .. m
        PROVE  f[i] = IF i = 0 THEN st ELSE FlushOne(f[i - 1])
    <3>1. CASE i = m BY <3>1, <2>2
    <3>2. CASE i # m
      <4>1. i \in 0 .. m - 1 /\ (i # 0 => i - 1 \in 0 .. m - 1) BY <3>2
      <4>. QED BY <4>1, <2>2, <2>3
    <3>. QED BY <3>1, <3>2
  <2>5. Rounds(st, m, f) BY <2>4 DEF Rounds
  <2>. QED BY <2>5
<1> HIDE DEF good
<1>3. \A m \in 0 .. n : m \in good BY <1>1, <1>2, UpTo
<1>4. n \in good BY <1>3
<1>. QED BY <1>4 DEF good

LEMMA FlushSteps ==
  ASSUME NEW st, Len(st.parked) \in Nat
  PROVE  \E f : /\ Flush(st) = f[Len(st.parked)]
                /\ f[0] = st
                /\ \A i \in 1 .. Len(st.parked) : f[i] = FlushOne(f[i - 1])
<1> DEFINE f == CHOOSE g : Rounds(st, Len(st.parked), g)
<1>1. Rounds(st, Len(st.parked), f) BY RoundsExist
<1>2. Flush(st) = f[Len(st.parked)] BY Zenon DEF Flush, Rounds
<1> HIDE DEF f
<1>3. f[0] = st BY <1>1 DEF Rounds
<1>4. ASSUME NEW i \in 1 .. Len(st.parked) PROVE f[i] = FlushOne(f[i - 1])
  <2>1. i \in 0 .. Len(st.parked) /\ i # 0 OBVIOUS
  <2>2. f[i] = IF i = 0 THEN st ELSE FlushOne(f[i - 1]) BY <1>1, <2>1, Zenon DEF Rounds
  <2>. QED BY <2>1, <2>2, Zenon
<1>. QED BY <1>2, <1>3, <1>4

(***************************************************************************)
(* flush_pending_polls ends when no parked poll can be served: a round     *)
(* that serves one shortens the line, and there are as many rounds as      *)
(* polls.                                                                  *)
(***************************************************************************)
LEMMA FlushSound ==
  ASSUME NEW n, NEW st, Sound(st, n), NEW r, r = Flush(st)
  PROVE  /\ Sound(r, n)
         /\ Exclusive(st) => Exclusive(r)
         /\ NoExit(st.queue) => NoExit(r.queue)
         /\ Served(st, r)
         /\ Waiting(r) = {}
<1> DEFINE L == Len(st.parked)
<1>0. L \in Nat BY HandlerFields DEF Sound
<1>1. PICK f : /\ r = f[L] /\ f[0] = st
               /\ \A i \in 1 .. L : f[i] = FlushOne(f[i - 1])
  BY <1>0, FlushSteps
<1> HIDE DEF L
<1> DEFINE Good(s, m) == /\ Sound(s, n)
                         /\ Exclusive(st) => Exclusive(s)
                         /\ NoExit(st.queue) => NoExit(s.queue)
                         /\ Served(st, s)
                         /\ Waiting(s) = {} \/ Len(s.parked) <= L - m
           good == {m \in 0 .. L : Good(f[m], m)}
<1>2. 0 \in good
  <2>1. Served(st, st) BY DEF Served, Passed
  <2>. QED BY <1>0, <1>1, <2>1 DEF L
<1>3. ASSUME NEW m \in 1 .. L, m - 1 \in good PROVE m \in good
  <2> DEFINE s == f[m - 1]
             t == f[m]
  <2>1. t = FlushOne(s) BY <1>1
  <2>2. Good(s, m - 1) BY <1>3
  <2> HIDE DEF s, t
  <2>3. /\ Sound(t, n)
        /\ Exclusive(s) => Exclusive(t)
        /\ NoExit(s.queue) => NoExit(t.queue)
        /\ Served(s, t)
        /\ Waiting(s) = {} => t = s
        /\ Waiting(s) # {} => Len(t.parked) < Len(s.parked)
        /\ Len(t.parked) \in Nat /\ Len(s.parked) \in Nat
    BY <2>1, <2>2, FlushOneSound
  <2>4. Waiting(t) = {} \/ Len(t.parked) <= L - m
    <3>1. CASE Waiting(s) = {} BY <2>3, <3>1
    <3>2. CASE Waiting(s) # {} BY <1>0, <2>2, <2>3, <3>2
    <3>. QED BY <3>1, <3>2
  <2>5. Served(st, t) BY <2>2, <2>3, ServedOn
  <2>6. Good(t, m) BY <2>2, <2>3, <2>4, <2>5
  <2>. QED BY <1>0, <2>6 DEF t
<1> HIDE DEF good
<1>4. \A m \in 0 .. L : m \in good BY <1>0, <1>2, <1>3, UpTo
<1>5. L \in good BY <1>0, <1>4
<1>6. Good(r, L) BY <1>1, <1>5 DEF good
<1>7. Waiting(r) = {}
  <2>1. r.parked \in Seq(Clients) BY <1>6, HandlerFields DEF Sound
  <2>2. SUFFICES ASSUME Len(r.parked) <= L - L PROVE Waiting(r) = {} BY <1>6
  <2>3. DOMAIN r.parked = {} BY <1>0, <2>1, <2>2
  <2>. QED BY <2>3 DEF Waiting
<1>. QED BY <1>6, <1>7
----------------------------------------------------------------------------
(***************************************************************************)
(* Leases that run out leave the entries as they are, and no agent has a   *)
(* fresh lease on one of them.                                             *)
(***************************************************************************)
LEMMA LapseSound ==
  ASSUME NEW n, NEW st, Sound(st, n), NEW seqs, NEW r, r = Lapse(st, seqs)
  PROVE  /\ Sound(r, n)
         /\ Exclusive(st) => Exclusive(r)
         /\ NoExit(st.queue) => NoExit(r.queue)
         /\ HeldSeqs(r.queue) = Held(st) \ seqs
         /\ r.at = st.at /\ r.work = st.work /\ r.parked = st.parked
         /\ seqs = {} => r = st
<1>1. st \in Handlers BY DEF Sound
<1>2. /\ st.queue \in Queues(1 .. MaxSeq, Queueable) /\ st.parked \in Seq(Clients)
      /\ st.at \in [Clients -> Places] /\ st.work \in [Clients -> Works]
      /\ st.fresh \subseteq Clients
  BY <1>1, HandlerFields
<1> DEFINE q == SetLease(st.queue, seqs, "lapsed")
           f == st.fresh \ Stale(st, seqs)
<1>3. r = [queue |-> q, parked |-> st.parked, at |-> st.at, work |-> st.work, fresh |-> f]
  BY <1>1, LapseIs
<1>4. /\ q \in Queues(1 .. MaxSeq, Queueable)
      /\ DOMAIN q = DOMAIN st.queue /\ Len(q) = Len(st.queue)
      /\ \A i \in DOMAIN st.queue :
           /\ q[i].seq = st.queue[i].seq /\ q[i].event = st.queue[i].event
           /\ q[i].lease = IF st.queue[i].seq \in seqs THEN "lapsed" ELSE st.queue[i].lease
  BY <1>2, SetLeaseIs
<1>5. /\ Numbered(st.queue) => Numbered(q)
      /\ NoCopies(st.queue) => NoCopies(q)
      /\ HeldSeqs(q) = Held(st) \ seqs
  BY <1>2, SetLeaseQueue DEF Held
<1>6. f \subseteq st.fresh /\ \A c \in f : st.work[c].seq \notin seqs
  BY DEF Stale
<1>7. seqs = {} => r = st
  <2> SUFFICES ASSUME seqs = {} PROVE r = st OBVIOUS
  <2>1. \A i \in DOMAIN st.queue : q[i] = st.queue[i] BY DEF SetLease
  <2>2. q = st.queue BY <1>2, <1>4, <2>1, SeqEqual DEF Queues
  <2>3. f = st.fresh BY DEF Stale
  <2>. QED BY <1>1, <1>3, <2>2, <2>3, HandlerFields
<1> HIDE DEF q, f
<1>8. /\ r.queue = q /\ r.parked = st.parked /\ r.at = st.at /\ r.work = st.work
      /\ r.fresh = f
  BY <1>3
<1>9. r \in Handlers BY <1>2, <1>3, <1>4, <1>6 DEF Handlers
<1>10. Sound(r, n) BY <1>4, <1>5, <1>6, <1>8, <1>9 DEF Sound
<1>11. ASSUME Exclusive(st) PROVE Exclusive(r)
  <2>1. NoCopies(r.queue) BY <1>5, <1>8, <1>11 DEF Exclusive
  <2>2. \A c \in Clients : r.at[c] = "working" => HasId(r.work[c].event)
    BY <1>8, <1>11 DEF Exclusive
  <2>3. \A c \in Clients, i \in DOMAIN r.queue :
          r.work[c].seq = r.queue[i].seq => r.work[c].event = r.queue[i].event
    BY <1>4, <1>8, <1>11 DEF Exclusive
  <2>4. \A c \in r.fresh, i \in DOMAIN r.queue :
          r.work[c].seq = r.queue[i].seq => r.queue[i].lease = "held"
    BY <1>4, <1>6, <1>8, <1>11 DEF Exclusive
  <2>5. \A c, d \in r.fresh : c # d => r.work[c].seq # r.work[d].seq
    BY <1>6, <1>8, <1>11 DEF Exclusive
  <2>. QED BY <2>1, <2>2, <2>3, <2>4, <2>5 DEF Exclusive
<1>12. NoExit(st.queue) => NoExit(r.queue) BY <1>4, <1>8 DEF NoExit
<1>. QED BY <1>5, <1>7, <1>8, <1>10, <1>11, <1>12

----------------------------------------------------------------------------
(***************************************************************************)
(* The invariant: it adds to the types what the timers and the queue have  *)
(* to say of each other.                                                   *)
(***************************************************************************)
Flags ==
  /\ nextSeq \in 1 .. MaxSeq + 1
  /\ overlays \in BOOLEAN /\ exitTimer \in BOOLEAN
  /\ faults \in 0 .. MaxFaults /\ skew \in BOOLEAN

Typed ==
  /\ Sound(State, nextSeq) /\ Flags
  /\ timer \in {"off", "armed", "due"}

QInv == Typed /\ LeasesAreTimed /\ NoLostWakeup /\ ExitOnlyWhenAlone

(***************************************************************************)
(* What a handler leaves behind, whatever it does: a step to the state st. *)
(***************************************************************************)
Leaves(st) ==
  /\ Sound(State, nextSeq)'
  /\ timer' \in {"off", "armed", "due"}
  /\ Exclusive(st) => Exclusive(State)'
  /\ NoExit(st.queue) => NoExit(queue)'
  /\ at' = st.at /\ work' = st.work /\ fresh' \subseteq st.fresh
  /\ Requests(queue') = Requests(st.queue)

LEMMA StateFields ==
  /\ State.queue = queue /\ State.parked = parked /\ State.at = at
  /\ State.work = work /\ State.fresh = fresh
BY DEF State

LEMMA StateFieldsPrime ==
  /\ State'.queue = queue' /\ State'.parked = parked' /\ State'.at = at'
  /\ State'.work = work' /\ State'.fresh = fresh'
BY DEF State

LEMMA BecomeIs ==
  ASSUME NEW st \in Handlers, Become(st)
  PROVE  State' = st
BY HandlerFields DEF Become, State

LEMMA ScheduleLeaves ==
  ASSUME NEW st, Sound(st, nextSeq'), Schedule(st), skew \in BOOLEAN
  PROVE  /\ Leaves(st)
         /\ LeasesAreTimed'
         /\ timer' # "due"
         /\ ~skew => State' = st
<1>1. PICK late \in Lapses(st) :
        /\ Become(Lapse(st, late))
        /\ timer' = IF Held(st) \ late = {} THEN "off" ELSE "armed"
  BY DEF Schedule
<1> DEFINE r == Lapse(st, late)
<1>2. /\ Sound(r, nextSeq')
      /\ Exclusive(st) => Exclusive(r)
      /\ NoExit(st.queue) => NoExit(r.queue)
      /\ HeldSeqs(r.queue) = Held(st) \ late
      /\ late = {} => r = st
  BY LapseSound
<1>3. State' = r BY <1>1, <1>2, BecomeIs DEF Sound
<1>4. queue' = r.queue BY <1>1 DEF Become
<1> HIDE DEF r
<1>5. Sound(State, nextSeq)' BY <1>2, <1>3
<1>6. Exclusive(st) => Exclusive(State)' BY <1>2, <1>3
<1>7. NoExit(st.queue) => NoExit(queue)' BY <1>2, <1>4
<1>8. LeasesAreTimed'
  BY <1>1, <1>2, <1>4 DEF LeasesAreTimed
<1>9. ~skew => State' = st
  <2>1. ~skew => late = {} BY DEF Lapses
  <2>. QED BY <1>2, <1>3, <2>1
<1>10. /\ at' = st.at /\ work' = st.work /\ fresh' \subseteq st.fresh
       /\ Requests(queue') = Requests(st.queue)
  <2>1. st \in Handlers BY DEF Sound
  <2>2. r = [queue |-> SetLease(st.queue, late, "lapsed"), parked |-> st.parked,
             at |-> st.at, work |-> st.work, fresh |-> st.fresh \ Stale(st, late)]
    BY <2>1, LapseIs DEF r
  <2>3. /\ DOMAIN r.queue = DOMAIN st.queue
        /\ \A i \in DOMAIN st.queue :
             r.queue[i].seq = st.queue[i].seq /\ r.queue[i].event = st.queue[i].event
    BY <2>1, <2>2, HandlerFields, SetLeaseIs
  <2>4. Requests(r.queue) = Requests(st.queue) BY <2>3, LeasesOnly
  <2>5. at' = r.at /\ work' = r.work /\ fresh' = r.fresh BY <1>3, StateFieldsPrime
  <2>. QED BY <1>4, <2>2, <2>4, <2>5
<1>. QED BY <1>1, <1>5, <1>6, <1>7, <1>8, <1>9, <1>10 DEF Leaves
----------------------------------------------------------------------------
(***************************************************************************)
(* A queue whose entries are st's, with other leases or fewer of them.     *)
(***************************************************************************)
LEMMA QueueSound ==
  ASSUME NEW n, NEW st, Sound(st, n),
         NEW q \in Queues(1 .. MaxSeq, Queueable), Numbered(q),
         \A k \in DOMAIN q : \E i \in DOMAIN st.queue :
           q[k].seq = st.queue[i].seq /\ q[k].event = st.queue[i].event,
         NEW r, r = [st EXCEPT !.queue = q]
  PROVE  /\ Sound(r, n)
         /\ r.queue = q /\ r.parked = st.parked
         /\ r.at = st.at /\ r.work = st.work /\ r.fresh = st.fresh
         /\ NoExit(st.queue) => NoExit(r.queue)
         /\ Exclusive(st) /\ NoCopies(q)
              /\ (\A c \in st.fresh, k \in DOMAIN q :
                    st.work[c].seq = q[k].seq => q[k].lease = "held")
            => Exclusive(r)
<1>1. st \in Handlers BY DEF Sound
<1>2. /\ r.queue = q /\ r.parked = st.parked
      /\ r.at = st.at /\ r.work = st.work /\ r.fresh = st.fresh
  BY <1>1 DEF Handlers
<1>3. r \in Handlers BY <1>1 DEF Handlers
<1>4. \A k \in DOMAIN q : q[k].seq < n BY DEF Sound
<1>5. Sound(r, n) BY <1>2, <1>3, <1>4 DEF Sound
<1>6. NoExit(st.queue) => NoExit(r.queue) BY <1>2 DEF NoExit
<1>7. ASSUME Exclusive(st), NoCopies(q),
             \A c \in st.fresh, k \in DOMAIN q :
               st.work[c].seq = q[k].seq => q[k].lease = "held"
      PROVE  Exclusive(r)
  <2>1. \A c \in Clients, k \in DOMAIN q :
          st.work[c].seq = q[k].seq => st.work[c].event = q[k].event
    BY <1>7 DEF Exclusive
  <2>. QED BY <1>2, <1>7, <2>1 DEF Exclusive
<1>. QED BY <1>2, <1>5, <1>6, <1>7

LEMMA RetainSound ==
  ASSUME NEW n, NEW st, Sound(st, n), NEW keep,
         NEW r, r = [st EXCEPT !.queue = Retain(st.queue, keep)]
  PROVE  /\ Sound(r, n)
         /\ r.queue = Retain(st.queue, keep) /\ r.parked = st.parked
         /\ r.at = st.at /\ r.work = st.work /\ r.fresh = st.fresh
         /\ NoExit(st.queue) => NoExit(r.queue)
         /\ Exclusive(st) => Exclusive(r)
         /\ HeldSeqs(r.queue) \subseteq HeldSeqs(st.queue)
         /\ Waiting(st) = {} => Waiting(r) = {}
<1> DEFINE q == Retain(st.queue, keep)
<1>1. st.queue \in Queues(1 .. MaxSeq, Queueable) BY HandlerFields DEF Sound
<1>2. /\ q \in Queues(1 .. MaxSeq, Queueable)
      /\ \A k \in DOMAIN q : \E i \in DOMAIN st.queue : i \in keep /\ q[k] = st.queue[i]
      /\ Numbered(st.queue) => Numbered(q)
      /\ NoCopies(st.queue) => NoCopies(q)
      /\ HeldSeqs(q) \subseteq HeldSeqs(st.queue)
      /\ \A filter : Candidates(st.queue, filter) = {} => Candidates(q, filter) = {}
  BY <1>1, RetainQueue
<1> HIDE DEF q
<1>3. Numbered(q) BY <1>2 DEF Sound
<1>4. \A k \in DOMAIN q : \E i \in DOMAIN st.queue :
        q[k].seq = st.queue[i].seq /\ q[k].event = st.queue[i].event
  BY <1>2
<1>5. r = [st EXCEPT !.queue = q] BY DEF q
<1>6. /\ Sound(r, n)
      /\ r.queue = q /\ r.parked = st.parked
      /\ r.at = st.at /\ r.work = st.work /\ r.fresh = st.fresh
      /\ NoExit(st.queue) => NoExit(r.queue)
      /\ Exclusive(st) /\ NoCopies(q)
           /\ (\A c \in st.fresh, k \in DOMAIN q :
                 st.work[c].seq = q[k].seq => q[k].lease = "held")
         => Exclusive(r)
  BY <1>2, <1>3, <1>4, <1>5, QueueSound
<1>7. ASSUME Exclusive(st) PROVE Exclusive(r)
  <2>1. \A c \in st.fresh, k \in DOMAIN q :
          st.work[c].seq = q[k].seq => q[k].lease = "held"
    BY <1>2, <1>7 DEF Exclusive
  <2>. QED BY <1>2, <1>6, <1>7, <2>1 DEF Exclusive
<1>8. Waiting(st) = {} => Waiting(r) = {} BY <1>2, <1>6 DEF Waiting
<1>. QED BY <1>2, <1>6, <1>7, <1>8 DEF q

LEMMA HoldSound ==
  ASSUME NEW n, NEW st, Sound(st, n), NEW seqs,
         NEW r, r = [st EXCEPT !.queue = SetLease(st.queue, seqs, "held")]
  PROVE  /\ Sound(r, n)
         /\ r.queue = SetLease(st.queue, seqs, "held") /\ r.parked = st.parked
         /\ r.at = st.at /\ r.work = st.work /\ r.fresh = st.fresh
         /\ NoExit(st.queue) => NoExit(r.queue)
         /\ Exclusive(st) => Exclusive(r)
         /\ Waiting(st) = {} => Waiting(r) = {}
<1> DEFINE q == SetLease(st.queue, seqs, "held")
<1>1. st.queue \in Queues(1 .. MaxSeq, Queueable) BY HandlerFields DEF Sound
<1>2. /\ q \in Queues(1 .. MaxSeq, Queueable)
      /\ Numbered(st.queue) => Numbered(q)
      /\ NoCopies(st.queue) => NoCopies(q)
      /\ \A filter : Candidates(q, filter) \subseteq Candidates(st.queue, filter)
  BY <1>1, SetLeaseQueue
<1>3. /\ DOMAIN q = DOMAIN st.queue
      /\ \A i \in DOMAIN st.queue :
           /\ q[i].seq = st.queue[i].seq /\ q[i].event = st.queue[i].event
           /\ q[i].lease = IF st.queue[i].seq \in seqs THEN "held" ELSE st.queue[i].lease
  BY <1>1, SetLeaseIs
<1> HIDE DEF q
<1>4. /\ Numbered(q)
      /\ \A k \in DOMAIN q : \E i \in DOMAIN st.queue :
           q[k].seq = st.queue[i].seq /\ q[k].event = st.queue[i].event
  <2>1. Numbered(q) BY <1>2 DEF Sound
  <2>. QED BY <1>3, <2>1
<1>5. r = [st EXCEPT !.queue = q] BY DEF q
<1>6. /\ Sound(r, n)
      /\ r.queue = q /\ r.parked = st.parked
      /\ r.at = st.at /\ r.work = st.work /\ r.fresh = st.fresh
      /\ NoExit(st.queue) => NoExit(r.queue)
      /\ Exclusive(st) /\ NoCopies(q)
           /\ (\A c \in st.fresh, k \in DOMAIN q :
                 st.work[c].seq = q[k].seq => q[k].lease = "held")
         => Exclusive(r)
  BY <1>2, <1>4, <1>5, QueueSound
<1>7. ASSUME Exclusive(st) PROVE Exclusive(r)
  <2>1. \A c \in st.fresh, k \in DOMAIN q :
          st.work[c].seq = q[k].seq => q[k].lease = "held"
    BY <1>3, <1>7 DEF Exclusive
  <2>. QED BY <1>2, <1>6, <1>7, <2>1 DEF Exclusive
<1>8. Waiting(st) = {} => Waiting(r) = {} BY <1>2, <1>6 DEF Waiting
<1>. QED BY <1>6, <1>7, <1>8 DEF q

(***************************************************************************)
(* An entry may be freed when nobody has a fresh lease on it.              *)
(***************************************************************************)
LEMMA FreeSound ==
  ASSUME NEW n, NEW st, Sound(st, n), NEW seqs,
         NEW r, r = [st EXCEPT !.queue = SetLease(st.queue, seqs, "free")]
  PROVE  /\ Sound(r, n)
         /\ r.queue = SetLease(st.queue, seqs, "free") /\ r.parked = st.parked
         /\ r.at = st.at /\ r.work = st.work /\ r.fresh = st.fresh
         /\ NoExit(st.queue) => NoExit(r.queue)
         /\ Exclusive(st) /\ (\A c \in st.fresh : st.work[c].seq \notin seqs) => Exclusive(r)
<1> DEFINE q == SetLease(st.queue, seqs, "free")
<1>1. st.queue \in Queues(1 .. MaxSeq, Queueable) BY HandlerFields DEF Sound
<1>2. /\ q \in Queues(1 .. MaxSeq, Queueable)
      /\ Numbered(st.queue) => Numbered(q)
      /\ NoCopies(st.queue) => NoCopies(q)
  BY <1>1, SetLeaseQueue
<1>3. /\ DOMAIN q = DOMAIN st.queue
      /\ \A i \in DOMAIN st.queue :
           /\ q[i].seq = st.queue[i].seq /\ q[i].event = st.queue[i].event
           /\ q[i].lease = IF st.queue[i].seq \in seqs THEN "free" ELSE st.queue[i].lease
  BY <1>1, SetLeaseIs
<1> HIDE DEF q
<1>4. /\ Numbered(q)
      /\ \A k \in DOMAIN q : \E i \in DOMAIN st.queue :
           q[k].seq = st.queue[i].seq /\ q[k].event = st.queue[i].event
  <2>1. Numbered(q) BY <1>2 DEF Sound
  <2>. QED BY <1>3, <2>1
<1>5. r = [st EXCEPT !.queue = q] BY DEF q
<1>6. /\ Sound(r, n)
      /\ r.queue = q /\ r.parked = st.parked
      /\ r.at = st.at /\ r.work = st.work /\ r.fresh = st.fresh
      /\ NoExit(st.queue) => NoExit(r.queue)
      /\ Exclusive(st) /\ NoCopies(q)
           /\ (\A c \in st.fresh, k \in DOMAIN q :
                 st.work[c].seq = q[k].seq => q[k].lease = "held")
         => Exclusive(r)
  BY <1>2, <1>4, <1>5, QueueSound
<1>7. ASSUME Exclusive(st), \A c \in st.fresh : st.work[c].seq \notin seqs
      PROVE  Exclusive(r)
  <2>1. \A c \in st.fresh, k \in DOMAIN q :
          st.work[c].seq = q[k].seq => q[k].lease = "held"
    BY <1>3, <1>7 DEF Exclusive
  <2>. QED BY <1>2, <1>6, <1>7, <2>1 DEF Exclusive
<1>. QED BY <1>6, <1>7 DEF q
----------------------------------------------------------------------------
(***************************************************************************)
(* An agent that is not parked becomes idle, working or parked.            *)
(***************************************************************************)
LEMMA IdleSound ==
  ASSUME NEW n, NEW st, Sound(st, n), 0 < n, NEW c \in Clients, st.at[c] # "parked",
         NEW r, r = Idle(st, c)
  PROVE  /\ Sound(r, n)
         /\ r.queue = st.queue /\ r.parked = st.parked
         /\ r.fresh = st.fresh \ {c}
         /\ r.at[c] = "idle" /\ r.work[c] = NoWork
         /\ \A d \in Clients \ {c} : r.at[d] = st.at[d] /\ r.work[d] = st.work[d]
         /\ Exclusive(st) => Exclusive(r)
<1>1. st \in Handlers BY DEF Sound
<1>2. /\ st.queue \in Queues(1 .. MaxSeq, Queueable) /\ st.parked \in Seq(Clients)
      /\ st.at \in [Clients -> Places] /\ st.work \in [Clients -> Works]
      /\ st.fresh \subseteq Clients
  BY <1>1, HandlerFields
<1> DEFINE a == [st.at EXCEPT ![c] = "idle"]
           w == [st.work EXCEPT ![c] = NoWork]
           f == st.fresh \ {c}
<1>3. r = [queue |-> st.queue, parked |-> st.parked, at |-> a, work |-> w, fresh |-> f]
  BY <1>1, IdleIs
<1>4. NoWork \in Works /\ NoWork.seq = 0 BY EventQueueAssumption DEF Works, NoWork
<1>5. a \in [Clients -> Places] /\ w \in [Clients -> Works] /\ f \subseteq Clients
  BY <1>2, <1>4 DEF Places
<1>6. /\ a[c] = "idle" /\ w[c] = NoWork
      /\ \A d \in Clients \ {c} : a[d] = st.at[d] /\ w[d] = st.work[d]
  BY <1>2
<1> HIDE DEF a, w, f
<1>7. /\ r.queue = st.queue /\ r.parked = st.parked
      /\ r.at = a /\ r.work = w /\ r.fresh = f
  BY <1>3
<1>8. r \in Handlers BY <1>2, <1>3, <1>5 DEF Handlers
<1>9. \A i \in DOMAIN st.parked : st.parked[i] \in Clients \ {c}
  <2>1. \A i \in DOMAIN st.parked : st.parked[i] \in Clients BY <1>2
  <2>. QED BY <2>1 DEF Sound
<1>10. \A i \in DOMAIN r.parked : r.at[r.parked[i]] = "parked"
  BY <1>6, <1>7, <1>9 DEF Sound
<1>11. \A d \in r.fresh : d \in st.fresh /\ d \in Clients \ {c} BY <1>2, <1>7 DEF f
<1>12. \A d \in Clients : r.work[d].seq < n BY <1>4, <1>6, <1>7 DEF Sound
<1>13. \A d \in r.fresh : r.at[d] \in {"leasing", "working"}
  BY <1>6, <1>7, <1>11 DEF Sound
<1>14. Sound(r, n) BY <1>7, <1>8, <1>10, <1>12, <1>13 DEF Sound
<1>15. ASSUME Exclusive(st) PROVE Exclusive(r)
  <2>1. NoCopies(r.queue) BY <1>7, <1>15 DEF Exclusive
  <2>2. \A d \in Clients : r.at[d] = "working" => HasId(r.work[d].event)
    BY <1>6, <1>7, <1>15 DEF Exclusive
  <2>3. \A i \in DOMAIN st.queue : st.queue[i].seq # 0
    <3>1. \A i \in DOMAIN st.queue : st.queue[i] \in
            [seq : 1 .. MaxSeq, event : Queueable, lease : {"free", "held", "lapsed"}]
      BY <1>2, QueueEntries
    <3>. QED BY <3>1, EventQueueAssumption
  <2>4. \A d \in Clients, i \in DOMAIN r.queue :
          r.work[d].seq = r.queue[i].seq => r.work[d].event = r.queue[i].event
    BY <1>4, <1>6, <1>7, <1>15, <2>3 DEF Exclusive
  <2>5. \A d \in r.fresh, i \in DOMAIN r.queue :
          r.work[d].seq = r.queue[i].seq => r.queue[i].lease = "held"
    BY <1>6, <1>7, <1>11, <1>15 DEF Exclusive
  <2>6. \A d, e \in r.fresh : d # e => r.work[d].seq # r.work[e].seq
    BY <1>6, <1>7, <1>11, <1>15 DEF Exclusive
  <2>. QED BY <2>1, <2>2, <2>4, <2>5, <2>6 DEF Exclusive
<1>. QED BY <1>6, <1>7, <1>14, <1>15 DEF f

Working(st, c) == [st EXCEPT !.at[c] = "working"]

LEMMA WorkingSound ==
  ASSUME NEW n, NEW st, Sound(st, n), NEW c \in Clients,
         st.at[c] = "leasing", HasId(st.work[c].event),
         NEW r, r = Working(st, c)
  PROVE  /\ Sound(r, n)
         /\ r.queue = st.queue /\ r.parked = st.parked
         /\ r.work = st.work /\ r.fresh = st.fresh
         /\ r.at[c] = "working"
         /\ \A d \in Clients \ {c} : r.at[d] = st.at[d]
         /\ Exclusive(st) => Exclusive(r)
<1>1. st \in Handlers BY DEF Sound
<1>2. /\ st.parked \in Seq(Clients) /\ st.at \in [Clients -> Places]
      /\ st.fresh \subseteq Clients
  BY <1>1, HandlerFields
<1>3. /\ r \in Handlers
      /\ r.queue = st.queue /\ r.parked = st.parked /\ r.work = st.work
      /\ r.fresh = st.fresh
      /\ r.at[c] = "working"
      /\ \A d \in Clients \ {c} : r.at[d] = st.at[d]
  BY <1>1 DEF Working, Handlers, Places
<1>4. \A i \in DOMAIN r.parked : r.at[r.parked[i]] = "parked"
  <2>1. \A i \in DOMAIN st.parked : st.parked[i] \in Clients BY <1>2
  <2>. QED BY <1>3, <2>1 DEF Sound
<1>5. \A d \in r.fresh : r.at[d] \in {"leasing", "working"} BY <1>2, <1>3 DEF Sound
<1>6. Sound(r, n) BY <1>3, <1>4, <1>5 DEF Sound
<1>7. ASSUME Exclusive(st) PROVE Exclusive(r)
  <2>1. \A d \in Clients : r.at[d] = "working" => HasId(r.work[d].event)
    BY <1>3, <1>7 DEF Exclusive
  <2>. QED BY <1>3, <1>7, <2>1 DEF Exclusive
<1>. QED BY <1>3, <1>6, <1>7

LEMMA ParkSound ==
  ASSUME NEW n, NEW st, Sound(st, n), NEW c \in Clients, st.at[c] = "idle",
         NEW p, p = Append(st.parked, c), NEW a, a = [st.at EXCEPT ![c] = "parked"],
         NEW r, r = [queue |-> st.queue, parked |-> p, at |-> a, work |-> st.work,
                     fresh |-> st.fresh]
  PROVE  /\ Sound(r, n)
         /\ r.queue = st.queue
         /\ Exclusive(st) => Exclusive(r)
         /\ \A k \in DOMAIN r.parked :
              r.parked[k] = c \/ \E i \in DOMAIN st.parked : r.parked[k] = st.parked[i]
<1>1. st \in Handlers BY DEF Sound
<1>2. /\ st.queue \in Queues(1 .. MaxSeq, Queueable) /\ st.parked \in Seq(Clients)
      /\ st.at \in [Clients -> Places] /\ st.work \in [Clients -> Works]
      /\ st.fresh \subseteq Clients
  BY <1>1, HandlerFields
<1>4. /\ p \in Seq(Clients) /\ Len(p) = Len(st.parked) + 1 /\ p[Len(st.parked) + 1] = c
      /\ \A i \in 1 .. Len(st.parked) : p[i] = st.parked[i]
  BY <1>2, AppendProperties
<1>5. a \in [Clients -> Places] /\ a[c] = "parked"
      /\ \A d \in Clients \ {c} : a[d] = st.at[d]
  BY <1>2 DEF Places
<1>6. /\ r.queue = st.queue /\ r.parked = p /\ r.at = a /\ r.work = st.work
      /\ r.fresh = st.fresh
  OBVIOUS
<1>7. r \in Handlers
  <2>1. p \in Seq(Clients) /\ a \in [Clients -> Places] BY <1>4, <1>5
  <2>. QED BY <1>2, <2>1 DEF Handlers
<1>8. \A k \in DOMAIN p : p[k] = c \/ \E i \in DOMAIN st.parked : p[k] = st.parked[i]
  <2> SUFFICES ASSUME NEW k \in DOMAIN p
               PROVE  p[k] = c \/ \E i \in DOMAIN st.parked : p[k] = st.parked[i]
    OBVIOUS
  <2>1. k = Len(st.parked) + 1 \/ k \in 1 .. Len(st.parked) BY <1>2, <1>4
  <2>2. DOMAIN st.parked = 1 .. Len(st.parked) BY <1>2
  <2>. QED BY <1>4, <2>1, <2>2
<1>9. \A k \in DOMAIN r.parked : r.at[r.parked[k]] = "parked"
  <2>1. \A i \in DOMAIN st.parked : st.parked[i] \in Clients /\ st.at[st.parked[i]] = "parked"
    BY <1>2 DEF Sound
  <2>. QED BY <1>5, <1>6, <1>8, <2>1
<1>10. c \notin st.fresh BY DEF Sound
<1>11. \A d \in r.fresh : r.at[d] \in {"leasing", "working"}
  BY <1>2, <1>5, <1>6, <1>10 DEF Sound
<1>12. Sound(r, n) BY <1>6, <1>7, <1>9, <1>11 DEF Sound
<1>13. ASSUME Exclusive(st) PROVE Exclusive(r)
  <2>1. \A d \in Clients : r.at[d] = "working" => HasId(r.work[d].event)
    BY <1>5, <1>6, <1>13 DEF Exclusive
  <2>. QED BY <1>6, <1>13, <2>1 DEF Exclusive
<1>. QED BY <1>6, <1>8, <1>12, <1>13

(***************************************************************************)
(* A parked poll that ends: its agent is idle, and it is not in the line.  *)
(***************************************************************************)
LEMMA LeaveSound ==
  ASSUME NEW n, NEW st, Sound(st, n), NEW c \in Clients, st.at[c] = "parked",
         NEW r, r = Unpark([st EXCEPT !.at[c] = "idle"], c)
  PROVE  /\ Sound(r, n)
         /\ r.queue = st.queue /\ r.work = st.work /\ r.fresh = st.fresh
         /\ \A d \in Clients \ {c} : r.at[d] = st.at[d]
         /\ Exclusive(st) => Exclusive(r)
         /\ \A k \in DOMAIN r.parked : \E i \in DOMAIN st.parked : r.parked[k] = st.parked[i]
<1>1. st \in Handlers BY DEF Sound
<1>2. /\ st.queue \in Queues(1 .. MaxSeq, Queueable) /\ st.parked \in Seq(Clients)
      /\ st.at \in [Clients -> Places] /\ st.work \in [Clients -> Works]
      /\ st.fresh \subseteq Clients
  BY <1>1, HandlerFields
<1> DEFINE a == [st.at EXCEPT ![c] = "idle"]
           u == Unpark(st, c)
<1>3. [st EXCEPT !.at[c] = "idle"] =
        [queue |-> st.queue, parked |-> st.parked, at |-> a, work |-> st.work,
         fresh |-> st.fresh]
  BY <1>1 DEF Handlers
<1>4. u.parked = Retain(st.parked, {i \in DOMAIN st.parked : st.parked[i] # c})
  BY <1>1, UnparkIs
<1>5. a \in [Clients -> Places] /\ a[c] = "idle"
      /\ \A d \in Clients \ {c} : a[d] = st.at[d]
  BY <1>2 DEF Places
<1>6. /\ Sound(u, n)
      /\ Exclusive(st) => Exclusive(u)
      /\ u.queue = st.queue /\ u.at = st.at /\ u.work = st.work /\ u.fresh = st.fresh
      /\ \A k \in DOMAIN u.parked : u.parked[k] # c
      /\ \A k \in DOMAIN u.parked : \E i \in DOMAIN st.parked : u.parked[k] = st.parked[i]
  BY UnparkSound
<1> HIDE DEF a, u
<1>7. r = [queue |-> st.queue, parked |-> u.parked, at |-> a, work |-> st.work,
           fresh |-> st.fresh]
  BY <1>3, <1>4, UnparkRecord
<1>8. /\ r.queue = st.queue /\ r.parked = u.parked /\ r.at = a /\ r.work = st.work
      /\ r.fresh = st.fresh
  BY <1>7, HandlerRecord
<1>9. u.parked \in Seq(Clients) BY <1>6, HandlerFields DEF Sound
<1>10. r \in Handlers BY <1>2, <1>5, <1>7, <1>9, HandlerRecord
<1>11. \A k \in DOMAIN r.parked : r.at[r.parked[k]] = "parked"
  <2>1. \A k \in DOMAIN u.parked : u.parked[k] \in Clients BY <1>9
  <2>. QED BY <1>5, <1>6, <1>8, <2>1 DEF Sound
<1>12. c \notin st.fresh BY DEF Sound
<1>13. \A d \in r.fresh : r.at[d] \in {"leasing", "working"}
  BY <1>2, <1>5, <1>8, <1>12 DEF Sound
<1>14. Sound(r, n) BY <1>8, <1>10, <1>11, <1>13 DEF Sound
<1>15. ASSUME Exclusive(st) PROVE Exclusive(r)
  <2>1. \A d \in Clients : r.at[d] = "working" => HasId(r.work[d].event)
    BY <1>5, <1>8, <1>15 DEF Exclusive
  <2>. QED BY <1>8, <1>15, <2>1 DEF Exclusive
<1>. QED BY <1>5, <1>6, <1>8, <1>14, <1>15

LEMMA EnqueuedQueue ==
  ASSUME NEW n \in 1 .. MaxSeq, NEW e \in Queueable,
         NEW q \in Queues(1 .. MaxSeq, Queueable), n \notin Seqs(q)
  PROVE  /\ Enqueue(q, e, n) \in Queues(1 .. MaxSeq, Queueable)
         /\ \A k \in DOMAIN Enqueue(q, e, n) :
              \/ k \in DOMAIN q /\ Enqueue(q, e, n)[k] = q[k]
              \/ Enqueue(q, e, n)[k] = [seq |-> n, event |-> e, lease |-> "free"]
         /\ Numbered(q) => Numbered(Enqueue(q, e, n))
         /\ NoCopies(q) => NoCopies(Enqueue(q, e, n))
<1> DEFINE N == 1 .. MaxSeq
           r == Enqueue(q, e, n)
<1>1. n \in N /\ q \in Queues(N, Queueable) /\ r = Enqueue(q, e, n) OBVIOUS
<1> HIDE DEF N, r
<1>2. /\ r \in Queues(N, Queueable)
      /\ \A k \in DOMAIN r : \/ k \in DOMAIN q /\ r[k] = q[k]
                             \/ r[k] = [seq |-> n, event |-> e, lease |-> "free"]
      /\ Numbered(q) => Numbered(r)
      /\ NoCopies(q) => NoCopies(r)
  BY <1>1, EnqueueQueue
<1>. QED BY <1>2 DEF N, r

(***************************************************************************)
(* A new entry has a number nobody has seen.                               *)
(***************************************************************************)
LEMMA EnqueueSound ==
  ASSUME NEW n \in 1 .. MaxSeq, NEW st, Sound(st, n), NEW e \in Queueable,
         NEW r, r = [st EXCEPT !.queue = Enqueue(st.queue, e, n)], NEW m, m = n + 1
  PROVE  /\ Sound(r, m)
         /\ Exclusive(st) => Exclusive(r)
         /\ NoExit(st.queue) /\ e # Exit => NoExit(r.queue)
<1> DEFINE q == Enqueue(st.queue, e, n)
<1>1. st \in Handlers /\ MaxSeq \in Nat BY EventQueueAssumption DEF Sound
<1>2. st.queue \in Queues(1 .. MaxSeq, Queueable) /\ st.work \in [Clients -> Works]
      /\ st.fresh \subseteq Clients
  BY <1>1, HandlerFields
<1>3. n \notin Seqs(st.queue) BY <1>1 DEF Sound, Seqs
<1>0. q = Enqueue(st.queue, e, n) OBVIOUS
<1> HIDE DEF q
<1>4. /\ q \in Queues(1 .. MaxSeq, Queueable)
      /\ \A k \in DOMAIN q : \/ k \in DOMAIN st.queue /\ q[k] = st.queue[k]
                             \/ q[k] = [seq |-> n, event |-> e, lease |-> "free"]
      /\ Numbered(st.queue) => Numbered(q)
      /\ NoCopies(st.queue) => NoCopies(q)
  BY <1>0, <1>2, <1>3, EnqueuedQueue
<1>5. \A k \in DOMAIN q : \/ k \in DOMAIN st.queue /\ q[k] = st.queue[k]
                          \/ q[k].seq = n /\ q[k].event = e
  BY <1>4
<1>6. /\ r.queue = q /\ r.parked = st.parked
      /\ r.at = st.at /\ r.work = st.work /\ r.fresh = st.fresh
      /\ r \in Handlers
  BY <1>1, <1>4 DEF Handlers, q
<1>7. \A k \in DOMAIN q : q[k].seq < m
  <2> SUFFICES ASSUME NEW k \in DOMAIN q PROVE q[k].seq < m OBVIOUS
  <2>1. CASE k \in DOMAIN st.queue /\ q[k] = st.queue[k]
    <3>1. st.queue[k].seq \in 1 .. MaxSeq BY <1>2, <2>1, QueueEntries
    <3>2. st.queue[k].seq < n BY <2>1 DEF Sound
    <3>. QED BY <1>1, <2>1, <3>1, <3>2
  <2>2. CASE q[k].seq = n BY <1>1, <2>2
  <2>. QED BY <1>5, <2>1, <2>2
<1>8. \A c \in Clients : r.work[c].seq < m
  <2> SUFFICES ASSUME NEW c \in Clients PROVE st.work[c].seq < m BY <1>6
  <2>1. st.work[c].seq \in 0 .. MaxSeq BY <1>2 DEF Works
  <2>2. st.work[c].seq < n BY DEF Sound
  <2>. QED BY <1>1, <2>1, <2>2
<1>9. Sound(r, m) BY <1>4, <1>6, <1>7, <1>8 DEF Sound
<1>10. ASSUME Exclusive(st) PROVE Exclusive(r)
  <2>1. \A c \in Clients : st.work[c].seq # n
    <3>1. \A c \in Clients : st.work[c].seq < n BY DEF Sound
    <3>. QED BY <3>1, <1>1
  <2>2. \A c \in Clients, k \in DOMAIN q :
          st.work[c].seq = q[k].seq => k \in DOMAIN st.queue /\ q[k] = st.queue[k]
    BY <1>5, <2>1
  <2>3. \A c \in Clients, k \in DOMAIN q :
          st.work[c].seq = q[k].seq => st.work[c].event = q[k].event
    BY <1>10, <2>2 DEF Exclusive
  <2>4. \A c \in st.fresh, k \in DOMAIN q :
          st.work[c].seq = q[k].seq => q[k].lease = "held"
    BY <1>2, <1>10, <2>2 DEF Exclusive
  <2>. QED BY <1>4, <1>6, <1>10, <2>3, <2>4 DEF Exclusive
<1>11. NoExit(st.queue) /\ e # Exit => NoExit(r.queue) BY <1>5, <1>6 DEF NoExit
<1>. QED BY <1>9, <1>10, <1>11
----------------------------------------------------------------------------
(***************************************************************************)
(* A handler's step is one of Delivery's: the handler changes the record   *)
(* to x, which serves nobody yet, and then serves agents, which gives r.   *)
(***************************************************************************)
\* Who has asked for nothing, or waits, has nothing.
Empty(st) == \A c \in Clients : st.at[c] \in {"idle", "parked"} => st.work[c] = NoWork

Shifts(x) ==
  /\ Empty(x)
  /\ \A c \in Clients :
       \/ x.work[c] = work[c] /\ (c \in x.fresh => c \in fresh)
       \/ x.work[c] = NoWork /\ c \notin x.fresh /\ x.at[c] # "parked"

Comes(q) ==
  \/ Requests(q) \subseteq Requests(queue) /\ nextSeq' = nextSeq
  \/ /\ nextSeq' = nextSeq + 1
     /\ \E e \in Queueable :
          Requests(q) \subseteq Requests(queue) \cup {[seq |-> nextSeq, event |-> e]}

GivesUp(x, w) == \E c \in Clients : work[c] # NoWork /\ work[c].event = w.event /\ x.at[c] = "idle"

Overrides(q, w) ==
  /\ w.event.type = "generate"
  /\ \E v \in Requests(q) : v.event.type \in {"accept", "discard"} /\ v.event.id = w.event.id

CallsOff(w) == ~HasId(w.event) /\ w.event.type = "exit"

Goes(x) ==
  \A w \in Requests(queue) \ Requests(x.queue) :
    CallsOff(w) \/ GivesUp(x, w) \/ Overrides(x.queue, w)

Carries(r) ==
  /\ Exclusive(r)
  /\ \E x : Shifts(x) /\ Comes(x.queue) /\ Goes(x) /\ Served(x, r)

Promised == Promise!Next /\ Empty(State)'

LEMMA CarriesGives ==
  ASSUME NEW r, Carries(r), Leaves(r), Sound(r, nextSeq'), skew' = skew, ~skew => State' = r
  PROVE  Promised
<1>1. PICK x : Shifts(x) /\ Comes(x.queue) /\ Goes(x) /\ Served(x, r) BY DEF Carries
<1>2. /\ at' = r.at /\ work' = r.work /\ fresh' \subseteq r.fresh
      /\ Requests(queue)' = Requests(r.queue) /\ Requests(r.queue) = Requests(x.queue)
      /\ ~skew => HeldSeqs(queue)' = HeldSeqs(r.queue)
  <2>1. Requests(r.queue) = Requests(x.queue) BY <1>1 DEF Served
  <2>2. ~skew => queue' = r.queue BY StateFieldsPrime
  <2>. QED BY <2>1, <2>2 DEF Leaves
<1>3. r.fresh \subseteq Clients BY HandlerFields DEF Sound
<1>4. \A c \in Clients : r.at[c] \in {"idle", "parked"} => r.work[c] = NoWork
  <2>1. \A c \in Clients : r.at[c] \in {"idle", "parked"} => Passed(x, r, c)
    BY <1>1 DEF Served, Serves
  <2>. QED BY <1>1, <2>1 DEF Passed, Shifts, Empty
<1>5. Empty(State)' BY <1>2, <1>4, StateFieldsPrime DEF Empty
<1>6. Promise!Arrivals BY <1>1, <1>2 DEF Promise!Arrivals, Comes, Queueable
<1>7. Promise!Departures
  <2> SUFFICES ASSUME NEW w \in Requests(queue) \ Requests(queue)'
               PROVE  Promise!CalledOff(w) \/ Promise!Answered(w) \/ Promise!Withdrawn(w)
    BY DEF Promise!Departures
  <2>1. CallsOff(w) \/ GivesUp(x, w) \/ Overrides(x.queue, w) BY <1>1, <1>2 DEF Goes
  <2>2. GivesUp(x, w) => Promise!Answered(w)
    <3>1. \A c \in Clients : x.at[c] = "idle" => r.work[c] = NoWork
      BY <1>1, <1>4 DEF Served, Serves, Passed
    <3>. QED BY <1>2, <3>1 DEF GivesUp, Promise!Answered
  <2>3. Overrides(x.queue, w) => Promise!Withdrawn(w)
    BY <1>2 DEF Overrides, Promise!Withdrawn
  <2>4. CallsOff(w) => Promise!CalledOff(w)
    BY DEF CallsOff, Promise!CalledOff, HasId, Promise!HasId
  <2>. QED BY <2>1, <2>2, <2>3, <2>4
<1>8. ASSUME NEW c \in Clients
      PROVE  \/ Promise!Keeps(c) \/ Promise!LetsGo(c)
             \/ \E w \in Requests(queue)' : Promise!Takes(c, w)
  <2>1. \/ x.work[c] = work[c] /\ (c \in x.fresh => c \in fresh)
        \/ x.work[c] = NoWork /\ c \notin x.fresh /\ x.at[c] # "parked"
    BY <1>1 DEF Shifts
  <2>2. CASE Passed(x, r, c)
    BY <1>2, <2>1, <2>2 DEF Passed, Promise!Keeps, Promise!LetsGo
  <2>3. CASE Serves(x, r, c)
    <3>1. c \in r.fresh /\ Best(r, c) BY <2>3 DEF Serves
    <3>2. work[c] = NoWork BY <1>1, <2>1, <2>3 DEF Serves, Shifts, Empty
    <3>3. work'[c] \in Requests(queue)' /\ Promise!Wants(Filter[c], work'[c].event)
      BY <1>2, <3>1 DEF Best, Wants, Promise!Wants, HasId, Promise!HasId
    <3>4. \A b \in fresh' \ {c} : work'[b].seq # work'[c].seq
      BY <1>2, <3>1 DEF Carries, Exclusive
    <3>5. ~skew => Promise!MostUrgent(c, work'[c])
      <4> SUFFICES ASSUME ~skew, NEW v \in Requests(queue)', v # work'[c],
                          v.seq \notin HeldSeqs(queue)', Wants(Filter[c], v.event)
                   PROVE  Precedes(work'[c], v)
        BY DEF Promise!MostUrgent, Wants, Promise!Wants, HasId, Promise!HasId,
               Precedes, Promise!Precedes, Priority, Promise!Priority
      <4>. QED BY <1>2, <3>1 DEF Best
    <3>. QED BY <3>2, <3>3, <3>4, <3>5 DEF Promise!Takes
  <2>. QED BY <1>1, <2>2, <2>3 DEF Served
<1>. QED BY <1>5, <1>6, <1>7, <1>8 DEF Promised, Promise!Next

(***************************************************************************)
(* What an agent's answer names, the session and the type of an event,     *)
(* names one event.  OneHolder and Delivery need it: of two                *)
(* variant_mount_failed events of one session, a retry frees the first in  *)
(* the queue, which another agent may hold, and an answer removes it.      *)
(***************************************************************************)
ToldApart ==
  \A e, f \in Events :
    HasId(e) /\ HasId(f) /\ e.id = f.id /\ (e.type = "any" \/ f.type = e.type) => e = f

\* What each handler does for Delivery.
Faithful == ToldApart /\ Exclusive(State) /\ Empty(State) => Promised

LEMMA CarriesSame ==
  ASSUME NEW x, Exclusive(x), Shifts(x), Requests(x.queue) = Requests(queue), nextSeq' = nextSeq
  PROVE  Carries(x)
<1>1. Comes(x.queue) /\ Goes(x) BY DEF Comes, Goes
<1>2. Served(x, x) BY DEF Served, Passed
<1>. QED BY <1>1, <1>2 DEF Carries

LEMMA CarriesOn ==
  ASSUME NEW x, NEW r, Carries(x), Served(x, r), Exclusive(r)
  PROVE  Carries(r)
<1>1. PICK y : Shifts(y) /\ Comes(y.queue) /\ Goes(y) /\ Served(y, x) BY DEF Carries
<1>2. Served(y, r) BY <1>1, ServedOn
<1>. QED BY <1>1, <1>2 DEF Carries

\* Agents stay where they are, go on from leasing to working, or let go.
LEMMA ShiftsFrom ==
  ASSUME NEW x, Empty(State),
         \A c \in Clients :
           \/ /\ x.work[c] = work[c] /\ (c \in x.fresh => c \in fresh)
              /\ x.at[c] \in {"idle", "parked"} => at[c] \in {"idle", "parked"}
           \/ x.work[c] = NoWork /\ c \notin x.fresh /\ x.at[c] # "parked"
  PROVE  Shifts(x)
BY StateFields DEF Shifts, Empty

LEMMA ShiftsOn ==
  ASSUME NEW x, NEW r, Shifts(x),
         \A c \in Clients :
           \/ /\ r.work[c] = x.work[c] /\ (c \in r.fresh => c \in x.fresh)
              /\ r.at[c] = x.at[c] \/ r.at[c] = "working"
           \/ r.work[c] = NoWork /\ c \notin r.fresh /\ r.at[c] # "parked"
  PROVE  Shifts(r)
BY DEF Shifts, Empty

\* The requests that stay when a queue keeps the places in keep.
LEMMA RetainRequests ==
  ASSUME NEW N, NEW E, NEW q \in Queues(N, E), NEW keep, NEW r, r = Retain(q, keep)
  PROVE  /\ Requests(r) \subseteq Requests(q)
         /\ \A w \in Requests(q) \ Requests(r) :
              \E i \in DOMAIN q : /\ i \notin keep
                                 /\ w.seq = q[i].seq /\ w.event = q[i].event
<1>1. /\ \A k \in DOMAIN r : \E i \in DOMAIN q : i \in keep /\ r[k] = q[i]
      /\ \A i \in DOMAIN q : i \in keep => \E k \in DOMAIN r : r[k] = q[i]
  BY RetainIs DEF Queues
<1>2. Requests(r) \subseteq Requests(q) BY <1>1 DEF Requests
<1>3. ASSUME NEW w \in Requests(q), w \notin Requests(r)
      PROVE  \E i \in DOMAIN q : i \notin keep /\ w.seq = q[i].seq /\ w.event = q[i].event
  <2>1. PICK i \in DOMAIN q : w = [seq |-> q[i].seq, event |-> q[i].event] BY DEF Requests
  <2>2. i \notin keep BY <1>1, <1>3, <2>1 DEF Requests
  <2>. QED BY <2>1, <2>2
<1>. QED BY <1>2, <1>3

LEMMA EnqueueRequests ==
  ASSUME NEW N, NEW E, NEW q \in Queues(N, E), NEW e \in E, NEW n \in N, ~Duplicate(q, e),
         NEW r, r = Enqueue(q, e, n)
  PROVE  Requests(r) = Requests(q) \cup {[seq |-> n, event |-> e]}
<1> DEFINE new == [seq |-> n, event |-> e, lease |-> "free"]
<1>1. r = Append(q, new) BY DEF Enqueue
<1>2. new \in [seq : N, event : E, lease : {"free", "held", "lapsed"}] OBVIOUS
<1>3. /\ Len(r) = Len(q) + 1 /\ r[Len(q) + 1] = new
      /\ \A i \in 1 .. Len(q) : r[i] = q[i]
      /\ DOMAIN q = 1 .. Len(q) /\ Len(q) \in Nat /\ DOMAIN r = 1 .. Len(q) + 1
  BY <1>1, <1>2, AppendProperties DEF Queues
<1>4. new.seq = n /\ new.event = e OBVIOUS
<1> HIDE DEF new
<1>5. DOMAIN r = DOMAIN q \cup {Len(q) + 1} BY <1>3
<1>. QED BY <1>3, <1>4, <1>5 DEF Requests

\* The invariant's parts, said of the record.
LEMMA QInvOfState ==
  /\ NoLostWakeup <=> (~skew /\ timer # "due" => Waiting(State) = {})
  /\ ExitOnlyWhenAlone <=> (overlays => NoExit(State.queue))
<1>1. Waiting(State) = {} <=> \A i \in DOMAIN parked : Candidates(queue, Filter[parked[i]]) = {}
  BY StateFields DEF Waiting
<1>2. NoLostWakeup <=> (~skew /\ timer # "due" => Waiting(State) = {})
  BY <1>1 DEF NoLostWakeup
<1>. QED BY <1>2, StateFields DEF ExitOnlyWhenAlone, NoExit

(***************************************************************************)
(* A handler that ends in schedule_lease_flush.                            *)
(***************************************************************************)
LEMMA ScheduleKeeps ==
  ASSUME NEW st, Sound(st, nextSeq'), Schedule(st), Flags', skew \in BOOLEAN, skew' = skew,
         ~skew => Waiting(st) = {}, overlays' => NoExit(st.queue)
  PROVE  QInv' /\ (Exclusive(st) => Exclusive(State)') /\ (Carries(st) => Promised)
<1>1. /\ Leaves(st) /\ LeasesAreTimed'
      /\ ~skew => State' = st
  BY ScheduleLeaves
<1>2. /\ Sound(State, nextSeq)' /\ timer' \in {"off", "armed", "due"}
      /\ Exclusive(st) => Exclusive(State)'
      /\ NoExit(st.queue) => NoExit(queue)'
  BY <1>1 DEF Leaves
<1>3. ~skew => Waiting(State') = {} BY <1>1
<1>4. \A i \in DOMAIN parked' : ~skew => Candidates(queue', Filter[parked'[i]]) = {}
  BY <1>3, StateFieldsPrime DEF Waiting
<1>5. NoLostWakeup' BY <1>4 DEF NoLostWakeup
<1>6. ExitOnlyWhenAlone' BY <1>2 DEF ExitOnlyWhenAlone, NoExit
<1>7. Typed' BY <1>2 DEF Typed
<1>8. Carries(st) => Promised BY <1>1, CarriesGives
<1>. QED BY <1>1, <1>2, <1>5, <1>6, <1>7, <1>8 DEF QInv

(***************************************************************************)
(* A handler that leaves the timer as it is has to leave nobody waiting,   *)
(* and no lease without it.                                                *)
(***************************************************************************)
Timed(st) ==
  \A s \in Held(st) : \E c \in Clients : st.at[c] = "leasing" /\ st.work[c].seq = s

LEMMA BecomeKeeps ==
  ASSUME NEW st, Sound(st, nextSeq'), Become(st), Flags', skew' = skew,
         timer' \in {"off", "armed", "due"},
         ~skew /\ timer' # "due" => Waiting(st) = {}, overlays' => NoExit(st.queue),
         timer' = "off" => Timed(st)
  PROVE  QInv' /\ (Exclusive(st) => Exclusive(State)') /\ (Carries(st) => Promised)
<1>1. State' = st BY BecomeIs DEF Sound
<1>2. /\ st.queue = queue' /\ st.parked = parked' /\ st.at = at'
      /\ st.work = work' /\ st.fresh = fresh'
  BY DEF Become
<1>3. Sound(State, nextSeq)' BY <1>1
<1>4. Exclusive(st) => Exclusive(State)' BY <1>1
<1>5. NoLostWakeup' BY <1>2 DEF NoLostWakeup, Waiting
<1>6. ExitOnlyWhenAlone' BY <1>2 DEF ExitOnlyWhenAlone, NoExit
<1>7. LeasesAreTimed' BY <1>2 DEF LeasesAreTimed, Timed, Held
<1>8. Typed' BY <1>3 DEF Typed
<1>9. Leaves(st) BY <1>2, <1>3, <1>4 DEF Leaves, NoExit
<1>10. Carries(st) => Promised BY <1>1, <1>9, CarriesGives
<1>. QED BY <1>4, <1>5, <1>6, <1>7, <1>8, <1>10 DEF QInv

(***************************************************************************)
(* What the invariant says of the state a handler starts from.             *)
(***************************************************************************)
LEMMA QInvGives ==
  ASSUME QInv
  PROVE  /\ Sound(State, nextSeq) /\ Flags /\ 0 < nextSeq
         /\ State.queue = queue /\ State.parked = parked /\ State.at = at
         /\ State.work = work /\ State.fresh = fresh
         /\ State \in Handlers
         /\ timer \in {"off", "armed", "due"}
         /\ ~skew /\ timer # "due" => Waiting(State) = {}
         /\ overlays => NoExit(State.queue)
         /\ timer = "off" => Timed(State)
<1>1. Sound(State, nextSeq) /\ Flags /\ timer \in {"off", "armed", "due"}
  BY DEF QInv, Typed
<1>2. 0 < nextSeq BY <1>1, EventQueueAssumption DEF Flags
<1>3. timer = "off" => Timed(State)
  BY StateFields DEF QInv, LeasesAreTimed, Timed, Held
<1>. QED BY <1>1, <1>2, <1>3, StateFields, QInvOfState DEF QInv, Sound

(***************************************************************************)
(* enqueue_event, over the queue as the handler has left it: a decision    *)
(* may have retired the generate of its session.                           *)
(***************************************************************************)
Retires(st, e) ==
  /\ Exclusive(st) /\ Shifts(st)
  /\ Requests(st.queue) \subseteq Requests(queue)
  /\ \A w \in Requests(queue) \ Requests(st.queue) :
       w.event.type = "generate" /\ e.type \in {"accept", "discard"} /\ w.event.id = e.id

\* e is queued when the handler is done, now or already.
LEMMA RetiresCarries ==
  ASSUME NEW st, NEW e, Retires(st, e), NEW x, Exclusive(x),
         x.at = st.at, x.work = st.work, x.fresh = st.fresh,
         Requests(st.queue) \subseteq Requests(x.queue), Comes(x.queue),
         \E v \in Requests(x.queue) : v.event.type = e.type /\ (HasId(e) => v.event.id = e.id),
         e.type \in {"accept", "discard"} => HasId(e)
  PROVE  Carries(x)
<1>1. Shifts(x) BY DEF Retires, Shifts, Empty
<1>2. ASSUME NEW w \in Requests(queue) \ Requests(x.queue) PROVE Overrides(x.queue, w)
  <2>1. w.event.type = "generate" /\ e.type \in {"accept", "discard"} /\ w.event.id = e.id
    BY <1>2 DEF Retires
  <2>. QED BY <2>1 DEF Overrides
<1>3. Goes(x) BY <1>2 DEF Goes
<1>4. Served(x, x) BY DEF Served, Passed
<1>. QED BY <1>1, <1>3, <1>4 DEF Carries

LEMMA QueueKeeps ==
  ASSUME QInv, NEW st, Sound(st, nextSeq), NEW e \in Queueable,
         Queue(st, e), nextSeq <= MaxSeq,
         overlays' = overlays, exitTimer' \in BOOLEAN, faults' = faults, skew' = skew,
         ~skew => Waiting(st) = {},
         overlays => NoExit(st.queue) /\ e # Exit
  PROVE  QInv' /\ (Exclusive(st) => Exclusive(State)') /\ (Retires(st, e) => Promised)
<1>1. /\ Flags /\ timer \in {"off", "armed", "due"}
      /\ timer = "off" => Timed(State)
  BY QInvGives
<1>2. overlays' => NoExit(st.queue) OBVIOUS
<1>0. e.type \in {"accept", "discard"} => HasId(e)
  BY EventQueueAssumption DEF Queueable, Exit
<1>3. CASE Duplicate(st.queue, e)
  <2>1. /\ IF st = State THEN Become(st) /\ UNCHANGED timer ELSE Schedule(st)
        /\ nextSeq' = nextSeq
    BY <1>3 DEF Queue
  <2>2. Flags' BY <1>1, <2>1 DEF Flags
  <2>5. Retires(st, e) => Carries(st)
    <3> SUFFICES ASSUME Retires(st, e) PROVE Carries(st) OBVIOUS
    <3>1. PICK i \in DOMAIN st.queue : SameRequest(st.queue[i].event, e)
      BY <1>3 DEF Duplicate
    <3> DEFINE v == [seq |-> st.queue[i].seq, event |-> st.queue[i].event]
    <3>2. v \in Requests(st.queue) BY DEF Requests
    <3>3. v.event.type = e.type /\ v.event.id = e.id BY <3>1 DEF SameRequest
    <3>4. Comes(st.queue) BY <2>1 DEF Retires, Comes
    <3>5. Exclusive(st) BY DEF Retires
    <3> HIDE DEF v
    <3>. QED BY <1>0, <3>2, <3>3, <3>4, <3>5, RetiresCarries
  <2>3. CASE st = State
    <3>1. Become(st) /\ timer' = timer BY <2>1, <2>3
    <3>2. timer' = "off" => Timed(st) BY <1>1, <2>3, <3>1
    <3>. QED BY <1>1, <1>2, <2>1, <2>2, <2>5, <3>1, <3>2, BecomeKeeps
  <2>4. CASE st # State
    <3>1. Schedule(st) BY <2>1, <2>4
    <3>. QED BY <1>1, <1>2, <2>1, <2>2, <2>5, <3>1, ScheduleKeeps DEF Flags
  <2>. QED BY <2>3, <2>4
<1>4. CASE ~Duplicate(st.queue, e)
  <2> DEFINE r == [st EXCEPT !.queue = Enqueue(st.queue, e, nextSeq)]
             t == Flush(r)
  <2>1. nextSeq' = nextSeq + 1 /\ Schedule(t) BY <1>4 DEF Queue
  <2>2. nextSeq \in 1 .. MaxSeq BY <1>1, EventQueueAssumption DEF Flags
  <2>3. r = [st EXCEPT !.queue = Enqueue(st.queue, e, nextSeq)] OBVIOUS
  <2> HIDE DEF r
  <2>4. /\ Sound(r, nextSeq')
        /\ Exclusive(st) => Exclusive(r)
        /\ NoExit(st.queue) /\ e # Exit => NoExit(r.queue)
    <3>1. nextSeq' = nextSeq + 1 BY <2>1
    <3> DEFINE n == nextSeq
               m == nextSeq'
               N == 1 .. MaxSeq
    <3>2. n \in N /\ m = n + 1 /\ Sound(st, n)
          /\ r = [st EXCEPT !.queue = Enqueue(st.queue, e, n)]
      BY <2>2, <2>3, <3>1
    <3>3. \A k \in N : \A l :
            Sound(st, k) /\ r = [st EXCEPT !.queue = Enqueue(st.queue, e, k)] /\ l = k + 1
            => /\ Sound(r, l)
               /\ Exclusive(st) => Exclusive(r)
               /\ NoExit(st.queue) /\ e # Exit => NoExit(r.queue)
      BY EnqueueSound
    <3> HIDE DEF n, m, N
    <3>. QED BY <3>2, <3>3 DEF m
  <2>5. /\ Sound(t, nextSeq')
        /\ Exclusive(r) => Exclusive(t)
        /\ NoExit(r.queue) => NoExit(t.queue)
        /\ Served(r, t)
        /\ Waiting(t) = {}
    BY <2>4, FlushSound
  <2> HIDE DEF t
  <2>7. Retires(st, e) => Carries(t)
    <3> SUFFICES ASSUME Retires(st, e) PROVE Carries(t) OBVIOUS
    <3>1. st \in Handlers BY DEF Sound
    <3>2. /\ r.queue = Enqueue(st.queue, e, nextSeq)
          /\ r.at = st.at /\ r.work = st.work /\ r.fresh = st.fresh
      BY <2>3, <3>1 DEF Handlers
    <3>3. Requests(r.queue) = Requests(st.queue) \cup {[seq |-> nextSeq, event |-> e]}
      <4> DEFINE N == 1 .. MaxSeq
      <4>1. nextSeq \in N /\ st.queue \in Queues(N, Queueable)
        BY <2>2, <3>1, HandlerFields
      <4> HIDE DEF N
      <4>. QED BY <1>4, <3>2, <4>1, EnqueueRequests
    <3>4. Comes(r.queue) BY <2>1, <3>3 DEF Comes, Retires
    <3>5. \E v \in Requests(r.queue) : v.event.type = e.type /\ (HasId(e) => v.event.id = e.id)
      <4> DEFINE v == [seq |-> nextSeq, event |-> e]
      <4>1. v \in Requests(r.queue) /\ v.event = e BY <3>3
      <4> HIDE DEF v
      <4>. QED BY <4>1
    <3>6. Exclusive(r) /\ Exclusive(t) BY <2>4, <2>5 DEF Retires
    <3>7. Carries(r) BY <1>0, <3>2, <3>3, <3>4, <3>5, <3>6, RetiresCarries
    <3>. QED BY <2>5, <3>6, <3>7, CarriesOn
  <2>6. Flags' BY <1>1, <2>1, <2>2, EventQueueAssumption DEF Flags
  <2>8. overlays' => NoExit(t.queue) BY <2>4, <2>5
  <2>9. QInv' /\ (Exclusive(t) => Exclusive(State)') /\ (Carries(t) => Promised)
    BY <1>1, <2>1, <2>5, <2>6, <2>8, ScheduleKeeps DEF Flags
  <2>. QED BY <2>4, <2>5, <2>7, <2>9
<1>. QED BY <1>3, <1>4

LEMMA PostKeeps ==
  ASSUME QInv, Punctual, NEW e \in Events, Post(e)
  PROVE  QInv' /\ (Exclusive(State) => Exclusive(State)') /\ Faithful
<1>1. /\ Sound(State, nextSeq) /\ Flags
      /\ ~skew => Waiting(State) = {}
      /\ overlays => NoExit(State.queue)
  BY QInvGives DEF Punctual
<1> DEFINE retired == [State EXCEPT !.queue = RetireGeneration(State.queue, e.id)]
           st == IF e.type \in {"accept", "discard"} THEN retired ELSE State
<1>2. /\ Queue(st, e) /\ nextSeq <= MaxSeq
      /\ overlays' = overlays /\ exitTimer' = exitTimer /\ faults' = faults /\ skew' = skew
  BY DEF Post
<1>3. /\ Sound(retired, nextSeq)
      /\ NoExit(State.queue) => NoExit(retired.queue)
      /\ Exclusive(State) => Exclusive(retired)
      /\ Waiting(State) = {} => Waiting(retired) = {}
  <2>1. retired = [State EXCEPT !.queue = Retain(State.queue,
                     DOMAIN State.queue \ Matching(State.queue, e.id, "generate"))]
    BY DEF RetireGeneration
  <2> HIDE DEF retired
  <2>. QED BY <1>1, <2>1, RetainSound
<1>9. Empty(State) => Shifts(retired)
      /\ Requests(retired.queue) \subseteq Requests(queue)
      /\ \A w \in Requests(queue) \ Requests(retired.queue) :
           w.event.type = "generate" /\ w.event.id = e.id
  <2> DEFINE keep == DOMAIN State.queue \ Matching(State.queue, e.id, "generate")
  <2>1. State \in Handlers /\ State.queue = queue /\ State.at = at BY QInvGives
  <2>2. /\ retired.queue = Retain(State.queue, keep)
        /\ retired.at = State.at /\ retired.work = State.work /\ retired.fresh = State.fresh
    BY <2>1 DEF RetireGeneration, Handlers
  <2>3. State.queue \in Queues(1 .. MaxSeq, Queueable) BY <2>1, HandlerFields
  <2> HIDE DEF retired, keep
  <2>4. Empty(State) => Shifts(retired)
    BY <2>2, StateFields, ShiftsFrom
  <2>5. /\ Requests(retired.queue) \subseteq Requests(State.queue)
        /\ \A w \in Requests(State.queue) \ Requests(retired.queue) :
             \E i \in DOMAIN State.queue : /\ i \notin keep
                                          /\ w.seq = State.queue[i].seq
                                          /\ w.event = State.queue[i].event
    BY <2>2, <2>3, RetainRequests
  <2>6. \A i \in DOMAIN State.queue : i \notin keep =>
          State.queue[i].event.type = "generate" /\ State.queue[i].event.id = e.id
    BY DEF keep, Matching
  <2>. QED BY <2>1, <2>4, <2>5, <2>6
<1> HIDE DEF retired
<1>4. /\ Sound(st, nextSeq)
      /\ ~skew => Waiting(st) = {}
      /\ overlays => NoExit(st.queue)
      /\ Exclusive(State) => Exclusive(st)
  BY <1>1, <1>3
<1>5. e \in Queueable /\ e # Exit BY EventQueueAssumption DEF Queueable
<1>6. exitTimer' \in BOOLEAN BY <1>1, <1>2 DEF Flags
<1>10. Exclusive(State) /\ Empty(State) => Retires(st, e)
  <2> SUFFICES ASSUME Exclusive(State), Empty(State) PROVE Retires(st, e) OBVIOUS
  <2>1. Exclusive(st) BY <1>4
  <2>2. CASE e.type \in {"accept", "discard"}
    <3>1. st = retired BY <2>2
    <3> HIDE DEF st
    <3>. QED BY <1>9, <2>1, <2>2, <3>1 DEF Retires
  <2>3. CASE e.type \notin {"accept", "discard"}
    <3>1. st = State BY <2>3
    <3>2. Shifts(State) BY StateFields, ShiftsFrom
    <3> HIDE DEF st
    <3>. QED BY <2>1, <3>1, <3>2, StateFields DEF Retires
  <2>. QED BY <2>2, <2>3
<1> HIDE DEF st
<1>7. overlays => NoExit(st.queue) /\ e # Exit BY <1>4, <1>5
<1>8. QInv' /\ (Exclusive(st) => Exclusive(State)') /\ (Retires(st, e) => Promised)
  BY <1>2, <1>4, <1>5, <1>6, <1>7, QueueKeeps
<1>. QED BY <1>4, <1>8, <1>10 DEF Faithful

LEMMA StateCarries ==
  ASSUME Exclusive(State), Empty(State), nextSeq' = nextSeq
  PROVE  Carries(State)
<1>1. Shifts(State) BY StateFields, ShiftsFrom
<1>2. Requests(State.queue) = Requests(queue) BY StateFields
<1>. QED BY <1>1, <1>2, CarriesSame

(***************************************************************************)
(* A connection of an overlay, a timer of its own: the queue stays.        *)
(***************************************************************************)
LEMMA StutterKeeps ==
  ASSUME QInv, queue' = queue, parked' = parked, at' = at, work' = work, fresh' = fresh,
         nextSeq' = nextSeq, timer' = timer, faults' = faults, skew' = skew,
         overlays' \in BOOLEAN, exitTimer' \in BOOLEAN, overlays' => NoExit(queue)
  PROVE  QInv' /\ (Exclusive(State) => Exclusive(State)') /\ Faithful
<1>1. /\ Sound(State, nextSeq) /\ Flags
      /\ State \in Handlers /\ State.queue = queue
      /\ timer \in {"off", "armed", "due"}
      /\ ~skew /\ timer # "due" => Waiting(State) = {}
      /\ timer = "off" => Timed(State)
  BY QInvGives
<1>2. Become(State) BY DEF Become, State
<1>3. Flags' BY <1>1 DEF Flags
<1>4. Sound(State, nextSeq') BY <1>1
<1>5. Exclusive(State) /\ Empty(State) => Carries(State) BY StateCarries
<1>. QED BY <1>1, <1>2, <1>3, <1>4, <1>5, BecomeKeeps DEF Faithful

LEMMA ExitTimerKeeps ==
  ASSUME QInv, Punctual, ExitTimer
  PROVE  QInv' /\ (Exclusive(State) => Exclusive(State)') /\ Faithful
<1>1. /\ Sound(State, nextSeq) /\ Flags
      /\ ~skew => Waiting(State) = {}
      /\ overlays => NoExit(State.queue)
  BY QInvGives DEF Punctual
<1>2. /\ exitTimer' = FALSE /\ overlays' = overlays /\ faults' = faults /\ skew' = skew
  BY DEF ExitTimer
<1>3. CASE overlays
  <2>1. UNCHANGED queueVars BY <1>3 DEF ExitTimer
  <2>2. /\ queue' = queue /\ parked' = parked /\ at' = at /\ work' = work /\ fresh' = fresh
        /\ nextSeq' = nextSeq /\ timer' = timer
    BY <2>1 DEF queueVars
  <2>3. overlays' \in BOOLEAN /\ exitTimer' \in BOOLEAN /\ (overlays' => NoExit(queue))
    BY <1>1, <1>2, StateFields DEF Flags
  <2>. QED BY <1>2, <2>2, <2>3, StutterKeeps
<1>4. CASE ~overlays
  <2>1. nextSeq <= MaxSeq /\ Queue(State, Exit) BY <1>4 DEF ExitTimer
  <2>2. Exit \in Queueable BY DEF Queueable
  <2>3. exitTimer' \in BOOLEAN BY <1>2
  <2>4. Exclusive(State) /\ Empty(State) => Retires(State, Exit)
    BY StateFields, ShiftsFrom DEF Retires
  <2>. QED BY <1>1, <1>2, <1>4, <2>1, <2>2, <2>3, <2>4, QueueKeeps DEF Faithful
<1>. QED BY <1>3, <1>4


(***************************************************************************)
(* What a claim leaves: the entry is leased by the claiming agent's own    *)
(* lease thread, and nobody new waits.                                     *)
(***************************************************************************)
LEMMA ClaimTimed ==
  ASSUME NEW n, NEW st, Sound(st, n), NEW c \in Clients, st.at[c] # "leasing",
         NEW r, r = Claim(st, c)
  PROVE  /\ Waiting(st) = {} => Waiting(r) = {}
         /\ Timed(st) => Timed(r)
<1> DEFINE entry == st.queue[Selected(st.queue, Filter[c])]
           q == SetLease(st.queue, {entry.seq}, "held")
<1>1. st \in Handlers BY DEF Sound
<1>2. /\ st.queue \in Queues(1 .. MaxSeq, Queueable)
      /\ st.at \in [Clients -> Places] /\ st.work \in [Clients -> Works]
  BY <1>1, HandlerFields
<1>3. r = [queue |-> q, parked |-> st.parked, at |-> [st.at EXCEPT ![c] = "leasing"],
           work |-> [st.work EXCEPT ![c] = [seq |-> entry.seq, event |-> entry.event]],
           fresh |-> st.fresh \cup {c}]
  <2> HIDE DEF entry
  <2>. QED BY <1>1, ClaimIs DEF entry
<1> HIDE DEF entry
<1>4. /\ HeldSeqs(q) \subseteq HeldSeqs(st.queue) \cup {entry.seq}
      /\ \A filter : Candidates(q, filter) \subseteq Candidates(st.queue, filter)
  BY <1>2, SetLeaseQueue
<1> HIDE DEF q
<1>5. /\ r.queue = q /\ r.parked = st.parked
      /\ r.at[c] = "leasing" /\ r.work[c].seq = entry.seq
      /\ \A d \in Clients \ {c} : r.at[d] = st.at[d] /\ r.work[d] = st.work[d]
  BY <1>2, <1>3
<1>6. Waiting(st) = {} => Waiting(r) = {} BY <1>4, <1>5 DEF Waiting
<1>7. ASSUME Timed(st), NEW s \in Held(r)
      PROVE  \E d \in Clients : r.at[d] = "leasing" /\ r.work[d].seq = s
  <2>1. s = entry.seq \/ s \in Held(st) BY <1>4, <1>5 DEF Held
  <2>2. CASE s = entry.seq BY <1>5, <2>2
  <2>3. CASE s \in Held(st)
    <3>1. PICK d \in Clients : st.at[d] = "leasing" /\ st.work[d].seq = s
      BY <1>7, <2>3 DEF Timed
    <3>2. d # c BY <3>1
    <3>. QED BY <1>5, <3>1, <3>2
  <2>. QED BY <2>1, <2>2, <2>3
<1>. QED BY <1>6, <1>7 DEF Timed

LEMMA ParkIs ==
  ASSUME NEW st \in Handlers, NEW c \in Clients,
         NEW r, r = [st EXCEPT !.parked = Append(@, c), !.at[c] = "parked"]
  PROVE  r =
           [queue |-> st.queue, parked |-> Append(st.parked, c),
            at |-> [st.at EXCEPT ![c] = "parked"], work |-> st.work, fresh |-> st.fresh]
BY DEF Handlers

LEMMA PollKeeps ==
  ASSUME QInv, Punctual, NEW c \in Clients, Poll(c)
  PROVE  QInv' /\ (Exclusive(State) => Exclusive(State)') /\ Faithful
<1>1. /\ Sound(State, nextSeq) /\ Flags
      /\ State.queue = queue /\ State.parked = parked /\ State.at = at
      /\ State.work = work /\ State.fresh = fresh
      /\ State \in Handlers
      /\ timer \in {"off", "armed", "due"}
      /\ ~skew => Waiting(State) = {}
      /\ overlays => NoExit(State.queue)
      /\ timer = "off" => Timed(State)
  BY QInvGives DEF Punctual
<1>2. /\ at[c] = "idle"
      /\ nextSeq' = nextSeq /\ overlays' = overlays /\ exitTimer' = exitTimer
      /\ faults' = faults /\ skew' = skew
  BY DEF Poll
<1>3. Flags' BY <1>1, <1>2 DEF Flags
<1>4. c \notin State.fresh /\ \A i \in DOMAIN State.parked : State.parked[i] # c
  BY <1>1, <1>2 DEF Sound
<1>5. CASE Candidates(queue, Filter[c]) # {}
  <2> DEFINE r == Claim(State, c)
  <2>1. Become(r) /\ timer' = timer BY <1>5 DEF Poll
  <2>2. r = Claim(State, c) OBVIOUS
  <2> HIDE DEF r
  <2>3. Sound(r, nextSeq) BY <1>1, <1>4, <1>5, <2>2, ClaimSound
  <2>4. Exclusive(State) => Exclusive(r)
    BY <1>1, <1>4, <1>5, <2>2, ClaimExclusive
  <2>5. NoExit(State.queue) => NoExit(r.queue) BY <1>1, <2>2, ClaimNoExit
  <2>6. /\ Waiting(State) = {} => Waiting(r) = {}
        /\ Timed(State) => Timed(r)
    BY <1>1, <1>2, <2>2, ClaimTimed
  <2>7. Sound(r, nextSeq') BY <1>2, <2>3
  <2>8. QInv' /\ (Exclusive(r) => Exclusive(State)') /\ (Carries(r) => Promised)
    BY <1>1, <1>2, <1>3, <2>1, <2>5, <2>6, <2>7, BecomeKeeps
  <2>9. ASSUME Exclusive(State), Empty(State) PROVE Carries(r)
    <3> DEFINE a == [State.at EXCEPT ![c] = "parked"]
               x == [queue |-> State.queue, at |-> a, work |-> State.work, fresh |-> State.fresh]
    <3>1. State.at \in [Clients -> Places] BY <1>1, HandlerFields
    <3>2. a[c] = "parked" /\ \A d \in Clients \ {c} : a[d] = State.at[d] BY <3>1
    <3> HIDE DEF a
    <3>3. /\ x.queue = State.queue /\ x.at = a /\ x.work = State.work /\ x.fresh = State.fresh
      OBVIOUS
    <3> HIDE DEF x
    <3>4. Shifts(x) BY <1>1, <1>2, <2>9, <3>2, <3>3, ShiftsFrom
    <3>5. Comes(x.queue) /\ Goes(x) BY <1>1, <1>2, <3>3 DEF Comes, Goes
    <3>6. /\ Requests(r.queue) = Requests(State.queue)
          /\ HeldSeqs(State.queue) \subseteq HeldSeqs(r.queue)
          /\ r.at[c] = "leasing" /\ c \in r.fresh /\ Best(r, c)
          /\ \A d \in Clients \ {c} : Passed(State, r, d)
      BY <1>1, <1>5, <2>2, ClaimBest
    <3>7. Served(x, r) BY <3>2, <3>3, <3>6 DEF Served, Serves, Passed
    <3>. QED BY <2>4, <2>9, <3>4, <3>5, <3>7 DEF Carries
  <2>. QED BY <2>4, <2>8, <2>9 DEF Faithful
<1>6. CASE Candidates(queue, Filter[c]) = {}
  <2> DEFINE p == Append(State.parked, c)
             a == [State.at EXCEPT ![c] = "parked"]
             r == [queue |-> State.queue, parked |-> p, at |-> a, work |-> State.work,
                   fresh |-> State.fresh]
  <2>1. [State EXCEPT !.parked = Append(@, c), !.at[c] = "parked"] = r
    BY <1>1, ParkIs
  <2>2. Schedule(r) BY <1>6, <2>1 DEF Poll
  <2>3. r.parked = p /\ r.queue = State.queue OBVIOUS
  <2>4. /\ Sound(r, nextSeq)
        /\ Exclusive(State) => Exclusive(r)
        /\ \A k \in DOMAIN r.parked :
             r.parked[k] = c \/ \E i \in DOMAIN State.parked : r.parked[k] = State.parked[i]
    <3> HIDE DEF p, a, r
    <3>. QED BY <1>1, <1>2, ParkSound DEF p, a, r
  <2>8. Exclusive(State) /\ Empty(State) => Carries(r)
    <3>1. State.at \in [Clients -> Places] BY <1>1, HandlerFields
    <3>2. a[c] = "parked" /\ \A d \in Clients \ {c} : a[d] = State.at[d] BY <3>1
    <3>3. /\ r.queue = State.queue /\ r.at = a /\ r.work = State.work /\ r.fresh = State.fresh
      OBVIOUS
    <3> HIDE DEF p, a, r
    <3>4. Empty(State) => Shifts(r) BY <1>1, <1>2, <3>2, <3>3, ShiftsFrom
    <3>. QED BY <1>1, <1>2, <2>4, <3>3, <3>4, CarriesSame
  <2> HIDE DEF p, a, r
  <2>5. Waiting(State) = {} => Waiting(r) = {}
    BY <1>1, <1>6, <2>3, <2>4 DEF Waiting
  <2>6. Sound(r, nextSeq') BY <1>2, <2>4
  <2>7. QInv' /\ (Exclusive(r) => Exclusive(State)') /\ (Carries(r) => Promised)
    BY <1>1, <1>2, <1>3, <2>2, <2>3, <2>5, <2>6, ScheduleKeeps DEF Flags
  <2>. QED BY <2>4, <2>7, <2>8 DEF Faithful
<1>. QED BY <1>5, <1>6

LEMMA PollEndsKeeps ==
  ASSUME QInv, Punctual, NEW c \in Clients, PollEnds(c)
  PROVE  QInv' /\ (Exclusive(State) => Exclusive(State)') /\ Faithful
<1>1. /\ Sound(State, nextSeq) /\ Flags
      /\ State.at = at
      /\ State \in Handlers
      /\ timer \in {"off", "armed", "due"}
      /\ ~skew => Waiting(State) = {}
      /\ overlays => NoExit(State.queue)
      /\ timer = "off" => Timed(State)
  BY QInvGives DEF Punctual
<1> DEFINE r == Unpark([State EXCEPT !.at[c] = "idle"], c)
<1>2. /\ at[c] = "parked" /\ Become(r)
      /\ nextSeq' = nextSeq /\ overlays' = overlays /\ exitTimer' = exitTimer
      /\ timer' = timer /\ faults' = faults /\ skew' = skew
  BY DEF PollEnds
<1>3. Flags' BY <1>1, <1>2 DEF Flags
<1>4. /\ Sound(r, nextSeq)
      /\ r.queue = State.queue /\ r.work = State.work /\ r.fresh = State.fresh
      /\ \A d \in Clients \ {c} : r.at[d] = State.at[d]
      /\ Exclusive(State) => Exclusive(r)
      /\ \A k \in DOMAIN r.parked : \E i \in DOMAIN State.parked : r.parked[k] = State.parked[i]
  BY <1>1, <1>2, LeaveSound
<1> HIDE DEF r
<1>5. Waiting(State) = {} => Waiting(r) = {} BY <1>4 DEF Waiting
<1>6. Timed(State) => Timed(r)
  <2>1. State.at[c] # "leasing" BY <1>1, <1>2
  <2>. QED BY <1>4, <2>1 DEF Timed, Held
<1>7. Sound(r, nextSeq') BY <1>2, <1>4
<1>9. Exclusive(State) /\ Empty(State) => Carries(r)
  <2>1. Empty(State) => Shifts(r) BY <1>1, <1>2, <1>4, StateFields, ShiftsFrom
  <2>. QED BY <1>2, <1>4, <2>1, StateFields, CarriesSame
<1>8. QInv' /\ (Exclusive(r) => Exclusive(State)') /\ (Carries(r) => Promised)
  BY <1>1, <1>2, <1>3, <1>4, <1>5, <1>6, <1>7, BecomeKeeps
<1>. QED BY <1>4, <1>8, <1>9 DEF Faithful

(***************************************************************************)
(* The lease thread ends.                                                  *)
(***************************************************************************)
LEMMA DropIs ==
  ASSUME NEW st \in Handlers, NEW c \in Clients, NEW q,
         NEW r, r = [st EXCEPT !.queue = q, !.at[c] = "idle", !.work[c] = NoWork,
                               !.fresh = @ \ {c}]
  PROVE  r = [queue |-> q, parked |-> st.parked, at |-> [st.at EXCEPT ![c] = "idle"],
              work |-> [st.work EXCEPT ![c] = NoWork], fresh |-> st.fresh \ {c}]
BY DEF Handlers

LEMMA IdleQueueIs ==
  ASSUME NEW st \in Handlers, NEW c \in Clients, NEW q,
         NEW r, r = [Idle(st, c) EXCEPT !.queue = q]
  PROVE  r = [queue |-> q, parked |-> st.parked, at |-> [st.at EXCEPT ![c] = "idle"],
              work |-> [st.work EXCEPT ![c] = NoWork], fresh |-> st.fresh \ {c}]
BY DEF Handlers, Idle

LEMMA RespondKeeps ==
  ASSUME QInv, Punctual, NEW c \in Clients,
         NEW st, Respond(st, c), Sound(st, nextSeq), st.at[c] = "leasing",
         HasId(st.work[c].event), ~skew => Waiting(st) = {}, overlays => NoExit(st.queue),
         nextSeq' = nextSeq, overlays' = overlays, exitTimer' = exitTimer, skew' = skew
  PROVE  /\ QInv' /\ (Exclusive(st) => Exclusive(State)')
         /\ Exclusive(st) /\ Shifts(st) /\ Requests(st.queue) = Requests(queue) => Promised
<1>1. Flags /\ 0 < nextSeq BY QInvGives
<1>2. ASSUME NEW r, Schedule(r), Sound(r, nextSeq), r.queue = st.queue, r.parked = st.parked,
             Exclusive(st) => Exclusive(r), Shifts(st) => Shifts(r),
             faults' \in 0 .. MaxFaults
      PROVE  /\ QInv' /\ (Exclusive(st) => Exclusive(State)')
             /\ Exclusive(st) /\ Shifts(st) /\ Requests(st.queue) = Requests(queue) => Promised
  <2>1. Waiting(st) = {} => Waiting(r) = {} BY <1>2 DEF Waiting
  <2>2. Flags' BY <1>1, <1>2 DEF Flags
  <2>3. Sound(r, nextSeq') BY <1>2
  <2>4. ~skew => Waiting(r) = {} BY <2>1
  <2>5. overlays' => NoExit(r.queue) BY <1>2
  <2>6. QInv' /\ (Exclusive(r) => Exclusive(State)') /\ (Carries(r) => Promised)
    BY <1>1, <1>2, <2>2, <2>3, <2>4, <2>5, ScheduleKeeps DEF Flags
  <2>7. Exclusive(st) /\ Shifts(st) /\ Requests(st.queue) = Requests(queue) => Carries(r)
    BY <1>2, CarriesSame
  <2>. QED BY <1>2, <2>6, <2>7
<1>3. CASE Schedule([st EXCEPT !.at[c] = "working"]) /\ UNCHANGED faults
  <2> DEFINE r == Working(st, c)
  <2>1. r = Working(st, c) OBVIOUS
  <2>2. Schedule(r) /\ faults' \in 0 .. MaxFaults BY <1>1, <1>3 DEF Flags, Working
  <2> HIDE DEF r
  <2>3. /\ Sound(r, nextSeq)
        /\ r.queue = st.queue /\ r.parked = st.parked
        /\ r.work = st.work /\ r.fresh = st.fresh
        /\ r.at[c] = "working"
        /\ \A d \in Clients \ {c} : r.at[d] = st.at[d]
        /\ Exclusive(st) => Exclusive(r)
    BY <2>1, WorkingSound
  <2>4. Shifts(st) => Shifts(r) BY <2>3, ShiftsOn
  <2>. QED BY <1>2, <2>2, <2>3, <2>4
<1>4. CASE /\ faults < MaxFaults /\ faults' = faults + 1
           /\ Schedule([st EXCEPT !.at[c] = "idle", !.work[c] = NoWork, !.fresh = @ \ {c}])
  <2> DEFINE r == Idle(st, c)
  <2>1. r = Idle(st, c) OBVIOUS
  <2>2. Schedule(r) BY <1>4 DEF Idle
  <2> HIDE DEF r
  <2>3. faults' \in 0 .. MaxFaults BY <1>1, <1>4, EventQueueAssumption DEF Flags
  <2>4. /\ Sound(r, nextSeq)
        /\ r.queue = st.queue /\ r.parked = st.parked
        /\ r.fresh = st.fresh \ {c}
        /\ r.at[c] = "idle" /\ r.work[c] = NoWork
        /\ \A d \in Clients \ {c} : r.at[d] = st.at[d] /\ r.work[d] = st.work[d]
        /\ Exclusive(st) => Exclusive(r)
    BY <1>1, <2>1, IdleSound
  <2>5. Shifts(st) => Shifts(r) BY <2>4, ShiftsOn
  <2>. QED BY <1>2, <2>2, <2>3, <2>4, <2>5
<1>. QED BY <1>3, <1>4 DEF Respond

LEMMA DeliverKeeps ==
  ASSUME QInv, Punctual, NEW c \in Clients, Deliver(c)
  PROVE  QInv' /\ (Exclusive(State) => Exclusive(State)') /\ Faithful
<1>1. /\ Sound(State, nextSeq) /\ Flags /\ 0 < nextSeq
      /\ State.queue = queue /\ State.at = at /\ State.work = work
      /\ State \in Handlers
      /\ timer \in {"off", "armed", "due"}
      /\ ~skew => Waiting(State) = {}
      /\ overlays => NoExit(State.queue)
      /\ timer = "off" => Timed(State)
  BY QInvGives DEF Punctual
<1>2. /\ at[c] = "leasing"
      /\ nextSeq' = nextSeq /\ overlays' = overlays /\ exitTimer' = exitTimer
      /\ skew' = skew
  BY DEF Deliver
<1>3. CASE HasId(work[c].event)
  <2> DEFINE st == [State EXCEPT !.queue = SetLease(State.queue, {work[c].seq}, "held")]
  <2>1. Respond(st, c) BY <1>3 DEF Deliver
  <2> DEFINE seqs == {work[c].seq}
  <2>2. st = [State EXCEPT !.queue = SetLease(State.queue, seqs, "held")] OBVIOUS
  <2> HIDE DEF st, seqs
  <2>4. /\ Sound(st, nextSeq)
        /\ st.at = State.at /\ st.work = State.work /\ st.fresh = State.fresh
        /\ st.queue = SetLease(State.queue, seqs, "held")
        /\ NoExit(State.queue) => NoExit(st.queue)
        /\ Exclusive(State) => Exclusive(st)
        /\ Waiting(State) = {} => Waiting(st) = {}
    <3>1. Sound(State, nextSeq) BY <1>1
    <3>. QED BY <2>2, <3>1, HoldSound
  <2>5. st.at[c] = "leasing" /\ HasId(st.work[c].event) BY <1>1, <1>2, <1>3, <2>4
  <2>6. /\ QInv' /\ (Exclusive(st) => Exclusive(State)')
        /\ Exclusive(st) /\ Shifts(st) /\ Requests(st.queue) = Requests(queue) => Promised
    BY <1>1, <1>2, <2>1, <2>4, <2>5, RespondKeeps
  <2>7. Empty(State) => Shifts(st) BY <2>4, StateFields, ShiftsFrom
  <2>8. Requests(st.queue) = Requests(queue)
    BY <1>1, <2>4, HandlerFields, SetLeaseIs, LeasesOnly
  <2>. QED BY <2>4, <2>6, <2>7, <2>8 DEF Faithful
<1>4. CASE ~HasId(work[c].event)
  <2> DEFINE keep == {i \in DOMAIN State.queue : State.queue[i].seq \notin {work[c].seq}}
             q == Retain(State.queue, keep)
             i == Idle(State, c)
             r == [i EXCEPT !.queue = q]
  <2>1. /\ Become([State EXCEPT !.queue = Without(State.queue, {work[c].seq}),
                                !.at[c] = "idle", !.work[c] = NoWork, !.fresh = @ \ {c}])
        /\ timer' = timer /\ faults' = faults
    BY <1>4 DEF Deliver
  <2>2. Without(State.queue, {work[c].seq}) = q BY DEF Without
  <2>3. [State EXCEPT !.queue = Without(State.queue, {work[c].seq}),
                      !.at[c] = "idle", !.work[c] = NoWork, !.fresh = @ \ {c}] = r
    <3> DEFINE w == Without(State.queue, {work[c].seq})
               record == [queue |-> q, parked |-> State.parked,
                          at |-> [State.at EXCEPT ![c] = "idle"],
                          work |-> [State.work EXCEPT ![c] = NoWork],
                          fresh |-> State.fresh \ {c}]
    <3>1. State \in Handlers BY <1>1
    <3>2. w = q BY <2>2
    <3> HIDE DEF q, w
    <3>3. [State EXCEPT !.queue = w, !.at[c] = "idle", !.work[c] = NoWork,
                        !.fresh = @ \ {c}] = record
      BY <3>1, <3>2, DropIs
    <3>4. r = record BY <3>1, IdleQueueIs
    <3>. QED BY <3>3, <3>4 DEF w
  <2>4. Become(r) BY <2>1, <2>3
  <2>5. /\ Sound(i, nextSeq)
        /\ i.queue = State.queue /\ i.parked = State.parked
        /\ i.fresh = State.fresh \ {c} /\ i.at[c] = "idle" /\ i.work[c] = NoWork
        /\ \A d \in Clients \ {c} : i.at[d] = State.at[d] /\ i.work[d] = State.work[d]
        /\ Exclusive(State) => Exclusive(i)
    <3>1. State.at[c] # "parked" BY <1>1, <1>2
    <3> HIDE DEF i
    <3>. QED BY <1>1, <3>1, IdleSound DEF i
  <2> HIDE DEF i
  <2>6. r = [i EXCEPT !.queue = Retain(i.queue, keep)] BY <2>5
  <2> HIDE DEF keep, q, r
  <2>7. /\ Sound(r, nextSeq)
        /\ r.queue = Retain(i.queue, keep)
        /\ r.at = i.at /\ r.work = i.work /\ r.fresh = i.fresh
        /\ NoExit(i.queue) => NoExit(r.queue)
        /\ Exclusive(i) => Exclusive(r)
        /\ HeldSeqs(r.queue) \subseteq HeldSeqs(i.queue)
        /\ Waiting(i) = {} => Waiting(r) = {}
    BY <2>5, <2>6, RetainSound
  <2>8. Waiting(State) = {} => Waiting(i) = {} BY <2>5 DEF Waiting
  <2>9. work[c].seq \notin Held(r)
    <3>1. State.queue \in Queues(1 .. MaxSeq, Queueable) BY <1>1, HandlerFields
    <3>2. \A k \in DOMAIN r.queue : \E j \in DOMAIN State.queue :
            j \in keep /\ r.queue[k] = State.queue[j]
      BY <2>5, <2>7, <3>1, RetainQueue
    <3>. QED BY <3>2 DEF Held, HeldSeqs, keep
  <2>10. Timed(State) => Timed(r)
    BY <1>1, <2>5, <2>7, <2>9 DEF Timed, Held
  <2>11. Flags' BY <1>1, <1>2, <2>1 DEF Flags
  <2>12. Sound(r, nextSeq') BY <1>2, <2>7
  <2>13. overlays' => NoExit(r.queue) BY <1>1, <1>2, <2>5, <2>7
  <2>14. QInv' /\ (Exclusive(r) => Exclusive(State)') /\ (Carries(r) => Promised)
    BY <1>1, <1>2, <2>1, <2>4, <2>7, <2>8, <2>10, <2>11, <2>12, <2>13, BecomeKeeps
  <2>15. ASSUME Exclusive(State), Empty(State) PROVE Carries(r)
    <3>1. Shifts(r) BY <2>5, <2>7, <2>15, StateFields, ShiftsFrom
    <3>2. State.queue \in Queues(1 .. MaxSeq, Queueable) BY <1>1, HandlerFields
    <3>3. /\ Requests(r.queue) \subseteq Requests(queue)
          /\ \A w \in Requests(queue) \ Requests(r.queue) :
               \E k \in DOMAIN queue : /\ k \notin keep
                                       /\ w.seq = queue[k].seq /\ w.event = queue[k].event
      BY <1>1, <2>5, <2>7, <3>2, RetainRequests
    <3>4. \A k \in DOMAIN queue : k \notin keep => queue[k].event = work[c].event
      BY <1>1, <2>15 DEF keep, Exclusive
    <3>5. Comes(r.queue) BY <1>2, <3>3 DEF Comes
    <3>8. work[c] # NoWork => GivesUp(r, work[c]) BY <2>5, <2>7 DEF GivesUp
    <3>9. \A k \in DOMAIN queue : k \notin keep => work[c] # NoWork
      <4>1. \A k \in DOMAIN queue : queue[k].seq \in 1 .. MaxSeq BY <1>1, <3>2, QueueEntries
      <4>2. NoWork.seq \notin 1 .. MaxSeq BY DEF NoWork
      <4>. QED BY <1>1, <4>1, <4>2 DEF keep
    <3>6. Goes(r) BY <3>3, <3>4, <3>8, <3>9 DEF Goes, GivesUp
    <3>7. Served(r, r) BY DEF Served, Passed
    <3>. QED BY <2>5, <2>7, <2>15, <3>1, <3>5, <3>6, <3>7 DEF Carries
  <2>. QED BY <2>5, <2>7, <2>14, <2>15 DEF Faithful
<1>. QED BY <1>3, <1>4

(***************************************************************************)
(* A handler that changes the queue, wakes who waits for what is free now, *)
(* and ends in schedule_lease_flush.                                       *)
(***************************************************************************)
LEMMA FlushKeeps ==
  ASSUME Flags, NEW st, Sound(st, nextSeq), Schedule(Flush(st)),
         nextSeq' = nextSeq, overlays' = overlays, exitTimer' = exitTimer, skew' = skew,
         faults' \in 0 .. MaxFaults, overlays => NoExit(st.queue)
  PROVE  QInv' /\ (Exclusive(st) => Exclusive(State)') /\ (Carries(st) => Promised)
<1> DEFINE r == Flush(st)
<1>1. r = Flush(st) /\ Schedule(r) OBVIOUS
<1> HIDE DEF r
<1>2. /\ Sound(r, nextSeq)
      /\ Exclusive(st) => Exclusive(r)
      /\ NoExit(st.queue) => NoExit(r.queue)
      /\ Served(st, r)
      /\ Waiting(r) = {}
  BY <1>1, FlushSound
<1>3. Flags' BY DEF Flags
<1>4. Sound(r, nextSeq') BY <1>2
<1>5. QInv' /\ (Exclusive(r) => Exclusive(State)') /\ (Carries(r) => Promised)
  BY <1>1, <1>2, <1>3, <1>4, ScheduleKeeps DEF Flags
<1>6. Carries(st) => Carries(r) BY <1>2, CarriesOn DEF Carries
<1>. QED BY <1>2, <1>5, <1>6

\* An answer takes the request it is about, and no other.
LEMMA AnsweredIs ==
  ASSUME ToldApart, NEW n, NEW st, Sound(st, n), NEW c \in Clients,
         NEW e, e = st.work[c].event, HasId(e),
         NEW r, r = Acknowledge(st.queue, e.id, e.type)
  PROVE  /\ Requests(r) \subseteq Requests(st.queue)
         /\ \A w \in Requests(st.queue) \ Requests(r) : w.event = e
<1> DEFINE matching == Matching(st.queue, e.id, e.type)
           first == First(matching)
           keep == {i \in DOMAIN st.queue : st.queue[i].seq \notin {st.queue[first].seq}}
<1>1. /\ st.queue \in Queues(1 .. MaxSeq, Queueable) /\ Numbered(st.queue)
      /\ st.work \in [Clients -> Works]
  BY HandlerFields DEF Sound
<1>2. CASE matching = {} BY <1>2 DEF Acknowledge
<1>3. CASE matching # {}
  <2>1. first \in matching
    <3>1. matching \subseteq Nat BY <1>1 DEF Matching, Queues
    <3> HIDE DEF matching
    <3>. QED BY <1>3, <3>1, FirstIsLeast
  <2>2. /\ first \in DOMAIN st.queue /\ HasId(st.queue[first].event)
        /\ st.queue[first].event.id = e.id
        /\ e.type = "any" \/ st.queue[first].event.type = e.type
    BY <2>1 DEF Matching
  <2>3. st.queue[first].event = e
    <3>1. st.queue[first].event \in Queueable BY <1>1, <2>2, QueueEntries
    <3>2. e \in Queueable \cup {NoWork.event} BY <1>1 DEF Works
    <3>3. ~HasId(Exit) /\ ~HasId(NoWork.event) BY DEF HasId, Exit, NoWork
    <3>4. st.queue[first].event \in Events /\ e \in Events
      BY <2>2, <3>1, <3>2, <3>3 DEF Queueable
    <3>. QED BY <2>2, <3>4 DEF ToldApart
  <2>4. r = Retain(st.queue, keep) BY <1>3 DEF Acknowledge, Without
  <2>5. \A i \in DOMAIN st.queue : i \notin keep => i = first
    BY <1>1, <2>2 DEF Numbered
  <2> HIDE DEF matching, first, keep
  <2>6. /\ Requests(r) \subseteq Requests(st.queue)
        /\ \A w \in Requests(st.queue) \ Requests(r) :
             \E i \in DOMAIN st.queue : /\ i \notin keep
                                      /\ w.seq = st.queue[i].seq /\ w.event = st.queue[i].event
    BY <1>1, <2>4, RetainRequests
  <2>. QED BY <2>3, <2>5, <2>6
<1>. QED BY <1>2, <1>3

LEMMA AnswerKeeps ==
  ASSUME QInv, NEW c \in Clients, Answer(c)
  PROVE  QInv' /\ (Exclusive(State) => Exclusive(State)') /\ Faithful
<1>1. /\ Sound(State, nextSeq) /\ Flags /\ 0 < nextSeq
      /\ State.at = at
      /\ overlays => NoExit(State.queue)
  BY QInvGives
<1> DEFINE e == work[c].event
           st == Idle(State, c)
           r == [st EXCEPT !.queue = Acknowledge(st.queue, e.id, e.type)]
<1>2. /\ at[c] = "working" /\ Schedule(Flush(r))
      /\ nextSeq' = nextSeq /\ overlays' = overlays /\ exitTimer' = exitTimer
      /\ faults' = faults /\ skew' = skew
  BY DEF Answer
<1>3. /\ Sound(st, nextSeq)
      /\ st.queue = State.queue
      /\ st.fresh = State.fresh \ {c} /\ st.at[c] = "idle" /\ st.work[c] = NoWork
      /\ \A d \in Clients \ {c} : st.at[d] = State.at[d] /\ st.work[d] = State.work[d]
      /\ Exclusive(State) => Exclusive(st)
  <2>1. State.at[c] # "parked" BY <1>1, <1>2
  <2>2. st = Idle(State, c) OBVIOUS
  <2> HIDE DEF st
  <2>. QED BY <1>1, <2>1, <2>2, IdleSound
<1> HIDE DEF e, st
<1>4. /\ Sound(r, nextSeq)
      /\ r.queue = Acknowledge(st.queue, e.id, e.type)
      /\ r.at = st.at /\ r.work = st.work /\ r.fresh = st.fresh
      /\ NoExit(st.queue) => NoExit(r.queue)
      /\ Exclusive(st) => Exclusive(r)
  <2> DEFINE matching == Matching(st.queue, e.id, e.type)
             gone == {st.queue[First(matching)].seq}
             keep == IF matching = {} THEN DOMAIN st.queue
                     ELSE {i \in DOMAIN st.queue : st.queue[i].seq \notin gone}
  <2>1. CASE matching = {}
    <3>1. st \in Handlers BY <1>3 DEF Sound
    <3>2. Acknowledge(st.queue, e.id, e.type) = st.queue BY <2>1 DEF Acknowledge
    <3>3. r = st BY <3>1, <3>2 DEF Handlers
    <3>. QED BY <1>3, <2>1, <3>2, <3>3
  <2>2. CASE matching # {}
    <3>1. Acknowledge(st.queue, e.id, e.type) = Retain(st.queue, keep)
      BY <2>2 DEF Acknowledge, Without
    <3>2. r = [st EXCEPT !.queue = Retain(st.queue, keep)] BY <3>1
    <3> HIDE DEF r, keep
    <3>. QED BY <1>3, <3>1, <3>2, RetainSound
  <2>. QED BY <2>1, <2>2
<1> HIDE DEF r
<1>5. faults' \in 0 .. MaxFaults BY <1>1, <1>2 DEF Flags
<1>6. overlays => NoExit(r.queue) BY <1>1, <1>3, <1>4
<1>7. QInv' /\ (Exclusive(r) => Exclusive(State)') /\ (Carries(r) => Promised)
  BY <1>1, <1>2, <1>4, <1>5, <1>6, FlushKeeps
<1>8. ASSUME ToldApart, Exclusive(State), Empty(State) PROVE Carries(r)
  <2>1. Shifts(r) BY <1>3, <1>4, <1>8, StateFields, ShiftsFrom
  <2>2. /\ HasId(e) /\ e = work[c].event
    BY <1>1, <1>2, <1>8, StateFields DEF Exclusive, e
  <2>3. /\ Requests(r.queue) \subseteq Requests(queue)
        /\ \A w \in Requests(queue) \ Requests(r.queue) : w.event = e
    BY <1>1, <1>3, <1>4, <1>8, <2>2, AnsweredIs, StateFields
  <2>4. Comes(r.queue) BY <1>2, <2>3 DEF Comes
  <2>5. Goes(r)
    <3>1. work[c] # NoWork BY <2>2 DEF NoWork, HasId
    <3>. QED BY <1>3, <1>4, <2>2, <2>3, <3>1 DEF Goes, GivesUp
  <2>6. Served(r, r) BY DEF Served, Passed
  <2>. QED BY <1>3, <1>4, <1>8, <2>1, <2>4, <2>5, <2>6 DEF Carries
<1>. QED BY <1>3, <1>4, <1>7, <1>8 DEF Faithful

(***************************************************************************)
(* An agent that stops working, and nothing else.                          *)
(***************************************************************************)
LEMMA IdleKeeps ==
  ASSUME QInv, Punctual, NEW c \in Clients, at[c] = "working", Become(Idle(State, c)),
         nextSeq' = nextSeq, timer' = timer, overlays' = overlays,
         exitTimer' = exitTimer, skew' = skew, faults < MaxFaults, faults' = faults + 1
  PROVE  QInv' /\ (Exclusive(State) => Exclusive(State)') /\ Faithful
<1>1. /\ Sound(State, nextSeq) /\ Flags /\ 0 < nextSeq
      /\ State.at = at
      /\ timer \in {"off", "armed", "due"}
      /\ ~skew => Waiting(State) = {}
      /\ overlays => NoExit(State.queue)
      /\ timer = "off" => Timed(State)
  BY QInvGives DEF Punctual
<1> DEFINE r == Idle(State, c)
<1>2. r = Idle(State, c) /\ Become(r) OBVIOUS
<1> HIDE DEF r
<1>3. /\ Sound(r, nextSeq)
      /\ r.queue = State.queue /\ r.parked = State.parked
      /\ r.fresh = State.fresh \ {c} /\ r.at[c] = "idle" /\ r.work[c] = NoWork
      /\ \A d \in Clients \ {c} : r.at[d] = State.at[d] /\ r.work[d] = State.work[d]
      /\ Exclusive(State) => Exclusive(r)
  BY <1>1, <1>2, IdleSound
<1>4. Waiting(State) = {} => Waiting(r) = {} BY <1>3 DEF Waiting
<1>5. Timed(State) => Timed(r)
  <2>1. State.at[c] # "leasing" BY <1>1
  <2>. QED BY <1>3, <2>1 DEF Timed, Held
<1>6. Flags' BY <1>1, EventQueueAssumption DEF Flags
<1>7. Sound(r, nextSeq') BY <1>3
<1>8. QInv' /\ (Exclusive(r) => Exclusive(State)') /\ (Carries(r) => Promised)
  BY <1>1, <1>2, <1>3, <1>4, <1>5, <1>6, <1>7, BecomeKeeps
<1>9. ASSUME Exclusive(State), Empty(State) PROVE Carries(r)
  <2>1. Shifts(r) BY <1>3, <1>9, StateFields, ShiftsFrom
  <2>2. Requests(r.queue) = Requests(queue) BY <1>3, StateFields
  <2>. QED BY <1>3, <1>9, <2>1, <2>2, CarriesSame
<1>. QED BY <1>3, <1>8, <1>9 DEF Faithful

LEMMA DieKeeps ==
  ASSUME QInv, Punctual, NEW c \in Clients, Die(c)
  PROVE  QInv' /\ (Exclusive(State) => Exclusive(State)') /\ Faithful
<1>1. /\ faults < MaxFaults /\ faults' = faults + 1
      /\ at[c] = "working" /\ Become(Idle(State, c))
      /\ nextSeq' = nextSeq /\ timer' = timer /\ overlays' = overlays
      /\ exitTimer' = exitTimer /\ skew' = skew
  BY DEF Die
<1>. QED BY <1>1, IdleKeeps

LEMMA LeaseTimerKeeps ==
  ASSUME QInv, LeaseTimer
  PROVE  QInv' /\ (Exclusive(State) => Exclusive(State)') /\ Faithful
<1>1. /\ Sound(State, nextSeq) /\ Flags
      /\ overlays => NoExit(State.queue)
  BY QInvGives
<1>2. /\ Schedule(Flush(State))
      /\ nextSeq' = nextSeq /\ overlays' = overlays /\ exitTimer' = exitTimer
      /\ faults' = faults /\ skew' = skew
  BY DEF LeaseTimer
<1>3. faults' \in 0 .. MaxFaults BY <1>1, <1>2 DEF Flags
<1>4. Exclusive(State) /\ Empty(State) => Carries(State) BY <1>2, StateCarries
<1>. QED BY <1>1, <1>2, <1>3, <1>4, FlushKeeps DEF Faithful

(***************************************************************************)
(* A lease ends only after the lease thread has timed it, so the timer is  *)
(* armed, and becomes due.                                                 *)
(***************************************************************************)
LEMMA LeaseEndsKeeps ==
  ASSUME QInv, NEW s \in 1 .. MaxSeq, LeaseEnds(s)
  PROVE  QInv' /\ (Exclusive(State) => Exclusive(State)') /\ Faithful
<1>1. /\ Sound(State, nextSeq) /\ Flags
      /\ State.queue = queue /\ State.at = at /\ State.work = work
      /\ timer \in {"off", "armed", "due"}
      /\ overlays => NoExit(State.queue)
      /\ timer = "off" => Timed(State)
  BY QInvGives
<1> DEFINE seqs == {s}
           r == Lapse(State, seqs)
<1>2. /\ s \in HeldSeqs(queue)
      /\ \A c \in Clients : at[c] = "leasing" => work[c].seq # s
      /\ Become(r)
      /\ timer' = IF timer = "armed" THEN "due" ELSE timer
      /\ nextSeq' = nextSeq /\ overlays' = overlays /\ exitTimer' = exitTimer
      /\ faults' = faults /\ skew' = skew
  BY DEF LeaseEnds
<1>3. r = Lapse(State, seqs) OBVIOUS
<1> HIDE DEF r, seqs
<1>4. timer' = "due" BY <1>1, <1>2 DEF Timed, Held
<1>5. /\ Sound(r, nextSeq)
      /\ Exclusive(State) => Exclusive(r)
      /\ NoExit(State.queue) => NoExit(r.queue)
      /\ r.at = State.at /\ r.work = State.work
  <2>1. Sound(State, nextSeq) BY <1>1
  <2>. QED BY <1>3, <2>1, LapseSound
<1>6. Flags' BY <1>1, <1>2 DEF Flags
<1>7. Sound(r, nextSeq') BY <1>2, <1>5
<1>8. QInv' /\ (Exclusive(r) => Exclusive(State)') /\ (Carries(r) => Promised)
  BY <1>1, <1>2, <1>4, <1>5, <1>6, <1>7, BecomeKeeps
<1>9. ASSUME Exclusive(State), Empty(State) PROVE Carries(r)
  <2>1. State \in Handlers BY <1>1 DEF Sound
  <2>2. /\ r.queue = SetLease(State.queue, seqs, "lapsed")
        /\ r.fresh \subseteq State.fresh
    BY <1>3, <2>1, LapseIs
  <2>3. Shifts(r) BY <1>5, <1>9, <2>2, StateFields, ShiftsFrom
  <2>4. /\ DOMAIN r.queue = DOMAIN State.queue
        /\ \A i \in DOMAIN State.queue : /\ r.queue[i].seq = State.queue[i].seq
                                          /\ r.queue[i].event = State.queue[i].event
    <3>1. State.queue \in Queues(1 .. MaxSeq, Queueable) BY <2>1, HandlerFields
    <3>. QED BY <2>2, <3>1, SetLeaseIs
  <2>5. Requests(r.queue) = Requests(queue) BY <1>1, <2>4, LeasesOnly
  <2>. QED BY <1>2, <1>5, <1>9, <2>3, <2>5, CarriesSame
<1>. QED BY <1>5, <1>8, <1>9 DEF Faithful

\* What a retry names is then the entry its agent was given.
LEMMA RetriedEntry ==
  ASSUME ToldApart, NEW n, NEW st, Sound(st, n), Exclusive(st), NEW c \in Clients,
         HasId(st.work[c].event), st.work[c].seq \in Seqs(st.queue),
         NEW e, e = st.work[c].event
  PROVE  /\ Matching(st.queue, e.id, e.type) # {}
         /\ st.queue[First(Matching(st.queue, e.id, e.type))].seq = st.work[c].seq
<1> DEFINE matching == Matching(st.queue, e.id, e.type)
<1>1. st.queue \in Queues(1 .. MaxSeq, Queueable) BY HandlerFields DEF Sound
<1>2. \A i \in DOMAIN st.queue : st.queue[i].event \in Queueable BY <1>1, QueueEntries
<1>3. ~HasId(Exit) BY DEF HasId, Exit
<1>4. PICK i \in DOMAIN st.queue : st.queue[i].seq = st.work[c].seq BY DEF Seqs
<1>5. st.queue[i].event = e BY <1>4 DEF Exclusive
<1>6. e \in Events BY <1>2, <1>3, <1>5 DEF Queueable
<1>7. i \in matching BY <1>5 DEF Matching
<1>8. ASSUME NEW j \in matching PROVE j = i
  <2>1. /\ j \in DOMAIN st.queue /\ HasId(st.queue[j].event)
        /\ st.queue[j].event.id = e.id
        /\ e.type = "any" \/ st.queue[j].event.type = e.type
    BY <1>8 DEF Matching
  <2>2. st.queue[j].event \in Events BY <1>2, <1>3, <2>1 DEF Queueable
  <2>3. st.queue[j].event = e BY <1>6, <2>1, <2>2 DEF ToldApart
  <2>4. SameRequest(st.queue[i].event, st.queue[j].event) BY <1>5, <2>3 DEF SameRequest
  <2>. QED BY <2>1, <2>4 DEF Exclusive, NoCopies
<1>9. matching \subseteq Nat BY <1>1 DEF Matching, Queues
<1> HIDE DEF matching
<1>10. First(matching) = i BY <1>7, <1>8, <1>9, FirstIsLeast
<1>. QED BY <1>4, <1>7, <1>10 DEF matching

LEMMA RetryKeeps ==
  ASSUME QInv, Punctual, NEW c \in Clients, Retry(c)
  PROVE  QInv' /\ (ToldApart /\ Exclusive(State) => Exclusive(State)') /\ Faithful
<1>1. /\ Sound(State, nextSeq) /\ Flags /\ 0 < nextSeq
      /\ State.queue = queue /\ State.at = at /\ State.work = work /\ State.fresh = fresh
      /\ overlays => NoExit(State.queue)
  BY QInvGives
<1> DEFINE e == work[c].event
           matching == Matching(queue, e.id, e.type)
           st == Idle(State, c)
           r == [st EXCEPT !.queue = Release(st.queue, e.id, e.type)]
<1>2. /\ at[c] = "working" /\ c \in fresh
      /\ work[c].seq \in Seqs(queue) \/ matching = {}
      /\ faults < MaxFaults /\ faults' = faults + 1
      /\ nextSeq' = nextSeq /\ overlays' = overlays /\ exitTimer' = exitTimer
      /\ skew' = skew
      /\ IF matching = {} THEN Become(Idle(State, c)) /\ UNCHANGED timer
         ELSE Schedule(Flush(r))
  BY DEF Retry
<1>3. CASE matching = {}
  <2>1. Become(Idle(State, c)) /\ timer' = timer BY <1>2, <1>3
  <2>. QED BY <1>2, <2>1, IdleKeeps
<1>4. CASE matching # {}
  <2>1. State.at[c] # "parked" BY <1>1, <1>2
  <2>2. st = Idle(State, c) OBVIOUS
  <2>3. Schedule(Flush(r)) BY <1>2, <1>4
  <2>4. work[c].seq \in Seqs(queue) BY <1>2, <1>4
  <2> DEFINE seqs == {st.queue[First(matching)].seq}
  <2> HIDE DEF st
  <2>5. /\ Sound(st, nextSeq)
        /\ st.queue = State.queue
        /\ st.fresh = State.fresh \ {c} /\ st.at[c] = "idle" /\ st.work[c] = NoWork
        /\ \A d \in Clients \ {c} : st.at[d] = State.at[d] /\ st.work[d] = State.work[d]
        /\ Exclusive(State) => Exclusive(st)
    BY <1>1, <2>1, <2>2, IdleSound
  <2>6. Release(st.queue, e.id, e.type) = SetLease(st.queue, seqs, "free")
    BY <1>1, <1>4, <2>5 DEF Release
  <2>7. r = [st EXCEPT !.queue = SetLease(st.queue, seqs, "free")] BY <2>6
  <2> HIDE DEF r, seqs
  <2>8. /\ Sound(r, nextSeq)
        /\ NoExit(st.queue) => NoExit(r.queue)
        /\ Exclusive(st) /\ (\A d \in st.fresh : st.work[d].seq \notin seqs) => Exclusive(r)
        /\ r.queue = SetLease(st.queue, seqs, "free")
        /\ r.at = st.at /\ r.work = st.work /\ r.fresh = st.fresh
    BY <2>5, <2>7, FreeSound
  <2>9. ASSUME ToldApart, Exclusive(State) PROVE Exclusive(r)
    <3>1. HasId(work[c].event) BY <1>1, <1>2, <2>9 DEF Exclusive
    <3>2. State.queue[First(matching)].seq = work[c].seq
      <4> DEFINE f == State.work[c].event
      <4>1. HasId(State.work[c].event) /\ State.work[c].seq \in Seqs(State.queue)
        BY <1>1, <2>4, <3>1
      <4>2. Sound(State, nextSeq) BY <1>1
      <4>3. f = State.work[c].event OBVIOUS
      <4> HIDE DEF f
      <4>4. State.queue[First(Matching(State.queue, f.id, f.type))].seq = State.work[c].seq
        BY <2>9, <4>1, <4>2, <4>3, RetriedEntry
      <4>. QED BY <1>1, <4>4 DEF f
    <3>3. seqs = {work[c].seq} BY <2>5, <3>2 DEF seqs
    <3>4. \A d \in st.fresh : st.work[d].seq # work[c].seq
      <4>1. State.fresh \subseteq Clients BY <1>1, HandlerFields DEF Sound
      <4>. QED BY <1>1, <1>2, <2>5, <2>9, <4>1 DEF Exclusive
    <3>. QED BY <2>5, <2>8, <2>9, <3>3, <3>4
  <2>10. faults' \in 0 .. MaxFaults BY <1>1, <1>2, EventQueueAssumption DEF Flags
  <2>11. overlays => NoExit(r.queue) BY <1>1, <2>5, <2>8
  <2>12. QInv' /\ (Exclusive(r) => Exclusive(State)') /\ (Carries(r) => Promised)
    BY <1>1, <1>2, <2>3, <2>8, <2>10, <2>11, FlushKeeps
  <2>13. ASSUME ToldApart, Exclusive(State), Empty(State) PROVE Carries(r)
    <3>1. Shifts(r) BY <2>5, <2>8, <2>13, StateFields, ShiftsFrom
    <3>2. /\ DOMAIN r.queue = DOMAIN st.queue
          /\ \A i \in DOMAIN st.queue : /\ r.queue[i].seq = st.queue[i].seq
                                         /\ r.queue[i].event = st.queue[i].event
      <4>1. st.queue \in Queues(1 .. MaxSeq, Queueable) BY <2>5, HandlerFields DEF Sound
      <4>. QED BY <2>8, <4>1, SetLeaseIs
    <3>3. Requests(r.queue) = Requests(queue) BY <1>1, <2>5, <3>2, LeasesOnly
    <3>. QED BY <1>2, <2>9, <2>13, <3>1, <3>3, CarriesSame
  <2>. QED BY <2>9, <2>12, <2>13 DEF Faithful
<1>. QED BY <1>3, <1>4

LEMMA ConnectKeeps ==
  ASSUME QInv, Punctual, Connect
  PROVE  QInv' /\ (Exclusive(State) => Exclusive(State)') /\ Faithful
<1>1. /\ Sound(State, nextSeq) /\ Flags
      /\ State.queue = queue /\ State \in Handlers
      /\ ~skew => Waiting(State) = {}
  BY QInvGives DEF Punctual
<1> DEFINE keep == {i \in DOMAIN queue : HasId(queue[i].event) \/ queue[i].event.type # "exit"}
           kept == CancelAnonymousExit(queue)
           r == [State EXCEPT !.queue = kept]
<1>2. /\ overlays' = TRUE /\ exitTimer' = FALSE
      /\ faults' = faults /\ skew' = skew
      /\ IF kept = queue THEN UNCHANGED queueVars ELSE Schedule(r) /\ UNCHANGED nextSeq
  BY DEF Connect
<1>3. kept = Retain(queue, keep) BY DEF CancelAnonymousExit
<1>4. queue \in Queues(1 .. MaxSeq, Queueable) BY <1>1, HandlerFields
<1>5. NoExit(kept)
  <2>1. \A k \in DOMAIN kept : \E i \in DOMAIN queue : i \in keep /\ kept[k] = queue[i]
    <3> HIDE DEF keep, kept
    <3>. QED BY <1>3, <1>4, RetainQueue
  <2>2. ~HasId(Exit) /\ Exit.type = "exit" BY DEF HasId, Exit
  <2> HIDE DEF kept
  <2>. QED BY <2>1, <2>2 DEF NoExit
<1>6. CASE kept = queue
  <2>1. UNCHANGED queueVars BY <1>2, <1>6
  <2>2. /\ queue' = queue /\ parked' = parked /\ at' = at /\ work' = work /\ fresh' = fresh
        /\ nextSeq' = nextSeq /\ timer' = timer
    BY <2>1 DEF queueVars
  <2>3. NoExit(queue) BY <1>5, <1>6
  <2>. QED BY <1>2, <2>2, <2>3, StutterKeeps
<1>7. CASE kept # queue
  <2>1. Schedule(r) /\ nextSeq' = nextSeq BY <1>2, <1>7
  <2>2. r = [State EXCEPT !.queue = Retain(State.queue, keep)]
    <3>1. State.queue = queue BY <1>1
    <3>2. kept = Retain(State.queue, keep) BY <1>3, <3>1
    <3> HIDE DEF kept, keep
    <3>. QED BY <3>2
  <2>3. Sound(State, nextSeq) BY <1>1
  <2>4. NoExit(r.queue) BY <1>1, <1>5 DEF Handlers
  <2>9. \A i \in DOMAIN queue : i \notin keep => ~HasId(queue[i].event) /\ queue[i].event.type = "exit"
    OBVIOUS
  <2> HIDE DEF r, keep
  <2>5. /\ Sound(r, nextSeq)
        /\ Exclusive(State) => Exclusive(r)
        /\ Waiting(State) = {} => Waiting(r) = {}
        /\ r.queue = Retain(State.queue, keep)
        /\ r.at = State.at /\ r.work = State.work /\ r.fresh = State.fresh
    BY <2>2, <2>3, RetainSound
  <2>6. Flags' BY <1>1, <1>2, <2>1 DEF Flags
  <2>7. Sound(r, nextSeq') BY <2>1, <2>5
  <2>8. QInv' /\ (Exclusive(r) => Exclusive(State)') /\ (Carries(r) => Promised)
    BY <1>1, <1>2, <2>1, <2>4, <2>5, <2>6, <2>7, ScheduleKeeps DEF Flags
  <2>10. ASSUME Exclusive(State), Empty(State) PROVE Carries(r)
    <3>1. Shifts(r) BY <2>5, <2>10, StateFields, ShiftsFrom
    <3>2. /\ Requests(r.queue) \subseteq Requests(queue)
          /\ \A w \in Requests(queue) \ Requests(r.queue) :
               \E i \in DOMAIN queue : /\ i \notin keep
                                       /\ w.seq = queue[i].seq /\ w.event = queue[i].event
      BY <1>1, <1>4, <2>5, RetainRequests
    <3>3. Comes(r.queue) BY <2>1, <3>2 DEF Comes
    <3>4. Goes(r) BY <2>9, <3>2 DEF Goes, CallsOff
    <3>5. Served(r, r) BY DEF Served, Passed
    <3>. QED BY <2>5, <2>10, <3>1, <3>3, <3>4, <3>5 DEF Carries
  <2>. QED BY <2>5, <2>8, <2>10 DEF Faithful
<1>. QED BY <1>6, <1>7

LEMMA DisconnectKeeps ==
  ASSUME QInv, Disconnect
  PROVE  QInv' /\ (Exclusive(State) => Exclusive(State)') /\ Faithful
<1>1. /\ overlays' = FALSE /\ exitTimer' = TRUE
      /\ faults' = faults /\ skew' = skew
      /\ queue' = queue /\ parked' = parked /\ at' = at /\ work' = work /\ fresh' = fresh
      /\ nextSeq' = nextSeq /\ timer' = timer
  BY DEF Disconnect, queueVars
<1>. QED BY <1>1, StutterKeeps
----------------------------------------------------------------------------
LEMMA InitHolds ==
  ASSUME Init
  PROVE  QInv /\ Exclusive(State) /\ Empty(State) /\ Promise!Init
<1>1. /\ queue = <<>> /\ nextSeq = 1 /\ parked = <<>> /\ timer = "off"
      /\ at = [c \in Clients |-> "idle"] /\ work = [c \in Clients |-> NoWork]
      /\ fresh = {} /\ overlays = TRUE /\ exitTimer = FALSE /\ faults = 0
      /\ skew \in BOOLEAN
  BY DEF Init
<1>2. Flags
  <2>1. nextSeq \in 1 .. MaxSeq + 1 /\ faults \in 0 .. MaxFaults
    BY <1>1, EventQueueAssumption
  <2>2. overlays \in BOOLEAN /\ exitTimer \in BOOLEAN /\ skew \in BOOLEAN BY <1>1
  <2>. QED BY <2>1, <2>2 DEF Flags
<1>3. NoWork \in Works /\ NoWork.seq = 0 BY EventQueueAssumption DEF Works, NoWork
<1>4. queue \in Queues(1 .. MaxSeq, Queueable) /\ parked \in Seq(Clients)
  BY <1>1, EmptySeq DEF Queues
<1>5. at \in [Clients -> Places] /\ work \in [Clients -> Works]
  BY <1>1, <1>3 DEF Places
<1>6. State \in Handlers BY <1>1, <1>4, <1>5 DEF Handlers, State
<1>7. DOMAIN queue = {} /\ DOMAIN parked = {} BY <1>1
<1>8. Sound(State, nextSeq)
  BY <1>1, <1>3, <1>6, <1>7, StateFields DEF Sound, Numbered
<1>9. Exclusive(State) BY <1>1, <1>7, StateFields DEF Exclusive, NoCopies
<1>10. LeasesAreTimed /\ NoLostWakeup /\ ExitOnlyWhenAlone
  BY <1>7 DEF LeasesAreTimed, NoLostWakeup, ExitOnlyWhenAlone, HeldSeqs
<1>11. Empty(State) BY <1>1, StateFields DEF Empty
<1>12. Requests(queue) = {} /\ HeldSeqs(queue) = {} BY <1>7 DEF Requests, HeldSeqs
<1>13. Promise!Init BY <1>1, <1>12 DEF Promise!Init
<1>. QED BY <1>1, <1>2, <1>8, <1>9, <1>10, <1>11, <1>13 DEF QInv, Typed

LEMMA NextKeeps ==
  ASSUME QInv, [Next]_vars
  PROVE  QInv' /\ (ToldApart /\ Exclusive(State) => Exclusive(State)') /\ Faithful
<1>1. CASE Punctual /\ \E e \in Events : Post(e) BY <1>1, PostKeeps
<1>2. ASSUME Punctual, NEW c \in Clients,
             Poll(c) \/ Deliver(c) \/ PollEnds(c) \/ Answer(c) \/ Retry(c) \/ Die(c)
      PROVE  QInv' /\ (ToldApart /\ Exclusive(State) => Exclusive(State)') /\ Faithful
  <2>1. CASE Poll(c) BY <1>2, <2>1, PollKeeps
  <2>2. CASE Deliver(c) BY <1>2, <2>2, DeliverKeeps
  <2>3. CASE PollEnds(c) BY <1>2, <2>3, PollEndsKeeps
  <2>4. CASE Answer(c) BY <2>4, AnswerKeeps
  <2>5. CASE Retry(c) BY <1>2, <2>5, RetryKeeps
  <2>6. CASE Die(c) BY <1>2, <2>6, DieKeeps
  <2>. QED BY <1>2, <2>1, <2>2, <2>3, <2>4, <2>5, <2>6
<1>3. CASE Punctual /\ (Connect \/ Disconnect \/ ExitTimer)
  BY <1>3, ConnectKeeps, DisconnectKeeps, ExitTimerKeeps
<1>4. CASE \E s \in 1 .. MaxSeq : LeaseEnds(s)
  <2>1. PICK s \in 1 .. MaxSeq : LeaseEnds(s) BY <1>4
  <2>. QED BY <2>1, LeaseEndsKeeps
<1>5. CASE LeaseTimer BY <1>5, LeaseTimerKeeps
<1>6. CASE UNCHANGED vars
  <2>1. /\ queue' = queue /\ parked' = parked /\ at' = at /\ work' = work /\ fresh' = fresh
        /\ nextSeq' = nextSeq /\ timer' = timer /\ faults' = faults /\ skew' = skew
        /\ overlays' = overlays /\ exitTimer' = exitTimer
    BY <1>6 DEF vars
  <2>2. Flags /\ State.queue = queue
    BY QInvGives
  <2>3. overlays => NoExit(queue) BY QInvGives
  <2>. QED BY <2>1, <2>2, <2>3, StutterKeeps DEF Flags
<1>. QED BY <1>1, <1>2, <1>3, <1>4, <1>5, <1>6 DEF Next

(***************************************************************************)
(* The queue is made of entries, the agents are where the code can put     *)
(* them, and only an agent that is given an event has a lease.             *)
(***************************************************************************)
THEOREM QueueTypes == Spec => []TypeOK
<1>1. QInv => TypeOK
  <2> SUFFICES ASSUME QInv PROVE TypeOK OBVIOUS
  <2>1. /\ Sound(State, nextSeq) /\ Flags /\ timer \in {"off", "armed", "due"}
        /\ State.queue = queue /\ State.parked = parked /\ State.at = at
        /\ State.work = work /\ State.fresh = fresh
        /\ State \in Handlers
    BY QInvGives
  <2>2. /\ queue \in Queues(1 .. MaxSeq, Queueable) /\ parked \in Seq(Clients)
        /\ at \in [Clients -> Places] /\ work \in [Clients -> Works] /\ fresh \subseteq Clients
    BY <2>1, HandlerFields
  <2>3. queue \in Seq(Entries) BY <2>2 DEF Queues, Entries, Queueable
  <2>4. work \in [Clients -> [seq : 0 .. MaxSeq, event : Events \cup {Exit, NoWork.event}]]
    <3>1. Works = [seq : 0 .. MaxSeq, event : Events \cup {Exit, NoWork.event}]
      BY DEF Works, Queueable
    <3>. QED BY <2>2, <3>1
  <2>5. fresh \subseteq {c \in Clients : at[c] \in {"leasing", "working"}}
    BY <2>1, <2>2 DEF Sound
  <2>. QED BY <2>1, <2>2, <2>3, <2>4, <2>5 DEF TypeOK, Flags, Places
<1>2. Init => QInv BY InitHolds
<1>3. QInv /\ [Next]_vars => QInv' BY NextKeeps
<1>. QED BY <1>1, <1>2, <1>3, PTL DEF Spec

(***************************************************************************)
(* Every lease that an agent may let lapse has the timer armed for it, or  *)
(* a lease thread that will arm it, whatever the interleaving.             *)
(***************************************************************************)
THEOREM QueueLeasesAreTimed == Spec => []LeasesAreTimed
<1>1. QInv => LeasesAreTimed BY DEF QInv
<1>2. Init => QInv BY InitHolds
<1>3. QInv /\ [Next]_vars => QInv' BY NextKeeps
<1>. QED BY <1>1, <1>2, <1>3, PTL DEF Spec

(***************************************************************************)
(* flush_pending_polls and schedule_lease_flush lose no wake-up: when time *)
(* does not slip, no poll stays parked beside a free event it wants.       *)
(***************************************************************************)
THEOREM QueueLosesNoWakeup == Spec => []NoLostWakeup
<1>1. QInv => NoLostWakeup BY DEF QInv
<1>2. Init => QInv BY InitHolds
<1>3. QInv /\ [Next]_vars => QInv' BY NextKeeps
<1>. QED BY <1>1, <1>2, <1>3, PTL DEF Spec

(***************************************************************************)
(* While an overlay is connected no exit of the exit timer's is queued,    *)
(* also when it reconnects as the timer fires; one that an overlay posted  *)
(* may be, with the prefetches, and is no such exit.                       *)
(***************************************************************************)
THEOREM QueueExitsWhenAlone == Spec => []ExitOnlyWhenAlone
<1>1. QInv => ExitOnlyWhenAlone BY DEF QInv
<1>2. Init => QInv BY InitHolds
<1>3. QInv /\ [Next]_vars => QInv' BY NextKeeps
<1>. QED BY <1>1, <1>2, <1>3, PTL DEF Spec

(***************************************************************************)
(* No two agents hold an unexpired lease on the same event, whatever the   *)
(* order of polls, lease threads, expiries and answers, when an answer's   *)
(* session and type name one event.                                        *)
(***************************************************************************)
THEOREM QueueHasOneHolder == ASSUME ToldApart PROVE Spec => []OneHolder
<1> DEFINE Inv == QInv /\ Exclusive(State)
<1>1. Inv => OneHolder
  <2> SUFFICES ASSUME Inv PROVE OneHolder OBVIOUS
  <2>1. State.queue = queue /\ State.work = work /\ State.fresh = fresh
        /\ fresh \subseteq Clients
    BY QInvGives, HandlerFields
  <2>2. \A c, d \in fresh : c # d => work[c].seq # work[d].seq BY <2>1 DEF Exclusive
  <2>3. \A c \in fresh : work[c].seq \in Seqs(queue) => work[c].seq \in HeldSeqs(queue)
    BY <2>1 DEF Exclusive, Seqs, HeldSeqs
  <2>. QED BY <2>2, <2>3 DEF OneHolder
<1>2. Init => Inv BY InitHolds
<1>3. Inv /\ [Next]_vars => Inv' BY NextKeeps
<1>. QED BY <1>1, <1>2, <1>3, PTL DEF Spec

(***************************************************************************)
(* The queue keeps Delivery's promise, for any agents, filters and events  *)
(* when an answer's session and type name one event: every handler, with   *)
(* all it wakes, is one step of Delivery or leaves the promise as it is.   *)
(***************************************************************************)
THEOREM QueueKeepsPromise == ASSUME ToldApart PROVE Spec => DeliversAsPromised
<1> DEFINE Inv == QInv /\ Exclusive(State) /\ Empty(State)
<1>1. Init => Inv /\ Promise!Init BY InitHolds
<1>2. Inv /\ [Next]_vars => Inv' /\ [Promise!Next]_(Promise!vars)
  <2> SUFFICES ASSUME Inv, [Next]_vars PROVE Inv' /\ Promise!Next OBVIOUS
  <2>. QED BY NextKeeps DEF Faithful, Promised
<1> HIDE DEF Inv
<1>. QED BY <1>1, <1>2, PTL DEF Spec, DeliversAsPromised, Promise!Spec
=============================================================================
