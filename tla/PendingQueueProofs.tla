------------------------- MODULE PendingQueueProofs -------------------------
(***************************************************************************)
(* What the operators of PendingQueue return, for queues of any length.    *)
(*                                                                         *)
(* Induction needs an operator for its hypothesis, which no prover here    *)
(* instantiates; the least counterexample of a set of naturals does not.   *)
(***************************************************************************)
EXTENDS PendingQueue, Integers, WellFoundedInduction, SequenceTheorems, TLAPS

Less == {ss \in Nat \X Nat : ss[1] < ss[2]}

LEMMA LessIsWellFounded == IsWellFoundedOn(Less, Nat)
<1>1. OpToRel(<, Nat) = Less BY DEF OpToRel, Less
<1>. QED BY <1>1, NatLessThanWellFounded

(***************************************************************************)
(* A set of naturals that is not empty has a least element.                *)
(***************************************************************************)
LEMMA LeastNatural ==
  ASSUME NEW T, T \subseteq Nat, T # {}
  PROVE  \E x \in T : \A y \in T : x <= y
<1>1. PICK x \in T : \A y \in T : <<y, x>> \notin Less
  BY LessIsWellFounded, WFMin
<1>2. ASSUME NEW y \in T PROVE x <= y
  <2>1. x \in Nat /\ y \in Nat OBVIOUS
  <2>2. SUFFICES ASSUME y < x PROVE FALSE BY <2>1
  <2>3. <<y, x>> \in Less BY <2>1, <2>2 DEF Less
  <2>. QED BY <1>1, <2>3
<1>. QED BY <1>2

(***************************************************************************)
(* A property of 0 and of every successor in 0 .. n holds up to n: good    *)
(* is the set of the numbers that have it.                                 *)
(***************************************************************************)
LEMMA UpTo ==
  ASSUME NEW n \in Nat, NEW good,
         0 \in good,
         \A m \in 1 .. n : m - 1 \in good => m \in good
  PROVE  \A m \in 0 .. n : m \in good
<1> DEFINE bad == {m \in 0 .. n : m \notin good}
<1>1. SUFFICES ASSUME bad # {} PROVE FALSE OBVIOUS
<1>2. bad \subseteq Nat OBVIOUS
<1>3. PICK x \in bad : \A y \in bad : x <= y BY <1>1, <1>2, LeastNatural
<1>4. x \in 1 .. n BY <1>3
<1>5. x - 1 \in good BY <1>3, <1>4
<1>. QED BY <1>3, <1>4, <1>5

LEMMA FirstIsLeast ==
  ASSUME NEW I, I \subseteq Nat, I # {}
  PROVE  First(I) \in I /\ \A i \in I : First(I) <= i
BY LeastNatural DEF First

----------------------------------------------------------------------------
(***************************************************************************)
(* The recursion of Retain, step by step.                                  *)
(***************************************************************************)
RetainTo(q, keep, m, f) ==
  f = [i \in 0 .. m |->
        IF i = 0 THEN <<>>
        ELSE IF i \in keep THEN Append(f[i - 1], q[i]) ELSE f[i - 1]]

LEMMA RetainExists ==
  ASSUME NEW q, NEW keep, NEW n \in Nat
  PROVE  \E f : RetainTo(q, keep, n, f)
<1> DEFINE good == {m \in 0 .. n : \E f : RetainTo(q, keep, m, f)}
<1>1. 0 \in good
  <2>1. RetainTo(q, keep, 0, [i \in 0 .. 0 |-> <<>>]) BY DEF RetainTo
  <2>. QED BY <2>1
<1>2. ASSUME NEW m \in 1 .. n, m - 1 \in good PROVE m \in good
  <2>1. PICK g : RetainTo(q, keep, m - 1, g) BY <1>2
  <2> DEFINE f == [i \in 0 .. m |->
        IF i = m THEN IF m \in keep THEN Append(g[m - 1], q[m]) ELSE g[m - 1]
        ELSE g[i]]
  <2>2. \A i \in 0 .. m - 1 : f[i] = g[i] OBVIOUS
  <2>3. \A i \in 0 .. m - 1 :
          g[i] = IF i = 0 THEN <<>>
                 ELSE IF i \in keep THEN Append(g[i - 1], q[i]) ELSE g[i - 1]
    BY <2>1 DEF RetainTo
  <2>4. ASSUME NEW i \in 0 .. m
        PROVE  f[i] = IF i = 0 THEN <<>>
                      ELSE IF i \in keep THEN Append(f[i - 1], q[i]) ELSE f[i - 1]
    <3>1. CASE i = m BY <3>1, <2>2
    <3>2. CASE i # m
      <4>1. i \in 0 .. m - 1 /\ (i # 0 => i - 1 \in 0 .. m - 1) BY <3>2
      <4>. QED BY <4>1, <2>2, <2>3
    <3>. QED BY <3>1, <3>2
  <2>5. RetainTo(q, keep, m, f) BY <2>4 DEF RetainTo
  <2>. QED BY <2>5
<1> HIDE DEF good
<1>3. n \in good BY <1>1, <1>2, UpTo
<1>. QED BY <1>3 DEF good

LEMMA RetainSteps ==
  ASSUME NEW q, NEW keep, Len(q) \in Nat
  PROVE  \E f : /\ Retain(q, keep) = f[Len(q)]
                /\ f[0] = <<>>
                /\ \A i \in 1 .. Len(q) :
                     f[i] = IF i \in keep THEN Append(f[i - 1], q[i]) ELSE f[i - 1]
<1> DEFINE f == CHOOSE g : RetainTo(q, keep, Len(q), g)
<1>1. RetainTo(q, keep, Len(q), f) BY RetainExists
<1>2. Retain(q, keep) = f[Len(q)] BY Zenon DEF Retain, RetainTo
<1> HIDE DEF f
<1>3. f[0] = <<>> BY <1>1 DEF RetainTo
<1>4. ASSUME NEW i \in 1 .. Len(q)
      PROVE  f[i] = IF i \in keep THEN Append(f[i - 1], q[i]) ELSE f[i - 1]
  <2>1. i \in 0 .. Len(q) /\ i # 0 OBVIOUS
  <2>2. f[i] = IF i = 0 THEN <<>>
               ELSE IF i \in keep THEN Append(f[i - 1], q[i]) ELSE f[i - 1]
    BY <1>1, <2>1, Zenon DEF RetainTo
  <2>. QED BY <2>1, <2>2, Zenon
<1>. QED BY <1>2, <1>3, <1>4

(***************************************************************************)
(* r is what q has at the places of keep up to m, in q's order: its k-th   *)
(* entry is q's entry at place[k].                                         *)
(***************************************************************************)
Picks(q, keep, m, r, place) ==
  /\ place \in [1 .. Len(r) -> 1 .. m]
  /\ \A k \in 1 .. Len(r) : place[k] \in keep /\ r[k] = q[place[k]]
  /\ \A k, l \in 1 .. Len(r) : k < l => place[k] < place[l]
  /\ \A i \in 1 .. m : i \in keep => \E k \in 1 .. Len(r) : place[k] = i
  /\ Len(r) <= m
  /\ \A i \in 1 .. m : i \notin keep => Len(r) < m

LEMMA PicksNext ==
  ASSUME NEW T, NEW q \in Seq(T), NEW keep, NEW m \in 1 .. Len(q),
         NEW r \in Seq(T), NEW place, Picks(q, keep, m - 1, r, place)
  PROVE  \/ m \in keep /\ \E at : Picks(q, keep, m, Append(r, q[m]), at)
         \/ m \notin keep /\ \E at : Picks(q, keep, m, r, at)
<1>0. Len(r) \in Nat /\ q[m] \in T OBVIOUS
<1>1. CASE m \notin keep
  <2>1. Picks(q, keep, m, r, place) BY <1>0, <1>1 DEF Picks
  <2>. QED BY <1>1, <2>1
<1>2. CASE m \in keep
  <2> DEFINE s == Append(r, q[m])
             at == [k \in 1 .. Len(s) |-> IF k = Len(s) THEN m ELSE place[k]]
  <2>1. /\ Len(s) = Len(r) + 1 /\ s[Len(s)] = q[m]
        /\ \A k \in 1 .. Len(r) : s[k] = r[k]
    BY <1>0
  <2>2. at \in [1 .. Len(s) -> 1 .. m] BY <1>0, <2>1 DEF Picks
  <2>3. \A k \in 1 .. Len(s) : at[k] \in keep /\ s[k] = q[at[k]]
    BY <1>0, <1>2, <2>1 DEF Picks
  <2>4. \A k, l \in 1 .. Len(s) : k < l => at[k] < at[l]
    BY <1>0, <2>1 DEF Picks
  <2>5. ASSUME NEW i \in 1 .. m, i \in keep
        PROVE  \E k \in 1 .. Len(s) : at[k] = i
    <3>1. CASE i = m BY <3>1, <1>0, <2>1
    <3>2. CASE i # m
      <4>1. PICK k \in 1 .. Len(r) : place[k] = i BY <2>5, <3>2 DEF Picks
      <4>2. k \in 1 .. Len(s) /\ at[k] = i BY <4>1, <1>0, <2>1
      <4>. QED BY <4>2
    <3>. QED BY <3>1, <3>2
  <2>6. Len(s) <= m /\ \A i \in 1 .. m : i \notin keep => Len(s) < m
    BY <1>0, <1>2, <2>1 DEF Picks
  <2>7. Picks(q, keep, m, s, at)
    BY <2>2, <2>3, <2>4, <2>5, <2>6 DEF Picks
  <2>. QED BY <1>2, <2>7
<1>. QED BY <1>1, <1>2

LEMMA RetainPicks ==
  ASSUME NEW T, NEW q \in Seq(T), NEW keep
  PROVE  /\ Retain(q, keep) \in Seq(T)
         /\ \E place : Picks(q, keep, Len(q), Retain(q, keep), place)
<1>0. Len(q) \in Nat OBVIOUS
<1>1. PICK f : /\ Retain(q, keep) = f[Len(q)]
               /\ f[0] = <<>>
               /\ \A i \in 1 .. Len(q) :
                    f[i] = IF i \in keep THEN Append(f[i - 1], q[i]) ELSE f[i - 1]
  BY <1>0, RetainSteps
<1> DEFINE good == {m \in 0 .. Len(q) :
                      f[m] \in Seq(T) /\ \E place : Picks(q, keep, m, f[m], place)}
<1>2. 0 \in good
  <2>1. Picks(q, keep, 0, <<>>, [k \in 1 .. 0 |-> 0]) BY DEF Picks
  <2>2. f[0] \in Seq(T) BY <1>1, EmptySeq
  <2>3. \E place : Picks(q, keep, 0, f[0], place) BY <1>1, <2>1
  <2>. QED BY <1>0, <2>2, <2>3
<1>3. ASSUME NEW m \in 1 .. Len(q), m - 1 \in good PROVE m \in good
  <2>1. f[m - 1] \in Seq(T) /\ \E p : Picks(q, keep, m - 1, f[m - 1], p) BY <1>3
  <2>2. f[m] = IF m \in keep THEN Append(f[m - 1], q[m]) ELSE f[m - 1] BY <1>1
  <2>3. PICK p : Picks(q, keep, m - 1, f[m - 1], p) BY <2>1
  <2>4. \/ m \in keep /\ \E at : Picks(q, keep, m, Append(f[m - 1], q[m]), at)
        \/ m \notin keep /\ \E at : Picks(q, keep, m, f[m - 1], at)
    BY <2>1, <2>3, PicksNext
  <2>5. f[m] \in Seq(T) BY <2>1, <2>2
  <2>6. \E at : Picks(q, keep, m, f[m], at) BY <2>2, <2>4
  <2>. QED BY <1>0, <2>5, <2>6
<1> HIDE DEF good
<1>4. \A m \in 0 .. Len(q) : m \in good BY <1>0, <1>2, <1>3, UpTo
<1>5. Len(q) \in good BY <1>0, <1>4
<1>. QED BY <1>1, <1>5 DEF good
(***************************************************************************)
(* Retain returns entries of q only, every one at a place to keep, no      *)
(* place twice; it is shorter than q when a place is dropped.              *)
(***************************************************************************)
LEMMA RetainIs ==
  ASSUME NEW T, NEW q \in Seq(T), NEW keep, NEW r, r = Retain(q, keep)
  PROVE  /\ r \in Seq(T)
         /\ Len(r) <= Len(q)
         /\ \A k \in DOMAIN r : \E i \in DOMAIN q : i \in keep /\ r[k] = q[i]
         /\ \A i \in DOMAIN q : i \in keep => \E k \in DOMAIN r : r[k] = q[i]
         /\ \A k, l \in DOMAIN r : k # l =>
              \E i, j \in DOMAIN q : i # j /\ r[k] = q[i] /\ r[l] = q[j]
         /\ \A i \in DOMAIN q : i \notin keep => Len(r) < Len(q)
<1>1. r \in Seq(T) /\ \E place : Picks(q, keep, Len(q), r, place) BY RetainPicks
<1>2. PICK place : Picks(q, keep, Len(q), r, place) BY <1>1
<1>3. DOMAIN r = 1 .. Len(r) /\ DOMAIN q = 1 .. Len(q) /\ Len(r) \in Nat BY <1>1
<1>4. \A k, l \in DOMAIN r : k # l =>
        \E i, j \in DOMAIN q : i # j /\ r[k] = q[i] /\ r[l] = q[j]
  <2> SUFFICES ASSUME NEW k \in DOMAIN r, NEW l \in DOMAIN r, k # l
               PROVE  \E i, j \in DOMAIN q : i # j /\ r[k] = q[i] /\ r[l] = q[j]
    OBVIOUS
  <2>1. place[k] \in DOMAIN q /\ place[l] \in DOMAIN q BY <1>2, <1>3 DEF Picks
  <2>2. place[k] # place[l] BY <1>2, <1>3, <2>1 DEF Picks
  <2>3. r[k] = q[place[k]] /\ r[l] = q[place[l]] BY <1>2, <1>3 DEF Picks
  <2>. QED BY <2>1, <2>2, <2>3
<1>5. \A k \in DOMAIN r : \E i \in DOMAIN q : i \in keep /\ r[k] = q[i]
  BY <1>2, <1>3 DEF Picks
<1>6. \A i \in DOMAIN q : i \in keep => \E k \in DOMAIN r : r[k] = q[i]
  <2> SUFFICES ASSUME NEW i \in DOMAIN q, i \in keep
               PROVE  \E k \in DOMAIN r : r[k] = q[i]
    OBVIOUS
  <2>1. PICK k \in 1 .. Len(r) : place[k] = i BY <1>2, <1>3 DEF Picks
  <2>2. r[k] = q[i] BY <1>2, <2>1 DEF Picks
  <2>. QED BY <1>3, <2>2
<1>7. Len(r) <= Len(q) /\ \A i \in DOMAIN q : i \notin keep => Len(r) < Len(q)
  BY <1>2, <1>3 DEF Picks
<1>. QED BY <1>1, <1>4, <1>5, <1>6, <1>7

----------------------------------------------------------------------------
(***************************************************************************)
(* Queues of entries whose numbers are in N and whose events are in E.     *)
(***************************************************************************)
Queues(N, E) == Seq([seq : N, event : E, lease : {"free", "held", "lapsed"}])

\* No two entries have the same number; none is a copy of another.
Numbered(q) == \A i, j \in DOMAIN q : q[i].seq = q[j].seq => i = j
NoCopies(q) == \A i, j \in DOMAIN q : SameRequest(q[i].event, q[j].event) => i = j

LEMMA QueueEntries ==
  ASSUME NEW N, NEW E, NEW q \in Queues(N, E)
  PROVE  \A i \in DOMAIN q :
           q[i] \in [seq : N, event : E, lease : {"free", "held", "lapsed"}]
<1>1. DOMAIN q = 1 .. Len(q) BY DEF Queues
<1>. QED BY <1>1, ElementOfSeq DEF Queues

LEMMA SetLeaseIs ==
  ASSUME NEW N, NEW E, NEW q \in Queues(N, E), NEW seqs,
         NEW l \in {"free", "held", "lapsed"}, NEW r, r = SetLease(q, seqs, l)
  PROVE  /\ r \in Queues(N, E)
         /\ DOMAIN r = DOMAIN q /\ Len(r) = Len(q)
         /\ \A i \in DOMAIN q : /\ r[i].seq = q[i].seq /\ r[i].event = q[i].event
                                /\ r[i].lease = IF q[i].seq \in seqs THEN l ELSE q[i].lease
<1>1. DOMAIN q = 1 .. Len(q) /\ Len(q) \in Nat BY DEF Queues
<1>2. \A i \in DOMAIN q : q[i] \in [seq : N, event : E, lease : {"free", "held", "lapsed"}]
  BY QueueEntries
<1>3. \A i \in DOMAIN q :
        r[i] = IF q[i].seq \in seqs THEN [q[i] EXCEPT !.lease = l] ELSE q[i]
  BY DEF SetLease
<1>4. DOMAIN r = DOMAIN q BY DEF SetLease
<1>5. \A i \in DOMAIN q : r[i] \in [seq : N, event : E, lease : {"free", "held", "lapsed"}]
  BY <1>2, <1>3
<1>6. r \in Queues(N, E) BY <1>1, <1>5 DEF Queues, SetLease
<1>7. Len(r) = Len(q) BY <1>1, <1>4, <1>6 DEF Queues
<1>8. \A i \in DOMAIN q : /\ r[i].seq = q[i].seq /\ r[i].event = q[i].event
                          /\ r[i].lease = IF q[i].seq \in seqs THEN l ELSE q[i].lease
  BY <1>2, <1>3
<1>. QED BY <1>4, <1>6, <1>7, <1>8

LEMMA PriorityIsNatural == \A e : Priority(e) \in Nat
BY DEF Priority

(***************************************************************************)
(* When an entry can be leased, Selected is one: of the candidates of the  *)
(* most urgent kind, the oldest precedes every other.                      *)
(***************************************************************************)
LEMMA SelectedIsCandidate ==
  ASSUME NEW q, NEW filter, Numbered(q),
         \A i \in DOMAIN q : q[i].seq \in Nat,
         Candidates(q, filter) # {}
  PROVE  /\ Selected(q, filter) \in Candidates(q, filter)
         /\ \A j \in Candidates(q, filter) :
              Selected(q, filter) # j => Precedes(q[Selected(q, filter)], q[j])
<1> DEFINE C == Candidates(q, filter)
           prio(i) == Priority(q[i].event)
           prios == {prio(i) : i \in C}
<1>0. C \subseteq DOMAIN q BY DEF Candidates
<1>1. PICK p \in prios : \A o \in prios : p <= o
  <2>1. prios \subseteq Nat /\ prios # {} BY PriorityIsNatural
  <2> HIDE DEF prios
  <2>. QED BY <2>1, LeastNatural
<1> DEFINE seqs == {q[i].seq : i \in {j \in C : prio(j) = p}}
<1>2. PICK s \in seqs : \A o \in seqs : s <= o
  <2>1. seqs \subseteq Nat /\ seqs # {} BY <1>0, <1>1
  <2> HIDE DEF seqs
  <2>. QED BY <2>1, LeastNatural
<1>3. PICK i \in C : prio(i) = p /\ q[i].seq = s BY <1>2
<1>4. ASSUME NEW j \in C, i # j PROVE Precedes(q[i], q[j])
  <2>1. prio(i) \in Nat /\ prio(j) \in Nat BY PriorityIsNatural
  <2>2. prio(i) <= prio(j) BY <1>1, <1>3
  <2>3. q[i].seq \in Nat /\ q[j].seq \in Nat /\ q[i].seq # q[j].seq
    BY <1>0, <1>4 DEF Numbered
  <2>4. CASE prio(i) = prio(j)
    <3>1. q[i].seq <= q[j].seq BY <1>2, <1>3, <2>4
    <3>. QED BY <2>3, <2>4, <3>1 DEF Precedes
  <2>5. CASE prio(i) # prio(j)
    <3>1. prio(i) < prio(j) BY <2>1, <2>2, <2>5
    <3>. QED BY <3>1 DEF Precedes
  <2>. QED BY <2>4, <2>5
<1>. QED BY <1>3, <1>4, Zenon DEF Selected
----------------------------------------------------------------------------
(***************************************************************************)
(* What a queue keeps when entries leave it: numbers, no copies, and what  *)
(* is held of what stays; no filter finds what it did not find.            *)
(***************************************************************************)
LEMMA RetainQueue ==
  ASSUME NEW N, NEW E, NEW q \in Queues(N, E), NEW keep, NEW r, r = Retain(q, keep)
  PROVE  /\ r \in Queues(N, E)
         /\ \A k \in DOMAIN r : \E i \in DOMAIN q : i \in keep /\ r[k] = q[i]
         /\ Numbered(q) => Numbered(r)
         /\ NoCopies(q) => NoCopies(r)
         /\ HeldSeqs(r) \subseteq HeldSeqs(q)
         /\ \A filter : Candidates(q, filter) = {} => Candidates(r, filter) = {}
<1>1. /\ r \in Queues(N, E)
      /\ \A k \in DOMAIN r : \E i \in DOMAIN q : i \in keep /\ r[k] = q[i]
      /\ \A k, l \in DOMAIN r : k # l =>
           \E i, j \in DOMAIN q : i # j /\ r[k] = q[i] /\ r[l] = q[j]
  BY RetainIs DEF Queues
<1>2. Numbered(q) => Numbered(r) BY <1>1 DEF Numbered
<1>3. NoCopies(q) => NoCopies(r) BY <1>1 DEF NoCopies
<1>4. HeldSeqs(r) \subseteq HeldSeqs(q) BY <1>1 DEF HeldSeqs
<1>5. ASSUME NEW filter, Candidates(q, filter) = {}, NEW k \in Candidates(r, filter)
      PROVE  FALSE
  <2>1. PICK i \in DOMAIN q : r[k] = q[i] BY <1>1, <1>5 DEF Candidates
  <2>2. i \in Candidates(q, filter) BY <1>5, <2>1 DEF Candidates
  <2>. QED BY <1>5, <2>2
<1>. QED BY <1>1, <1>2, <1>3, <1>4, <1>5

(***************************************************************************)
(* Leases come and go; the entries stay what they are.                     *)
(***************************************************************************)
LEMMA SetLeaseQueue ==
  ASSUME NEW N, NEW E, NEW q \in Queues(N, E), NEW seqs,
         NEW l \in {"free", "held", "lapsed"}, NEW r, r = SetLease(q, seqs, l)
  PROVE  /\ r \in Queues(N, E)
         /\ Numbered(q) => Numbered(r)
         /\ NoCopies(q) => NoCopies(r)
         /\ l = "held" => /\ HeldSeqs(r) \subseteq HeldSeqs(q) \cup seqs
                          /\ \A filter : Candidates(r, filter) \subseteq Candidates(q, filter)
         /\ l # "held" => HeldSeqs(r) = HeldSeqs(q) \ seqs
<1>1. /\ r \in Queues(N, E)
      /\ DOMAIN r = DOMAIN q
      /\ \A i \in DOMAIN q : /\ r[i].seq = q[i].seq /\ r[i].event = q[i].event
                             /\ r[i].lease = IF q[i].seq \in seqs THEN l ELSE q[i].lease
  BY SetLeaseIs
<1>2. Numbered(q) => Numbered(r) BY <1>1 DEF Numbered
<1>3. NoCopies(q) => NoCopies(r)
  <2> SUFFICES ASSUME NoCopies(q), NEW i \in DOMAIN r, NEW j \in DOMAIN r,
                      SameRequest(r[i].event, r[j].event)
               PROVE  i = j
    BY DEF NoCopies
  <2>1. SameRequest(q[i].event, q[j].event) BY <1>1
  <2>. QED BY <1>1, <2>1 DEF NoCopies
<1>4. ASSUME l = "held" PROVE HeldSeqs(r) \subseteq HeldSeqs(q) \cup seqs
  BY <1>1, <1>4 DEF HeldSeqs
<1>5. ASSUME l = "held", NEW filter
      PROVE  Candidates(r, filter) \subseteq Candidates(q, filter)
  <2> SUFFICES ASSUME NEW i \in Candidates(r, filter) PROVE i \in Candidates(q, filter)
    OBVIOUS
  <2>1. i \in DOMAIN q /\ r[i].lease # "held" /\ Wants(filter, r[i].event)
    BY <1>1 DEF Candidates
  <2>2. q[i].lease # "held" /\ Wants(filter, q[i].event)
    <3>1. r[i].event = q[i].event BY <1>1, <2>1
    <3>2. Wants(filter, q[i].event) BY <2>1, <3>1
    <3>3. q[i].lease # "held" BY <1>1, <1>5, <2>1
    <3>. QED BY <3>2, <3>3
  <2>. QED BY <2>1, <2>2 DEF Candidates
<1>6. ASSUME l # "held" PROVE HeldSeqs(r) = HeldSeqs(q) \ seqs
  <2>1. HeldSeqs(r) \subseteq HeldSeqs(q) \ seqs BY <1>1, <1>6 DEF HeldSeqs
  <2>2. HeldSeqs(q) \ seqs \subseteq HeldSeqs(r) BY <1>1, <1>6 DEF HeldSeqs
  <2>. QED BY <2>1, <2>2
<1>. QED BY <1>1, <1>2, <1>3, <1>4, <1>5, <1>6

LEMMA SameRequestIsSymmetric ==
  ASSUME NEW e, NEW f, SameRequest(e, f)
  PROVE  SameRequest(f, e)
BY Zenon DEF SameRequest

(***************************************************************************)
(* An event joins the queue free, with a number of its own, unless a copy  *)
(* of it is queued.                                                        *)
(***************************************************************************)
LEMMA EnqueueQueue ==
  ASSUME NEW N, NEW E, NEW q \in Queues(N, E), NEW e \in E, NEW s \in N,
         s \notin Seqs(q), NEW r, r = Enqueue(q, e, s)
  PROVE  /\ r \in Queues(N, E)
         /\ \A k \in DOMAIN r : \/ k \in DOMAIN q /\ r[k] = q[k]
                                \/ r[k] = [seq |-> s, event |-> e, lease |-> "free"]
         /\ Numbered(q) => Numbered(r)
         /\ NoCopies(q) => NoCopies(r)
         /\ HeldSeqs(r) \subseteq HeldSeqs(q)
<1>1. CASE Duplicate(q, e)
  <2>1. r = q BY <1>1 DEF Enqueue
  <2>. QED BY <2>1
<1>2. CASE ~Duplicate(q, e)
  <2> DEFINE new == [seq |-> s, event |-> e, lease |-> "free"]
  <2>1. r = Append(q, new) BY <1>2 DEF Enqueue
  <2>2. new \in [seq : N, event : E, lease : {"free", "held", "lapsed"}] OBVIOUS
  <2>3. /\ r \in Queues(N, E)
        /\ Len(r) = Len(q) + 1 /\ r[Len(q) + 1] = new
        /\ \A i \in 1 .. Len(q) : r[i] = q[i]
    BY <2>1, <2>2, AppendProperties DEF Queues
  <2>4. DOMAIN q = 1 .. Len(q) /\ Len(q) \in Nat /\ DOMAIN r = 1 .. Len(q) + 1
    BY <2>3 DEF Queues
  <2>5. \A k \in DOMAIN r : \/ k \in DOMAIN q /\ r[k] = q[k]
                            \/ k = Len(q) + 1 /\ r[k] = new
    BY <2>3, <2>4
  <2> HIDE DEF new
  <2>6. new.seq = s /\ new.event = e /\ new.lease = "free" BY DEF new
  <2>7. Numbered(q) => Numbered(r)
    <3>1. \A i \in DOMAIN q : q[i].seq # s BY DEF Seqs
    <3>. QED BY <2>5, <2>6, <3>1 DEF Numbered
  <2>8. NoCopies(q) => NoCopies(r)
    <3>1. \A i \in DOMAIN q : ~SameRequest(q[i].event, e) /\ ~SameRequest(e, q[i].event)
      BY <1>2, SameRequestIsSymmetric DEF Duplicate
    <3>. QED BY <2>5, <2>6, <3>1 DEF NoCopies
  <2>9. HeldSeqs(r) \subseteq HeldSeqs(q)
    BY <2>5, <2>6 DEF HeldSeqs
  <2>. QED BY <2>3, <2>5, <2>7, <2>8, <2>9 DEF new
<1>. QED BY <1>1, <1>2
=============================================================================
