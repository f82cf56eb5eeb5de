---------------------------- MODULE OverlayProofs ----------------------------
(***************************************************************************)
(* Proofs about Overlay, for any number of sessions, clicks and accidents. *)
(*                                                                         *)
(* A handler computes on the page's record, so what the page's functions   *)
(* keep is stated of such records: Good.  N is the set of the sessions     *)
(* that have begun.  The second half is about one thing at a time: what    *)
(* the functions keep of the one session the page deals with is Near and   *)
(* Holds, and OneInv is what every step keeps of it.                       *)
(***************************************************************************)
EXTENDS Overlay, SequenceTheorems, TLAPS

Reads(N) == [id : N, at : {"timer", "fetch", "mount", "anchor"}, completed : BOOLEAN, orphan : BOOLEAN]
Storage(N) == [id : N \cup {None}, state : States, arrived : BOOLEAN, file : BOOLEAN]
Pages(N) ==
  [state : States, current : N \cup {None}, arrived : BOOLEAN, file : BOOLEAN,
   pending : N \cup {None}, awaiting : N \cup {None}, timer : BOOLEAN,
   observer : N \cup {None}, scouting : BOOLEAN, reads : SUBSET Reads(N),
   captures : SUBSET N, gate : N \cup {None}, saved : Storage(N), handled : SUBSET N]

\* A page that has left what it has handled.
Good(p, N) ==
  /\ p \in Pages(N)
  /\ p.current \notin p.handled
  /\ p.saved.id \notin p.handled

\* What the helper, the source or the page has of the sessions.
Phases == {"none", "open", "done", "failed", "accepted", "discarded", "over"}
Lists(N) == {list \in [Sessions -> Phases \cup {"late"}] : \A s \in Sessions : list[s] # "none" => s \in N}
Trees(N) == {tree \in [Sessions -> Wrapper] : \A s \in Sessions : tree[s] # "none" => s \in N}
----------------------------------------------------------------------------
LEMMA SaveGood ==
  ASSUME NEW N, None \notin N, NEW p, Good(p, N), NEW r, r = Save(p)
  PROVE  /\ Good(r, N)
         /\ r.current = p.current /\ r.handled = p.handled /\ r.state = p.state
<1>1. CASE p.current = None BY <1>1 DEF Save, Good
<1>2. CASE p.current # None
  <2> DEFINE c == [id |-> p.current, state |-> p.state, arrived |-> p.arrived, file |-> p.file]
  <2>1. c \in Storage(N) BY DEF Good, Pages, Storage
  <2>2. c.id = p.current OBVIOUS
  <2>3. r = [p EXCEPT !.saved = c] BY <1>2 DEF Save
  <2> HIDE DEF c
  <2>4. r \in Pages(N) BY <2>1, <2>3 DEF Good, Pages
  <2>. QED BY <2>2, <2>3, <2>4 DEF Good, Pages
<1>. QED BY <1>1, <1>2

LEMMA ClearedGood ==
  ASSUME NEW N, None \notin N, NEW p \in Pages(N), NEW r, r = Cleared(p)
  PROVE  Good(r, N)
<1>1. NotSaved \in Storage(N) /\ NotSaved.id = None BY DEF NotSaved, Storage, States
<1>0. "PICKING" \in States BY DEF States
<1>2. r \in Pages(N)
  <2>1. r = [state |-> "PICKING", current |-> None, arrived |-> p.arrived, file |-> FALSE,
             pending |-> p.pending, awaiting |-> p.awaiting, timer |-> p.timer,
             observer |-> None, scouting |-> p.scouting, reads |-> p.reads,
             captures |-> p.captures, gate |-> p.gate, saved |-> NotSaved,
             handled |-> p.handled]
    BY DEF Cleared, Pages
  <2>. QED BY <1>0, <1>1, <2>1 DEF Pages
<1>3. r.current = None /\ r.saved = NotSaved /\ r.handled = p.handled BY DEF Cleared, Pages
<1>4. r.handled \subseteq N BY <1>2 DEF Pages
<1>. QED BY <1>1, <1>2, <1>3, <1>4 DEF Good

LEMMA CleanupGood ==
  ASSUME NEW N, None \notin N, NEW p \in Pages(N), NEW r, r = Cleanup(p)
  PROVE  Good(r, N)
<1> DEFINE q == Cleared(p)
           rs == Disconnected(q.reads)
<1>1. r = [q EXCEPT !.reads = rs] /\ q = Cleared(p) BY DEF Cleanup
<1>2. rs \subseteq q.reads BY DEF Disconnected
<1> HIDE DEF q, rs
<1>3. Good(q, N) BY <1>1, ClearedGood
<1>4. r \in Pages(N) BY <1>1, <1>2, <1>3 DEF Good, Pages
<1>. QED BY <1>1, <1>3, <1>4 DEF Good, Pages

LEMMA MarkedPage ==
  ASSUME NEW N, None \notin N, NEW p \in Pages(N), NEW r, r = MarkHandled(p)
  PROVE  r \in Pages(N)
BY DEF MarkHandled, Pages
----------------------------------------------------------------------------
\* One field at a time.
LEMMA TimerAndReads ==
  ASSUME NEW N, NEW p, Good(p, N), NEW t \in BOOLEAN, NEW rs, rs \subseteq Reads(N),
         NEW r, r = [p EXCEPT !.timer = t, !.reads = rs]
  PROVE  /\ Good(r, N)
         /\ r.current = p.current /\ r.handled = p.handled /\ r.state = p.state
<1>1. r \in Pages(N) BY DEF Good, Pages
<1>. QED BY <1>1 DEF Good, Pages

LEMMA CacheIsStorage ==
  ASSUME NEW N, NEW p \in Pages(N), NEW list \in Lists(N)
  PROVE  Cache(p, list) \in Storage(N)
<1>1. CASE p.saved.id # None BY <1>1 DEF Cache, Pages
<1>2. CASE p.saved.id = None /\ Adoptable(p, list) = {}
  BY <1>2 DEF Cache, NotSaved, Storage, States
<1>3. CASE p.saved.id = None /\ Adoptable(p, list) # {}
  <2> DEFINE s == CHOOSE a \in Adoptable(p, list) : TRUE
  <2>1. s \in Adoptable(p, list) BY <1>3
  <2> HIDE DEF s
  <2>2. s \in N BY <2>1 DEF Adoptable, Completed, Lists
  <2>3. Cache(p, list) = [id |-> s, state |-> "GENERATING", arrived |-> list[s] = "done", file |-> TRUE]
    BY <1>3 DEF Cache, s
  <2>. QED BY <2>2, <2>3 DEF Storage, States
<1>. QED BY <1>1, <1>2, <1>3

\* A page that takes a session up, from storage or from a wrapper.
LEMMA TakesUp ==
  ASSUME NEW N, None \notin N, NEW p \in Pages(N), NEW s \in N, s \notin p.handled,
         NEW st \in States, NEW f \in BOOLEAN, NEW a \in BOOLEAN, NEW o \in N \cup {None},
         NEW q, q = [state |-> st, current |-> s, arrived |-> a, file |-> f,
                     pending |-> p.pending, awaiting |-> p.awaiting, timer |-> p.timer,
                     observer |-> o, scouting |-> p.scouting, reads |-> p.reads,
                     captures |-> p.captures, gate |-> p.gate, saved |-> p.saved,
                     handled |-> p.handled],
         NEW r, r = Save(q)
  PROVE  Good(r, N) /\ r.current = s /\ r.state = st
<1>1. q \in Pages(N) BY DEF Pages
<1> DEFINE c == [id |-> s, state |-> st, arrived |-> a, file |-> f]
<1>2. c \in Storage(N) /\ c.id = s BY DEF Storage
<1>3. q.current = s /\ q.current # None BY <1>1
<1>4. r = [q EXCEPT !.saved = c] BY <1>3 DEF Save
<1> HIDE DEF c
<1>5. r \in Pages(N) BY <1>1, <1>2, <1>4 DEF Pages
<1>6. r.current = s /\ r.handled = p.handled /\ r.saved = c /\ r.state = st
  BY <1>1, <1>4 DEF Pages
<1>. QED BY <1>2, <1>5, <1>6 DEF Good

LEMMA RestoredGood ==
  ASSUME NEW N, None \notin N, NEW p \in Pages(N), NEW list \in Lists(N),
         Restorable(p, list), NEW r, r = Restored(p, list)
  PROVE  Good(r, N)
<1> DEFINE c == Cache(p, list)
           f == p.file \/ c.file \/ Completed(list, c.id)
           a == c.arrived \/ list[c.id] = "done"
           q == [p EXCEPT !.current = c.id, !.state = "GENERATING", !.file = f,
                          !.arrived = a, !.observer = c.id]
           s == Save(q)
           t == Unknown(c.id) \/ ~a
           rs == IF f THEN s.reads \cup {Read(c.id, Tries(c.id), FALSE, c.state = "CYCLING")} ELSE s.reads
<1>1. c \in Storage(N) BY CacheIsStorage
<1>2. r = [s EXCEPT !.timer = t, !.reads = rs] BY DEF Restored
<1>3. c.id \in N /\ c.id \notin p.handled BY <1>1 DEF Restorable, Storage
<1> HIDE DEF c
<1>4. f \in BOOLEAN /\ a \in BOOLEAN /\ t \in BOOLEAN OBVIOUS
<1>5. Read(c.id, Tries(c.id), FALSE, c.state = "CYCLING") \in Reads(N)
  BY <1>3 DEF Read, Reads, Tries
<1> HIDE DEF f, a, t
<1>6. q = [state |-> "GENERATING", current |-> c.id, arrived |-> a, file |-> f,
           pending |-> p.pending, awaiting |-> p.awaiting, timer |-> p.timer,
           observer |-> c.id, scouting |-> p.scouting, reads |-> p.reads,
           captures |-> p.captures, gate |-> p.gate, saved |-> p.saved,
           handled |-> p.handled]
  <2> SUFFICES ASSUME NEW x, x = q
               PROVE  x = [state |-> "GENERATING", current |-> c.id, arrived |-> a, file |-> f,
                           pending |-> p.pending, awaiting |-> p.awaiting, timer |-> p.timer,
                           observer |-> c.id, scouting |-> p.scouting, reads |-> p.reads,
                           captures |-> p.captures, gate |-> p.gate, saved |-> p.saved,
                           handled |-> p.handled]
    OBVIOUS
  <2>. QED BY DEF Pages
<1>7. "GENERATING" \in States BY DEF States
<1>8. s = Save(q) OBVIOUS
<1> HIDE DEF q, s
<1>9. Good(s, N) BY <1>3, <1>4, <1>6, <1>7, <1>8, TakesUp
<1>10. rs \subseteq Reads(N)
  <2>1. s.reads \subseteq Reads(N) BY <1>9 DEF Good, Pages
  <2>. QED BY <1>5, <2>1
<1> HIDE DEF rs
<1>. QED BY <1>2, <1>4, <1>9, <1>10, TimerAndReads

LEMMA FromWrapperGood ==
  ASSUME NEW N, None \notin N, NEW p \in Pages(N), NEW d, NEW w \in N, w \notin p.handled,
         NEW r, r = FromWrapper(p, d, w)
  PROVE  Good(r, N)
<1> DEFINE a == d[w] = "variants"
           f == p.file \/ (p.saved.id = w /\ p.saved.file)
           st == IF a THEN "CYCLING" ELSE "GENERATING"
           q == [p EXCEPT !.current = w, !.arrived = a, !.file = f, !.state = st]
           s == Save(q)
           t == ~a
<1>1. r = [s EXCEPT !.timer = t, !.observer = w] BY DEF FromWrapper
<1>2. a \in BOOLEAN /\ f \in BOOLEAN /\ t \in BOOLEAN OBVIOUS
<1>3. st \in States BY DEF States
<1> HIDE DEF a, f, t, st
<1>4. q = [state |-> st, current |-> w, arrived |-> a, file |-> f,
           pending |-> p.pending, awaiting |-> p.awaiting, timer |-> p.timer,
           observer |-> p.observer, scouting |-> p.scouting, reads |-> p.reads,
           captures |-> p.captures, gate |-> p.gate, saved |-> p.saved,
           handled |-> p.handled]
  <2> SUFFICES ASSUME NEW x, x = q
               PROVE  x = [state |-> st, current |-> w, arrived |-> a, file |-> f,
                           pending |-> p.pending, awaiting |-> p.awaiting, timer |-> p.timer,
                           observer |-> p.observer, scouting |-> p.scouting, reads |-> p.reads,
                           captures |-> p.captures, gate |-> p.gate, saved |-> p.saved,
                           handled |-> p.handled]
    OBVIOUS
  <2>. QED BY DEF Pages
<1>5. p.observer \in N \cup {None} BY DEF Pages
<1>6. s = Save(q) OBVIOUS
<1> HIDE DEF q, s
<1>7. Good(s, N) BY <1>2, <1>3, <1>4, <1>5, <1>6, TakesUp
<1>8. r \in Pages(N) BY <1>1, <1>2, <1>7 DEF Good, Pages
<1>. QED BY <1>1, <1>7, <1>8 DEF Good, Pages

\* The wrapper a page finds first is one of a session that has begun.
LEMMA FoundBegun ==
  ASSUME NEW N, NEW d \in Trees(N), NEW w \in Found(d)
  PROVE  w \in N \cup {None}
<1>1. Wrappers(d) \subseteq N BY DEF Wrappers, Trees
<1>. QED BY <1>1 DEF Found

LEMMA UnlistedIsList == ASSUME NEW N PROVE Unlisted \in Lists(N)
BY DEF Unlisted, Lists, Phases

LEMMA FromStorageGood ==
  ASSUME NEW N, None \notin N, NEW p \in Pages(N), p.current \notin p.handled,
         NEW r, r = FromStorage(p)
  PROVE  Good(r, N)
<1>1. CASE Restorable(p, Unlisted)
  BY <1>1, UnlistedIsList, RestoredGood DEF FromStorage
<1>2. CASE ~Restorable(p, Unlisted)
  <2>1. NotSaved \in Storage(N) /\ NotSaved.id = None BY DEF NotSaved, Storage, States
  <2>2. r = [p EXCEPT !.saved = NotSaved] BY <1>2 DEF FromStorage
  <2>3. r \in Pages(N) BY <2>1, <2>2 DEF Pages
  <2>4. r.current = p.current /\ r.handled = p.handled /\ r.saved = NotSaved /\ p.handled \subseteq N
    BY <2>2 DEF Pages
  <2>. QED BY <2>1, <2>3, <2>4 DEF Good
<1>. QED BY <1>1, <1>2

LEMMA ResumeGood ==
  ASSUME NEW N, None \notin N, NEW p, Good(p, N), NEW d, NEW w \in N \cup {None},
         NEW r, r = Resume(p, d, w)
  PROVE  Good(r, N)
<1>0. p \in Pages(N) /\ p.current \notin p.handled /\ p.handled \subseteq N BY DEF Good, Pages
<1>1. CASE w \in p.handled
  BY <1>0, <1>1, UnlistedIsList, RestoredGood DEF Resume, Newer
<1>2. CASE w \notin p.handled /\ w = None
  <2>1. r = FromStorage(p) BY <1>2 DEF Resume
  <2>. QED BY <1>0, <2>1, FromStorageGood
<1>3. CASE w \notin p.handled /\ w # None
  <2>1. r = FromWrapper(p, d, w) BY <1>3 DEF Resume
  <2>. QED BY <1>0, <1>3, <2>1, FromWrapperGood
<1>. QED BY <1>1, <1>2, <1>3

LEMMA ScoutGood ==
  ASSUME NEW N, None \notin N, NEW p, Good(p, N), NEW d, NEW w \in N \cup {None},
         NEW r, r = Scout(p, d, w)
  PROVE  Good(r, N)
<1> DEFINE q == [p EXCEPT !.scouting = FALSE]
<1>1. q \in Pages(N) BY DEF Good, Pages
<1>2. Good(q, N) BY <1>1 DEF Good, Pages
<1>3. r = Resume(q, d, w) \/ r = p BY DEF Scout
<1> HIDE DEF q
<1>. QED BY <1>2, <1>3, ResumeGood

LEMMA ObserveGood ==
  ASSUME NEW N, None \notin N, NEW p, Good(p, N), NEW d, NEW s, NEW r, r = Observe(p, d, s)
  PROVE  Good(r, N)
<1> DEFINE q == [p EXCEPT !.arrived = TRUE, !.state = "CYCLING"]
           z == Save(q)
<1>1. q \in Pages(N) BY DEF Good, Pages, States
<1>2. Good(q, N) BY <1>1 DEF Good, Pages
<1>3. r = z \/ r = p BY DEF Observe
<1>4. z = Save(q) OBVIOUS
<1> HIDE DEF q, z
<1>5. Good(z, N) BY <1>2, <1>4, SaveGood
<1>. QED BY <1>3, <1>5

LEMMA MutatedGood ==
  ASSUME NEW N, None \notin N, NEW p, Good(p, N), NEW d, NEW s, NEW w \in N \cup {None},
         NEW r, r = Mutated(p, d, s, w)
  PROVE  Good(r, N)
<1> DEFINE q == Scout(p, d, w)
<1>1. r = Observe(q, d, s) BY DEF Mutated
<1>2. q = Scout(p, d, w) OBVIOUS
<1> HIDE DEF q
<1>3. Good(q, N) BY <1>2, ScoutGood
<1>. QED BY <1>1, <1>3, ObserveGood
----------------------------------------------------------------------------
LEMMA RestoreFromListGood ==
  ASSUME NEW N, None \notin N, NEW p, Good(p, N), NEW list \in Lists(N),
         NEW r, r = RestoreFromList(p, list)
  PROVE  Good(r, N)
<1>1. p \in Pages(N) BY DEF Good
<1>. QED BY <1>1, RestoredGood DEF RestoreFromList

\* A read more.
LEMMA ReadMore ==
  ASSUME NEW N, NEW p, Good(p, N), NEW f \in BOOLEAN, NEW rs, rs \subseteq Reads(N),
         NEW r, r = [p EXCEPT !.file = f, !.reads = rs]
  PROVE  Good(r, N)
<1>1. r \in Pages(N) BY DEF Good, Pages
<1>. QED BY <1>1 DEF Good, Pages

LEMMA RecoverMissedGood ==
  ASSUME NEW N, None \notin N, NEW p, Good(p, N), NEW list, NEW r, r = RecoverMissed(p, list)
  PROVE  Good(r, N)
<1>1. CASE r = p BY <1>1
<1>2. CASE r # p
  <2> DEFINE rs == p.reads \cup {Read(p.current, "timer", TRUE, FALSE)}
  <2>1. p.current # None /\ r = [p EXCEPT !.file = TRUE, !.reads = rs]
    BY <1>2 DEF RecoverMissed
  <2>2. p.current \in N /\ p.reads \subseteq Reads(N) BY <2>1 DEF Good, Pages
  <2>3. Read(p.current, "timer", TRUE, FALSE) \in Reads(N) BY <2>2 DEF Read, Reads
  <2>4. rs \subseteq Reads(N) BY <2>2, <2>3
  <2> HIDE DEF rs
  <2>. QED BY <2>1, <2>4, ReadMore
<1>. QED BY <1>1, <1>2

LEMMA OnConnectedGood ==
  ASSUME NEW N, None \notin N, Good(page, N), NEW list \in Lists(N),
         NEW m, m.list = list, NEW r, r = OnConnected(m)
  PROVE  Good(r, N)
<1> DEFINE q == RestoreFromList(page, list)
<1>1. r = RecoverMissed(q, list) BY DEF OnConnected
<1>2. q = RestoreFromList(page, list) OBVIOUS
<1> HIDE DEF q
<1>3. Good(q, N) BY <1>2, RestoreFromListGood
<1>. QED BY <1>1, <1>3, RecoverMissedGood

LEMMA OnDoneGood ==
  ASSUME NEW N, None \notin N, Good(page, N), NEW m, m.id \in N, NEW r, r = OnDone(m)
  PROVE  Good(r, N)
<1> DEFINE p == [page EXCEPT !.file = TRUE]
           c == [p EXCEPT !.state = "CYCLING"]
           rs == p.reads \cup {Read(m.id, "timer", TRUE, FALSE)}
           t == [p EXCEPT !.reads = rs]
<1>1. p \in Pages(N) BY DEF Good, Pages
<1>2. Good(p, N) BY <1>1 DEF Good, Pages
<1>3. \/ r = p \/ r = c
      \/ p.state = "GENERATING" /\ m.id = p.current /\ r = t
  BY DEF OnDone
<1> HIDE DEF p
<1>4. CASE r = p BY <1>2, <1>4
<1>5. CASE r = c
  <2>1. c \in Pages(N) BY <1>2 DEF Good, Pages, States
  <2>. QED BY <1>2, <1>5, <2>1 DEF Good, Pages
<1>6. CASE m.id = p.current /\ p.current \in N /\ r = t
  <2>1. Read(m.id, "timer", TRUE, FALSE) \in Reads(N) BY <1>6 DEF Read, Reads
  <2>2. rs \subseteq Reads(N) BY <1>2, <2>1 DEF Good, Pages
  <2> HIDE DEF rs
  <2>3. t \in Pages(N) BY <1>2, <2>2 DEF Good, Pages
  <2>. QED BY <1>2, <1>6, <2>3 DEF Good, Pages
<1>. QED BY <1>3, <1>4, <1>5, <1>6

LEMMA MarkedAndCleared ==
  ASSUME NEW N, None \notin N, NEW p \in Pages(N), NEW r, r = Cleanup(MarkHandled(p))
  PROVE  Good(r, N)
<1> DEFINE q == MarkHandled(p)
<1>1. r = Cleanup(q) /\ q = MarkHandled(p) OBVIOUS
<1> HIDE DEF q
<1>2. q \in Pages(N) BY <1>1, MarkedPage
<1>. QED BY <1>1, <1>2, CleanupGood

LEMMA AcceptedAndCleared ==
  ASSUME NEW N, None \notin N, NEW p \in Pages(N), NEW r, r = CleanupAccepted(MarkHandled(p))
  PROVE  Good(r, N)
<1> DEFINE m == MarkHandled(p)
           q == Cleared(m)
<1>1. r = [q EXCEPT !.pending = None] /\ q = Cleared(m) /\ m = MarkHandled(p) BY DEF CleanupAccepted
<1> HIDE DEF m, q
<1>2. m \in Pages(N) BY <1>1, MarkedPage
<1>3. Good(q, N) BY <1>1, <1>2, ClearedGood
<1>4. r \in Pages(N) BY <1>1, <1>3 DEF Good, Pages
<1>. QED BY <1>1, <1>3, <1>4 DEF Good, Pages

LEMMA OnCompleteGood ==
  ASSUME NEW N, None \notin N, Good(page, N), NEW m, NEW r, r = OnComplete(m)
  PROVE  Good(r, N)
<1> DEFINE w == IF page.awaiting = m.id THEN None ELSE page.awaiting
           p == [page EXCEPT !.awaiting = w]
           u == [p EXCEPT !.pending = None]
<1>1. w \in N \cup {None} BY DEF Good, Pages
<1>2. r = p \/ r = u \/ r = CleanupAccepted(MarkHandled(p)) BY DEF OnComplete
<1> HIDE DEF w
<1>3. p \in Pages(N) BY <1>1 DEF Good, Pages
<1>4. Good(p, N) BY <1>3 DEF Good, Pages
<1> HIDE DEF p
<1>5. CASE r = u
  <2>1. u \in Pages(N) BY <1>3 DEF Pages
  <2>. QED BY <1>4, <1>5, <2>1 DEF Good, Pages
<1>. QED BY <1>2, <1>3, <1>4, <1>5, AcceptedAndCleared

LEMMA OnDiscardedGood ==
  ASSUME NEW N, None \notin N, Good(page, N), NEW m, NEW r, r = OnDiscarded(m)
  PROVE  Good(r, N)
<1>1. page \in Pages(N) BY DEF Good
<1>. QED BY <1>1, MarkedAndCleared DEF OnDiscarded

LEMMA OnErrorGood ==
  ASSUME NEW N, None \notin N, Good(page, N), NEW m, NEW r, r = OnError(m)
  PROVE  Good(r, N)
<1> DEFINE sv == IF page.saved.id = m.id THEN NotSaved ELSE page.saved
           a == [page EXCEPT !.pending = None, !.awaiting = None, !.state = "CYCLING"]
           b == [page EXCEPT !.awaiting = None]
           c == [page EXCEPT !.saved = sv, !.state = "PICKING"]
<1>1. r = a \/ r = b \/ r = c \/ r = Cleanup(MarkHandled(page)) BY DEF OnError
<1>2. page \in Pages(N) BY DEF Good
<1>3. CASE r = a
  <2>1. a \in Pages(N) BY <1>2 DEF Pages, States
  <2>. QED BY <1>3, <2>1 DEF Good, Pages
<1>4. CASE r = b
  <2>1. b \in Pages(N) BY <1>2 DEF Pages
  <2>. QED BY <1>4, <2>1 DEF Good, Pages
<1>5. CASE r = c
  <2>1. NotSaved \in Storage(N) /\ NotSaved.id = None BY DEF NotSaved, Storage, States
  <2>2. page.saved \in Storage(N) /\ page.saved.id \notin page.handled /\ page.handled \subseteq N
    BY DEF Good, Pages
  <2>3. sv \in Storage(N) /\ sv.id \notin page.handled BY <2>1, <2>2
  <2> HIDE DEF sv
  <2>4. c \in Pages(N) BY <1>2, <2>3 DEF Pages, States
  <2>. QED BY <1>5, <2>3, <2>4 DEF Good, Pages
<1>. QED BY <1>1, <1>2, <1>3, <1>4, <1>5, MarkedAndCleared

LEMMA InjectedGood ==
  ASSUME NEW N, None \notin N, NEW p, Good(p, N), NEW x, NEW w, NEW r, r = Injected(x, p, w)
  PROVE  Good(r, N)
<1> DEFINE rs == Disconnected(p.reads)
           q == [p EXCEPT !.reads = rs]
           a == [q EXCEPT !.arrived = TRUE, !.state = "CYCLING", !.file = TRUE]
           b == [q EXCEPT !.arrived = FALSE]
<1>1. r = Save(a) \/ r = b \/ r = Cleanup(b) BY DEF Injected
<1>2. rs \subseteq p.reads BY DEF Disconnected
<1> HIDE DEF rs
<1>3. q \in Pages(N) BY <1>2 DEF Good, Pages
<1>4. Good(q, N) BY <1>3 DEF Good, Pages
<1> HIDE DEF q
<1>5. a \in Pages(N) /\ b \in Pages(N) BY <1>3 DEF Pages, States
<1>6. Good(a, N) /\ Good(b, N) BY <1>4, <1>5 DEF Good, Pages
<1> HIDE DEF a, b
<1>. QED BY <1>1, <1>5, <1>6, SaveGood, CleanupGood
----------------------------------------------------------------------------
Posts(N) ==
  [type : {"generate", "checkpoint", "accept", "discard"}, id : N, after : N \cup {None},
   behind : BOOLEAN, at : {"out", "ok", "refused", "failed"}, deaf : BOOLEAN]
Frames(N) ==
  [type : {"done", "complete", "discarded", "error"}, id : N]
    \cup [type : {"connected"}, list : Lists(N)]
Servers(N) == {phases \in [Sessions -> Phases] : \A s \in Sessions : phases[s] # "none" => s \in N}

Begun == 1..begun

\* The inductive invariant.
Helper(N) ==
  /\ server \in Servers(N) /\ source \in Trees(N) /\ dom \in Trees(N)
  /\ frames \in Seq(Frames(N))
History(N) == decided \subseteq N /\ unsent \subseteq N /\ givenUp \subseteq N

OInv ==
  /\ begun \in Ids
  /\ Good(page, Begun)
  /\ posts \subseteq Posts(Begun)
  /\ Helper(Begun)
  /\ History(Begun)

LEMMA BegunAre ==
  ASSUME begun \in Ids
  PROVE  None \notin Begun /\ Begun \subseteq Sessions
BY OverlayAssumption DEF Ids, Begun, None, Sessions

LEMMA PostIsPost ==
  ASSUME NEW N, NEW p \in Pages(N), NEW s \in N,
         NEW type \in {"generate", "checkpoint", "accept", "discard"}
  PROVE  Post(p, type, s) \in Posts(N)
BY DEF Post, Posts, Pages, Waits

LEMMA CheckpointsArePosts ==
  ASSUME NEW N, page \in Pages(N), NEW s \in N \cup {None}
  PROVE  Checkpoints(s) \subseteq Posts(N)
BY PostIsPost DEF Checkpoints

LEMMA SettleKeeps ==
  ASSUME NEW N, posts \subseteq Posts(N), NEW q \in posts,
         NEW at \in {"out", "ok", "refused", "failed"}, Settle(q, at)
  PROVE  posts' \subseteq Posts(N)
<1>1. [q EXCEPT !.at = at] \in Posts(N) BY DEF Posts
<1>. QED BY <1>1 DEF Settle

LEMMA BroadcastKeeps ==
  ASSUME NEW N, frames \in Seq(Frames(N)), NEW s \in N,
         NEW type \in {"done", "complete", "discarded", "error"}, Broadcast(type, s)
  PROVE  frames' \in Seq(Frames(N))
<1>1. [type |-> type, id |-> s] \in Frames(N) BY DEF Frames
<1>. QED BY <1>1, AppendProperties DEF Broadcast

\* What holds of the sessions begun holds of more of them.
LEMMA MoreBegun ==
  ASSUME NEW N, NEW M, N \subseteq M
  PROVE  /\ Pages(N) \subseteq Pages(M)
         /\ Posts(N) \subseteq Posts(M)
         /\ Lists(N) \subseteq Lists(M)
         /\ Trees(N) \subseteq Trees(M)
         /\ Servers(N) \subseteq Servers(M)
<1>1. Reads(N) \subseteq Reads(M) BY DEF Reads
<1>2. Storage(N) \subseteq Storage(M) BY DEF Storage
<1>3. Pages(N) \subseteq Pages(M)
  <2> SUFFICES ASSUME NEW p \in Pages(N) PROVE p \in Pages(M) OBVIOUS
  <2>. QED BY <1>1, <1>2 DEF Pages
<1>4. Posts(N) \subseteq Posts(M) BY DEF Posts
<1>5. Lists(N) \subseteq Lists(M) BY DEF Lists
<1>6. Trees(N) \subseteq Trees(M) BY DEF Trees
<1>7. Servers(N) \subseteq Servers(M) BY DEF Servers
<1>. QED BY <1>3, <1>4, <1>5, <1>6, <1>7

LEMMA FramesOfMore ==
  ASSUME NEW N, NEW M, N \subseteq M, NEW f \in Seq(Frames(N))
  PROVE  f \in Seq(Frames(M))
<1>1. Lists(N) \subseteq Lists(M) BY MoreBegun
<1>2. Frames(N) \subseteq Frames(M) BY <1>1 DEF Frames
<1>. QED BY <1>2
----------------------------------------------------------------------------
LEMMA InitHolds == ASSUME Init PROVE OInv
<1>1. begun = 0 /\ Begun = {} BY DEF Init, Begun
<1>2. begun \in Ids BY <1>1, OverlayAssumption DEF Ids
<1>3. page = [Fresh EXCEPT !.scouting = TRUE] BY DEF Init
<1>4. page \in Pages(Begun)
  <2>1. page = [state |-> "PICKING", current |-> None, arrived |-> FALSE, file |-> FALSE,
                pending |-> None, awaiting |-> None, timer |-> FALSE, observer |-> None,
                scouting |-> TRUE, reads |-> {}, captures |-> {}, gate |-> None,
                saved |-> NotSaved, handled |-> {}]
    BY <1>3 DEF Fresh
  <2>2. NotSaved \in Storage(Begun) BY DEF NotSaved, Storage, States
  <2>. QED BY <2>1, <2>2 DEF Pages, States
<1>5. page.handled = {} BY <1>3 DEF Fresh
<1>6. Good(page, Begun) BY <1>4, <1>5 DEF Good
<1>7. Helper(Begun)
  BY <1>1 DEF Init, Helper, Servers, Trees, Phases, Wrapper
<1>8. posts = {} /\ decided = {} /\ unsent = {} /\ givenUp = {} BY DEF Init
<1>. QED BY <1>2, <1>6, <1>7, <1>8 DEF OInv, History

\* Nothing but the page and its posts.
LEMMA PageAndPosts ==
  ASSUME OInv, Good(page', Begun), posts' \subseteq Posts(Begun),
         UNCHANGED <<begun, decided, unsent, givenUp, server, source, dom, frames>>
  PROVE  OInv'
<1>1. Begun' = Begun BY DEF Begun
<1>2. Helper(Begun)' BY <1>1 DEF OInv, Helper
<1>3. History(Begun)' BY <1>1 DEF OInv, History
<1>. QED BY <1>1, <1>2, <1>3 DEF OInv

\* The page, its posts and what the helper has of the sessions.
LEMMA AllButBegun ==
  ASSUME OInv, begun' = begun, Good(page', Begun), posts' \subseteq Posts(Begun),
         server' \in Servers(Begun), source' \in Trees(Begun), dom' \in Trees(Begun),
         frames' \in Seq(Frames(Begun)), decided' \subseteq Begun, unsent' \subseteq Begun,
         givenUp' \subseteq Begun
  PROVE  OInv'
<1>1. Begun' = Begun BY DEF Begun
<1>2. Helper(Begun)' BY <1>1 DEF Helper
<1>3. History(Begun)' BY <1>1 DEF History
<1>. QED BY <1>1, <1>2, <1>3 DEF OInv

LEMMA PickKeeps == ASSUME OInv, Pick \/ Leave PROVE OInv'
<1>1. UNCHANGED <<posts, begun, decided, unsent, givenUp, server, source, dom, frames>>
  BY DEF Pick, Leave, helperVars, stream, history
<1>2. page' = [page EXCEPT !.state = "CONFIGURING"] \/ page' = [page EXCEPT !.state = "PICKING"]
  BY DEF Pick, Leave
<1>3. page' \in Pages(Begun) BY <1>2 DEF OInv, Good, Pages, States
<1>4. Good(page', Begun) BY <1>2, <1>3 DEF OInv, Good, Pages
<1>. QED BY <1>1, <1>4, PageAndPosts DEF OInv

LEMMA GoKeeps == ASSUME OInv, NEW annotated \in BOOLEAN, Go(annotated) PROVE OInv'
<1> DEFINE s == begun + 1
           q == [page EXCEPT !.current = s, !.state = "GENERATING", !.arrived = FALSE, !.file = FALSE,
                             !.pending = None, !.awaiting = None, !.observer = s]
           p == Save(q)
           M == 1..s
<1>1. begun \in Nat /\ begun < MaxSessions /\ begun' = s
  BY OverlayAssumption DEF OInv, Ids, Go
<1>2. begun' \in Ids BY <1>1, OverlayAssumption DEF Ids
<1>3. Begun \subseteq M /\ s \in M /\ s \notin Begun /\ None \notin M BY <1>1 DEF Begun, None
<1>4. Begun' = M BY <1>1 DEF Begun
<1>5. UNCHANGED <<server, source, dom, frames, decided, unsent, givenUp>>
  BY DEF Go, helperVars, stream
<1>6. /\ page' = IF annotated THEN [p EXCEPT !.captures = @ \cup {s}] ELSE [p EXCEPT !.gate = s]
      /\ posts' = posts \/ posts' = posts \cup {Post(page, "generate", s)}
  BY DEF Go
<1>7. page \in Pages(Begun) /\ page.handled \subseteq Begun BY DEF OInv, Good, Pages
<1>10. p = Save(q) OBVIOUS
<1> HIDE DEF p, M, s
<1>8. page \in Pages(M)
  <2>1. Pages(Begun) \subseteq Pages(M) BY <1>3, MoreBegun
  <2>. QED BY <1>7, <2>1
<1>9. page.saved.id \notin page.handled BY DEF OInv, Good
<1>11. q \in Pages(M)
  <2>1. q = [state |-> "GENERATING", current |-> s, arrived |-> FALSE, file |-> FALSE,
             pending |-> None, awaiting |-> None, timer |-> page.timer, observer |-> s,
             scouting |-> page.scouting, reads |-> page.reads, captures |-> page.captures,
             gate |-> page.gate, saved |-> page.saved, handled |-> page.handled]
    <3> SUFFICES ASSUME NEW x, x = q
                 PROVE  x = [state |-> "GENERATING", current |-> s, arrived |-> FALSE, file |-> FALSE,
                             pending |-> None, awaiting |-> None, timer |-> page.timer, observer |-> s,
                             scouting |-> page.scouting, reads |-> page.reads,
                             captures |-> page.captures, gate |-> page.gate, saved |-> page.saved,
                             handled |-> page.handled]
      OBVIOUS
    <3>. QED BY <1>8 DEF Pages
  <2>. QED BY <1>3, <1>8, <2>1 DEF Pages, States
<1>12. q.current = s /\ q.handled = page.handled /\ q.saved = page.saved BY <1>8 DEF Pages
<1> HIDE DEF q
<1>13. Good(q, M) BY <1>3, <1>7, <1>9, <1>11, <1>12 DEF Good
<1>14. Good(p, M) BY <1>3, <1>10, <1>13, SaveGood
<1>15. page' \in Pages(M)
  <2>1. p \in Pages(M) BY <1>14 DEF Good
  <2>2. CASE annotated BY <1>3, <1>6, <2>1, <2>2 DEF Pages
  <2>3. CASE ~annotated BY <1>3, <1>6, <2>1, <2>3 DEF Pages
  <2>. QED BY <2>2, <2>3
<1>16. Good(page', M) BY <1>6, <1>14, <1>15 DEF Good, Pages
<1>17. posts' \subseteq Posts(M)
  <2>1. posts \subseteq Posts(M) BY <1>3, MoreBegun DEF OInv
  <2>2. Post(page, "generate", s) \in Posts(M) BY <1>3, <1>8, PostIsPost
  <2>. QED BY <1>6, <2>1, <2>2
<1>18. Helper(Begun)'
  <2>1. server \in Servers(M) /\ source \in Trees(M) /\ dom \in Trees(M)
    BY <1>3, MoreBegun DEF OInv, Helper
  <2>2. frames \in Seq(Frames(M)) BY <1>3, FramesOfMore DEF OInv, Helper
  <2>. QED BY <1>4, <1>5, <2>1, <2>2 DEF Helper
<1>19. History(Begun)' BY <1>3, <1>4, <1>5 DEF OInv, History
<1>. QED BY <1>2, <1>4, <1>16, <1>17, <1>18, <1>19 DEF OInv

LEMMA CapturedKeeps == ASSUME OInv, NEW s \in page.captures, Captured(s) PROVE OInv'
<1>0. page \in Pages(Begun) /\ s \in Begun BY DEF OInv, Good, Pages
<1>1. UNCHANGED <<begun, decided, unsent, givenUp, server, source, dom, frames>>
  BY DEF Captured, helperVars, stream, history
<1>2. page' = [page EXCEPT !.captures = @ \ {s}, !.gate = s] BY DEF Captured
<1>3. page' \in Pages(Begun) BY <1>0, <1>2 DEF Pages
<1>4. Good(page', Begun) BY <1>2, <1>3 DEF OInv, Good, Pages
<1>5. Post(page, "generate", s) \in Posts(Begun) BY <1>0, PostIsPost
<1>6. posts' \subseteq Posts(Begun) BY <1>5 DEF Captured, OInv
<1>. QED BY <1>1, <1>4, <1>6, PageAndPosts

LEMMA AcceptKeeps == ASSUME OInv, Accept PROVE OInv'
<1> DEFINE q == [page EXCEPT !.state = "SAVING", !.pending = page.current]
<1>0. page \in Pages(Begun) /\ page.current \in Begun BY DEF Accept, OInv, Good, Pages
<1>1. UNCHANGED <<begun, unsent, givenUp, server, source, dom, frames>>
  BY DEF Accept, Decide, helperVars, stream
<1>2. page' = Save(q) /\ posts' = posts \cup {Post(page, "accept", page.current)}
  BY DEF Accept
<1>3. q \in Pages(Begun) BY <1>0 DEF Pages, States
<1>4. Good(q, Begun) BY <1>3 DEF OInv, Good, Pages
<1> HIDE DEF q
<1>5. Good(page', Begun) BY <1>2, <1>4, BegunAre, SaveGood DEF OInv
<1>6. Post(page, "accept", page.current) \in Posts(Begun) BY <1>0, PostIsPost
<1>7. posts' \subseteq Posts(Begun) BY <1>2, <1>6 DEF OInv
<1>8. decided' \subseteq Begun BY <1>0 DEF Accept, Decide, OInv, History
<1>. QED BY <1>1, <1>5, <1>7, <1>8, AllButBegun DEF OInv, Helper, History

LEMMA DiscardKeeps == ASSUME OInv, Discard PROVE OInv'
<1>0. page \in Pages(Begun) /\ page.current \in Begun BY DEF Discard, OInv, Good, Pages
<1>1. UNCHANGED <<page, begun, unsent, givenUp, server, source, dom, frames>>
  BY DEF Discard, Decide, helperVars, stream
<1>2. Post(page, "discard", page.current) \in Posts(Begun) BY <1>0, PostIsPost
<1>3. posts' \subseteq Posts(Begun) BY <1>2 DEF Discard, OInv
<1>4. decided' \subseteq Begun BY <1>0 DEF Discard, Decide, OInv, History
<1>. QED BY <1>1, <1>3, <1>4, AllButBegun DEF OInv, Helper, History

LEMMA FireCheckpointKeeps == ASSUME OInv, FireCheckpoint PROVE OInv'
<1>0. page \in Pages(Begun) BY DEF OInv, Good
<1>1. UNCHANGED <<begun, decided, unsent, givenUp, server, source, dom, frames>>
  BY DEF FireCheckpoint, helperVars, stream, history
<1>2. page' = [page EXCEPT !.timer = FALSE] BY DEF FireCheckpoint
<1>3. page' \in Pages(Begun) BY <1>0, <1>2 DEF Pages
<1>4. Good(page', Begun) BY <1>2, <1>3 DEF OInv, Good, Pages
<1>5. page.current \in Begun \cup {None} BY <1>0 DEF Pages
<1>6. posts' \subseteq Posts(Begun) BY <1>0, <1>5, CheckpointsArePosts DEF FireCheckpoint, OInv
<1>. QED BY <1>1, <1>4, <1>6, PageAndPosts
----------------------------------------------------------------------------
LEMMA ArriveKeeps == ASSUME OInv, NEW q \in posts, Arrive(q) PROVE OInv'
<1> DEFINE known == q.type = "generate" \/ ~Unknown(q.id)
<1>0. q \in Posts(Begun) BY DEF OInv
<1>1. UNCHANGED <<page, begun, decided, unsent, givenUp, source, dom>> BY DEF Arrive, history
<1>2. q.id \in Begun /\ q.id \in Sessions BY <1>0, BegunAre DEF Posts, OInv
<1>3. server' = IF known THEN [server EXCEPT ![q.id] = Journaled(q)] ELSE server
  BY DEF Arrive
<1>4. server \in Servers(Begun) BY DEF OInv, Helper
<1>5. Journaled(q) \in Phases BY <1>0, <1>2, <1>4 DEF Journaled, Servers, Phases, Posts
<1>6. server' \in Servers(Begun) BY <1>2, <1>3, <1>4, <1>5 DEF Servers
<1>7. Settle(q, IF known THEN "ok" ELSE "refused") BY DEF Arrive
<1>8. posts \subseteq Posts(Begun) BY DEF OInv
<1> HIDE DEF known
<1>9. posts' \subseteq Posts(Begun) BY <1>7, <1>8, SettleKeeps
<1>10. Broadcast("done", q.id) \/ frames' = frames BY DEF Arrive
<1>11. frames' \in Seq(Frames(Begun)) BY <1>2, <1>10, BroadcastKeeps DEF OInv, Helper
<1>. QED BY <1>1, <1>6, <1>9, <1>11, AllButBegun DEF OInv, Helper, History

LEMMA LoseKeeps == ASSUME OInv, NEW q \in posts, Lose(q) PROVE OInv'
<1>1. UNCHANGED <<page, begun, decided, unsent, givenUp, server, source, dom, frames>>
  BY DEF Lose, helperVars, stream, history
<1>2. posts \subseteq Posts(Begun) /\ Settle(q, "failed") BY DEF OInv, Lose
<1>3. posts' \subseteq Posts(Begun) BY <1>2, SettleKeeps
<1>. QED BY <1>1, <1>3, PageAndPosts DEF OInv

LEMMA ReplyKeeps == ASSUME OInv, NEW q \in posts, Reply(q) PROVE OInv'
<1>0. page \in Pages(Begun) /\ q \in Posts(Begun) BY DEF OInv, Good
<1>1. UNCHANGED <<begun, decided, givenUp, server, source, dom, frames>>
  BY DEF Reply, helperVars, stream
<1>2. None \notin Begun BY BegunAre DEF OInv
<1>3. posts \subseteq Posts(Begun) /\ unsent \subseteq Begun /\ Good(page, Begun)
  BY DEF OInv, History
<1>4. CASE GenerateReply(q)
  <2>1. Checkpoints(q.id) \subseteq Posts(Begun)
    BY <1>0, CheckpointsArePosts DEF Posts
  <2>2. posts' \subseteq Posts(Begun) BY <1>3, <1>4, <2>1 DEF GenerateReply
  <2>3. unsent' \subseteq Begun BY <1>0, <1>3, <1>4 DEF GenerateReply, Posts
  <2>4. page' = page BY <1>4 DEF GenerateReply
  <2>. QED BY <1>1, <2>2, <2>3, <2>4, AllButBegun DEF OInv, Helper, History
<1>5. ASSUME Good(page', Begun), posts' = posts \ {q}, UNCHANGED unsent PROVE OInv'
  BY <1>1, <1>3, <1>5, PageAndPosts
<1>6. CASE CheckpointReply(q)
  <2>1. page' = page \/ page' = Cleanup(MarkHandled(page)) BY <1>6 DEF CheckpointReply
  <2>2. Good(page', Begun) BY <1>0, <1>2, <1>3, <2>1, MarkedAndCleared
  <2>. QED BY <1>5, <1>6, <2>2 DEF CheckpointReply
<1>7. CASE AcceptReply(q)
  <2> DEFINE n == IF page.pending = q.id THEN None ELSE page.pending
             a == [page EXCEPT !.pending = n, !.state = "CYCLING"]
             b == [MarkHandled(page) EXCEPT !.awaiting = q.id]
  <2>1. page' = a \/ page' = CleanupAccepted(b) \/ page' = page BY <1>7 DEF AcceptReply
  <2>2. ASSUME page' = a PROVE Good(page', Begun)
    <3>1. n \in Begun \cup {None} BY <1>0 DEF Pages
    <3> HIDE DEF n
    <3>2. a \in Pages(Begun) BY <1>0, <3>1 DEF Pages, States
    <3>. QED BY <1>3, <2>2, <3>2 DEF Good, Pages
  <2>3. ASSUME page' = CleanupAccepted(b) PROVE Good(page', Begun)
    <3> DEFINE c == MarkHandled(page)
               e == Cleared(b)
    <3>1. c = MarkHandled(page) /\ b = [c EXCEPT !.awaiting = q.id] OBVIOUS
    <3>2. e = Cleared(b) OBVIOUS
    <3>3. page' = [e EXCEPT !.pending = None] BY <2>3 DEF CleanupAccepted
    <3> HIDE DEF c, b, e
    <3>4. c \in Pages(Begun) BY <1>0, <1>2, <3>1, MarkedPage
    <3>5. b \in Pages(Begun) BY <1>0, <3>1, <3>4 DEF Pages, Posts
    <3>6. Good(e, Begun) BY <1>2, <3>2, <3>5, ClearedGood
    <3>7. page' \in Pages(Begun) BY <3>3, <3>6 DEF Good, Pages
    <3>. QED BY <3>3, <3>6, <3>7 DEF Good, Pages
  <2>4. Good(page', Begun) BY <1>3, <2>1, <2>2, <2>3
  <2>. QED BY <1>5, <1>7, <2>4 DEF AcceptReply
<1>8. CASE DiscardReply(q)
  <2>1. page' = page \/ page' = Cleanup(MarkHandled(page)) BY <1>8 DEF DiscardReply
  <2>2. Good(page', Begun) BY <1>0, <1>2, <1>3, <2>1, MarkedAndCleared
  <2>. QED BY <1>5, <1>8, <2>2 DEF DiscardReply
<1>. QED BY <1>4, <1>6, <1>7, <1>8 DEF Reply
----------------------------------------------------------------------------
\* The helper, the agent and the stream do not touch the page.
LEMMA PageUntouched ==
  ASSUME OInv, UNCHANGED <<page, posts, begun, decided, unsent, givenUp>>,
         server' \in Servers(Begun), source' \in Trees(Begun), dom' \in Trees(Begun),
         frames' \in Seq(Frames(Begun))
  PROVE  OInv'
BY AllButBegun DEF OInv, History

LEMMA SourceKeeps ==
  ASSUME OInv, NEW s \in Sessions, Scaffold(s) \/ Generate(s)
  PROVE  OInv'
<1>1. UNCHANGED <<page, posts, begun, decided, unsent, givenUp, server, dom, frames>>
  BY DEF Scaffold, Generate, stream, history
<1>2. server[s] = "open" /\ server \in Servers(Begun) BY DEF Scaffold, Generate, OInv, Helper
<1>3. s \in Begun BY <1>2 DEF Servers
<1>4. PICK x \in Wrapper : source' = [source EXCEPT ![s] = x]
  BY DEF Scaffold, Generate, Wrapper
<1>5. source \in Trees(Begun) BY DEF OInv, Helper
<1>6. source' \in Trees(Begun) BY <1>3, <1>4, <1>5 DEF Trees
<1>. QED BY <1>1, <1>6, PageUntouched DEF OInv, Helper

LEMMA FinishKeeps ==
  ASSUME OInv, NEW s \in Sessions, Finish(s) \/ Fail(s)
  PROVE  OInv'
<1>1. UNCHANGED <<page, posts, begun, decided, unsent, givenUp, source, dom>>
  BY DEF Finish, Fail, history
<1>2. server \in Servers(Begun) /\ server[s] # "none" BY DEF Finish, Fail, OInv, Helper
<1>3. s \in Begun BY <1>2 DEF Servers
<1>4. PICK x \in Phases : server' = [server EXCEPT ![s] = x]
  BY DEF Finish, Fail, HelperTurns, Phases
<1>5. server' \in Servers(Begun) BY <1>2, <1>3, <1>4 DEF Servers
<1>6. Broadcast("done", s) \/ Broadcast("error", s) BY DEF Finish, Fail
<1>7. frames' \in Seq(Frames(Begun)) BY <1>3, <1>6, BroadcastKeeps DEF OInv, Helper
<1>. QED BY <1>1, <1>5, <1>7, PageUntouched DEF OInv, Helper

LEMMA CarryOutKeeps == ASSUME OInv, NEW s \in Sessions, CarryOut(s) PROVE OInv'
<1>1. UNCHANGED <<page, posts, begun, decided, unsent, givenUp, dom>> BY DEF CarryOut, history
<1>2. server \in Servers(Begun) /\ server[s] # "none" BY DEF CarryOut, OInv, Helper
<1>3. s \in Begun BY <1>2 DEF Servers
<1>4. server' \in Servers(Begun) BY <1>2, <1>3 DEF CarryOut, HelperTurns, Servers, Phases
<1>5. source' \in Trees(Begun) BY DEF CarryOut, OInv, Helper, Trees, Wrapper
<1>6. PICK type \in {"complete", "discarded"} : Broadcast(type, s)
  BY DEF CarryOut
<1>7. frames' \in Seq(Frames(Begun)) BY <1>3, <1>6, BroadcastKeeps DEF OInv, Helper
<1>. QED BY <1>1, <1>4, <1>5, <1>7, PageUntouched DEF OInv, Helper

LEMMA DropKeeps == ASSUME OInv, Drop PROVE OInv'
<1>1. UNCHANGED <<page, posts, begun, decided, unsent, givenUp, server, source, dom>>
  BY DEF Drop, helperVars, history
<1>2. frames' \in Seq(Frames(Begun)) BY DEF Drop
<1>. QED BY <1>1, <1>2, PageUntouched DEF OInv, Helper

LEMMA ConnectKeeps == ASSUME OInv, Connect PROVE OInv'
<1>1. UNCHANGED <<page, posts, begun, decided, unsent, givenUp, server, source, dom>>
  BY DEF Connect, helperVars, history
<1>2. PICK late \in SUBSET {s \in Sessions : server[s] = "done"} :
        frames' = <<[type |-> "connected",
                     list |-> [s \in Sessions |-> IF s \in late THEN "late" ELSE server[s]]]>>
  BY DEF Connect
<1> DEFINE list == [s \in Sessions |-> IF s \in late THEN "late" ELSE server[s]]
<1>3. server \in Servers(Begun) BY DEF OInv, Helper
<1>4. list \in Lists(Begun) BY <1>3 DEF Lists, Servers, Phases
<1> HIDE DEF list
<1>5. [type |-> "connected", list |-> list] \in Frames(Begun) BY <1>4 DEF Frames
<1>6. frames' \in Seq(Frames(Begun)) BY <1>2, <1>5 DEF list
<1>. QED BY <1>1, <1>6, PageUntouched DEF OInv, Helper
----------------------------------------------------------------------------
LEMMA ReceiveKeeps == ASSUME OInv, Receive PROVE OInv'
<1> DEFINE m == Head(frames)
<1>1. UNCHANGED <<posts, begun, decided, unsent, givenUp, server, source, dom>>
  BY DEF Receive, helperVars, history
<1>2. frames # <<>> /\ frames' = Tail(frames) BY DEF Receive
<1>3. frames \in Seq(Frames(Begun)) /\ Good(page, Begun) BY DEF OInv, Helper
<1>4. m \in Frames(Begun) /\ frames' \in Seq(Frames(Begun)) BY <1>2, <1>3, HeadTailProperties
<1>5. page' = CASE m.type = "connected" -> OnConnected(m)
                [] m.type = "done"      -> OnDone(m)
                [] m.type = "complete"  -> OnComplete(m)
                [] m.type = "discarded" -> OnDiscarded(m)
                [] m.type = "error"     -> OnError(m)
  BY DEF Receive
<1> HIDE DEF m
<1>6. None \notin Begun BY BegunAre DEF OInv
<1>7. Good(page', Begun)
  <2>1. CASE m.type = "connected"
    <3>1. page' = OnConnected(m) BY <1>5, <2>1
    <3>2. m.list \in Lists(Begun) BY <1>4, <2>1 DEF Frames
    <3>. QED BY <1>3, <1>6, <3>1, <3>2, OnConnectedGood
  <2>2. CASE m.type = "done"
    <3>1. page' = OnDone(m) BY <1>5, <2>2
    <3>2. m.id \in Begun BY <1>4, <2>2 DEF Frames
    <3>. QED BY <1>3, <1>6, <3>1, <3>2, OnDoneGood
  <2>3. CASE m.type = "complete"
    <3>1. page' = OnComplete(m) BY <1>5, <2>3
    <3>. QED BY <1>3, <1>6, <3>1, OnCompleteGood
  <2>4. CASE m.type = "discarded"
    <3>1. page' = OnDiscarded(m) BY <1>5, <2>4
    <3>. QED BY <1>3, <1>6, <3>1, OnDiscardedGood
  <2>5. CASE m.type = "error"
    <3>1. page' = OnError(m) BY <1>5, <2>5
    <3>. QED BY <1>3, <1>6, <3>1, OnErrorGood
  <2>. QED BY <1>4, <2>1, <2>2, <2>3, <2>4, <2>5 DEF Frames
<1>. QED BY <1>1, <1>4, <1>7, AllButBegun DEF OInv, Helper, History
----------------------------------------------------------------------------
LEMMA DropsGood ==
  ASSUME OInv, NEW r, NEW p, p = Drops(r)
  PROVE  Good(p, Begun)
<1>1. p = [page EXCEPT !.reads = @ \ {r}] BY DEF Drops
<1>2. p \in Pages(Begun) BY <1>1 DEF OInv, Good, Pages
<1>. QED BY <1>1, <1>2 DEF OInv, Good, Pages

LEMMA GoesOn ==
  ASSUME NEW N, NEW r \in Reads(N), Delayed(r) \/ Retry(r)
  PROVE  /\ UNCHANGED <<posts, begun, decided, unsent, givenUp, server, source, dom, frames>>
         /\ \E a \in {"fetch", "mount"} :
              LET p == Drops(r) IN
              page' = [p EXCEPT !.reads = @ \cup {[r EXCEPT !.at = a]}, !.file = TRUE] \/ page' = p
BY DEF Delayed, Retry, Tries, helperVars, stream, history

LEMMA DelayedKeeps == ASSUME OInv, NEW r \in page.reads, Delayed(r) \/ Retry(r) PROVE OInv'
<1>1. r \in Reads(Begun) BY DEF OInv, Good, Pages
<1>2. UNCHANGED <<posts, begun, decided, unsent, givenUp, server, source, dom, frames>>
  BY <1>1, GoesOn
<1>3. PICK a \in {"fetch", "mount"} :
        LET p == Drops(r) IN
        page' = [p EXCEPT !.reads = @ \cup {[r EXCEPT !.at = a]}, !.file = TRUE] \/ page' = p
  BY <1>1, GoesOn
<1> DEFINE p == Drops(r)
           rs == p.reads \cup {[r EXCEPT !.at = a]}
<1>4. page' = [p EXCEPT !.reads = rs, !.file = TRUE] \/ page' = p BY <1>3
<1>5. Good(p, Begun) BY DropsGood
<1> HIDE DEF p
<1>6. rs \subseteq Reads(Begun)
  <2>1. [r EXCEPT !.at = a] \in Reads(Begun) BY <1>1 DEF Reads
  <2>2. p.reads \subseteq Reads(Begun) BY <1>5 DEF Good, Pages
  <2>. QED BY <2>1, <2>2
<1> HIDE DEF rs
<1>7. page' = [p EXCEPT !.file = TRUE, !.reads = rs] \/ page' = p
  BY <1>4, <1>5 DEF Good, Pages
<1>8. Good(page', Begun) BY <1>5, <1>6, <1>7, ReadMore
<1>. QED BY <1>2, <1>8, PageAndPosts DEF OInv

LEMMA AnchorMissingKeeps == ASSUME OInv, NEW r \in page.reads, AnchorMissing(r) PROVE OInv'
<1> DEFINE d == Drops(r)
           g == [d EXCEPT !.state = "GENERATING"]
           p == Save(g)
           rs == Disconnected(p.reads) \cup {Read(r.id, "anchor", FALSE, FALSE)}
<1>1. UNCHANGED <<posts, begun, decided, unsent, givenUp, server, source, dom, frames>>
  BY DEF AnchorMissing, helperVars, stream, history
<1>2. page' = [p EXCEPT !.reads = rs, !.timer = TRUE] BY DEF AnchorMissing
<1>3. d = Drops(r) /\ p = Save(g) OBVIOUS
<1> HIDE DEF d, p
<1>4. Good(d, Begun) BY <1>3, DropsGood
<1>5. g \in Pages(Begun) BY <1>4 DEF Good, Pages, States
<1>6. Good(g, Begun) BY <1>4, <1>5 DEF Good, Pages
<1> HIDE DEF g
<1>7. Good(p, Begun) BY <1>3, <1>6, BegunAre, SaveGood DEF OInv
<1>8. rs \subseteq Reads(Begun)
  <2>1. r.id \in Begun BY DEF OInv, Good, Pages, Reads
  <2>2. Read(r.id, "anchor", FALSE, FALSE) \in Reads(Begun) BY <2>1 DEF Read, Reads
  <2>3. Disconnected(p.reads) \subseteq Reads(Begun) BY <1>7 DEF Disconnected, Good, Pages
  <2>. QED BY <2>2, <2>3
<1> HIDE DEF rs
<1>9. page' = [p EXCEPT !.timer = TRUE, !.reads = rs] BY <1>2, <1>7 DEF Good, Pages
<1>10. Good(page', Begun) BY <1>7, <1>8, <1>9, TimerAndReads
<1>. QED BY <1>1, <1>10, PageAndPosts DEF OInv

\* The page after its document has changed.
LEMMA DocumentChanged ==
  ASSUME OInv, NEW p, Good(p, Begun), dom' \in Trees(Begun), NEW s,
         \E w \in Found(dom') : page' = Mutated(p, dom', s, w)
  PROVE  Good(page', Begun)
<1>1. PICK w \in Found(dom') : page' = Mutated(p, dom', s, w) OBVIOUS
<1>2. w \in Begun \cup {None} BY FoundBegun
<1>3. None \notin Begun BY BegunAre DEF OInv
<1>. QED BY <1>1, <1>2, <1>3, MutatedGood

LEMMA FetchedKeeps == ASSUME OInv, NEW r \in page.reads, Fetched(r) PROVE OInv'
<1> DEFINE d == Drops(r)
           p == Injected(r, d, source[r.id])
<1>1. UNCHANGED <<posts, begun, decided, unsent, givenUp, server, source, frames>>
  BY DEF Fetched, helperVars, stream, history
<1>2. \E w \in Found(dom') : page' = Mutated(p, dom', r.id, w) BY DEF Fetched
<1>3. dom' = [dom EXCEPT ![r.id] = source[r.id]] BY DEF Fetched
<1>4. d = Drops(r) /\ p = Injected(r, d, source[r.id]) OBVIOUS
<1> HIDE DEF d, p
<1>5. None \notin Begun /\ Begun \subseteq Sessions BY BegunAre DEF OInv
<1>6. r.id \in Begun BY DEF OInv, Good, Pages, Reads
<1>7. dom' \in Trees(Begun) BY <1>3, <1>5, <1>6 DEF OInv, Helper, Trees
<1>8. Good(d, Begun) BY <1>4, DropsGood
<1>9. Good(p, Begun) BY <1>4, <1>5, <1>8, InjectedGood
<1>10. Good(page', Begun) BY <1>2, <1>7, <1>9, DocumentChanged
<1>. QED BY <1>1, <1>7, <1>10, AllButBegun DEF OInv, Helper, History

LEMMA MountedKeeps ==
  ASSUME OInv, NEW r \in page.reads, Mounted(r) \/ NotMounted(r)
  PROVE  OInv'
<1> DEFINE d == Drops(r)
           p == Injected(r, d, dom[r.id])
<1>1. UNCHANGED <<posts, begun, decided, unsent, givenUp, server, source, dom, frames>>
  BY DEF Mounted, NotMounted, helperVars, stream, history
<1>2. page' = d \/ page' = p BY DEF Mounted, NotMounted
<1>3. d = Drops(r) /\ p = Injected(r, d, dom[r.id]) OBVIOUS
<1> HIDE DEF d, p
<1>4. Good(d, Begun) BY <1>3, DropsGood
<1>5. None \notin Begun BY BegunAre DEF OInv
<1>6. Good(p, Begun) BY <1>3, <1>4, <1>5, InjectedGood
<1>. QED BY <1>1, <1>2, <1>4, <1>6, PageAndPosts DEF OInv

LEMMA GiveUpKeeps == ASSUME OInv, NEW r \in page.reads, GiveUp(r) PROVE OInv'
<1> DEFINE d == Drops(r)
<1>1. UNCHANGED <<posts, begun, decided, unsent, server, source, dom, frames>>
  BY DEF GiveUp, helperVars, stream
<1>2. page' = Cleanup(d) /\ givenUp' = givenUp \cup {r.id} BY DEF GiveUp
<1>3. Good(d, Begun) BY DropsGood
<1> HIDE DEF d
<1>4. None \notin Begun BY BegunAre DEF OInv
<1>5. Good(page', Begun) BY <1>2, <1>3, <1>4, CleanupGood DEF Good
<1>6. r.id \in Begun BY DEF OInv, Good, Pages, Reads
<1>7. givenUp' \subseteq Begun BY <1>2, <1>6 DEF OInv, History
<1>. QED BY <1>1, <1>5, <1>7, AllButBegun DEF OInv, Helper, History

LEMMA MissingKeeps == ASSUME OInv, NEW r \in page.reads, Missing(r) PROVE OInv'
<1> DEFINE d == Drops(r)
<1>1. UNCHANGED <<begun, decided, unsent, givenUp, server, source, dom, frames>>
  BY DEF Missing, helperVars, stream, history
<1>2. page' = d \/ page' = Cleanup(MarkHandled(d)) BY DEF Missing
<1>3. posts' = posts \/ posts' = posts \cup {Post(page, "discard", r.id)} BY DEF Missing
<1>4. None \notin Begun BY BegunAre DEF OInv
<1>5. Good(d, Begun) BY DropsGood
<1> HIDE DEF d
<1>6. Good(page', Begun) BY <1>2, <1>4, <1>5, MarkedAndCleared DEF Good
<1>7. page \in Pages(Begun) /\ r.id \in Begun BY DEF OInv, Good, Pages, Reads
<1>8. Post(page, "discard", r.id) \in Posts(Begun) BY <1>7, PostIsPost
<1>9. posts' \subseteq Posts(Begun) BY <1>3, <1>8 DEF OInv
<1>. QED BY <1>1, <1>6, <1>9, PageAndPosts

LEMMA HmrKeeps == ASSUME OInv, NEW s \in Sessions, Hmr(s) PROVE OInv'
<1>1. UNCHANGED <<posts, begun, decided, unsent, givenUp, server, source, frames>>
  BY DEF Hmr, helperVars, stream, history
<1>2. dom' \in Trees(Begun) BY DEF Hmr, OInv, Helper, Trees
<1>3. \E w \in Found(dom') : page' = Mutated(page, dom', s, w) BY DEF Hmr
<1>4. Good(page', Begun) BY <1>2, <1>3, DocumentChanged DEF OInv
<1>. QED BY <1>1, <1>2, <1>4, AllButBegun DEF OInv, Helper, History

\* A document that has just loaded knows what is in localStorage.
Loaded == [Fresh EXCEPT !.saved = page.saved, !.handled = page.handled]

LEMMA FreshGood ==
  ASSUME OInv, NEW f, f = Loaded
  PROVE  /\ Good(f, Begun)
         /\ f.current = None /\ f.pending = None /\ f.observer = None /\ ~f.arrived
         /\ f.state = "PICKING" /\ f.reads = {} /\ f.captures = {}
         /\ f.saved = page.saved /\ f.handled = page.handled
<1>1. f = [state |-> "PICKING", current |-> None, arrived |-> FALSE, file |-> FALSE,
           pending |-> None, awaiting |-> None, timer |-> FALSE, observer |-> None,
           scouting |-> FALSE, reads |-> {}, captures |-> {}, gate |-> None,
           saved |-> page.saved, handled |-> page.handled]
  BY DEF Fresh, Loaded
<1>2. page.saved \in Storage(Begun) /\ page.handled \subseteq Begun
  BY DEF OInv, Good, Pages
<1>3. f \in Pages(Begun) BY <1>1, <1>2 DEF Pages, States
<1>4. page.saved.id \notin page.handled BY DEF OInv, Good
<1>5. None \notin Begun BY BegunAre DEF OInv
<1>. QED BY <1>1, <1>2, <1>3, <1>4, <1>5 DEF Good

\* The document that is loaded shows wrappers of the source.
LEMMA ReloadedDocument ==
  ASSUME OInv, Reload
  PROVE  /\ dom' \in Trees(Begun)
         /\ \A s \in Sessions : dom'[s] \in {dom[s], source[s], "none"}
<1>1. PICK closed \in SUBSET (Compiled \cap Wrappers(source)) :
        dom' = [s \in Sessions |-> IF s \in closed THEN "none" ELSE source[s]]
  BY DEF Reload
<1>2. source \in Trees(Begun) BY DEF OInv, Helper
<1>. QED BY <1>1, <1>2 DEF Trees, Wrapper

LEMMA ReloadKeeps == ASSUME OInv, Reload PROVE OInv'
<1>1. UNCHANGED <<begun, decided, unsent, givenUp, server, source>> BY DEF Reload, helperVars, history
<1>2. dom' \in Trees(Begun) BY ReloadedDocument
<1>3. None \notin Begun BY BegunAre DEF OInv
<1> DEFINE f == Loaded
<1>4. PICK w \in Found(dom') :
        LET p == Resume(f, dom', w) IN
        page' = [p EXCEPT !.scouting = p.current = None \/ w = None]
  BY DEF Reload, Loaded
<1> DEFINE p == Resume(f, dom', w)
           sc == p.current = None \/ w = None
<1>5. page' = [p EXCEPT !.scouting = sc] /\ p = Resume(f, dom', w) BY <1>4
<1>6. w \in Begun \cup {None} BY <1>2, FoundBegun
<1>7. Good(f, Begun) BY FreshGood
<1> HIDE DEF f, p
<1>8. Good(p, Begun) BY <1>3, <1>5, <1>6, <1>7, ResumeGood
<1>9. sc \in BOOLEAN OBVIOUS
<1> HIDE DEF sc
<1>10. page' \in Pages(Begun) BY <1>5, <1>8, <1>9 DEF Good, Pages
<1>11. Good(page', Begun) BY <1>5, <1>8, <1>10 DEF Good, Pages
<1>12. posts' \subseteq Posts(Begun)
  <2>1. posts' = {[q EXCEPT !.deaf = TRUE] : q \in {x \in posts : x.at = "out" /\ ~Gated(x)}}
    BY DEF Reload
  <2>2. \A q \in posts : [q EXCEPT !.deaf = TRUE] \in Posts(Begun)
    <3> SUFFICES ASSUME NEW q \in posts PROVE [q EXCEPT !.deaf = TRUE] \in Posts(Begun) OBVIOUS
    <3>. QED BY DEF OInv, Posts
  <2>. QED BY <2>1, <2>2
<1>13. frames' \in Seq(Frames(Begun)) BY DEF Reload
<1>. QED BY <1>1, <1>2, <1>11, <1>12, <1>13, AllButBegun DEF OInv, Helper, History
----------------------------------------------------------------------------
LEMMA StutterKeeps == ASSUME OInv, UNCHANGED vars PROVE OInv'
<1>1. UNCHANGED <<page, posts, begun, decided, unsent, givenUp, server, source, dom, frames>>
  BY DEF vars, helperVars, stream, history
<1>. QED BY <1>1, PageAndPosts DEF OInv

LEMMA NextKeeps == ASSUME OInv, [Next]_vars PROVE OInv'
<1>1. CASE Progress
  <2>1. ASSUME NEW q \in posts, Arrive(q) \/ Reply(q) PROVE OInv'
    BY <2>1, ArriveKeeps, ReplyKeeps
  <2>2. ASSUME NEW s \in page.captures, Captured(s) PROVE OInv'
    BY <2>2, CapturedKeeps
  <2>3. ASSUME NEW r \in page.reads,
               \/ Delayed(r) \/ Retry(r) \/ Fetched(r) \/ Missing(r)
               \/ Mounted(r) \/ GiveUp(r) \/ NotMounted(r)
        PROVE  OInv'
    BY <2>3, DelayedKeeps, FetchedKeeps, MissingKeeps, MountedKeeps, GiveUpKeeps
  <2>4. CASE FireCheckpoint \/ Connect \/ Receive
    BY <2>4, FireCheckpointKeeps, ConnectKeeps, ReceiveKeeps
  <2>. QED BY <1>1, <2>1, <2>2, <2>3, <2>4 DEF Progress
<1>2. CASE Pick \/ Leave \/ Accept \/ Discard BY <1>2, PickKeeps, AcceptKeeps, DiscardKeeps
<1>3. ASSUME NEW annotated \in BOOLEAN, Go(annotated) PROVE OInv' BY <1>3, GoKeeps
<1>4. ASSUME NEW q \in posts, Lose(q) PROVE OInv' BY <1>4, LoseKeeps
<1>5. ASSUME NEW s \in Sessions,
             Scaffold(s) \/ Generate(s) \/ Finish(s) \/ Fail(s) \/ CarryOut(s) \/ Hmr(s)
      PROVE  OInv'
  BY <1>5, SourceKeeps, FinishKeeps, CarryOutKeeps, HmrKeeps
<1>6. CASE Drop \/ Reload BY <1>6, DropKeeps, ReloadKeeps
<1>7. ASSUME NEW r \in page.reads, AnchorMissing(r) \/ Retry(r) PROVE OInv'
  BY <1>7, AnchorMissingKeeps, DelayedKeeps
<1>8. CASE UNCHANGED vars BY <1>8, StutterKeeps
<1>. QED BY <1>1, <1>2, <1>3, <1>4, <1>5, <1>6, <1>7, <1>8 DEF Next

\* Every variable has its type: the page's record, the posts that are not
\* settled, what the helper, the source and the page have of each session.
THEOREM OverlayTypes == Spec => []TypeOK
<1>1. ASSUME OInv PROVE TypeOK
  <2>1. Begun \subseteq Sessions BY <1>1, BegunAre DEF OInv
  <2>2. Begun \cup {None} \subseteq Ids BY <2>1, OverlayAssumption DEF Ids, Sessions, None
  <2>3. page \in Pages(Begun) BY <1>1 DEF OInv, Good
  <2>4. page.saved \in [id : Ids, state : States, arrived : BOOLEAN, file : BOOLEAN]
    BY <2>2, <2>3 DEF Pages, Storage
  <2>5. /\ page.state \in States /\ page.current \in Ids /\ page.pending \in Ids
        /\ page.awaiting \in Ids /\ page.observer \in Ids /\ page.gate \in Ids
        /\ page.arrived \in BOOLEAN /\ page.file \in BOOLEAN /\ page.timer \in BOOLEAN
        /\ page.scouting \in BOOLEAN /\ page.handled \subseteq Sessions
    BY <2>1, <2>2, <2>3 DEF Pages
  <2>6. \A q \in posts : q.id \in Sessions /\ q.at \in {"out", "ok", "refused", "failed"}
    BY <1>1, <2>1 DEF OInv, Posts
  <2>7. /\ server \in [Sessions -> {"none", "open", "done", "failed", "accepted", "discarded", "over"}]
        /\ source \in [Sessions -> Wrapper] /\ dom \in [Sessions -> Wrapper]
    BY <1>1 DEF OInv, Helper, Servers, Trees, Phases
  <2>8. begun \in Ids /\ decided \subseteq Sessions /\ unsent \subseteq Sessions /\ givenUp \subseteq Sessions
    BY <1>1, <2>1 DEF OInv, History
  <2>. QED BY <2>4, <2>5, <2>6, <2>7, <2>8 DEF TypeOK
<1>. QED BY <1>1, InitHolds, NextKeeps, PTL DEF Spec

\* A session that the page is done with (markSessionHandled) never comes back
\* in it, neither as the current one nor in localStorage, whatever wrappers
\* the source and the page still have and whatever the helper lists.
THEOREM OverlayLeavesHandled == Spec => []HandledIsLeft
<1>1. ASSUME OInv PROVE HandledIsLeft BY <1>1 DEF OInv, Good, HandledIsLeft
<1>. QED BY <1>1, InitHolds, NextKeeps, PTL DEF Spec
-----------------------------------------------------------------------------
(***************************************************************************)
(* One thing at a time.  The page deals with one session b, the last that  *)
(* has begun: it is the only one that is current, saved, decided on, read  *)
(* or posted about.  v says that its variants have been in the source.     *)
(***************************************************************************)
Near(p, b, v) ==
  /\ {p.current, p.saved.id, p.pending, p.observer} \subseteq {None, b}
  /\ p.captures = {}
  /\ \A r \in p.reads : r.id = b /\ (r.orphan \/ r.completed => v)
  /\ p.arrived \/ p.state = "CYCLING" \/ p.pending # None => v
  /\ p.saved.arrived \/ p.saved.state = "CYCLING" => v

\* The page has the session, now and after a reload.
Kept == {"GENERATING", "CYCLING"}
Stored(p, b) == p.saved.id = b /\ p.saved.state \in Kept /\ b \notin p.handled
Holds(p, b) == p.current = b /\ p.state \in Kept /\ Stored(p, b)

Same(p, r) == r.handled = p.handled /\ r.gate = p.gate
Timely(list, b, v) == \A s \in Sessions : Completed(list, s) => s = b /\ v
\* The wrappers a page may find.
Expected(d, w, p, b, v) ==
  /\ w \in {None, b} \/ w \in p.handled
  /\ d[b] = "variants" => v

LEMMA SaveFields ==
  ASSUME NEW N, NEW p \in Pages(N), NEW r, r = Save(p)
  PROVE  /\ r.state = p.state /\ r.current = p.current /\ r.arrived = p.arrived
         /\ r.pending = p.pending /\ r.observer = p.observer /\ r.reads = p.reads
         /\ r.captures = p.captures /\ Same(p, r)
         /\ p.current = None => r.saved = p.saved
         /\ p.current # None =>
              r.saved.id = p.current /\ r.saved.state = p.state /\ r.saved.arrived = p.arrived
<1> DEFINE c == [id |-> p.current, state |-> p.state, arrived |-> p.arrived, file |-> p.file]
<1>1. CASE p.current = None BY <1>1 DEF Save, Same
<1>2. CASE p.current # None
  <2>1. r = [p EXCEPT !.saved = c] BY <1>2 DEF Save
  <2> HIDE DEF c
  <2>2. /\ r.state = p.state /\ r.current = p.current /\ r.arrived = p.arrived
        /\ r.pending = p.pending /\ r.observer = p.observer /\ r.reads = p.reads
        /\ r.captures = p.captures /\ r.handled = p.handled /\ r.gate = p.gate /\ r.saved = c
    BY <2>1 DEF Pages
  <2>. QED BY <1>2, <2>2 DEF c, Same
<1>. QED BY <1>1, <1>2

LEMMA SaveNear ==
  ASSUME NEW N, NEW p \in Pages(N), NEW b, b # None, NEW v \in BOOLEAN, Near(p, b, v), NEW r, r = Save(p)
  PROVE  /\ Near(r, b, v) /\ Same(p, r)
         /\ p.current = b /\ p.state \in Kept /\ b \notin p.handled => Holds(r, b)
<1>1. /\ r.state = p.state /\ r.current = p.current /\ r.arrived = p.arrived
      /\ r.pending = p.pending /\ r.observer = p.observer /\ r.reads = p.reads
      /\ r.captures = p.captures /\ Same(p, r)
      /\ p.current = None => r.saved = p.saved
      /\ p.current # None =>
           r.saved.id = p.current /\ r.saved.state = p.state /\ r.saved.arrived = p.arrived
  BY SaveFields
<1>2. {r.current, r.saved.id, r.pending, r.observer} \subseteq {None, b} BY <1>1 DEF Near
<1>3. r.saved.arrived \/ r.saved.state = "CYCLING" => v
  <2>1. CASE p.current = None BY <1>1, <2>1 DEF Near
  <2>2. CASE p.current # None BY <1>1, <2>2 DEF Near
  <2>. QED BY <2>1, <2>2
<1>4. Near(r, b, v) BY <1>1, <1>2, <1>3 DEF Near
<1>. QED BY <1>1, <1>4 DEF Holds, Stored, Same

\* r is p, with the session c restored.
IsRestored(r, p, c, list) ==
  /\ r.state = "GENERATING" /\ r.current = c.id /\ r.observer = c.id
  /\ r.arrived = (c.arrived \/ list[c.id] = "done")
  /\ r.pending = p.pending /\ r.captures = p.captures /\ Same(p, r)
  /\ r.reads \subseteq p.reads \cup {Read(c.id, Tries(c.id), FALSE, c.state = "CYCLING")}
  /\ r.saved.id = c.id /\ r.saved.state = "GENERATING" /\ r.saved.arrived = r.arrived

LEMMA RestoredFields ==
  ASSUME NEW N, NEW p \in Pages(N), NEW list \in Lists(N), None \notin N,
         NEW c, c = Cache(p, list), c.id # None, NEW r, r = Restored(p, list)
  PROVE  IsRestored(r, p, c, list)
<1> DEFINE f == p.file \/ c.file \/ Completed(list, c.id)
           a == c.arrived \/ list[c.id] = "done"
           q == [p EXCEPT !.current = c.id, !.state = "GENERATING", !.file = f,
                          !.arrived = a, !.observer = c.id]
           s == Save(q)
           t == Unknown(c.id) \/ ~a
           rd == Read(c.id, Tries(c.id), FALSE, c.state = "CYCLING")
           rs == IF f THEN s.reads \cup {rd} ELSE s.reads
<1>1. c \in Storage(N) BY CacheIsStorage
<1>2. r = [s EXCEPT !.timer = t, !.reads = rs] BY DEF Restored
<1>3. c.id \in N BY <1>1 DEF Storage
<1>4. f \in BOOLEAN /\ a \in BOOLEAN OBVIOUS
<1>5. s = Save(q) /\ q = [p EXCEPT !.current = c.id, !.state = "GENERATING", !.file = f,
                                   !.arrived = a, !.observer = c.id]
      /\ rs \subseteq s.reads \cup {rd} /\ a = (c.arrived \/ list[c.id] = "done")
      /\ rd = Read(c.id, Tries(c.id), FALSE, c.state = "CYCLING")
  OBVIOUS
<1> HIDE DEF f, a, t, rd, rs, s, q
<1>6. /\ q.current = c.id /\ q.state = "GENERATING" /\ q.arrived = a /\ q.observer = c.id
      /\ q.pending = p.pending /\ q.captures = p.captures /\ q.reads = p.reads /\ Same(p, q)
  BY <1>5 DEF Pages, Same
<1>7. q \in Pages(N)
  <2>1. q = [state |-> "GENERATING", current |-> c.id, arrived |-> a, file |-> f,
             pending |-> p.pending, awaiting |-> p.awaiting, timer |-> p.timer,
             observer |-> c.id, scouting |-> p.scouting, reads |-> p.reads,
             captures |-> p.captures, gate |-> p.gate, saved |-> p.saved,
             handled |-> p.handled]
    BY <1>5 DEF Pages
  <2>. QED BY <1>3, <1>4, <2>1 DEF Pages, States
<1>8. /\ s.state = q.state /\ s.current = q.current /\ s.arrived = q.arrived
      /\ s.pending = q.pending /\ s.observer = q.observer /\ s.reads = q.reads
      /\ s.captures = q.captures /\ Same(q, s)
      /\ q.current # None =>
           s.saved.id = q.current /\ s.saved.state = q.state /\ s.saved.arrived = q.arrived
  <2>1. s = Save(q) /\ q \in Pages(N) BY <1>5, <1>7
  <2>. QED BY <2>1, SaveFields
<1>9. s.saved.id = c.id /\ s.saved.state = "GENERATING" /\ s.saved.arrived = a BY <1>6, <1>8
<1>10. s \in Pages(N)
  <2>1. s = Save(q) /\ q.current \in N BY <1>3, <1>5, <1>6
  <2> DEFINE d == [id |-> q.current, state |-> q.state, arrived |-> q.arrived, file |-> q.file]
  <2>2. s = [q EXCEPT !.saved = d] BY <2>1 DEF Save
  <2>3. d \in Storage(N) BY <1>7, <2>1 DEF Storage, Pages
  <2> HIDE DEF d
  <2>. QED BY <1>7, <2>2, <2>3 DEF Pages
<1>11. /\ r.state = s.state /\ r.current = s.current /\ r.arrived = s.arrived
       /\ r.pending = s.pending /\ r.observer = s.observer /\ r.reads = rs
       /\ r.captures = s.captures /\ Same(s, r) /\ r.saved = s.saved
  BY <1>2, <1>10 DEF Pages, Same
<1>12. Same(p, r) BY <1>6, <1>8, <1>11 DEF Same
<1>13. r.reads \subseteq p.reads \cup {rd} BY <1>5, <1>6, <1>8, <1>11
<1>14. r.saved.id = c.id /\ r.saved.state = "GENERATING" /\ r.saved.arrived = a BY <1>9, <1>11
<1>15. /\ r.state = "GENERATING" /\ r.current = c.id /\ r.observer = c.id /\ r.arrived = a
       /\ r.pending = p.pending /\ r.captures = p.captures
  BY <1>6, <1>8, <1>11
<1>. QED BY <1>5, <1>12, <1>13, <1>14, <1>15 DEF IsRestored

LEMMA UnlistedTimely == ASSUME NEW b, NEW v PROVE Timely(Unlisted, b, v)
BY DEF Timely, Unlisted, Completed

LEMMA RestoredNear ==
  ASSUME NEW N, None \notin N, N \subseteq Sessions, NEW p, Good(p, N), NEW list \in Lists(N),
         NEW b, b # None, NEW v \in BOOLEAN, Near(p, b, v), Timely(list, b, v),
         Restorable(p, list), NEW r, r = Restored(p, list)
  PROVE  Near(r, b, v) /\ Same(p, r) /\ Holds(r, b)
<1> DEFINE c == Cache(p, list)
<1>1. p \in Pages(N) BY DEF Good
<1>2. c \in Storage(N) BY <1>1, CacheIsStorage
<1>3. c.id # None /\ c.id \notin p.handled BY DEF Restorable
<1>4. c.id = b /\ (c.arrived \/ c.state = "CYCLING" => v)
  <2>1. CASE p.saved.id # None BY <2>1 DEF Cache, Near
  <2>2. CASE p.saved.id = None
    <3>1. Adoptable(p, list) # {} BY <1>3, <2>2 DEF Cache, NotSaved
    <3> DEFINE s == CHOOSE a \in Adoptable(p, list) : TRUE
    <3>2. s \in Adoptable(p, list) BY <3>1
    <3> HIDE DEF s
    <3>3. s = b /\ v BY <3>2 DEF Adoptable, Timely
    <3>4. c = [id |-> s, state |-> "GENERATING", arrived |-> list[s] = "done", file |-> TRUE]
      BY <2>2, <3>1 DEF Cache, s
    <3>. QED BY <3>3, <3>4
  <2>. QED BY <2>1, <2>2
<1>5. list[c.id] = "done" => v BY <1>2, <1>3 DEF Timely, Completed, Storage
<1>6. c = Cache(p, list) OBVIOUS
<1> HIDE DEF c
<1>7. /\ r.state = "GENERATING" /\ r.current = b /\ r.observer = b
      /\ r.arrived = (c.arrived \/ list[c.id] = "done")
      /\ r.pending = p.pending /\ r.captures = p.captures /\ Same(p, r)
      /\ r.reads \subseteq p.reads \cup {Read(b, Tries(b), FALSE, c.state = "CYCLING")}
      /\ r.saved.id = b /\ r.saved.state = "GENERATING" /\ r.saved.arrived = r.arrived
  <2>1. c.id # None BY <1>3
  <2>2. IsRestored(r, p, c, list) BY <1>1, <1>6, <2>1, RestoredFields
  <2>. QED BY <1>4, <2>2 DEF IsRestored
<1>8. \A x \in r.reads : x.id = b /\ (x.orphan \/ x.completed => v)
  <2> SUFFICES ASSUME NEW x \in r.reads PROVE x.id = b /\ (x.orphan \/ x.completed => v) OBVIOUS
  <2>1. CASE x \in p.reads BY <2>1 DEF Near
  <2>2. CASE x = Read(b, Tries(b), FALSE, c.state = "CYCLING") BY <1>4, <2>2 DEF Read
  <2>. QED BY <1>7, <2>1, <2>2
<1>9. r.arrived => v BY <1>4, <1>5, <1>7
<1>10. Near(r, b, v) BY <1>7, <1>8, <1>9 DEF Near
<1>11. b \notin r.handled BY <1>3, <1>4, <1>7 DEF Same
<1>. QED BY <1>7, <1>10, <1>11 DEF Holds, Stored, Kept

LEMMA FromWrapperNear ==
  ASSUME NEW N, NEW p, Good(p, N), NEW b \in N, b # None, NEW v \in BOOLEAN, Near(p, b, v),
         NEW d, d[b] = "variants" => v, b \notin p.handled, NEW r, r = FromWrapper(p, d, b)
  PROVE  Near(r, b, v) /\ Same(p, r) /\ Holds(r, b)
<1> DEFINE a == d[b] = "variants"
           f == p.file \/ (p.saved.id = b /\ p.saved.file)
           st == IF a THEN "CYCLING" ELSE "GENERATING"
           q == [p EXCEPT !.current = b, !.arrived = a, !.file = f, !.state = st]
           s == Save(q)
           t == ~a
<1>1. r = [s EXCEPT !.timer = t, !.observer = b] BY DEF FromWrapper
<1>2. a \in BOOLEAN /\ f \in BOOLEAN /\ t \in BOOLEAN /\ (a => v) OBVIOUS
<1>3. st \in Kept /\ st \in States /\ (st = "CYCLING" => v) BY DEF States, Kept
<1>4. s = Save(q) /\ q = [p EXCEPT !.current = b, !.arrived = a, !.file = f, !.state = st] OBVIOUS
<1> HIDE DEF a, f, t, st, s, q
<1>5. p \in Pages(N) BY DEF Good
<1>6. /\ q.current = b /\ q.state = st /\ q.arrived = a /\ q.observer = p.observer
      /\ q.pending = p.pending /\ q.captures = p.captures /\ q.reads = p.reads
      /\ q.saved = p.saved /\ Same(p, q)
  BY <1>4, <1>5 DEF Pages, Same
<1>7. q \in Pages(N)
  <2>1. q = [state |-> st, current |-> b, arrived |-> a, file |-> f,
             pending |-> p.pending, awaiting |-> p.awaiting, timer |-> p.timer,
             observer |-> p.observer, scouting |-> p.scouting, reads |-> p.reads,
             captures |-> p.captures, gate |-> p.gate, saved |-> p.saved,
             handled |-> p.handled]
    BY <1>4, <1>5 DEF Pages
  <2>. QED BY <1>2, <1>3, <1>5, <2>1 DEF Pages
<1>8. Near(q, b, v) BY <1>2, <1>3, <1>6 DEF Near
<1>9. b \notin q.handled BY <1>6 DEF Same
<1>10. Near(s, b, v) /\ Same(q, s) /\ Holds(s, b)
  <2>1. s = Save(q) /\ q.current = b /\ q.state \in Kept BY <1>3, <1>4, <1>6
  <2>. QED BY <1>7, <1>8, <1>9, <2>1, SaveNear
<1>11. s \in Pages(N)
  <2> DEFINE e == [id |-> q.current, state |-> q.state, arrived |-> q.arrived, file |-> q.file]
  <2>1. s = [q EXCEPT !.saved = e] BY <1>4, <1>6 DEF Save
  <2>2. e \in Storage(N) BY <1>6, <1>7 DEF Storage, Pages
  <2> HIDE DEF e
  <2>. QED BY <1>7, <2>1, <2>2 DEF Pages
<1>12. /\ r.state = s.state /\ r.current = s.current /\ r.arrived = s.arrived
       /\ r.pending = s.pending /\ r.observer = b /\ r.reads = s.reads
       /\ r.captures = s.captures /\ Same(s, r) /\ r.saved = s.saved
  BY <1>1, <1>11 DEF Pages, Same
<1>13. Near(r, b, v) BY <1>10, <1>12 DEF Near
<1>14. Holds(r, b) BY <1>10, <1>12 DEF Holds, Stored, Same
<1>. QED BY <1>6, <1>10, <1>12, <1>13, <1>14 DEF Same

\* A page with nothing under way is resumed from localStorage.
LEMMA StoredIsRestorable ==
  ASSUME NEW p, NEW b, b # None, Stored(p, b)
  PROVE  Restorable(p, Unlisted)
<1>1. Listed(Unlisted) = {} BY DEF Listed, Unlisted
<1>. QED BY <1>1 DEF Restorable, Cache, Stored, Kept

LEMMA ResumeNear ==
  ASSUME NEW N, None \notin N, N \subseteq Sessions, NEW p, Good(p, N), NEW b \in N,
         NEW v \in BOOLEAN, Near(p, b, v), NEW d, NEW w, Expected(d, w, p, b, v),
         NEW r, r = Resume(p, d, w)
  PROVE  /\ Near(r, b, v) /\ Same(p, r)
         /\ Stored(p, b) /\ (p.current = None \/ Holds(p, b)) => Holds(r, b)
<1>0. b # None /\ p \in Pages(N) BY DEF Good
<1>1. ASSUME Restorable(p, Unlisted), r = Restored(p, Unlisted)
      PROVE  Near(r, b, v) /\ Same(p, r) /\ Holds(r, b)
  BY <1>0, <1>1, UnlistedIsList, UnlistedTimely, RestoredNear
<1>2. CASE w \in p.handled
  <2>1. CASE Newer(p, w) BY <1>1, <1>2, <2>1 DEF Resume, Newer
  <2>2. CASE ~Newer(p, w)
    <3>1. r = p BY <1>2, <2>2 DEF Resume
    <3>2. ASSUME Stored(p, b), p.current = None PROVE FALSE
      <4>1. p.saved.id = b /\ w # b BY <1>2, <3>2 DEF Stored
      <4>. QED BY <1>0, <2>2, <3>2, <4>1, StoredIsRestorable DEF Newer
    <3>. QED BY <3>1, <3>2 DEF Same
  <2>. QED BY <2>1, <2>2
<1>3. CASE w \notin p.handled /\ w = None
  <2>1. r = FromStorage(p) BY <1>3 DEF Resume
  <2>2. CASE Restorable(p, Unlisted) BY <1>1, <2>1, <2>2 DEF FromStorage
  <2>3. CASE ~Restorable(p, Unlisted)
    <3>1. r = [p EXCEPT !.saved = NotSaved] BY <2>1, <2>3 DEF FromStorage
    <3>2. NotSaved.id = None /\ ~NotSaved.arrived /\ NotSaved.state # "CYCLING" BY DEF NotSaved
    <3>3. /\ r.current = p.current /\ r.saved = NotSaved /\ r.pending = p.pending
          /\ r.observer = p.observer /\ r.captures = p.captures /\ r.reads = p.reads
          /\ r.arrived = p.arrived /\ r.state = p.state /\ Same(p, r)
      BY <1>0, <3>1 DEF Pages, Same
    <3>4. Near(r, b, v) BY <3>2, <3>3 DEF Near
    <3>5. ~Stored(p, b) BY <1>0, <2>3, StoredIsRestorable
    <3>. QED BY <3>3, <3>4, <3>5
  <2>. QED BY <2>2, <2>3
<1>4. CASE w \notin p.handled /\ w # None
  <2>1. w = b /\ (d[b] = "variants" => v) BY <1>4 DEF Expected
  <2>2. r = FromWrapper(p, d, b) BY <1>4, <2>1 DEF Resume
  <2>. QED BY <1>0, <1>4, <2>1, <2>2, FromWrapperNear
<1>. QED BY <1>2, <1>3, <1>4

LEMMA HoldsIsStored ==
  ASSUME NEW p, NEW b, Holds(p, b) PROVE Stored(p, b)
BY DEF Holds

LEMMA ScoutNear ==
  ASSUME NEW N, None \notin N, N \subseteq Sessions, NEW p, Good(p, N), NEW b \in N,
         NEW v \in BOOLEAN, Near(p, b, v), NEW d, NEW w, Expected(d, w, p, b, v),
         NEW r, r = Scout(p, d, w)
  PROVE  Near(r, b, v) /\ Same(p, r) /\ (Holds(p, b) => Holds(r, b))
<1> DEFINE q == [p EXCEPT !.scouting = FALSE]
<1>1. r = Resume(q, d, w) \/ r = p BY DEF Scout
<1>2. q \in Pages(N) BY DEF Good, Pages
<1>3. /\ q.current = p.current /\ q.saved = p.saved /\ q.pending = p.pending
      /\ q.observer = p.observer /\ q.captures = p.captures /\ q.reads = p.reads
      /\ q.arrived = p.arrived /\ q.state = p.state /\ Same(p, q)
  BY DEF Good, Pages, Same
<1> HIDE DEF q
<1>4. Good(q, N) BY <1>2, <1>3 DEF Good, Same
<1>5. Near(q, b, v) BY <1>3 DEF Near
<1>6. Expected(d, w, q, b, v) BY <1>3 DEF Expected, Same
<1>7. Holds(p, b) => Holds(q, b) BY <1>3 DEF Holds, Stored, Same
<1>8. CASE r = p BY <1>8 DEF Same
<1>9. CASE r = Resume(q, d, w)
  <2>1. Near(r, b, v) /\ Same(q, r) /\ (Stored(q, b) /\ Holds(q, b) => Holds(r, b))
    BY <1>4, <1>5, <1>6, <1>9, ResumeNear
  <2>. QED BY <1>3, <1>7, <2>1, HoldsIsStored DEF Same
<1>. QED BY <1>1, <1>8, <1>9

LEMMA ObserveNear ==
  ASSUME NEW N, NEW p, Good(p, N), NEW b, b # None, NEW v \in BOOLEAN, Near(p, b, v),
         NEW d, d[b] = "variants" => v, NEW s, NEW r, r = Observe(p, d, s)
  PROVE  Near(r, b, v) /\ Same(p, r) /\ (Holds(p, b) => Holds(r, b))
<1> DEFINE q == [p EXCEPT !.arrived = TRUE, !.state = "CYCLING"]
           z == Save(q)
<1>1. CASE r = p BY <1>1 DEF Same
<1>2. CASE r # p
  <2>1. r = z /\ p.observer # None /\ d[p.observer] = "variants" BY <1>2 DEF Observe
  <2>2. v BY <2>1 DEF Near
  <2>3. q \in Pages(N) BY DEF Good, Pages, States
  <2>4. /\ q.current = p.current /\ q.saved = p.saved /\ q.pending = p.pending
        /\ q.observer = p.observer /\ q.captures = p.captures /\ q.reads = p.reads
        /\ q.state = "CYCLING" /\ Same(p, q)
    BY DEF Good, Pages, Same
  <2>5. z = Save(q) OBVIOUS
  <2> HIDE DEF q, z
  <2>6. Near(q, b, v) BY <2>2, <2>4 DEF Near
  <2>7. Near(z, b, v) /\ Same(q, z) /\ (q.current = b /\ q.state \in Kept /\ b \notin q.handled => Holds(z, b))
    BY <2>3, <2>5, <2>6, SaveNear
  <2>8. Holds(p, b) => Holds(z, b) BY <2>4, <2>7 DEF Holds, Stored, Same, Kept
  <2>. QED BY <2>1, <2>4, <2>7, <2>8 DEF Same
<1>. QED BY <1>1, <1>2

LEMMA MutatedNear ==
  ASSUME NEW N, None \notin N, N \subseteq Sessions, NEW p, Good(p, N), NEW b \in N,
         NEW v \in BOOLEAN, Near(p, b, v), NEW d, NEW w \in N \cup {None},
         Expected(d, w, p, b, v), NEW s, NEW r, r = Mutated(p, d, s, w)
  PROVE  Near(r, b, v) /\ Same(p, r) /\ (Holds(p, b) => Holds(r, b))
<1> DEFINE q == Scout(p, d, w)
<1>1. r = Observe(q, d, s) BY DEF Mutated
<1>2. q = Scout(p, d, w) OBVIOUS
<1> HIDE DEF q
<1>3. Good(q, N) BY <1>2, ScoutGood
<1>4. Near(q, b, v) /\ Same(p, q) /\ (Holds(p, b) => Holds(q, b)) BY <1>2, ScoutNear
<1>5. b # None /\ (d[b] = "variants" => v) BY DEF Expected
<1>6. Near(r, b, v) /\ Same(q, r) /\ (Holds(q, b) => Holds(r, b))
  BY <1>1, <1>3, <1>4, <1>5, ObserveNear
<1>. QED BY <1>4, <1>6 DEF Same
-----------------------------------------------------------------------------
LEMMA RestoreFromListNear ==
  ASSUME NEW N, None \notin N, N \subseteq Sessions, NEW p, Good(p, N), NEW list \in Lists(N),
         NEW b, b # None, NEW v \in BOOLEAN, Near(p, b, v), Timely(list, b, v),
         NEW r, r = RestoreFromList(p, list)
  PROVE  Near(r, b, v) /\ Same(p, r) /\ (Holds(p, b) => Holds(r, b))
<1>1. CASE r = p BY <1>1 DEF Same
<1>2. CASE r # p
  <2>1. Restorable(p, list) /\ r = Restored(p, list) BY <1>2 DEF RestoreFromList
  <2>. QED BY <2>1, RestoredNear
<1>. QED BY <1>1, <1>2

\* Reads of the session, its timer and its state: what else they leave.
LEMMA ReadsNear ==
  ASSUME NEW p, NEW b, NEW v \in BOOLEAN, Near(p, b, v), NEW r, Same(p, r),
         r.current = p.current, r.saved = p.saved, r.pending = p.pending,
         r.observer = p.observer, r.captures = p.captures, r.arrived = p.arrived,
         r.state = p.state,
         \A x \in r.reads : x \in p.reads \/ (x.id = b /\ (x.orphan \/ x.completed => v))
  PROVE  Near(r, b, v) /\ (Holds(p, b) => Holds(r, b))
<1>1. \A x \in r.reads : x.id = b /\ (x.orphan \/ x.completed => v) BY DEF Near
<1>. QED BY <1>1 DEF Near, Holds, Stored, Same

\* Reads of the session, and whether the file is known, change nothing else.
LEMMA ReadNear ==
  ASSUME NEW N, NEW p \in Pages(N), NEW b, b # None, NEW v \in BOOLEAN, Near(p, b, v),
         NEW f, NEW rs, \A x \in rs : x \in p.reads \/ (x.id = b /\ (x.orphan \/ x.completed => v)),
         NEW r, r = [p EXCEPT !.file = f, !.reads = rs]
  PROVE  Near(r, b, v) /\ Same(p, r) /\ (Holds(p, b) => Holds(r, b))
<1>1. /\ r.current = p.current /\ r.saved = p.saved /\ r.pending = p.pending
      /\ r.observer = p.observer /\ r.captures = p.captures /\ r.reads = rs
      /\ r.arrived = p.arrived /\ r.state = p.state /\ Same(p, r)
  BY DEF Pages, Same
<1>2. \A x \in rs : x.id = b /\ (x.orphan \/ x.completed => v) BY DEF Near
<1>3. Near(r, b, v) BY <1>1, <1>2 DEF Near
<1>. QED BY <1>1, <1>3 DEF Holds, Stored, Same

LEMMA RecoverMissedNear ==
  ASSUME NEW N, N \subseteq Sessions, NEW p \in Pages(N), NEW b, b # None, NEW v \in BOOLEAN,
         Near(p, b, v), NEW list, Timely(list, b, v), NEW r, r = RecoverMissed(p, list)
  PROVE  Near(r, b, v) /\ Same(p, r) /\ (Holds(p, b) => Holds(r, b))
<1>1. CASE r = p BY <1>1 DEF Same
<1>2. CASE r # p
  <2> DEFINE x == Read(p.current, "timer", TRUE, FALSE)
             rs == p.reads \cup {x}
  <2>1. p.current # None /\ Completed(list, p.current) /\ r = [p EXCEPT !.file = TRUE, !.reads = rs]
    BY <1>2 DEF RecoverMissed
  <2>2. x.id = b /\ v BY <2>1 DEF Near, Read, Timely, Pages
  <2> HIDE DEF x
  <2>3. \A y \in rs : y \in p.reads \/ (y.id = b /\ (y.orphan \/ y.completed => v)) BY <2>2
  <2> HIDE DEF rs
  <2>4. /\ r.current = p.current /\ r.saved = p.saved /\ r.pending = p.pending
        /\ r.observer = p.observer /\ r.captures = p.captures /\ r.reads = rs
        /\ r.arrived = p.arrived /\ r.state = p.state /\ Same(p, r)
    BY <2>1 DEF Pages, Same
  <2>. QED BY <2>3, <2>4, ReadsNear
<1>. QED BY <1>1, <1>2

LEMMA OnConnectedNear ==
  ASSUME NEW N, None \notin N, N \subseteq Sessions, Good(page, N), NEW list \in Lists(N),
         NEW b, b # None, NEW v \in BOOLEAN, Near(page, b, v), Timely(list, b, v),
         NEW m, m.list = list, NEW r, r = OnConnected(m)
  PROVE  Near(r, b, v) /\ Same(page, r) /\ (Holds(page, b) => Holds(r, b))
<1> DEFINE q == RestoreFromList(page, list)
<1>1. r = RecoverMissed(q, list) BY DEF OnConnected
<1>2. q = RestoreFromList(page, list) OBVIOUS
<1> HIDE DEF q
<1>3. q \in Pages(N) BY <1>2, RestoreFromListGood DEF Good
<1>4. Near(q, b, v) /\ Same(page, q) /\ (Holds(page, b) => Holds(q, b))
  BY <1>2, RestoreFromListNear
<1>5. Near(r, b, v) /\ Same(q, r) /\ (Holds(q, b) => Holds(r, b))
  BY <1>1, <1>3, <1>4, RecoverMissedNear
<1>. QED BY <1>4, <1>5 DEF Same

\* A change of state within those of a session that is kept.
LEMMA StateNear ==
  ASSUME NEW N, NEW p \in Pages(N), NEW b, b # None, NEW v \in BOOLEAN, Near(p, b, v),
         NEW st, st = "CYCLING" => v, NEW r, r = [p EXCEPT !.state = st]
  PROVE  Near(r, b, v) /\ Same(p, r) /\ (st \in Kept /\ Holds(p, b) => Holds(r, b))
<1>1. /\ r.current = p.current /\ r.saved = p.saved /\ r.pending = p.pending
      /\ r.observer = p.observer /\ r.captures = p.captures /\ r.reads = p.reads
      /\ r.arrived = p.arrived /\ r.state = st /\ Same(p, r)
  BY DEF Pages, Same
<1>2. Near(r, b, v) BY <1>1 DEF Near
<1>. QED BY <1>1, <1>2 DEF Holds, Stored, Same

LEMMA OnDoneNear ==
  ASSUME NEW N, page \in Pages(N), NEW b, b # None, NEW v \in BOOLEAN, Near(page, b, v),
         NEW m, m.id # None, m.id = b => v, NEW r, r = OnDone(m)
  PROVE  Near(r, b, v) /\ Same(page, r) /\ (Holds(page, b) => Holds(r, b))
<1> DEFINE p == [page EXCEPT !.file = TRUE]
           x == Read(m.id, "timer", TRUE, FALSE)
           rs == p.reads \cup {x}
<1>1. p \in Pages(N) BY DEF Pages
<1>2. /\ p.current = page.current /\ p.saved = page.saved /\ p.pending = page.pending
      /\ p.observer = page.observer /\ p.captures = page.captures /\ p.reads = page.reads
      /\ p.arrived = page.arrived /\ p.state = page.state /\ p.file = TRUE /\ Same(page, p)
  BY DEF Pages, Same
<1>3. \/ r = p
      \/ p.arrived /\ r = [p EXCEPT !.state = "CYCLING"]
      \/ m.id = p.current /\ r = [p EXCEPT !.reads = rs]
  BY DEF OnDone
<1> HIDE DEF p
<1>4. Near(p, b, v) BY <1>2 DEF Near
<1>5. Holds(page, b) => Holds(p, b) BY <1>2 DEF Holds, Stored, Same
<1>6. CASE r = p BY <1>2, <1>4, <1>5, <1>6
<1>7. CASE p.arrived /\ r = [p EXCEPT !.state = "CYCLING"]
  <2>1. v BY <1>4, <1>7 DEF Near
  <2>2. Near(r, b, v) /\ Same(p, r) /\ ("CYCLING" \in Kept /\ Holds(p, b) => Holds(r, b))
    BY <1>1, <1>4, <1>7, <2>1, StateNear
  <2>. QED BY <1>2, <1>5, <2>2 DEF Same, Kept
<1>8. CASE m.id = p.current /\ r = [p EXCEPT !.reads = rs]
  <2>1. x.id = b /\ v BY <1>4, <1>8 DEF Near, Read
  <2> HIDE DEF x
  <2>2. \A y \in rs : y \in p.reads \/ (y.id = b /\ (y.orphan \/ y.completed => v)) BY <2>1
  <2> HIDE DEF rs
  <2>3. r = [p EXCEPT !.file = TRUE, !.reads = rs] BY <1>1, <1>2, <1>8 DEF Pages
  <2>4. Near(r, b, v) /\ Same(p, r) /\ (Holds(p, b) => Holds(r, b))
    BY <1>1, <1>4, <2>2, <2>3, ReadNear
  <2>. QED BY <1>2, <1>5, <2>4 DEF Same
<1>. QED BY <1>3, <1>6, <1>7, <1>8
----------------------------------------------------------------------------
\* r has handled what p has, and perhaps b.
Marked(p, r, b) ==
  p.handled \subseteq r.handled /\ r.handled \subseteq p.handled \cup {b} /\ r.gate = p.gate

LEMMA ClearedNear ==
  ASSUME NEW N, NEW p \in Pages(N), NEW b, b # None, NEW v \in BOOLEAN, Near(p, b, v),
         NEW r, r = Cleared(p)
  PROVE  Near(r, b, v) /\ Same(p, r)
<1>1. NotSaved.id = None /\ ~NotSaved.arrived /\ NotSaved.state # "CYCLING" BY DEF NotSaved
<1>2. r = [state |-> "PICKING", current |-> None, arrived |-> p.arrived, file |-> FALSE,
           pending |-> p.pending, awaiting |-> p.awaiting, timer |-> p.timer,
           observer |-> None, scouting |-> p.scouting, reads |-> p.reads,
           captures |-> p.captures, gate |-> p.gate, saved |-> NotSaved,
           handled |-> p.handled]
  BY DEF Cleared, Pages
<1>3. /\ r.current = None /\ r.saved = NotSaved /\ r.pending = p.pending
      /\ r.observer = None /\ r.captures = p.captures /\ r.reads = p.reads
      /\ r.arrived = p.arrived /\ r.state = "PICKING" /\ Same(p, r)
  BY <1>2 DEF Same
<1>. QED BY <1>1, <1>3 DEF Near

LEMMA CleanupNear ==
  ASSUME NEW N, None \notin N, NEW p \in Pages(N), NEW b, b # None, NEW v \in BOOLEAN, Near(p, b, v),
         NEW r, r = Cleanup(p)
  PROVE  Near(r, b, v) /\ Same(p, r)
<1> DEFINE q == Cleared(p)
           rs == Disconnected(q.reads)
<1>1. r = [q EXCEPT !.reads = rs] /\ q = Cleared(p) BY DEF Cleanup
<1>2. rs \subseteq q.reads BY DEF Disconnected
<1> HIDE DEF q, rs
<1>3. q \in Pages(N) BY <1>1, ClearedGood DEF Good
<1>4. Near(q, b, v) /\ Same(p, q) BY <1>1, ClearedNear
<1>5. /\ r.current = q.current /\ r.saved = q.saved /\ r.pending = q.pending
      /\ r.observer = q.observer /\ r.captures = q.captures /\ r.reads = rs
      /\ r.arrived = q.arrived /\ r.state = q.state /\ Same(q, r)
  BY <1>1, <1>3 DEF Pages, Same
<1>6. \A y \in rs : y \in q.reads \/ (y.id = b /\ (y.orphan \/ y.completed => v)) BY <1>2
<1>7. Near(r, b, v) BY <1>4, <1>5, <1>6, ReadsNear
<1>. QED BY <1>4, <1>5, <1>7 DEF Same

LEMMA MarkHandledNear ==
  ASSUME NEW N, NEW p \in Pages(N), NEW b, b # None, NEW v \in BOOLEAN, Near(p, b, v),
         NEW r, r = MarkHandled(p)
  PROVE  Near(r, b, v) /\ Marked(p, r, b)
<1>1. CASE p.current = None BY <1>1 DEF MarkHandled, Marked
<1>2. CASE p.current # None
  <2>1. r = [p EXCEPT !.handled = p.handled \cup {b}] BY <1>2 DEF MarkHandled, Near
  <2>2. /\ r.current = p.current /\ r.saved = p.saved /\ r.pending = p.pending
        /\ r.observer = p.observer /\ r.captures = p.captures /\ r.reads = p.reads
        /\ r.arrived = p.arrived /\ r.state = p.state /\ r.gate = p.gate
        /\ r.handled = p.handled \cup {b}
    BY <2>1 DEF Pages
  <2>3. Near(r, b, v) BY <2>2 DEF Near
  <2>. QED BY <2>2, <2>3 DEF Marked
<1>. QED BY <1>1, <1>2

LEMMA MarkedAndClearedNear ==
  ASSUME NEW N, None \notin N, NEW p \in Pages(N), NEW b, b # None, NEW v \in BOOLEAN,
         Near(p, b, v), NEW r, r = Cleanup(MarkHandled(p))
  PROVE  Near(r, b, v) /\ Marked(p, r, b)
<1> DEFINE q == MarkHandled(p)
<1>1. r = Cleanup(q) /\ q = MarkHandled(p) OBVIOUS
<1> HIDE DEF q
<1>2. q \in Pages(N) BY <1>1, MarkedPage
<1>3. Near(q, b, v) /\ Marked(p, q, b) BY <1>1, MarkHandledNear
<1>4. Near(r, b, v) /\ Same(q, r) BY <1>1, <1>2, <1>3, CleanupNear
<1>. QED BY <1>3, <1>4 DEF Marked, Same

LEMMA AcceptedAndClearedNear ==
  ASSUME NEW N, None \notin N, NEW p \in Pages(N), NEW b, b # None, NEW v \in BOOLEAN,
         Near(p, b, v), NEW a \in N \cup {None},
         NEW r, r = CleanupAccepted([MarkHandled(p) EXCEPT !.awaiting = a])
  PROVE  Near(r, b, v) /\ Marked(p, r, b)
<1> DEFINE q == MarkHandled(p)
           x == [q EXCEPT !.awaiting = a]
           y == Cleared(x)
<1>1. r = [y EXCEPT !.pending = None] BY DEF CleanupAccepted
<1>2. q = MarkHandled(p) /\ x = [q EXCEPT !.awaiting = a] /\ y = Cleared(x) OBVIOUS
<1> HIDE DEF q, x, y
<1>3. q \in Pages(N) BY <1>2, MarkedPage
<1>4. Near(q, b, v) /\ Marked(p, q, b) BY <1>2, MarkHandledNear
<1>5. x \in Pages(N) BY <1>2, <1>3 DEF Pages
<1>6. Near(x, b, v) /\ Same(q, x)
  <2>1. /\ x.current = q.current /\ x.saved = q.saved /\ x.pending = q.pending
        /\ x.observer = q.observer /\ x.captures = q.captures /\ x.reads = q.reads
        /\ x.arrived = q.arrived /\ x.state = q.state /\ Same(q, x)
    BY <1>2, <1>3 DEF Pages, Same
  <2>. QED BY <1>4, <2>1 DEF Near
<1>7. Near(y, b, v) /\ Same(x, y) BY <1>2, <1>5, <1>6, ClearedNear
<1>8. y \in Pages(N) BY <1>2, <1>5, ClearedGood DEF Good
<1>9. /\ r.current = y.current /\ r.saved = y.saved /\ r.pending = None
      /\ r.observer = y.observer /\ r.captures = y.captures /\ r.reads = y.reads
      /\ r.arrived = y.arrived /\ r.state = y.state /\ Same(y, r)
  BY <1>1, <1>8 DEF Pages, Same
<1>10. Near(r, b, v) BY <1>7, <1>9 DEF Near
<1>. QED BY <1>4, <1>6, <1>7, <1>9, <1>10 DEF Marked, Same

\* What a read brings, of a session whose variants are in the source or that
\* has not shown any.
LEMMA InjectedNear ==
  ASSUME NEW N, None \notin N, NEW p \in Pages(N), NEW b, b # None,
         NEW v \in BOOLEAN, Near(p, b, v), NEW x, x.completed => v, NEW w,
         w = "variants" => v, NEW r, r = Injected(x, p, w)
  PROVE  /\ Near(r, b, v) /\ Same(p, r)
         /\ Holds(p, b) /\ (v => w = "variants") => Holds(r, b)
<1> DEFINE rs == Disconnected(p.reads)
           o == [p EXCEPT !.reads = rs]
<1>1. rs \subseteq p.reads BY DEF Disconnected
<1>2. o = [p EXCEPT !.reads = rs] OBVIOUS
<1>3. /\ w = "variants" =>
           r = Save([o EXCEPT !.arrived = TRUE, !.state = "CYCLING", !.file = TRUE])
      /\ w # "variants" =>
           IF p.state = "GENERATING" /\ ~x.completed THEN r = [o EXCEPT !.arrived = FALSE]
           ELSE r = Cleanup([o EXCEPT !.arrived = FALSE])
  BY DEF Injected
<1> HIDE DEF rs, o
<1>4. o \in Pages(N) /\ Near(o, b, v) /\ Same(p, o) /\ (Holds(p, b) => Holds(o, b))
  <2>1. /\ o.current = p.current /\ o.saved = p.saved /\ o.pending = p.pending
        /\ o.observer = p.observer /\ o.captures = p.captures /\ o.reads = rs
        /\ o.arrived = p.arrived /\ o.state = p.state /\ Same(p, o)
    BY <1>2 DEF Pages, Same
  <2>2. o \in Pages(N) BY <1>1, <1>2 DEF Pages
  <2>3. \A y \in rs : y \in p.reads \/ (y.id = b /\ (y.orphan \/ y.completed => v)) BY <1>1
  <2>. QED BY <2>1, <2>2, <2>3, ReadsNear
<1>5. CASE w = "variants"
  <2> DEFINE q == [o EXCEPT !.arrived = TRUE, !.state = "CYCLING", !.file = TRUE]
  <2>1. r = Save(q) BY <1>3, <1>5
  <2>2. q \in Pages(N) BY <1>4 DEF Pages, States
  <2>3. /\ q.current = o.current /\ q.saved = o.saved /\ q.pending = o.pending
        /\ q.observer = o.observer /\ q.captures = o.captures /\ q.reads = o.reads
        /\ q.state = "CYCLING" /\ Same(o, q)
    BY <1>4 DEF Pages, Same
  <2> HIDE DEF q
  <2>4. Near(q, b, v) BY <1>4, <1>5, <2>3 DEF Near
  <2>5. Near(r, b, v) /\ Same(q, r) /\ (q.current = b /\ q.state \in Kept /\ b \notin q.handled => Holds(r, b))
    BY <2>1, <2>2, <2>4, SaveNear
  <2>. QED BY <1>4, <2>3, <2>5 DEF Holds, Stored, Same, Kept
<1>6. CASE w # "variants"
  <2> DEFINE q == [o EXCEPT !.arrived = FALSE]
  <2>1. IF p.state = "GENERATING" /\ ~x.completed THEN r = q ELSE r = Cleanup(q) BY <1>3, <1>6
  <2>2. q \in Pages(N) BY <1>4 DEF Pages
  <2>3. /\ q.current = o.current /\ q.saved = o.saved /\ q.pending = o.pending
        /\ q.observer = o.observer /\ q.captures = o.captures /\ q.reads = o.reads
        /\ q.state = o.state /\ ~q.arrived /\ Same(o, q)
    BY <1>4 DEF Pages, Same
  <2> HIDE DEF q
  <2>4. Near(q, b, v) BY <1>4, <2>3 DEF Near
  <2>5. Holds(o, b) => Holds(q, b) BY <2>3 DEF Holds, Stored, Same
  <2>6. CASE p.state = "GENERATING" /\ ~x.completed
    BY <1>4, <2>1, <2>3, <2>4, <2>5, <2>6 DEF Same
  <2>7. CASE ~(p.state = "GENERATING" /\ ~x.completed)
    <3>1. r = Cleanup(q) BY <2>1, <2>7
    <3>2. Near(r, b, v) /\ Same(q, r) BY <2>2, <2>4, <3>1, CleanupNear
    <3>3. Holds(p, b) => v BY <2>7 DEF Holds, Kept, Near
    <3>. QED BY <1>4, <1>6, <2>3, <3>2, <3>3 DEF Same
  <2>. QED BY <2>6, <2>7
<1>. QED BY <1>5, <1>6
-----------------------------------------------------------------------------
(***************************************************************************)
(* The rest of the invariant, about the session begun.                     *)
(***************************************************************************)
Acted == {"accepted", "discarded", "over"}
Seen == source[begun] = "variants" \/ server[begun] \in Acted
\* The user waits for it, or it will have variants yet.
Wanted ==
  \/ begun \notin decided \cup unsent \cup givenUp /\ server[begun] # "failed"
  \/ server[begun] = "open" /\ source[begun] = "none"
\* Nothing more will come of it.
Dead ==
  /\ server[begun] \notin {"open", "done"}
  /\ server[begun] = "none" => begun \in unsent

Creates(q) ==
  /\ begun \notin unsent /\ page.gate = begun /\ ~q.deaf
  /\ q.at = "out" => server[begun] = "none"
  /\ q.at = "ok" => server[begun] # "none"
  /\ \A o \in posts : o = q \/ (o.type # "generate" /\ ~o.deaf /\ o.after = begun /\ o.at = "out")

PostsNear ==
  /\ \A q \in posts :
       /\ q.id = begun
       /\ q.type \in {"accept", "discard"} =>
            begun \in decided /\ (q.at = "ok" => server[begun] \in Acted)
       /\ q.type = "checkpoint" /\ q.at # "out" => server[begun] = "none" /\ begun \in unsent
       /\ q.type = "generate" => Creates(q)
  /\ server[begun] = "none" /\ begun \notin unsent => \E q \in posts : q.type = "generate"

HelperNear ==
  /\ server[begun] = "done" => source[begun] = "variants"
  /\ server[begun] = "none" => source[begun] = "none"
  /\ server[begun] \in Acted => begun \in decided
  /\ dom[begun] = "variants" \/ begun \in decided \cup givenUp => Seen

FrameNear(m, b, v, phase) ==
  /\ m.type = "connected" => Timely(m.list, b, v)
  /\ m.type = "done" /\ m.id = b => v
  /\ m.type = "error" => m.id = b /\ phase \in Acted \cup {"failed"}
  /\ m.type \in {"complete", "discarded"} /\ m.id = b => phase \in Acted

\* An earlier session is over for the page.
Left(s) ==
  /\ server[s] \notin {"open", "done"}
  /\ source[s] # "none" \/ dom[s] # "none" => s \in page.handled
  /\ s \in decided \cup unsent \cup givenUp \/ server[s] = "failed"
Earlier == {s \in Begun : s # begun}

FramesNear == \A i \in DOMAIN frames : FrameNear(frames[i], begun, Seen, server[begun])
EarlierLeft == \A s \in Earlier : Left(s)
HandledIsDead == begun \in page.handled => Dead
WantedIsHeld == Wanted => Holds(page, begun)

OneInv ==
  /\ Near(page, begun, Seen)
  /\ PostsNear /\ HelperNear /\ FramesNear /\ EarlierLeft
  /\ HandledIsDead /\ WantedIsHeld

CInv == calm /\ begun # None => OneInv

LEMMA BegunIsSession ==
  ASSUME OInv, begun # None
  PROVE  /\ begun \in Begun /\ None \notin Begun /\ Begun \subseteq Sessions /\ begun \in Sessions
         /\ Seen \in BOOLEAN /\ page \in Pages(Begun) /\ Good(page, Begun)
         /\ server \in Servers(Begun) /\ source \in Trees(Begun) /\ dom \in Trees(Begun)
BY BegunAre DEF OInv, Ids, Begun, None, Seen, Good, Helper

\* What nothing more will come of is not wanted.
LEMMA DeadIsUnwanted ==
  ASSUME OInv, begun # None, HelperNear, Dead
  PROVE  ~Wanted
<1>1. server[begun] \in Phases BY BegunIsSession DEF Servers
<1>2. CASE server[begun] \in Acted BY <1>2 DEF HelperNear, Wanted, Acted
<1>3. CASE server[begun] \in {"none", "failed"} BY <1>3 DEF Dead, Wanted
<1>. QED BY <1>1, <1>2, <1>3 DEF Dead, Phases, Acted

LEMMA ActedIsDead ==
  ASSUME server[begun] \in Acted \cup {"failed"} PROVE Dead
BY DEF Acted, Dead

\* What is wanted has not been decided on.
LEMMA WantedIs ==
  ASSUME OneInv, OInv, begun # None, Wanted
  PROVE  /\ begun \notin decided
         /\ \A q \in posts : q.type \in {"generate", "checkpoint"}
         /\ Seen => source[begun] = "variants"
<1>0. server[begun] \in Phases BY BegunIsSession DEF Servers
<1>1. server[begun] \notin Acted \cup {"failed"}
  BY DEF OneInv, HelperNear, Wanted, Acted
<1>2. begun \notin decided
  <2> SUFFICES ASSUME begun \in decided PROVE FALSE OBVIOUS
  <2>1. source[begun] = "variants" BY <1>1 DEF OneInv, HelperNear, Seen
  <2>. QED BY <2>1 DEF Wanted
<1>3. \A q \in posts : q.type \in {"generate", "checkpoint"}
  <2>1. posts \subseteq Posts(Begun) BY DEF OInv
  <2>. QED BY <1>2, <2>1 DEF OneInv, PostsNear, Posts
<1>. QED BY <1>1, <1>2, <1>3 DEF Seen

\* While the post that creates the session is out, every other waits for it.
LEMMA OneCreates ==
  ASSUME PostsNear, NEW q \in posts, ~Gated(q), q.type # "generate"
  PROVE  \A g \in posts : g.type # "generate"
<1> SUFFICES ASSUME NEW g \in posts, g.type = "generate" PROVE FALSE OBVIOUS
<1>1. Creates(g) /\ g.id = begun BY DEF PostsNear
<1>2. q # g OBVIOUS
<1>3. ~q.deaf /\ q.after = begun BY <1>1, <1>2 DEF Creates
<1>4. Creating(q.after) BY <1>1, <1>3 DEF Creating, Creates
<1>. QED BY <1>3, <1>4 DEF Gated
----------------------------------------------------------------------------
\* The parts of the invariant, one at a time.
LEMMA NearSeen ==
  ASSUME NEW p, NEW b, NEW v \in BOOLEAN, Near(p, b, v), NEW u \in BOOLEAN, v => u
  PROVE  Near(p, b, u)
BY DEF Near

LEMMA EarlierStayLeft ==
  ASSUME EarlierLeft, OInv, begun # None, begun' = begun, page.handled \subseteq page'.handled,
         decided \subseteq decided', unsent \subseteq unsent', givenUp \subseteq givenUp',
         \A s \in Earlier :
            /\ server'[s] = server[s] \/ (server[s] # "failed" /\ server'[s] \notin {"open", "done"})
            /\ source'[s] \in {source[s], "none"} /\ dom'[s] \in {dom[s], source[s], "none"}
  PROVE  EarlierLeft'
<1>1. Earlier' = Earlier BY DEF Earlier, Begun
<1> SUFFICES ASSUME NEW s \in Earlier PROVE Left(s)' BY <1>1 DEF EarlierLeft
<1>2. Left(s) BY DEF EarlierLeft
<1>3. /\ server'[s] = server[s] \/ (server[s] # "failed" /\ server'[s] \notin {"open", "done"})
      /\ source'[s] \in {source[s], "none"} /\ dom'[s] \in {dom[s], source[s], "none"}
  OBVIOUS
<1>4. server'[s] \notin {"open", "done"} BY <1>2, <1>3 DEF Left
<1>5. source'[s] # "none" \/ dom'[s] # "none" => s \in page'.handled BY <1>2, <1>3 DEF Left
<1>6. s \in decided' \cup unsent' \cup givenUp' \/ server'[s] = "failed" BY <1>2, <1>3 DEF Left
<1>. QED BY <1>4, <1>5, <1>6 DEF Left

\* Posts settled or added, those of the session's creation aside.
LEMMA PostsNearer ==
  ASSUME PostsNear, UNCHANGED <<server, begun, unsent>>, decided \subseteq decided',
         page'.gate = page.gate,
         \A q \in posts' : \/ q \in posts
                           \/ /\ q.id = begun /\ q.type # "generate" /\ q.at = "out"
                              /\ ~q.deaf /\ q.after = page.gate
                              /\ q.type \in {"accept", "discard"} => begun \in decided',
         \A q \in posts : q.type = "generate" => q \in posts'
  PROVE  PostsNear'
<1>1. ASSUME NEW q \in posts'
      PROVE  /\ q.id = begun
             /\ q.type \in {"accept", "discard"} =>
                  begun \in decided' /\ (q.at = "ok" => server[begun] \in Acted)
             /\ q.type = "checkpoint" /\ q.at # "out" => server[begun] = "none" /\ begun \in unsent
  BY DEF PostsNear
<1>2. ASSUME NEW q \in posts', q.type = "generate" PROVE Creates(q)'
  <2>1. q \in posts /\ Creates(q) BY <1>2 DEF PostsNear
  <2>2. ASSUME NEW o \in posts'
        PROVE  o = q \/ (o.type # "generate" /\ ~o.deaf /\ o.after = begun /\ o.at = "out")
    <3>1. CASE o \in posts BY <2>1, <3>1 DEF Creates
    <3>2. CASE o \notin posts BY <2>1, <3>2 DEF Creates
    <3>. QED BY <3>1, <3>2
  <2>3. /\ begun \notin unsent /\ page.gate = begun /\ ~q.deaf
        /\ q.at = "out" => server[begun] = "none"
        /\ q.at = "ok" => server[begun] # "none"
    BY <2>1 DEF Creates
  <2>. QED BY <2>2, <2>3 DEF Creates
<1>3. server[begun] = "none" /\ begun \notin unsent => \E q \in posts' : q.type = "generate"
  BY DEF PostsNear
<1>. QED BY <1>1, <1>2, <1>3 DEF PostsNear

\* What the helper has of the session changes, and no post.
LEMMA PostsStayNear ==
  ASSUME PostsNear, UNCHANGED <<page, posts, begun, decided, unsent, givenUp>>,
         server'[begun] = "none" <=> server[begun] = "none",
         server[begun] \in Acted => server'[begun] \in Acted
  PROVE  PostsNear'
<1>1. ASSUME NEW q \in posts
      PROVE  /\ q.id = begun
             /\ q.type \in {"accept", "discard"} =>
                  begun \in decided /\ (q.at = "ok" => server'[begun] \in Acted)
             /\ q.type = "checkpoint" /\ q.at # "out" => server'[begun] = "none" /\ begun \in unsent
  BY DEF PostsNear
<1>2. ASSUME NEW q \in posts, q.type = "generate" PROVE Creates(q)'
  <2>1. Creates(q) BY <1>2 DEF PostsNear
  <2>. QED BY <2>1 DEF Creates
<1>3. server'[begun] = "none" /\ begun \notin unsent => \E q \in posts : q.type = "generate"
  BY DEF PostsNear
<1>. QED BY <1>1, <1>2, <1>3 DEF PostsNear

\* The helper has answered a post, or it is lost.
LEMMA PostsSettled ==
  ASSUME OInv, PostsNear, NEW q \in posts, ~Gated(q), NEW at \in {"ok", "refused", "failed"},
         Settle(q, at), UNCHANGED <<page, begun, decided, unsent, givenUp>>,
         server'[begun] = "none" => server[begun] = "none",
         server[begun] \in Acted => server'[begun] \in Acted,
         at = "ok" => /\ server'[begun] # "none"
                      /\ q.type \in {"accept", "discard"} => server'[begun] \in Acted,
         q.type = "checkpoint" /\ at = "refused" => server'[begun] = "none" /\ begun \in unsent,
         q.type # "generate" /\ server[begun] = "none" => server'[begun] = "none"
  PROVE  PostsNear'
<1> DEFINE n == [q EXCEPT !.at = at]
<1>0. q \in Posts(Begun) /\ posts \subseteq Posts(Begun) BY DEF OInv
<1>1. /\ n.type = q.type /\ n.id = q.id /\ n.deaf = q.deaf /\ n.after = q.after /\ n.at = at
  BY <1>0 DEF Posts
<1>2. posts' = (posts \ {q}) \cup (IF q.deaf \/ (q.type = "checkpoint" /\ at # "refused") THEN {} ELSE {n})
  BY DEF Settle
<1> HIDE DEF n
<1>3. ASSUME NEW x \in posts'
      PROVE  /\ x.id = begun
             /\ x.type \in {"accept", "discard"} =>
                  begun \in decided /\ (x.at = "ok" => server'[begun] \in Acted)
             /\ x.type = "checkpoint" /\ x.at # "out" => server'[begun] = "none" /\ begun \in unsent
  <2>1. CASE x \in posts /\ x # q
    <3>1. /\ x.id = begun
          /\ x.type \in {"accept", "discard"} =>
               begun \in decided /\ (x.at = "ok" => server'[begun] \in Acted)
      BY <2>1 DEF PostsNear
    <3>2. ASSUME x.type = "checkpoint", x.at # "out" PROVE server'[begun] = "none" /\ begun \in unsent
      <4>1. server[begun] = "none" /\ begun \in unsent BY <2>1, <3>2 DEF PostsNear
      <4>2. q.type # "generate" BY <4>1 DEF PostsNear, Creates
      <4>. QED BY <4>1, <4>2
    <3>. QED BY <3>1, <3>2
  <2>2. CASE x = n /\ ~(q.type = "checkpoint" /\ at # "refused") BY <1>1, <2>2 DEF PostsNear
  <2>. QED BY <1>2, <2>1, <2>2
<1>4. ASSUME NEW x \in posts', x.type = "generate" PROVE Creates(x)'
  <2>1. q.type = "generate"
    <3> SUFFICES ASSUME q.type # "generate" PROVE FALSE OBVIOUS
    <3>1. \A g \in posts : g.type # "generate" BY OneCreates
    <3>. QED BY <1>1, <1>2, <1>4, <3>1
  <2>2. Creates(q) /\ q.id = begun BY <2>1 DEF PostsNear
  <2>3. x = n BY <1>2, <1>4, <2>2 DEF Creates
  <2>4. \A o \in posts' : o = x \/ (o.type # "generate" /\ ~o.deaf /\ o.after = begun /\ o.at = "out")
    BY <1>2, <2>2, <2>3 DEF Creates
  <2>5. begun \notin unsent /\ page.gate = begun /\ ~x.deaf BY <1>1, <2>2, <2>3 DEF Creates
  <2>6. x.at # "out" /\ (x.at = "ok" => server'[begun] # "none") BY <1>1, <2>3
  <2>. QED BY <2>4, <2>5, <2>6 DEF Creates
<1>5. ASSUME server'[begun] = "none", begun \notin unsent PROVE \E x \in posts' : x.type = "generate"
  <2>1. PICK g \in posts : g.type = "generate" BY <1>5 DEF PostsNear
  <2>2. q.type = "generate" BY <2>1, OneCreates
  <2>3. ~q.deaf BY <2>2 DEF PostsNear, Creates
  <2>. QED BY <1>1, <1>2, <2>2, <2>3
<1>. QED BY <1>3, <1>4, <1>5 DEF PostsNear

LEMMA HelperStaysNear ==
  ASSUME HelperNear, begun \in Sessions, UNCHANGED <<server, source, begun, decided, givenUp>>,
         dom'[begun] \in {dom[begun], source[begun], "none"}
  PROVE  HelperNear'
BY DEF HelperNear, Seen

\* Frames received or lost.
LEMMA FramesStayNear ==
  ASSUME FramesNear, UNCHANGED <<server, source, begun>>,
         \A i \in DOMAIN frames' : \E j \in DOMAIN frames : frames'[i] = frames[j]
  PROVE  FramesNear'
<1>1. Seen' = Seen BY DEF Seen
<1>2. ASSUME NEW i \in DOMAIN frames' PROVE FrameNear(frames'[i], begun, Seen, server[begun])
  <2>1. PICK j \in DOMAIN frames : frames'[i] = frames[j] OBVIOUS
  <2>. QED BY <2>1 DEF FramesNear
<1>. QED BY <1>1, <1>2 DEF FramesNear

\* A frame more, or none, after a change of what the helper has.
LEMMA FramesMoreNear ==
  ASSUME FramesNear, OInv, begun' = begun, Seen => Seen',
         server[begun] \in Acted => server'[begun] \in Acted,
         server[begun] = "failed" => server'[begun] \in Acted \cup {"failed"},
         NEW type \in {"done", "complete", "discarded", "error"}, NEW s,
         frames' = frames \/ Broadcast(type, s),
         frames' = frames \/ (type = "done" /\ s = begun => Seen'),
         type = "error" => s = begun /\ server'[begun] \in Acted \cup {"failed"},
         type \in {"complete", "discarded"} /\ s = begun => server'[begun] \in Acted
  PROVE  FramesNear'
<1> DEFINE m == [type |-> type, id |-> s]
           Later(x) == FrameNear(x, begun, Seen', server'[begun])
<1>1. frames' = frames \/ frames' = Append(frames, m) BY DEF Broadcast
<1>2. m.type = type /\ m.id = s OBVIOUS
<1> HIDE DEF m
<1>3. frames \in Seq(Frames(Begun)) BY DEF OInv, Helper
<1>4. frames' = frames \/ Later(m) BY <1>2 DEF FrameNear
<1>5. \A i \in DOMAIN frames : Later(frames[i])
  <2> SUFFICES ASSUME NEW i \in DOMAIN frames PROVE Later(frames[i]) OBVIOUS
  <2>1. FrameNear(frames[i], begun, Seen, server[begun]) BY DEF FramesNear
  <2>2. Timely(frames[i].list, begun, Seen) => Timely(frames[i].list, begun, Seen') BY DEF Timely
  <2>. QED BY <2>1, <2>2 DEF FrameNear
<1>6. ASSUME NEW i \in DOMAIN frames' PROVE Later(frames'[i])
  <2> HIDE DEF Later
  <2>1. CASE frames' = frames BY <1>5, <1>6, <2>1
  <2>2. CASE frames' # frames
    <3>1. frames'[i] = m \/ (i \in DOMAIN frames /\ frames'[i] = frames[i])
      BY <1>1, <1>3, <1>6, <2>2, AppendProperties
    <3>. QED BY <1>4, <1>5, <2>2, <3>1
  <2>. QED BY <1>1, <2>1, <2>2
<1>. QED BY <1>6 DEF FramesNear
----------------------------------------------------------------------------
\* The page, its posts, its document and the stream change, and nothing of
\* what the helper has.
LEMMA PageSide ==
  ASSUME OneInv, OInv, begun # None,
         UNCHANGED <<server, source, begun, decided, unsent, givenUp>>,
         \A s \in Sessions : dom'[s] \in {dom[s], source[s], "none"},
         FramesNear', PostsNear', Near(page', begun, Seen),
         page.handled \subseteq page'.handled, page'.handled = page.handled \/ Dead,
         Wanted => Holds(page', begun)
  PROVE  OneInv'
<1>1. Seen' = Seen /\ Wanted' = Wanted /\ Dead' = Dead BY DEF Seen, Wanted, Dead
<1>2. begun \in Sessions /\ Begun \subseteq Sessions BY BegunIsSession
<1>3. HelperNear' BY <1>2, HelperStaysNear DEF OneInv
<1>4. EarlierLeft' BY <1>2, EarlierStayLeft DEF OneInv, Earlier
<1>5. HandledIsDead' BY <1>1 DEF OneInv, HandledIsDead
<1>6. WantedIsHeld' BY <1>1 DEF WantedIsHeld
<1>7. Near(page, begun, Seen)' BY <1>1
<1>. QED BY <1>3, <1>4, <1>5, <1>6, <1>7 DEF OneInv

\* The page keeps the session.
LEMMA PageKeepsIt ==
  ASSUME OneInv, OInv, begun # None,
         UNCHANGED <<posts, server, source, begun, decided, unsent, givenUp>>,
         \A s \in Sessions : dom'[s] \in {dom[s], source[s], "none"},
         FramesNear', Near(page', begun, Seen), Same(page, page'),
         Wanted /\ Holds(page, begun) => Holds(page', begun)
  PROVE  OneInv'
<1>1. PostsNear' BY PostsNearer DEF OneInv, Same
<1>2. Wanted => Holds(page', begun) BY DEF OneInv, WantedIsHeld
<1>. QED BY <1>1, <1>2, PageSide DEF Same

\* The page is done with the session.
LEMMA PageLeavesIt ==
  ASSUME OneInv, OInv, begun # None,
         UNCHANGED <<server, source, dom, begun, decided, unsent, givenUp>>,
         FramesNear', PostsNear', Near(page', begun, Seen), Marked(page, page', begun), Dead
  PROVE  OneInv'
<1>1. ~Wanted BY DeadIsUnwanted DEF OneInv
<1>. QED BY <1>1, PageSide DEF Marked
----------------------------------------------------------------------------
\* What does not touch the stream leaves what is in it.
LEMMA StreamStaysNear ==
  ASSUME OneInv, UNCHANGED <<server, source, begun, frames>>
  PROVE  FramesNear'
BY FramesStayNear DEF OneInv

LEMMA PickNear == ASSUME OInv, OneInv, begun # None, Pick \/ Leave PROVE OneInv'
<1>1. UNCHANGED <<posts, server, source, dom, frames, begun, decided, unsent, givenUp>>
  BY DEF Pick, Leave, helperVars, stream, history
<1>2. PICK st \in {"CONFIGURING", "PICKING"} : page' = [page EXCEPT !.state = st] BY DEF Pick, Leave
<1>3. page \in Pages(Begun) /\ Seen \in BOOLEAN BY BegunIsSession
<1>4. Near(page', begun, Seen) /\ Same(page, page')
  <2>1. Near(page, begun, Seen) /\ st # "CYCLING" BY DEF OneInv
  <2>. QED BY <1>2, <1>3, <2>1, StateNear
<1>5. ~Holds(page, begun) BY DEF Pick, Leave, Holds, Kept
<1>6. FramesNear' BY <1>1, StreamStaysNear
<1>. QED BY <1>1, <1>4, <1>5, <1>6, PageKeepsIt

\* What the user decides on has shown its variants.
LEMMA DecideNear ==
  ASSUME OInv, OneInv, begun # None, Decide, page.current # None, page.state = "CYCLING",
         UNCHANGED <<server, source, dom, frames, begun, unsent, givenUp>>, PostsNear',
         Near(page', begun, Seen), Same(page, page')
  PROVE  OneInv'
<1>1. Seen /\ page.current = begun BY DEF OneInv, Near
<1>2. decided' = decided \cup {begun} BY <1>1 DEF Decide
<1>3. Seen' = Seen /\ Dead' = Dead BY DEF Seen, Dead
<1>4. HelperNear' BY <1>1, <1>2, <1>3 DEF OneInv, HelperNear
<1>5. EarlierLeft' BY <1>2, EarlierStayLeft DEF OneInv, Same
<1>6. FramesNear' BY StreamStaysNear
<1>7. HandledIsDead' BY <1>3 DEF OneInv, HandledIsDead, Same
<1>8. ~Wanted' BY <1>1, <1>2 DEF Wanted, Seen, Acted
<1>9. Near(page, begun, Seen)' BY <1>3
<1>. QED BY <1>4, <1>5, <1>6, <1>7, <1>8, <1>9 DEF OneInv, WantedIsHeld

\* A post made by the page, and what it says.
LEMMA PostSays ==
  ASSUME NEW p, NEW type, NEW s, NEW q, q = Post(p, type, s)
  PROVE  /\ q.id = s /\ q.type = type /\ q.at = "out" /\ ~q.deaf
         /\ type # "generate" => q.after = p.gate
BY DEF Post

LEMMA AcceptNear == ASSUME OInv, OneInv, begun # None, Accept PROVE OneInv'
<1> DEFINE q == [page EXCEPT !.state = "SAVING", !.pending = page.current]
           x == Post(page, "accept", page.current)
<1>1. UNCHANGED <<server, source, dom, frames, begun, unsent, givenUp>> BY DEF Accept, helperVars, stream
<1>2. page' = Save(q) /\ posts' = posts \cup {x} /\ Decide BY DEF Accept
<1>3. page.current # None /\ page.state = "CYCLING" BY DEF Accept
<1>4. page.current = begun /\ Seen /\ Near(page, begun, Seen) BY <1>3 DEF OneInv, Near
<1>5. page \in Pages(Begun) /\ begun \in Begun /\ Seen \in BOOLEAN BY BegunIsSession
<1>6. q \in Pages(Begun) BY <1>4, <1>5 DEF Pages, States
<1>7. /\ q.current = page.current /\ q.saved = page.saved /\ q.pending = page.current
      /\ q.observer = page.observer /\ q.captures = page.captures /\ q.reads = page.reads
      /\ q.arrived = page.arrived /\ q.state = "SAVING" /\ Same(page, q)
  BY <1>5 DEF Pages, Same
<1> HIDE DEF q
<1>8. Near(q, begun, Seen) BY <1>4, <1>7 DEF Near
<1>9. Near(page', begun, Seen) /\ Same(q, page') BY <1>2, <1>5, <1>6, <1>8, SaveNear
<1>10. Same(page, page') BY <1>7, <1>9 DEF Same
<1>11. x.id = begun /\ x.type = "accept" /\ x.at = "out" /\ ~x.deaf /\ x.after = page.gate
  BY <1>4, PostSays
<1> HIDE DEF x
<1>12. begun \in decided' /\ decided \subseteq decided' BY <1>2, <1>4 DEF Decide
<1>13. PostsNear' BY <1>1, <1>2, <1>10, <1>11, <1>12, PostsNearer DEF OneInv, Same
<1>. QED BY <1>1, <1>2, <1>3, <1>9, <1>10, <1>13, DecideNear

LEMMA DiscardNear == ASSUME OInv, OneInv, begun # None, Discard PROVE OneInv'
<1> DEFINE x == Post(page, "discard", page.current)
<1>1. UNCHANGED <<page, server, source, dom, frames, begun, unsent, givenUp>>
  BY DEF Discard, helperVars, stream
<1>2. posts' = posts \cup {x} /\ Decide BY DEF Discard
<1>3. page.current # None /\ page.state = "CYCLING" BY DEF Discard
<1>4. page.current = begun /\ Near(page, begun, Seen) BY <1>3 DEF OneInv, Near
<1>5. x.id = begun /\ x.type = "discard" /\ x.at = "out" /\ ~x.deaf /\ x.after = page.gate
  BY <1>4, PostSays
<1> HIDE DEF x
<1>6. begun \in decided' /\ decided \subseteq decided' BY <1>2, <1>4 DEF Decide
<1>7. PostsNear' BY <1>1, <1>2, <1>5, <1>6, PostsNearer DEF OneInv
<1>8. Same(page, page') BY <1>1 DEF Same
<1>. QED BY <1>1, <1>2, <1>3, <1>4, <1>7, <1>8, DecideNear

LEMMA FireCheckpointNear == ASSUME OInv, OneInv, begun # None, FireCheckpoint PROVE OneInv'
<1>1. UNCHANGED <<server, source, dom, frames, begun, decided, unsent, givenUp>>
  BY DEF FireCheckpoint, helperVars, stream, history
<1>2. page' = [page EXCEPT !.timer = FALSE] /\ posts' = posts \cup Checkpoints(page.current)
  BY DEF FireCheckpoint
<1>3. page \in Pages(Begun) BY BegunIsSession
<1>4. /\ page'.current = page.current /\ page'.saved = page.saved /\ page'.pending = page.pending
      /\ page'.observer = page.observer /\ page'.captures = page.captures
      /\ page'.reads = page.reads /\ page'.arrived = page.arrived /\ page'.state = page.state
      /\ Same(page, page')
  BY <1>2, <1>3 DEF Pages, Same
<1>5. Near(page', begun, Seen) BY <1>4 DEF OneInv, Near
<1>6. \A x \in Checkpoints(page.current) :
        x.id = begun /\ x.type = "checkpoint" /\ x.at = "out" /\ ~x.deaf /\ x.after = page.gate
  <2> SUFFICES ASSUME NEW x \in Checkpoints(page.current)
               PROVE  x.id = begun /\ x.type = "checkpoint" /\ x.at = "out" /\ ~x.deaf
                      /\ x.after = page.gate
    OBVIOUS
  <2>1. x = Post(page, "checkpoint", page.current) /\ page.current # None BY DEF Checkpoints
  <2>2. page.current = begun BY <2>1 DEF OneInv, Near
  <2>. QED BY <2>1, <2>2, PostSays
<1>7. PostsNear' BY <1>1, <1>2, <1>4, <1>6, PostsNearer DEF OneInv, Same
<1>8. FramesNear' BY <1>1, StreamStaysNear
<1>9. Wanted => Holds(page', begun) BY <1>4 DEF OneInv, WantedIsHeld, Holds, Stored, Same
<1>. QED BY <1>1, <1>4, <1>5, <1>7, <1>8, <1>9, PageSide DEF Same
----------------------------------------------------------------------------
LEMMA LoseNear == ASSUME OInv, OneInv, begun # None, NEW q \in posts, Lose(q) PROVE OneInv'
<1>1. UNCHANGED <<page, server, source, dom, frames, begun, decided, unsent, givenUp>>
  BY DEF Lose, helperVars, stream, history
<1>2. Settle(q, "failed") /\ ~Gated(q) BY DEF Lose
<1>3. PostsNear' BY <1>1, <1>2, PostsSettled DEF OneInv
<1>4. FramesNear' BY <1>1, StreamStaysNear
<1>5. Near(page', begun, Seen) /\ (Wanted => Holds(page', begun))
  BY <1>1 DEF OneInv, WantedIsHeld
<1>. QED BY <1>1, <1>3, <1>4, <1>5, PageSide

\* The page and its document are as they were, and the helper is ahead.
LEMMA HelperSide ==
  ASSUME OneInv, OInv, begun # None, UNCHANGED <<page, dom, begun, decided, unsent, givenUp>>,
         PostsNear', HelperNear', FramesNear', Seen => Seen',
         \A s \in Earlier :
            /\ server'[s] = server[s] \/ (server[s] # "failed" /\ server'[s] \notin {"open", "done"})
            /\ source'[s] \in {source[s], "none"},
         Wanted' => Wanted, begun \in page.handled => Dead'
  PROVE  OneInv'
<1>1. Near(page', begun, Seen')
  <2>1. Near(page, begun, Seen) BY DEF OneInv
  <2>2. Seen \in BOOLEAN /\ Seen' \in BOOLEAN BY DEF Seen
  <2>3. Near(page, begun, Seen') BY <2>1, <2>2, NearSeen
  <2>. QED BY <2>3
<1>2. EarlierLeft' BY EarlierStayLeft DEF OneInv
<1>3. HandledIsDead' BY DEF HandledIsDead
<1>4. WantedIsHeld' BY DEF OneInv, WantedIsHeld
<1>. QED BY <1>1, <1>2, <1>3, <1>4 DEF OneInv

\* The generate of the session arrives: the helper knows it from now on.
LEMMA GenerateArrives ==
  ASSUME OInv, OneInv, begun # None, NEW q \in posts, Arrive(q), q.type = "generate"
  PROVE  OneInv'
<1>1. UNCHANGED <<page, source, dom, begun, decided, unsent, givenUp>> BY DEF Arrive, history
<1>2. Creates(q) /\ q.id = begun /\ q.at = "out" BY DEF OneInv, PostsNear, Arrive
<1>3. server[begun] = "none" /\ begun \notin unsent BY <1>2 DEF Creates
<1>4. server \in Servers(Begun) /\ begun \in Sessions /\ source[begun] = "none"
  BY <1>3, BegunIsSession DEF OneInv, HelperNear
<1>5. server' = [server EXCEPT ![begun] = "open"] BY <1>2 DEF Arrive, Journaled
<1>6. server'[begun] = "open" /\ \A s \in Sessions : s # begun => server'[s] = server[s]
  BY <1>4, <1>5 DEF Servers
<1>7. ~Seen /\ ~Seen' BY <1>1, <1>3, <1>4, <1>6 DEF Seen, Acted
<1>8. begun \notin decided \cup givenUp BY <1>7 DEF OneInv, HelperNear
<1>9. Settle(q, "ok") /\ ~Gated(q) BY DEF Arrive
<1>10. PostsNear' BY <1>1, <1>3, <1>6, <1>9, PostsSettled DEF OneInv, Acted
<1>11. HelperNear' BY <1>1, <1>4, <1>6, <1>7 DEF OneInv, HelperNear, Acted
<1>12. frames' = frames BY <1>2, <1>3 DEF Arrive, Missed
<1>13. FramesNear' BY <1>1, <1>3, <1>7, <1>12, FramesMoreNear DEF OneInv, Acted
<1>14. Earlier \subseteq Sessions /\ begun \notin Earlier BY BegunIsSession DEF Earlier
<1>15. Wanted BY <1>3, <1>8 DEF Wanted
<1>16. begun \notin page.handled BY <1>3 DEF OneInv, HandledIsDead, Dead
<1>. QED BY <1>1, <1>6, <1>7, <1>10, <1>11, <1>13, <1>14, <1>15, <1>16, HelperSide

\* A decision arrives.
LEMMA DecisionArrives ==
  ASSUME OInv, OneInv, begun # None, NEW q \in posts, Arrive(q), q.type \in {"accept", "discard"},
         ~Unknown(q.id)
  PROVE  OneInv'
<1>1. UNCHANGED <<page, source, dom, begun, decided, unsent, givenUp>> BY DEF Arrive, history
<1>2. q.id = begun /\ begun \in decided BY DEF OneInv, PostsNear
<1>3. server \in Servers(Begun) /\ begun \in Sessions BY BegunIsSession
<1>4. server' = [server EXCEPT ![begun] = Journaled(q)] BY <1>2 DEF Arrive
<1>5. Journaled(q) \in {"accepted", "discarded"} BY DEF Journaled
<1>6. server'[begun] \in {"accepted", "discarded"} /\ \A s \in Sessions : s # begun => server'[s] = server[s]
  BY <1>3, <1>4, <1>5 DEF Servers
<1>7. server[begun] # "none" BY <1>2 DEF Unknown
<1>8. Seen' BY <1>1, <1>6 DEF Seen, Acted
<1>9. Settle(q, "ok") /\ ~Gated(q) BY DEF Arrive
<1>10. PostsNear'
  <2>1. server'[begun] # "none" /\ server'[begun] \in Acted BY <1>6 DEF Acted
  <2>. QED BY <1>1, <1>7, <1>9, <2>1, PostsSettled DEF OneInv
<1>11. HelperNear' BY <1>1, <1>2, <1>6, <1>8 DEF HelperNear
<1>12. frames' = frames \/ Broadcast("done", q.id) BY DEF Arrive
<1>13. FramesNear' BY <1>1, <1>6, <1>8, <1>12, FramesMoreNear DEF OneInv, Acted
<1>14. Earlier \subseteq Sessions /\ begun \notin Earlier BY BegunIsSession DEF Earlier
<1>15. ~Wanted' /\ Dead' BY <1>1, <1>2, <1>6 DEF Wanted, Dead
<1>. QED BY <1>1, <1>6, <1>8, <1>10, <1>11, <1>13, <1>14, <1>15, HelperSide

LEMMA ArriveNear == ASSUME OInv, OneInv, begun # None, NEW q \in posts, Arrive(q) PROVE OneInv'
<1>0. q \in Posts(Begun) BY DEF OInv
<1>1. CASE q.type = "generate" BY <1>1, GenerateArrives
<1>2. CASE q.type \in {"accept", "discard"} /\ ~Unknown(q.id) BY <1>2, DecisionArrives
<1>3. CASE q.type # "generate" /\ (q.type = "checkpoint" \/ Unknown(q.id))
  <2> DEFINE at == IF Unknown(q.id) THEN "refused" ELSE "ok"
  <2>1. UNCHANGED <<page, source, dom, begun, decided, unsent, givenUp>> BY DEF Arrive, history
  <2>2. q.id = begun BY DEF OneInv, PostsNear
  <2>3. server \in Servers(Begun) /\ begun \in Sessions BY BegunIsSession
  <2>4. server' = server
    <3>1. CASE Unknown(q.id) BY <1>3, <3>1 DEF Arrive
    <3>2. CASE ~Unknown(q.id)
      <4>1. q.type = "checkpoint" BY <1>3, <3>2
      <4>2. server' = [server EXCEPT ![begun] = server[begun]]
        BY <2>2, <3>2, <4>1 DEF Arrive, Journaled
      <4>. QED BY <2>3, <4>2 DEF Servers
    <3>. QED BY <3>1, <3>2
  <2>5. Settle(q, at) /\ ~Gated(q) BY <1>3 DEF Arrive
  <2>6. at \in {"ok", "refused"} /\ (at = "refused" <=> server[begun] = "none")
    BY <2>2 DEF Unknown
  <2> HIDE DEF at
  <2>7. server[begun] = "none" => begun \in unsent
    BY <1>3, <2>5, OneCreates DEF OneInv, PostsNear
  <2>8. PostsNear'
    <3>1. at = "ok" => q.type = "checkpoint" /\ server'[begun] # "none"
      BY <1>3, <2>2, <2>4, <2>6 DEF Unknown
    <3>. QED BY <2>1, <2>4, <2>5, <2>6, <2>7, <3>1, PostsSettled DEF OneInv
  <2>9. frames' = frames \/ Broadcast("done", q.id) BY DEF Arrive
  <2>10. Seen' = Seen BY <2>1, <2>4 DEF Seen
  <2>11. FramesNear'
    <3>1. frames' = frames \/ (q.id = begun => Seen)
      BY <2>2 DEF Arrive, Missed, OneInv, HelperNear, Seen
    <3>. QED BY <2>1, <2>4, <2>9, <2>10, <3>1, FramesMoreNear DEF OneInv
  <2>12. Near(page', begun, Seen) /\ (Wanted => Holds(page', begun))
    BY <2>1 DEF OneInv, WantedIsHeld
  <2>. QED BY <2>1, <2>4, <2>8, <2>11, <2>12, PageSide
<1>. QED BY <1>0, <1>1, <1>2, <1>3 DEF Posts
----------------------------------------------------------------------------
LEMMA GenerateReplyNear ==
  ASSUME OInv, OneInv, begun # None, NEW q \in posts, Reply(q), GenerateReply(q)
  PROVE  OneInv'
<1>1. UNCHANGED <<page, server, source, dom, frames, begun, decided, givenUp>>
  BY DEF Reply, GenerateReply, helperVars, stream
<1>2. Creates(q) /\ q.id = begun /\ q.at # "out" BY DEF OneInv, PostsNear, Reply, GenerateReply
<1>3. /\ posts' = (posts \ {q}) \cup Checkpoints(q.id) \/ posts' = posts \ {q}
      /\ unsent' = IF q.at = "ok" THEN unsent ELSE unsent \cup {begun}
      /\ q.at # "ok" => posts' = posts \ {q}
  BY <1>2 DEF GenerateReply
<1>4. \A x \in Checkpoints(q.id) : x.id = begun /\ x.type = "checkpoint" /\ x.at = "out"
  BY <1>2, PostSays DEF Checkpoints
<1>5. ASSUME NEW x \in posts'
      PROVE  /\ x.id = begun /\ x.type # "generate" /\ x.at = "out"
             /\ x.type \in {"accept", "discard"} => begun \in decided
  <2>1. CASE x \in posts /\ x # q BY <1>2, <2>1 DEF Creates, OneInv, PostsNear
  <2>2. CASE x \in Checkpoints(q.id) BY <1>4, <2>2
  <2>. QED BY <1>3, <2>1, <2>2
<1>6. server[begun] = "none" => begun \in unsent' BY <1>2, <1>3 DEF Creates
<1>7. PostsNear' BY <1>1, <1>5, <1>6 DEF PostsNear
<1>8. Seen' = Seen /\ (Wanted' => Wanted) BY <1>1, <1>3 DEF Seen, Wanted
<1>9. Dead => Dead' BY <1>1, <1>3 DEF Dead
<1>10. HelperNear' BY <1>1, BegunIsSession, HelperStaysNear DEF OneInv
<1>11. FramesNear' BY <1>1, StreamStaysNear
<1>12. EarlierLeft' BY <1>1, <1>3, EarlierStayLeft DEF OneInv
<1>13. Near(page, begun, Seen)' BY <1>1, <1>8 DEF OneInv
<1>14. HandledIsDead' /\ WantedIsHeld' BY <1>1, <1>8, <1>9 DEF OneInv, HandledIsDead, WantedIsHeld
<1>. QED BY <1>7, <1>10, <1>11, <1>12, <1>13, <1>14 DEF OneInv

\* A post that is not the session's creation is heard of.
LEMMA PostGone ==
  ASSUME OneInv, NEW q \in posts, q.type # "generate", posts' = posts \ {q},
         UNCHANGED <<server, begun, decided, unsent, givenUp>>, page'.gate = page.gate
  PROVE  PostsNear'
BY PostsNearer DEF OneInv

LEMMA ReplyNear == ASSUME OInv, OneInv, begun # None, NEW q \in posts, Reply(q) PROVE OneInv'
<1>0. page \in Pages(Begun) /\ None \notin Begun /\ Seen \in BOOLEAN /\ q \in Posts(Begun)
  BY BegunIsSession DEF OInv
<1>1. CASE GenerateReply(q) BY <1>1, GenerateReplyNear
<1>2. CASE ~GenerateReply(q)
  <2>1. UNCHANGED <<server, source, dom, frames, begun, decided, unsent, givenUp>>
    BY <1>2 DEF Reply, CheckpointReply, AcceptReply, DiscardReply, helperVars, stream
  <2>2. q.type # "generate" /\ posts' = posts \ {q}
    BY <1>2 DEF Reply, CheckpointReply, AcceptReply, DiscardReply
  <2>3. FramesNear' BY <2>1, StreamStaysNear
  <2>4. Near(page, begun, Seen) BY DEF OneInv
  <2>5. ASSUME page' = page PROVE OneInv'
    <3>1. PostsNear' BY <2>1, <2>2, <2>5, PostGone
    <3>2. Near(page', begun, Seen) /\ (Wanted => Holds(page', begun))
      BY <2>5 DEF OneInv, WantedIsHeld
    <3>. QED BY <2>1, <2>3, <2>5, <3>1, <3>2, PageSide
  <2>6. ASSUME Near(page', begun, Seen) /\ Marked(page, page', begun), Dead PROVE OneInv'
    <3>1. PostsNear' BY <2>1, <2>2, <2>6, PostGone DEF Marked
    <3>. QED BY <2>1, <2>3, <2>6, <3>1, PageLeavesIt
  <2>7. CASE CheckpointReply(q)
    <3>1. page' = page \/ page' = Cleanup(MarkHandled(page)) BY <2>7 DEF CheckpointReply
    <3>2. Dead BY <2>7 DEF CheckpointReply, Reply, OneInv, PostsNear, Dead
    <3>3. ASSUME page' = Cleanup(MarkHandled(page))
          PROVE  Near(page', begun, Seen) /\ Marked(page, page', begun)
      BY <1>0, <2>4, <3>3, MarkedAndClearedNear
    <3>. QED BY <2>5, <2>6, <3>1, <3>2, <3>3
  <2>8. CASE AcceptReply(q)
    <3>1. q.type = "accept" /\ begun \in decided BY <2>8 DEF AcceptReply, OneInv, PostsNear
    <3>2. Seen BY <3>1 DEF OneInv, HelperNear
    <3>3. CASE q.at # "ok"
      <4> DEFINE n == IF page.pending = q.id THEN None ELSE page.pending
      <4>1. page' = [page EXCEPT !.pending = n, !.state = "CYCLING"]
        BY <2>8, <3>3 DEF AcceptReply
      <4>2. n \in {None, begun} BY DEF OneInv, Near
      <4> HIDE DEF n
      <4>3. /\ page'.current = page.current /\ page'.saved = page.saved /\ page'.pending = n
            /\ page'.observer = page.observer /\ page'.captures = page.captures
            /\ page'.reads = page.reads /\ Same(page, page')
        BY <1>0, <4>1 DEF Pages, Same
      <4>4. Near(page', begun, Seen) BY <2>4, <3>2, <4>2, <4>3 DEF Near
      <4>5. ~Wanted BY <3>1, WantedIs
      <4>6. PostsNear' BY <2>1, <2>2, <4>3, PostGone DEF Same
      <4>. QED BY <2>1, <2>3, <4>3, <4>4, <4>5, <4>6, PageSide DEF Same
    <3>4. CASE q.at = "ok" /\ page.pending = q.id
      <4>1. page' = CleanupAccepted([MarkHandled(page) EXCEPT !.awaiting = q.id])
        BY <2>8, <3>4 DEF AcceptReply
      <4>2. server[begun] \in Acted BY <3>1, <3>4 DEF OneInv, PostsNear
      <4>3. q.id \in Begun \cup {None} BY <1>0 DEF Posts
      <4>4. Near(page', begun, Seen) /\ Marked(page, page', begun)
        BY <1>0, <2>4, <4>1, <4>3, AcceptedAndClearedNear
      <4>. QED BY <2>6, <4>2, <4>4, ActedIsDead
    <3>5. CASE q.at = "ok" /\ page.pending # q.id BY <2>5, <2>8, <3>5 DEF AcceptReply
    <3>. QED BY <3>3, <3>4, <3>5
  <2>9. CASE DiscardReply(q)
    <3>1. CASE q.at = "ok"
      <4>1. page' = Cleanup(MarkHandled(page)) BY <2>9, <3>1 DEF DiscardReply
      <4>2. server[begun] \in Acted BY <2>9, <3>1 DEF DiscardReply, OneInv, PostsNear
      <4>3. Near(page', begun, Seen) /\ Marked(page, page', begun)
        BY <1>0, <2>4, <4>1, MarkedAndClearedNear
      <4>. QED BY <2>6, <4>2, <4>3, ActedIsDead
    <3>2. CASE q.at # "ok" BY <2>5, <2>9, <3>2 DEF DiscardReply
    <3>. QED BY <3>1, <3>2
  <2>. QED BY <1>2, <2>7, <2>8, <2>9 DEF Reply
<1>. QED BY <1>1, <1>2
----------------------------------------------------------------------------
\* Only the last session that has begun is generated for.
LEMMA OpenIsBegun ==
  ASSUME OInv, OneInv, begun # None, NEW s \in Sessions, server[s] \in {"open", "done"}
  PROVE  s = begun
<1>1. s \in Begun BY BegunIsSession DEF Servers
<1>. QED BY <1>1 DEF OneInv, EarlierLeft, Earlier, Left

LEMMA SourceNear ==
  ASSUME OInv, OneInv, begun # None, NEW s \in Sessions, Scaffold(s) \/ Generate(s)
  PROVE  OneInv'
<1>1. UNCHANGED <<page, posts, server, dom, frames, begun, decided, unsent, givenUp>>
  BY DEF Scaffold, Generate, stream, history
<1>2. server[s] = "open" BY DEF Scaffold, Generate
<1>3. s = begun BY <1>2, OpenIsBegun
<1>4. source \in Trees(Begun) /\ begun \in Sessions /\ Begun \subseteq Sessions BY BegunIsSession
<1>5. PICK x \in {"scaffold", "variants"} :
        source' = [source EXCEPT ![begun] = x] /\ (x = "variants" \/ source[begun] # "variants")
  BY <1>3 DEF Scaffold, Generate
<1>6. source'[begun] = x /\ \A y \in Sessions : y # begun => source'[y] = source[y]
  BY <1>4, <1>5 DEF Trees
<1>7. server[begun] = "open" BY <1>2, <1>3
<1>8. Seen => Seen' BY <1>1, <1>5, <1>6, <1>7 DEF Seen, Acted
<1>9. HelperNear' BY <1>1, <1>6, <1>7, <1>8 DEF OneInv, HelperNear, Acted
<1>10. PostsNear' BY <1>1, PostsStayNear DEF OneInv
<1>11. FramesNear' BY <1>1, <1>8, FramesMoreNear DEF OneInv
<1>12. Earlier \subseteq Sessions /\ begun \notin Earlier BY <1>4 DEF Earlier
<1>13. Wanted' => Wanted BY <1>1, <1>6, <1>7 DEF Wanted
<1>14. begun \notin page.handled BY <1>7 DEF OneInv, HandledIsDead, Dead
<1>. QED BY <1>1, <1>6, <1>8, <1>9, <1>10, <1>11, <1>12, <1>13, <1>14, HelperSide

LEMMA FinishNear ==
  ASSUME OInv, OneInv, begun # None, calm, NEW s \in Sessions, Finish(s) \/ Fail(s)
  PROVE  OneInv'
<1>1. UNCHANGED <<page, posts, source, dom, begun, decided, unsent, givenUp>> BY DEF Finish, Fail, history
<1>2. server[s] = "open" BY DEF Finish, Fail
<1>3. s = begun BY <1>2, OpenIsBegun
<1>4. server \in Servers(Begun) /\ begun \in Sessions /\ Begun \subseteq Sessions BY BegunIsSession
<1>5. PICK x \in {"done", "failed"} :
        /\ server' = [server EXCEPT ![begun] = x]
        /\ x = "done" => source[begun] = "variants" /\ Broadcast("done", begun)
        /\ x = "failed" => Broadcast("error", begun)
  BY <1>3 DEF Finish, Fail, HelperTurns
<1>6. server'[begun] = x /\ \A y \in Sessions : y # begun => server'[y] = server[y]
  BY <1>4, <1>5 DEF Servers
<1>7. server[begun] = "open" BY <1>2, <1>3
<1>8. Seen' = Seen BY <1>1, <1>6, <1>7 DEF Seen, Acted
<1>9. HelperNear' BY <1>1, <1>5, <1>6, <1>7, <1>8 DEF OneInv, HelperNear, Acted
<1>10. PostsNear' BY <1>1, <1>6, <1>7, PostsStayNear DEF OneInv, Acted
<1>11. FramesNear'
  <2>1. CASE x = "done"
    <3>1. Broadcast("done", begun) /\ Seen BY <1>5, <2>1 DEF Seen
    <3>. QED BY <1>1, <1>7, <1>8, <3>1, FramesMoreNear DEF OneInv, Acted
  <2>2. CASE x = "failed"
    <3>1. Broadcast("error", begun) /\ server'[begun] = "failed" BY <1>5, <1>6, <2>2
    <3>. QED BY <1>1, <1>7, <1>8, <3>1, FramesMoreNear DEF OneInv, Acted
  <2>. QED BY <2>1, <2>2
<1>12. Earlier \subseteq Sessions /\ begun \notin Earlier BY <1>4 DEF Earlier
<1>13. Wanted' => Wanted BY <1>1, <1>6, <1>7 DEF Wanted
<1>14. begun \notin page.handled BY <1>7 DEF OneInv, HandledIsDead, Dead
<1>. QED BY <1>1, <1>6, <1>8, <1>9, <1>10, <1>11, <1>12, <1>13, <1>14, HelperSide

LEMMA CarryOutNear ==
  ASSUME OInv, OneInv, begun # None, NEW s \in Sessions, CarryOut(s)
  PROVE  OneInv'
<1>1. UNCHANGED <<page, posts, dom, begun, decided, unsent, givenUp>> BY DEF CarryOut, history
<1>2. server[s] \in {"accepted", "discarded"} BY DEF CarryOut
<1>3. /\ server \in Servers(Begun) /\ source \in Trees(Begun)
      /\ begun \in Sessions /\ Begun \subseteq Sessions
  BY BegunIsSession
<1>4. server'[s] = "over" /\ \A y \in Sessions : y # s => server'[y] = server[y]
  BY <1>3 DEF CarryOut, HelperTurns, Servers
<1>5. source'[s] = "none" /\ \A y \in Sessions : y # s => source'[y] = source[y]
  BY <1>3 DEF CarryOut, Trees
<1>6. Seen => Seen' BY <1>1, <1>2, <1>3, <1>4, <1>5 DEF Seen, Acted
<1>7. server[begun] \in Acted <=> server'[begun] \in Acted BY <1>2, <1>3, <1>4 DEF Acted
<1>8. s # begun => server'[begun] = server[begun] /\ source'[begun] = source[begun]
  BY <1>3, <1>4, <1>5
<1>9. s = begun => server'[begun] = "over" /\ server[begun] \in Acted BY <1>2, <1>4 DEF Acted
<1>10. HelperNear'
  <2>1. CASE s = begun
    <3>1. Seen' /\ begun \in decided BY <1>1, <1>9, <2>1 DEF Seen, Acted, OneInv, HelperNear
    <3>. QED BY <1>1, <1>9, <2>1, <3>1 DEF HelperNear
  <2>2. CASE s # begun BY <1>1, <1>6, <1>8, <2>2 DEF OneInv, HelperNear
  <2>. QED BY <2>1, <2>2
<1>11. server'[begun] = "none" <=> server[begun] = "none" BY <1>8, <1>9 DEF Acted
<1>12. PostsNear' BY <1>1, <1>7, <1>11, PostsStayNear DEF OneInv
<1>13. PICK type \in {"complete", "discarded"} : Broadcast(type, s) BY DEF CarryOut
<1>14. FramesNear'
  <2>1. server[begun] = "failed" => server'[begun] = "failed" BY <1>8, <1>9 DEF Acted
  <2>2. s = begun => server'[begun] \in Acted BY <1>7, <1>9
  <2>. QED BY <1>1, <1>6, <1>7, <1>13, <2>1, <2>2, FramesMoreNear DEF OneInv
<1>15. \A y \in Earlier :
          /\ server'[y] = server[y] \/ (server[y] # "failed" /\ server'[y] \notin {"open", "done"})
          /\ source'[y] \in {source[y], "none"}
  BY <1>2, <1>3, <1>4, <1>5 DEF Earlier
<1>16. Wanted' => Wanted
  <2>1. CASE s = begun
    <3>1. begun \in decided BY <1>9, <2>1 DEF OneInv, HelperNear
    <3>. QED BY <1>1, <1>9, <2>1, <3>1 DEF Wanted
  <2>2. CASE s # begun BY <1>1, <1>8, <2>2 DEF Wanted
  <2>. QED BY <2>1, <2>2
<1>17. begun \in page.handled => Dead'
  <2>1. CASE s = begun BY <1>1, <1>9, <2>1 DEF Dead
  <2>2. CASE s # begun BY <1>1, <1>8, <2>2 DEF OneInv, HandledIsDead, Dead
  <2>. QED BY <2>1, <2>2
<1>. QED BY <1>1, <1>6, <1>10, <1>12, <1>14, <1>15, <1>16, <1>17, HelperSide
----------------------------------------------------------------------------
LEMMA DropNear == ASSUME OInv, OneInv, begun # None, Drop PROVE OneInv'
<1>1. UNCHANGED <<page, posts, server, source, dom, begun, decided, unsent, givenUp>> /\ frames' = <<>>
  BY DEF Drop, helperVars, history
<1>2. FramesNear' BY <1>1 DEF FramesNear
<1>3. Near(page', begun, Seen) /\ Same(page, page') /\ (Holds(page, begun) => Holds(page', begun))
  BY <1>1 DEF OneInv, Same
<1>. QED BY <1>1, <1>2, <1>3, PageKeepsIt

LEMMA ConnectNear == ASSUME OInv, OneInv, begun # None, Connect PROVE OneInv'
<1>1. UNCHANGED <<page, posts, server, source, dom, begun, decided, unsent, givenUp>>
  BY DEF Connect, helperVars, history
<1>2. PICK late \in SUBSET {s \in Sessions : server[s] = "done"} :
        frames' = <<[type |-> "connected",
                     list |-> [s \in Sessions |-> IF s \in late THEN "late" ELSE server[s]]]>>
  BY DEF Connect
<1> DEFINE list == [s \in Sessions |-> IF s \in late THEN "late" ELSE server[s]]
           m == [type |-> "connected", list |-> list]
<1>3. Timely(list, begun, Seen)
  <2> SUFFICES ASSUME NEW s \in Sessions, Completed(list, s) PROVE s = begun /\ Seen BY DEF Timely
  <2>1. server[s] \in Phases BY BegunIsSession DEF Servers
  <2>2. server[s] = "done" BY <2>1 DEF Completed, Phases
  <2>3. s = begun BY <2>2, OpenIsBegun
  <2>. QED BY <2>2, <2>3 DEF OneInv, HelperNear, Seen
<1>4. m.type = "connected" /\ m.list = list /\ frames' = <<m>> BY <1>2
<1> HIDE DEF list, m
<1>5. FrameNear(m, begun, Seen, server[begun]) BY <1>3, <1>4 DEF FrameNear
<1>6. Seen' = Seen BY <1>1 DEF Seen
<1>7. FramesNear' BY <1>1, <1>4, <1>5, <1>6 DEF FramesNear
<1>8. Near(page', begun, Seen) /\ Same(page, page') /\ (Holds(page, begun) => Holds(page', begun))
  BY <1>1 DEF OneInv, Same
<1>. QED BY <1>1, <1>7, <1>8, PageKeepsIt
----------------------------------------------------------------------------
\* What is heard of the end of a session.
LEMMA OnCompleteNear ==
  ASSUME OInv, OneInv, begun # None, NEW m, m.id \in Begun,
         m.id = begun => server[begun] \in Acted, NEW r, r = OnComplete(m)
  PROVE  /\ Near(r, begun, Seen) /\ Marked(page, r, begun)
         /\ Dead \/ (Same(page, r) /\ (Holds(page, begun) => Holds(r, begun)))
<1>0. page \in Pages(Begun) /\ None \notin Begun /\ Seen \in BOOLEAN /\ Near(page, begun, Seen)
  BY BegunIsSession DEF OneInv
<1> DEFINE n == IF page.awaiting = m.id THEN None ELSE page.awaiting
           p == [page EXCEPT !.awaiting = n]
<1>1. \/ p.pending # m.id /\ r = p
      \/ p.pending = m.id /\ p.current \notin {None, m.id} /\ r = [p EXCEPT !.pending = None]
      \/ p.pending = m.id /\ r = CleanupAccepted(MarkHandled(p))
  BY DEF OnComplete
<1>2. n \in Begun \cup {None} /\ p = [page EXCEPT !.awaiting = n] BY <1>0 DEF Pages
<1> HIDE DEF n, p
<1>3. p \in Pages(Begun) BY <1>0, <1>2 DEF Pages
<1>4. /\ p.current = page.current /\ p.saved = page.saved /\ p.pending = page.pending
      /\ p.observer = page.observer /\ p.captures = page.captures /\ p.reads = page.reads
      /\ p.arrived = page.arrived /\ p.state = page.state /\ Same(page, p)
  BY <1>0, <1>2 DEF Pages, Same
<1>5. Near(p, begun, Seen) BY <1>0, <1>4 DEF Near
<1>6. CASE p.pending # m.id
  <2>1. r = p BY <1>1, <1>6
  <2>2. Holds(page, begun) => Holds(p, begun) BY <1>4 DEF Holds, Stored, Same
  <2>. QED BY <1>4, <1>5, <2>1, <2>2 DEF Same, Marked
<1>7. CASE p.pending = m.id
  <2>1. m.id = begun BY <1>0, <1>5, <1>7 DEF Near
  <2>2. r = CleanupAccepted(MarkHandled(p)) BY <1>1, <1>5, <1>7, <2>1 DEF Near
  <2> DEFINE q == MarkHandled(p)
             a == q.awaiting
  <2>3. q \in Pages(Begun) BY <1>0, <1>3, MarkedPage
  <2>4. q = [q EXCEPT !.awaiting = a] /\ a \in Begun \cup {None}
    <3> HIDE DEF q
    <3>. QED BY <2>3 DEF Pages
  <2> HIDE DEF a
  <2>5. r = CleanupAccepted([MarkHandled(p) EXCEPT !.awaiting = a]) BY <2>2, <2>4
  <2>6. Near(r, begun, Seen) /\ Marked(p, r, begun)
    BY <1>0, <1>3, <1>5, <2>4, <2>5, AcceptedAndClearedNear
  <2>7. Dead BY <2>1, ActedIsDead
  <2>. QED BY <1>4, <2>6, <2>7 DEF Same, Marked
<1>. QED BY <1>6, <1>7

LEMMA OnDiscardedNear ==
  ASSUME OInv, OneInv, begun # None, NEW m, m.id \in Begun,
         m.id = begun => server[begun] \in Acted, NEW r, r = OnDiscarded(m)
  PROVE  /\ Near(r, begun, Seen) /\ Marked(page, r, begun)
         /\ Dead \/ (Same(page, r) /\ (Holds(page, begun) => Holds(r, begun)))
<1>0. page \in Pages(Begun) /\ None \notin Begun /\ Seen \in BOOLEAN /\ Near(page, begun, Seen)
  BY BegunIsSession DEF OneInv
<1>1. CASE m.id = page.current
  <2>1. r = Cleanup(MarkHandled(page)) BY <1>1 DEF OnDiscarded
  <2>2. m.id = begun BY <1>0, <1>1 DEF Near
  <2>3. Dead BY <2>2, ActedIsDead
  <2>. QED BY <1>0, <2>1, <2>3, MarkedAndClearedNear
<1>2. CASE m.id # page.current
  <2>1. r = page BY <1>2 DEF OnDiscarded
  <2>. QED BY <1>0, <2>1 DEF Same, Marked
<1>. QED BY <1>1, <1>2

LEMMA OnErrorNear ==
  ASSUME OInv, OneInv, begun # None, NEW m, m.id = begun,
         server[begun] \in Acted \cup {"failed"}, NEW r, r = OnError(m)
  PROVE  Near(r, begun, Seen) /\ Marked(page, r, begun) /\ Dead
<1>0. page \in Pages(Begun) /\ None \notin Begun /\ Seen \in BOOLEAN /\ Near(page, begun, Seen)
  BY BegunIsSession DEF OneInv
<1>1. Dead BY ActedIsDead
<1>2. CASE page.pending = begun
  <2>1. r = [page EXCEPT !.pending = None, !.awaiting = None, !.state = "CYCLING"]
    BY <1>2 DEF OnError
  <2>2. /\ r.current = page.current /\ r.saved = page.saved /\ r.pending = None
        /\ r.observer = page.observer /\ r.captures = page.captures /\ r.reads = page.reads
        /\ Same(page, r)
    BY <1>0, <2>1 DEF Pages, Same
  <2>3. Seen BY <1>0, <1>2 DEF Near
  <2>. QED BY <1>0, <1>1, <2>2, <2>3 DEF Near, Marked, Same
<1>3. CASE page.pending # begun /\ page.awaiting = begun
  <2>1. r = [page EXCEPT !.awaiting = None] BY <1>3 DEF OnError
  <2>2. /\ r.current = page.current /\ r.saved = page.saved /\ r.pending = page.pending
        /\ r.observer = page.observer /\ r.captures = page.captures /\ r.reads = page.reads
        /\ r.arrived = page.arrived /\ r.state = page.state /\ Same(page, r)
    BY <1>0, <2>1 DEF Pages, Same
  <2>. QED BY <1>0, <1>1, <2>2 DEF Near, Marked, Same
<1>4. CASE page.pending # begun /\ page.awaiting # begun /\ page.current = begun
  <2>1. r = Cleanup(MarkHandled(page)) BY <1>4 DEF OnError
  <2>. QED BY <1>0, <1>1, <2>1, MarkedAndClearedNear
<1>5. CASE page.pending # begun /\ page.awaiting # begun /\ page.current # begun
  <2> DEFINE c == IF page.saved.id = begun THEN NotSaved ELSE page.saved
  <2>1. r = [page EXCEPT !.saved = c, !.state = "PICKING"] BY <1>5 DEF OnError
  <2>2. /\ c.id \in {None, begun} /\ (c.arrived \/ c.state = "CYCLING" => Seen)
    BY <1>0 DEF Near, NotSaved
  <2> HIDE DEF c
  <2>3. /\ r.current = page.current /\ r.saved = c /\ r.pending = page.pending
        /\ r.observer = page.observer /\ r.captures = page.captures /\ r.reads = page.reads
        /\ r.arrived = page.arrived /\ r.state = "PICKING" /\ Same(page, r)
    BY <1>0, <2>1 DEF Pages, Same
  <2>. QED BY <1>0, <1>1, <2>2, <2>3 DEF Near, Marked, Same
<1>. QED BY <1>2, <1>3, <1>4, <1>5

LEMMA ReceiveNear == ASSUME OInv, OneInv, begun # None, Receive PROVE OneInv'
<1> DEFINE m == Head(frames)
<1>1. UNCHANGED <<posts, server, source, dom, begun, decided, unsent, givenUp>>
  BY DEF Receive, helperVars, history
<1>2. frames # <<>> /\ frames' = Tail(frames) BY DEF Receive
<1>3. frames \in Seq(Frames(Begun)) BY DEF OInv, Helper
<1>4. m \in Frames(Begun) BY <1>2, <1>3, HeadTailProperties
<1>5. m = frames[1] /\ 1 \in DOMAIN frames BY <1>2, <1>3, HeadTailProperties
<1>6. FrameNear(m, begun, Seen, server[begun]) BY <1>5 DEF OneInv, FramesNear
<1>7. FramesNear'
  <2>1. ASSUME NEW i \in DOMAIN frames' PROVE i + 1 \in DOMAIN frames /\ frames'[i] = frames[i + 1]
    BY <1>2, <1>3, <2>1, HeadTailProperties
  <2>. QED BY <1>1, <2>1, FramesStayNear DEF OneInv
<1>8. page' = CASE m.type = "connected" -> OnConnected(m)
                [] m.type = "done"      -> OnDone(m)
                [] m.type = "complete"  -> OnComplete(m)
                [] m.type = "discarded" -> OnDiscarded(m)
                [] m.type = "error"     -> OnError(m)
  BY DEF Receive
<1> HIDE DEF m
<1>9. /\ page \in Pages(Begun) /\ Good(page, Begun) /\ None \notin Begun /\ Begun \subseteq Sessions
      /\ Seen \in BOOLEAN /\ Near(page, begun, Seen)
  BY BegunIsSession DEF OneInv
<1>10. ASSUME Near(page', begun, Seen) /\ Same(page, page') /\ (Holds(page, begun) => Holds(page', begun))
       PROVE  OneInv'
  BY <1>1, <1>7, <1>10, PageKeepsIt
<1>11. ASSUME Near(page', begun, Seen) /\ Marked(page, page', begun), Dead PROVE OneInv'
  <2>1. PostsNear' BY <1>1, <1>11, PostsNearer DEF OneInv, Marked
  <2>. QED BY <1>1, <1>7, <1>11, <2>1, PageLeavesIt
<1>12. CASE m.type = "connected"
  <2>1. page' = OnConnected(m) BY <1>8, <1>12
  <2>2. m.list \in Lists(Begun) BY <1>4, <1>12 DEF Frames
  <2>3. Timely(m.list, begun, Seen) BY <1>6, <1>12 DEF FrameNear
  <2>4. Near(page', begun, Seen) /\ Same(page, page') /\ (Holds(page, begun) => Holds(page', begun))
    BY <1>9, <2>1, <2>2, <2>3, OnConnectedNear
  <2>. QED BY <1>10, <2>4
<1>13. CASE m.type = "done"
  <2>1. page' = OnDone(m) BY <1>8, <1>13
  <2>2. m.id # None /\ (m.id = begun => Seen) BY <1>4, <1>6, <1>9, <1>13 DEF Frames, FrameNear
  <2>3. Near(page', begun, Seen) /\ Same(page, page') /\ (Holds(page, begun) => Holds(page', begun))
    BY <1>9, <2>1, <2>2, OnDoneNear
  <2>. QED BY <1>10, <2>3
<1>14. CASE m.type = "complete"
  <2>1. page' = OnComplete(m) BY <1>8, <1>14
  <2>2. m.id \in Begun /\ (m.id = begun => server[begun] \in Acted)
    BY <1>4, <1>6, <1>14 DEF Frames, FrameNear
  <2>3. /\ Near(page', begun, Seen) /\ Marked(page, page', begun)
        /\ Dead \/ (Same(page, page') /\ (Holds(page, begun) => Holds(page', begun)))
    BY <2>1, <2>2, OnCompleteNear
  <2>. QED BY <1>10, <1>11, <2>3
<1>15. CASE m.type = "discarded"
  <2>1. page' = OnDiscarded(m) BY <1>8, <1>15
  <2>2. m.id \in Begun /\ (m.id = begun => server[begun] \in Acted)
    BY <1>4, <1>6, <1>15 DEF Frames, FrameNear
  <2>3. /\ Near(page', begun, Seen) /\ Marked(page, page', begun)
        /\ Dead \/ (Same(page, page') /\ (Holds(page, begun) => Holds(page', begun)))
    BY <2>1, <2>2, OnDiscardedNear
  <2>. QED BY <1>10, <1>11, <2>3
<1>16. CASE m.type = "error"
  <2>1. page' = OnError(m) BY <1>8, <1>16
  <2>2. m.id = begun /\ server[begun] \in Acted \cup {"failed"} BY <1>6, <1>16 DEF FrameNear
  <2>3. Near(page', begun, Seen) /\ Marked(page, page', begun) /\ Dead
    BY <2>1, <2>2, OnErrorNear
  <2>. QED BY <1>11, <2>3
<1>. QED BY <1>4, <1>12, <1>13, <1>14, <1>15, <1>16 DEF Frames
----------------------------------------------------------------------------
LEMMA DropsNear ==
  ASSUME OInv, OneInv, begun # None, NEW x, NEW p, p = Drops(x)
  PROVE  /\ p \in Pages(Begun) /\ Near(p, begun, Seen) /\ Same(page, p)
         /\ Holds(page, begun) => Holds(p, begun)
<1> DEFINE rs == page.reads \ {x}
<1>1. page \in Pages(Begun) BY BegunIsSession
<1>2. p = [page EXCEPT !.reads = rs] BY DEF Drops
<1>3. p \in Pages(Begun) BY <1>1, <1>2 DEF Pages
<1>4. p = [page EXCEPT !.file = page.file, !.reads = rs] BY <1>1, <1>2 DEF Pages
<1>5. rs \subseteq page.reads OBVIOUS
<1> HIDE DEF rs
<1>6. \A y \in rs : y \in page.reads \/ (y.id = begun /\ (y.orphan \/ y.completed => Seen)) BY <1>5
<1>7. Seen \in BOOLEAN /\ Near(page, begun, Seen) BY DEF OneInv, Seen
<1>8. Near(p, begun, Seen) /\ Same(page, p) /\ (Holds(page, begun) => Holds(p, begun))
  BY <1>1, <1>4, <1>6, <1>7, ReadNear
<1>. QED BY <1>3, <1>8

LEMMA DelayedNear ==
  ASSUME OInv, OneInv, begun # None, NEW x \in page.reads, Delayed(x) \/ Retry(x)
  PROVE  OneInv'
<1>0. x \in Reads(Begun) /\ x.id = begun /\ (x.orphan \/ x.completed => Seen)
  BY BegunIsSession DEF Pages, OneInv, Near
<1>1. UNCHANGED <<posts, server, source, dom, frames, begun, decided, unsent, givenUp>>
  BY <1>0, GoesOn
<1>2. PICK a \in {"fetch", "mount"} :
        LET p == Drops(x) IN
        page' = [p EXCEPT !.reads = @ \cup {[x EXCEPT !.at = a]}, !.file = TRUE] \/ page' = p
  BY <1>0, GoesOn
<1> DEFINE p == Drops(x)
           y == [x EXCEPT !.at = a]
           rs == p.reads \cup {y}
<1>3. (page' = [p EXCEPT !.reads = rs, !.file = TRUE] \/ page' = p) /\ p = Drops(x) BY <1>2
<1> HIDE DEF p
<1>4. /\ p \in Pages(Begun) /\ Near(p, begun, Seen) /\ Same(page, p)
      /\ Holds(page, begun) => Holds(p, begun)
  BY <1>3, DropsNear
<1>5. y.id = begun /\ (y.orphan \/ y.completed => Seen) BY <1>0 DEF Reads
<1> HIDE DEF y
<1>6. \A z \in rs : z \in p.reads \/ (z.id = begun /\ (z.orphan \/ z.completed => Seen)) BY <1>5
<1> HIDE DEF rs
<1>7. ASSUME page' = [p EXCEPT !.reads = rs, !.file = TRUE]
      PROVE  Near(page', begun, Seen) /\ Same(p, page') /\ (Holds(p, begun) => Holds(page', begun))
  <2>1. /\ page'.current = p.current /\ page'.saved = p.saved /\ page'.pending = p.pending
        /\ page'.observer = p.observer /\ page'.captures = p.captures /\ page'.reads = rs
        /\ page'.arrived = p.arrived /\ page'.state = p.state /\ Same(p, page')
    BY <1>4, <1>7 DEF Pages, Same
  <2>2. Seen \in BOOLEAN BY DEF Seen
  <2>. QED BY <1>4, <1>6, <2>1, <2>2, ReadsNear
<1>8. Near(page', begun, Seen) /\ Same(page, page') /\ (Holds(page, begun) => Holds(page', begun))
  BY <1>3, <1>4, <1>7 DEF Same
<1>9. FramesNear' BY <1>1, StreamStaysNear
<1>. QED BY <1>1, <1>8, <1>9, PageKeepsIt

LEMMA AnchorMissingNear ==
  ASSUME OInv, OneInv, begun # None, NEW x \in page.reads, AnchorMissing(x)
  PROVE  OneInv'
<1> DEFINE d == Drops(x)
           g == [d EXCEPT !.state = "GENERATING"]
           p == Save(g)
           y == Read(x.id, "anchor", FALSE, FALSE)
           rs == Disconnected(p.reads) \cup {y}
<1>1. UNCHANGED <<posts, server, source, dom, frames, begun, decided, unsent, givenUp>>
  BY DEF AnchorMissing, helperVars, stream, history
<1>2. page' = [p EXCEPT !.reads = rs, !.timer = TRUE] BY DEF AnchorMissing
<1>3. d = Drops(x) /\ g = [d EXCEPT !.state = "GENERATING"] /\ p = Save(g) OBVIOUS
<1>4. y.id = begun /\ ~y.orphan /\ ~y.completed BY DEF Read, OneInv, Near
<1> HIDE DEF d, g, p, y
<1>5. /\ d \in Pages(Begun) /\ Near(d, begun, Seen) /\ Same(page, d)
      /\ Holds(page, begun) => Holds(d, begun)
  BY <1>3, DropsNear
<1>6. Seen \in BOOLEAN /\ None \notin Begun BY BegunIsSession
<1>7. Near(g, begun, Seen) /\ Same(d, g) /\ (Holds(d, begun) => Holds(g, begun))
  <2>1. "GENERATING" \in Kept BY DEF Kept
  <2>. QED BY <1>3, <1>5, <1>6, <2>1, StateNear
<1>8. Good(g, Begun) /\ Good(p, Begun)
  <2>1. Good(d, Begun) BY <1>3, DropsGood
  <2>2. g \in Pages(Begun) BY <1>3, <1>5 DEF Pages, States
  <2>3. Good(g, Begun) BY <1>3, <2>1, <2>2 DEF Good, Pages
  <2>. QED BY <1>3, <1>6, <2>3, SaveGood
<1>9. Near(p, begun, Seen) /\ Same(g, p) /\ (Holds(g, begun) => Holds(p, begun))
  <2>1. g \in Pages(Begun) BY <1>8 DEF Good
  <2>2. /\ Near(p, begun, Seen) /\ Same(g, p)
        /\ g.current = begun /\ g.state \in Kept /\ begun \notin g.handled => Holds(p, begun)
    BY <1>3, <1>6, <1>7, <2>1, SaveNear
  <2>. QED BY <2>2 DEF Holds, Stored
<1>10. \A z \in rs : z \in p.reads \/ (z.id = begun /\ (z.orphan \/ z.completed => Seen))
  BY <1>4 DEF Disconnected
<1> HIDE DEF rs
<1>11. /\ page'.current = p.current /\ page'.saved = p.saved /\ page'.pending = p.pending
       /\ page'.observer = p.observer /\ page'.captures = p.captures /\ page'.reads = rs
       /\ page'.arrived = p.arrived /\ page'.state = p.state /\ Same(p, page')
  BY <1>2, <1>8 DEF Good, Pages, Same
<1>12. Near(page', begun, Seen) /\ (Holds(p, begun) => Holds(page', begun))
  BY <1>6, <1>9, <1>10, <1>11, ReadsNear
<1>13. Near(page', begun, Seen) /\ Same(page, page') /\ (Holds(page, begun) => Holds(page', begun))
  BY <1>5, <1>7, <1>9, <1>11, <1>12 DEF Same
<1>14. FramesNear' BY <1>1, StreamStaysNear
<1>. QED BY <1>1, <1>13, <1>14, PageKeepsIt

\* A document shows the wrappers that it had and those of the source: the
\* session's, and those of earlier sessions that the page has handled.
LEMMA WrapperExpected ==
  ASSUME OInv, OneInv, begun # None, NEW d \in Trees(Begun),
         \A s \in Sessions : d[s] \in {dom[s], source[s], "none"},
         NEW w \in Found(d), NEW p, p.handled = page.handled
  PROVE  Expected(d, w, p, begun, Seen) /\ w \in Begun \cup {None}
<1>1. w \in Begun \cup {None} BY FoundBegun
<1>2. begun \in Sessions /\ Begun \subseteq Sessions BY BegunIsSession
<1>3. d[begun] = "variants" => Seen BY <1>2 DEF OneInv, HelperNear, Seen
<1>4. CASE w \in {None, begun} BY <1>1, <1>3, <1>4 DEF Expected
<1>5. CASE w \notin {None, begun}
  <2>1. w \in Earlier /\ w \in Sessions BY <1>1, <1>2, <1>5 DEF Earlier
  <2>2. d[w] # "none" BY <1>5 DEF Found, Wrappers
  <2>3. w \in page.handled BY <2>1, <2>2 DEF OneInv, EarlierLeft, Left
  <2>. QED BY <1>1, <1>3, <2>3 DEF Expected
<1>. QED BY <1>4, <1>5

\* The page after its document has changed.
LEMMA DocumentNear ==
  ASSUME OInv, OneInv, begun # None, dom' \in Trees(Begun),
         \A s \in Sessions : dom'[s] \in {dom[s], source[s], "none"},
         NEW p, Good(p, Begun), Near(p, begun, Seen), Same(page, p), NEW s,
         \E w \in Found(dom') : page' = Mutated(p, dom', s, w)
  PROVE  Near(page', begun, Seen) /\ Same(page, page') /\ (Holds(p, begun) => Holds(page', begun))
<1>1. PICK w \in Found(dom') : page' = Mutated(p, dom', s, w) OBVIOUS
<1>2. Expected(dom', w, p, begun, Seen) /\ w \in Begun \cup {None} BY WrapperExpected DEF Same
<1>3. begun \in Begun /\ None \notin Begun /\ Begun \subseteq Sessions /\ Seen \in BOOLEAN
  BY BegunIsSession
<1>4. Near(page', begun, Seen) /\ Same(p, page') /\ (Holds(p, begun) => Holds(page', begun))
  BY <1>1, <1>2, <1>3, MutatedNear
<1>. QED BY <1>4 DEF Same

LEMMA FetchedNear == ASSUME OInv, OneInv, begun # None, NEW x \in page.reads, Fetched(x) PROVE OneInv'
<1> DEFINE d == Drops(x)
           p == Injected(x, d, source[x.id])
<1>1. UNCHANGED <<posts, server, source, frames, begun, decided, unsent, givenUp>>
  BY DEF Fetched, helperVars, stream, history
<1>2. \E w \in Found(dom') : page' = Mutated(p, dom', x.id, w) BY DEF Fetched
<1>3. dom' = [dom EXCEPT ![x.id] = source[x.id]] BY DEF Fetched
<1>4. d = Drops(x) /\ p = Injected(x, d, source[x.id]) OBVIOUS
<1> HIDE DEF d, p
<1>5. /\ begun \in Begun /\ begun \in Sessions /\ None \notin Begun /\ Seen \in BOOLEAN
      /\ source \in Trees(Begun) /\ dom \in Trees(Begun)
  BY BegunIsSession
<1>6. x.id = begun /\ (x.completed => Seen) BY DEF OneInv, Near
<1>7. dom' \in Trees(Begun) /\ \A s \in Sessions : dom'[s] \in {dom[s], source[s], "none"}
  BY <1>3, <1>5, <1>6 DEF Trees
<1>8. /\ d \in Pages(Begun) /\ Near(d, begun, Seen) /\ Same(page, d)
      /\ Holds(page, begun) => Holds(d, begun)
  BY <1>4, DropsNear
<1>9. source[begun] = "variants" => Seen BY DEF Seen
<1>10. /\ Near(p, begun, Seen) /\ Same(d, p)
       /\ Holds(d, begun) /\ (Seen => source[begun] = "variants") => Holds(p, begun)
  BY <1>4, <1>5, <1>6, <1>8, <1>9, InjectedNear
<1>11. Good(p, Begun) BY <1>4, <1>5, DropsGood, InjectedGood
<1>12. Same(page, p) BY <1>8, <1>10 DEF Same
<1>13. Near(page', begun, Seen) /\ Same(page, page') /\ (Holds(p, begun) => Holds(page', begun))
  BY <1>2, <1>7, <1>10, <1>11, <1>12, DocumentNear
<1>14. Wanted /\ Holds(page, begun) => Holds(page', begun) BY <1>8, <1>10, <1>13, WantedIs
<1>15. FramesNear' BY <1>1, StreamStaysNear
<1>. QED BY <1>1, <1>7, <1>13, <1>14, <1>15, PageKeepsIt

LEMMA MountedNear ==
  ASSUME OInv, OneInv, begun # None, NEW x \in page.reads, Mounted(x) \/ NotMounted(x)
  PROVE  OneInv'
<1> DEFINE d == Drops(x)
           p == Injected(x, d, dom[x.id])
<1>1. UNCHANGED <<posts, server, source, dom, frames, begun, decided, unsent, givenUp>>
  BY DEF Mounted, NotMounted, helperVars, stream, history
<1>2. page' = d \/ (dom[x.id] = "variants" /\ page' = p) BY DEF Mounted, NotMounted
<1>3. d = Drops(x) /\ p = Injected(x, d, dom[x.id]) OBVIOUS
<1> HIDE DEF d, p
<1>4. /\ d \in Pages(Begun) /\ Near(d, begun, Seen) /\ Same(page, d)
      /\ Holds(page, begun) => Holds(d, begun)
  BY <1>3, DropsNear
<1>5. x.id = begun /\ (x.completed => Seen) BY DEF OneInv, Near
<1>6. dom[begun] = "variants" => Seen BY DEF OneInv, HelperNear
<1>7. ASSUME dom[x.id] = "variants"
      PROVE  Near(p, begun, Seen) /\ Same(d, p) /\ (Holds(d, begun) => Holds(p, begun))
  <2>1. Seen \in BOOLEAN /\ None \notin Begun BY BegunIsSession
  <2> DEFINE w == dom[x.id]
  <2>2. w = "variants" /\ Seen /\ p = Injected(x, d, w) BY <1>3, <1>5, <1>6, <1>7
  <2> HIDE DEF w
  <2>. QED BY <1>4, <2>1, <2>2, InjectedNear
<1>8. Near(page', begun, Seen) /\ Same(page, page') /\ (Holds(page, begun) => Holds(page', begun))
  BY <1>2, <1>4, <1>7 DEF Same
<1>9. FramesNear' BY <1>1, StreamStaysNear
<1>. QED BY <1>1, <1>8, <1>9, PageKeepsIt

\* The page gives up a session whose variants are in the source.
LEMMA GiveUpNear == ASSUME OInv, OneInv, begun # None, NEW x \in page.reads, GiveUp(x) PROVE OneInv'
<1> DEFINE d == Drops(x)
<1>1. UNCHANGED <<posts, server, source, dom, frames, begun, decided, unsent>>
  BY DEF GiveUp, helperVars, stream
<1>2. x.id = begun /\ Seen BY DEF GiveUp, OneInv, Near
<1>3. page' = Cleanup(d) /\ givenUp' = givenUp \cup {begun} BY <1>2 DEF GiveUp
<1>4. d = Drops(x) OBVIOUS
<1> HIDE DEF d
<1>5. d \in Pages(Begun) /\ Near(d, begun, Seen) /\ Same(page, d) BY <1>4, DropsNear
<1>6. Near(page', begun, Seen) /\ Same(page, page')
  <2>1. Seen \in BOOLEAN /\ None \notin Begun BY BegunIsSession
  <2>2. Near(page', begun, Seen) /\ Same(d, page') BY <1>3, <1>5, <2>1, CleanupNear
  <2>. QED BY <1>5, <2>2 DEF Same
<1>7. Seen' = Seen /\ Dead' = Dead BY <1>1 DEF Seen, Dead
<1>8. ~Wanted' BY <1>1, <1>2, <1>3 DEF Wanted, Seen, Acted
<1>9. PostsNear' BY <1>1, <1>6, PostsNearer DEF OneInv, Same
<1>10. HelperNear' BY <1>1, <1>2, <1>7 DEF OneInv, HelperNear
<1>11. FramesNear' BY <1>1, StreamStaysNear
<1>12. EarlierLeft' BY <1>1, <1>3, <1>6, EarlierStayLeft DEF OneInv, Same
<1>13. HandledIsDead' BY <1>1, <1>6, <1>7 DEF OneInv, HandledIsDead, Same
<1>14. Near(page, begun, Seen)' BY <1>1, <1>6, <1>7
<1>. QED BY <1>8, <1>9, <1>10, <1>11, <1>12, <1>13, <1>14 DEF OneInv, WantedIsHeld

LEMMA MissingNear == ASSUME OInv, OneInv, begun # None, NEW x \in page.reads, Missing(x) PROVE OneInv'
<1> DEFINE d == Drops(x)
           q == Post(page, "discard", x.id)
<1>1. UNCHANGED <<server, source, dom, frames, begun, decided, unsent, givenUp>>
  BY DEF Missing, helperVars, stream, history
<1>2. source[x.id] = "none" BY DEF Missing
<1>3. \/ x.orphan /\ page' = Cleanup(MarkHandled(d)) /\ posts' = posts \cup {q}
      \/ page' = d /\ posts' = posts
  BY DEF Missing
<1>4. x.id = begun /\ (x.orphan \/ x.completed => Seen) BY DEF OneInv, Near
<1>5. q.id = begun /\ q.type = "discard" /\ q.at = "out" /\ ~q.deaf /\ q.after = page.gate
  BY <1>4, PostSays
<1>6. d = Drops(x) OBVIOUS
<1> HIDE DEF d, q
<1>7. /\ d \in Pages(Begun) /\ Near(d, begun, Seen) /\ Same(page, d)
      /\ Holds(page, begun) => Holds(d, begun)
  BY <1>6, DropsNear
<1>8. FramesNear' BY <1>1, StreamStaysNear
<1>9. CASE x.orphan /\ page' = Cleanup(MarkHandled(d)) /\ posts' = posts \cup {q}
  <2>1. server[begun] \in Acted BY <1>2, <1>4, <1>9 DEF Seen
  <2>2. Dead /\ begun \in decided BY <2>1, ActedIsDead DEF OneInv, HelperNear
  <2>3. Seen \in BOOLEAN /\ None \notin Begun BY BegunIsSession
  <2>4. Near(page', begun, Seen) /\ Marked(d, page', begun)
    BY <1>7, <1>9, <2>3, MarkedAndClearedNear
  <2>5. Marked(page, page', begun) BY <1>7, <2>4 DEF Marked, Same
  <2>6. PostsNear' BY <1>1, <1>5, <1>9, <2>2, <2>5, PostsNearer DEF OneInv, Marked
  <2>. QED BY <1>1, <1>8, <2>2, <2>4, <2>5, <2>6, PageLeavesIt
<1>10. CASE page' = d /\ posts' = posts
  <2>1. Near(page', begun, Seen) /\ Same(page, page') /\ (Holds(page, begun) => Holds(page', begun))
    BY <1>7, <1>10
  <2>. QED BY <1>1, <1>8, <1>10, <2>1, PageKeepsIt
<1>. QED BY <1>3, <1>9, <1>10

LEMMA HmrNear == ASSUME OInv, OneInv, begun # None, NEW s \in Sessions, Hmr(s) PROVE OneInv'
<1>1. UNCHANGED <<posts, server, source, frames, begun, decided, unsent, givenUp>>
  BY DEF Hmr, helperVars, stream, history
<1>2. dom' = [dom EXCEPT ![s] = source[s]] BY DEF Hmr
<1>3. /\ source \in Trees(Begun) /\ dom \in Trees(Begun) /\ Good(page, Begun)
      /\ Near(page, begun, Seen)
  BY BegunIsSession DEF OneInv
<1>4. dom' \in Trees(Begun) /\ \A y \in Sessions : dom'[y] \in {dom[y], source[y], "none"}
  BY <1>2, <1>3 DEF Trees
<1>5. \E w \in Found(dom') : page' = Mutated(page, dom', s, w) BY DEF Hmr
<1>6. Same(page, page) BY DEF Same
<1>7. Near(page', begun, Seen) /\ Same(page, page') /\ (Holds(page, begun) => Holds(page', begun))
  BY <1>3, <1>4, <1>5, <1>6, DocumentNear
<1>8. FramesNear' BY <1>1, StreamStaysNear
<1>. QED BY <1>1, <1>4, <1>7, <1>8, PageKeepsIt
----------------------------------------------------------------------------
\* While nothing creates the session: what the document that is gone had sent
\* is not heard of.
LEMMA DeafNear ==
  ASSUME OInv, PostsNear, NEW sent, sent \subseteq {x \in posts : x.at = "out"},
         \A q \in posts : q.type # "generate",
         posts' = {[q EXCEPT !.deaf = TRUE] : q \in sent},
         UNCHANGED <<server, begun, decided, unsent, givenUp>>
  PROVE  PostsNear'
<1>1. ASSUME NEW x \in posts'
      PROVE  /\ x.id = begun /\ x.type # "generate" /\ x.at = "out"
             /\ x.type \in {"accept", "discard"} => begun \in decided
  <2>1. PICK q \in sent : x = [q EXCEPT !.deaf = TRUE] OBVIOUS
  <2>2. q \in posts /\ q \in Posts(Begun) /\ q.at = "out" BY DEF OInv
  <2>3. x.id = q.id /\ x.type = q.type /\ x.at = "out" BY <2>1, <2>2 DEF Posts
  <2>. QED BY <2>2, <2>3 DEF PostsNear
<1>2. server[begun] = "none" => begun \in unsent BY DEF PostsNear
<1>. QED BY <1>1, <1>2 DEF PostsNear

LEMMA ReloadNear == ASSUME OInv, OneInv, begun # None, calm, Reload PROVE OneInv'
<1>1. UNCHANGED <<begun, decided, unsent, givenUp, server, source>> BY DEF Reload, helperVars, history
<1>2. /\ dom' \in Trees(Begun) /\ \A s \in Sessions : dom'[s] \in {dom[s], source[s], "none"}
      /\ frames' = <<>> /\ \A q \in posts : q.type # "generate"
  BY ReloadedDocument DEF Reload
<1>3. /\ begun \in Begun /\ None \notin Begun /\ Begun \subseteq Sessions /\ Seen \in BOOLEAN
      /\ Near(page, begun, Seen)
  BY BegunIsSession DEF OneInv
<1> DEFINE f == Loaded
<1>4. PICK w \in Found(dom') :
        LET p == Resume(f, dom', w) IN
        page' = [p EXCEPT !.scouting = p.current = None \/ w = None]
  BY DEF Reload, Loaded
<1> DEFINE p == Resume(f, dom', w)
           sc == p.current = None \/ w = None
<1>5. page' = [p EXCEPT !.scouting = sc] /\ p = Resume(f, dom', w) BY <1>4
<1>6. /\ Good(f, Begun)
      /\ f.current = None /\ f.pending = None /\ f.observer = None /\ ~f.arrived
      /\ f.state = "PICKING" /\ f.reads = {} /\ f.captures = {}
      /\ f.saved = page.saved /\ f.handled = page.handled
  BY FreshGood
<1> HIDE DEF f, p, sc
<1>7. Near(f, begun, Seen) BY <1>3, <1>6 DEF Near
<1>8. Expected(dom', w, f, begun, Seen) /\ w \in Begun \cup {None} BY <1>2, <1>6, WrapperExpected
<1>9. /\ Near(p, begun, Seen) /\ Same(f, p)
      /\ Stored(f, begun) /\ (f.current = None \/ Holds(f, begun)) => Holds(p, begun)
  BY <1>3, <1>5, <1>6, <1>7, <1>8, ResumeNear
<1>10. p \in Pages(Begun) BY <1>3, <1>5, <1>6, <1>8, ResumeGood DEF Good
<1>11. /\ page'.current = p.current /\ page'.saved = p.saved /\ page'.pending = p.pending
       /\ page'.observer = p.observer /\ page'.captures = p.captures
       /\ page'.reads = p.reads /\ page'.arrived = p.arrived /\ page'.state = p.state
       /\ Same(p, page')
  BY <1>5, <1>10 DEF Pages, Same
<1>12. Near(page', begun, Seen) BY <1>9, <1>11 DEF Near
<1>13. Wanted => Holds(page', begun)
  <2> SUFFICES ASSUME Wanted PROVE Holds(page', begun) OBVIOUS
  <2>1. Stored(page, begun) BY HoldsIsStored DEF OneInv, WantedIsHeld
  <2>2. Stored(f, begun) BY <1>6, <2>1 DEF Stored
  <2>3. Holds(p, begun) BY <1>6, <1>9, <2>2
  <2>. QED BY <1>11, <2>3 DEF Holds, Stored, Same
<1>14. PostsNear'
  <2> DEFINE sent == {x \in posts : x.at = "out" /\ ~Gated(x)}
  <2>1. posts' = {[q EXCEPT !.deaf = TRUE] : q \in sent} BY DEF Reload
  <2>2. sent \subseteq {x \in posts : x.at = "out"} OBVIOUS
  <2> HIDE DEF sent
  <2>. QED BY <1>1, <1>2, <2>1, <2>2, DeafNear DEF OneInv
<1>15. FramesNear' BY <1>2 DEF FramesNear
<1>16. page'.handled = page.handled BY <1>6, <1>9, <1>11 DEF Same
<1>. QED BY <1>1, <1>2, <1>12, <1>13, <1>14, <1>15, <1>16, PageSide

\* When a session begins, the page is done with the one before.
LEMMA GoNear ==
  ASSUME OInv, calm, CInv, NEW annotated \in BOOLEAN, Go(annotated)
  PROVE  OneInv'
<1> DEFINE s == begun + 1
           q == [page EXCEPT !.current = s, !.state = "GENERATING", !.arrived = FALSE, !.file = FALSE,
                             !.pending = None, !.awaiting = None, !.observer = s]
           p == Save(q)
           g == Post(page, "generate", s)
<1>1. /\ begun \in Nat /\ begun < MaxSessions /\ begun' = s /\ s \in Sessions
      /\ page.state = "CONFIGURING"
  BY OverlayAssumption DEF OInv, Ids, Go, Sessions
<1>2. UNCHANGED <<server, source, dom, frames, decided, unsent, givenUp>> BY DEF Go, helperVars, stream
<1>3. /\ posts = {} /\ frames = <<>> /\ page.reads = {} /\ page.captures = {}
      /\ Wrappers(source) \cup Wrappers(dom) \subseteq page.handled
  BY DEF Go, Quiet
<1>4. page' = [p EXCEPT !.gate = s] /\ posts' = {g} BY <1>3 DEF Go
<1>5. s \notin Begun /\ s # None /\ Begun \subseteq Sessions BY <1>1, BegunAre DEF Begun, None, OInv
<1>6. /\ page \in Pages(Begun) /\ server \in Servers(Begun) /\ source \in Trees(Begun)
      /\ dom \in Trees(Begun) /\ decided \subseteq Begun /\ unsent \subseteq Begun
      /\ givenUp \subseteq Begun
  BY DEF OInv, Good, Helper, History
<1>7. server[s] = "none" /\ source[s] = "none" /\ dom[s] = "none"
  BY <1>1, <1>5, <1>6 DEF Servers, Trees
<1>8. g.id = s /\ g.type = "generate" /\ g.at = "out" /\ ~g.deaf BY PostSays
<1>9. p = Save(q) OBVIOUS
<1>10. /\ q.current = s /\ q.state = "GENERATING" /\ ~q.arrived /\ q.pending = None
       /\ q.observer = s /\ q.reads = {} /\ q.captures = {} /\ q.handled = page.handled
       /\ q.saved = page.saved
  BY <1>3, <1>6 DEF Pages
<1> DEFINE M == Begun \cup {s}
<1>11. q \in Pages(M)
  <2>1. page \in Pages(M) BY <1>6, MoreBegun
  <2>2. s \in M OBVIOUS
  <2> HIDE DEF M, s
  <2>3. q = [state |-> "GENERATING", current |-> s, arrived |-> FALSE, file |-> FALSE,
             pending |-> None, awaiting |-> None, timer |-> page.timer, observer |-> s,
             scouting |-> page.scouting, reads |-> page.reads, captures |-> page.captures,
             gate |-> page.gate, saved |-> page.saved, handled |-> page.handled]
    <3> SUFFICES ASSUME NEW x, x = q
                 PROVE  x = [state |-> "GENERATING", current |-> s, arrived |-> FALSE, file |-> FALSE,
                             pending |-> None, awaiting |-> None, timer |-> page.timer, observer |-> s,
                             scouting |-> page.scouting, reads |-> page.reads,
                             captures |-> page.captures, gate |-> page.gate, saved |-> page.saved,
                             handled |-> page.handled]
      OBVIOUS
    <3>. QED BY <2>1 DEF Pages
  <2> HIDE DEF q
  <2>. QED BY <2>1, <2>2, <2>3 DEF Pages, States
<1> HIDE DEF s, q, p, g, M
<1>12. /\ p.state = q.state /\ p.current = q.current /\ p.arrived = q.arrived
       /\ p.pending = q.pending /\ p.observer = q.observer /\ p.reads = q.reads
       /\ p.captures = q.captures /\ Same(q, p)
       /\ q.current # None =>
            p.saved.id = q.current /\ p.saved.state = q.state /\ p.saved.arrived = q.arrived
  BY <1>9, <1>11, SaveFields
<1>13. p \in Pages(M)
  <2> DEFINE e == [id |-> q.current, state |-> q.state, arrived |-> q.arrived, file |-> q.file]
  <2>1. p = [q EXCEPT !.saved = e] BY <1>5, <1>9, <1>10 DEF Save
  <2>2. e \in Storage(M) BY <1>11 DEF Storage, Pages
  <2> HIDE DEF e
  <2>. QED BY <1>11, <2>1, <2>2 DEF Pages
<1>14. /\ page'.current = s /\ page'.state = "GENERATING" /\ ~page'.arrived /\ page'.pending = None
       /\ page'.observer = s /\ page'.reads = {} /\ page'.captures = {}
       /\ page'.handled = page.handled /\ page'.gate = s
       /\ page'.saved.id = s /\ page'.saved.state = "GENERATING" /\ ~page'.saved.arrived
  <2>1. /\ page'.current = p.current /\ page'.state = p.state /\ page'.arrived = p.arrived
        /\ page'.pending = p.pending /\ page'.observer = p.observer /\ page'.reads = p.reads
        /\ page'.captures = p.captures /\ page'.handled = p.handled /\ page'.gate = s
        /\ page'.saved = p.saved
    BY <1>4, <1>13 DEF Pages
  <2>. QED BY <1>5, <1>10, <1>12, <2>1 DEF Same
<1>15. s \notin page'.handled BY <1>5, <1>6, <1>14 DEF Pages
<1>16. Near(page, begun, Seen)'
  <2>1. Near(page', s, Seen') BY <1>14 DEF Near
  <2>. QED BY <1>1, <2>1
<1>17. PostsNear'
  <2>1. begun' \notin unsent' /\ page'.gate = begun' /\ server'[begun'] = "none"
    BY <1>1, <1>2, <1>5, <1>6, <1>7, <1>14
  <2>2. PICK x \in posts' : x = g BY <1>4
  <2>3. posts' = {x} /\ x.id = begun' /\ x.type = "generate" /\ x.at = "out" /\ ~x.deaf
    BY <1>1, <1>4, <1>8, <2>2
  <2>4. Creates(x)' BY <2>1, <2>3 DEF Creates
  <2>5. \A o \in posts' : o = x BY <2>3
  <2>. QED BY <2>1, <2>3, <2>4, <2>5 DEF PostsNear
<1>18. HelperNear' BY <1>1, <1>2, <1>5, <1>6, <1>7 DEF HelperNear, Acted
<1>19. FramesNear' BY <1>2, <1>3 DEF FramesNear
<1>20. EarlierLeft'
  <2>1. Earlier' = Begun BY <1>1 DEF Earlier, Begun, s
  <2>2. ASSUME NEW x \in Begun PROVE Left(x)'
    <3>1. begun # None /\ x \in Sessions BY <1>1, <1>5 DEF Begun, None
    <3>2. OneInv BY <3>1 DEF CInv
    <3>3. source[x] # "none" \/ dom[x] # "none" => x \in page.handled
      BY <1>3, <3>1 DEF Wrappers
    <3>4. server[x] \notin {"open", "done"} /\ (x \in decided \cup unsent \cup givenUp \/ server[x] = "failed")
      <4>1. CASE x # begun BY <3>2, <4>1 DEF OneInv, EarlierLeft, Earlier, Left
      <4>2. CASE x = begun
        <5>1. ~Wanted BY <1>1, <3>2 DEF OneInv, WantedIsHeld, Holds, Kept
        <5>2. server[begun] \notin {"open", "done"}
          <6>1. server[begun] \in {"open", "done"} => source[begun] # "none"
            BY <3>2, <5>1 DEF OneInv, HelperNear, Wanted
          <6>. QED BY <3>2, <3>3, <4>2, <6>1 DEF OneInv, HandledIsDead, Dead
        <5>. QED BY <4>2, <5>1, <5>2 DEF Wanted
      <4>. QED BY <4>1, <4>2
    <3>. QED BY <1>2, <1>14, <3>3, <3>4 DEF Left
  <2>. QED BY <2>1, <2>2 DEF EarlierLeft
<1>21. HandledIsDead' BY <1>1, <1>15 DEF HandledIsDead
<1>22. WantedIsHeld'
  <2>1. Holds(page', s) BY <1>14, <1>15 DEF Holds, Stored, Kept
  <2>. QED BY <1>1, <2>1 DEF WantedIsHeld
<1>. QED BY <1>16, <1>17, <1>18, <1>19, <1>20, <1>21, <1>22 DEF OneInv
----------------------------------------------------------------------------
LEMMA StutterNear == ASSUME OneInv, UNCHANGED vars PROVE OneInv'
<1>1. UNCHANGED <<page, posts, begun, decided, unsent, givenUp, server, source, dom, frames>>
  BY DEF vars, helperVars, stream, history
<1>2. Seen' = Seen /\ Near(page, begun, Seen)' /\ WantedIsHeld' /\ HandledIsDead'
  BY <1>1 DEF OneInv, Seen, WantedIsHeld, HandledIsDead, Wanted, Dead
<1>3. PostsNear' BY <1>1, PostsStayNear DEF OneInv
<1>4. HelperNear' BY <1>1, <1>2 DEF OneInv, HelperNear
<1>5. FramesNear' BY <1>1, <1>2 DEF OneInv, FramesNear
<1>6. EarlierLeft' BY <1>1 DEF OneInv, EarlierLeft, Earlier, Begun, Left
<1>. QED BY <1>2, <1>3, <1>4, <1>5, <1>6 DEF OneInv

LEMMA OneKeeps ==
  ASSUME OInv, OneInv, begun # None, calm, [Next]_vars,
         \A annotated \in BOOLEAN : ~Go(annotated)
  PROVE  OneInv'
<1>1. CASE Progress
  <2>1. ASSUME NEW q \in posts, Arrive(q) \/ Reply(q) PROVE OneInv'
    BY <2>1, ArriveNear, ReplyNear
  <2>2. ASSUME NEW s \in page.captures, Captured(s) PROVE FALSE BY DEF OneInv, Near
  <2>3. ASSUME NEW r \in page.reads,
               \/ Delayed(r) \/ Retry(r) \/ Fetched(r) \/ Missing(r)
               \/ Mounted(r) \/ GiveUp(r) \/ NotMounted(r)
        PROVE  OneInv'
    BY <2>3, DelayedNear, FetchedNear, MissingNear, MountedNear, GiveUpNear
  <2>4. CASE FireCheckpoint \/ Connect \/ Receive
    BY <2>4, FireCheckpointNear, ConnectNear, ReceiveNear
  <2>. QED BY <1>1, <2>1, <2>2, <2>3, <2>4 DEF Progress
<1>2. CASE Pick \/ Leave \/ Accept \/ Discard BY <1>2, PickNear, AcceptNear, DiscardNear
<1>3. ASSUME NEW q \in posts, Lose(q) PROVE OneInv' BY <1>3, LoseNear
<1>4. ASSUME NEW s \in Sessions,
             Scaffold(s) \/ Generate(s) \/ Finish(s) \/ Fail(s) \/ CarryOut(s) \/ Hmr(s)
      PROVE  OneInv'
  BY <1>4, SourceNear, FinishNear, CarryOutNear, HmrNear
<1>5. CASE Drop \/ Reload BY <1>5, DropNear, ReloadNear
<1>6. ASSUME NEW r \in page.reads, AnchorMissing(r) \/ Retry(r) PROVE OneInv'
  BY <1>6, AnchorMissingNear, DelayedNear
<1>7. CASE UNCHANGED vars BY <1>7, StutterNear
<1>. QED BY <1>1, <1>2, <1>3, <1>4, <1>5, <1>6, <1>7 DEF Next

\* Whether one thing happens at a time is settled from the start, and only Go
\* begins a session.
LEMMA CalmStays ==
  ASSUME [Next]_vars
  PROVE  calm' = calm /\ ((\A annotated \in BOOLEAN : ~Go(annotated)) => begun' = begun)
<1>1. CASE Progress
  <2>1. ASSUME NEW q \in posts, Arrive(q) \/ Reply(q) PROVE UNCHANGED <<begun, calm>>
    BY <2>1 DEF Arrive, Reply, history
  <2>2. ASSUME NEW s \in page.captures, Captured(s) PROVE UNCHANGED <<begun, calm>>
    BY <2>2 DEF Captured, history
  <2>3. ASSUME NEW r \in page.reads,
               \/ Delayed(r) \/ Retry(r) \/ Fetched(r) \/ Missing(r)
               \/ Mounted(r) \/ GiveUp(r) \/ NotMounted(r)
        PROVE  UNCHANGED <<begun, calm>>
    BY <2>3 DEF Delayed, Retry, Fetched, Missing, Mounted, GiveUp, NotMounted, history
  <2>4. CASE FireCheckpoint \/ Connect \/ Receive
    BY <2>4 DEF FireCheckpoint, Connect, Receive, history
  <2>. QED BY <1>1, <2>1, <2>2, <2>3, <2>4 DEF Progress
<1>2. CASE Pick \/ Leave \/ Accept \/ Discard
  BY <1>2 DEF Pick, Leave, Accept, Discard, history
<1>3. ASSUME NEW annotated \in BOOLEAN, Go(annotated) PROVE UNCHANGED calm BY <1>3 DEF Go
<1>4. ASSUME NEW q \in posts, Lose(q) PROVE UNCHANGED <<begun, calm>> BY <1>4 DEF Lose, history
<1>5. ASSUME NEW s \in Sessions,
             Scaffold(s) \/ Generate(s) \/ Finish(s) \/ Fail(s) \/ CarryOut(s) \/ Hmr(s)
      PROVE  UNCHANGED <<begun, calm>>
  BY <1>5 DEF Scaffold, Generate, Finish, Fail, CarryOut, Hmr, history
<1>6. CASE Drop \/ Reload BY <1>6 DEF Drop, Reload, history
<1>7. ASSUME NEW r \in page.reads, AnchorMissing(r) \/ Retry(r) PROVE UNCHANGED <<begun, calm>>
  BY <1>7 DEF AnchorMissing, Retry, history
<1>8. CASE UNCHANGED vars BY <1>8 DEF vars, history
<1>. QED BY <1>1, <1>2, <1>3, <1>4, <1>5, <1>6, <1>7, <1>8 DEF Next

LEMMA CalmKeeps == ASSUME OInv, CInv, [Next]_vars PROVE CInv'
<1> SUFFICES ASSUME calm', begun' # None' PROVE OneInv' BY DEF CInv
<1>1. calm BY CalmStays
<1>2. ASSUME NEW annotated \in BOOLEAN, Go(annotated) PROVE OneInv' BY <1>1, <1>2, GoNear
<1>3. CASE \A annotated \in BOOLEAN : ~Go(annotated)
  <2>1. begun # None BY <1>3, CalmStays DEF None
  <2>. QED BY <1>1, <1>3, <2>1, OneKeeps DEF CInv
<1>. QED BY <1>2, <1>3

\* As long as one thing happens at a time, the page keeps the session that the
\* user has begun and not decided on, unless the framework does not show what the
\* source of a compiled template has: through reloads, dropped streams, HMR
\* updates, lost posts, late frames and elements that are gone, resumeSession and
\* restoreFromActiveSessions find it again, whichever wrappers of earlier sessions
\* are still in the source.
THEOREM OverlayKeepsWhenCalm == Spec => []KeptWhenCalm
<1>1. ASSUME Init PROVE CInv BY <1>1 DEF Init, CInv, None
<1>2. ASSUME OInv, CInv PROVE KeptWhenCalm
  <2> SUFFICES ASSUME calm, NEW s \in Sessions, Undecided(s)
               PROVE  page.current = s /\ page.state \in {"GENERATING", "CYCLING"}
    BY DEF KeptWhenCalm
  <2>1. s \in Begun /\ begun # None
    BY <1>2, OverlayAssumption DEF Undecided, Sessions, Begun, None, OInv, Ids
  <2>2. OneInv BY <1>2, <2>1 DEF CInv
  <2>3. s = begun BY <2>1, <2>2 DEF OneInv, EarlierLeft, Earlier, Left, Undecided
  <2>4. Wanted BY <2>3 DEF Undecided, Wanted
  <2>. QED BY <2>2, <2>3, <2>4 DEF OneInv, WantedIsHeld, Holds, Kept
<1>. QED BY <1>1, <1>2, InitHolds, NextKeeps, CalmKeeps, PTL DEF Spec
=============================================================================
