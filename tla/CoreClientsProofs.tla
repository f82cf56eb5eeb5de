------------------------- MODULE CoreClientsProofs -------------------------
(***************************************************************************)
(* Proofs about the rule core, for any sessions, tabs and requests, and    *)
(* whatever its clients send; then about CoreClients, for any number of    *)
(* tabs, runs and generations.  What holds of the core alone carries over: *)
(* the clients send what the core expects.                                 *)
(***************************************************************************)
EXTENDS CoreClients, TLAPS, WellFoundedInduction, SequenceTheorems

(***************************************************************************)
(* The rule core.                                                          *)
(***************************************************************************)
\* The Map and the session objects agree on who is in it.
Mapped(r) == sessions[obj[r].id] = r
MapIsTrue ==
  /\ \A r \in Runs : obj[r] # NULL /\ (obj[r].respond # NULL \/ at[r] = "parked") => Mapped(r)
  /\ \A r \in Runs : obj[r] # NULL /\ obj[r].superseded => ~Mapped(r)

\* No two sessions hold the same request.
OwnRequest ==
  \A r1, r2 \in Runs :
    obj[r1] # NULL /\ obj[r2] # NULL /\ obj[r1].respond # NULL /\ obj[r1].respond = obj[r2].respond
      => r1 = r2

\* Who is parked has the turn and the core, and has answered its request.
ParkedHasTurn ==
  \A r \in Runs : at[r] = "parked" => HasTurn(r) /\ loaded = r /\ obj[r].respond = NULL

Inv == TypeOK /\ MapIsTrue /\ OwnRequest /\ ParkedHasTurn /\ AnsweredOnce

-----------------------------------------------------------------------------
\* One run parks at most.
LEMMA OneParked ==
  ASSUME Inv, NEW r1 \in Runs, NEW r2 \in Runs, at[r1] = "parked", HasTurn(r2)
  PROVE  r1 = r2
BY DEF Inv, ParkedHasTurn, HasTurn

\* What a session object is, if there is one.
LEMMA SessionType ==
  ASSUME TypeOK, NEW r \in Runs, obj[r] # NULL
  PROVE  /\ obj[r] \in Session
         /\ at[r] \in {"queued", "parked"}
         /\ obj[r].id \in Ids /\ obj[r].respond \in Requests \cup {NULL}
BY DEF TypeOK, Session, Places

\* A chain that is left is a chain.
LEMMA LeaveType ==
  ASSUME chain \in Seq(Runs), NEW S
  PROVE  Leave(S) \in Seq(Runs)
BY DEF Leave

\* A run whose pending request is answered is owed nothing, nor is anybody
\* else owed less.
Paid(r) == owed' = [q \in Requests |-> IF q \in Pending(r) THEN 0 ELSE owed[q]]

LEMMA RespondPays ==
  ASSUME Inv, NEW r \in Runs, obj[r] # NULL, NEW reply \in Answers,
         NEW Q \in SUBSET Requests, NEW New \in SUBSET Requests,
         \/ Q = Pending(r) /\ New = {}
         \/ Q = New /\ Pending(r) = {},
         Respond(Q, New, reply)
  PROVE  Paid(r) /\ answer' \in [Requests -> Answers \cup {NULL}]
<1>1. \A q \in Requests : owed[q] \in {0, 1} /\ (q \in Pending(r) => owed[q] = 1)
  BY DEF Inv, AnsweredOnce, Pending
<1>2. Paid(r)
  BY <1>1 DEF Respond, Paid
<1>3. answer' \in [Requests -> Answers \cup {NULL}]
  BY DEF Respond, Inv, TypeOK
<1> QED
  BY <1>2, <1>3

-----------------------------------------------------------------------------
(* A run that has the turn settles, or parks.                              *)

Settles(r) ==
  /\ Paid(r) /\ answer' \in [Requests -> Answers \cup {NULL}]
  /\ obj' = [obj EXCEPT ![r] = NULL]
  /\ sessions' = Forget({r})
  /\ at' = [at EXCEPT ![r] = "over"]
  /\ chain' = Leave({r})
  /\ loaded' \in Runs \cup {NULL}

LEMMA SettlesKeeps ==
  ASSUME Inv, NEW r \in Runs, obj[r] # NULL, HasTurn(r), Settles(r)
  PROVE  Inv'
<1> USE DEF Inv
<1>1. \A x \in Runs : obj'[x] = (IF x = r THEN NULL ELSE obj[x]) /\ at'[x] = (IF x = r THEN "over" ELSE at[x])
  BY DEF Settles, TypeOK
<1>2. \A i \in Ids : sessions'[i] = IF sessions[i] = r THEN NULL ELSE sessions[i]
  BY DEF Settles, Forget
<1>3. TypeOK'
  <2>1. obj' \in [Runs -> Session \cup {NULL}] /\ at' \in [Runs -> Places]
    BY DEF Settles, TypeOK, Places
  <2>2. \A x \in Runs : obj'[x] = NULL <=> at'[x] \in {"unborn", "over"}
    BY <1>1 DEF TypeOK
  <2>3. sessions' \in [Ids -> Runs \cup {NULL}]
    BY DEF Settles, Forget, TypeOK
  <2>4. \A i \in Ids : sessions'[i] # NULL => obj'[sessions'[i]] # NULL /\ obj'[sessions'[i]].id = i
    BY <1>1, <1>2 DEF TypeOK
  <2>5. chain' \in Seq(Runs) /\ loaded' \in Runs \cup {NULL}
    BY LeaveType DEF Settles, TypeOK
  <2>6. owed' \in [Requests -> Int] /\ answer' \in [Requests -> Answers \cup {NULL}]
    BY DEF Settles, Paid, TypeOK
  <2> QED
    BY <2>1, <2>2, <2>3, <2>4, <2>5, <2>6 DEF TypeOK
<1>4. \A x \in Runs : at'[x] # "parked"
  BY <1>1, OneParked
<1>5. \A x \in Runs : obj'[x] # NULL => x # r /\ obj'[x] = obj[x] /\ obj[x].id \in Ids
  BY <1>1, SessionType
<1>6. MapIsTrue'
  BY <1>2, <1>4, <1>5, RuleCoreAssumption DEF MapIsTrue, Mapped
<1>7. OwnRequest'
  BY <1>5 DEF OwnRequest
<1>8. AnsweredOnce'
  <2> SUFFICES ASSUME NEW q \in Requests
               PROVE  owed'[q] \in {0, 1} /\ (owed'[q] = 1 <=> \E x \in Runs : obj'[x] # NULL /\ obj'[x].respond = q)
    BY DEF AnsweredOnce
  <2>1. owed'[q] = IF q \in Pending(r) THEN 0 ELSE owed[q]
    BY DEF Settles, Paid
  <2>2. q # NULL
    BY RuleCoreAssumption
  <2>3. CASE obj[r].respond = q
    BY <2>1, <2>2, <2>3, <1>5 DEF OwnRequest, Pending
  <2>4. CASE obj[r].respond # q
    <3>1. owed'[q] = owed[q]
      BY <2>1, <2>4 DEF Pending
    <3>2. (\E x \in Runs : obj'[x] # NULL /\ obj'[x].respond = q) <=> (\E x \in Runs : obj[x] # NULL /\ obj[x].respond = q)
      BY <1>1, <2>4
    <3> QED
      BY <3>1, <3>2 DEF AnsweredOnce
  <2> QED
    BY <2>3, <2>4
<1> QED
  BY <1>3, <1>4, <1>6, <1>7, <1>8 DEF ParkedHasTurn

\* The run asks: its session keeps its place in the Map and the turn.
Parks(r, session) ==
  /\ Paid(r) /\ answer' \in [Requests -> Answers \cup {NULL}]
  /\ obj' = [obj EXCEPT ![r] = session]
  /\ at' = [at EXCEPT ![r] = "parked"]
  /\ UNCHANGED <<sessions, chain>>
  /\ loaded' = r

LEMMA ParksKeeps ==
  ASSUME Inv, NEW r \in Runs, obj[r] # NULL, HasTurn(r), Mapped(r),
         NEW session \in Session, session.id = obj[r].id, session.respond = NULL,
         session.superseded = obj[r].superseded, Parks(r, session)
  PROVE  Inv'
<1> USE DEF Inv
<1>1. \A x \in Runs : /\ obj'[x] = (IF x = r THEN session ELSE obj[x])
                      /\ at'[x] = (IF x = r THEN "parked" ELSE at[x])
  BY DEF Parks, TypeOK
<1>2. session # NULL
  BY RuleCoreAssumption
<1>3. TypeOK'
  <2>1. obj' \in [Runs -> Session \cup {NULL}] /\ at' \in [Runs -> Places]
    BY DEF Parks, TypeOK, Places
  <2>2. \A x \in Runs : obj'[x] = NULL <=> at'[x] \in {"unborn", "over"}
    BY <1>1, <1>2 DEF TypeOK
  <2>3. \A i \in Ids : sessions'[i] # NULL => obj'[sessions'[i]] # NULL /\ obj'[sessions'[i]].id = i
    BY <1>1, <1>2 DEF TypeOK, Parks
  <2>4. owed' \in [Requests -> Int] /\ answer' \in [Requests -> Answers \cup {NULL}]
    BY DEF Parks, Paid, TypeOK
  <2> QED
    BY <2>1, <2>2, <2>3, <2>4 DEF TypeOK, Parks
<1>4. \A x \in Runs : at'[x] = "parked" => x = r
  BY <1>1, OneParked
<1>5. ParkedHasTurn'
  BY <1>1, <1>4 DEF ParkedHasTurn, Parks, HasTurn
<1>6. MapIsTrue'
  BY <1>1, <1>4 DEF MapIsTrue, Mapped, Parks
<1>7. OwnRequest'
  BY <1>1 DEF OwnRequest
<1>8. AnsweredOnce'
  <2> SUFFICES ASSUME NEW q \in Requests
               PROVE  owed'[q] \in {0, 1} /\ (owed'[q] = 1 <=> \E x \in Runs : obj'[x] # NULL /\ obj'[x].respond = q)
    BY DEF AnsweredOnce
  <2>1. owed'[q] = IF q \in Pending(r) THEN 0 ELSE owed[q]
    BY DEF Parks, Paid
  <2>2. q # NULL
    BY RuleCoreAssumption
  <2>3. CASE obj[r].respond = q
    BY <2>1, <2>2, <2>3, <1>1 DEF OwnRequest, Pending
  <2>4. CASE obj[r].respond # q
    <3>1. owed'[q] = owed[q]
      BY <2>1, <2>4 DEF Pending
    <3>2. (\E x \in Runs : obj'[x] # NULL /\ obj'[x].respond = q) <=> (\E x \in Runs : obj[x] # NULL /\ obj[x].respond = q)
      BY <1>1, <2>2, <2>4
    <3> QED
      BY <3>1, <3>2 DEF AnsweredOnce
  <2> QED
    BY <2>3, <2>4
<1> QED
  BY <1>3, <1>5, <1>6, <1>7, <1>8

\* Whatever the coroutine does next, it parks or settles.
LEMMA FinishSettles ==
  ASSUME Inv, NEW r \in Runs, obj[r] # NULL, NEW reply \in Answers,
         NEW Q \in SUBSET Requests, NEW New \in SUBSET Requests,
         \/ Q = Pending(r) /\ New = {}
         \/ Q = New /\ Pending(r) = {},
         Finish(r, Q, New, reply), loaded' \in Runs \cup {NULL}
  PROVE  Settles(r)
BY RespondPays DEF Finish, Settles

LEMMA AskKeeps ==
  ASSUME Inv, NEW r \in Runs, obj[r] # NULL, HasTurn(r), NEW reply \in Answers,
         NEW Q \in SUBSET Requests, NEW New \in SUBSET Requests,
         \/ Q = Pending(r) /\ New = {}
         \/ Q = New /\ Pending(r) = {},
         Q # {} => Mapped(r),
         NEW session \in Session, session.id = obj[r].id, session.superseded = obj[r].superseded,
         Ask(r, Q, New, reply, session), loaded' = r
  PROVE  Inv'
<1>1. CASE Q = {}
  <2>1. Finish(r, Q, New, "error")
    BY <1>1 DEF Ask
  <2>2. "error" \in Answers
    BY DEF Answers
  <2>3. Settles(r)
    BY <2>1, <2>2, FinishSettles
  <2> QED
    BY <2>3, SettlesKeeps
<1>2. CASE Q # {}
  <2>1. Paid(r) /\ answer' \in [Requests -> Answers \cup {NULL}]
    BY <1>2, RespondPays DEF Ask
  <2>2. [session EXCEPT !.respond = NULL] \in Session
    BY DEF Session
  <2>3. /\ [session EXCEPT !.respond = NULL].id = session.id
        /\ [session EXCEPT !.respond = NULL].respond = NULL
        /\ [session EXCEPT !.respond = NULL].superseded = session.superseded
    BY DEF Session
  <2>4. Parks(r, [session EXCEPT !.respond = NULL])
    BY <1>2, <2>1 DEF Ask, Parks
  <2> QED
    BY <2>2, <2>3, <2>4, ParksKeeps, <1>2
<1> QED
  BY <1>1, <1>2

LEMMA NextStopKeeps ==
  ASSUME Inv, NEW r \in Runs, obj[r] # NULL, HasTurn(r),
         NEW Q \in SUBSET Requests, NEW New \in SUBSET Requests,
         \/ Q = Pending(r) /\ New = {}
         \/ Q = New /\ Pending(r) = {},
         Q # {} => Mapped(r), NextStop(r, Q, New), loaded' = r
  PROVE  Inv'
<1>1. obj[r] \in Session /\ obj[r].asks \in 0..MaxAsks
  BY SessionType DEF Inv, Session
<1>2. CASE AskPage(r, Q, New)
  <2>1. [obj[r] EXCEPT !.asks = @ + 1] \in Session
    BY <1>1, <1>2, RuleCoreAssumption DEF AskPage, Session
  <2>2. /\ [obj[r] EXCEPT !.asks = @ + 1].id = obj[r].id
        /\ [obj[r] EXCEPT !.asks = @ + 1].superseded = obj[r].superseded
    BY <1>1 DEF Session
  <2> QED
    BY <1>2, <2>1, <2>2, AskKeeps DEF AskPage, Answers
<1>3. ASSUME NEW stage \in Stages, NEW reply \in Answers,
             Ask(r, Q, New, reply, [obj[r] EXCEPT !.stage = stage])
      PROVE  Inv'
  <2>1. [obj[r] EXCEPT !.stage = stage] \in Session
    BY <1>1 DEF Session
  <2>2. /\ [obj[r] EXCEPT !.stage = stage].id = obj[r].id
        /\ [obj[r] EXCEPT !.stage = stage].superseded = obj[r].superseded
    BY <1>1 DEF Session
  <2> QED
    BY <1>3, <2>1, <2>2, AskKeeps
<1>4. CASE ShowFindings(r, Q, New)
  BY <1>3, <1>4 DEF ShowFindings, Stages, Answers
<1>5. CASE ShowVisual(r, Q, New)
  BY <1>3, <1>5 DEF ShowVisual, Stages, Answers
<1>6. CASE Throw(r, Q, New)
  BY <1>6, FinishSettles, SettlesKeeps DEF Throw, Answers
<1> QED
  BY <1>2, <1>4, <1>5, <1>6 DEF NextStop

LEMMA CompleteKeeps ==
  ASSUME Inv, NEW r \in Runs, obj[r] # NULL, HasTurn(r),
         NEW Q \in SUBSET Requests, NEW New \in SUBSET Requests,
         \/ Q = Pending(r) /\ New = {}
         \/ Q = New /\ Pending(r) = {},
         Complete(r, Q, New)
  PROVE  Inv'
BY FinishSettles, SettlesKeeps DEF Complete, Answers

-----------------------------------------------------------------------------
(* Cancelling sessions that are in the Map.                                *)

InMap(S) == S \in SUBSET Runs /\ \A x \in S : obj[x] # NULL /\ Mapped(x)

LEMMA SupersededType ==
  ASSUME Inv, NEW S, InMap(S)
  PROVE  /\ Superseded(S) \in [Runs -> Session \cup {NULL}]
         /\ \A x \in Runs : Superseded(S)[x] = NULL <=> obj[x] = NULL \/ x \in Parked(S)
         /\ \A x \in Runs : Superseded(S)[x] # NULL =>
              /\ Superseded(S)[x].id = obj[x].id
              /\ Superseded(S)[x].respond = IF x \in S THEN NULL ELSE obj[x].respond
              /\ Superseded(S)[x].superseded <=> x \in S \/ obj[x].superseded
              /\ x \notin S => Superseded(S)[x] = obj[x]
<1> DEFINE after(x) == [obj[x] EXCEPT !.superseded = TRUE, !.respond = NULL]
<1>1. \A x \in Runs : obj[x] # NULL =>
        /\ after(x) \in Session /\ after(x) # NULL
        /\ after(x).id = obj[x].id /\ after(x).respond = NULL /\ after(x).superseded = TRUE
  BY SessionType, RuleCoreAssumption DEF Inv, Session
<1> HIDE DEF after
<1>2. \A x \in Runs : Superseded(S)[x] =
        IF x \in Parked(S) THEN NULL ELSE IF x \in S THEN after(x) ELSE obj[x]
  BY DEF Superseded, after
<1>3. \A x \in S : x \in Runs /\ obj[x] # NULL
  BY DEF InMap
<1>4. \A x \in Runs : obj[x] \in Session \cup {NULL}
  BY DEF Inv, TypeOK
<1>5. \A x \in Runs : Superseded(S)[x] \in Session \cup {NULL}
  BY <1>1, <1>2, <1>3, <1>4
<1>6. Superseded(S) \in [Runs -> Session \cup {NULL}]
  <2>1. Superseded(S) = [x \in Runs |-> Superseded(S)[x]]
    BY DEF Superseded
  <2> QED
    BY <1>5, <2>1
<1>7. Parked(S) \subseteq S
  BY DEF Parked
<1> QED
  BY <1>1, <1>2, <1>3, <1>6, <1>7

\* What is left of a session that is not gone.
LEMMA SupersededSession ==
  ASSUME Inv, NEW S, InMap(S), NEW x \in Runs, Superseded(S)[x] # NULL
  PROVE  /\ obj[x] # NULL /\ obj[x].id \in Ids /\ Superseded(S)[x].id = obj[x].id
         /\ Superseded(S)[x].respond = IF x \in S THEN NULL ELSE obj[x].respond
         /\ Superseded(S)[x].superseded <=> x \in S \/ obj[x].superseded
<1>1. obj[x] # NULL
  BY SupersededType
<1>2. obj[x].id \in Ids
  BY <1>1, SessionType DEF Inv
<1> QED
  BY <1>1, <1>2, SupersededType

LEMMA RejectedType ==
  ASSUME Inv, NEW S, InMap(S)
  PROVE  /\ Rejected(S) \in [Runs -> Places]
         /\ \A x \in Runs : Rejected(S)[x] = IF x \in Parked(S) THEN "over" ELSE at[x]
         /\ \A x \in Runs : Superseded(S)[x] = NULL <=> Rejected(S)[x] \in {"unborn", "over"}
         /\ \A x \in Runs : Rejected(S)[x] = "parked" <=> at[x] = "parked" /\ x \notin S
<1>1. \A x \in Runs : Rejected(S)[x] = IF x \in Parked(S) THEN "over" ELSE at[x]
  BY DEF Rejected
<1>2. Rejected(S) \in [Runs -> Places]
  BY DEF Rejected, Inv, TypeOK, Places
<1>3. \A x \in Runs : Superseded(S)[x] = NULL <=> Rejected(S)[x] \in {"unborn", "over"}
  <2>1. \A x \in Runs : Superseded(S)[x] = NULL <=> obj[x] = NULL \/ x \in Parked(S)
    BY SupersededType
  <2>2. \A x \in Runs : obj[x] = NULL <=> at[x] \in {"unborn", "over"}
    BY DEF Inv, TypeOK
  <2> QED
    BY <1>1, <2>1, <2>2
<1>4. \A x \in Runs : Rejected(S)[x] = "parked" <=> at[x] = "parked" /\ x \notin S
  BY <1>1 DEF Parked
<1> QED
  BY <1>1, <1>2, <1>3, <1>4

\* Who waits for an answer is owed one, and only those who hold a request wait.
LEMMA WaitingIsOwed ==
  ASSUME Inv, NEW S, InMap(S)
  PROVE  \A q \in Requests : /\ q \in Waiting(S) <=> \E x \in S : obj[x].respond = q
                             /\ q \in Waiting(S) => owed[q] = 1
<1>1. \A q \in Requests : q # NULL
  BY RuleCoreAssumption
<1>2. \A q \in Requests : q \in Waiting(S) <=> \E x \in S : obj[x].respond = q
  <2>1. \A x \in S : Pending(x) = {obj[x].respond} \ {NULL}
    BY DEF Pending
  <2>2. \A q \in Requests : q \in Waiting(S) <=> \E x \in S : q \in Pending(x)
    BY DEF Waiting
  <2> QED
    BY <1>1, <2>1, <2>2
<1>3. \A q \in Requests : q \in Waiting(S) => owed[q] = 1
  BY <1>2 DEF Inv, AnsweredOnce, InMap
<1> QED
  BY <1>2, <1>3

\* Who stays parked keeps the turn.
LEMMA StaysParked ==
  ASSUME Inv, NEW S, InMap(S), NEW x \in Runs, Rejected(S)[x] = "parked"
  PROVE  /\ at[x] = "parked" /\ x \notin S /\ HasTurn(x) /\ loaded = x
         /\ Leave(Parked(S)) = chain
         /\ Superseded(S)[x] = obj[x] /\ obj[x] # NULL /\ obj[x].respond = NULL
<1>1. at[x] = "parked" /\ x \notin S
  BY RejectedType
<1>2. HasTurn(x) /\ loaded = x /\ obj[x].respond = NULL
  BY <1>1 DEF Inv, ParkedHasTurn
<1>3. Leave(Parked(S)) = chain
  BY <1>1, <1>2 DEF Leave, HasTurn, Parked
<1>4. Superseded(S)[x] = obj[x] /\ obj[x] # NULL
  BY <1>1 DEF Superseded, Parked, Inv, TypeOK
<1> QED
  BY <1>1, <1>2, <1>3, <1>4

LEMMA CancelKeeps ==
  ASSUME Inv, NEW S, InMap(S), CancelAll(S)
  PROVE  Inv'
<1> USE DEF Inv
<1>1. /\ obj' = Superseded(S) /\ at' = Rejected(S)
      /\ \A i \in Ids : sessions'[i] = IF sessions[i] \in S THEN NULL ELSE sessions[i]
      /\ sessions' \in [Ids -> Runs \cup {NULL}]
      /\ chain' = Leave(Parked(S)) /\ loaded' = loaded
  BY DEF CancelAll, Forget, TypeOK
<1>2. Respond(Waiting(S), {}, "superseded")
  BY DEF CancelAll
<1>3. \A x \in Runs : obj'[x] # NULL =>
        /\ obj[x] # NULL /\ obj[x].id \in Ids /\ obj'[x].id = obj[x].id
        /\ obj'[x].respond = IF x \in S THEN NULL ELSE obj[x].respond
        /\ obj'[x].superseded <=> x \in S \/ obj[x].superseded
  BY <1>1, SupersededSession
<1>4. \A x \in Runs : at'[x] = "parked" => at[x] = "parked" /\ x \notin S /\ obj'[x] # NULL
  BY <1>1, StaysParked
<1>5. TypeOK'
  <2>1. obj' \in [Runs -> Session \cup {NULL}] /\ at' \in [Runs -> Places]
    BY <1>1, SupersededType, RejectedType
  <2>2. \A x \in Runs : obj'[x] = NULL <=> at'[x] \in {"unborn", "over"}
    BY <1>1, RejectedType
  <2>3. \A i \in Ids : sessions'[i] # NULL => obj'[sessions'[i]] # NULL /\ obj'[sessions'[i]].id = i
    <3> SUFFICES ASSUME NEW i \in Ids, sessions'[i] # NULL
                 PROVE  obj'[sessions'[i]] # NULL /\ obj'[sessions'[i]].id = i
      OBVIOUS
    <3>1. sessions'[i] = sessions[i] /\ sessions[i] \in Runs /\ sessions[i] \notin S
      BY <1>1 DEF TypeOK
    <3>2. obj[sessions[i]] # NULL /\ obj[sessions[i]].id = i
      BY <3>1 DEF TypeOK
    <3>3. obj'[sessions[i]] # NULL
      BY <1>1, <3>1, <3>2, SupersededType DEF Parked
    <3> QED
      BY <1>3, <3>1, <3>2, <3>3
  <2>4. chain' \in Seq(Runs) /\ loaded' \in Runs \cup {NULL}
    BY <1>1, LeaveType DEF TypeOK
  <2>5. owed' \in [Requests -> Int] /\ answer' \in [Requests -> Answers \cup {NULL}]
    BY <1>2 DEF Respond, TypeOK, Answers
  <2> QED
    BY <1>1, <2>1, <2>2, <2>3, <2>4, <2>5 DEF TypeOK
<1>6. MapIsTrue'
  <2> SUFFICES ASSUME NEW x \in Runs, obj'[x] # NULL
               PROVE  /\ obj'[x].respond # NULL \/ at'[x] = "parked" => Mapped(x)'
                      /\ obj'[x].superseded => ~Mapped(x)'
    BY DEF MapIsTrue
  <2>1. Mapped(x)' <=> Mapped(x) /\ x \notin S
    <3>1. obj'[x].id = obj[x].id /\ obj[x].id \in Ids
      BY <1>3
    <3>2. x # NULL
      BY RuleCoreAssumption
    <3> QED
      BY <1>1, <3>1, <3>2 DEF Mapped
  <2> QED
    BY <1>3, <1>4, <2>1 DEF MapIsTrue
<1>7. OwnRequest'
  BY <1>3 DEF OwnRequest
<1>8. ParkedHasTurn'
  BY <1>1, StaysParked DEF ParkedHasTurn, HasTurn
<1>9. AnsweredOnce'
  <2> SUFFICES ASSUME NEW q \in Requests
               PROVE  owed'[q] \in {0, 1} /\ (owed'[q] = 1 <=> \E x \in Runs : obj'[x] # NULL /\ obj'[x].respond = q)
    BY DEF AnsweredOnce
  <2>1. owed'[q] = IF q \in Waiting(S) THEN 0 ELSE owed[q]
    BY <1>2, WaitingIsOwed DEF Respond, AnsweredOnce
  <2>2. q # NULL
    BY RuleCoreAssumption
  <2>3. (\E x \in Runs : obj'[x] # NULL /\ obj'[x].respond = q)
          <=> (\E x \in Runs : x \notin S /\ obj[x] # NULL /\ obj[x].respond = q)
    BY <1>1, <1>3, <2>2, SupersededType DEF Parked
  <2>4. CASE q \in Waiting(S)
    <3>1. PICK y \in S : obj[y].respond = q
      BY <2>4, WaitingIsOwed
    <3>2. \A x \in Runs : obj[x] # NULL /\ obj[x].respond = q => x = y
      BY <3>1, <2>2 DEF OwnRequest, InMap
    <3> QED
      BY <2>1, <2>3, <2>4, <3>1, <3>2
  <2>5. CASE q \notin Waiting(S)
    BY <2>1, <2>3, <2>5, WaitingIsOwed DEF AnsweredOnce
  <2> QED
    BY <2>4, <2>5
<1> QED
  BY <1>5, <1>6, <1>7, <1>8, <1>9

LEMMA OpenIsInMap ==
  ASSUME Inv, NEW id \in Ids
  PROVE  InMap(Open(id)) /\ \A x \in Runs : x \in Open(id) <=> sessions[id] = x
BY RuleCoreAssumption DEF Inv, TypeOK, InMap, Open, Mapped

LEMMA OfTabIsInMap ==
  ASSUME Inv, NEW t \in Tabs
  PROVE  InMap(OfTab(t))
BY DEF InMap, OfTab, Mapped

LEMMA StartKeeps ==
  ASSUME Inv, NEW r \in Runs, NEW id \in Ids, NEW t \in Tabs, NEW kind \in Kinds,
         NEW q \in Requests, ScanStart(r, id, t, kind, q)
  PROVE  Inv'
<1> DEFINE S == Open(id)
           session == [id |-> id, tab |-> t, kind |-> kind, respond |-> q,
                       superseded |-> FALSE, stage |-> "none", asks |-> 0]
<1>1. InMap(S) /\ \A x \in Runs : x \in S <=> sessions[id] = x
  BY OpenIsInMap
<1>2. session \in Session /\ session # NULL
  <2>1. session \in Session
    BY RuleCoreAssumption DEF Session, Stages
  <2> QED
    BY <2>1, RuleCoreAssumption
<1>3. obj[r] = NULL /\ r \notin S /\ owed[q] = 0 /\ q # NULL /\ r # NULL
  BY <1>1, RuleCoreAssumption DEF ScanStart, Fresh, Inv, TypeOK, InMap
<1>4. /\ obj' = [Superseded(S) EXCEPT ![r] = session]
      /\ at' = [Rejected(S) EXCEPT ![r] = "queued"]
      /\ chain' = Append(Leave(Parked(S)), r)
      /\ sessions' = [sessions EXCEPT ![id] = r]
      /\ loaded' = loaded
      /\ Respond(Waiting(S), {q}, "superseded")
  BY DEF ScanStart
<1>5. /\ session.id = id /\ session.respond = q /\ session.superseded = FALSE
  OBVIOUS
<1> HIDE DEF S, session
<1>0. \A x \in S : x \in Runs /\ sessions[id] = x /\ obj[x].id = id
  <2>1. \A x \in Runs : x # NULL
    BY RuleCoreAssumption
  <2> QED
    BY <1>1, <2>1 DEF InMap, Inv, TypeOK
<1>6. \A x \in Runs : /\ obj'[x] = (IF x = r THEN session ELSE Superseded(S)[x])
                      /\ at'[x] = (IF x = r THEN "queued" ELSE Rejected(S)[x])
  BY <1>1, <1>4, SupersededType, RejectedType
<1>7. \A x \in Runs : x # r /\ obj'[x] # NULL =>
        /\ obj[x] # NULL /\ obj[x].id \in Ids /\ obj'[x].id = obj[x].id
        /\ obj'[x].respond = IF x \in S THEN NULL ELSE obj[x].respond
        /\ obj'[x].superseded <=> x \in S \/ obj[x].superseded
  BY <1>1, <1>6, SupersededSession
<1>8. \A x \in Runs : at'[x] = "parked" => x # r /\ Rejected(S)[x] = "parked"
  BY <1>6
<1>9. \A i \in Ids : sessions'[i] = IF i = id THEN r ELSE sessions[i]
  BY <1>4 DEF Inv, TypeOK
<1>10. TypeOK'
  <2>1. obj' \in [Runs -> Session \cup {NULL}] /\ at' \in [Runs -> Places]
    BY <1>1, <1>2, <1>4, SupersededType, RejectedType DEF Places
  <2>2. \A x \in Runs : obj'[x] = NULL <=> at'[x] \in {"unborn", "over"}
    BY <1>1, <1>2, <1>6, RejectedType
  <2>3. \A i \in Ids : sessions'[i] # NULL => obj'[sessions'[i]] # NULL /\ obj'[sessions'[i]].id = i
    <3> SUFFICES ASSUME NEW i \in Ids, i # id, sessions[i] # NULL
                 PROVE  obj'[sessions[i]] # NULL /\ obj'[sessions[i]].id = i
      BY <1>2, <1>3, <1>5, <1>6, <1>9
    <3>1. sessions[i] \in Runs /\ obj[sessions[i]] # NULL /\ obj[sessions[i]].id = i
      BY DEF Inv, TypeOK
    <3>2. sessions[i] \notin S /\ sessions[i] # r
      BY <1>0, <1>3, <3>1
    <3>3. sessions[i] \notin Parked(S)
      BY <3>2 DEF Parked
    <3>4. Superseded(S)[sessions[i]] # NULL
      BY <1>1, <3>1, <3>3, SupersededType
    <3> QED
      BY <1>6, <1>7, <3>1, <3>2, <3>4
  <2>4. chain' \in Seq(Runs) /\ loaded' \in Runs \cup {NULL} /\ sessions' \in [Ids -> Runs \cup {NULL}]
    BY <1>4, LeaveType DEF Inv, TypeOK
  <2>5. owed' \in [Requests -> Int] /\ answer' \in [Requests -> Answers \cup {NULL}]
    BY <1>4 DEF Respond, Inv, TypeOK, Answers
  <2> QED
    BY <2>1, <2>2, <2>3, <2>4, <2>5 DEF TypeOK
<1>11. MapIsTrue'
  <2> SUFFICES ASSUME NEW x \in Runs, obj'[x] # NULL
               PROVE  /\ obj'[x].respond # NULL \/ at'[x] = "parked" => Mapped(x)'
                      /\ obj'[x].superseded => ~Mapped(x)'
    BY DEF MapIsTrue
  <2>1. CASE x = r
    BY <1>5, <1>6, <1>9, <2>1 DEF Mapped
  <2>2. CASE x # r
    <3>1. /\ obj[x] # NULL /\ obj[x].id \in Ids /\ obj'[x].id = obj[x].id
          /\ obj'[x].respond = IF x \in S THEN NULL ELSE obj[x].respond
          /\ obj'[x].superseded <=> x \in S \/ obj[x].superseded
      BY <1>7, <2>2
    <3>2. Mapped(x)' <=> Mapped(x) /\ obj[x].id # id
      BY <1>9, <2>2, <3>1 DEF Mapped
    <3>3. x \in S <=> Mapped(x) /\ obj[x].id = id
      BY <1>0, <1>1 DEF Mapped
    <3>4. at'[x] = "parked" => at[x] = "parked" /\ x \notin S
      BY <1>1, <1>8, StaysParked
    <3>5. /\ obj[x].respond # NULL \/ at[x] = "parked" => Mapped(x)
          /\ obj[x].superseded => ~Mapped(x)
      BY <3>1 DEF Inv, MapIsTrue
    <3> QED
      BY <3>1, <3>2, <3>3, <3>4, <3>5
  <2> QED
    BY <2>1, <2>2
<1>12. \A x \in Runs : x # r /\ obj'[x] # NULL => obj'[x].respond # q
  BY <1>3, <1>7 DEF Inv, AnsweredOnce
<1>13. OwnRequest'
  BY <1>5, <1>6, <1>7, <1>12 DEF OwnRequest, Inv
<1>14. ParkedHasTurn'
  <2> SUFFICES ASSUME NEW x \in Runs, at'[x] = "parked"
               PROVE  HasTurn(x)' /\ loaded' = x /\ obj'[x].respond = NULL
    BY DEF ParkedHasTurn
  <2>1. x # r /\ Rejected(S)[x] = "parked"
    BY <1>8
  <2>2. HasTurn(x) /\ loaded = x /\ Leave(Parked(S)) = chain /\ Superseded(S)[x].respond = NULL
    BY <1>1, <2>1, StaysParked
  <2>3. chain \in Seq(Runs)
    BY DEF Inv, TypeOK
  <2>4. chain' # <<>> /\ Head(chain') = x
    BY <1>4, <2>2, <2>3 DEF HasTurn
  <2> QED
    BY <1>4, <1>6, <2>1, <2>2, <2>4 DEF HasTurn
<1>15. AnsweredOnce'
  <2> SUFFICES ASSUME NEW p \in Requests
               PROVE  owed'[p] \in {0, 1} /\ (owed'[p] = 1 <=> \E x \in Runs : obj'[x] # NULL /\ obj'[x].respond = p)
    BY DEF AnsweredOnce
  <2>1. \A y \in Requests : owed[y] \in {0, 1}
    BY DEF Inv, AnsweredOnce
  <2>2. owed'[p] = IF p = q THEN 1 ELSE IF p \in Waiting(S) THEN 0 ELSE owed[p]
    BY <1>1, <1>3, <1>4, <2>1, WaitingIsOwed DEF Respond
  <2>3. p # NULL
    BY RuleCoreAssumption
  <2>4. CASE p = q
    BY <1>2, <1>5, <1>6, <2>2, <2>4
  <2>5. CASE p # q
    <3>1. (\E x \in Runs : obj'[x] # NULL /\ obj'[x].respond = p)
            <=> (\E x \in Runs : x # r /\ Superseded(S)[x] # NULL /\ Superseded(S)[x].respond = p)
      BY <1>5, <1>6, <2>5
    <3>2. \A x \in Runs : obj[x] # NULL /\ x \notin S => Superseded(S)[x] = obj[x]
      BY <1>1, SupersededType DEF Parked
    <3>3. (\E x \in Runs : obj'[x] # NULL /\ obj'[x].respond = p)
            <=> (\E x \in Runs : x \notin S /\ obj[x] # NULL /\ obj[x].respond = p)
      BY <1>3, <1>6, <1>7, <2>3, <3>1, <3>2
    <3>4. CASE p \in Waiting(S)
      <4>1. PICK y \in S : obj[y].respond = p
        BY <1>1, <3>4, WaitingIsOwed
      <4>2. \A x \in Runs : obj[x] # NULL /\ obj[x].respond = p => x = y
        BY <1>1, <4>1, <2>3 DEF Inv, OwnRequest, InMap
      <4> QED
        BY <2>2, <2>5, <3>3, <3>4, <4>1, <4>2
    <3>5. CASE p \notin Waiting(S)
      <4>1. \A x \in S : obj[x].respond # p
        BY <1>1, <3>5, WaitingIsOwed
      <4>2. owed[p] \in {0, 1} /\ (owed[p] = 1 <=> \E x \in Runs : obj[x] # NULL /\ obj[x].respond = p)
        BY DEF Inv, AnsweredOnce
      <4> QED
        BY <2>2, <2>5, <3>3, <3>5, <4>1, <4>2
    <3> QED
      BY <3>4, <3>5
  <2> QED
    BY <2>4, <2>5
<1> QED
  BY <1>10, <1>11, <1>13, <1>14, <1>15 DEF Inv

-----------------------------------------------------------------------------
(* The other steps.                                                        *)

\* A message that names no parked session is answered at once.
LEMMA NoSuchSessionKeeps ==
  ASSUME Inv, NEW id \in Ids, NEW q \in Requests, NoSuchSession(id, q)
  PROVE  Inv'
<1>1. /\ UNCHANGED <<obj, at, sessions, chain, loaded>>
      /\ \A p \in Requests : owed[p] \in {0, 1}
      /\ owed' = owed /\ answer' \in [Requests -> Answers \cup {NULL}]
  <2>1. UNCHANGED <<obj, at, sessions, chain, loaded>> /\ Respond({q}, {q}, "error")
    BY DEF NoSuchSession
  <2>2. \A p \in Requests : owed[p] \in {0, 1}
    BY DEF Inv, AnsweredOnce
  <2>3. owed' = owed
    BY <2>1, <2>2 DEF Respond, Inv, TypeOK
  <2>4. answer' \in [Requests -> Answers \cup {NULL}]
    BY <2>1 DEF Respond, Inv, TypeOK, Answers
  <2> QED
    BY <2>1, <2>2, <2>3, <2>4
<1> QED
  BY <1>1 DEF Inv, TypeOK, MapIsTrue, Mapped, OwnRequest, ParkedHasTurn, HasTurn, AnsweredOnce

\* scan-continue finds its session parked: nothing is pending, and it has the
\* turn and the core.
LEMMA ResumeKeeps ==
  ASSUME Inv, NEW id \in Ids, NEW q \in Requests, Resume(id, q)
  PROVE  Inv'
<1>1. PICK r \in Parked(Open(id)) :
        \/ NextStop(r, {q}, {q}) /\ UNCHANGED loaded
        \/ Complete(r, {q}, {q})
  BY DEF Resume
<1>2. r \in Runs /\ at[r] = "parked" /\ obj[r] # NULL /\ Mapped(r)
  BY OpenIsInMap DEF Parked, InMap
<1>3. HasTurn(r) /\ loaded = r /\ Pending(r) = {}
  BY <1>2 DEF Inv, ParkedHasTurn, Pending
<1>4. CASE NextStop(r, {q}, {q}) /\ UNCHANGED loaded
  BY <1>2, <1>3, <1>4, NextStopKeeps
<1>5. CASE Complete(r, {q}, {q})
  BY <1>2, <1>3, <1>5, CompleteKeeps
<1> QED
  BY <1>1, <1>4, <1>5

\* Who has the turn: it is queued, so it has a session; while its request is
\* pending it is in the Map.
LEMMA QueuedSession ==
  ASSUME Inv, NEW r \in Runs, at[r] = "queued"
  PROVE  obj[r] # NULL /\ Pending(r) \in SUBSET Requests /\ (Pending(r) # {} => Mapped(r))
<1>1. obj[r] # NULL
  BY DEF Inv, TypeOK
<1>2. obj[r].respond \in Requests \cup {NULL}
  BY <1>1, SessionType DEF Inv
<1> QED
  BY <1>1, <1>2 DEF Pending, Inv, MapIsTrue

LEMMA LoadKeeps ==
  ASSUME Inv, NEW r \in Runs, Load(r)
  PROVE  Inv'
<1>1. at[r] = "queued" /\ HasTurn(r)
  BY DEF Load
<1>2. obj[r] # NULL /\ Pending(r) \in SUBSET Requests /\ (Pending(r) # {} => Mapped(r))
  BY <1>1, QueuedSession
<1>3. CASE NextStop(r, Pending(r), {}) /\ loaded' = r
  BY <1>1, <1>2, <1>3, NextStopKeeps
<1>4. CASE Complete(r, Pending(r), {})
  BY <1>1, <1>2, <1>4, CompleteKeeps
<1> QED
  BY <1>3, <1>4 DEF Load

LEMMA LoadFailsKeeps ==
  ASSUME Inv, NEW r \in Runs, LoadFails(r)
  PROVE  Inv'
<1>1. at[r] = "queued" /\ HasTurn(r) /\ Finish(r, Pending(r), {}, "error") /\ loaded' = loaded
  BY DEF LoadFails, Throw
<1>2. obj[r] # NULL /\ Pending(r) \in SUBSET Requests
  BY <1>1, QueuedSession
<1>3. loaded \in Runs \cup {NULL}
  BY DEF Inv, TypeOK
<1> QED
  BY <1>1, <1>2, <1>3, FinishSettles, SettlesKeeps DEF Answers

\* Who was superseded has left the Map, so skipping it only gives up the turn.
LEMMA SkipKeeps ==
  ASSUME Inv, NEW r \in Runs, Skip(r)
  PROVE  Inv'
<1>1. at[r] = "queued" /\ HasTurn(r) /\ obj[r].superseded
  BY DEF Skip
<1>2. obj[r] # NULL /\ obj[r].id \in Ids
  BY <1>1, QueuedSession, SessionType DEF Inv
<1>3. ~Mapped(r) /\ Pending(r) = {}
  BY <1>1, <1>2 DEF Inv, MapIsTrue, Pending
<1>4. sessions' = Forget({r})
  <2>1. \A i \in Ids : sessions[i] # r
    BY <1>2, <1>3, RuleCoreAssumption DEF Inv, TypeOK, Mapped
  <2> QED
    BY <2>1 DEF Skip, Forget, Inv, TypeOK
<1>5. chain' = Leave({r})
  BY <1>1 DEF Skip, Leave, HasTurn
<1>6. Paid(r)
  BY <1>3 DEF Skip, Paid, Inv, TypeOK
<1>7. Settles(r)
  BY <1>4, <1>5, <1>6 DEF Skip, Settles, Inv, TypeOK
<1> QED
  BY <1>1, <1>2, <1>7, SettlesKeeps

LEMMA ReadKeeps ==
  ASSUME Inv, NEW q \in Requests, Read(q)
  PROVE  Inv'
<1>1. answer' \in [Requests -> Answers \cup {NULL}] /\ UNCHANGED <<obj, at, sessions, chain, loaded, owed>>
  BY DEF Read, Inv, TypeOK
<1> QED
  BY <1>1 DEF Inv, TypeOK, MapIsTrue, Mapped, OwnRequest, ParkedHasTurn, HasTurn, AnsweredOnce

-----------------------------------------------------------------------------
(* The theorems.                                                           *)

LEMMA InitInv == Init => Inv
<1> SUFFICES ASSUME Init PROVE Inv
  OBVIOUS
<1>1. TypeOK
  BY DEF Init, TypeOK, Places
<1>2. \A r \in Runs : obj[r] = NULL /\ at[r] = "unborn"
  BY DEF Init
<1>3. \A q \in Requests : owed[q] = 0
  BY DEF Init
<1> QED
  BY <1>1, <1>2, <1>3 DEF Inv, MapIsTrue, OwnRequest, ParkedHasTurn, AnsweredOnce

LEMMA NextInv == Inv /\ [CoreNext]_coreVars => Inv'
<1> SUFFICES ASSUME Inv, [CoreNext]_coreVars PROVE Inv'
  OBVIOUS
<1>1. CASE \E r \in Runs, id \in Ids, t \in Tabs, kind \in Kinds, q \in Requests :
             ScanStart(r, id, t, kind, q)
  BY <1>1, StartKeeps
<1>2. CASE \E id \in Ids, q \in Requests : ScanContinue(id, q)
  BY <1>2, NoSuchSessionKeeps, ResumeKeeps DEF ScanContinue
<1>3. CASE \E id \in Ids : ScanCancel(id)
  BY <1>3, OpenIsInMap, CancelKeeps DEF ScanCancel
<1>4. CASE \E t \in Tabs : ScanCancelTab(t)
  BY <1>4, OfTabIsInMap, CancelKeeps DEF ScanCancelTab
<1>5. CASE \E r \in Runs : Internal(r)
  BY <1>5, SkipKeeps, LoadKeeps, LoadFailsKeeps DEF Internal
<1>6. CASE \E q \in Requests : Read(q)
  BY <1>6, ReadKeeps
<1>7. CASE UNCHANGED coreVars
  BY <1>7 DEF coreVars, Inv, TypeOK, MapIsTrue, Mapped, OwnRequest, ParkedHasTurn, HasTurn, AnsweredOnce
<1> QED
  BY <1>1, <1>2, <1>3, <1>4, <1>5, <1>6, <1>7 DEF CoreNext

\* What the invariant says of the properties.
LEMMA InvPromises == Inv => TypeOK /\ OwnSnapshot /\ AnsweredOnce /\ TurnIsReachable
<1> SUFFICES ASSUME Inv PROVE TypeOK /\ OwnSnapshot /\ AnsweredOnce /\ TurnIsReachable
  OBVIOUS
<1>1. TypeOK /\ AnsweredOnce
  BY DEF Inv
<1>2. OwnSnapshot
  BY DEF Inv, ParkedHasTurn, OwnSnapshot
<1>3. TurnIsReachable
  <2> SUFFICES ASSUME NEW r \in Runs, at[r] = "parked"
               PROVE  \E i \in Ids : sessions[i] = r
    BY DEF TurnIsReachable
  <2>1. obj[r] # NULL
    BY DEF Inv, TypeOK
  <2>2. obj[r].id \in Ids
    BY <2>1, SessionType DEF Inv
  <2>3. Mapped(r)
    BY <2>1 DEF Inv, MapIsTrue
  <2> QED
    BY <2>2, <2>3 DEF Mapped
<1> QED
  BY <1>1, <1>2, <1>3

LEMMA CoreInv == CoreSpec => []Inv
BY InitInv, NextInv, PTL DEF CoreSpec

\* The state of the core is what it should be, whatever is sent to it
\* (60-offscreen.js).
THEOREM CoreTypeCorrect == CoreSpec => []TypeOK
BY CoreInv, InvPromises, PTL

\* A scan that was interrupted by messages of other tabs, cancels and restarts
\* goes on over its own page's snapshot (serialized, snapshot_load).
THEOREM SnapshotsAreOwn == CoreSpec => []OwnSnapshot
BY CoreInv, InvPromises, PTL

\* Every message is answered at most once, and one that waits for its answer is
\* held by exactly one session that has not settled (ask, finish,
\* cancelSession).
THEOREM AnswersComeOnce == CoreSpec => []AnsweredOnce
BY CoreInv, InvPromises, PTL

\* A run that keeps the turn while it waits for its tab can still be found, so
\* that a cancel releases the turn (sessions.set, sessions.delete).
THEOREM TurnsAreReachable == CoreSpec => []TurnIsReachable
BY CoreInv, InvPromises, PTL

----------------------------------------------------------------------------
(***************************************************************************)
(* The rule core and its clients.                                          *)
(***************************************************************************)

(***************************************************************************)
(* What is in a sequence, and in which order.                              *)
(***************************************************************************)
Elems(q) == {q[i] : i \in DOMAIN q}
Before(q, a, b) == \E i, j \in DOMAIN q : i < j /\ q[i] = a /\ q[j] = b

LEMMA NoElems == Elems(<<>>) = {} /\ \A a, b : ~Before(<<>>, a, b)
BY DEF Elems, Before

LEMMA ElemsType == ASSUME NEW T, NEW q \in Seq(T) PROVE Elems(q) \subseteq T
BY DEF Elems

LEMMA TailElems ==
  ASSUME NEW T, NEW q \in Seq(T), q # <<>>
  PROVE  /\ Tail(q) \in Seq(T) /\ Head(q) \in T
         /\ Elems(q) = {Head(q)} \cup Elems(Tail(q))
         /\ \A a, b : Before(Tail(q), a, b) => Before(q, a, b)
         /\ \A b \in Elems(Tail(q)) : Before(q, Head(q), b)
<1> DEFINE r == Tail(q)
<1>1. r \in Seq(T) /\ Len(r) = Len(q) - 1 /\ Len(q) \in Nat \ {0} OBVIOUS
<1>2. \A i \in 1 .. Len(q) - 1 : r[i] = q[i + 1] OBVIOUS
<1>3. DOMAIN r = 1 .. Len(q) - 1 /\ DOMAIN q = 1 .. Len(q) BY <1>1
<1>4. Head(q) = q[1] /\ q[1] \in T BY <1>1
<1> HIDE DEF r
<1>5. \A i \in DOMAIN r : i + 1 \in DOMAIN q /\ r[i] = q[i + 1] BY <1>1, <1>2, <1>3
<1>6. \A i \in DOMAIN q : i = 1 \/ (i - 1 \in DOMAIN r /\ r[i - 1] = q[i]) BY <1>1, <1>2, <1>3
<1>7. 1 \in DOMAIN q /\ \A i \in DOMAIN r : 1 < i + 1 BY <1>1, <1>3
<1>8. Elems(q) = {Head(q)} \cup Elems(r) BY <1>4, <1>5, <1>6, <1>7 DEF Elems
<1>9. \A a, b : Before(r, a, b) => Before(q, a, b)
  <2>1. \A i, j \in DOMAIN r : i < j => i + 1 < j + 1 BY <1>1, <1>3
  <2>. QED BY <1>5, <2>1 DEF Before
<1>10. \A b \in Elems(r) : Before(q, Head(q), b) BY <1>4, <1>5, <1>7 DEF Elems, Before
<1>. QED BY <1>1, <1>4, <1>8, <1>9, <1>10 DEF r

LEMMA JoinElems ==
  ASSUME NEW T, NEW q \in Seq(T), NEW c \in Seq(T)
  PROVE  /\ q \o c \in Seq(T)
         /\ Elems(q \o c) = Elems(q) \cup Elems(c)
         /\ \A a, b : Before(q \o c, a, b) =>
              Before(q, a, b) \/ (a \in Elems(q) /\ b \in Elems(c)) \/ Before(c, a, b)
<1> DEFINE r == q \o c
<1>1. r \in Seq(T) /\ Len(q) \in Nat /\ Len(c) \in Nat /\ Len(r) = Len(q) + Len(c) OBVIOUS
<1>2. DOMAIN q = 1 .. Len(q) /\ DOMAIN c = 1 .. Len(c) /\ DOMAIN r = 1 .. Len(q) + Len(c) BY <1>1
<1>3. \A i \in 1 .. Len(q) + Len(c) : r[i] = IF i <= Len(q) THEN q[i] ELSE c[i - Len(q)] BY <1>1
<1> HIDE DEF r
<1>4. \A i \in DOMAIN q : i \in DOMAIN r /\ r[i] = q[i] BY <1>1, <1>2, <1>3
<1>5. \A i \in DOMAIN c : i + Len(q) \in DOMAIN r /\ r[i + Len(q)] = c[i] BY <1>1, <1>2, <1>3
<1>6. \A i \in DOMAIN r : \/ i \in DOMAIN q /\ r[i] = q[i]
                          \/ i > Len(q) /\ i - Len(q) \in DOMAIN c /\ r[i] = c[i - Len(q)]
  BY <1>1, <1>2, <1>3
<1>7. Elems(r) = Elems(q) \cup Elems(c)
  <2>1. Elems(r) \subseteq Elems(q) \cup Elems(c) BY <1>6 DEF Elems
  <2>2. Elems(q) \subseteq Elems(r) /\ Elems(c) \subseteq Elems(r) BY <1>4, <1>5 DEF Elems
  <2>. QED BY <2>1, <2>2
<1>8. ASSUME NEW a, NEW b, Before(r, a, b)
      PROVE  Before(q, a, b) \/ (a \in Elems(q) /\ b \in Elems(c)) \/ Before(c, a, b)
  <2>1. PICK i \in DOMAIN r, j \in DOMAIN r : i < j /\ r[i] = a /\ r[j] = b BY <1>8 DEF Before
  <2>2. CASE j \in DOMAIN q /\ r[j] = q[j]
    <3>1. i \in DOMAIN q /\ r[i] = q[i] BY <1>1, <1>2, <1>4, <2>1, <2>2
    <3>. QED BY <2>1, <2>2, <3>1 DEF Before
  <2>3. CASE j > Len(q) /\ j - Len(q) \in DOMAIN c /\ r[j] = c[j - Len(q)]
    <3>1. CASE i \in DOMAIN q /\ r[i] = q[i] BY <2>1, <2>3, <3>1 DEF Elems
    <3>2. CASE i > Len(q) /\ i - Len(q) \in DOMAIN c /\ r[i] = c[i - Len(q)]
      <4>1. i - Len(q) < j - Len(q) BY <1>1, <1>2, <2>1
      <4>. QED BY <2>1, <2>3, <3>2, <4>1 DEF Before
    <3>. QED BY <1>6, <3>1, <3>2
  <2>. QED BY <1>6, <2>2, <2>3
<1>. QED BY <1>1, <1>7, <1>8 DEF r

LEMMA AppendElems ==
  ASSUME NEW T, NEW q \in Seq(T), NEW m \in T
  PROVE  /\ Append(q, m) \in Seq(T)
         /\ Elems(Append(q, m)) = Elems(q) \cup {m}
         /\ \A a, b : Before(Append(q, m), a, b) => Before(q, a, b) \/ (a \in Elems(q) /\ b = m)
<1> DEFINE c == <<m>>
<1>1. c \in Seq(T) /\ Append(q, m) = q \o c OBVIOUS
<1>2. Elems(c) = {m} /\ \A a, b : ~Before(c, a, b)
  <2>1. DOMAIN c = {1} /\ c[1] = m OBVIOUS
  <2>. QED BY <2>1 DEF Elems, Before
<1> HIDE DEF c
<1>3. /\ q \o c \in Seq(T) /\ Elems(q \o c) = Elems(q) \cup Elems(c)
      /\ \A a, b : Before(q \o c, a, b) =>
           Before(q, a, b) \/ (a \in Elems(q) /\ b \in Elems(c)) \/ Before(c, a, b)
  BY <1>1, JoinElems
<1>. QED BY <1>1, <1>2, <1>3

(***************************************************************************)
(* The runs of a set, in order (InOrder).                                  *)
(***************************************************************************)
Less == {ss \in Nat \X Nat : ss[1] < ss[2]}

LEMMA UpTo ==
  ASSUME NEW n \in Nat, NEW good,
         0 \in good,
         \A m \in 1 .. n : m - 1 \in good => m \in good
  PROVE  \A m \in 0 .. n : m \in good
<1> DEFINE bad == {m \in 0 .. n : m \notin good}
<1>1. SUFFICES ASSUME bad # {} PROVE FALSE OBVIOUS
<1>2. bad \subseteq Nat OBVIOUS
<1>3. IsWellFoundedOn(Less, Nat)
  <2>1. OpToRel(<, Nat) = Less BY DEF OpToRel, Less
  <2>. QED BY <2>1, NatLessThanWellFounded
<1>4. PICK x \in bad : \A y \in bad : <<y, x>> \notin Less BY <1>1, <1>2, <1>3, WFMin
<1>5. \A y \in bad : ~(y < x) BY <1>2, <1>4 DEF Less
<1>6. x \in 1 .. n BY <1>4
<1>7. x - 1 \in good BY <1>5, <1>6
<1>. QED BY <1>4, <1>6, <1>7

OrderTo(S, m, f) ==
  f = [n \in 0 .. m |-> IF n = 0 THEN <<>> ELSE IF n \in S THEN Append(f[n - 1], n) ELSE f[n - 1]]

LEMMA OrderExists ==
  ASSUME NEW S, NEW n \in Nat
  PROVE  \E f : OrderTo(S, n, f)
<1> DEFINE good == {m \in 0 .. n : \E f : OrderTo(S, m, f)}
<1>1. 0 \in good
  <2>1. OrderTo(S, 0, [i \in 0 .. 0 |-> <<>>]) BY DEF OrderTo
  <2>. QED BY <2>1
<1>2. ASSUME NEW m \in 1 .. n, m - 1 \in good PROVE m \in good
  <2>1. PICK g : OrderTo(S, m - 1, g) BY <1>2
  <2> DEFINE step(h, i) == IF i = 0 THEN <<>> ELSE IF i \in S THEN Append(h, i) ELSE h
             f == [i \in 0 .. m |-> IF i = m THEN step(g[m - 1], m) ELSE g[i]]
  <2>2. \A i \in 0 .. m - 1 : f[i] = g[i] OBVIOUS
  <2>3. \A i \in 0 .. m - 1 : g[i] = step(g[i - 1], i) BY <2>1 DEF OrderTo
  <2>4. f[m] = step(g[m - 1], m) OBVIOUS
  <2>5. f = [i \in 0 .. m |-> f[i]] OBVIOUS
  <2> HIDE DEF f
  <2>6. ASSUME NEW i \in 0 .. m PROVE f[i] = step(f[i - 1], i)
    <3>1. CASE i = m BY <2>2, <2>4, <3>1
    <3>2. CASE i = 0 BY <2>2, <2>3, <3>2
    <3>3. CASE i # m /\ i # 0
      <4>1. i \in 0 .. m - 1 /\ i - 1 \in 0 .. m - 1 BY <3>3
      <4>. QED BY <4>1, <2>2, <2>3
    <3>. QED BY <3>1, <3>2, <3>3
  <2>7. f = [i \in 0 .. m |-> step(f[i - 1], i)] BY <2>5, <2>6
  <2>8. OrderTo(S, m, f) BY <2>7 DEF OrderTo
  <2>. QED BY <2>8
<1> HIDE DEF good
<1>3. n \in good BY <1>1, <1>2, UpTo
<1>. QED BY <1>3 DEF good

LEMMA InOrderIs ==
  ASSUME NEW S \in SUBSET Runs
  PROVE  /\ InOrder(S) \in Seq(Runs)
         /\ Elems(InOrder(S)) = S
         /\ \A a, b : Before(InOrder(S), a, b) => a < b
<1>n. MaxRuns \in Nat /\ Runs = 1 .. MaxRuns BY RunsAssumption
<1> DEFINE f == CHOOSE g : OrderTo(S, MaxRuns, g)
<1>1. OrderTo(S, MaxRuns, f) BY <1>n, OrderExists
<1>2. InOrder(S) = f[MaxRuns] BY Zenon DEF InOrder, OrderTo
<1> HIDE DEF f
<1>3. f[0] = <<>> BY <1>n, <1>1 DEF OrderTo
<1>4. ASSUME NEW i \in 1 .. MaxRuns PROVE f[i] = IF i \in S THEN Append(f[i - 1], i) ELSE f[i - 1]
  <2>1. i \in 0 .. MaxRuns /\ i # 0 BY <1>n
  <2>2. f[i] = IF i = 0 THEN <<>> ELSE IF i \in S THEN Append(f[i - 1], i) ELSE f[i - 1]
    BY <1>1, <2>1, Zenon DEF OrderTo
  <2>. QED BY <2>1, <2>2, Zenon
<1> DEFINE good == {i \in 0 .. MaxRuns :
              /\ f[i] \in Seq(Runs)
              /\ \A x : x \in Elems(f[i]) <=> x \in S /\ x \in 1 .. i
              /\ \A a, b : Before(f[i], a, b) => a < b}
<1>5. 0 \in good
  <2>1. f[0] \in Seq(Runs) BY <1>3
  <2>2. Elems(f[0]) = {} /\ \A a, b : ~Before(f[0], a, b) BY <1>3, NoElems
  <2>3. 0 \in 0 .. MaxRuns /\ 1 .. 0 = {} BY <1>n
  <2>. QED BY <2>1, <2>2, <2>3
<1>6. ASSUME NEW i \in 1 .. MaxRuns, i - 1 \in good PROVE i \in good
  <2>1. i \in Runs /\ f[i - 1] \in Seq(Runs) BY <1>n, <1>6
  <2>2. \A x : x \in 1 .. i <=> x \in 1 .. i - 1 \/ x = i BY <1>n
  <2>3. CASE i \in S
    <3>1. f[i] = Append(f[i - 1], i) BY <1>4, <2>3
    <3>2. /\ f[i] \in Seq(Runs) /\ Elems(f[i]) = Elems(f[i - 1]) \cup {i}
          /\ \A a, b : Before(f[i], a, b) => Before(f[i - 1], a, b) \/ (a \in Elems(f[i - 1]) /\ b = i)
      BY <2>1, <3>1, AppendElems
    <3>3. \A a \in Elems(f[i - 1]) : a < i BY <1>n, <1>6
    <3>. QED BY <1>6, <1>n, <2>2, <2>3, <3>2, <3>3
  <2>4. CASE i \notin S
    <3>1. f[i] = f[i - 1] BY <1>4, <2>4
    <3>. QED BY <1>6, <1>n, <2>2, <2>4, <3>1
  <2>. QED BY <2>3, <2>4
<1>7. MaxRuns \in good
  <2> HIDE DEF good
  <2>1. \A i \in 0 .. MaxRuns : i \in good BY <1>n, <1>5, <1>6, UpTo
  <2>. QED BY <1>n, <2>1
<1>. QED BY <1>2, <1>7, <1>n
-----------------------------------------------------------------------------
(***************************************************************************)
(* The inductive invariant, first part: sessions, drivers and what is on   *)
(* its way to the core.                                                    *)
(***************************************************************************)
Mates(x, y) == driver[x] # NULL /\ driver[y] # NULL /\ driver[x].tab = driver[y].tab
On(r) == Live(r) /\ Current(r)

\* Runs are numbered as their drivers start.
Numbered == \A x, y \in Runs : x < y /\ driver[y] # NULL => driver[x] # NULL

\* A session is its driver's; it holds its driver's request or none.
OwnSession(r) ==
  /\ obj[r].id = r /\ obj[r].tab = driver[r].tab /\ obj[r].kind = driver[r].kind
  /\ obj[r].respond # NULL => obj[r].respond = r /\ answer[r] = NULL
  /\ at[r] = "queued" /\ ~obj[r].superseded => obj[r].respond = r
  /\ at[r] = "queued" \/ obj[r].kind = "candidate" => obj[r].stage = "none"
Owned ==
  \A r \in Runs :
    /\ at[r] # "unborn" => driver[r] # NULL
    /\ answer[r] # NULL => at[r] # "unborn"
    /\ obj[r] # NULL => OwnSession(r)

\* A start on its way is for a session that is not there yet, a continue for
\* one that has asked; and starts are in the order of their runs.
SentTo(t, m) ==
  /\ driver[m.run] # NULL /\ driver[m.run].tab = t
  /\ m.type = "start" => at[m.run] = "unborn"
  /\ m.type = "continue" => at[m.run] \in {"parked", "over"}
Sent ==
  \A t \in Tabs :
    /\ \A m \in Elems(outbox[t]) : SentTo(t, m)
    /\ \A m, n \in Message : Before(outbox[t], m, n) /\ n.type = "start" => m.run < n.run
Starting ==
  \A r \in Runs :
    driver[r] # NULL /\ at[r] = "unborn" => Msg("start", r) \in Elems(outbox[driver[r].tab])

\* What an answer that was not read yet says of its session.
Said ==
  \A r \in Runs :
    /\ answer[r] \in {"error", "done"} => at[r] = "over"
    /\ answer[r] = "superseded" => at[r] = "over" \/ (at[r] = "queued" /\ obj[r].superseded)
    /\ answer[r] \in {"ask", "findings", "visual"} => at[r] \in {"parked", "over"}
    /\ answer[r] = "findings" /\ at[r] = "parked" => obj[r].stage = "findings"
    /\ answer[r] = "visual" /\ at[r] = "parked" => obj[r].stage = "visual"
    /\ answer[r] \in {"findings", "visual"} => driver[r].kind = "scan"
    /\ driver[r] # NULL /\ driver[r].at = "answering" => at[r] \in {"parked", "over"}

\* activeSessions holds the live drivers of this generation.
Actives ==
  /\ \A r \in Runs : driver[r] # NULL => driver[r].generation <= generation[driver[r].tab]
  /\ \A t \in Tabs, r \in Runs :
       r \in active[t] <=> driver[r] # NULL /\ driver[r].tab = t /\ On(r)

\* Who can still take or hold the turn, or will, is looked after.
Wants(r) ==
  \/ at[r] \in {"queued", "parked"} /\ ~obj[r].superseded
  \/ driver[r] # NULL /\ at[r] = "unborn"
Attended(r) ==
  \/ On(r)
  \/ Msg("cancel", r) \in Elems(outbox[driver[r].tab])
  \/ driver[r].at = "gone" /\ driver[r].tab \in left
  \/ Failed(r)
Attends == \A r \in Runs : Wants(r) => Attended(r)

(***************************************************************************)
(* The inductive invariant, second part: the order in which the sessions   *)
(* of one tab go on, and what their scripts draw.                          *)
(***************************************************************************)
Chained ==
  /\ \A r \in Runs : r \in Elems(chain) <=> at[r] \in {"queued", "parked"}
  /\ \A r \in Runs : ~Before(chain, r, r)
  /\ \A x, y \in Runs : Before(chain, x, y) /\ Mates(x, y) => x < y
Ordered ==
  \A x, y \in Runs : x < y /\ Mates(x, y) =>
    /\ at[y] # "unborn" => at[x] # "unborn"
    /\ at[y] \in {"parked", "over"} => at[x] = "over"

\* Answers to one tab are read in the order of their runs, but for those that
\* make no difference to the order.
Reading ==
  /\ \A t \in Tabs :
       /\ \A r \in Elems(inbox[t]) : driver[r] # NULL /\ driver[r].tab = t /\ answer[r] # NULL
       /\ \A r \in Runs : ~Before(inbox[t], r, r)
       /\ \A x, y \in Runs : Before(inbox[t], x, y) /\ y < x =>
            answer[x] = "superseded" \/ answer[y] = "error"
  /\ \A r \in Runs : Live(r) /\ answer[r] # NULL => r \in Elems(inbox[driver[r].tab])

\* One scan and one candidate of a tab are on at most, no scan while another
\* is wanted.
Scan(r) == On(r) /\ driver[r].kind = "scan"
Candidate(r) == On(r) /\ driver[r].kind = "candidate"
Alone ==
  /\ \A x, y \in Runs : Scan(x) /\ Scan(y) /\ Mates(x, y) => x = y
  /\ \A x, y \in Runs : Candidate(x) /\ Candidate(y) /\ Mates(x, y) => x = y
  /\ \A x \in Runs : Scan(x) => ~wanted[driver[x].tab]

\* A scan has drawn its visual stage before a candidate of it starts.
ScanIsShown(x) ==
  /\ at[x] \in {"parked", "over"} /\ answer[x] \notin {"findings", "visual"}
  /\ at[x] = "parked" => obj[x].stage = "visual"
Observed ==
  \A x \in Runs :
    Scan(x) /\ (candidates[driver[x].tab] \/ \E c \in Runs : Candidate(c) /\ Mates(x, c) /\ x < c)
      => ScanIsShown(x)

\* What a script has drawn before it reads the answer that waits for it.
HasShown(x) ==
  \/ answer[x] \in {"visual", "done"}
  \/ at[x] = "parked" /\ obj[x].stage # "none" /\ answer[x] # "findings"
Shown ==
  /\ \A x \in Runs : Scan(x) /\ HasShown(x) =>
       /\ drawn[driver[x].tab] = {x}
       /\ \A c \in Runs : c < x /\ Candidate(c) /\ Mates(x, c) => answer[c] # "done"
  /\ \A c \in Runs : Candidate(c) =>
       \/ drawn[driver[c].tab] = driver[c].base
       \/ at[c] = "over" /\ answer[c] # "done"

CoreSide ==
  /\ Inv /\ ClientTypeOK /\ Numbered /\ Owned /\ Sent /\ Starting /\ Said /\ Actives /\ Attends
PageSide ==
  /\ Chained /\ Ordered /\ Reading /\ Alone /\ Observed /\ Shown /\ ReportIsDrawn

-----------------------------------------------------------------------------
(***************************************************************************)
(* What a step of the core does to each session, and to the chain.         *)
(***************************************************************************)
Same(x) == at'[x] = at[x] /\ obj'[x] = obj[x] /\ answer'[x] = answer[x]
Kin(x) ==
  obj'[x] # NULL /\ obj'[x].id = obj[x].id /\ obj'[x].tab = obj[x].tab /\ obj'[x].kind = obj[x].kind

\* It is superseded while it waits for the turn.
Overtaken(x) ==
  /\ at[x] = "queued" /\ at'[x] = "queued" /\ Kin(x)
  /\ obj'[x].superseded /\ obj'[x].respond = NULL /\ obj'[x].stage = obj[x].stage
  /\ answer'[x] = IF obj[x].respond = x THEN "superseded" ELSE answer[x]
\* It stops to ask.
Asking(x) ==
  /\ HasTurn(x) /\ at[x] \in {"queued", "parked"} /\ at'[x] = "parked" /\ Kin(x)
  /\ obj'[x].superseded = obj[x].superseded /\ obj'[x].respond = NULL
  /\ answer[x] = NULL
  /\ \/ answer'[x] = "ask" /\ obj'[x].stage = obj[x].stage
     \/ /\ answer'[x] = "findings" /\ obj[x].kind = "scan"
        /\ obj[x].stage = "none" /\ obj'[x].stage = "findings"
     \/ /\ answer'[x] = "visual" /\ obj[x].kind = "scan"
        /\ obj[x].stage = "findings" /\ obj'[x].stage = "visual"
\* It settles, with an answer or without.
Settling(x) ==
  /\ HasTurn(x) /\ at[x] \in {"queued", "parked"} /\ at'[x] = "over" /\ obj'[x] = NULL
  /\ \/ answer'[x] = answer[x]
     \/ answer[x] = NULL /\ answer'[x] = "error"
     \/ answer[x] = NULL /\ answer'[x] = "done" /\ (obj[x].kind = "scan" => obj[x].stage # "none")
\* Its driver goes on with a session that is over.
Refused(x) ==
  at[x] = "over" /\ at'[x] = "over" /\ obj'[x] = obj[x] /\ answer[x] = NULL /\ answer'[x] = "error"
Born(x) ==
  /\ driver[x] # NULL /\ at[x] = "unborn" /\ at'[x] = "queued" /\ answer'[x] = answer[x]
  /\ obj'[x] # NULL /\ obj'[x].id = x /\ obj'[x].tab = driver[x].tab /\ obj'[x].kind = driver[x].kind
  /\ obj'[x].respond = x /\ ~obj'[x].superseded /\ obj'[x].stage = "none"

Moves(x) == Same(x) \/ Overtaken(x) \/ Asking(x) \/ Settling(x) \/ Refused(x) \/ Born(x)

Leaves(x) == at[x] \in {"queued", "parked"} /\ at'[x] = "over"
ChainMoves ==
  \/ /\ chain' = chain
     /\ \A x \in Runs : ~Leaves(x) /\ ~Born(x)
  \/ /\ chain # <<>> /\ chain' = Tail(chain) /\ Leaves(Head(chain))
     /\ \A x \in Runs : ~Born(x) /\ (Leaves(x) => x = Head(chain))
  \/ \E x \in Runs :
       /\ Born(x) /\ chain' = Append(chain, x)
       /\ \A y \in Runs : ~Leaves(y) /\ (Born(y) => y = x)
CoreMoves == (\A x \in Runs : Moves(x)) /\ ChainMoves
NoneBorn == \A x \in Runs : ~Born(x)

LEMMA RunsAreRequests ==
  /\ Runs \subseteq Requests /\ Runs \subseteq Ids /\ Runs \subseteq Nat /\ NULL \notin Runs
  /\ NULL \notin Answers /\ NULL \notin Driver
BY RunsAssumption, RuleCoreAssumption

LEMMA Responded ==
  ASSUME NEW Q, NEW New, NEW reply, Respond(Q, New, reply)
  PROVE  \A x \in Runs : answer'[x] = IF x \in Q THEN reply ELSE answer[x]
BY RunsAreRequests DEF Respond

LEMMA FinishMoves ==
  ASSUME Inv, NEW r \in Runs, at[r] \in {"queued", "parked"}, HasTurn(r),
         NEW Q, Q = {} \/ (Q = {r} /\ answer[r] = NULL), NEW New, NEW reply,
         reply = "error" \/ (reply = "done" /\ (obj[r].kind = "scan" => obj[r].stage # "none")),
         Finish(r, Q, New, reply)
  PROVE  CoreMoves /\ NoneBorn
<1>1. /\ \A x \in Runs : obj'[x] = IF x = r THEN NULL ELSE obj[x]
      /\ \A x \in Runs : at'[x] = IF x = r THEN "over" ELSE at[x]
      /\ \A x \in Runs : answer'[x] = IF x \in Q THEN reply ELSE answer[x]
      /\ chain' = Leave({r})
  BY Responded DEF Finish, Inv, TypeOK
<1>2. chain # <<>> /\ chain' = Tail(chain) /\ Head(chain) = r BY <1>1 DEF HasTurn, Leave
<1>3. \A x \in Runs : x # r => Same(x) BY <1>1 DEF Same
<1>4. Settling(r) BY <1>1 DEF Settling
<1>5. Leaves(r) /\ \A x \in Runs : x # r => ~Leaves(x) BY <1>1 DEF Leaves
<1>6. \A x \in Runs : ~Born(x) BY <1>1 DEF Born
<1>7. ChainMoves BY <1>2, <1>5, <1>6 DEF ChainMoves
<1>8. \A x \in Runs : Moves(x) BY <1>3, <1>4 DEF Moves
<1>. QED BY <1>6, <1>7, <1>8 DEF CoreMoves, NoneBorn

LEMMA AskMoves ==
  ASSUME Inv, NEW r \in Runs, at[r] \in {"queued", "parked"}, HasTurn(r),
         NEW Q, Q = {} \/ (Q = {r} /\ answer[r] = NULL), NEW New, NEW question,
         NEW session \in Session,
         session.id = obj[r].id, session.tab = obj[r].tab, session.kind = obj[r].kind,
         session.superseded = obj[r].superseded,
         \/ question = "ask" /\ session.stage = obj[r].stage
         \/ /\ question = "findings" /\ obj[r].kind = "scan"
            /\ obj[r].stage = "none" /\ session.stage = "findings"
         \/ /\ question = "visual" /\ obj[r].kind = "scan"
            /\ obj[r].stage = "findings" /\ session.stage = "visual",
         Ask(r, Q, New, question, session)
  PROVE  CoreMoves /\ NoneBorn
<1>1. CASE Q = {}
  <2>1. Finish(r, Q, New, "error") BY <1>1 DEF Ask
  <2>. QED BY <1>1, <2>1, FinishMoves
<1>2. CASE Q # {}
  <2> DEFINE after == [session EXCEPT !.respond = NULL]
  <2>1. /\ after \in Session /\ after # NULL /\ after.id = obj[r].id /\ after.tab = obj[r].tab
        /\ after.kind = obj[r].kind /\ after.superseded = obj[r].superseded
        /\ after.respond = NULL /\ after.stage = session.stage
    BY RuleCoreAssumption DEF Session
  <2>2. /\ Respond(Q, New, question) /\ obj' = [obj EXCEPT ![r] = after]
        /\ at' = [at EXCEPT ![r] = "parked"] /\ chain' = chain
    BY <1>2 DEF Ask
  <2> HIDE DEF after
  <2>3. /\ \A x \in Runs : obj'[x] = IF x = r THEN after ELSE obj[x]
        /\ \A x \in Runs : at'[x] = IF x = r THEN "parked" ELSE at[x]
        /\ \A x \in Runs : answer'[x] = IF x \in Q THEN question ELSE answer[x]
    BY <2>2, Responded DEF Inv, TypeOK
  <2>4. Q = {r} /\ answer[r] = NULL BY <1>2
  <2>5. \A x \in Runs : x # r => Same(x) BY <2>3, <2>4 DEF Same
  <2>6. Asking(r) BY <2>1, <2>3, <2>4 DEF Asking, Kin
  <2>7. \A x \in Runs : ~Leaves(x) /\ ~Born(x) BY <2>3 DEF Leaves, Born
  <2>8. \A x \in Runs : Moves(x) BY <2>5, <2>6 DEF Moves
  <2>. QED BY <2>2, <2>7, <2>8 DEF CoreMoves, ChainMoves, NoneBorn
<1>. QED BY <1>1, <1>2

LEMMA StopMoves ==
  ASSUME Inv, NEW r \in Runs, at[r] \in {"queued", "parked"}, HasTurn(r),
         NEW Q, Q = {} \/ (Q = {r} /\ answer[r] = NULL), NEW New,
         NextStop(r, Q, New) \/ Complete(r, Q, New)
  PROVE  CoreMoves /\ NoneBorn
<1>1. obj[r] \in Session /\ obj[r].asks \in 0..MaxAsks /\ obj[r] # NULL
  <2>1. obj[r] # NULL BY DEF Inv, TypeOK
  <2>. QED BY <2>1, SessionType DEF Inv, Session
<1>2. CASE AskPage(r, Q, New)
  <2> DEFINE s == [obj[r] EXCEPT !.asks = @ + 1]
  <2>1. s \in Session BY <1>1, <1>2, RuleCoreAssumption DEF AskPage, Session
  <2>2. /\ s.id = obj[r].id /\ s.tab = obj[r].tab /\ s.kind = obj[r].kind
        /\ s.superseded = obj[r].superseded /\ s.stage = obj[r].stage
    BY <1>1 DEF Session
  <2>3. Ask(r, Q, New, "ask", s) BY <1>2 DEF AskPage
  <2> HIDE DEF s
  <2>. QED BY <2>1, <2>2, <2>3, AskMoves
<1>3. ASSUME NEW stage \in Stages
      PROVE  /\ [obj[r] EXCEPT !.stage = stage] \in Session
             /\ [obj[r] EXCEPT !.stage = stage].id = obj[r].id
             /\ [obj[r] EXCEPT !.stage = stage].tab = obj[r].tab
             /\ [obj[r] EXCEPT !.stage = stage].kind = obj[r].kind
             /\ [obj[r] EXCEPT !.stage = stage].superseded = obj[r].superseded
             /\ [obj[r] EXCEPT !.stage = stage].stage = stage
  BY <1>1 DEF Session
<1>4. CASE ShowFindings(r, Q, New)
  <2> DEFINE s == [obj[r] EXCEPT !.stage = "findings"]
  <2>1. /\ s \in Session /\ s.id = obj[r].id /\ s.tab = obj[r].tab /\ s.kind = obj[r].kind
        /\ s.superseded = obj[r].superseded /\ s.stage = "findings"
    BY <1>3 DEF Stages
  <2>2. Ask(r, Q, New, "findings", s) /\ obj[r].kind = "scan" /\ obj[r].stage = "none"
    BY <1>4 DEF ShowFindings
  <2> HIDE DEF s
  <2>. QED BY <2>1, <2>2, AskMoves
<1>5. CASE ShowVisual(r, Q, New)
  <2> DEFINE s == [obj[r] EXCEPT !.stage = "visual"]
  <2>1. /\ s \in Session /\ s.id = obj[r].id /\ s.tab = obj[r].tab /\ s.kind = obj[r].kind
        /\ s.superseded = obj[r].superseded /\ s.stage = "visual"
    BY <1>3 DEF Stages
  <2>2. Ask(r, Q, New, "visual", s) /\ obj[r].kind = "scan" /\ obj[r].stage = "findings"
    BY <1>5 DEF ShowVisual
  <2> HIDE DEF s
  <2>. QED BY <2>1, <2>2, AskMoves
<1>6. CASE Throw(r, Q, New) BY <1>6, FinishMoves DEF Throw
<1>7. CASE Complete(r, Q, New) BY <1>7, FinishMoves DEF Complete
<1>. QED BY <1>2, <1>4, <1>5, <1>6, <1>7 DEF NextStop

LEMMA CancelMoves ==
  ASSUME Inv, Owned, NEW S, InMap(S), CancelAll(S)
  PROVE  /\ CoreMoves /\ NoneBorn
         /\ \A x \in S : at[x] = "parked" => at'[x] = "over"
         /\ \A x \in S : at[x] = "queued" => at'[x] = "queued" /\ obj'[x].superseded
<1>1. /\ \A x \in Runs : obj'[x] = Superseded(S)[x]
      /\ \A x \in Runs : at'[x] = IF x \in Parked(S) THEN "over" ELSE at[x]
      /\ \A x \in Runs : answer'[x] = IF x \in Waiting(S) THEN "superseded" ELSE answer[x]
      /\ chain' = Leave(Parked(S))
  BY Responded, RejectedType DEF CancelAll
<1>2. \A x \in S : x \in Runs /\ obj[x] # NULL /\ at[x] \in {"queued", "parked"}
  BY SessionType DEF InMap, Inv
<1>3. \A x \in Runs : x \in Waiting(S) <=> x \in S /\ obj[x].respond = x
  <2>1. \A x \in Runs : x \in Waiting(S) <=> \E y \in S : obj[y].respond = x
    BY WaitingIsOwed, RunsAreRequests
  <2>2. \A y \in S : obj[y].respond # NULL => obj[y].respond = y BY <1>2 DEF Owned, OwnSession
  <2>. QED BY <2>1, <2>2, RunsAreRequests
<1>4. \A x \in Runs : x \in Parked(S) <=> x \in S /\ at[x] = "parked" BY DEF Parked
<1>5. \A x \in Runs : x \in Parked(S) => HasTurn(x) /\ obj[x].respond = NULL
  BY <1>4 DEF Inv, ParkedHasTurn
<1>6. ASSUME NEW x \in Runs, x \notin S PROVE Same(x)
  <2>1. obj'[x] = obj[x] BY <1>1, <1>6, <1>4 DEF Superseded
  <2>. QED BY <2>1, <1>1, <1>3, <1>4, <1>6 DEF Same
<1>7. ASSUME NEW x \in Parked(S) PROVE Settling(x) /\ Leaves(x)
  <2>1. x \in Runs /\ x \in S /\ at[x] = "parked" BY <1>2, <1>7 DEF Parked
  <2>2. obj'[x] = NULL BY <1>1, <2>1 DEF Superseded
  <2>3. answer'[x] = answer[x] BY <1>1, <1>3, <1>5, <2>1, RunsAreRequests
  <2>. QED BY <1>1, <1>5, <2>1, <2>2, <2>3 DEF Settling, Leaves
<1>8. ASSUME NEW x \in S, at[x] # "parked" PROVE Overtaken(x)
  <2>1. x \in Runs /\ obj[x] # NULL /\ at[x] = "queued" /\ x \notin Parked(S) BY <1>2, <1>4, <1>8
  <2>2. obj[x] \in Session BY <2>1, SessionType DEF Inv
  <2>3. obj'[x] = [obj[x] EXCEPT !.superseded = TRUE, !.respond = NULL]
    BY <1>1, <2>1 DEF Superseded
  <2> DEFINE after == [obj[x] EXCEPT !.superseded = TRUE, !.respond = NULL]
  <2>4. /\ after \in Session /\ after # NULL /\ after.id = obj[x].id /\ after.tab = obj[x].tab
        /\ after.kind = obj[x].kind /\ after.superseded = TRUE
        /\ after.respond = NULL /\ after.stage = obj[x].stage
    BY <2>2, RuleCoreAssumption DEF Session
  <2> HIDE DEF after
  <2>5. obj'[x] = after BY <2>3 DEF after
  <2>. QED BY <1>1, <1>3, <2>1, <2>4, <2>5 DEF Overtaken, Kin
<1>9. \A x \in Runs : Moves(x) BY <1>4, <1>6, <1>7, <1>8 DEF Moves
<1>10. \A x \in Runs : ~Born(x)
  <2>1. ASSUME NEW x \in Runs PROVE at[x] # "unborn" \/ at'[x] # "queued"
    BY <1>1
  <2>. QED BY <2>1 DEF Born
<1>11. \A x \in Runs : Leaves(x) => x \in Parked(S)
  BY <1>1 DEF Leaves
<1>12. ChainMoves
  <2>1. CASE \E x \in Parked(S) : TRUE
    <3>1. PICK x \in Parked(S) : TRUE BY <2>1
    <3>2. x \in Runs /\ Leaves(x) /\ HasTurn(x) BY <1>2, <1>5, <1>7, <3>1 DEF Parked
    <3>3. chain # <<>> /\ Head(chain) = x /\ chain' = Tail(chain) BY <1>1, <3>1, <3>2 DEF Leave, HasTurn
    <3>4. \A y \in Runs : Leaves(y) => y = x BY <1>5, <1>11, <3>3 DEF HasTurn
    <3>. QED BY <1>10, <3>2, <3>3, <3>4 DEF ChainMoves
  <2>2. CASE ~\E x \in Parked(S) : TRUE
    <3>1. chain' = chain BY <1>1, <2>2 DEF Leave
    <3>. QED BY <1>10, <1>11, <2>2, <3>1 DEF ChainMoves
  <2>. QED BY <2>1, <2>2
<1>13. \A x \in S : at[x] = "parked" => at'[x] = "over" BY <1>1, <1>2, <1>4
<1>14. \A x \in S : at[x] = "queued" => at'[x] = "queued" /\ obj'[x].superseded
  BY <1>8 DEF Overtaken
<1>. QED BY <1>9, <1>10, <1>12, <1>13, <1>14 DEF CoreMoves, NoneBorn

LEMMA InternalMoves ==
  ASSUME Inv, Owned, NEW r \in Runs, Internal(r)
  PROVE  CoreMoves /\ NoneBorn
<1>1. at[r] = "queued" /\ HasTurn(r) BY DEF Internal, Skip, Load, LoadFails
<1>2. Pending(r) = {} \/ (Pending(r) = {r} /\ answer[r] = NULL)
  <2>1. obj[r] # NULL BY <1>1 DEF Inv, TypeOK
  <2>. QED BY <2>1 DEF Pending, Owned, OwnSession
<1>3. CASE Skip(r)
  <2>1. /\ \A x \in Runs : obj'[x] = IF x = r THEN NULL ELSE obj[x]
        /\ \A x \in Runs : at'[x] = IF x = r THEN "over" ELSE at[x]
        /\ answer' = answer /\ chain' = Tail(chain)
    BY <1>3 DEF Skip, Inv, TypeOK
  <2>2. \A x \in Runs : x # r => Same(x) BY <2>1 DEF Same
  <2>3. Settling(r) /\ Leaves(r) BY <1>1, <2>1 DEF Settling, Leaves
  <2>4. \A x \in Runs : ~Born(x) /\ (Leaves(x) => x = r) BY <2>1 DEF Born, Leaves
  <2>5. \A x \in Runs : Moves(x) BY <2>2, <2>3 DEF Moves
  <2>6. chain # <<>> /\ Head(chain) = r BY <1>1 DEF HasTurn
  <2>. QED BY <2>1, <2>3, <2>4, <2>5, <2>6 DEF CoreMoves, ChainMoves, NoneBorn
<1>4. CASE Load(r) BY <1>1, <1>2, <1>4, StopMoves DEF Load
<1>5. CASE LoadFails(r) BY <1>1, <1>2, <1>5, FinishMoves DEF LoadFails, Throw
<1>. QED BY <1>3, <1>4, <1>5 DEF Internal

\* Who can take or hold the turn is in the Map.
LEMMA WhoWantsIsMapped ==
  ASSUME Inv, Owned, NEW r \in Runs, at[r] = "parked" \/ (at[r] = "queued" /\ ~obj[r].superseded)
  PROVE  /\ obj[r] # NULL /\ obj[r].id = r /\ obj[r].tab = driver[r].tab
         /\ sessions[r] = r /\ r \in Open(r) /\ r \in OfTab(driver[r].tab)
<1>1. obj[r] # NULL BY DEF Inv, TypeOK
<1>2. obj[r].id = r /\ obj[r].tab = driver[r].tab BY <1>1 DEF Owned, OwnSession
<1>3. Mapped(r)
  <2>1. CASE at[r] = "parked" BY <1>1, <2>1 DEF Inv, MapIsTrue
  <2>2. CASE at[r] = "queued" /\ ~obj[r].superseded
    <3>1. obj[r].respond = r BY <1>1, <2>2 DEF Owned, OwnSession
    <3>. QED BY <1>1, <3>1, RunsAreRequests DEF Inv, MapIsTrue
  <2>. QED BY <2>1, <2>2
<1>4. sessions[r] = r BY <1>2, <1>3 DEF Mapped
<1>5. r \in Open(r) BY <1>4, RunsAreRequests DEF Open
<1>6. r \in OfTab(driver[r].tab) BY <1>1, <1>2, <1>4 DEF OfTab
<1>. QED BY <1>1, <1>2, <1>4, <1>5, <1>6

\* A session that is not there yet is not in the Map, so nobody is superseded
\* when it starts.
LEMMA StartMoves ==
  ASSUME Inv, Owned, NEW r \in Runs, NEW t \in Tabs,
         driver[r] \in Driver, driver[r].tab = t, ScanStart(r, r, t, driver[r].kind, r)
  PROVE  CoreMoves /\ Born(r) /\ \A x \in Runs : x # r => Same(x)
<1>1. at[r] = "unborn" /\ obj[r] = NULL /\ answer[r] = NULL
  <2>1. at[r] = "unborn" BY DEF ScanStart
  <2>. QED BY <2>1 DEF Inv, TypeOK, Owned
<1>2. Open(r) = {}
  <2>1. SUFFICES ASSUME NEW x \in Open(r) PROVE FALSE OBVIOUS
  <2>2. InMap(Open(r)) /\ x \in Runs /\ sessions[r] = x
    <3>1. InMap(Open(r)) /\ \A y \in Runs : y \in Open(r) <=> sessions[r] = y
      BY OpenIsInMap, RunsAreRequests
    <3>2. x \in Runs BY <3>1 DEF InMap
    <3>. QED BY <3>1, <3>2
  <2>3. obj[x] # NULL /\ obj[x].id = r
    BY <2>2, RunsAreRequests DEF Inv, TypeOK
  <2>4. x = r BY <2>2, <2>3 DEF Owned, OwnSession
  <2>. QED BY <1>1, <2>3, <2>4
<1> DEFINE new == [id |-> r, tab |-> t, kind |-> driver[r].kind, respond |-> r,
                   superseded |-> FALSE, stage |-> "none", asks |-> 0]
<1>3. new \in Session
  <2>1. driver[r].kind \in Kinds BY DEF Driver
  <2>. QED BY <2>1, RunsAreRequests, RuleCoreAssumption DEF Session, Stages
<1>4. /\ new # NULL /\ new.id = r /\ new.tab = driver[r].tab /\ new.kind = driver[r].kind
      /\ new.respond = r /\ ~new.superseded /\ new.stage = "none"
  BY <1>3, RuleCoreAssumption
<1>5. Parked({}) = {} /\ Waiting({}) = {} BY DEF Parked, Waiting
<1>6. /\ obj' = [Superseded({}) EXCEPT ![r] = new] /\ at' = [Rejected({}) EXCEPT ![r] = "queued"]
      /\ chain' = Append(Leave({}), r) /\ Respond({}, {r}, "superseded")
  BY <1>2, <1>5 DEF ScanStart
<1> HIDE DEF new
<1>7. /\ \A x \in Runs : obj'[x] = IF x = r THEN new ELSE obj[x]
      /\ \A x \in Runs : at'[x] = IF x = r THEN "queued" ELSE at[x]
  <2>1. \A x \in Runs : Superseded({})[x] = obj[x] /\ Rejected({})[x] = at[x]
    BY <1>5 DEF Superseded, Rejected
  <2>2. DOMAIN Superseded({}) = Runs /\ DOMAIN Rejected({}) = Runs BY DEF Superseded, Rejected
  <2>. QED BY <1>6, <2>1, <2>2
<1>8. \A x \in Runs : answer'[x] = answer[x] BY <1>6, Responded
<1>9. chain' = Append(chain, r) BY <1>6 DEF Leave
<1>10. Born(r) BY <1>1, <1>4, <1>7, <1>8, RunsAreRequests DEF Born
<1>11. \A x \in Runs : x # r => Same(x) BY <1>7, <1>8 DEF Same
<1>12. \A x \in Runs : ~Leaves(x) /\ (Born(x) => x = r) BY <1>1, <1>7 DEF Leaves, Born
<1>13. \A x \in Runs : Moves(x) BY <1>10, <1>11 DEF Moves
<1>. QED BY <1>9, <1>10, <1>11, <1>12, <1>13 DEF CoreMoves, ChainMoves

LEMMA ContinueMoves ==
  ASSUME Inv, Owned, NEW r \in Runs, at[r] \in {"parked", "over"}, ScanContinue(r, r)
  PROVE  CoreMoves /\ NoneBorn
<1>1. CASE NoSuchSession(r, r)
  <2>1. /\ UNCHANGED <<obj, at, chain>> /\ answer[r] = NULL /\ Parked(Open(r)) = {}
        /\ Respond({r}, {r}, "error")
    BY <1>1 DEF NoSuchSession, Fresh
  <2>2. at[r] = "over"
    <3>1. at[r] = "parked" => r \in Open(r) BY WhoWantsIsMapped
    <3>. QED BY <2>1, <3>1 DEF Parked
  <2>3. \A x \in Runs : answer'[x] = IF x = r THEN "error" ELSE answer[x] BY <2>1, Responded
  <2>4. \A x \in Runs : x # r => Same(x) BY <2>1, <2>3 DEF Same
  <2>5. Refused(r) BY <2>1, <2>2, <2>3 DEF Refused
  <2>6. \A x \in Runs : ~Leaves(x) /\ ~Born(x) BY <2>1 DEF Leaves, Born
  <2>7. \A x \in Runs : Moves(x) BY <2>4, <2>5 DEF Moves
  <2>. QED BY <2>1, <2>6, <2>7 DEF CoreMoves, ChainMoves, NoneBorn
<1>2. CASE Resume(r, r)
  <2>1. answer[r] = NULL BY <1>2 DEF Resume, Fresh
  <2>2. PICK x \in Parked(Open(r)) : NextStop(x, {r}, {r}) \/ Complete(x, {r}, {r})
    BY <1>2 DEF Resume
  <2>3. x \in Open(r) /\ at[x] = "parked" BY <2>2 DEF Parked
  <2>4. InMap(Open(r)) /\ \A y \in Runs : y \in Open(r) <=> sessions[r] = y
    BY OpenIsInMap, RunsAreRequests
  <2>5. x \in Runs /\ obj[x] # NULL /\ Mapped(x) BY <2>3, <2>4 DEF InMap
  <2>6. x = r
    <3>1. sessions[r] = x BY <2>3, <2>4, <2>5
    <3>2. obj[x].id = r BY <2>5, <3>1, RunsAreRequests DEF Inv, TypeOK
    <3>. QED BY <2>5, <3>2 DEF Owned, OwnSession
  <2>7. HasTurn(r) BY <2>3, <2>6 DEF Inv, ParkedHasTurn
  <2>. QED BY <2>1, <2>2, <2>3, <2>6, <2>7, StopMoves
<1>. QED BY <1>1, <1>2 DEF ScanContinue

\* Who was cancelled wants the turn no more.
LEMMA CancelStops ==
  ASSUME Inv, Owned, NEW S, InMap(S), CancelAll(S), NEW r \in Runs,
         at[r] = "parked" \/ (at[r] = "queued" /\ ~obj[r].superseded) => r \in S
  PROVE  at'[r] \in {"queued", "parked"} => obj'[r].superseded
<1>1. /\ \A x \in S : at[x] = "parked" => at'[x] = "over"
      /\ \A x \in S : at[x] = "queued" => at'[x] = "queued" /\ obj'[x].superseded
      /\ Moves(r) /\ ~Born(r)
  BY CancelMoves DEF CoreMoves, NoneBorn
<1>2. CASE r \in S
  <2>1. at[r] \in {"queued", "parked"} BY <1>2, SessionType DEF InMap, Inv
  <2>. QED BY <1>1, <1>2, <2>1
<1>3. CASE r \notin S
  <2>1. CASE Same(r) BY <1>3, <2>1 DEF Same
  <2>2. CASE Overtaken(r) BY <2>2 DEF Overtaken
  <2>3. CASE Asking(r)
    <3>1. obj'[r].superseded = obj[r].superseded /\ at[r] # "parked" BY <1>3, <2>3 DEF Asking
    <3>. QED BY <1>3, <2>3, <3>1 DEF Asking
  <2>4. CASE Settling(r) BY <2>4 DEF Settling
  <2>5. CASE Refused(r) BY <2>5 DEF Refused
  <2>. QED BY <1>1, <2>1, <2>2, <2>3, <2>4, <2>5 DEF Moves
<1>. QED BY <1>2, <1>3

-----------------------------------------------------------------------------
(***************************************************************************)
(* A step of the core keeps the first part of the invariant.               *)
(***************************************************************************)

\* What it has received is done with, and so is a document that is forgotten;
\* the sessions of a tab start in the order of their runs.
Receipts ==
  /\ outbox' \in [Tabs -> Seq(Message)]
  /\ \A t \in Tabs :
       /\ \A m \in Elems(outbox'[t]) : m \in Elems(outbox[t]) /\ (m.type = "start" => ~Born(m.run))
       /\ \A m, n \in Message : Before(outbox'[t], m, n) => Before(outbox[t], m, n)
       /\ \A m \in Elems(outbox[t]) :
            \/ m \in Elems(outbox'[t])
            \/ /\ m.type = "start" => at'[m.run] # "unborn"
               /\ m.type = "cancel" => ~Wants(m.run)'
  /\ left' \subseteq left
  /\ \A r \in Runs : Wants(r)' /\ driver[r].tab \in left => driver[r].tab \in left'
  /\ \A x, y \in Runs : Born(y) /\ x < y /\ Mates(x, y) => at[x] # "unborn"

LEMMA MoveKeeps ==
  ASSUME CoreSide, Inv', NEW r \in Runs, Moves(r), driver' = driver
  PROVE  /\ at'[r] # "unborn" => driver[r] # NULL
         /\ answer'[r] # NULL => at'[r] # "unborn"
         /\ obj'[r] # NULL => OwnSession(r)'
         /\ at[r] # "unborn" => at'[r] # "unborn"
         /\ at[r] = "unborn" => Born(r) \/ at'[r] = "unborn"
         /\ at[r] \in {"parked", "over"} => at'[r] \in {"parked", "over"}
         /\ Wants(r)' => Wants(r)
<1>1. /\ at[r] # "unborn" => driver[r] # NULL
      /\ answer[r] # NULL => at[r] # "unborn"
      /\ obj[r] # NULL => OwnSession(r)
  BY DEF CoreSide, Owned
<1>2. obj[r] = NULL <=> at[r] \in {"unborn", "over"} BY DEF CoreSide, Inv, TypeOK
<1>3. at[r] \in Places BY DEF CoreSide, Inv, TypeOK
<1>4. CASE Same(r) BY <1>1, <1>2, <1>4 DEF Same, OwnSession, Wants
<1>5. CASE Overtaken(r) BY <1>1, <1>2, <1>5 DEF Overtaken, Kin, OwnSession, Wants
<1>6. CASE Asking(r) BY <1>1, <1>2, <1>6 DEF Asking, Kin, OwnSession, Wants
<1>7. CASE Settling(r) BY <1>1, <1>2, <1>7 DEF Settling, Wants
<1>8. CASE Refused(r) BY <1>1, <1>2, <1>8 DEF Refused, Wants
<1>9. CASE Born(r) BY <1>1, <1>2, <1>9, RunsAreRequests DEF Born, OwnSession, Wants
<1>. QED BY <1>4, <1>5, <1>6, <1>7, <1>8, <1>9 DEF Moves

LEMMA MoveSays ==
  ASSUME CoreSide, NEW r \in Runs, Moves(r), driver' = driver
  PROVE  /\ answer'[r] \in {"error", "done"} => at'[r] = "over"
         /\ answer'[r] = "superseded" => at'[r] = "over" \/ (at'[r] = "queued" /\ obj'[r].superseded)
         /\ answer'[r] \in {"ask", "findings", "visual"} => at'[r] \in {"parked", "over"}
         /\ answer'[r] = "findings" /\ at'[r] = "parked" => obj'[r].stage = "findings"
         /\ answer'[r] = "visual" /\ at'[r] = "parked" => obj'[r].stage = "visual"
         /\ answer'[r] \in {"findings", "visual"} => driver'[r].kind = "scan"
         /\ driver'[r] # NULL /\ driver'[r].at = "answering" => at'[r] \in {"parked", "over"}
<1>1. /\ answer[r] \in {"error", "done"} => at[r] = "over"
      /\ answer[r] = "superseded" => at[r] = "over" \/ (at[r] = "queued" /\ obj[r].superseded)
      /\ answer[r] \in {"ask", "findings", "visual"} => at[r] \in {"parked", "over"}
      /\ answer[r] = "findings" /\ at[r] = "parked" => obj[r].stage = "findings"
      /\ answer[r] = "visual" /\ at[r] = "parked" => obj[r].stage = "visual"
      /\ answer[r] \in {"findings", "visual"} => driver[r].kind = "scan"
      /\ driver[r] # NULL /\ driver[r].at = "answering" => at[r] \in {"parked", "over"}
  BY DEF CoreSide, Said
<1>2. /\ obj[r] = NULL <=> at[r] \in {"unborn", "over"}
      /\ obj[r] # NULL => obj[r].kind = driver[r].kind
      /\ answer[r] # NULL => at[r] # "unborn"
  BY DEF CoreSide, Inv, TypeOK, Owned, OwnSession
<1>3. \A a \in Answers : a # NULL BY RunsAreRequests
<1>4. CASE Same(r) BY <1>1, <1>4 DEF Same
<1>5. CASE Overtaken(r) BY <1>1, <1>5 DEF Overtaken
<1>6. CASE Asking(r) BY <1>1, <1>2, <1>6 DEF Asking
<1>7. CASE Settling(r) BY <1>1, <1>7 DEF Settling
<1>8. CASE Refused(r) BY <1>1, <1>8 DEF Refused
<1>9. CASE Born(r) BY <1>1, <1>2, <1>3, <1>9 DEF Born, Answers
<1>. QED BY <1>4, <1>5, <1>6, <1>7, <1>8, <1>9 DEF Moves

LEMMA DeliverType ==
  ASSUME ClientTypeOK, Deliver PROVE inbox' \in [Tabs -> Seq(Runs)]
<1>1. \A t \in Tabs : inbox[t] \in Seq(Runs) /\ Arrivals(t) \in Seq(Runs)
  BY InOrderIs DEF ClientTypeOK, Arrivals
<1>2. \A t \in Tabs : inbox[t] \o Arrivals(t) \in Seq(Runs) BY <1>1
<1>. QED BY <1>2 DEF Deliver

LEMMA CoreKeeps ==
  ASSUME CoreSide, Inv', CoreMoves, Receipts, Deliver,
         UNCHANGED <<generation, wanted, active, candidates, driver, drawn, reported>>
  PROVE  CoreSide'
<1>1. ClientTypeOK'
  <2>1. ClientTypeOK /\ TypeOK' BY DEF CoreSide, Inv
  <2>2. inbox' \in [Tabs -> Seq(Runs)] BY <2>1, DeliverType
  <2>3. outbox' \in [Tabs -> Seq(Message)] /\ left' \subseteq left BY DEF Receipts
  <2>. QED BY <2>1, <2>2, <2>3 DEF ClientTypeOK
<1>2. /\ \A r \in Runs : driver'[r] = driver[r] /\ Live(r)' = Live(r) /\ Current(r)' = Current(r)
      /\ \A r \in Runs : On(r)' = On(r) /\ Failed(r)' = Failed(r)
  BY DEF Live, Current, On, Failed
<1>3. Numbered' BY <1>2 DEF CoreSide, Numbered
<1>4. Owned' BY MoveKeeps DEF CoreMoves, Owned
<1>5. Said' BY MoveSays DEF CoreMoves, Said
<1>6. Actives' BY <1>2 DEF CoreSide, Actives
<1>7. \A t \in Tabs : outbox[t] \in Seq(Message) /\ Elems(outbox[t]) \subseteq Message
  BY ElemsType DEF CoreSide, ClientTypeOK
<1>8. Sent'
  <2>1. ASSUME NEW t \in Tabs, NEW m \in Elems(outbox'[t]) PROVE SentTo(t, m)'
    <3>1. m \in Elems(outbox[t]) /\ m.run \in Runs /\ (m.type = "start" => ~Born(m.run))
      BY <1>7, <2>1 DEF Receipts, Message
    <3>2. SentTo(t, m) BY <3>1 DEF CoreSide, Sent
    <3>3. /\ at[m.run] = "unborn" => Born(m.run) \/ at'[m.run] = "unborn"
          /\ at[m.run] \in {"parked", "over"} => at'[m.run] \in {"parked", "over"}
      BY <3>1, MoveKeeps DEF CoreMoves
    <3>. QED BY <3>1, <3>2, <3>3 DEF SentTo
  <2>2. ASSUME NEW t \in Tabs, NEW m \in Message, NEW n \in Message,
               Before(outbox'[t], m, n), n.type = "start"
        PROVE  m.run < n.run
    BY <2>2 DEF Receipts, CoreSide, Sent
  <2>. QED BY <2>1, <2>2 DEF Sent
<1>9. Starting'
  <2> SUFFICES ASSUME NEW r \in Runs, driver'[r] # NULL, at'[r] = "unborn"
               PROVE  Msg("start", r) \in Elems(outbox'[driver'[r].tab])
    BY DEF Starting
  <2>1. driver[r] # NULL /\ at[r] = "unborn" BY MoveKeeps DEF CoreMoves
  <2>2. driver[r].tab \in Tabs BY <2>1 DEF CoreSide, ClientTypeOK, Driver
  <2>3. Msg("start", r) \in Elems(outbox[driver[r].tab]) BY <2>1 DEF CoreSide, Starting
  <2>4. Msg("start", r).type = "start" /\ Msg("start", r).run = r BY DEF Msg
  <2>. QED BY <2>2, <2>3, <2>4 DEF Receipts
<1>10. Attends'
  <2> SUFFICES ASSUME NEW r \in Runs, Wants(r)' PROVE Attended(r)' BY DEF Attends
  <2>1. Wants(r) BY MoveKeeps DEF CoreMoves
  <2>2. Attended(r) BY <2>1 DEF CoreSide, Attends
  <2>3. driver[r] # NULL /\ driver[r].tab \in Tabs
    <3>1. driver[r] # NULL BY <2>1 DEF Wants, CoreSide, Owned
    <3>. QED BY <3>1 DEF CoreSide, ClientTypeOK, Driver
  <2>4. ASSUME Msg("cancel", r) \in Elems(outbox[driver[r].tab])
        PROVE  Msg("cancel", r) \in Elems(outbox'[driver[r].tab])
    <3>1. Msg("cancel", r).type = "cancel" /\ Msg("cancel", r).run = r BY DEF Msg
    <3>. QED BY <2>3, <2>4, <3>1 DEF Receipts
  <2>. QED BY <1>2, <2>2, <2>4 DEF Attended, Receipts
<1>. QED BY <1>1, <1>3, <1>4, <1>5, <1>6, <1>8, <1>9, <1>10 DEF CoreSide

LEMMA OutboxType ==
  ASSUME ClientTypeOK, NEW t \in Tabs
  PROVE  outbox[t] \in Seq(Message) /\ Elems(outbox[t]) \subseteq Message
BY ElemsType DEF ClientTypeOK

LEMMA CoreStepKeepsInv ==
  ASSUME CoreSide, CoreNext \/ UNCHANGED coreVars
  PROVE  Inv'
BY NextInv DEF CoreSide

\* Nothing was received: only a document that went away may be forgotten.
LEMMA NothingReceived ==
  ASSUME CoreSide, UNCHANGED outbox, NoneBorn, left' \subseteq left,
         \A r \in Runs : Wants(r)' /\ driver[r].tab \in left => driver[r].tab \in left'
  PROVE  Receipts
<1>1. outbox' \in [Tabs -> Seq(Message)] BY DEF CoreSide, ClientTypeOK
<1>2. \A t \in Tabs : \A m \in Elems(outbox[t]) : m.run \in Runs
  BY OutboxType DEF CoreSide, Message
<1>. QED BY <1>1, <1>2 DEF Receipts, NoneBorn

LEMMA ReceiveDoes ==
  ASSUME CoreSide, NEW t \in Tabs, Receive(t)
  PROVE  /\ CoreNext /\ CoreMoves /\ Receipts /\ Deliver
         /\ UNCHANGED <<generation, wanted, active, candidates, driver, left, drawn, reported>>
<1> DEFINE q == outbox[t]
           m == Head(q)
           r == m.run
<1>0. /\ Inv /\ Owned /\ ClientTypeOK /\ Starting /\ Sent
      /\ UNCHANGED <<generation, wanted, active, candidates, driver, left, drawn, reported>>
      /\ Deliver
  BY DEF CoreSide, Receive
<1>1. q \in Seq(Message) /\ q # <<>> BY <1>0, OutboxType DEF Receive
<1>2. /\ m \in Message /\ Tail(q) \in Seq(Message) /\ Elems(q) = {m} \cup Elems(Tail(q))
      /\ \A a, b : Before(Tail(q), a, b) => Before(q, a, b)
      /\ \A b \in Elems(Tail(q)) : Before(q, m, b)
  BY <1>1, TailElems
<1>3. r \in Runs /\ m.type \in {"start", "continue", "cancel"} BY <1>2 DEF Message
<1>11. \A x \in Runs : ~(x < x) BY RunsAreRequests
<1>4. /\ driver[r] # NULL /\ driver[r].tab = t
      /\ m.type = "start" => at[r] = "unborn"
      /\ m.type = "continue" => at[r] \in {"parked", "over"}
  BY <1>0, <1>2 DEF Sent, SentTo
<1>5. driver[r] \in Driver /\ driver[r].kind \in Kinds BY <1>0, <1>3, <1>4 DEF ClientTypeOK, Driver
<1>6. \/ m.type = "start" /\ ScanStart(r, r, t, driver[r].kind, r)
      \/ m.type = "continue" /\ ScanContinue(r, r)
      \/ m.type = "cancel" /\ ScanCancel(r)
  BY DEF Receive
<1>7. CoreNext
  <2>1. r \in Ids /\ r \in Requests BY <1>3, RunsAreRequests
  <2>2. CASE m.type = "start" /\ ScanStart(r, r, t, driver[r].kind, r)
    BY <1>3, <1>5, <2>1, <2>2 DEF CoreNext
  <2>3. CASE ScanContinue(r, r) BY <2>1, <2>3 DEF CoreNext
  <2>4. CASE ScanCancel(r) BY <2>1, <2>4 DEF CoreNext
  <2>. QED BY <1>6, <2>2, <2>3, <2>4
<1>8. Inv' BY <1>7, CoreStepKeepsInv
<1>9. /\ CoreMoves
      /\ m.type = "start" => Born(r) /\ \A x \in Runs : x # r => Same(x)
      /\ m.type # "start" => NoneBorn
      /\ m.type = "cancel" => (at'[r] \in {"queued", "parked"} => obj'[r].superseded)
  <2>1. CASE m.type = "start" /\ ScanStart(r, r, t, driver[r].kind, r)
    BY <1>0, <1>3, <1>4, <1>5, <2>1, StartMoves
  <2>2. CASE m.type = "continue" /\ ScanContinue(r, r)
    BY <1>0, <1>3, <1>4, <2>2, ContinueMoves
  <2>3. CASE m.type = "cancel" /\ ScanCancel(r)
    <3>1. InMap(Open(r)) /\ CancelAll(Open(r))
      BY <1>0, <1>3, <2>3, OpenIsInMap, RunsAreRequests DEF ScanCancel
    <3>2. at[r] = "parked" \/ (at[r] = "queued" /\ ~obj[r].superseded) => r \in Open(r)
      BY <1>0, <1>3, WhoWantsIsMapped
    <3>3. at'[r] \in {"queued", "parked"} => obj'[r].superseded
      BY <1>0, <1>3, <3>1, <3>2, CancelStops
    <3>. QED BY <1>0, <2>3, <3>1, <3>3, CancelMoves
  <2>. QED BY <1>6, <2>1, <2>2, <2>3
<1>10. Receipts
  <2>1. outbox' = [outbox EXCEPT ![t] = Tail(q)] BY DEF Receive
  <2> HIDE DEF m, q
  <2>2. outbox'[t] = Tail(q) /\ \A u \in Tabs : u # t => outbox'[u] = outbox[u]
    BY <1>0, <2>1 DEF ClientTypeOK
  <2>3. outbox' \in [Tabs -> Seq(Message)] BY <1>0, <1>2, <2>1 DEF ClientTypeOK
  <2>4. q = outbox[t] BY DEF q
  <2>5. ASSUME NEW u \in Tabs, NEW n \in Elems(outbox'[u])
        PROVE  n \in Elems(outbox[u]) /\ (n.type = "start" => ~Born(n.run))
    <3>1. n \in Elems(outbox[u]) BY <1>2, <2>2, <2>4, <2>5
    <3>2. n \in Message /\ n.run \in Runs BY <1>0, <3>1, OutboxType DEF Message
    <3>3. ASSUME n.type = "start", Born(n.run) PROVE FALSE
      <4>1. n.run = r
        <5>1. m.type = "start" BY <1>9, <3>2, <3>3 DEF NoneBorn
        <5>2. ASSUME n.run # r PROVE FALSE
          BY <1>9, <3>2, <3>3, <5>1, <5>2 DEF Same, Born
        <5>. QED BY <5>2
      <4>2. u = t BY <1>0, <1>4, <3>1, <4>1 DEF Sent, SentTo
      <4>3. Before(outbox[t], m, n) BY <1>2, <2>2, <2>4, <2>5, <4>2
      <4>4. r < n.run BY <1>0, <1>2, <3>2, <3>3, <4>3 DEF Sent
      <4>. QED BY <1>3, <1>11, <4>1, <4>4
    <3>. QED BY <3>1, <3>3
  <2>6. ASSUME NEW u \in Tabs, NEW a \in Message, NEW b \in Message, Before(outbox'[u], a, b)
        PROVE  Before(outbox[u], a, b)
    BY <1>2, <2>2, <2>4, <2>6
  <2>7. ASSUME NEW u \in Tabs, NEW n \in Elems(outbox[u]), n \notin Elems(outbox'[u])
        PROVE  /\ n.type = "start" => at'[n.run] # "unborn"
               /\ n.type = "cancel" => ~Wants(n.run)'
    <3>1. u = t /\ n = m BY <1>2, <2>2, <2>4, <2>7
    <3>2. n.type = "start" => at'[n.run] # "unborn" BY <1>9, <3>1 DEF Born
    <3>3. ASSUME n.type = "cancel" PROVE ~Wants(n.run)'
      <4>1. at[r] # "unborn"
        <5>1. ASSUME at[r] = "unborn" PROVE FALSE
          <6> DEFINE s == Msg("start", r)
          <6>1. s \in Elems(outbox[t]) BY <1>0, <1>3, <1>4, <5>1 DEF Starting
          <6>2. s.type = "start" /\ s.run = r BY DEF Msg
          <6>3. s \in Message BY <1>0, <6>1, OutboxType
          <6> HIDE DEF s
          <6>4. s # m BY <3>1, <3>3, <6>2
          <6>5. Before(outbox[t], m, s) BY <1>2, <2>4, <6>1, <6>4
          <6>6. r < r BY <1>0, <1>2, <6>2, <6>3, <6>5 DEF Sent
          <6>. QED BY <1>3, <1>11, <6>6
        <5>. QED BY <5>1
      <4>2. at'[r] # "unborn" BY <1>0, <1>3, <1>8, <1>9, <4>1, MoveKeeps DEF CoreMoves
      <4>. QED BY <1>9, <3>1, <3>3, <4>2 DEF Wants
    <3>. QED BY <3>2, <3>3
  <2>8. ASSUME NEW x \in Runs, NEW y \in Runs, Born(y), x < y, Mates(x, y), at[x] = "unborn"
        PROVE  FALSE
    <3>1. m.type = "start" /\ y = r
      <4>1. m.type = "start" BY <1>9, <2>8 DEF NoneBorn
      <4>. QED BY <1>9, <2>8, <4>1 DEF Same, Born
    <3> DEFINE s == Msg("start", x)
    <3>2. s \in Elems(outbox[t]) BY <1>0, <1>4, <2>8, <3>1 DEF Starting, Mates
    <3>3. s.type = "start" /\ s.run = x BY DEF Msg
    <3>4. s \in Message BY <1>0, <3>2, OutboxType
    <3> HIDE DEF s
    <3>5. s # m
      <4>1. m.run = y /\ x # y BY <1>11, <2>8, <3>1
      <4>. QED BY <3>3, <4>1
    <3>6. Before(outbox[t], m, s) BY <1>2, <2>4, <3>2, <3>5
    <3>7. r < x BY <1>0, <1>2, <3>3, <3>4, <3>6 DEF Sent
    <3>8. \A a, b \in Runs : ~(a < b /\ b < a) BY RunsAreRequests
    <3>. QED BY <1>3, <2>8, <3>1, <3>7, <3>8
  <2>. QED BY <1>0, <2>3, <2>5, <2>6, <2>7, <2>8 DEF Receipts
<1>. QED BY <1>0, <1>7, <1>9, <1>10

LEMMA CoreStepDoes ==
  ASSUME CoreSide, NEW r \in Runs, CoreStep(r)
  PROVE  /\ CoreNext /\ CoreMoves /\ Receipts /\ Deliver
         /\ UNCHANGED <<generation, wanted, active, candidates, driver, outbox, left, drawn, reported>>
<1>1. /\ UNCHANGED <<generation, wanted, active, candidates, driver, outbox, left, drawn, reported>>
      /\ Internal(r) /\ Deliver
  BY DEF CoreStep
<1>2. CoreNext BY <1>1 DEF CoreNext
<1>3. CoreMoves /\ NoneBorn BY <1>1, InternalMoves DEF CoreSide
<1>4. Receipts BY <1>1, <1>3, NothingReceived
<1>. QED BY <1>1, <1>2, <1>3, <1>4

LEMMA CancelTabDoes ==
  ASSUME CoreSide, NEW t \in Tabs, ScanCancelTab(t)
  PROVE  /\ CoreNext /\ CoreMoves /\ NoneBorn
         /\ \A r \in Runs : driver[r].tab = t => (at'[r] \in {"queued", "parked"} => obj'[r].superseded)
<1>1. Inv /\ Owned BY DEF CoreSide
<1>2. CoreNext BY DEF CoreNext
<1>3. InMap(OfTab(t)) /\ CancelAll(OfTab(t)) BY <1>1, OfTabIsInMap DEF ScanCancelTab
<1>4. CoreMoves /\ NoneBorn BY <1>1, <1>3, CancelMoves
<1>5. ASSUME NEW r \in Runs, driver[r].tab = t
      PROVE  at'[r] \in {"queued", "parked"} => obj'[r].superseded
  <2>1. at[r] = "parked" \/ (at[r] = "queued" /\ ~obj[r].superseded) => r \in OfTab(t)
    BY <1>1, <1>5, WhoWantsIsMapped
  <2>. QED BY <1>1, <1>3, <2>1, CancelStops
<1>. QED BY <1>2, <1>4, <1>5

LEMMA WorkerCancelsDoes ==
  ASSUME CoreSide, NEW t \in Tabs, WorkerCancels(t)
  PROVE  /\ CoreNext /\ CoreMoves /\ Receipts /\ Deliver
         /\ UNCHANGED <<generation, wanted, active, candidates, driver, outbox, left, drawn, reported>>
<1>1. /\ UNCHANGED <<generation, wanted, active, candidates, driver, outbox, left, drawn, reported>>
      /\ ScanCancelTab(t) /\ Deliver
  BY DEF WorkerCancels
<1>2. CoreNext /\ CoreMoves /\ NoneBorn BY <1>1, CancelTabDoes
<1>3. Receipts BY <1>1, <1>2, NothingReceived
<1>. QED BY <1>1, <1>2, <1>3

\* The next document has loaded: what the last one sent has arrived, so that
\* no session of the tab starts any more.
LEMMA CompletedDoes ==
  ASSUME CoreSide, NEW t \in Tabs, Completed(t)
  PROVE  /\ CoreNext /\ CoreMoves /\ Receipts /\ Deliver
         /\ UNCHANGED <<generation, wanted, active, candidates, driver, outbox, drawn, reported>>
<1>1. /\ UNCHANGED <<generation, wanted, active, candidates, driver, outbox, drawn, reported>>
      /\ ScanCancelTab(t) /\ Deliver /\ left' = left \ {t} /\ outbox[t] = <<>>
  BY DEF Completed
<1>2. /\ CoreNext /\ CoreMoves /\ NoneBorn
      /\ \A r \in Runs : driver[r].tab = t => (at'[r] \in {"queued", "parked"} => obj'[r].superseded)
  BY <1>1, CancelTabDoes
<1>3. Inv' BY <1>2, CoreStepKeepsInv
<1>4. ASSUME NEW r \in Runs, Wants(r)', driver[r].tab = t PROVE FALSE
  <2>1. driver[r] # NULL /\ at'[r] = "unborn" BY <1>1, <1>2, <1>4 DEF Wants
  <2>2. at[r] = "unborn" BY <1>1, <1>2, <1>3, <2>1, MoveKeeps DEF CoreMoves
  <2>3. Msg("start", r) \in Elems(outbox[t]) BY <1>4, <2>1, <2>2 DEF CoreSide, Starting
  <2>. QED BY <1>1, <2>3, NoElems
<1>5. Receipts BY <1>1, <1>2, <1>4, NothingReceived
<1>. QED BY <1>1, <1>2, <1>5

-----------------------------------------------------------------------------
(***************************************************************************)
(* A step of a script keeps the first part of the invariant.               *)
(***************************************************************************)

\* The sessions stay what they are; an answer may be read.
Reads == at' = at /\ obj' = obj /\ \A x \in Runs : answer'[x] \in {answer[x], NULL}

\* A driver stays its session's.
Grown ==
  \A x \in Runs : driver[x] # NULL =>
    driver'[x] # NULL /\ driver'[x].tab = driver[x].tab /\ driver'[x].kind = driver[x].kind

\* What is sent is no start.
Sends ==
  /\ outbox' \in [Tabs -> Seq(Message)]
  /\ \A u \in Tabs :
       /\ \A m \in Elems(outbox[u]) : m \in Elems(outbox'[u])
       /\ \A m \in Elems(outbox'[u]) : m \in Elems(outbox[u]) \/ (m.type # "start" /\ SentTo(u, m)')
       /\ \A m, n \in Message :
            Before(outbox'[u], m, n) => Before(outbox[u], m, n) \/ n.type # "start"

PageTypes ==
  /\ wanted \in [Tabs -> BOOLEAN] /\ candidates \in [Tabs -> BOOLEAN]
  /\ inbox \in [Tabs -> Seq(Runs)]
  /\ drawn \in [Tabs -> SUBSET Runs] /\ reported \in [Tabs -> SUBSET Runs]
DriverTypes ==
  /\ generation \in [Tabs -> Nat] /\ active \in [Tabs -> SUBSET Runs]
  /\ driver \in [Runs -> Driver \cup {NULL}] /\ left \subseteq Tabs

LEMMA Types ==
  /\ CoreSide => PageTypes /\ DriverTypes /\ outbox \in [Tabs -> Seq(Message)]
  /\ Inv' /\ PageTypes' /\ DriverTypes' /\ outbox' \in [Tabs -> Seq(Message)] => ClientTypeOK'
BY DEF CoreSide, ClientTypeOK, PageTypes, DriverTypes, Inv

LEMMA ReadsKeeps ==
  ASSUME CoreSide, Inv', Reads, Grown,
         \A x \in Runs : driver'[x] # NULL /\ driver'[x].at = "answering" => at[x] \in {"parked", "over"}
  PROVE  Owned' /\ Said'
<1>1. Owned /\ Said BY DEF CoreSide
<1>2. \A x \in Runs : obj[x] # NULL => at[x] # "unborn" BY DEF CoreSide, Inv, TypeOK
<1>3. \A a \in Answers : a # NULL BY RunsAreRequests
<1>4. Owned' BY <1>1, <1>2 DEF Owned, OwnSession, Reads, Grown
<1>5. ASSUME NEW x \in Runs, answer'[x] # NULL
      PROVE  answer'[x] = answer[x] /\ driver'[x].kind = driver[x].kind
    BY <1>1, <1>5 DEF Reads, Grown, Owned
<1>6. ASSUME NEW x \in Runs PROVE
         /\ answer'[x] \in {"error", "done"} => at'[x] = "over"
         /\ answer'[x] = "superseded" => at'[x] = "over" \/ (at'[x] = "queued" /\ obj'[x].superseded)
         /\ answer'[x] \in {"ask", "findings", "visual"} => at'[x] \in {"parked", "over"}
         /\ answer'[x] = "findings" /\ at'[x] = "parked" => obj'[x].stage = "findings"
         /\ answer'[x] = "visual" /\ at'[x] = "parked" => obj'[x].stage = "visual"
         /\ answer'[x] \in {"findings", "visual"} => driver'[x].kind = "scan"
         /\ driver'[x] # NULL /\ driver'[x].at = "answering" => at'[x] \in {"parked", "over"}
  <2>1. CASE answer'[x] # NULL BY <1>1, <1>5, <2>1 DEF Said, Reads
  <2>2. CASE answer'[x] = NULL BY <1>3, <2>2 DEF Answers, Reads
  <2>. QED BY <2>1, <2>2
<1>7. Said' BY <1>6 DEF Said
<1>. QED BY <1>4, <1>7

LEMMA ScriptKeeps ==
  ASSUME CoreSide, Inv', Reads, Grown, Sends, PageTypes', DriverTypes',
         \A x \in Runs : driver'[x] # NULL =>
           driver[x] # NULL /\ (driver'[x].at = "answering" => at[x] \in {"parked", "over"}),
         Actives', Attends'
  PROVE  CoreSide'
<1>1. ClientTypeOK' BY Types DEF Sends
<1>2. Numbered' BY DEF CoreSide, Numbered, Grown
<1>3. Owned' /\ Said' BY ReadsKeeps
<1>4. Sent'
  <2>1. ASSUME NEW t \in Tabs, NEW m \in Elems(outbox'[t]) PROVE SentTo(t, m)'
    <3>1. CASE m \in Elems(outbox[t])
      <4>1. SentTo(t, m) BY <3>1 DEF CoreSide, Sent
      <4>2. m.run \in Runs BY <3>1, OutboxType DEF CoreSide, Message
      <4>. QED BY <4>1, <4>2 DEF SentTo, Grown, Reads
    <3>2. CASE m \notin Elems(outbox[t]) BY <2>1, <3>2 DEF Sends
    <3>. QED BY <3>1, <3>2
  <2>2. ASSUME NEW t \in Tabs, NEW m \in Message, NEW n \in Message,
               Before(outbox'[t], m, n), n.type = "start"
        PROVE  m.run < n.run
    BY <2>2 DEF Sends, CoreSide, Sent
  <2>. QED BY <2>1, <2>2 DEF Sent
<1>5. Starting'
  <2> SUFFICES ASSUME NEW r \in Runs, driver'[r] # NULL, at'[r] = "unborn"
               PROVE  Msg("start", r) \in Elems(outbox'[driver'[r].tab])
    BY DEF Starting
  <2>1. driver[r] # NULL /\ at[r] = "unborn" /\ driver'[r].tab = driver[r].tab BY DEF Grown, Reads
  <2>2. driver[r].tab \in Tabs BY <2>1 DEF CoreSide, ClientTypeOK, Driver
  <2>3. Msg("start", r) \in Elems(outbox[driver[r].tab]) BY <2>1 DEF CoreSide, Starting
  <2>. QED BY <2>1, <2>2, <2>3 DEF Sends
<1>. QED BY <1>1, <1>2, <1>3, <1>4, <1>5 DEF CoreSide

\* What the scripts send.
LEMMA SendsNothing == ASSUME CoreSide, UNCHANGED outbox PROVE Sends
BY DEF CoreSide, ClientTypeOK, Sends

LEMMA SendsContinue ==
  ASSUME CoreSide, Reads, Grown, NEW r \in Runs, driver[r] # NULL, at[r] \in {"parked", "over"},
         outbox' = [outbox EXCEPT ![driver[r].tab] = Append(@, Msg("continue", r))]
  PROVE  Sends
<1> DEFINE t == driver[r].tab
           m == Msg("continue", r)
<1>1. t \in Tabs BY DEF CoreSide, ClientTypeOK, Driver
<1>2. m \in Message /\ m.type = "continue" /\ m.run = r BY DEF Msg, Message
<1>3. outbox' = [outbox EXCEPT ![t] = Append(outbox[t], m)] OBVIOUS
<1>4. driver'[r] # NULL /\ driver'[r].tab = t /\ at'[r] \in {"parked", "over"} BY DEF Grown, Reads
<1> HIDE DEF t, m
<1>5. outbox \in [Tabs -> Seq(Message)] BY DEF CoreSide, ClientTypeOK
<1>6. /\ Append(outbox[t], m) \in Seq(Message)
      /\ Elems(Append(outbox[t], m)) = Elems(outbox[t]) \cup {m}
      /\ \A a, b : Before(Append(outbox[t], m), a, b) => Before(outbox[t], a, b) \/ (a \in Elems(outbox[t]) /\ b = m)
  BY <1>1, <1>2, <1>5, AppendElems
<1>7. outbox'[t] = Append(outbox[t], m) /\ \A u \in Tabs : u # t => outbox'[u] = outbox[u]
  BY <1>1, <1>3, <1>5
<1>8. outbox' \in [Tabs -> Seq(Message)] BY <1>3, <1>5, <1>6
<1>9. \A u \in Tabs : \A n \in Elems(outbox[u]) : n \in Elems(outbox'[u]) BY <1>6, <1>7
<1>10. ASSUME NEW u \in Tabs, NEW n \in Elems(outbox'[u]), n \notin Elems(outbox[u])
       PROVE  n.type # "start" /\ SentTo(u, n)'
  <2>1. u = t /\ n = m BY <1>6, <1>7, <1>10
  <2>. QED BY <1>2, <1>4, <2>1 DEF SentTo
<1>11. ASSUME NEW u \in Tabs, NEW a \in Message, NEW b \in Message, Before(outbox'[u], a, b)
       PROVE  Before(outbox[u], a, b) \/ b.type # "start"
  BY <1>2, <1>6, <1>7, <1>11
<1>. QED BY <1>8, <1>9, <1>10, <1>11 DEF Sends

LEMMA CancelsAre ==
  ASSUME CoreSide, NEW t \in Tabs
  PROVE  /\ Cancels(t) \in Seq(Message)
         /\ Elems(Cancels(t)) = {Msg("cancel", x) : x \in active[t]}
<1> DEFINE ids == InOrder(active[t])
           c == [i \in DOMAIN ids |-> Msg("cancel", ids[i])]
<1>1. active[t] \in SUBSET Runs BY DEF CoreSide, ClientTypeOK
<1>2. ids \in Seq(Runs) /\ Elems(ids) = active[t] BY <1>1, InOrderIs
<1>3. c = Cancels(t) BY DEF Cancels
<1> HIDE DEF ids
<1>4. DOMAIN ids = 1 .. Len(ids) /\ Len(ids) \in Nat /\ \A i \in DOMAIN ids : ids[i] \in Runs BY <1>2
<1>5. \A x \in Runs : Msg("cancel", x) \in Message BY DEF Msg, Message
<1>6. c \in Seq(Message) BY <1>4, <1>5
<1>7. Elems(c) = {Msg("cancel", ids[i]) : i \in DOMAIN ids} BY DEF Elems
<1>8. {Msg("cancel", ids[i]) : i \in DOMAIN ids} = {Msg("cancel", x) : x \in Elems(ids)} BY DEF Elems
<1>. QED BY <1>2, <1>3, <1>6, <1>7, <1>8

LEMMA SendsCancels ==
  ASSUME CoreSide, Reads, UNCHANGED driver, NEW t \in Tabs, CancelScans(t)
  PROVE  Sends /\ \A x \in active[t] : Msg("cancel", x) \in Elems(outbox'[t])
<1> DEFINE c == Cancels(t)
<1>1. c \in Seq(Message) /\ Elems(c) = {Msg("cancel", x) : x \in active[t]} BY CancelsAre
<1>2. outbox' = [outbox EXCEPT ![t] = outbox[t] \o c] BY DEF CancelScans
<1> HIDE DEF c
<1>3. \A m \in Elems(c) : m.type = "cancel" /\ m.run \in active[t] BY <1>1 DEF Msg
<1>4. outbox \in [Tabs -> Seq(Message)] /\ active[t] \subseteq Runs BY DEF CoreSide, ClientTypeOK
<1>5. /\ outbox[t] \o c \in Seq(Message) /\ Elems(outbox[t] \o c) = Elems(outbox[t]) \cup Elems(c)
      /\ \A a, b : Before(outbox[t] \o c, a, b) =>
           Before(outbox[t], a, b) \/ (a \in Elems(outbox[t]) /\ b \in Elems(c)) \/ Before(c, a, b)
  BY <1>1, <1>4, JoinElems
<1>6. \A a, b : Before(c, a, b) => b \in Elems(c) BY DEF Before, Elems
<1>7. \A m \in Elems(c) : SentTo(t, m)'
  <2>1. \A x \in active[t] : driver[x] # NULL /\ driver[x].tab = t BY <1>4 DEF CoreSide, Actives
  <2>. QED BY <1>3, <2>1 DEF SentTo, Reads
<1>8. outbox'[t] = outbox[t] \o c /\ \A u \in Tabs : u # t => outbox'[u] = outbox[u]
  BY <1>2, <1>4
<1>9. outbox' \in [Tabs -> Seq(Message)] BY <1>2, <1>4, <1>5
<1>10. Sends BY <1>3, <1>5, <1>6, <1>7, <1>8, <1>9 DEF Sends
<1>. QED BY <1>1, <1>5, <1>8, <1>10

\* What becomes of a driver.
LEMMA DriverIs ==
  ASSUME CoreSide, NEW r \in Runs, driver[r] # NULL
  PROVE  driver[r] \in Driver /\ driver[r].tab \in Tabs
BY DEF CoreSide, ClientTypeOK, Driver

LEMMA StopIs ==
  ASSUME CoreSide, NEW r \in Runs, Live(r), NEW where \in {"over", "failed"}, Stop(r, where)
  PROVE  /\ driver' \in [Runs -> Driver \cup {NULL}] /\ active' \in [Tabs -> SUBSET Runs]
         /\ driver'[r] \in Driver /\ driver'[r].tab = driver[r].tab /\ driver'[r].kind = driver[r].kind
         /\ driver'[r].at = where /\ driver'[r].generation = 0
         /\ \A x \in Runs : x # r => driver'[x] = driver[x]
         /\ \A t \in Tabs, x \in Runs : x \in active'[t] <=> x \in active[t] /\ ~(t = driver[r].tab /\ x = r)
         /\ outbox' = outbox
<1> DEFINE d == driver[r]
           e == [d EXCEPT !.at = where, !.base = {}, !.generation = 0]
<1>1. d \in Driver /\ d.tab \in Tabs BY DriverIs DEF Live
<1>2. driver \in [Runs -> Driver \cup {NULL}] /\ active \in [Tabs -> SUBSET Runs]
  BY DEF CoreSide, ClientTypeOK
<1>3. /\ e \in Driver /\ e.tab = d.tab /\ e.kind = d.kind /\ e.at = where /\ e.generation = 0
  BY <1>1 DEF Driver
<1>4. driver' = [driver EXCEPT ![r] = e] BY DEF Stop
<1>5. active' = [active EXCEPT ![driver[r].tab] = active[driver[r].tab] \ {r}] /\ outbox' = outbox BY DEF Stop
<1> HIDE DEF d, e
<1>6. driver' \in [Runs -> Driver \cup {NULL}] /\ driver'[r] = e /\ \A x \in Runs : x # r => driver'[x] = driver[x]
  BY <1>2, <1>3, <1>4
<1>7. active' \in [Tabs -> SUBSET Runs] BY <1>2, <1>5
<1>8. \A t \in Tabs, x \in Runs : x \in active'[t] <=> x \in active[t] /\ ~(t = driver[r].tab /\ x = r)
  BY <1>2, <1>5
<1>. QED BY <1>3, <1>5, <1>6, <1>7, <1>8 DEF d

LEMMA DriverStopsKeeps ==
  ASSUME CoreSide, Inv', Reads, PageTypes', UNCHANGED <<generation, left>>,
         NEW r \in Runs, Live(r), NEW where \in {"over", "failed"}, Stop(r, where),
         Wants(r) /\ On(r) => where = "failed"
  PROVE  CoreSide'
<1>1. /\ driver' \in [Runs -> Driver \cup {NULL}] /\ active' \in [Tabs -> SUBSET Runs]
      /\ driver'[r] \in Driver /\ driver'[r].tab = driver[r].tab /\ driver'[r].kind = driver[r].kind
      /\ driver'[r].at = where /\ driver'[r].generation = 0
      /\ \A x \in Runs : x # r => driver'[x] = driver[x]
      /\ \A t \in Tabs, x \in Runs : x \in active'[t] <=> x \in active[t] /\ ~(t = driver[r].tab /\ x = r)
      /\ outbox' = outbox
  BY StopIs
<1>2. driver[r] # NULL /\ driver[r] \in Driver /\ driver[r].tab \in Tabs /\ driver'[r] # NULL
  BY <1>1, DriverIs, RunsAreRequests DEF Live
<1>3. Grown BY <1>1, <1>2 DEF Grown
<1>4. Sends BY <1>1, SendsNothing
<1>5. generation \in [Tabs -> Nat] /\ left \subseteq Tabs BY DEF CoreSide, ClientTypeOK
<1>6. DriverTypes' BY <1>1, <1>5 DEF DriverTypes
<1>7. \A x \in Runs : x # r => /\ Live(x)' = Live(x) /\ Current(x)' = Current(x) /\ On(x)' = On(x)
                               /\ Failed(x)' = Failed(x)
  BY <1>1 DEF Live, Current, On, Failed
<1>8. ~Live(r)' /\ ~On(r)' BY <1>1 DEF Live, On
<1>9. \A x \in Runs : driver'[x] # NULL =>
        driver[x] # NULL /\ (driver'[x].at = "answering" => at[x] \in {"parked", "over"})
  <2>1. \A x \in Runs : driver[x] # NULL /\ driver[x].at = "answering" => at[x] \in {"parked", "over"}
    BY DEF CoreSide, Said
  <2>. QED BY <1>1, <1>2, <2>1
<1>10. Actives'
  <2>1. \A x \in Runs : driver'[x] # NULL => driver'[x].generation <= generation'[driver'[x].tab]
    <3>1. 0 <= generation[driver[r].tab] BY <1>2, <1>5
    <3>. QED BY <1>1, <3>1 DEF CoreSide, Actives
  <2>2. \A t \in Tabs, x \in Runs :
          x \in active'[t] <=> driver'[x] # NULL /\ driver'[x].tab = t /\ On(x)'
    <3>1. ASSUME NEW t \in Tabs, NEW x \in Runs, x # r
          PROVE  x \in active'[t] <=> driver'[x] # NULL /\ driver'[x].tab = t /\ On(x)'
      BY <1>1, <1>7, <3>1 DEF CoreSide, Actives
    <3>2. ASSUME NEW t \in Tabs PROVE r \notin active'[t]
      <4>1. r \in active[t] => driver[r].tab = t BY DEF CoreSide, Actives
      <4>. QED BY <1>1, <4>1
    <3>. QED BY <1>8, <3>1, <3>2
  <2>. QED BY <2>1, <2>2 DEF Actives
<1>11. Attends'
  <2> SUFFICES ASSUME NEW x \in Runs, Wants(x)' PROVE Attended(x)' BY DEF Attends
  <2>1. Wants(x)
    <3>1. driver'[x] # NULL => driver[x] # NULL BY <1>9
    <3>. QED BY <3>1 DEF Wants, Reads
  <2>2. Attended(x) BY <2>1 DEF CoreSide, Attends
  <2>3. CASE x # r BY <1>1, <1>7, <2>2, <2>3 DEF Attended
  <2>4. CASE x = r
    <3>1. CASE where = "failed" BY <1>1, <1>2, <2>4, <3>1 DEF Attended, Failed
    <3>2. CASE where = "over"
      <4>1. ~On(r) BY <2>1, <2>4, <3>2
      <4>2. driver[r].at # "gone" /\ ~Failed(r) BY DEF Live, Failed
      <4>. QED BY <1>1, <2>2, <2>4, <4>1, <4>2 DEF Attended
    <3>. QED BY <3>1, <3>2
  <2>. QED BY <2>3, <2>4
<1>. QED BY <1>3, <1>4, <1>6, <1>9, <1>10, <1>11, ScriptKeeps

\* The driver goes on, waiting or answering.
LEMMA DriverGoesKeeps ==
  ASSUME CoreSide, Inv', Reads, PageTypes', UNCHANGED <<generation, active, left>>, Sends,
         NEW r \in Runs, Live(r), NEW where \in {"waiting", "answering"},
         driver' = [driver EXCEPT ![r].at = where],
         where = "answering" => at[r] \in {"parked", "over"}
  PROVE  CoreSide'
<1> DEFINE e == [driver[r] EXCEPT !.at = where]
<1>1. driver[r] # NULL /\ driver[r] \in Driver /\ driver[r].tab \in Tabs BY DriverIs DEF Live
<1>2. /\ e \in Driver /\ e.tab = driver[r].tab /\ e.kind = driver[r].kind /\ e.at = where
      /\ e.generation = driver[r].generation
  BY <1>1 DEF Driver
<1>3. driver \in [Runs -> Driver \cup {NULL}] BY DEF CoreSide, ClientTypeOK
<1>4. driver' = [driver EXCEPT ![r] = e] OBVIOUS
<1> HIDE DEF e
<1>5. driver' \in [Runs -> Driver \cup {NULL}] /\ driver'[r] = e /\ \A x \in Runs : x # r => driver'[x] = driver[x]
  BY <1>2, <1>3, <1>4
<1>6. Grown BY <1>1, <1>2, <1>5, RunsAreRequests DEF Grown
<1>7. generation \in [Tabs -> Nat] /\ active \in [Tabs -> SUBSET Runs] /\ left \subseteq Tabs
  BY DEF CoreSide, ClientTypeOK
<1>8. DriverTypes' BY <1>5, <1>7 DEF DriverTypes
<1>9. \A x \in Runs : driver'[x] # NULL =>
        driver[x] # NULL /\ (driver'[x].at = "answering" => at[x] \in {"parked", "over"})
  <2>1. \A x \in Runs : driver[x] # NULL /\ driver[x].at = "answering" => at[x] \in {"parked", "over"}
    BY DEF CoreSide, Said
  <2>. QED BY <1>1, <1>2, <1>5, <2>1
<1>10. \A x \in Runs : /\ (driver'[x] # NULL) = (driver[x] # NULL)
                       /\ driver[x] # NULL => driver'[x].tab = driver[x].tab /\ driver'[x].generation = driver[x].generation
  BY <1>1, <1>2, <1>5, RunsAreRequests
<1>11. \A x \in Runs : /\ Live(x)' = Live(x) /\ (driver[x] # NULL => Current(x)' = Current(x))
                       /\ Failed(x)' = Failed(x)
  <2>1. Live(r)' /\ ~Failed(r) /\ ~Failed(r)' /\ driver[r].at # "gone"
    BY <1>1, <1>2, <1>5, RunsAreRequests DEF Live, Failed
  <2>. QED BY <1>2, <1>5, <2>1 DEF Live, Current, Failed
<1>12. \A x \in Runs : On(x)' = On(x) BY <1>11 DEF On, Live
<1>13. Actives' BY <1>10, <1>12 DEF CoreSide, Actives
<1>14. Attends'
  <2> SUFFICES ASSUME NEW x \in Runs, Wants(x)' PROVE Attended(x)' BY DEF Attends
  <2>1. Wants(x) BY <1>10 DEF Wants, Reads
  <2>2. Attended(x) /\ driver[x] # NULL BY <2>1 DEF CoreSide, Attends, Owned, Wants
  <2>3. driver[x].tab \in Tabs /\ driver'[x].tab = driver[x].tab BY <1>10, <2>2, DriverIs
  <2>4. driver[x].at = "gone" => driver'[x].at = "gone"
    <3>1. x = r => driver[x].at # "gone" BY DEF Live
    <3>. QED BY <1>5, <3>1
  <2>. QED BY <1>11, <1>12, <2>2, <2>3, <2>4 DEF Attended, Sends
<1>. QED BY <1>6, <1>8, <1>9, <1>13, <1>14, ScriptKeeps

\* What a script does to the core: nothing, or it reads an answer.
LEMMA ScriptReads ==
  ASSUME CoreSide, UNCHANGED coreVars \/ \E r \in Runs : Read(r)
  PROVE  Inv' /\ Reads
<1>1. CASE UNCHANGED coreVars
  <2>1. Inv' BY <1>1, CoreStepKeepsInv
  <2>. QED BY <1>1, <2>1 DEF coreVars, Reads
<1>2. CASE \E r \in Runs : Read(r)
  <2>1. PICK r \in Runs : Read(r) BY <1>2
  <2>2. CoreNext BY <2>1, RunsAreRequests DEF CoreNext
  <2>3. answer \in [Requests -> Answers \cup {NULL}] BY DEF CoreSide, Inv, TypeOK
  <2>4. \A x \in Runs : answer'[x] \in {answer[x], NULL} BY <2>1, <2>3, RunsAreRequests DEF Read
  <2>. QED BY <2>1, <2>2, <2>4, CoreStepKeepsInv DEF Read, Reads
<1>. QED BY <1>1, <1>2

\* A new generation: the drivers of the old one are over as far as the page
\* is concerned, and their sessions are cancelled.
LEMMA GenerationKeeps ==
  ASSUME CoreSide, UNCHANGED <<coreVars, driver, left>>, PageTypes',
         NEW t \in Tabs, NextGeneration(t), CancelScans(t)
  PROVE  CoreSide'
<1>1. Inv' /\ Reads BY ScriptReads DEF coreVars
<1>2. Sends /\ \A x \in active[t] : Msg("cancel", x) \in Elems(outbox'[t]) BY <1>1, SendsCancels
<1>3. /\ generation \in [Tabs -> Nat] /\ active \in [Tabs -> SUBSET Runs] /\ left \subseteq Tabs
      /\ driver \in [Runs -> Driver \cup {NULL}]
  BY DEF CoreSide, ClientTypeOK
<1>4. /\ generation' \in [Tabs -> Nat] /\ generation'[t] = generation[t] + 1
      /\ \A u \in Tabs : u # t => generation'[u] = generation[u]
  BY <1>3 DEF NextGeneration
<1>5. /\ active' \in [Tabs -> SUBSET Runs] /\ active'[t] = {}
      /\ \A u \in Tabs : u # t => active'[u] = active[u]
  BY <1>3 DEF CancelScans
<1>6. DriverTypes' BY <1>3, <1>4, <1>5 DEF DriverTypes
<1>7. Grown BY DEF Grown
<1>8. \A x \in Runs : driver'[x] # NULL =>
        driver[x] # NULL /\ (driver'[x].at = "answering" => at[x] \in {"parked", "over"})
  BY DEF CoreSide, Said
<1>9. \A x \in Runs : Live(x)' = Live(x) /\ Failed(x)' = Failed(x) BY DEF Live, Failed
<1>10. \A x \in Runs : driver[x] # NULL =>
         /\ driver[x] \in Driver /\ driver[x].tab \in Tabs /\ driver[x].generation \in Nat
         /\ driver[x].generation <= generation[driver[x].tab]
  <2>1. \A x \in Runs : driver[x] # NULL => driver[x].generation <= generation[driver[x].tab]
    BY DEF CoreSide, Actives
  <2>. QED BY <2>1, DriverIs DEF Driver
<1>11. \A x \in Runs : driver[x] # NULL /\ driver[x].tab = t => ~Current(x)'
  <2>1. ASSUME NEW x \in Runs, driver[x] # NULL, driver[x].tab = t PROVE ~Current(x)'
    <3>1. driver[x].generation \in Nat /\ generation[t] \in Nat /\ driver[x].generation <= generation[t]
      BY <1>3, <1>10, <2>1
    <3>2. driver[x].generation # generation[t] + 1 BY <3>1
    <3>. QED BY <1>4, <2>1, <3>2 DEF Current
  <2>. QED BY <2>1
<1>12. \A x \in Runs : driver[x] # NULL /\ driver[x].tab # t => Current(x)' = Current(x)
  BY <1>4, <1>10 DEF Current
<1>13. Actives'
  <2>1. \A x \in Runs : driver'[x] # NULL => driver'[x].generation <= generation'[driver'[x].tab]
    <3>1. ASSUME NEW x \in Runs, driver[x] # NULL PROVE driver[x].generation <= generation'[driver[x].tab]
      <4>1. CASE driver[x].tab = t BY <1>3, <1>4, <1>10, <3>1, <4>1
      <4>2. CASE driver[x].tab # t BY <1>4, <1>10, <3>1, <4>2
      <4>. QED BY <4>1, <4>2
    <3>. QED BY <3>1
  <2>2. ASSUME NEW u \in Tabs, NEW x \in Runs
        PROVE  x \in active'[u] <=> driver'[x] # NULL /\ driver'[x].tab = u /\ On(x)'
    <3>1. CASE u = t BY <1>5, <1>11, <3>1 DEF On
    <3>2. CASE u # t
      <4>1. x \in active[u] <=> driver[x] # NULL /\ driver[x].tab = u /\ On(x) BY DEF CoreSide, Actives
      <4>. QED BY <1>5, <1>9, <1>12, <3>2, <4>1 DEF On
    <3>. QED BY <3>1, <3>2
  <2>. QED BY <2>1, <2>2 DEF Actives
<1>14. Attends'
  <2> SUFFICES ASSUME NEW x \in Runs, Wants(x)' PROVE Attended(x)' BY DEF Attends
  <2>1. Wants(x) BY <1>1 DEF Wants, Reads
  <2>2. Attended(x) /\ driver[x] # NULL BY <2>1 DEF CoreSide, Attends, Owned, Wants
  <2>3. CASE On(x) /\ driver[x].tab = t
    <3>1. x \in active[t] BY <2>2, <2>3 DEF CoreSide, Actives
    <3>. QED BY <1>2, <2>3, <3>1 DEF Attended
  <2>4. CASE On(x) /\ driver[x].tab # t BY <1>9, <1>12, <2>2, <2>4 DEF Attended, On
  <2>5. CASE ~On(x)
    <3>1. driver[x].tab \in Tabs BY <1>10, <2>2
    <3>. QED BY <1>2, <1>9, <2>2, <2>5, <3>1 DEF Attended, Sends
  <2>. QED BY <2>3, <2>4, <2>5
<1>. QED BY <1>1, <1>2, <1>6, <1>7, <1>8, <1>13, <1>14, ScriptKeeps

\* The document is gone, and the worker is to cancel its sessions when the
\* next one has loaded.
LEMMA NavigateIs ==
  ASSUME CoreSide, NEW t \in Tabs, Navigate(t)
  PROVE  /\ driver' \in [Runs -> Driver \cup {NULL}]
         /\ \A x \in Runs : (driver'[x] # NULL) = (driver[x] # NULL)
         /\ \A x \in Runs : driver[x] # NULL =>
              driver'[x].tab = driver[x].tab /\ driver'[x].kind = driver[x].kind
         /\ \A x \in Runs : ~(Live(x) /\ driver[x].tab = t) => driver'[x] = driver[x]
         /\ \A x \in Runs : Live(x) /\ driver[x].tab = t => driver'[x].at = "gone" /\ driver'[x].generation = 0
         /\ active' \in [Tabs -> SUBSET Runs] /\ active'[t] = {}
         /\ \A u \in Tabs : u # t => active'[u] = active[u]
         /\ left' = left \cup {t} /\ UNCHANGED <<coreVars, generation, outbox>>
         /\ PageTypes'
<1> DEFINE e(x) == [driver[x] EXCEPT !.at = "gone", !.base = {}, !.generation = 0]
<1>1. ASSUME NEW x \in Runs, Live(x)
      PROVE  /\ e(x) \in Driver /\ e(x) # NULL /\ e(x).tab = driver[x].tab /\ e(x).kind = driver[x].kind
             /\ e(x).at = "gone" /\ e(x).generation = 0
  <2>1. driver[x] \in Driver BY <1>1, DriverIs DEF Live
  <2>2. e(x) \in Driver BY <2>1 DEF Driver
  <2>3. /\ e(x).tab = driver[x].tab /\ e(x).kind = driver[x].kind
        /\ e(x).at = "gone" /\ e(x).generation = 0
    BY <2>1 DEF Driver
  <2>4. e(x) # NULL BY <2>2, RunsAreRequests
  <2>. QED BY <2>2, <2>3, <2>4
<1>2. driver' = [x \in Runs |-> IF driver[x] # NULL /\ driver[x].tab = t /\ Live(x) THEN e(x) ELSE driver[x]]
  BY DEF Navigate
<1> HIDE DEF e
<1>3. \A x \in Runs : driver'[x] = IF driver[x] # NULL /\ driver[x].tab = t /\ Live(x) THEN e(x) ELSE driver[x]
  BY <1>2
<1>4. driver \in [Runs -> Driver \cup {NULL}] /\ PageTypes /\ active \in [Tabs -> SUBSET Runs]
  BY Types DEF CoreSide, ClientTypeOK
<1>5. driver' \in [Runs -> Driver \cup {NULL}] BY <1>1, <1>2, <1>4
<1>6. \A x \in Runs : Live(x) => driver[x] # NULL BY DEF Live
<1>7. PageTypes'
  <2>1. <<>> \in Seq(Runs) OBVIOUS
  <2>. QED BY <1>4, <2>1 DEF Navigate, Show, PageTypes
<1>8. active' \in [Tabs -> SUBSET Runs] /\ active'[t] = {} /\ \A u \in Tabs : u # t => active'[u] = active[u]
  BY <1>4 DEF Navigate
<1>9. left' = left \cup {t} /\ UNCHANGED <<coreVars, generation, outbox>> BY DEF Navigate
<1>10. \A x \in Runs : (driver'[x] # NULL) = (driver[x] # NULL) BY <1>1, <1>3, <1>6
<1>11. \A x \in Runs : driver[x] # NULL =>
         driver'[x].tab = driver[x].tab /\ driver'[x].kind = driver[x].kind
  BY <1>1, <1>3
<1>12. \A x \in Runs : ~(Live(x) /\ driver[x].tab = t) => driver'[x] = driver[x] BY <1>3
<1>13. \A x \in Runs : Live(x) /\ driver[x].tab = t => driver'[x].at = "gone" /\ driver'[x].generation = 0
  BY <1>1, <1>3, <1>6
<1>. QED BY <1>5, <1>7, <1>8, <1>9, <1>10, <1>11, <1>12, <1>13

LEMMA NavigateKeeps ==
  ASSUME CoreSide, NEW t \in Tabs, Navigate(t)
  PROVE  CoreSide'
<1>1. /\ driver' \in [Runs -> Driver \cup {NULL}]
      /\ \A x \in Runs : (driver'[x] # NULL) = (driver[x] # NULL)
      /\ \A x \in Runs : driver[x] # NULL =>
           driver'[x].tab = driver[x].tab /\ driver'[x].kind = driver[x].kind
      /\ \A x \in Runs : ~(Live(x) /\ driver[x].tab = t) => driver'[x] = driver[x]
      /\ \A x \in Runs : Live(x) /\ driver[x].tab = t => driver'[x].at = "gone" /\ driver'[x].generation = 0
      /\ active' \in [Tabs -> SUBSET Runs] /\ active'[t] = {}
      /\ \A u \in Tabs : u # t => active'[u] = active[u]
      /\ left' = left \cup {t} /\ UNCHANGED <<coreVars, generation, outbox>>
      /\ PageTypes'
  BY NavigateIs
<1>2. Inv' /\ Reads BY <1>1, ScriptReads
<1>3. Sends BY <1>1, SendsNothing
<1>4. Grown BY <1>1 DEF Grown
<1>5. generation \in [Tabs -> Nat] /\ left \subseteq Tabs BY DEF CoreSide, ClientTypeOK
<1>6. DriverTypes' BY <1>1, <1>5 DEF DriverTypes
<1>7. \A x \in Runs : ~(Live(x) /\ driver[x].tab = t) =>
        Live(x)' = Live(x) /\ Current(x)' = Current(x) /\ On(x)' = On(x) /\ Failed(x)' = Failed(x)
  BY <1>1 DEF Live, Current, On, Failed
<1>8. \A x \in Runs : Live(x) /\ driver[x].tab = t => ~Live(x)' /\ ~On(x)'
  BY <1>1 DEF Live, On
<1>9. \A x \in Runs : driver'[x] # NULL =>
        driver[x] # NULL /\ (driver'[x].at = "answering" => at[x] \in {"parked", "over"})
  <2>1. \A x \in Runs : driver[x] # NULL /\ driver[x].at = "answering" => at[x] \in {"parked", "over"}
    BY DEF CoreSide, Said
  <2>. QED BY <1>1, <2>1
<1>10. Actives'
  <2>1. ASSUME NEW x \in Runs, driver'[x] # NULL PROVE driver'[x].generation <= generation'[driver'[x].tab]
    <3>1. driver[x] # NULL /\ driver[x].tab \in Tabs BY <1>1, <2>1, DriverIs
    <3>2. driver[x].generation <= generation[driver[x].tab] BY <3>1 DEF CoreSide, Actives
    <3>3. 0 <= generation[driver[x].tab] BY <1>5, <3>1
    <3>4. driver'[x].tab = driver[x].tab /\ generation' = generation BY <1>1, <3>1
    <3>5. CASE Live(x) /\ driver[x].tab = t
      <4>1. driver'[x].generation = 0 BY <1>1, <3>5
      <4>. QED BY <3>3, <3>4, <4>1
    <3>6. CASE ~(Live(x) /\ driver[x].tab = t)
      <4>1. driver'[x] = driver[x] BY <1>1, <3>6
      <4>. QED BY <3>2, <3>4, <4>1
    <3>. QED BY <3>5, <3>6
  <2>2. ASSUME NEW u \in Tabs, NEW x \in Runs
        PROVE  x \in active'[u] <=> driver'[x] # NULL /\ driver'[x].tab = u /\ On(x)'
    <3>1. CASE u = t BY <1>1, <1>7, <1>8, <3>1 DEF On
    <3>2. CASE u # t
      <4>1. x \in active[u] <=> driver[x] # NULL /\ driver[x].tab = u /\ On(x) BY DEF CoreSide, Actives
      <4>. QED BY <1>1, <1>7, <1>8, <3>2, <4>1
    <3>. QED BY <3>1, <3>2
  <2>. QED BY <2>1, <2>2 DEF Actives
<1>11. Attends'
  <2> SUFFICES ASSUME NEW x \in Runs, Wants(x)' PROVE Attended(x)' BY DEF Attends
  <2>1. Wants(x) BY <1>1, <1>2 DEF Wants, Reads
  <2>2. Attended(x) /\ driver[x] # NULL BY <2>1 DEF CoreSide, Attends, Owned, Wants
  <2>3. CASE Live(x) /\ driver[x].tab = t BY <1>1, <2>2, <2>3 DEF Attended
  <2>4. CASE ~(Live(x) /\ driver[x].tab = t) BY <1>1, <1>7, <2>2, <2>4 DEF Attended
  <2>. QED BY <2>3, <2>4
<1>. QED BY <1>1, <1>2, <1>3, <1>4, <1>6, <1>9, <1>10, <1>11, ScriptKeeps

\* A driver starts.
LEMMA DriveIs ==
  ASSUME CoreSide, NEW t \in Tabs, NEW r \in Runs, NEW kind \in Kinds, Drive(t, r, kind)
  PROVE  /\ driver[r] = NULL /\ \A x \in Runs : x < r => driver[x] # NULL
         /\ \A x \in Runs : driver[x] # NULL /\ x # r => x < r
         /\ driver' \in [Runs -> Driver \cup {NULL}] /\ driver'[r] # NULL
         /\ driver'[r].tab = t /\ driver'[r].kind = kind /\ driver'[r].at = "waiting"
         /\ driver'[r].generation = generation[t] /\ driver'[r].base = drawn[t]
         /\ \A x \in Runs : x # r => driver'[x] = driver[x]
         /\ active' \in [Tabs -> SUBSET Runs] /\ active'[t] = active[t] \cup {r}
         /\ \A u \in Tabs : u # t => active'[u] = active[u]
         /\ outbox' = [outbox EXCEPT ![t] = Append(outbox[t], Msg("start", r))]
<1> DEFINE e == [tab |-> t, kind |-> kind, generation |-> generation[t], at |-> "waiting", base |-> drawn[t]]
<1>1. /\ driver \in [Runs -> Driver \cup {NULL}] /\ active \in [Tabs -> SUBSET Runs]
      /\ generation \in [Tabs -> Nat] /\ drawn \in [Tabs -> SUBSET Runs]
  BY DEF CoreSide, ClientTypeOK
<1>2. e \in Driver BY <1>1 DEF Driver
<1>3. /\ e # NULL /\ e.tab = t /\ e.kind = kind /\ e.at = "waiting" /\ e.generation = generation[t]
      /\ e.base = drawn[t]
  BY <1>2, RunsAreRequests
<1>4. /\ driver[r] = NULL /\ (\A x \in 1 .. (r - 1) : driver[x] # NULL) /\ driver' = [driver EXCEPT ![r] = e]
      /\ active' = [active EXCEPT ![t] = active[t] \cup {r}]
      /\ outbox' = [outbox EXCEPT ![t] = Append(outbox[t], Msg("start", r))]
  BY DEF Drive
<1> HIDE DEF e
<1>5. \A x \in Runs : x < r => driver[x] # NULL
  <2>1. \A x \in Runs : x < r => x \in 1 .. (r - 1) BY RunsAssumption
  <2>. QED BY <1>4, <2>1
<1>6. \A x \in Runs : driver[x] # NULL /\ x # r => x < r
  <2>1. \A x \in Runs : r < x => driver[x] = NULL BY <1>4 DEF CoreSide, Numbered
  <2>2. \A x \in Runs : x < r \/ x = r \/ r < x BY RunsAssumption
  <2>. QED BY <2>1, <2>2
<1>7. driver' \in [Runs -> Driver \cup {NULL}] /\ driver'[r] = e /\ \A x \in Runs : x # r => driver'[x] = driver[x]
  BY <1>1, <1>2, <1>4
<1>8. /\ active' \in [Tabs -> SUBSET Runs] /\ active'[t] = active[t] \cup {r}
      /\ \A u \in Tabs : u # t => active'[u] = active[u]
  BY <1>1, <1>4
<1>. QED BY <1>3, <1>4, <1>5, <1>6, <1>7, <1>8

LEMMA DriveKeeps ==
  ASSUME CoreSide, NEW t \in Tabs, NEW r \in Runs, NEW kind \in Kinds, Drive(t, r, kind),
         UNCHANGED <<coreVars, generation, left>>, PageTypes'
  PROVE  CoreSide'
<1>1. /\ driver[r] = NULL /\ \A x \in Runs : x < r => driver[x] # NULL
      /\ \A x \in Runs : driver[x] # NULL /\ x # r => x < r
      /\ driver' \in [Runs -> Driver \cup {NULL}] /\ driver'[r] # NULL
      /\ driver'[r].tab = t /\ driver'[r].kind = kind /\ driver'[r].at = "waiting"
      /\ driver'[r].generation = generation[t]
      /\ \A x \in Runs : x # r => driver'[x] = driver[x]
      /\ active' \in [Tabs -> SUBSET Runs] /\ active'[t] = active[t] \cup {r}
      /\ \A u \in Tabs : u # t => active'[u] = active[u]
      /\ outbox' = [outbox EXCEPT ![t] = Append(outbox[t], Msg("start", r))]
  BY DriveIs
<1>2. Inv' /\ Reads BY ScriptReads
<1>3. at[r] = "unborn"
  BY <1>1 DEF CoreSide, Owned
<1>4. Grown BY <1>1 DEF Grown
<1>5. /\ generation \in [Tabs -> Nat] /\ left \subseteq Tabs /\ outbox \in [Tabs -> Seq(Message)]
      /\ active \in [Tabs -> SUBSET Runs]
  BY DEF CoreSide, ClientTypeOK
<1> DEFINE s == Msg("start", r)
<1>6. s \in Message /\ s.type = "start" /\ s.run = r BY DEF Msg, Message
<1>7. outbox' = [outbox EXCEPT ![t] = Append(outbox[t], s)] BY <1>1
<1> HIDE DEF s
<1>8. /\ Append(outbox[t], s) \in Seq(Message)
      /\ Elems(Append(outbox[t], s)) = Elems(outbox[t]) \cup {s}
      /\ \A a, b : Before(Append(outbox[t], s), a, b) => Before(outbox[t], a, b) \/ (a \in Elems(outbox[t]) /\ b = s)
  BY <1>5, <1>6, AppendElems
<1>9. outbox'[t] = Append(outbox[t], s) /\ \A u \in Tabs : u # t => outbox'[u] = outbox[u]
  BY <1>5, <1>7
<1>10. outbox' \in [Tabs -> Seq(Message)] BY <1>5, <1>7, <1>8
<1>11. ClientTypeOK'
  <2>1. DriverTypes' BY <1>1, <1>5 DEF DriverTypes
  <2>. QED BY <1>2, <1>10, <2>1, Types
<1>12. Numbered'
  <2> SUFFICES ASSUME NEW x \in Runs, NEW y \in Runs, x < y, driver'[y] # NULL PROVE driver'[x] # NULL
    BY DEF Numbered
  <2>1. CASE x = r BY <1>1, <2>1
  <2>2. CASE x # r /\ y = r BY <1>1, <2>2
  <2>3. CASE x # r /\ y # r BY <1>1, <2>3 DEF CoreSide, Numbered
  <2>. QED BY <2>1, <2>2, <2>3
<1>13. \A x \in Runs : driver'[x] # NULL /\ driver'[x].at = "answering" => at[x] \in {"parked", "over"}
  <2>1. \A x \in Runs : driver[x] # NULL /\ driver[x].at = "answering" => at[x] \in {"parked", "over"}
    BY DEF CoreSide, Said
  <2>. QED BY <1>1, <2>1
<1>14. Owned' /\ Said' BY <1>2, <1>4, <1>13, ReadsKeeps
<1>15. \A u \in Tabs : \A m \in Elems(outbox[u]) :
         m \in Message /\ m.run \in Runs /\ SentTo(u, m) /\ m.run # r /\ m.run < r
  <2>1. ASSUME NEW u \in Tabs, NEW m \in Elems(outbox[u])
        PROVE  m \in Message /\ m.run \in Runs /\ SentTo(u, m) /\ m.run # r /\ m.run < r
    <3>1. m \in Message /\ m.run \in Runs BY <2>1, OutboxType DEF CoreSide, Message
    <3>2. SentTo(u, m) BY <2>1 DEF CoreSide, Sent
    <3>. QED BY <1>1, <3>1, <3>2 DEF SentTo
  <2>. QED BY <2>1
<1>16. Sent'
  <2>1. ASSUME NEW u \in Tabs, NEW m \in Elems(outbox'[u]) PROVE SentTo(u, m)'
    <3>1. CASE m \in Elems(outbox[u])
      <4>1. driver'[m.run] = driver[m.run] BY <1>1, <1>15, <3>1
      <4>. QED BY <1>2, <1>15, <3>1, <4>1 DEF SentTo, Reads
    <3>2. CASE m \notin Elems(outbox[u])
      <4>1. u = t BY <1>9, <2>1, <3>2
      <4>2. m \in Elems(Append(outbox[t], s)) /\ m \notin Elems(outbox[t]) BY <1>9, <2>1, <3>2, <4>1
      <4>3. m = s BY <1>8, <4>2
      <4>. QED BY <1>1, <1>2, <1>3, <1>6, <4>1, <4>3 DEF SentTo, Reads
    <3>. QED BY <3>1, <3>2
  <2>2. ASSUME NEW u \in Tabs, NEW m \in Message, NEW n \in Message, Before(outbox'[u], m, n), n.type = "start"
        PROVE  m.run < n.run
    <3>1. CASE Before(outbox[u], m, n) BY <2>2, <3>1 DEF CoreSide, Sent
    <3>2. CASE ~Before(outbox[u], m, n)
      <4>1. u = t BY <1>9, <2>2, <3>2
      <4>3. Before(Append(outbox[t], s), m, n) /\ ~Before(outbox[t], m, n) BY <1>9, <2>2, <3>2, <4>1
      <4>2. m \in Elems(outbox[t]) /\ n = s BY <1>8, <4>3
      <4>. QED BY <1>6, <1>15, <4>2
    <3>. QED BY <3>1, <3>2
  <2>. QED BY <2>1, <2>2 DEF Sent
<1>17. \A u \in Tabs : \A m \in Elems(outbox[u]) : m \in Elems(outbox'[u]) BY <1>8, <1>9
<1>18. Starting'
  <2> SUFFICES ASSUME NEW x \in Runs, driver'[x] # NULL, at'[x] = "unborn"
               PROVE  Msg("start", x) \in Elems(outbox'[driver'[x].tab])
    BY DEF Starting
  <2>1. CASE x = r BY <1>1, <1>8, <1>9, <2>1 DEF s
  <2>2. CASE x # r
    <3>1. driver[x] # NULL /\ at[x] = "unborn" /\ driver'[x] = driver[x] BY <1>1, <1>2, <2>2 DEF Reads
    <3>2. driver[x].tab \in Tabs BY <3>1, DriverIs
    <3>3. Msg("start", x) \in Elems(outbox[driver[x].tab]) BY <3>1 DEF CoreSide, Starting
    <3>. QED BY <1>17, <3>1, <3>2, <3>3
  <2>. QED BY <2>1, <2>2
<1>19. \A x \in Runs : x # r =>
         Live(x)' = Live(x) /\ Current(x)' = Current(x) /\ On(x)' = On(x) /\ Failed(x)' = Failed(x)
  BY <1>1 DEF Live, Current, On, Failed
<1>20. On(r)' BY <1>1 DEF On, Live, Current
<1>21. Actives'
  <2>1. ASSUME NEW x \in Runs, driver'[x] # NULL PROVE driver'[x].generation <= generation'[driver'[x].tab]
    <3>1. CASE x = r
      <4>1. generation[t] <= generation[t] BY <1>5
      <4>. QED BY <1>1, <3>1, <4>1
    <3>2. CASE x # r BY <1>1, <2>1, <3>2 DEF CoreSide, Actives
    <3>. QED BY <3>1, <3>2
  <2>2. ASSUME NEW u \in Tabs, NEW x \in Runs
        PROVE  x \in active'[u] <=> driver'[x] # NULL /\ driver'[x].tab = u /\ On(x)'
    <3>1. x \in active[u] <=> driver[x] # NULL /\ driver[x].tab = u /\ On(x) BY DEF CoreSide, Actives
    <3>2. CASE x = r BY <1>1, <1>20, <3>1, <3>2
    <3>3. CASE x # r BY <1>1, <1>19, <3>1, <3>3
    <3>. QED BY <3>2, <3>3
  <2>. QED BY <2>1, <2>2 DEF Actives
<1>22. Attends'
  <2> SUFFICES ASSUME NEW x \in Runs, Wants(x)' PROVE Attended(x)' BY DEF Attends
  <2>1. CASE x = r BY <1>20, <2>1 DEF Attended
  <2>2. CASE x # r
    <3>1. Wants(x) BY <1>1, <1>2, <2>2 DEF Wants, Reads
    <3>2. Attended(x) /\ driver[x] # NULL BY <3>1 DEF CoreSide, Attends, Owned, Wants
    <3>3. driver[x].tab \in Tabs BY <3>2, DriverIs
    <3>. QED BY <1>1, <1>17, <1>19, <2>2, <3>2, <3>3 DEF Attended
  <2>. QED BY <2>1, <2>2
<1>. QED BY <1>2, <1>11, <1>12, <1>14, <1>16, <1>18, <1>21, <1>22 DEF CoreSide

(***************************************************************************)
(* Step by step.                                                           *)
(***************************************************************************)
LEMMA RunScanKeeps == ASSUME CoreSide, NEW t \in Tabs, RunScan(t) PROVE CoreSide'
<1>1. PageTypes /\ wanted' = [wanted EXCEPT ![t] = TRUE] /\ UNCHANGED <<candidates, inbox, drawn, reported>>
  BY Types DEF RunScan
<1>2. PageTypes' BY <1>1 DEF PageTypes
<1>. QED BY <1>2, GenerationKeeps DEF RunScan

LEMMA InvalidateKeeps == ASSUME CoreSide, NEW t \in Tabs, Invalidate(t) PROVE CoreSide'
<1>1. /\ PageTypes /\ wanted' = [wanted EXCEPT ![t] = FALSE] /\ candidates' = [candidates EXCEPT ![t] = FALSE]
      /\ drawn' = drawn \/ drawn' = [drawn EXCEPT ![t] = {}]
      /\ UNCHANGED <<inbox, reported>>
  BY Types DEF Invalidate
<1>2. PageTypes' BY <1>1 DEF PageTypes
<1>. QED BY <1>2, GenerationKeeps DEF Invalidate

LEMMA StartScanKeeps ==
  ASSUME CoreSide, NEW t \in Tabs, NEW r \in Runs, StartScan(t, r) PROVE CoreSide'
<1>1. /\ PageTypes /\ wanted' = [wanted EXCEPT ![t] = FALSE] /\ candidates' = [candidates EXCEPT ![t] = FALSE]
      /\ UNCHANGED <<inbox, drawn, reported>>
  BY Types DEF StartScan
<1>2. PageTypes' BY <1>1 DEF PageTypes
<1>. QED BY <1>2, DriveKeeps DEF StartScan, Kinds

LEMMA StartCandidateKeeps ==
  ASSUME CoreSide, NEW t \in Tabs, NEW r \in Runs, StartCandidate(t, r) PROVE CoreSide'
<1>1. PageTypes' BY Types DEF StartCandidate, PageTypes
<1>. QED BY <1>1, DriveKeeps DEF StartCandidate, Kinds

\* Its driver reads an answer.
LEMMA TakeIs ==
  ASSUME CoreSide, NEW r \in Runs, Take(r)
  PROVE  /\ Live(r) /\ driver[r] # NULL /\ driver[r] \in Driver /\ driver[r].tab \in Tabs
         /\ inbox[driver[r].tab] # <<>> /\ Head(inbox[driver[r].tab]) = r
         /\ inbox' = [inbox EXCEPT ![driver[r].tab] = Tail(inbox[driver[r].tab])]
         /\ inbox' \in [Tabs -> Seq(Runs)]
         /\ answer[r] # NULL /\ Read(r) /\ Inv' /\ Reads
         /\ UNCHANGED <<generation, wanted, left>>
<1> DEFINE t == driver[r].tab
<1>1. /\ Live(r) /\ inbox[t] # <<>> /\ Head(inbox[t]) = r /\ Read(r)
      /\ inbox' = [inbox EXCEPT ![t] = Tail(inbox[t])] /\ UNCHANGED <<generation, wanted, left>>
  BY DEF Take
<1>2. driver[r] # NULL /\ driver[r] \in Driver /\ t \in Tabs BY <1>1, DriverIs DEF Live
<1>3. inbox \in [Tabs -> Seq(Runs)] BY DEF CoreSide, ClientTypeOK
<1>4. Tail(inbox[t]) \in Seq(Runs) BY <1>1, <1>2, <1>3
<1>5. inbox' \in [Tabs -> Seq(Runs)] BY <1>1, <1>3, <1>4
<1>6. answer[r] # NULL BY <1>1 DEF Read
<1>7. Inv' /\ Reads BY <1>1, ScriptReads
<1>. QED BY <1>1, <1>2, <1>5, <1>6, <1>7

\* Who has been told that it is over does not want the turn any more.
LEMMA ToldItIsOver ==
  ASSUME CoreSide, NEW r \in Runs, answer[r] \in {"error", "superseded", "done"}
  PROVE  ~Wants(r)
<1>1. /\ answer[r] \in {"error", "done"} => at[r] = "over"
      /\ answer[r] = "superseded" => at[r] = "over" \/ (at[r] = "queued" /\ obj[r].superseded)
  BY DEF CoreSide, Said
<1>. QED BY <1>1 DEF Wants

LEMMA TakeStaleKeeps == ASSUME CoreSide, NEW r \in Runs, TakeStale(r) PROVE CoreSide'
<1>1. Take(r) /\ ~Current(r) /\ Stop(r, "over") /\ UNCHANGED <<candidates, drawn, reported>>
  BY DEF TakeStale
<1>2. PageTypes' BY <1>1, TakeIs, Types DEF PageTypes
<1>. QED BY <1>1, <1>2, TakeIs, DriverStopsKeeps DEF On

LEMMA TakeEndKeeps == ASSUME CoreSide, NEW r \in Runs, TakeEnd(r) PROVE CoreSide'
<1>1. /\ Take(r) /\ answer[r] \in {"error", "superseded"} /\ Stop(r, "over")
      /\ UNCHANGED <<candidates, drawn, reported>>
  BY DEF TakeEnd
<1>2. PageTypes' BY <1>1, TakeIs, Types DEF PageTypes
<1>3. ~Wants(r) BY <1>1, ToldItIsOver
<1>. QED BY <1>1, <1>2, <1>3, TakeIs, DriverStopsKeeps

LEMMA TakeDoneKeeps == ASSUME CoreSide, NEW r \in Runs, TakeDone(r) PROVE CoreSide'
<1> DEFINE t == driver[r].tab
<1>1. /\ Take(r) /\ answer[r] = "done" /\ Stop(r, "over") /\ UNCHANGED candidates
      /\ \/ Show(t, drawn[t], {r})
         \/ Show(t, drawn[t] \cup {r}, driver[r].base \cup {r})
         \/ UNCHANGED <<drawn, reported>>
  BY DEF TakeDone
<1>2. PageTypes'
  <2>1. PageTypes /\ t \in Tabs /\ driver[r].base \subseteq Runs /\ inbox' \in [Tabs -> Seq(Runs)] /\ wanted' = wanted
    BY <1>1, TakeIs, Types DEF Driver
  <2>2. drawn[t] \in SUBSET Runs /\ drawn[t] \cup {r} \in SUBSET Runs /\ driver[r].base \cup {r} \in SUBSET Runs
    BY <2>1 DEF PageTypes
  <2> HIDE DEF t
  <2>. QED BY <1>1, <2>1, <2>2 DEF PageTypes, Show
<1>3. ~Wants(r) BY <1>1, ToldItIsOver
<1>. QED BY <1>1, <1>2, <1>3, TakeIs, DriverStopsKeeps

\* Who was asked something was asked by a session that parked.
LEMMA WasAsked ==
  ASSUME CoreSide, NEW r \in Runs, answer[r] \in {"ask", "findings", "visual"}
  PROVE  at[r] \in {"parked", "over"}
BY DEF CoreSide, Said

LEMMA TakeAskKeeps == ASSUME CoreSide, NEW r \in Runs, TakeAsk(r) PROVE CoreSide'
<1>1. /\ Take(r) /\ answer[r] = "ask" /\ driver' = [driver EXCEPT ![r].at = "answering"]
      /\ UNCHANGED <<active, outbox, candidates, drawn, reported>>
  BY DEF TakeAsk
<1>2. PageTypes' BY <1>1, TakeIs, Types DEF PageTypes
<1>3. Sends BY <1>1, SendsNothing
<1>4. at[r] \in {"parked", "over"} BY <1>1, WasAsked
<1>. QED BY <1>1, <1>2, <1>3, <1>4, TakeIs, DriverGoesKeeps

\* The driver's next message.
LEMMA ContinueKeeps ==
  ASSUME CoreSide, Inv', Reads, PageTypes', UNCHANGED <<generation, left>>,
         NEW r \in Runs, Live(r), at[r] \in {"parked", "over"}, Continue(r)
  PROVE  CoreSide'
<1>1. /\ driver' = [driver EXCEPT ![r].at = "waiting"] /\ UNCHANGED active
      /\ outbox' = [outbox EXCEPT ![driver[r].tab] = Append(@, Msg("continue", r))]
  BY DEF Continue
<1>2. driver[r] # NULL /\ driver[r] \in Driver BY DriverIs DEF Live
<1> DEFINE e == [driver[r] EXCEPT !.at = "waiting"]
<1>3. e \in Driver /\ e.tab = driver[r].tab /\ e.kind = driver[r].kind BY <1>2 DEF Driver
<1>4. driver \in [Runs -> Driver \cup {NULL}] BY DEF CoreSide, ClientTypeOK
<1>5. driver' = [driver EXCEPT ![r] = e] BY <1>1
<1> HIDE DEF e
<1>6. Grown BY <1>2, <1>3, <1>4, <1>5, RunsAreRequests DEF Grown
<1>7. Sends BY <1>1, <1>2, <1>6, SendsContinue
<1>. QED BY <1>1, <1>7, DriverGoesKeeps

LEMMA TakeStageKeeps == ASSUME CoreSide, NEW r \in Runs, TakeStage(r) PROVE CoreSide'
<1> DEFINE t == driver[r].tab
<1>1. /\ Take(r) /\ answer[r] \in {"findings", "visual"} /\ Show(t, {r}, {r}) /\ Continue(r)
  BY DEF TakeStage
<1>2. PICK lazy \in BOOLEAN : candidates' = [candidates EXCEPT ![t] = IF answer[r] = "visual" THEN lazy ELSE @]
  BY DEF TakeStage
<1>3. PageTypes'
  <2>1. PageTypes /\ t \in Tabs /\ inbox' \in [Tabs -> Seq(Runs)] /\ wanted' = wanted
    BY <1>1, TakeIs, Types
  <2> HIDE DEF t
  <2>2. candidates' \in [Tabs -> BOOLEAN] BY <1>2, <2>1 DEF PageTypes
  <2>. QED BY <1>1, <2>1, <2>2 DEF PageTypes, Show
<1>4. at[r] \in {"parked", "over"} BY <1>1, WasAsked
<1>. QED BY <1>1, <1>3, <1>4, TakeIs, ContinueKeeps

LEMMA AnswerAskKeeps == ASSUME CoreSide, NEW r \in Runs, AnswerAsk(r) PROVE CoreSide'
<1>1. /\ Live(r) /\ driver[r].at = "answering"
      /\ UNCHANGED <<coreVars, generation, wanted, candidates, inbox, left, drawn, reported>>
  BY DEF AnswerAsk
<1>2. PageTypes' BY <1>1, Types DEF PageTypes
<1>3. Inv' /\ Reads BY <1>1, ScriptReads
<1>4. at[r] \in {"parked", "over"} BY <1>1 DEF CoreSide, Said, Live
<1>5. CASE Current(r) /\ Continue(r) BY <1>1, <1>2, <1>3, <1>4, <1>5, ContinueKeeps
<1>6. CASE ~Current(r) /\ Stop(r, "over") BY <1>1, <1>2, <1>3, <1>6, DriverStopsKeeps DEF On
<1>. QED BY <1>5, <1>6 DEF AnswerAsk

LEMMA DriverThrowsKeeps == ASSUME CoreSide, NEW r \in Runs, DriverThrows(r) PROVE CoreSide'
<1>1. /\ Live(r) /\ Stop(r, "failed")
      /\ UNCHANGED <<coreVars, generation, wanted, candidates, inbox, left, drawn, reported>>
  BY DEF DriverThrows
<1>2. PageTypes' BY <1>1, Types DEF PageTypes
<1>3. Inv' /\ Reads BY <1>1, ScriptReads
<1>. QED BY <1>1, <1>2, <1>3, DriverStopsKeeps

\* The steps of the core.
LEMMA DoesKeeps ==
  ASSUME CoreSide, CoreNext, CoreMoves, Receipts, Deliver,
         UNCHANGED <<generation, wanted, active, candidates, driver, drawn, reported>>
  PROVE  CoreSide'
<1>1. Inv' BY CoreStepKeepsInv
<1>. QED BY <1>1, CoreKeeps

LEMMA StutterKeepsClients == ASSUME CoreSide, UNCHANGED vars PROVE CoreSide'
<1>1. UNCHANGED <<coreVars, clientVars>> BY DEF vars
<1>2. Inv' /\ Reads BY <1>1, ScriptReads DEF clientVars
<1>3. /\ UNCHANGED <<generation, wanted, active, candidates, driver, outbox, inbox, left, drawn, reported>>
      /\ UNCHANGED <<obj, at, sessions, chain, loaded, owed, answer>>
  BY <1>1 DEF clientVars, coreVars
<1>4. PageTypes' /\ DriverTypes' /\ outbox' \in [Tabs -> Seq(Message)] BY <1>3, Types DEF PageTypes, DriverTypes
<1>5. ClientTypeOK' BY <1>2, <1>4, Types
<1>6. Numbered' /\ Owned' /\ Said' BY <1>3 DEF CoreSide, Numbered, Owned, OwnSession, Said
<1>7. Sent' /\ Starting' BY <1>3 DEF CoreSide, Sent, SentTo, Starting
<1>8. Actives' /\ Attends'
  BY <1>3 DEF CoreSide, Actives, Attends, Wants, Attended, On, Live, Current, Failed
<1>. QED BY <1>2, <1>5, <1>6, <1>7, <1>8 DEF CoreSide

-----------------------------------------------------------------------------
(***************************************************************************)
(* The first theorems: the clients keep to the core's rules, and no        *)
(* session is left alone with the turn.                                    *)
(***************************************************************************)
LEMMA InitCoreSide == ClientInit => CoreSide
<1> SUFFICES ASSUME ClientInit PROVE CoreSide OBVIOUS
<1>1. Inv BY InitInv DEF ClientInit
<1>2. /\ \A r \in Runs : driver[r] = NULL /\ at[r] = "unborn" /\ answer[r] = NULL /\ obj[r] = NULL
      /\ \A t \in Tabs : outbox[t] = <<>> /\ active[t] = {}
  BY RunsAreRequests DEF ClientInit, Init
<1>3. ClientTypeOK
  <2>1. <<>> \in Seq(Message) /\ <<>> \in Seq(Runs) OBVIOUS
  <2>2. PageTypes /\ DriverTypes /\ outbox \in [Tabs -> Seq(Message)]
    BY <2>1 DEF ClientInit, PageTypes, DriverTypes
  <2>. QED BY <1>1, <2>2 DEF ClientTypeOK, PageTypes, DriverTypes, Inv
<1>4. \A a \in Answers : a # NULL BY RunsAreRequests
<1>5. Numbered /\ Owned /\ Starting BY <1>2 DEF Numbered, Owned, Starting
<1>6. Said BY <1>2, <1>4 DEF Said, Answers
<1>7. Sent BY <1>2, NoElems DEF Sent
<1>8. Actives BY <1>2 DEF Actives
<1>9. Attends BY <1>2 DEF Attends, Wants
<1>. QED BY <1>1, <1>3, <1>5, <1>6, <1>7, <1>8, <1>9 DEF CoreSide

LEMMA DriverGoesOnKeeps == ASSUME CoreSide, NEW r \in Runs, DriverGoesOn(r) PROVE CoreSide'
BY TakeStaleKeeps, TakeEndKeeps, TakeAskKeeps, TakeStageKeeps, TakeDoneKeeps, AnswerAskKeeps DEF DriverGoesOn

LEMMA NextCoreSide == CoreSide /\ [ClientNext]_vars => CoreSide'
<1> SUFFICES ASSUME CoreSide, [ClientNext]_vars PROVE CoreSide' OBVIOUS
<1>1. CASE \E t \in Tabs : RunScan(t) \/ Invalidate(t) \/ Navigate(t) \/ WorkerCancels(t)
  BY <1>1, RunScanKeeps, InvalidateKeeps, NavigateKeeps, WorkerCancelsDoes, DoesKeeps
<1>2. CASE \E t \in Tabs, r \in Runs : StartScan(t, r) \/ StartCandidate(t, r)
  BY <1>2, StartScanKeeps, StartCandidateKeeps
<1>3. CASE \E r \in Runs : DriverGoesOn(r) \/ DriverThrows(r) \/ CoreStep(r)
  BY <1>3, DriverGoesOnKeeps, DriverThrowsKeeps, CoreStepDoes, DoesKeeps
<1>4. CASE \E t \in Tabs : Receive(t) \/ Completed(t)
  BY <1>4, ReceiveDoes, CompletedDoes, DoesKeeps
<1>5. CASE UNCHANGED vars BY <1>5, StutterKeepsClients
<1>. QED BY <1>1, <1>2, <1>3, <1>4, <1>5 DEF ClientNext

LEMMA CoreSideHolds == Spec => []CoreSide
BY InitCoreSide, NextCoreSide, PTL DEF Spec

\* Every step of the clients is a step the core allows, or none of its.
LEMMA NextIsCoreNext == CoreSide /\ [ClientNext]_vars => [CoreNext]_coreVars
<1> SUFFICES ASSUME CoreSide, [ClientNext]_vars PROVE CoreNext \/ UNCHANGED coreVars OBVIOUS
<1>1. ASSUME NEW r \in Runs, Take(r) PROVE CoreNext
  BY <1>1, RunsAreRequests DEF Take, CoreNext
<1>2. CASE \E t \in Tabs : RunScan(t) \/ Invalidate(t) \/ Navigate(t) \/ WorkerCancels(t)
  BY <1>2, WorkerCancelsDoes DEF RunScan, Invalidate, Navigate
<1>3. CASE \E t \in Tabs, r \in Runs : StartScan(t, r) \/ StartCandidate(t, r)
  BY <1>3 DEF StartScan, StartCandidate
<1>4. CASE \E r \in Runs : DriverGoesOn(r) \/ DriverThrows(r) \/ CoreStep(r)
  BY <1>1, <1>4, CoreStepDoes
     DEF DriverGoesOn, TakeStale, TakeEnd, TakeAsk, TakeStage, TakeDone, AnswerAsk, DriverThrows
<1>5. CASE \E t \in Tabs : Receive(t) \/ Completed(t)
  BY <1>5, ReceiveDoes, CompletedDoes
<1>6. CASE UNCHANGED vars BY <1>6 DEF vars, coreVars
<1>. QED BY <1>2, <1>3, <1>4, <1>5, <1>6 DEF ClientNext

\* The state of the scripts, of the core and of what is between them is what
\* it should be (content-script.js over 60-offscreen.js).
THEOREM ClientTypes == Spec => []ClientTypeOK
<1>1. CoreSide => ClientTypeOK BY DEF CoreSide
<1>. QED BY <1>1, CoreSideHolds, PTL

\* The content scripts implement the clients that the rule core expects: what
\* they do to it, its own steps included, is what RuleCore allows (a session's
\* messages are of its tab and kind, and its driver reads before it sends).
THEOREM ClientsKeepTheRules == Spec => CoreSpec
<1>1. ClientInit => Init BY DEF ClientInit
<1>. QED BY <1>1, NextIsCoreNext, CoreSideHolds, PTL DEF Spec, CoreSpec

\* So what the core promises is so: snapshots are own (serialized, snapshot_load),
\* answers come once and turns can be released, whatever the tabs do.
THEOREM CorePromisesHold == Spec => [](OwnSnapshot /\ AnsweredOnce /\ TurnIsReachable)
<1>1. CoreSide => OwnSnapshot /\ AnsweredOnce /\ TurnIsReachable BY InvPromises DEF CoreSide
<1>. QED BY <1>1, CoreSideHolds, PTL

\* A session that can take or hold the turn has a driver that goes on with it,
\* or a cancel on its way, unless its driver threw (cancelScans, scan-cancel-tab,
\* "Cancellation releases the core queue").
THEOREM NobodyIsOrphaned == Spec => []NoOrphanHoldsTheCore
<1>1. ASSUME CoreSide PROVE NoOrphanHoldsTheCore
  <2> SUFFICES ASSUME NEW r \in Runs, at[r] \in {"queued", "parked"}, ~obj[r].superseded
               PROVE  \/ Live(r) /\ Current(r)
                      \/ CancelSent(r)
                      \/ driver[r].at = "gone" /\ driver[r].tab \in left
                      \/ Failed(r)
    BY DEF NoOrphanHoldsTheCore
  <2>1. Attended(r) BY <1>1 DEF CoreSide, Attends, Wants
  <2>2. Msg("cancel", r) \in Elems(outbox[driver[r].tab]) => CancelSent(r) BY DEF Elems, CancelSent
  <2>. QED BY <2>1, <2>2 DEF Attended, On
<1>. QED BY <1>1, CoreSideHolds, PTL

-----------------------------------------------------------------------------
(***************************************************************************)
(* A step of the core keeps the second part of the invariant.              *)
(***************************************************************************)
LEMMA BeforeIn == ASSUME NEW q, NEW a, NEW b, Before(q, a, b) PROVE a \in Elems(q) /\ b \in Elems(q)
BY DEF Before, Elems

\* Of the sessions of one tab, the one that has the turn is the first.
LEMMA HeadIsFirst ==
  ASSUME CoreSide, Chained, NEW x \in Runs, NEW y \in Runs, x # y, Mates(x, y), HasTurn(y),
         at[x] \in {"queued", "parked"}
  PROVE  y < x
<1>1. chain \in Seq(Runs) /\ chain # <<>> /\ Head(chain) = y BY DEF CoreSide, Inv, TypeOK, HasTurn
<1>2. x \in Elems(chain) BY DEF Chained
<1>3. Elems(chain) = {y} \cup Elems(Tail(chain)) /\ \A b \in Elems(Tail(chain)) : Before(chain, y, b)
  BY <1>1, TailElems
<1>4. Before(chain, y, x) BY <1>2, <1>3
<1>. QED BY <1>4 DEF Chained, Mates

LEMMA OverStays ==
  ASSUME NEW x \in Runs, Moves(x), at[x] = "over"
  PROVE  at'[x] = "over" /\ (answer'[x] = answer[x] \/ answer'[x] = "error")
BY DEF Moves, Same, Overtaken, Asking, Settling, Refused, Born

LEMMA OrderedHolds ==
  ASSUME CoreSide, Inv', Chained, Ordered, CoreMoves, Receipts, driver' = driver
  PROVE  Ordered'
<1> SUFFICES ASSUME NEW x \in Runs, NEW y \in Runs, x < y, Mates(x, y)
             PROVE  /\ at'[y] # "unborn" => at'[x] # "unborn"
                    /\ at'[y] \in {"parked", "over"} => at'[x] = "over"
  BY DEF Ordered, Mates
<1>1. \A a, b \in Runs : a < b => a # b /\ ~(b < a) BY RunsAreRequests
<1>2. /\ at[x] # "unborn" => at'[x] # "unborn"
      /\ at[y] = "unborn" => Born(y) \/ at'[y] = "unborn"
      /\ Moves(x) /\ Moves(y)
  BY MoveKeeps DEF CoreMoves
<1>3. /\ at[y] # "unborn" => at[x] # "unborn"
      /\ at[y] \in {"parked", "over"} => at[x] = "over"
  BY DEF Ordered
<1>4. at'[y] # "unborn" => at'[x] # "unborn" BY <1>2, <1>3 DEF Receipts
<1>5. ASSUME at'[y] \in {"parked", "over"} PROVE at'[x] = "over"
  <2>1. CASE at[y] \in {"parked", "over"} BY <1>2, <1>3, <2>1, OverStays
  <2>2. CASE at[y] \notin {"parked", "over"}
    <3>1. HasTurn(y) /\ at[y] = "queued"
      BY <1>2, <1>5, <2>2 DEF Moves, Same, Overtaken, Asking, Settling, Refused, Born
    <3>2. at[x] \in Places BY DEF CoreSide, Inv, TypeOK
    <3>3. at[x] = "over" BY <1>1, <1>3, <3>1, <3>2, HeadIsFirst DEF Places
    <3>. QED BY <1>2, <3>3, OverStays
  <2>. QED BY <2>1, <2>2
<1>. QED BY <1>4, <1>5

LEMMA ChainedHolds ==
  ASSUME CoreSide, Inv', Chained, Ordered, CoreMoves, driver' = driver
  PROVE  Chained'
<1>1. chain \in Seq(Runs) BY DEF CoreSide, Inv, TypeOK
<1>2. ASSUME NEW r \in Runs
      PROVE  /\ Leaves(r) => at[r] \in {"queued", "parked"} /\ at'[r] \notin {"queued", "parked"}
             /\ Born(r) => at[r] \notin {"queued", "parked"} /\ at'[r] \in {"queued", "parked"}
             /\ ~Leaves(r) /\ ~Born(r) => (at'[r] \in {"queued", "parked"} <=> at[r] \in {"queued", "parked"})
  BY DEF CoreMoves, Moves, Same, Overtaken, Asking, Settling, Refused, Born, Leaves
<1>3. \A r \in Runs : r \in Elems(chain) <=> at[r] \in {"queued", "parked"} BY DEF Chained
<1>4. \A x, y : Before(chain, x, y) => x \in Runs /\ y \in Runs
  BY <1>1, ElemsType, BeforeIn
<1>5. CASE chain' = chain /\ \A x \in Runs : ~Leaves(x) /\ ~Born(x)
  <2>1. \A r \in Runs : r \in Elems(chain') <=> at'[r] \in {"queued", "parked"} BY <1>2, <1>3, <1>5
  <2>. QED BY <1>5, <2>1 DEF Chained, Mates
<1>6. CASE /\ chain # <<>> /\ chain' = Tail(chain) /\ Leaves(Head(chain))
           /\ \A x \in Runs : ~Born(x) /\ (Leaves(x) => x = Head(chain))
  <2> DEFINE h == Head(chain)
  <2>1. /\ h \in Runs /\ Elems(chain) = {h} \cup Elems(chain')
        /\ \A a, b : Before(chain', a, b) => Before(chain, a, b)
        /\ \A b \in Elems(chain') : Before(chain, h, b)
    BY <1>1, <1>6, TailElems
  <2>2. Leaves(h) /\ \A x \in Runs : ~Born(x) /\ (Leaves(x) => x = h) BY <1>6
  <2> HIDE DEF h
  <2>3. h \notin Elems(chain') BY <2>1 DEF Chained
  <2>4. \A r \in Runs : r \in Elems(chain') <=> at'[r] \in {"queued", "parked"}
    BY <1>2, <1>3, <2>1, <2>2, <2>3
  <2>5. \A r \in Runs : ~Before(chain', r, r) BY <2>1 DEF Chained
  <2>6. \A x, y \in Runs : Before(chain', x, y) /\ Mates(x, y) => x < y BY <2>1 DEF Chained
  <2>. QED BY <2>4, <2>5, <2>6 DEF Chained, Mates
<1>7. ASSUME NEW n \in Runs, Born(n), chain' = Append(chain, n),
             \A y \in Runs : ~Leaves(y) /\ (Born(y) => y = n)
      PROVE  Chained'
  <2>1. /\ Elems(chain') = Elems(chain) \cup {n}
        /\ \A a, b : Before(chain', a, b) => Before(chain, a, b) \/ (a \in Elems(chain) /\ b = n)
    BY <1>1, <1>7, AppendElems
  <2>2. n \notin Elems(chain) /\ at[n] = "unborn" BY <1>2, <1>3, <1>7 DEF Born
  <2>3. \A r \in Runs : r \in Elems(chain') <=> at'[r] \in {"queued", "parked"}
    BY <1>2, <1>3, <1>7, <2>1, <2>2
  <2>4. \A r \in Runs : ~Before(chain', r, r) BY <2>1, <2>2 DEF Chained
  <2>5. ASSUME NEW x \in Runs, x \in Elems(chain), Mates(x, n) PROVE x < n
    <3>1. at[x] # "unborn" /\ x # n BY <1>3, <2>2, <2>5
    <3>2. ~(n < x) BY <2>2, <2>5, <3>1 DEF Ordered, Mates
    <3>3. \A a, b \in Runs : a < b \/ a = b \/ b < a BY RunsAreRequests
    <3>. QED BY <3>1, <3>2, <3>3
  <2>6. \A x, y \in Runs : Before(chain', x, y) /\ Mates(x, y) => x < y BY <2>1, <2>5 DEF Chained
  <2>. QED BY <2>3, <2>4, <2>6 DEF Chained, Mates
<1>. QED BY <1>5, <1>6, <1>7 DEF CoreMoves, ChainMoves

\* What is delivered.
LEMMA InboxIs ==
  ASSUME CoreSide, Deliver, NEW t \in Tabs
  PROVE  /\ Elems(Arrivals(t)) = {r \in Runs : /\ answer[r] = NULL /\ answer'[r] # NULL
                                              /\ driver[r].tab = t /\ driver[r].at # "gone"}
         /\ Elems(inbox'[t]) = Elems(inbox[t]) \cup Elems(Arrivals(t))
         /\ \A a, b : Before(inbox'[t], a, b) =>
              \/ Before(inbox[t], a, b)
              \/ a \in Elems(inbox[t]) /\ b \in Elems(Arrivals(t))
              \/ a < b /\ a \in Elems(Arrivals(t)) /\ b \in Elems(Arrivals(t))
<1> DEFINE S == {r \in Runs : /\ answer[r] = NULL /\ answer'[r] # NULL
                              /\ driver[r].tab = t /\ driver[r].at # "gone"}
           c == Arrivals(t)
<1>1. c = InOrder(S) BY DEF Arrivals
<1>2. S \in SUBSET Runs OBVIOUS
<1> HIDE DEF S, c
<1>3. c \in Seq(Runs) /\ Elems(c) = S /\ \A a, b : Before(c, a, b) => a < b BY <1>1, <1>2, InOrderIs
<1>4. inbox[t] \in Seq(Runs) BY DEF CoreSide, ClientTypeOK
<1>5. inbox'[t] = inbox[t] \o c BY DEF Deliver, c
<1>6. /\ Elems(inbox[t] \o c) = Elems(inbox[t]) \cup Elems(c)
      /\ \A a, b : Before(inbox[t] \o c, a, b) =>
           Before(inbox[t], a, b) \/ (a \in Elems(inbox[t]) /\ b \in Elems(c)) \/ Before(c, a, b)
  BY <1>3, <1>4, JoinElems
<1>7. \A a, b : Before(c, a, b) => a \in Elems(c) /\ b \in Elems(c) BY BeforeIn
<1>8. Elems(c) = S BY <1>3
<1>9. Elems(inbox'[t]) = Elems(inbox[t]) \cup Elems(c) BY <1>5, <1>6
<1>10. \A a, b : Before(inbox'[t], a, b) =>
              \/ Before(inbox[t], a, b)
              \/ a \in Elems(inbox[t]) /\ b \in Elems(c)
              \/ a < b /\ a \in Elems(c) /\ b \in Elems(c)
  BY <1>3, <1>5, <1>6, <1>7
<1>. QED BY <1>8, <1>9, <1>10 DEF S, c

\* An answer that was not read yet stays.
LEMMA AnswerStays ==
  ASSUME CoreSide, NEW x \in Runs, Moves(x), answer[x] # NULL
  PROVE  answer'[x] = answer[x]
<1>1. at[x] = "queued" => obj[x] # NULL BY DEF CoreSide, Inv, TypeOK
<1>2. obj[x] # NULL /\ obj[x].respond = x => answer[x] = NULL
  BY RunsAreRequests DEF CoreSide, Owned, OwnSession
<1>. QED BY <1>1, <1>2 DEF Moves, Same, Overtaken, Asking, Settling, Refused, Born

LEMMA ReadingHolds ==
  ASSUME CoreSide, Inv', Ordered, Reading, CoreMoves, Deliver, driver' = driver
  PROVE  Reading'
<1>1. \A x \in Runs : Moves(x) BY DEF CoreMoves
<1>2. \A x \in Runs : answer[x] # NULL => answer'[x] = answer[x] BY <1>1, AnswerStays
<1>3. \A t \in Tabs : Elems(inbox[t]) \subseteq Runs BY ElemsType DEF CoreSide, ClientTypeOK
<1>4. \A x \in Runs : answer'[x] # NULL => driver[x] # NULL BY <1>1, MoveKeeps
<1>5. ASSUME NEW t \in Tabs
      PROVE  /\ \A r \in Elems(inbox'[t]) : driver[r] # NULL /\ driver[r].tab = t /\ answer'[r] # NULL
             /\ \A r \in Runs : ~Before(inbox'[t], r, r)
             /\ \A x, y \in Runs : Before(inbox'[t], x, y) /\ y < x =>
                  answer'[x] = "superseded" \/ answer'[y] = "error"
  <2> DEFINE new == Elems(Arrivals(t))
             old == Elems(inbox[t])
  <2>1. /\ new = {r \in Runs : /\ answer[r] = NULL /\ answer'[r] # NULL
                               /\ driver[r].tab = t /\ driver[r].at # "gone"}
        /\ Elems(inbox'[t]) = old \cup new
        /\ \A a, b : Before(inbox'[t], a, b) =>
             \/ Before(inbox[t], a, b)
             \/ a \in old /\ b \in new
             \/ a < b /\ a \in new /\ b \in new
    BY InboxIs
  <2>2. \A r \in old : r \in Runs /\ driver[r] # NULL /\ driver[r].tab = t /\ answer[r] # NULL
    BY <1>3 DEF Reading
  <2>3. \A a, b : Before(inbox[t], a, b) => a \in old /\ b \in old BY BeforeIn
  <2>4. \A r \in new : r \in Runs /\ answer[r] = NULL /\ answer'[r] # NULL /\ driver[r].tab = t
    BY <2>1
  <2> HIDE DEF new, old
  <2>5. \A r \in Elems(inbox'[t]) : driver[r] # NULL /\ driver[r].tab = t /\ answer'[r] # NULL
    BY <1>2, <1>4, <2>1, <2>2, <2>4
  <2>6. \A a, b \in Runs : ~(a < a) /\ ~(a < b /\ b < a) BY RunsAreRequests
  <2>7. \A r \in Runs : ~Before(inbox'[t], r, r)
    BY <2>1, <2>2, <2>4, <2>6 DEF Reading
  <2>8. ASSUME NEW x \in Runs, NEW y \in Runs, Before(inbox'[t], x, y), y < x
        PROVE  answer'[x] = "superseded" \/ answer'[y] = "error"
    <3>1. CASE Before(inbox[t], x, y)
      <4>1. answer[x] = "superseded" \/ answer[y] = "error" BY <2>8, <3>1 DEF Reading
      <4>2. answer'[x] = answer[x] /\ answer'[y] = answer[y] BY <1>2, <2>2, <2>3, <3>1
      <4>. QED BY <4>1, <4>2
    <3>2. CASE x \in old /\ y \in new
      <4>1. Mates(y, x) BY <1>4, <2>2, <2>4, <3>2 DEF Mates
      <4>2. answer[x] # NULL /\ answer'[x] = answer[x] BY <1>2, <2>2, <3>2
      <4>3. CASE at[x] \in {"parked", "over"}
        <5>1. at[y] = "over" BY <2>8, <4>1, <4>3 DEF Ordered
        <5>2. answer'[y] = answer[y] \/ answer'[y] = "error" BY <1>1, <5>1, OverStays
        <5>. QED BY <2>4, <3>2, <5>2
      <4>4. CASE at[x] \notin {"parked", "over"}
        <5>1. answer[x] \in Answers BY <4>2, RunsAreRequests DEF CoreSide, Inv, TypeOK
        <5>2. answer[x] = "superseded" BY <4>4, <5>1 DEF CoreSide, Said, Answers
        <5>. QED BY <4>2, <5>2
      <4>. QED BY <4>3, <4>4
    <3>3. CASE x < y BY <2>6, <2>8, <3>3
    <3>. QED BY <2>1, <2>8, <3>1, <3>2, <3>3
  <2>. QED BY <2>5, <2>7, <2>8
<1>6. ASSUME NEW r \in Runs, Live(r), answer'[r] # NULL
      PROVE  r \in Elems(inbox'[driver[r].tab])
  <2>1. driver[r] # NULL /\ driver[r].tab \in Tabs /\ driver[r].at # "gone" BY <1>6, DriverIs DEF Live
  <2> DEFINE t == driver[r].tab
  <2>2. t \in Tabs /\ driver[r].tab = t BY <2>1
  <2> HIDE DEF t
  <2>3. /\ Elems(Arrivals(t)) = {x \in Runs : /\ answer[x] = NULL /\ answer'[x] # NULL
                                              /\ driver[x].tab = t /\ driver[x].at # "gone"}
        /\ Elems(inbox'[t]) = Elems(inbox[t]) \cup Elems(Arrivals(t))
    BY <2>2, InboxIs
  <2>4. answer[r] # NULL => r \in Elems(inbox[t]) BY <1>6, <2>2 DEF Reading
  <2>5. r \in Elems(inbox'[t]) BY <1>6, <2>1, <2>2, <2>3, <2>4
  <2>. QED BY <2>2, <2>5
<1>7. \A r \in Runs : Live(r)' = Live(r) BY DEF Live
<1>. QED BY <1>5, <1>6, <1>7 DEF Reading

\* What has been drawn stays drawn while the core goes on.
LEMMA ShownStays ==
  ASSUME CoreSide, NEW x \in Runs, Moves(x), ScanIsShown(x)
  PROVE  ScanIsShown(x)'
BY DEF ScanIsShown, Moves, Same, Overtaken, Asking, Settling, Refused, Born

\* The core goes past what a scan has drawn only when its script goes on.
LEMMA HadShown ==
  ASSUME CoreSide, NEW x \in Runs, Moves(x), driver[x] # NULL, driver[x].kind = "scan", HasShown(x)'
  PROVE  HasShown(x) /\ at[x] \in {"parked", "over"}
<1>1. obj[x] = NULL <=> at[x] \in {"unborn", "over"} BY DEF CoreSide, Inv, TypeOK
<1>2. /\ obj[x] # NULL => obj[x].kind = "scan" /\ (at[x] = "queued" => obj[x].stage = "none")
      /\ answer[x] # NULL => at[x] # "unborn"
  BY DEF CoreSide, Owned, OwnSession
<1>3. \A a \in Answers : a # NULL BY RunsAreRequests
<1>4. /\ answer[x] = "done" => at[x] = "over"
      /\ answer[x] = "visual" => at[x] \in {"parked", "over"}
  BY DEF CoreSide, Said
<1>5. CASE Same(x) BY <1>4, <1>5 DEF Same, HasShown
<1>6. CASE Overtaken(x) BY <1>4, <1>6 DEF Overtaken, HasShown
<1>7. CASE Asking(x)
  <2>1. at[x] = "parked" /\ obj[x].stage # "none" BY <1>1, <1>2, <1>7 DEF Asking, HasShown
  <2>2. answer[x] # "findings" BY <1>3, <1>7 DEF Asking, Answers
  <2>. QED BY <2>1, <2>2 DEF HasShown
<1>8. CASE Settling(x)
  <2>1. CASE answer'[x] = answer[x] BY <1>4, <1>8, <2>1 DEF Settling, HasShown
  <2>2. CASE answer'[x] # answer[x]
    <3>1. answer[x] = NULL /\ answer'[x] = "done" BY <1>8, <2>2 DEF Settling, HasShown
    <3>2. at[x] = "parked" /\ obj[x].stage # "none" BY <1>1, <1>2, <1>8, <2>2, <3>1 DEF Settling
    <3>3. answer[x] # "findings" BY <1>3, <3>1 DEF Answers
    <3>. QED BY <3>2, <3>3 DEF HasShown
  <2>. QED BY <2>1, <2>2
<1>9. CASE Refused(x) BY <1>9 DEF Refused, HasShown
<1>10. CASE Born(x)
  <2>1. answer[x] = NULL BY <1>2, <1>10 DEF Born
  <2>. QED BY <1>3, <1>10, <2>1 DEF Born, HasShown, Answers
<1>. QED BY <1>5, <1>6, <1>7, <1>8, <1>9, <1>10 DEF Moves

LEMMA CoreKeepsPage ==
  ASSUME CoreSide, PageSide, Inv', CoreMoves, Receipts, Deliver,
         UNCHANGED <<generation, wanted, active, candidates, driver, drawn, reported>>
  PROVE  PageSide'
<1>1. \A x \in Runs : Moves(x) BY DEF CoreMoves
<1>2. /\ Chained /\ Ordered /\ Reading /\ Alone /\ Observed /\ Shown /\ ReportIsDrawn
      /\ driver' = driver /\ wanted' = wanted /\ candidates' = candidates
      /\ drawn' = drawn /\ reported' = reported
  BY DEF PageSide
<1>3. Chained' /\ Ordered' /\ Reading' BY <1>2, ChainedHolds, OrderedHolds, ReadingHolds
<1>4. \A x \in Runs : /\ On(x)' = On(x) /\ Scan(x)' = Scan(x) /\ Candidate(x)' = Candidate(x)
                      /\ Scan(x) => driver[x] # NULL /\ driver[x].kind = "scan"
  BY DEF On, Live, Current, Scan, Candidate
<1>5. \A x, y \in Runs : Mates(x, y)' = Mates(x, y) BY <1>2 DEF Mates
<1>6. Alone' BY <1>2, <1>4, <1>5 DEF Alone
<1>7. \A x \in Runs : ScanIsShown(x) => ScanIsShown(x)' BY <1>1, ShownStays
<1>8. Observed' BY <1>2, <1>4, <1>5, <1>7 DEF Observed
<1>9. ASSUME NEW x \in Runs, Scan(x)', HasShown(x)'
      PROVE  /\ drawn'[driver'[x].tab] = {x}
             /\ \A c \in Runs : c < x /\ Candidate(c)' /\ Mates(x, c)' => answer'[c] # "done"
  <2>1. Scan(x) /\ HasShown(x) /\ at[x] \in {"parked", "over"} BY <1>1, <1>4, <1>9, HadShown
  <2>2. drawn[driver[x].tab] = {x} BY <1>2, <2>1 DEF Shown
  <2>3. ASSUME NEW c \in Runs, c < x, Candidate(c), Mates(x, c) PROVE answer'[c] # "done"
    <3>1. answer[c] # "done" BY <1>2, <2>1, <2>3 DEF Shown
    <3>2. at[c] = "over" BY <1>2, <2>1, <2>3 DEF Ordered, Mates
    <3>3. answer'[c] = answer[c] \/ answer'[c] = "error" BY <1>1, <3>2, OverStays
    <3>. QED BY <3>1, <3>3
  <2>. QED BY <1>2, <1>4, <1>5, <2>2, <2>3
<1>10. ASSUME NEW c \in Runs, Candidate(c)
       PROVE  \/ drawn[driver[c].tab] = driver[c].base
              \/ at'[c] = "over" /\ answer'[c] # "done"
  <2>1. CASE drawn[driver[c].tab] = driver[c].base BY <2>1
  <2>2. CASE at[c] = "over" /\ answer[c] # "done" BY <1>1, <2>2, OverStays
  <2>. QED BY <1>2, <1>10, <2>1, <2>2 DEF Shown
<1>11. Shown' BY <1>2, <1>4, <1>9, <1>10 DEF Shown
<1>12. ReportIsDrawn' BY <1>2 DEF ReportIsDrawn
<1>. QED BY <1>3, <1>6, <1>8, <1>11, <1>12 DEF PageSide

-----------------------------------------------------------------------------
(***************************************************************************)
(* A step of a script keeps the second part of the invariant.              *)
(***************************************************************************)
LEMMA ScriptKeepsOrder ==
  ASSUME CoreSide, Chained, Ordered, Reads, Grown, UNCHANGED chain
  PROVE  Chained' /\ Ordered'
<1>1. \A x \in Runs : at[x] # "unborn" => driver[x] # NULL BY DEF CoreSide, Owned
<1>2. \A x \in Runs : driver[x] # NULL => driver'[x] # NULL /\ driver'[x].tab = driver[x].tab BY DEF Grown
<1>3. at' = at /\ chain' = chain BY DEF Reads
<1>4. \A x, y \in Runs : driver[x] # NULL /\ driver[y] # NULL /\ Mates(x, y)' => Mates(x, y)
  BY <1>2 DEF Mates
<1>5. Chained'
  <2>1. \A x, y \in Runs : Before(chain, x, y) => driver[x] # NULL /\ driver[y] # NULL
    <3>1. \A x, y \in Runs : Before(chain, x, y) => x \in Elems(chain) /\ y \in Elems(chain)
      BY BeforeIn
    <3>2. \A x \in Runs : x \in Elems(chain) => at[x] # "unborn" BY DEF Chained
    <3>. QED BY <1>1, <3>1, <3>2
  <2>2. \A x, y \in Runs : Before(chain, x, y) /\ Mates(x, y)' => x < y BY <1>4, <2>1 DEF Chained
  <2>3. /\ \A r \in Runs : r \in Elems(chain) <=> at[r] \in {"queued", "parked"}
        /\ \A r \in Runs : ~Before(chain, r, r)
    BY DEF Chained
  <2>. QED BY <1>3, <2>2, <2>3 DEF Chained
<1>6. ASSUME NEW x \in Runs, NEW y \in Runs, x < y, Mates(x, y)', at[y] # "unborn"
      PROVE  at[x] # "unborn" /\ (at[y] \in {"parked", "over"} => at[x] = "over")
  <2>1. driver[y] # NULL BY <1>1, <1>6
  <2>2. driver[x] # NULL BY <1>6, <2>1 DEF CoreSide, Numbered
  <2>3. Mates(x, y) BY <1>4, <1>6, <2>1, <2>2
  <2>. QED BY <1>6, <2>3 DEF Ordered
<1>7. Ordered' BY <1>3, <1>6 DEF Ordered
<1>. QED BY <1>5, <1>7

LEMMA ScriptKeepsReading ==
  ASSUME CoreSide, Reading, Grown,
         \A t \in Tabs : \A r \in Elems(inbox'[t]) : r \in Elems(inbox[t]) /\ answer'[r] = answer[r],
         \A t \in Tabs : \A x, y : Before(inbox'[t], x, y) => Before(inbox[t], x, y),
         \A r \in Runs : Live(r)' /\ answer'[r] # NULL => r \in Elems(inbox'[driver'[r].tab])
  PROVE  Reading'
<1>1. ASSUME NEW t \in Tabs, NEW r \in Elems(inbox'[t])
      PROVE  driver'[r] # NULL /\ driver'[r].tab = t /\ answer'[r] # NULL
  <2>1. r \in Elems(inbox[t]) /\ answer'[r] = answer[r] OBVIOUS
  <2>2. driver[r] # NULL /\ driver[r].tab = t /\ answer[r] # NULL BY <2>1 DEF Reading
  <2>3. r \in Runs BY <2>1, ElemsType DEF CoreSide, ClientTypeOK
  <2>. QED BY <2>1, <2>2, <2>3 DEF Grown
<1>2. \A t \in Tabs : \A r \in Runs : ~Before(inbox'[t], r, r) BY DEF Reading
<1>3. ASSUME NEW t \in Tabs, NEW x \in Runs, NEW y \in Runs, Before(inbox'[t], x, y), y < x
      PROVE  answer'[x] = "superseded" \/ answer'[y] = "error"
  <2>1. answer[x] = "superseded" \/ answer[y] = "error" BY <1>3 DEF Reading
  <2>2. x \in Elems(inbox'[t]) /\ y \in Elems(inbox'[t]) BY <1>3, BeforeIn
  <2>. QED BY <2>1, <2>2
<1>. QED BY <1>1, <1>2, <1>3 DEF Reading

\* Nothing is read.
LEMMA ReadsNothing ==
  ASSUME CoreSide, Reading, Grown, UNCHANGED <<inbox, answer>>,
         \A r \in Runs : Live(r)' => Live(r) \/ driver[r] = NULL
  PROVE  Reading'
<1>1. ASSUME NEW r \in Runs, Live(r)', answer[r] # NULL PROVE r \in Elems(inbox[driver'[r].tab])
  <2>1. driver[r] # NULL BY <1>1 DEF CoreSide, Owned
  <2>2. Live(r) BY <1>1, <2>1
  <2>3. driver'[r].tab = driver[r].tab BY <2>1 DEF Grown
  <2>. QED BY <1>1, <2>2, <2>3 DEF Reading
<1>. QED BY <1>1, ScriptKeepsReading

\* The driver reads the answer that is next.
LEMMA TakeReads ==
  ASSUME CoreSide, NEW r \in Runs, Take(r)
  PROVE  /\ answer'[r] = NULL /\ UNCHANGED <<chain, wanted, generation>>
         /\ \A x \in Runs : x # r => answer'[x] = answer[x]
BY RunsAreRequests DEF Take, Read, CoreSide, Inv, TypeOK

LEMMA TakeKeepsOrder ==
  ASSUME CoreSide, PageSide, Grown, NEW r \in Runs, Take(r),
         \A x \in Runs : Live(x)' => Live(x)
  PROVE  /\ Chained' /\ Ordered' /\ Reading'
         /\ \A x \in Runs : Live(x) /\ answer[x] # NULL /\ x # r /\ driver[x].tab = driver[r].tab =>
              Before(inbox[driver[r].tab], r, x)
<1> DEFINE t == driver[r].tab
<1>1. /\ Live(r) /\ driver[r] # NULL /\ t \in Tabs
      /\ inbox[t] # <<>> /\ Head(inbox[t]) = r
      /\ inbox' = [inbox EXCEPT ![t] = Tail(inbox[t])]
      /\ answer[r] # NULL /\ Reads
  BY TakeIs
<1>2. /\ Chained /\ Ordered /\ Reading /\ inbox \in [Tabs -> Seq(Runs)]
  BY DEF PageSide, CoreSide, ClientTypeOK
<1>3. t = driver[r].tab OBVIOUS
<1> HIDE DEF t
<1>4. inbox'[t] = Tail(inbox[t]) /\ \A u \in Tabs : u # t => inbox'[u] = inbox[u] BY <1>1, <1>2
<1>5. /\ Elems(inbox[t]) = {r} \cup Elems(inbox'[t])
      /\ \A a, b : Before(inbox'[t], a, b) => Before(inbox[t], a, b)
      /\ \A b \in Elems(inbox'[t]) : Before(inbox[t], r, b)
  BY <1>1, <1>2, <1>4, TailElems
<1>6. answer'[r] = NULL /\ chain' = chain /\ \A x \in Runs : x # r => answer'[x] = answer[x] BY TakeReads
<1>7. \A u \in Tabs : Elems(inbox[u]) \subseteq Runs BY <1>2, ElemsType
<1>8. ASSUME NEW u \in Tabs, NEW x \in Elems(inbox'[u]) PROVE x \in Elems(inbox[u]) /\ x # r
  <2>1. CASE u = t BY <1>1, <1>2, <1>5, <1>8, <2>1 DEF Reading
  <2>2. CASE u # t
    <3>1. x \in Elems(inbox[u]) BY <1>4, <1>8, <2>2
    <3>. QED BY <1>2, <1>3, <2>2, <3>1 DEF Reading
  <2>. QED BY <2>1, <2>2
<1>9. \A u \in Tabs : \A a, b : Before(inbox'[u], a, b) => Before(inbox[u], a, b) BY <1>4, <1>5
<1>10. ASSUME NEW x \in Runs, Live(x)', answer'[x] # NULL PROVE x \in Elems(inbox'[driver'[x].tab])
  <2>1. Live(x) /\ x # r /\ answer[x] # NULL BY <1>6, <1>10
  <2>2. driver[x] # NULL /\ driver[x].tab \in Tabs BY <2>1, DriverIs DEF Live
  <2>3. driver'[x].tab = driver[x].tab BY <2>2 DEF Grown
  <2>4. x \in Elems(inbox[driver[x].tab]) BY <1>2, <2>1 DEF Reading
  <2>. QED BY <1>4, <1>5, <2>1, <2>2, <2>3, <2>4
<1>11. Reading' BY <1>2, <1>6, <1>7, <1>8, <1>9, <1>10, ScriptKeepsReading
<1>12. Chained' /\ Ordered' BY <1>1, <1>2, <1>6, ScriptKeepsOrder
<1>13. ASSUME NEW x \in Runs, Live(x), answer[x] # NULL, x # r, driver[x].tab = t
       PROVE  Before(inbox[t], r, x)
  <2>1. x \in Elems(inbox[t]) BY <1>2, <1>13 DEF Reading
  <2>. QED BY <1>5, <1>13, <2>1
<1>. QED BY <1>3, <1>11, <1>12, <1>13

\* Nothing is drawn for a driver that is still on, and nothing new is wanted
\* or observed in its tab.
Quiet(x) ==
  /\ On(x) /\ driver'[x].base = driver[x].base
  /\ answer'[x] = answer[x] \/ (answer[x] = "ask" /\ answer'[x] = NULL)
  /\ drawn'[driver[x].tab] = drawn[driver[x].tab]
  /\ candidates'[driver[x].tab] => candidates[driver[x].tab]
  /\ wanted'[driver[x].tab] => wanted[driver[x].tab]

\* What was on is on with the same tab and kind.
LEMMA SameScan ==
  ASSUME Grown, NEW x \in Runs, On(x)
  PROVE  /\ driver[x] # NULL /\ driver'[x] # NULL
         /\ driver'[x].tab = driver[x].tab /\ driver'[x].kind = driver[x].kind
BY DEF Grown, On, Live

LEMMA QuietShown ==
  ASSUME Reads, NEW x \in Runs, Quiet(x)
  PROVE  /\ ScanIsShown(x) => ScanIsShown(x)'
         /\ HasShown(x)' => HasShown(x)
         /\ answer'[x] = "done" => answer[x] = "done"
<1>1. \A a \in Answers : a # NULL BY RunsAreRequests
<1>2. NULL \notin {"findings", "visual", "done"} BY <1>1 DEF Answers
<1>. QED BY <1>2 DEF Reads, Quiet, ScanIsShown, HasShown

LEMMA QuietPage ==
  ASSUME CoreSide, PageSide, Reads, Grown, \A x \in Runs : On(x)' => Quiet(x)
  PROVE  Alone' /\ Observed' /\ Shown'
<1>1. Alone /\ Observed /\ Shown BY DEF PageSide
<1>2. ASSUME NEW x \in Runs, On(x)'
      PROVE  /\ On(x) /\ Quiet(x) /\ driver[x] # NULL /\ driver'[x] # NULL
             /\ driver'[x].tab = driver[x].tab /\ driver'[x].kind = driver[x].kind
             /\ Scan(x)' => Scan(x)
             /\ Candidate(x)' => Candidate(x)
  BY <1>2, SameScan DEF Quiet, Scan, Candidate
<1>3. \A x \in Runs : Scan(x)' => On(x)' BY DEF Scan
<1>4. \A x \in Runs : Candidate(x)' => On(x)' BY DEF Candidate
<1>5. \A x, y \in Runs : On(x)' /\ On(y)' /\ Mates(x, y)' => Mates(x, y) BY <1>2 DEF Mates
<1>6. Alone'
  <2>1. \A x, y \in Runs : Scan(x)' /\ Scan(y)' /\ Mates(x, y)' => x = y
    BY <1>1, <1>2, <1>3, <1>5 DEF Alone
  <2>2. \A x, y \in Runs : Candidate(x)' /\ Candidate(y)' /\ Mates(x, y)' => x = y
    BY <1>1, <1>2, <1>4, <1>5 DEF Alone
  <2>3. \A x \in Runs : Scan(x)' => ~wanted'[driver'[x].tab]
    BY <1>1, <1>2, <1>3 DEF Alone, Quiet
  <2>. QED BY <2>1, <2>2, <2>3 DEF Alone
<1>7. Observed'
  <2> SUFFICES ASSUME NEW x \in Runs, Scan(x)',
                      candidates'[driver'[x].tab] \/ \E c \in Runs : Candidate(c)' /\ Mates(x, c)' /\ x < c
               PROVE  ScanIsShown(x)'
    BY DEF Observed
  <2>1. On(x)' /\ Scan(x) /\ Quiet(x) /\ driver'[x].tab = driver[x].tab BY <1>2, <1>3
  <2>2. candidates'[driver'[x].tab] => candidates[driver[x].tab] BY <2>1 DEF Quiet
  <2>3. \A c \in Runs : Candidate(c)' /\ Mates(x, c)' => Candidate(c) /\ Mates(x, c)
    BY <1>2, <1>4, <1>5, <2>1
  <2>4. ScanIsShown(x) BY <1>1, <2>1, <2>2, <2>3 DEF Observed
  <2>. QED BY <2>1, <2>4, QuietShown
<1>8. ASSUME NEW x \in Runs, Scan(x)', HasShown(x)'
      PROVE  /\ drawn'[driver'[x].tab] = {x}
             /\ \A c \in Runs : c < x /\ Candidate(c)' /\ Mates(x, c)' => answer'[c] # "done"
  <2>1. On(x)' /\ Scan(x) /\ Quiet(x) /\ driver'[x].tab = driver[x].tab BY <1>2, <1>3, <1>8
  <2>2. HasShown(x) BY <1>8, <2>1, QuietShown
  <2>3. drawn'[driver'[x].tab] = {x} BY <1>1, <2>1, <2>2 DEF Shown, Quiet
  <2>4. ASSUME NEW c \in Runs, c < x, Candidate(c)', Mates(x, c)' PROVE answer'[c] # "done"
    <3>1. Candidate(c) /\ Mates(x, c) /\ Quiet(c) BY <1>2, <1>4, <1>5, <2>1, <2>4
    <3>2. answer[c] # "done" BY <1>1, <2>1, <2>2, <2>4, <3>1 DEF Shown
    <3>. QED BY <3>1, <3>2, QuietShown
  <2>. QED BY <2>3, <2>4
<1>9. ASSUME NEW c \in Runs, Candidate(c)'
      PROVE  \/ drawn'[driver'[c].tab] = driver'[c].base
             \/ at'[c] = "over" /\ answer'[c] # "done"
  <2>1. Candidate(c) /\ Quiet(c) /\ driver'[c].tab = driver[c].tab BY <1>2, <1>4, <1>9
  <2>2. \/ drawn[driver[c].tab] = driver[c].base
        \/ at[c] = "over" /\ answer[c] # "done"
    BY <1>1, <2>1 DEF Shown
  <2>3. answer'[c] = "done" => answer[c] = "done" BY <2>1, QuietShown
  <2>. QED BY <2>1, <2>2, <2>3 DEF Quiet, Reads
<1>10. Shown' BY <1>8, <1>9 DEF Shown
<1>. QED BY <1>6, <1>7, <1>10

\* Who is on after a driver stops, goes on or is told to stop.
LEMMA StopLeaves ==
  ASSUME CoreSide, NEW r \in Runs, Live(r), NEW where \in {"over", "failed"}, Stop(r, where),
         UNCHANGED generation
  PROVE  /\ Grown
         /\ \A x \in Runs : Live(x)' => Live(x)
         /\ \A x \in Runs : On(x)' => On(x) /\ x # r /\ driver'[x] = driver[x]
         /\ \A x \in Runs : x # r => On(x)' = On(x)
<1>1. /\ driver'[r] \in Driver /\ driver'[r].tab = driver[r].tab /\ driver'[r].kind = driver[r].kind
      /\ driver'[r].at = where
      /\ \A x \in Runs : x # r => driver'[x] = driver[x]
  BY StopIs
<1>2. Grown BY <1>1, RunsAreRequests DEF Grown
<1>3. ~Live(r)' /\ ~On(r)' BY <1>1 DEF Live, On
<1>4. \A x \in Runs : x # r => Live(x)' = Live(x) /\ On(x)' = On(x) BY <1>1 DEF Live, On, Current
<1>. QED BY <1>1, <1>2, <1>3, <1>4

LEMMA GoesLeaves ==
  ASSUME CoreSide, NEW r \in Runs, Live(r), NEW where \in {"waiting", "answering"},
         driver' = [driver EXCEPT ![r].at = where], UNCHANGED generation
  PROVE  /\ Grown
         /\ \A x \in Runs : Live(x)' = Live(x) /\ On(x)' = On(x)
         /\ \A x \in Runs : On(x) => driver'[x].base = driver[x].base
<1> DEFINE e == [driver[r] EXCEPT !.at = where]
<1>1. driver[r] # NULL /\ driver[r] \in Driver BY DriverIs DEF Live
<1>2. /\ e \in Driver /\ e.tab = driver[r].tab /\ e.kind = driver[r].kind /\ e.at = where
      /\ e.generation = driver[r].generation /\ e.base = driver[r].base
  BY <1>1 DEF Driver
<1>3. driver \in [Runs -> Driver \cup {NULL}] BY DEF CoreSide, ClientTypeOK
<1>4. driver' = [driver EXCEPT ![r] = e] OBVIOUS
<1> HIDE DEF e
<1>5. driver'[r] = e /\ \A x \in Runs : x # r => driver'[x] = driver[x] BY <1>3, <1>4
<1>6. e # NULL BY <1>2, RunsAreRequests
<1>7. Grown BY <1>2, <1>5, <1>6 DEF Grown
<1>8. Live(r)' = Live(r) /\ Current(r)' = Current(r) BY <1>2, <1>5, <1>6 DEF Live, Current
<1>9. \A x \in Runs : x # r => Live(x)' = Live(x) /\ Current(x)' = Current(x) BY <1>5 DEF Live, Current
<1>10. \A x \in Runs : Live(x)' = Live(x) /\ Current(x)' = Current(x) BY <1>8, <1>9
<1>12. \A x \in Runs : On(x)' = On(x) BY <1>10 DEF On
<1>11. \A x \in Runs : driver'[x].base = driver[x].base BY <1>2, <1>5
<1>. QED BY <1>7, <1>10, <1>11, <1>12

LEMMA GenerationLeaves ==
  ASSUME CoreSide, NEW t \in Tabs, NextGeneration(t), UNCHANGED driver
  PROVE  \A x \in Runs : On(x)' => On(x) /\ driver[x].tab # t
<1> SUFFICES ASSUME NEW x \in Runs, On(x)' PROVE On(x) /\ driver[x].tab # t OBVIOUS
<1>1. Live(x) /\ driver[x] # NULL BY DEF On, Live
<1>2. driver[x] \in Driver /\ driver[x].tab \in Tabs BY <1>1, DriverIs
<1>3. generation \in [Tabs -> Nat] BY DEF CoreSide, ClientTypeOK
<1>4. generation'[t] = generation[t] + 1 /\ \A u \in Tabs : u # t => generation'[u] = generation[u]
  BY <1>3 DEF NextGeneration
<1>5. driver[x].generation = generation'[driver[x].tab] BY DEF On, Current
<1>6. driver[x].tab # t
  <2>1. SUFFICES ASSUME driver[x].tab = t PROVE FALSE OBVIOUS
  <2>2. driver[x].generation <= generation[t] /\ generation[t] \in Nat
    BY <1>1, <1>3, <2>1 DEF CoreSide, Actives
  <2>3. driver[x].generation = generation[t] + 1 BY <1>4, <1>5, <2>1
  <2>. QED BY <2>2, <2>3
<1>. QED BY <1>1, <1>2, <1>4, <1>5, <1>6 DEF On, Current

LEMMA IdleKeepsOrder ==
  ASSUME CoreSide, PageSide, Grown, UNCHANGED <<coreVars, inbox>>,
         \A r \in Runs : Live(r)' => Live(r) \/ driver[r] = NULL
  PROVE  Reads /\ Chained' /\ Ordered' /\ Reading'
<1>1. Reads /\ chain' = chain /\ answer' = answer /\ inbox' = inbox BY ScriptReads DEF coreVars
<1>2. Chained /\ Ordered /\ Reading BY DEF PageSide
<1>. QED BY <1>1, <1>2, ScriptKeepsOrder, ReadsNothing

LEMMA RunScanPage == ASSUME CoreSide, PageSide, NEW t \in Tabs, RunScan(t) PROVE PageSide'
<1>1. /\ NextGeneration(t) /\ wanted' = [wanted EXCEPT ![t] = TRUE]
      /\ UNCHANGED <<coreVars, candidates, driver, inbox, drawn, reported>>
  BY DEF RunScan
<1>2. Grown /\ \A r \in Runs : Live(r)' => Live(r) BY <1>1 DEF Grown, Live
<1>3. Reads /\ Chained' /\ Ordered' /\ Reading' BY <1>1, <1>2, IdleKeepsOrder
<1>4. wanted \in [Tabs -> BOOLEAN] BY DEF CoreSide, ClientTypeOK
<1>5. ASSUME NEW x \in Runs, On(x)' PROVE Quiet(x)
  <2>1. On(x) /\ driver[x].tab # t /\ driver[x].tab \in Tabs
    BY <1>1, <1>5, GenerationLeaves, DriverIs DEF On, Live
  <2>2. wanted'[driver[x].tab] = wanted[driver[x].tab] BY <1>1, <1>4, <2>1
  <2>. QED BY <1>1, <2>1, <2>2 DEF Quiet, coreVars
<1>6. Alone' /\ Observed' /\ Shown' BY <1>2, <1>3, <1>5, QuietPage
<1>7. ReportIsDrawn' BY <1>1 DEF PageSide, ReportIsDrawn
<1>. QED BY <1>3, <1>6, <1>7 DEF PageSide

LEMMA InvalidatePage == ASSUME CoreSide, PageSide, NEW t \in Tabs, Invalidate(t) PROVE PageSide'
<1>1. /\ NextGeneration(t) /\ wanted' = [wanted EXCEPT ![t] = FALSE]
      /\ candidates' = [candidates EXCEPT ![t] = FALSE]
      /\ drawn' = [drawn EXCEPT ![t] = {}] \/ drawn' = drawn
      /\ UNCHANGED <<coreVars, driver, inbox, reported>>
  BY DEF Invalidate
<1>2. Grown /\ \A r \in Runs : Live(r)' => Live(r) BY <1>1 DEF Grown, Live
<1>3. Reads /\ Chained' /\ Ordered' /\ Reading' BY <1>1, <1>2, IdleKeepsOrder
<1>4. /\ wanted \in [Tabs -> BOOLEAN] /\ candidates \in [Tabs -> BOOLEAN]
      /\ drawn \in [Tabs -> SUBSET Runs]
  BY DEF CoreSide, ClientTypeOK
<1>5. ASSUME NEW x \in Runs, On(x)' PROVE Quiet(x)
  <2>1. On(x) /\ driver[x].tab # t /\ driver[x].tab \in Tabs
    BY <1>1, <1>5, GenerationLeaves, DriverIs DEF On, Live
  <2>2. /\ wanted'[driver[x].tab] = wanted[driver[x].tab]
        /\ candidates'[driver[x].tab] = candidates[driver[x].tab]
        /\ drawn'[driver[x].tab] = drawn[driver[x].tab]
    BY <1>1, <1>4, <2>1
  <2>. QED BY <1>1, <2>1, <2>2 DEF Quiet, coreVars
<1>6. Alone' /\ Observed' /\ Shown' BY <1>2, <1>3, <1>5, QuietPage
<1>7. ReportIsDrawn'
  <2>1. \A u \in Tabs : drawn'[u] = drawn[u] \/ drawn'[u] = {} BY <1>1, <1>4
  <2>. QED BY <1>1, <2>1 DEF PageSide, ReportIsDrawn
<1>. QED BY <1>3, <1>6, <1>7 DEF PageSide

LEMMA NavigatePage == ASSUME CoreSide, PageSide, NEW t \in Tabs, Navigate(t) PROVE PageSide'
<1>1. /\ \A x \in Runs : (driver'[x] # NULL) = (driver[x] # NULL)
      /\ \A x \in Runs : driver[x] # NULL =>
           driver'[x].tab = driver[x].tab /\ driver'[x].kind = driver[x].kind
      /\ \A x \in Runs : ~(Live(x) /\ driver[x].tab = t) => driver'[x] = driver[x]
      /\ \A x \in Runs : Live(x) /\ driver[x].tab = t => driver'[x].at = "gone"
      /\ UNCHANGED <<coreVars, generation>>
  BY NavigateIs
<1>2. /\ wanted' = [wanted EXCEPT ![t] = FALSE] /\ candidates' = [candidates EXCEPT ![t] = FALSE]
      /\ inbox' = [inbox EXCEPT ![t] = <<>>]
      /\ drawn' = [drawn EXCEPT ![t] = {}] /\ reported' = [reported EXCEPT ![t] = {}]
  BY DEF Navigate, Show
<1>3. /\ PageTypes /\ Reading /\ Chained /\ Ordered /\ ReportIsDrawn
  BY Types DEF PageSide
<1>4. Grown BY <1>1 DEF Grown
<1>5. Reads /\ chain' = chain /\ answer' = answer BY <1>1, ScriptReads DEF coreVars
<1>6. \A x \in Runs : Live(x)' =>
        Live(x) /\ driver[x] # NULL /\ driver[x].tab # t /\ driver'[x] = driver[x]
  BY <1>1 DEF Live
<1>7. Chained' /\ Ordered' BY <1>3, <1>4, <1>5, ScriptKeepsOrder
<1>8. inbox'[t] = <<>> /\ \A u \in Tabs : u # t => inbox'[u] = inbox[u] BY <1>2, <1>3 DEF PageTypes
<1>9. Reading'
  <2>1. ASSUME NEW u \in Tabs, NEW r \in Elems(inbox'[u]) PROVE r \in Elems(inbox[u]) /\ answer'[r] = answer[r]
    BY <1>5, <1>8, <2>1, NoElems
  <2>2. \A u \in Tabs : \A x, y : Before(inbox'[u], x, y) => Before(inbox[u], x, y)
    BY <1>8, NoElems
  <2>3. ASSUME NEW r \in Runs, Live(r)', answer'[r] # NULL PROVE r \in Elems(inbox'[driver'[r].tab])
    <3>1. Live(r) /\ driver[r].tab # t /\ driver'[r] = driver[r] /\ driver[r].tab \in Tabs
      BY <1>6, <2>3, DriverIs
    <3>2. r \in Elems(inbox[driver[r].tab]) BY <1>3, <1>5, <2>3, <3>1 DEF Reading
    <3>. QED BY <1>8, <3>1, <3>2
  <2>. QED BY <1>3, <1>4, <2>1, <2>2, <2>3, ScriptKeepsReading
<1>10. ASSUME NEW x \in Runs, On(x)' PROVE Quiet(x)
  <2>1. On(x) /\ driver[x].tab # t /\ driver'[x] = driver[x] /\ driver[x].tab \in Tabs
    BY <1>1, <1>6, <1>10, DriverIs DEF On, Current
  <2>2. /\ wanted'[driver[x].tab] = wanted[driver[x].tab]
        /\ candidates'[driver[x].tab] = candidates[driver[x].tab]
        /\ drawn'[driver[x].tab] = drawn[driver[x].tab]
    BY <1>2, <1>3, <2>1 DEF PageTypes
  <2>. QED BY <1>5, <2>1, <2>2 DEF Quiet
<1>11. Alone' /\ Observed' /\ Shown' BY <1>4, <1>5, <1>10, QuietPage
<1>12. ReportIsDrawn' BY <1>2, <1>3 DEF ReportIsDrawn, PageTypes
<1>. QED BY <1>7, <1>9, <1>11, <1>12 DEF PageSide

\* A driver stops, whatever it was told, and draws nothing.
LEMMA StopsQuietly ==
  ASSUME CoreSide, PageSide, NEW r \in Runs, Live(r), NEW where \in {"over", "failed"}, Stop(r, where),
         Reads, UNCHANGED <<generation, wanted, candidates, drawn>>,
         \A x \in Runs : x # r => answer'[x] = answer[x]
  PROVE  Alone' /\ Observed' /\ Shown'
<1>1. /\ Grown
      /\ \A x \in Runs : On(x)' => On(x) /\ x # r /\ driver'[x] = driver[x]
  BY StopLeaves
<1>2. \A x \in Runs : On(x)' => Quiet(x) BY <1>1 DEF Quiet
<1>. QED BY <1>1, <1>2, QuietPage

LEMMA TakeStopsPage ==
  ASSUME CoreSide, PageSide, NEW r \in Runs, Take(r), Stop(r, "over"),
         UNCHANGED <<candidates, drawn>>, ReportIsDrawn'
  PROVE  PageSide'
<1>1. Live(r) /\ Reads /\ UNCHANGED <<generation, wanted>> BY TakeIs
<1>2. Grown /\ \A x \in Runs : Live(x)' => Live(x) BY <1>1, StopLeaves
<1>3. Chained' /\ Ordered' /\ Reading' BY <1>2, TakeKeepsOrder
<1>4. \A x \in Runs : x # r => answer'[x] = answer[x] BY TakeReads
<1>5. Alone' /\ Observed' /\ Shown' BY <1>1, <1>4, StopsQuietly
<1>. QED BY <1>3, <1>5 DEF PageSide

LEMMA TakeStalePage == ASSUME CoreSide, PageSide, NEW r \in Runs, TakeStale(r) PROVE PageSide'
<1>1. Take(r) /\ Stop(r, "over") /\ UNCHANGED <<candidates, drawn, reported>> BY DEF TakeStale
<1>2. ReportIsDrawn' BY <1>1 DEF PageSide, ReportIsDrawn
<1>. QED BY <1>1, <1>2, TakeStopsPage

LEMMA TakeEndPage == ASSUME CoreSide, PageSide, NEW r \in Runs, TakeEnd(r) PROVE PageSide'
<1>1. Take(r) /\ Stop(r, "over") /\ UNCHANGED <<candidates, drawn, reported>> BY DEF TakeEnd
<1>2. ReportIsDrawn' BY <1>1 DEF PageSide, ReportIsDrawn
<1>. QED BY <1>1, <1>2, TakeStopsPage

LEMMA TakeAskPage == ASSUME CoreSide, PageSide, NEW r \in Runs, TakeAsk(r) PROVE PageSide'
<1>1. /\ Take(r) /\ answer[r] = "ask" /\ driver' = [driver EXCEPT ![r].at = "answering"]
      /\ UNCHANGED <<candidates, drawn, reported>>
  BY DEF TakeAsk
<1>2. Live(r) /\ Reads /\ UNCHANGED <<generation, wanted>> BY <1>1, TakeIs
<1>3. /\ Grown /\ \A x \in Runs : Live(x)' = Live(x) /\ On(x)' = On(x)
      /\ \A x \in Runs : On(x) => driver'[x].base = driver[x].base
  BY <1>1, <1>2, GoesLeaves
<1>4. Chained' /\ Ordered' /\ Reading' BY <1>1, <1>3, TakeKeepsOrder
<1>5. answer'[r] = NULL /\ \A x \in Runs : x # r => answer'[x] = answer[x] BY <1>1, TakeReads
<1>6. \A x \in Runs : On(x)' => Quiet(x) BY <1>1, <1>2, <1>3, <1>5 DEF Quiet
<1>7. Alone' /\ Observed' /\ Shown' BY <1>2, <1>3, <1>6, QuietPage
<1>8. ReportIsDrawn' BY <1>1 DEF PageSide, ReportIsDrawn
<1>. QED BY <1>4, <1>7, <1>8 DEF PageSide

LEMMA DriverThrowsPage == ASSUME CoreSide, PageSide, NEW r \in Runs, DriverThrows(r) PROVE PageSide'
<1>1. /\ Live(r) /\ Stop(r, "failed")
      /\ UNCHANGED <<coreVars, generation, wanted, candidates, inbox, drawn, reported>>
  BY DEF DriverThrows
<1>2. Grown /\ \A x \in Runs : Live(x)' => Live(x) BY <1>1, StopLeaves
<1>3. Reads /\ Chained' /\ Ordered' /\ Reading' BY <1>1, <1>2, IdleKeepsOrder
<1>4. answer' = answer BY <1>1 DEF coreVars
<1>5. Alone' /\ Observed' /\ Shown' BY <1>1, <1>3, <1>4, StopsQuietly
<1>6. ReportIsDrawn' BY <1>1 DEF PageSide, ReportIsDrawn
<1>. QED BY <1>3, <1>5, <1>6 DEF PageSide

LEMMA AnswerAskPage == ASSUME CoreSide, PageSide, NEW r \in Runs, AnswerAsk(r) PROVE PageSide'
<1>1. /\ Live(r)
      /\ UNCHANGED <<coreVars, generation, wanted, candidates, inbox, drawn, reported>>
  BY DEF AnswerAsk
<1>2. answer' = answer BY <1>1 DEF coreVars
<1>3. ReportIsDrawn' BY <1>1 DEF PageSide, ReportIsDrawn
<1>4. CASE Continue(r)
  <2>1. driver' = [driver EXCEPT ![r].at = "waiting"] BY <1>4 DEF Continue
  <2>2. /\ Grown /\ \A x \in Runs : Live(x)' = Live(x) /\ On(x)' = On(x)
        /\ \A x \in Runs : On(x) => driver'[x].base = driver[x].base
    BY <1>1, <2>1, GoesLeaves
  <2>3. Reads /\ Chained' /\ Ordered' /\ Reading' BY <1>1, <2>2, IdleKeepsOrder
  <2>4. \A x \in Runs : On(x)' => Quiet(x) BY <1>1, <1>2, <2>2 DEF Quiet
  <2>5. Alone' /\ Observed' /\ Shown' BY <2>2, <2>3, <2>4, QuietPage
  <2>. QED BY <1>3, <2>3, <2>5 DEF PageSide
<1>5. CASE Stop(r, "over")
  <2>1. Grown /\ \A x \in Runs : Live(x)' => Live(x) BY <1>1, <1>5, StopLeaves
  <2>2. Reads /\ Chained' /\ Ordered' /\ Reading' BY <1>1, <2>1, IdleKeepsOrder
  <2>3. Alone' /\ Observed' /\ Shown' BY <1>1, <1>2, <1>5, <2>2, StopsQuietly
  <2>. QED BY <1>3, <2>2, <2>3 DEF PageSide
<1>. QED BY <1>4, <1>5 DEF AnswerAsk

\* A scan draws its next stage: no candidate of it has started yet, and those
\* of the scan before, whose sessions are over, have nothing left to merge.
LEMMA TakeStagePage == ASSUME CoreSide, PageSide, NEW r \in Runs, TakeStage(r) PROVE PageSide'
<1> DEFINE t == driver[r].tab
<1>1. /\ Take(r) /\ Current(r) /\ answer[r] \in {"findings", "visual"} /\ Continue(r)
      /\ drawn' = [drawn EXCEPT ![t] = {r}] /\ reported' = [reported EXCEPT ![t] = {r}]
  BY DEF TakeStage, Show
<1>2. PICK lazy \in BOOLEAN :
        /\ lazy => answer[r] = "visual"
        /\ candidates' = [candidates EXCEPT ![t] = IF answer[r] = "visual" THEN lazy ELSE candidates[t]]
  BY DEF TakeStage
<1>3. /\ Live(r) /\ On(r) /\ Reads /\ UNCHANGED <<generation, wanted>> /\ t \in Tabs /\ driver[r] # NULL
  BY <1>1, TakeIs DEF On
<1>4. t = driver[r].tab OBVIOUS
<1> HIDE DEF t
<1>5. /\ Grown /\ \A x \in Runs : Live(x)' = Live(x) /\ On(x)' = On(x)
      /\ \A x \in Runs : On(x) => driver'[x].base = driver[x].base
  <2>1. driver' = [driver EXCEPT ![r].at = "waiting"] BY <1>1 DEF Continue
  <2>. QED BY <1>3, <2>1, GoesLeaves
<1>6. /\ Chained' /\ Ordered' /\ Reading'
      /\ \A x \in Runs : Live(x) /\ answer[x] # NULL /\ x # r /\ driver[x].tab = t => Before(inbox[t], r, x)
  BY <1>1, <1>4, <1>5, TakeKeepsOrder
<1>7. /\ answer'[r] = NULL /\ \A x \in Runs : x # r => answer'[x] = answer[x]
  BY <1>1, TakeReads
<1>8. /\ PageTypes /\ Alone /\ Observed /\ Shown /\ ReportIsDrawn /\ Ordered /\ Reading
  BY Types DEF PageSide
<1>9. Scan(r) /\ at[r] \in {"parked", "over"} /\ (answer[r] = "visual" /\ at[r] = "parked" => obj[r].stage = "visual")
  BY <1>1, <1>3 DEF CoreSide, Said, Scan
<1>10. ~ScanIsShown(r) BY <1>1 DEF ScanIsShown
<1>11. ~candidates[t] /\ ~\E c \in Runs : Candidate(c) /\ Mates(r, c) /\ r < c
  BY <1>4, <1>8, <1>9, <1>10 DEF Observed
<1>12. /\ drawn'[t] = {r} /\ reported'[t] = {r}
       /\ \A u \in Tabs : u # t => /\ drawn'[u] = drawn[u] /\ reported'[u] = reported[u]
                                   /\ candidates'[u] = candidates[u]
       /\ candidates'[t] => answer[r] = "visual"
  <2>1. candidates'[t] = IF answer[r] = "visual" THEN lazy ELSE candidates[t]
    BY <1>2, <1>3, <1>8 DEF PageTypes
  <2>. QED BY <1>1, <1>2, <1>3, <1>8, <1>11, <2>1 DEF PageTypes
<1>13. ASSUME NEW x \in Runs, On(x)
       PROVE  /\ driver[x] # NULL /\ driver'[x] # NULL /\ driver[x].tab \in Tabs
              /\ driver'[x].tab = driver[x].tab /\ driver'[x].kind = driver[x].kind
              /\ driver'[x].base = driver[x].base
              /\ Scan(x)' = Scan(x) /\ Candidate(x)' = Candidate(x)
  BY <1>5, <1>13, SameScan, DriverIs DEF Scan, Candidate
<1>14. /\ \A x \in Runs : Scan(x)' => Scan(x) /\ On(x)
       /\ \A x \in Runs : Candidate(x)' => Candidate(x) /\ On(x)
       /\ \A x, y \in Runs : On(x) /\ On(y) /\ Mates(x, y)' => Mates(x, y)
  BY <1>5, <1>13 DEF Scan, Candidate, Mates
<1>15. \A x \in Runs : Scan(x) /\ driver[x].tab = t => x = r
  BY <1>3, <1>4, <1>8, <1>9, <1>13 DEF Alone, Mates, Scan
<1>16. \A c \in Runs : Candidate(c) /\ driver[c].tab = t => c < r /\ at[c] = "over" /\ answer[c] # "done"
  <2> SUFFICES ASSUME NEW c \in Runs, Candidate(c), driver[c].tab = t
               PROVE  c < r /\ at[c] = "over" /\ answer[c] # "done"
    OBVIOUS
  <2>1. driver[c] # NULL /\ Live(c) /\ c # r BY <1>9, <1>13 DEF Candidate, Scan, On
  <2>2. Mates(r, c) /\ Mates(c, r) BY <1>3, <1>4, <2>1 DEF Mates
  <2>3. c < r
    <3>1. \A a, b \in Runs : a < b \/ a = b \/ b < a BY RunsAreRequests
    <3>. QED BY <1>11, <2>1, <2>2, <3>1
  <2>4. at[c] = "over" BY <1>8, <1>9, <2>2, <2>3 DEF Ordered
  <2>5. answer[c] # "done"
    <3>1. SUFFICES ASSUME answer[c] = "done" PROVE FALSE OBVIOUS
    <3>2. "done" # NULL BY RunsAreRequests DEF Answers
    <3>3. Before(inbox[t], r, c) BY <1>6, <2>1, <3>1, <3>2
    <3>4. answer[r] = "superseded" \/ answer[c] = "error" BY <1>3, <1>8, <2>3, <3>3 DEF Reading
    <3>. QED BY <1>1, <3>1, <3>4
  <2>. QED BY <2>3, <2>4, <2>5
<1>17. ASSUME NEW x \in Runs, On(x), driver[x].tab # t
       PROVE  Quiet(x)
  <2>1. x # r /\ driver[x].tab \in Tabs BY <1>4, <1>13, <1>17
  <2>. QED BY <1>3, <1>7, <1>12, <1>13, <1>17, <2>1 DEF Quiet
<1>18. Alone' BY <1>3, <1>8, <1>13, <1>14 DEF Alone
<1>19. Observed'
  <2> SUFFICES ASSUME NEW x \in Runs, Scan(x)',
                      candidates'[driver'[x].tab] \/ \E c \in Runs : Candidate(c)' /\ Mates(x, c)' /\ x < c
               PROVE  ScanIsShown(x)'
    BY DEF Observed
  <2>1. Scan(x) /\ On(x) /\ driver'[x].tab = driver[x].tab /\ driver[x].tab \in Tabs BY <1>13, <1>14
  <2>2. \A c \in Runs : Candidate(c)' /\ Mates(x, c)' => Candidate(c) /\ Mates(x, c)
    BY <1>14, <2>1
  <2>3. CASE driver[x].tab = t
    <3>1. x = r BY <1>15, <2>1, <2>3
    <3>2. answer[r] = "visual" BY <1>11, <1>12, <2>1, <2>2, <2>3, <3>1
    <3>3. NULL \notin {"findings", "visual"} BY RunsAreRequests DEF Answers
    <3>. QED BY <1>3, <1>7, <1>9, <3>1, <3>2, <3>3 DEF ScanIsShown, Reads
  <2>4. CASE driver[x].tab # t
    <3>1. Quiet(x) BY <1>17, <2>1, <2>4
    <3>2. ScanIsShown(x) BY <1>8, <1>12, <2>1, <2>2, <2>4 DEF Observed
    <3>. QED BY <1>3, <3>1, <3>2, QuietShown
  <2>. QED BY <2>3, <2>4
<1>20. ASSUME NEW x \in Runs, Scan(x)', HasShown(x)'
       PROVE  /\ drawn'[driver'[x].tab] = {x}
              /\ \A c \in Runs : c < x /\ Candidate(c)' /\ Mates(x, c)' => answer'[c] # "done"
  <2>1. Scan(x) /\ On(x) /\ driver'[x].tab = driver[x].tab /\ driver[x].tab \in Tabs BY <1>13, <1>14, <1>20
  <2>2. \A c \in Runs : Candidate(c)' /\ Mates(x, c)' =>
          Candidate(c) /\ Mates(x, c) /\ On(c) /\ driver[c].tab = driver[x].tab
    BY <1>14, <2>1 DEF Mates
  <2>3. CASE driver[x].tab = t
    <3>1. x = r BY <1>15, <2>1, <2>3
    <3>2. ASSUME NEW c \in Runs, Candidate(c)', Mates(x, c)' PROVE answer'[c] # "done"
      <4>1. Candidate(c) /\ driver[c].tab = t BY <2>2, <2>3, <3>2
      <4>2. answer[c] # "done" /\ c # r BY <1>9, <1>16, <4>1 DEF Candidate, Scan
      <4>. QED BY <1>7, <4>2
    <3>. QED BY <1>12, <2>1, <2>3, <3>1, <3>2
  <2>4. CASE driver[x].tab # t
    <3>1. Quiet(x) /\ HasShown(x) BY <1>3, <1>17, <1>20, <2>1, <2>4, QuietShown
    <3>2. drawn'[driver'[x].tab] = {x} BY <1>8, <2>1, <3>1 DEF Shown, Quiet
    <3>3. ASSUME NEW c \in Runs, c < x, Candidate(c)', Mates(x, c)' PROVE answer'[c] # "done"
      <4>1. Candidate(c) /\ Mates(x, c) /\ Quiet(c) BY <1>17, <2>2, <2>4, <3>3
      <4>2. answer[c] # "done" BY <1>8, <2>1, <3>1, <3>3, <4>1 DEF Shown
      <4>. QED BY <1>3, <4>1, <4>2, QuietShown
    <3>. QED BY <3>2, <3>3
  <2>. QED BY <2>3, <2>4
<1>21. ASSUME NEW c \in Runs, Candidate(c)'
       PROVE  \/ drawn'[driver'[c].tab] = driver'[c].base
              \/ at'[c] = "over" /\ answer'[c] # "done"
  <2>1. Candidate(c) /\ On(c) /\ driver'[c].tab = driver[c].tab BY <1>13, <1>14, <1>21
  <2>2. CASE driver[c].tab = t
    <3>1. at[c] = "over" /\ answer[c] # "done" /\ c # r BY <1>9, <1>16, <2>1, <2>2 DEF Candidate, Scan
    <3>. QED BY <1>3, <1>7, <3>1 DEF Reads
  <2>3. CASE driver[c].tab # t
    <3>1. Quiet(c) BY <1>17, <2>1, <2>3
    <3>2. \/ drawn[driver[c].tab] = driver[c].base
          \/ at[c] = "over" /\ answer[c] # "done"
      BY <1>8, <2>1 DEF Shown
    <3>3. answer'[c] = "done" => answer[c] = "done" BY <1>3, <3>1, QuietShown
    <3>. QED BY <1>3, <2>1, <3>1, <3>2, <3>3 DEF Quiet, Reads
  <2>. QED BY <2>2, <2>3
<1>22. Shown' BY <1>20, <1>21 DEF Shown
<1>23. ReportIsDrawn' BY <1>8, <1>12 DEF ReportIsDrawn
<1>. QED BY <1>6, <1>18, <1>19, <1>22, <1>23 DEF PageSide

\* A scan that is done has drawn what it reports, itself.
LEMMA ScanDonePage ==
  ASSUME CoreSide, PageSide, NEW r \in Runs, Take(r), Current(r), answer[r] = "done",
         driver[r].kind = "scan", Show(driver[r].tab, drawn[driver[r].tab], {r}), Stop(r, "over"),
         UNCHANGED candidates
  PROVE  PageSide'
<1> DEFINE t == driver[r].tab
<1>1. Live(r) /\ Scan(r) /\ HasShown(r) /\ t \in Tabs BY TakeIs DEF Scan, On, HasShown
<1>2. drawn[t] = {r} BY <1>1 DEF PageSide, Shown
<1>3. /\ PageTypes /\ ReportIsDrawn /\ drawn' = [drawn EXCEPT ![t] = drawn[t]]
      /\ reported' = [reported EXCEPT ![t] = {r}]
  BY Types DEF PageSide, Show
<1> HIDE DEF t
<1>4. drawn' = drawn BY <1>1, <1>3 DEF PageTypes
<1>5. ReportIsDrawn' BY <1>1, <1>2, <1>3, <1>4 DEF ReportIsDrawn, PageTypes
<1>. QED BY <1>4, <1>5, TakeStopsPage

\* A candidate merges its finding into the groups it started from: they are
\* still what is drawn, and no scan has drawn anything since.
LEMMA CandidateMergesPage ==
  ASSUME CoreSide, PageSide, NEW r \in Runs, Take(r), Current(r), answer[r] = "done",
         driver[r].kind = "candidate",
         Show(driver[r].tab, drawn[driver[r].tab] \cup {r}, driver[r].base \cup {r}), Stop(r, "over"),
         UNCHANGED candidates
  PROVE  PageSide'
<1> DEFINE t == driver[r].tab
<1>1. /\ Live(r) /\ On(r) /\ Candidate(r) /\ Reads /\ UNCHANGED <<generation, wanted>>
      /\ t \in Tabs /\ driver[r] # NULL
  BY TakeIs DEF Candidate, On
<1>2. /\ drawn' = [drawn EXCEPT ![t] = drawn[t] \cup {r}]
      /\ reported' = [reported EXCEPT ![t] = driver[r].base \cup {r}]
  BY DEF Show
<1>3. t = driver[r].tab OBVIOUS
<1> HIDE DEF t
<1>4. /\ Grown /\ \A x \in Runs : Live(x)' => Live(x)
      /\ \A x \in Runs : On(x)' => On(x) /\ x # r /\ driver'[x] = driver[x]
  BY <1>1, StopLeaves
<1>5. /\ Chained' /\ Ordered' /\ Reading'
      /\ \A x \in Runs : Live(x) /\ answer[x] # NULL /\ x # r /\ driver[x].tab = t => Before(inbox[t], r, x)
  BY <1>3, <1>4, TakeKeepsOrder
<1>6. answer'[r] = NULL /\ \A x \in Runs : x # r => answer'[x] = answer[x] BY TakeReads
<1>7. /\ PageTypes /\ Alone /\ Observed /\ Shown /\ ReportIsDrawn /\ Ordered /\ Reading
  BY Types DEF PageSide
<1>8. at[r] = "over" BY DEF CoreSide, Said
<1>9. drawn[t] = driver[r].base BY <1>1, <1>3, <1>7 DEF Shown
<1>10. /\ drawn'[t] = drawn[t] \cup {r} /\ reported'[t] = drawn[t] \cup {r}
       /\ \A u \in Tabs : u # t => drawn'[u] = drawn[u] /\ reported'[u] = reported[u]
  BY <1>1, <1>2, <1>7, <1>9 DEF PageTypes
<1>11. ReportIsDrawn' BY <1>7, <1>10 DEF ReportIsDrawn
<1>12. ASSUME NEW x \in Runs, On(x)'
       PROVE  /\ On(x) /\ x # r /\ driver'[x] = driver[x] /\ driver[x] # NULL /\ driver[x].tab \in Tabs
              /\ Scan(x)' = Scan(x) /\ Candidate(x)' = Candidate(x)
              /\ driver[x].tab # t => Quiet(x)
  <2>1. /\ On(x) /\ x # r /\ driver'[x] = driver[x] /\ driver[x] # NULL /\ driver[x].tab \in Tabs
    BY <1>4, <1>12, DriverIs DEF On, Live
  <2>2. Scan(x)' = Scan(x) /\ Candidate(x)' = Candidate(x) BY <1>12, <2>1 DEF Scan, Candidate
  <2>3. driver[x].tab # t => Quiet(x) BY <1>1, <1>6, <1>10, <2>1 DEF Quiet
  <2>. QED BY <2>1, <2>2, <2>3
<1>13. /\ \A x \in Runs : Scan(x)' => Scan(x) /\ On(x)'
       /\ \A x \in Runs : Candidate(x)' => Candidate(x) /\ On(x)'
       /\ \A x, y \in Runs : On(x)' /\ On(y)' => Mates(x, y)' = Mates(x, y)
  BY <1>12 DEF Scan, Candidate, Mates
<1>14. \A c \in Runs : Candidate(c)' => driver[c].tab # t
  <2>1. \A c \in Runs : Candidate(c)' /\ driver[c].tab = t => Mates(c, r) /\ Candidate(c) /\ c # r
    BY <1>1, <1>3, <1>12, <1>13 DEF Mates
  <2>. QED BY <1>1, <1>7, <2>1 DEF Alone
<1>15. \A x \in Runs : Scan(x)' /\ HasShown(x)' => driver[x].tab # t
  <2> SUFFICES ASSUME NEW x \in Runs, Scan(x)', HasShown(x)', driver[x].tab = t PROVE FALSE
    OBVIOUS
  <2>1. /\ Scan(x) /\ On(x) /\ Live(x) /\ x # r /\ Mates(x, r) /\ answer'[x] = answer[x]
    BY <1>1, <1>3, <1>6, <1>12, <1>13 DEF Mates, On
  <2>2. HasShown(x) BY <1>1, <2>1 DEF HasShown, Reads
  <2>3. \A a, b \in Runs : a < b \/ a = b \/ b < a BY RunsAreRequests
  <2>4. CASE r < x BY <1>1, <1>7, <2>1, <2>2, <2>4 DEF Shown
  <2>5. CASE x < r
    <3>1. ScanIsShown(x) BY <1>1, <1>7, <2>1, <2>5 DEF Observed
    <3>2. at[x] = "over" BY <1>7, <1>8, <2>1, <2>5 DEF Ordered
    <3>3. answer[x] = "done" BY <2>2, <3>1, <3>2 DEF HasShown, ScanIsShown
    <3>4. "done" # NULL BY RunsAreRequests DEF Answers
    <3>5. Before(inbox[t], r, x) BY <1>5, <2>1, <3>3, <3>4
    <3>6. answer[r] = "superseded" \/ answer[x] = "error" BY <1>1, <1>7, <2>5, <3>5 DEF Reading
    <3>. QED BY <3>3, <3>6
  <2>. QED BY <2>1, <2>3, <2>4, <2>5
<1>16. Alone' BY <1>1, <1>7, <1>12, <1>13 DEF Alone
<1>17. Observed'
  <2> SUFFICES ASSUME NEW x \in Runs, Scan(x)',
                      candidates'[driver'[x].tab] \/ \E c \in Runs : Candidate(c)' /\ Mates(x, c)' /\ x < c
               PROVE  ScanIsShown(x)'
    BY DEF Observed
  <2>1. /\ Scan(x) /\ On(x)' /\ driver'[x] = driver[x] /\ answer'[x] = answer[x]
    BY <1>6, <1>12, <1>13
  <2>2. \A c \in Runs : Candidate(c)' /\ Mates(x, c)' => Candidate(c) /\ Mates(x, c)
    BY <1>13, <2>1
  <2>3. ScanIsShown(x) BY <1>7, <2>1, <2>2 DEF Observed
  <2>. QED BY <1>1, <2>1, <2>3 DEF ScanIsShown, Reads
<1>18. ASSUME NEW x \in Runs, Scan(x)', HasShown(x)'
       PROVE  /\ drawn'[driver'[x].tab] = {x}
              /\ \A c \in Runs : c < x /\ Candidate(c)' /\ Mates(x, c)' => answer'[c] # "done"
  <2>1. /\ Scan(x) /\ On(x)' /\ driver'[x] = driver[x] /\ Quiet(x)
    BY <1>12, <1>13, <1>15, <1>18
  <2>2. HasShown(x) BY <1>1, <1>18, <2>1, QuietShown
  <2>3. drawn'[driver'[x].tab] = {x} BY <1>7, <2>1, <2>2 DEF Shown, Quiet
  <2>4. ASSUME NEW c \in Runs, c < x, Candidate(c)', Mates(x, c)' PROVE answer'[c] # "done"
    <3>1. Candidate(c) /\ Mates(x, c) /\ Quiet(c) BY <1>12, <1>13, <1>14, <2>1, <2>4
    <3>2. answer[c] # "done" BY <1>7, <2>1, <2>2, <2>4, <3>1 DEF Shown
    <3>. QED BY <1>1, <3>1, <3>2, QuietShown
  <2>. QED BY <2>3, <2>4
<1>19. ASSUME NEW c \in Runs, Candidate(c)'
       PROVE  \/ drawn'[driver'[c].tab] = driver'[c].base
              \/ at'[c] = "over" /\ answer'[c] # "done"
  <2>1. Candidate(c) /\ Quiet(c) /\ driver'[c] = driver[c] BY <1>12, <1>13, <1>14, <1>19
  <2>2. \/ drawn[driver[c].tab] = driver[c].base
        \/ at[c] = "over" /\ answer[c] # "done"
    BY <1>7, <2>1 DEF Shown
  <2>3. answer'[c] = "done" => answer[c] = "done" BY <1>1, <2>1, QuietShown
  <2>. QED BY <1>1, <2>1, <2>2, <2>3 DEF Quiet, Reads
<1>20. Shown' BY <1>18, <1>19 DEF Shown
<1>. QED BY <1>5, <1>11, <1>16, <1>17, <1>20 DEF PageSide

LEMMA TakeDonePage == ASSUME CoreSide, PageSide, NEW r \in Runs, TakeDone(r) PROVE PageSide'
<1> DEFINE t == driver[r].tab
<1>1. Take(r) /\ Current(r) /\ answer[r] = "done" /\ Stop(r, "over") /\ UNCHANGED candidates
  BY DEF TakeDone
<1>2. CASE driver[r].kind = "scan" /\ Show(t, drawn[t], {r}) BY <1>1, <1>2, ScanDonePage
<1>3. CASE driver[r].kind = "candidate" /\ Show(t, drawn[t] \cup {r}, driver[r].base \cup {r})
  BY <1>1, <1>3, CandidateMergesPage
<1>4. CASE UNCHANGED <<drawn, reported>>
  <2>1. ReportIsDrawn' BY <1>4 DEF PageSide, ReportIsDrawn
  <2>. QED BY <1>1, <1>4, <2>1, TakeStopsPage
<1>. QED BY <1>2, <1>3, <1>4 DEF TakeDone

\* A new driver is the last of all, and its session is not there yet.
LEMMA DriveOrder ==
  ASSUME CoreSide, PageSide, NEW t \in Tabs, NEW r \in Runs, NEW kind \in Kinds, Drive(t, r, kind),
         UNCHANGED <<coreVars, generation, inbox>>
  PROVE  /\ Reads /\ Chained' /\ Ordered' /\ Reading'
         /\ On(r)' /\ driver'[r].tab = t /\ driver'[r].kind = kind /\ driver'[r].base = drawn[t]
         /\ ~HasShown(r)'
         /\ \A x \in Runs : x # r /\ On(x)' => On(x) /\ driver'[x] = driver[x] /\ driver[x] # NULL /\ x < r
         /\ \A x \in Runs : x # r => On(x)' = On(x)
         /\ answer' = answer
<1>1. /\ driver[r] = NULL /\ driver'[r] # NULL
      /\ \A x \in Runs : driver[x] # NULL /\ x # r => x < r
      /\ driver'[r].tab = t /\ driver'[r].kind = kind /\ driver'[r].at = "waiting"
      /\ driver'[r].generation = generation[t] /\ driver'[r].base = drawn[t]
      /\ \A x \in Runs : x # r => driver'[x] = driver[x]
  BY DriveIs
<1>2. Grown BY <1>1 DEF Grown
<1>3. \A x \in Runs : x # r => Live(x)' = Live(x) /\ On(x)' = On(x) BY <1>1 DEF Live, On, Current
<1>4. On(r)' BY <1>1 DEF On, Live, Current
<1>5. Reads /\ Chained' /\ Ordered' /\ Reading'
  <2>1. \A x \in Runs : Live(x)' => Live(x) \/ driver[x] = NULL BY <1>1, <1>3
  <2>. QED BY <1>2, <2>1, IdleKeepsOrder
<1>6. at[r] = "unborn" /\ answer[r] = NULL BY <1>1 DEF CoreSide, Owned
<1>7. answer' = answer /\ at' = at BY DEF coreVars
<1>8. ~HasShown(r)'
  <2>1. NULL \notin {"visual", "done"} BY RunsAreRequests DEF Answers
  <2>. QED BY <1>6, <1>7, <2>1 DEF HasShown
<1>9. \A x \in Runs : On(x) => driver[x] # NULL BY DEF On, Live
<1>. QED BY <1>1, <1>3, <1>4, <1>5, <1>7, <1>8, <1>9

\* A scan starts alone: the one before it was told to stop when this one was
\* wanted, and the candidates of that one were dropped.
LEMMA StartScanPage ==
  ASSUME CoreSide, PageSide, NEW t \in Tabs, NEW r \in Runs, StartScan(t, r) PROVE PageSide'
<1>1. /\ wanted[t] /\ Drive(t, r, "scan") /\ "scan" \in Kinds
      /\ wanted' = [wanted EXCEPT ![t] = FALSE] /\ candidates' = [candidates EXCEPT ![t] = FALSE]
      /\ UNCHANGED <<coreVars, generation, inbox, drawn, reported>>
  BY DEF StartScan, Kinds
<1>2. /\ Reads /\ Chained' /\ Ordered' /\ Reading'
      /\ On(r)' /\ driver'[r].tab = t /\ driver'[r].kind = "scan"
      /\ ~HasShown(r)'
      /\ \A x \in Runs : x # r /\ On(x)' => On(x) /\ driver'[x] = driver[x] /\ driver[x] # NULL /\ x < r
      /\ answer' = answer
  BY <1>1, DriveOrder
<1>3. PageTypes /\ Alone /\ Observed /\ Shown /\ ReportIsDrawn BY Types DEF PageSide
<1>4. /\ ~wanted'[t] /\ ~candidates'[t]
      /\ \A u \in Tabs : u # t => wanted'[u] = wanted[u] /\ candidates'[u] = candidates[u]
  BY <1>1, <1>3 DEF PageTypes
<1>5. ASSUME NEW x \in Runs, x # r, On(x)'
      PROVE  /\ Quiet(x) /\ On(x) /\ driver'[x] = driver[x] /\ driver[x] # NULL /\ x < r
             /\ driver[x].tab \in Tabs
             /\ Scan(x)' = Scan(x) /\ Candidate(x)' = Candidate(x)
  <2>1. On(x) /\ driver'[x] = driver[x] /\ driver[x] # NULL /\ x < r BY <1>2, <1>5
  <2>2. driver[x].tab \in Tabs BY <2>1, DriverIs
  <2>3. Quiet(x) BY <1>1, <1>2, <1>4, <2>1, <2>2 DEF Quiet
  <2>4. Scan(x)' = Scan(x) /\ Candidate(x)' = Candidate(x) BY <1>5, <2>1 DEF Scan, Candidate
  <2>. QED BY <2>1, <2>2, <2>3, <2>4
<1>6. /\ \A x \in Runs : Candidate(x)' => x # r /\ On(x)' /\ Candidate(x)
      /\ \A x \in Runs : Scan(x)' => x = r \/ (x # r /\ On(x)' /\ Scan(x))
      /\ \A x, y \in Runs : x # r /\ y # r /\ On(x)' /\ On(y)' => Mates(x, y)' = Mates(x, y)
  BY <1>2, <1>5 DEF Candidate, Scan, Mates
<1>7. \A x \in Runs : x # r /\ Scan(x)' => driver'[x].tab # t
  BY <1>1, <1>3, <1>5, <1>6 DEF Alone
<1>8. Alone'
  <2>1. \A x, y \in Runs : Scan(x)' /\ Scan(y)' /\ Mates(x, y)' => x = y
    <3> SUFFICES ASSUME NEW x \in Runs, NEW y \in Runs, Scan(x)', Scan(y)', Mates(x, y)' PROVE x = y
      OBVIOUS
    <3>1. driver'[x].tab = driver'[y].tab BY DEF Mates
    <3>2. CASE x = r \/ y = r BY <1>2, <1>7, <3>1, <3>2
    <3>3. CASE x # r /\ y # r
      <4>1. Scan(x) /\ Scan(y) /\ Mates(x, y) BY <1>6, <3>3
      <4>. QED BY <1>3, <4>1 DEF Alone
    <3>. QED BY <3>2, <3>3
  <2>2. \A x, y \in Runs : Candidate(x)' /\ Candidate(y)' /\ Mates(x, y)' => x = y
    BY <1>3, <1>6 DEF Alone
  <2>3. ASSUME NEW x \in Runs, Scan(x)' PROVE ~wanted'[driver'[x].tab]
    <3>1. CASE x = r BY <1>2, <1>4, <3>1
    <3>2. CASE x # r
      <4>1. Scan(x) /\ Quiet(x) /\ driver'[x] = driver[x] BY <1>5, <1>6, <2>3, <3>2
      <4>. QED BY <1>3, <4>1 DEF Alone, Quiet
    <3>. QED BY <3>1, <3>2
  <2>. QED BY <2>1, <2>2, <2>3 DEF Alone
<1>9. \A a, b \in Runs : ~(a < b /\ b < a) BY RunsAreRequests
<1>10. Observed'
  <2> SUFFICES ASSUME NEW x \in Runs, Scan(x)',
                      candidates'[driver'[x].tab] \/ \E c \in Runs : Candidate(c)' /\ Mates(x, c)' /\ x < c
               PROVE  ScanIsShown(x)'
    BY DEF Observed
  <2>1. x # r
    <3>1. SUFFICES ASSUME x = r PROVE FALSE OBVIOUS
    <3>2. ~candidates'[driver'[x].tab] BY <1>2, <1>4, <3>1
    <3>3. PICK c \in Runs : Candidate(c)' /\ x < c BY <3>2
    <3>4. c < r BY <1>5, <1>6, <3>3
    <3>. QED BY <1>9, <3>1, <3>3, <3>4
  <2>2. /\ Scan(x) /\ On(x)' /\ Quiet(x) /\ driver'[x] = driver[x] BY <1>5, <1>6, <2>1
  <2>3. \A c \in Runs : Candidate(c)' /\ Mates(x, c)' => Candidate(c) /\ Mates(x, c)
    BY <1>6, <2>1, <2>2
  <2>4. candidates'[driver'[x].tab] => candidates[driver[x].tab] BY <2>2 DEF Quiet
  <2>5. ScanIsShown(x) BY <1>3, <2>2, <2>3, <2>4 DEF Observed
  <2>. QED BY <1>2, <2>2, <2>5, QuietShown
<1>11. ASSUME NEW x \in Runs, Scan(x)', HasShown(x)'
       PROVE  /\ drawn'[driver'[x].tab] = {x}
              /\ \A c \in Runs : c < x /\ Candidate(c)' /\ Mates(x, c)' => answer'[c] # "done"
  <2>1. x # r /\ Scan(x) /\ On(x)' /\ driver'[x] = driver[x] /\ Quiet(x) BY <1>2, <1>5, <1>6, <1>11
  <2>2. HasShown(x) BY <1>2, <1>11, <2>1, QuietShown
  <2>3. drawn'[driver'[x].tab] = {x} BY <1>3, <2>1, <2>2 DEF Shown, Quiet
  <2>4. \A c \in Runs : Candidate(c)' /\ Mates(x, c)' => Candidate(c) /\ Mates(x, c)
    BY <1>6, <2>1
  <2>. QED BY <1>2, <1>3, <2>1, <2>2, <2>3, <2>4 DEF Shown
<1>12. ASSUME NEW c \in Runs, Candidate(c)'
       PROVE  \/ drawn'[driver'[c].tab] = driver'[c].base
              \/ at'[c] = "over" /\ answer'[c] # "done"
  <2>1. Candidate(c) /\ Quiet(c) /\ driver'[c] = driver[c] BY <1>5, <1>6, <1>12
  <2>2. \/ drawn[driver[c].tab] = driver[c].base
        \/ at[c] = "over" /\ answer[c] # "done"
    BY <1>3, <2>1 DEF Shown
  <2>. QED BY <1>2, <2>1, <2>2 DEF Quiet, Reads
<1>13. Shown' BY <1>11, <1>12 DEF Shown
<1>14. ReportIsDrawn' BY <1>1, <1>3 DEF ReportIsDrawn
<1>. QED BY <1>2, <1>8, <1>10, <1>13, <1>14 DEF PageSide

\* A candidate starts from what is drawn, after the scan drew its visual stage
\* and the candidate before it has merged.
LEMMA StartCandidatePage ==
  ASSUME CoreSide, PageSide, NEW t \in Tabs, NEW r \in Runs, StartCandidate(t, r) PROVE PageSide'
<1>1. /\ candidates[t] /\ OneAtATime(t) /\ Drive(t, r, "candidate") /\ "candidate" \in Kinds
      /\ UNCHANGED <<coreVars, generation, wanted, candidates, inbox, drawn, reported>>
  BY DEF StartCandidate, Kinds
<1>2. /\ Reads /\ Chained' /\ Ordered' /\ Reading'
      /\ On(r)' /\ driver'[r].tab = t /\ driver'[r].kind = "candidate" /\ driver'[r].base = drawn[t]
      /\ \A x \in Runs : x # r /\ On(x)' => On(x) /\ driver'[x] = driver[x] /\ driver[x] # NULL /\ x < r
      /\ answer' = answer
  BY <1>1, DriveOrder
<1>3. PageTypes /\ Alone /\ Observed /\ Shown /\ ReportIsDrawn BY Types DEF PageSide
<1>4. ASSUME NEW x \in Runs, x # r, On(x)'
      PROVE  /\ Quiet(x) /\ On(x) /\ driver'[x] = driver[x] /\ driver[x] # NULL /\ x < r
             /\ Scan(x)' = Scan(x) /\ Candidate(x)' = Candidate(x)
  <2>1. On(x) /\ driver'[x] = driver[x] /\ driver[x] # NULL /\ x < r BY <1>2, <1>4
  <2>2. Quiet(x) BY <1>1, <1>2, <2>1 DEF Quiet
  <2>3. Scan(x)' = Scan(x) /\ Candidate(x)' = Candidate(x) BY <1>4, <2>1 DEF Scan, Candidate
  <2>. QED BY <2>1, <2>2, <2>3
<1>5. /\ \A x \in Runs : Scan(x)' => x # r /\ On(x)' /\ Scan(x)
      /\ \A x \in Runs : Candidate(x)' => x = r \/ (x # r /\ On(x)' /\ Candidate(x))
      /\ \A x, y \in Runs : x # r /\ y # r /\ On(x)' /\ On(y)' => Mates(x, y)' = Mates(x, y)
  BY <1>2, <1>4 DEF Candidate, Scan, Mates
<1>6. \A x \in Runs : x # r /\ Candidate(x)' => driver'[x].tab # t
  <2> SUFFICES ASSUME NEW x \in Runs, x # r, Candidate(x)', driver'[x].tab = t PROVE FALSE OBVIOUS
  <2>1. Candidate(x) /\ driver[x].tab = t BY <1>4, <1>5
  <2>. QED BY <1>1, <2>1 DEF OneAtATime, Candidate, On
<1>7. Alone'
  <2>1. \A x, y \in Runs : Candidate(x)' /\ Candidate(y)' /\ Mates(x, y)' => x = y
    <3> SUFFICES ASSUME NEW x \in Runs, NEW y \in Runs, Candidate(x)', Candidate(y)', Mates(x, y)' PROVE x = y
      OBVIOUS
    <3>1. driver'[x].tab = driver'[y].tab BY DEF Mates
    <3>2. CASE x = r \/ y = r BY <1>2, <1>6, <3>1, <3>2
    <3>3. CASE x # r /\ y # r
      <4>1. Candidate(x) /\ Candidate(y) /\ Mates(x, y) BY <1>5, <3>3
      <4>. QED BY <1>3, <4>1 DEF Alone
    <3>. QED BY <3>2, <3>3
  <2>2. \A x, y \in Runs : Scan(x)' /\ Scan(y)' /\ Mates(x, y)' => x = y
    BY <1>3, <1>5 DEF Alone
  <2>3. ASSUME NEW x \in Runs, Scan(x)' PROVE ~wanted'[driver'[x].tab]
    <3>1. Scan(x) /\ driver'[x] = driver[x] BY <1>4, <1>5, <2>3
    <3>. QED BY <1>1, <1>3, <3>1 DEF Alone
  <2>. QED BY <2>1, <2>2, <2>3 DEF Alone
<1>8. \A a, b \in Runs : ~(a < b /\ b < a) BY RunsAreRequests
<1>9. Observed'
  <2> SUFFICES ASSUME NEW x \in Runs, Scan(x)',
                      candidates'[driver'[x].tab] \/ \E c \in Runs : Candidate(c)' /\ Mates(x, c)' /\ x < c
               PROVE  ScanIsShown(x)'
    BY DEF Observed
  <2>1. x # r /\ Scan(x) /\ On(x)' /\ Quiet(x) /\ driver'[x] = driver[x] BY <1>4, <1>5
  <2>2. \A c \in Runs : c # r /\ Candidate(c)' /\ Mates(x, c)' => Candidate(c) /\ Mates(x, c)
    BY <1>5, <2>1
  <2>3. Mates(x, r)' => candidates[driver[x].tab] BY <1>1, <1>2, <2>1 DEF Mates
  <2>4. candidates'[driver'[x].tab] => candidates[driver[x].tab] BY <1>1, <2>1
  <2>5. ScanIsShown(x) BY <1>3, <2>1, <2>2, <2>3, <2>4 DEF Observed
  <2>. QED BY <1>2, <2>1, <2>5, QuietShown
<1>10. ASSUME NEW x \in Runs, Scan(x)', HasShown(x)'
       PROVE  /\ drawn'[driver'[x].tab] = {x}
              /\ \A c \in Runs : c < x /\ Candidate(c)' /\ Mates(x, c)' => answer'[c] # "done"
  <2>1. x # r /\ Scan(x) /\ On(x)' /\ driver'[x] = driver[x] /\ Quiet(x) /\ x < r BY <1>4, <1>5, <1>10
  <2>2. HasShown(x) BY <1>2, <1>10, <2>1, QuietShown
  <2>3. drawn'[driver'[x].tab] = {x} BY <1>3, <2>1, <2>2 DEF Shown, Quiet
  <2>4. \A c \in Runs : c < x /\ Candidate(c)' /\ Mates(x, c)' => Candidate(c) /\ Mates(x, c)
    BY <1>5, <1>8, <2>1
  <2>. QED BY <1>2, <1>3, <2>1, <2>2, <2>3, <2>4 DEF Shown
<1>11. ASSUME NEW c \in Runs, Candidate(c)'
       PROVE  \/ drawn'[driver'[c].tab] = driver'[c].base
              \/ at'[c] = "over" /\ answer'[c] # "done"
  <2>1. CASE c = r BY <1>1, <1>2, <2>1
  <2>2. CASE c # r
    <3>1. Candidate(c) /\ Quiet(c) /\ driver'[c] = driver[c] BY <1>4, <1>5, <1>11, <2>2
    <3>2. \/ drawn[driver[c].tab] = driver[c].base
          \/ at[c] = "over" /\ answer[c] # "done"
      BY <1>3, <3>1 DEF Shown
    <3>. QED BY <1>2, <3>1, <3>2 DEF Quiet, Reads
  <2>. QED BY <2>1, <2>2
<1>12. Shown' BY <1>10, <1>11 DEF Shown
<1>13. ReportIsDrawn' BY <1>1, <1>3 DEF ReportIsDrawn
<1>. QED BY <1>2, <1>7, <1>9, <1>12, <1>13 DEF PageSide

-----------------------------------------------------------------------------
(***************************************************************************)
(* What is reported is what is shown.                                      *)
(***************************************************************************)
LEMMA DoesKeepsPage ==
  ASSUME CoreSide, PageSide, CoreNext, CoreMoves, Receipts, Deliver,
         UNCHANGED <<generation, wanted, active, candidates, driver, drawn, reported>>
  PROVE  PageSide'
<1>1. Inv' BY CoreStepKeepsInv
<1>. QED BY <1>1, CoreKeepsPage

LEMMA StutterKeepsPage == ASSUME CoreSide, PageSide, UNCHANGED vars PROVE PageSide'
<1>1. UNCHANGED <<coreVars, generation, wanted, candidates, driver, inbox, drawn, reported>>
  BY DEF vars, clientVars
<1>2. Grown /\ \A x \in Runs : Live(x)' = Live(x) /\ On(x)' = On(x)
  BY <1>1 DEF Grown, Live, On, Current
<1>3. Reads /\ Chained' /\ Ordered' /\ Reading' BY <1>1, <1>2, IdleKeepsOrder
<1>4. \A x \in Runs : On(x)' => Quiet(x) BY <1>1, <1>2 DEF Quiet, coreVars
<1>5. Alone' /\ Observed' /\ Shown' BY <1>2, <1>3, <1>4, QuietPage
<1>6. ReportIsDrawn' BY <1>1 DEF PageSide, ReportIsDrawn
<1>. QED BY <1>3, <1>5, <1>6 DEF PageSide

LEMMA InitPageSide == ClientInit => PageSide
<1> SUFFICES ASSUME ClientInit PROVE PageSide OBVIOUS
<1>1. /\ \A r \in Runs : driver[r] = NULL /\ at[r] = "unborn" /\ answer[r] = NULL
      /\ \A t \in Tabs : inbox[t] = <<>> /\ drawn[t] = {}
      /\ chain = <<>>
  BY RunsAreRequests DEF ClientInit, Init
<1>2. \A r \in Runs : ~Live(r) /\ ~Scan(r) /\ ~Candidate(r) BY <1>1 DEF Live, On, Scan, Candidate
<1>3. \A x, y \in Runs : ~Mates(x, y) BY <1>1 DEF Mates
<1>4. Chained /\ Ordered BY <1>1, <1>3, NoElems DEF Chained, Ordered
<1>5. Reading BY <1>1, <1>2, NoElems DEF Reading
<1>6. Alone /\ Observed /\ Shown BY <1>2 DEF Alone, Observed, Shown
<1>7. ReportIsDrawn BY <1>1 DEF ReportIsDrawn
<1>. QED BY <1>4, <1>5, <1>6, <1>7 DEF PageSide

LEMMA DriverGoesOnPage == ASSUME CoreSide, PageSide, NEW r \in Runs, DriverGoesOn(r) PROVE PageSide'
BY TakeStalePage, TakeEndPage, TakeAskPage, TakeStagePage, TakeDonePage, AnswerAskPage DEF DriverGoesOn

LEMMA NextPageSide == CoreSide /\ PageSide /\ [ClientNext]_vars => PageSide'
<1> SUFFICES ASSUME CoreSide, PageSide, [ClientNext]_vars PROVE PageSide' OBVIOUS
<1>1. CASE \E t \in Tabs : RunScan(t) \/ Invalidate(t) \/ Navigate(t) \/ WorkerCancels(t)
  BY <1>1, RunScanPage, InvalidatePage, NavigatePage, WorkerCancelsDoes, DoesKeepsPage
<1>2. CASE \E t \in Tabs, r \in Runs : StartScan(t, r) \/ StartCandidate(t, r)
  BY <1>2, StartScanPage, StartCandidatePage
<1>3. CASE \E r \in Runs : DriverGoesOn(r) \/ DriverThrows(r) \/ CoreStep(r)
  BY <1>3, DriverGoesOnPage, DriverThrowsPage, CoreStepDoes, DoesKeepsPage
<1>4. CASE \E t \in Tabs : Receive(t) \/ Completed(t)
  BY <1>4, ReceiveDoes, CompletedDoes, DoesKeepsPage
<1>5. CASE UNCHANGED vars BY <1>5, StutterKeepsPage
<1>. QED BY <1>1, <1>2, <1>3, <1>4, <1>5 DEF ClientNext

\* What a script told the worker last is what its page shows, in every tab and
\* however its scans and candidates overlap (onStage, analyzeCandidate, which
\* reports the groups it was started with).
THEOREM ReportsAreDrawn == Spec => []ReportIsDrawn
<1>1. ClientInit => PageSide BY InitPageSide
<1>2. CoreSide /\ PageSide /\ [ClientNext]_vars => PageSide' BY NextPageSide
<1>3. PageSide => ReportIsDrawn BY DEF PageSide
<1>. QED BY <1>1, <1>2, <1>3, CoreSideHolds, PTL DEF Spec
=============================================================================
