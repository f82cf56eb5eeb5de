------------------------------ MODULE Delivery ------------------------------
(***************************************************************************)
(* What the queue of the helper promises the overlay and the agents,       *)
(* however it parks, wakes and times: no request is lost, none comes back, *)
(* nobody is handed one that another agent has time for, and who polls     *)
(* gets the most urgent one that is to be had.                             *)
(***************************************************************************)
EXTENDS PendingQueue

CONSTANTS
  Agents,
  Filter,   \* what each of them polls for
  Events,
  Nothing   \* what an agent has that has been handed nothing

VARIABLES
  waiting,  \* requests that nobody has answered, [seq, event]
  leased,   \* numbers of those that are not to be had
  given,    \* per agent: the request it was handed and has not let go
  owners,   \* agents whose time for it has not run out
  next,     \* the number of the next request
  slips     \* may a lease run out while others are handed out?

vars == <<waiting, leased, given, owners, next, slips>>

Init ==
  /\ waiting = {} /\ leased = {} /\ given = [a \in Agents |-> Nothing]
  /\ owners = {} /\ next = 1 /\ slips \in BOOLEAN

\* One request comes or none does; it is none that was there before.
Arrivals ==
  \/ waiting' \subseteq waiting /\ next' = next
  \/ /\ next' = next + 1
     /\ \E e \in Events : waiting' \subseteq waiting \cup {[seq |-> next, event |-> e]}

\* An agent that was handed this request, maybe long ago, lets go of it.
Answered(w) == \E a \in Agents : given[a] # Nothing /\ given[a].event = w.event /\ given'[a] = Nothing

\* The user has decided on the session, and the decision waits.
Withdrawn(w) ==
  /\ w.event.type = "generate"
  /\ \E v \in waiting' : v.event.type \in {"accept", "discard"} /\ v.event.id = w.event.id

\* An exit that names no session is off when an overlay comes.
CalledOff(w) == ~HasId(w.event) /\ w.event.type = "exit"

\* Nothing else is lost.
Departures == \A w \in waiting \ waiting' : CalledOff(w) \/ Answered(w) \/ Withdrawn(w)

Keeps(a) == given'[a] = given[a] /\ (a \in owners' => a \in owners)
LetsGo(a) == given'[a] = Nothing /\ a \notin owners'

MostUrgent(a, w) ==
  \A v \in waiting' : v # w /\ v.seq \notin leased' /\ Wants(Filter[a], v.event) => Precedes(w, v)

Takes(a, w) ==
  /\ given[a] = Nothing /\ given'[a] = w
  /\ Wants(Filter[a], w.event)
  /\ \A b \in owners' \ {a} : given'[b].seq # w.seq
  /\ slips \/ MostUrgent(a, w)

\* Freeing one request may serve several agents, so all of this is one step.
Next ==
  /\ Arrivals /\ Departures
  /\ \A a \in Agents : Keeps(a) \/ LetsGo(a) \/ \E w \in waiting' : Takes(a, w)
  /\ UNCHANGED slips

Spec == Init /\ [][Next]_vars
=============================================================================
