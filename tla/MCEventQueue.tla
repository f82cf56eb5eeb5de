---------------------------- MODULE MCEventQueue ----------------------------
(***************************************************************************)
(* TLC instances of EventQueue: the agent's poll loop, which takes         *)
(* anything, and the generate verb, which collects its own event only.     *)
(***************************************************************************)
EXTENDS EventQueue, TLC

CONSTANTS agent, verb

All == [types |-> {}, ids |-> {}]
MCFilter == agent :> All @@ verb :> [types |-> {"generate"}, ids |-> {"s1"}]

\* Two requests of one session, the later of which withdraws the earlier, and
\* two posts that name none.
MCEvents ==
  {[id |-> "s1", type |-> "generate"], [id |-> "s1", type |-> "accept"],
   [token |-> "t", type |-> "exit"], [token |-> "t", type |-> "prefetch"]}
=============================================================================
