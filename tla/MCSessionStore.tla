--------------------------- MODULE MCSessionStore ---------------------------
(***************************************************************************)
(* TLC instance of SessionStore: one event of each kind the reducer treats *)
(* differently, two writers.                                               *)
(***************************************************************************)
EXTENDS SessionStore, TLC

MCBrowserPhases == {"cycling"}

Requests == { [type |-> "generate", count |-> 2],
              [type |-> "accept", variant |-> 1],
              [type |-> "discard"] }

Reports == { [type |-> "checkpoint", phase |-> "cycling", owner |-> "page",
              reason |-> "cycling", revision |-> 1, visible |-> 1],
             [type |-> "agent_done", carbonize |-> TRUE],
             [type |-> "variants_ready", arrived |-> 1],
             [type |-> "variant_mount_failed", variant |-> 1],
             [type |-> "agent_error", source |-> "generate"],
             [type |-> "complete"] }

MCEvents == Requests \cup Reports

\* Enough of them for a disk that fills up.
FewEvents == {e \in MCEvents : e.type \in {"generate", "accept", "variants_ready", "variant_mount_failed"}}

Workers == Permutations(Writers)
=============================================================================
