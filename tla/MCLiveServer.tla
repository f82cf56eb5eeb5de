---------------------------- MODULE MCLiveServer ----------------------------
(***************************************************************************)
(* TLC instances of LiveServer.  One session is accepted, another is       *)
(* discarded.                                                              *)
(***************************************************************************)
EXTENDS LiveServer, TLC

MCBrowserPhases == {"cycling"}

Generate(id) == [id |-> id, type |-> "generate", count |-> 2, stage |-> "raw"]
Accept(id) == [id |-> id, type |-> "accept", variant |-> 1]
Discard(id) == [id |-> id, type |-> "discard"]
Failed(id, v) == [id |-> id, type |-> "variant_mount_failed", variant |-> v]
Checkpoint(id) ==
  [id |-> id, type |-> "checkpoint", reason |-> "variants_progress", phase |-> "cycling",
   owner |-> "page", revision |-> 1, arrived |-> 1, expected |-> 2, visible |-> 1]

AgentSymmetry == Permutations(Agents)

OneSession == <<"s1">>
TwoSessions == <<"s1", "s2">>

\* One decision per session.
Decided == {Generate("s1"), Accept("s1"), Generate("s2"), Discard("s2")}
Undecided == {Generate("s1"), Accept("s1"), Discard("s1"), Checkpoint("s1"), Failed("s1", 1)}
Contested == {Generate("s1"), Accept("s1"), Discard("s1")}

Answer(to, type, sourced) ==
  [to |-> to, type |-> type, sourced |-> sourced, carbonize |-> FALSE, svelte |-> FALSE]
Compiled(to) == [Answer(to, "done", FALSE) EXCEPT !.svelte = TRUE]

\* What live_poll and the skill's instructions answer when all goes well.
Handled ==
  { Answer("generate", "done", FALSE), Compiled("generate"),
    [Answer("accept", "done", TRUE) EXCEPT !.carbonize = TRUE],
    Answer("accept", "complete", TRUE), Answer("discard", "discarded", TRUE),
    Answer("cleanup", "complete", FALSE), Answer("variant_mount_failed", "done", FALSE) }

\* And when it does not.
Failing == { Answer("generate", "error", FALSE), Answer("accept", "error", TRUE),
             Answer("accept", "done", TRUE), Answer("discard", "error", TRUE) }
AllReplies == Handled \cup Failing

\* Without the answer to an accept that live_accept could not carry out.
Settling == AllReplies \ {Answer("accept", "done", TRUE)}

\* The instances without a post during a preflight are orderly.
ASSUME OrderlyInstances == ~SlowPreflight => Orderly
=============================================================================
