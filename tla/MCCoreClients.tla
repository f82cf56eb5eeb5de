--------------------------- MODULE MCCoreClients ---------------------------
(***************************************************************************)
(* A TLC instance of CoreClients: every run is its own session id, and its *)
(* driver has one message at a time in the core's hands.                   *)
(***************************************************************************)
EXTENDS CoreClients, TLC

CONSTANTS t1, t2

MCRuns == 1..MaxRuns
MCShare == t1 :> MCRuns @@ t2 :> {3}
MCMaxGen == t1 :> 2 @@ t2 :> 1
=============================================================================
