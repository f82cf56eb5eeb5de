----------------------------- MODULE MCOverlay -----------------------------
(***************************************************************************)
(* TLC instances of Overlay.                                               *)
(***************************************************************************)
EXTENDS Overlay
=============================================================================
