-------------------------- MODULE MCExtensionScan --------------------------
(***************************************************************************)
(* TLC instances of ExtensionScan.                                         *)
(***************************************************************************)
EXTENDS ExtensionScan
=============================================================================
