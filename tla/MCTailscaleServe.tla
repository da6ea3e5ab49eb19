-------------------------- MODULE MCTailscaleServe --------------------------
(* Small instances of module TailscaleServe for TLC.                       *)
EXTENDS TailscaleServe
CONSTANTS o1, o2, home, work
=============================================================================
