---------------------------- MODULE MCRelaySend ----------------------------
(* Three copies of one spend: one whose send outlives its key, a second    *)
(* that takes the key and may revert, a third that races it.  They are     *)
(* told apart (no symmetry): the liveness property is checked on this run. *)
EXTENDS RelaySend
=============================================================================
