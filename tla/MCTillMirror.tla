---------------------------- MODULE MCTillMirror ----------------------------
(***************************************************************************)
(* An instance of TillMirror for TLC: two items from the start, one      *)
(* the back office may still create.                                        *)
(***************************************************************************)
EXTENDS TillMirror, TLC

CONSTANT A
MCStock == 1 :> A @@ 2 :> A

=============================================================================
