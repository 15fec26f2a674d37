---------------------------- MODULE MCWorkQueue ----------------------------
(***************************************************************************)
(* WorkQueue with four slots and indices that wrap after two rounds, so    *)
(* that full, empty and wrap-around all happen.                            *)
(***************************************************************************)
EXTENDS WorkQueue

KeyOrTimer == [i \in {"timer", "key"} |-> i]
=============================================================================
