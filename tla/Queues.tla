------------------------------- MODULE Queues -------------------------------
(***************************************************************************)
(* The operations of VecDeque and Vec that the scheduler's lists use.      *)
(* They are stated here so that the modules with proofs need not extend    *)
(* SequencesExt, whose many definitions slow the prover down.              *)
(***************************************************************************)
EXTENDS Integers, Sequences, Functions

\* remove(i): the elements behind i move up.
RemoveAt(s, i) == SubSeq(s, 1, i - 1) \o SubSeq(s, i + 1, Len(s))

\* The newest element of a stack, and what lies below it.
Last(s) == s[Len(s)]
Front(s) == SubSeq(s, 1, Len(s) - 1)
=============================================================================
