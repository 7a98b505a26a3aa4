------------------------------ MODULE Filters -------------------------------
(***************************************************************************)
(* Array filters of the frontend, where proofs need to look into them:     *)
(* SelectSeq is built into TLC and defined by recursion, this is a fold.   *)
(***************************************************************************)
EXTENDS SequencesExt

(* filter: the elements of s that are in S.                                 *)
Among(s, S) == FoldLeft(LAMBDA t, x : IF x \in S THEN Append(t, x) ELSE t, <<>>, s)
=============================================================================
