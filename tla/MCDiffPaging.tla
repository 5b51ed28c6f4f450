----------------------------- MODULE MCDiffPaging -----------------------------
EXTENDS DiffPaging

CONSTANTS v1, v2

MCKeys == 1 .. 3
MCVals == {v1, v2}

(* A common ancestor without the keys, and one holding all of them: with  *)
(* every left and right version this gives additions, updates, deletions   *)
(* on one or both sides, and both-sides changes to equal or different      *)
(* values.                                                                 *)
MCBases == {[k \in MCKeys |-> NONE], [k \in MCKeys |-> v1]}
=============================================================================
