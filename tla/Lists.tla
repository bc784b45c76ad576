-------------------------------- MODULE Lists --------------------------------
(***************************************************************************)
(* Operators on the lists and maps of the code.                             *)
(***************************************************************************)
EXTENDS Integers, Sequences

(* The elements of s that are in S, in the order of s.  (SelectSeq, with a  *)
(* set for the predicate: an operator that takes another one as its         *)
(* argument cannot be reasoned about by induction.)                         *)
Only(s, S) ==
    LET kept[i \in 0 .. Len(s)] ==
            IF i = 0 THEN <<>>
            ELSE IF s[i] \in S THEN Append(kept[i - 1], s[i]) ELSE kept[i - 1]
    IN  kept[Len(s)]

AnyOf(T) == CHOOSE x \in T : TRUE

(* The sum of f[x] over the x in S.                                         *)
SumOver(f, S) ==
    LET sum[T \in SUBSET S] ==
            IF T = {} THEN 0 ELSE f[AnyOf(T)] + sum[T \ {AnyOf(T)}]
    IN  sum[S]

=============================================================================
