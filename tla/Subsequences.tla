---------------------------- MODULE Subsequences ----------------------------
(***************************************************************************)
(* [x for x in xs if ...]: the extraction, the mining and the query log    *)
(* filter lists without changing their order.  The filter is given as the  *)
(* set of positions that pass it, so that facts about Kept can be stated   *)
(* once for all of them.                                                   *)
(***************************************************************************)
EXTENDS Naturals, Sequences

\* The elements of s at the positions in kept.
Kept(s, kept) ==
    LET upTo[n \in 0..Len(s)] ==
            IF n = 0 THEN <<>>
            ELSE IF n \in kept THEN Append(upTo[n - 1], s[n]) ELSE upTo[n - 1]
    IN  upTo[Len(s)]
=============================================================================
