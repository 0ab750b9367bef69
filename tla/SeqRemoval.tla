---------------------------- MODULE SeqRemoval ----------------------------
(***************************************************************************)
(* The sequence s without the elements of a set S, order kept: what        *)
(* array.splice(array.indexOf(x), 1), once per x in S, leaves of an array  *)
(* without duplicates.  Written without recursion, by rank, so that its    *)
(* properties can be proved.                                               *)
(***************************************************************************)
EXTENDS Integers, FiniteSets, SequencesExt

Kept(s, S) == {i \in DOMAIN s : s[i] \notin S}

Rank(s, S, i) == Cardinality({j \in Kept(s, S) : j <= i})

Without(s, S) ==
    [k \in 1..Cardinality(Kept(s, S)) |->
        s[CHOOSE i \in Kept(s, S) : Rank(s, S, i) = k]]
=============================================================================
