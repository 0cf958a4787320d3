------------------------------- MODULE MCBoard -------------------------------
(* Small boards for TLC. *)
EXTENDS Board, TLC

Symmetric == Permutations(Sessions)

OneCard   == {1}
TwoCards  == {1, 2}
ThreeCards == {1, 2, 3}

\* A commit by a short id and by its full one, and another commit.
ShortAndFull == {<<1>>, <<1, 0>>, <<2>>}
OneSha == {<<1>>}

Relate(o, r) == [other |-> o, rel |-> r]

NoLists == {}
Lists == {<<Relate(2, "blocks")>>, <<Relate(1, "depends_on")>>}
BirthLists == {<<Relate(1, "relates_to")>>, <<Relate(1, "child_of"), Relate(1, "blocks")>>}

NoBatches == {}
Descending == {<<2, 1>>}
Single == {<<1>>}
=============================================================================
