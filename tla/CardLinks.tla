------------------------------ MODULE CardLinks ------------------------------
(***************************************************************************)
(* The relations between the cards of a board: the table card_links and    *)
(* the rules private.card_link_write applies to it.                        *)
(*                                                                         *)
(* A row of the table is named by its primary key <<src, dst, type>>; the  *)
(* table is a function from keys to the status of the row.  "untyped" and  *)
(* "declared" are live rows (invalidated_at is null); "was_untyped" and    *)
(* "was_declared" are the same rows invalidated; "none" is no row.         *)
(* The operators take the table as an argument, so that a command can be   *)
(* evaluated on what its own transaction sees.                             *)
(***************************************************************************)
EXTENDS Naturals

CONSTANT Cards   \* card ids; they are ordered, as the text ids are

\* relates_to is stored in id order and rows are locked in id order.
ASSUME CardsAssumption == Cards \subseteq Nat \ {0}

LinkTypes == {"parent_of", "blocks", "depends_on", "relates_to", "duplicates"}

\* The types that order cards: one of the two is above the other.
Hierarchy == {"parent_of", "blocks", "depends_on"}

LinkKeys == Cards \X Cards \X LinkTypes

LinkStatus == {"none", "untyped", "declared", "was_untyped", "was_declared"}

LinkTable == [LinkKeys -> LinkStatus]

\* No row written: what a transaction starts from.
NoRows == [k \in {} |-> "none"]

\* A table as a transaction sees it: its own rows over the committed ones.
Overlay(rows, table) ==
    [k \in DOMAIN table |-> IF k \in DOMAIN rows THEN rows[k] ELSE table[k]]

\* The rows of a transaction after it writes some more.
Merged(new, rows) ==
    [k \in DOMAIN new \cup DOMAIN rows |->
        IF k \in DOMAIN new THEN new[k] ELSE rows[k]]

Live(L, k) == L[k] \in {"untyped", "declared"}

Lesser(a, b) == IF a < b THEN a ELSE b

Greater(a, b) == IF a < b THEN b ELSE a

-----------------------------------------------------------------------------
(* Naming a relation. *)

\* The relations a caller may name, each with the type that is stored and
\* whether the two cards swap.
RelationNames == {"blocks", "blocked_by", "depends_on", "needed_by",
                  "parent_of", "child_of", "relates_to",
                  "duplicates", "duplicated_by"}

Swapped(rel) == rel \in {"blocked_by", "needed_by", "child_of", "duplicated_by"}

StoredType(rel) ==
    CASE rel \in {"blocks", "blocked_by"}        -> "blocks"
      [] rel \in {"depends_on", "needed_by"}     -> "depends_on"
      [] rel \in {"parent_of", "child_of"}       -> "parent_of"
      [] rel \in {"duplicates", "duplicated_by"} -> "duplicates"
      [] OTHER                                   -> "relates_to"

RelatesTo(a, b) == <<Lesser(a, b), Greater(a, b), "relates_to">>

\* The row that card, other and the relation named from card's side stand for.
LinkKey(card, other, rel) ==
    IF rel = "relates_to" THEN RelatesTo(card, other)
    ELSE IF Swapped(rel) THEN <<other, card, StoredType(rel)>>
    ELSE <<card, other, StoredType(rel)>>

-----------------------------------------------------------------------------
(* What stands above what. *)

Upper(k) == IF k[3] = "depends_on" THEN k[2] ELSE k[1]

Lower(k) == IF k[3] = "depends_on" THEN k[1] ELSE k[2]

\* One step of the walk of private.card_is_above.
DirectlyAbove(L, u, l) ==
    \/ Live(L, <<u, l, "parent_of">>)
    \/ Live(L, <<u, l, "blocks">>)
    \/ Live(L, <<l, u, "depends_on">>)

UpClosed(L, U) == \A l \in U, u \in Cards : DirectlyAbove(L, u, l) => u \in U

\* The recursive walk up from l reaches u: u is in every set that holds l and
\* is closed under one step, which is in the least one.
IsAbove(L, u, l) ==
    /\ u # l
    /\ \A U \in SUBSET Cards : l \in U /\ UpClosed(L, U) => u \in U

HasOtherParent(L, child, except) ==
    \E p \in Cards \ {except} : Live(L, <<p, child, "parent_of">>)

-----------------------------------------------------------------------------
(* Writing a relation: private.card_link_write and the update of unlink. *)

\* A live declared row between the two cards of k, whichever way round.
DeclaredPair(L, k) ==
    \E t \in LinkTypes : \/ L[<<k[1], k[2], t>>] = "declared"
                         \/ L[<<k[2], k[1], t>>] = "declared"

\* Mutant: only the card directly above is looked at.
RefusesDirectLoops(L, k) ==
    \/ k[3] \in Hierarchy /\ DirectlyAbove(L, Lower(k), Upper(k))
    \/ k[3] = "parent_of" /\ HasOtherParent(L, k[2], k[1])

LinkRefused(L, k) ==
    \/ k[3] \in Hierarchy /\ IsAbove(L, Lower(k), Upper(k))
    \/ k[3] = "parent_of" /\ HasOtherParent(L, k[2], k[1])

LinkStands(L, k, declared) ==
    \/ ~declared /\ DeclaredPair(L, k)
    \/ L[k] = "declared"
    \/ L[k] = "untyped" /\ ~declared

\* A typed relation retires the untyped one of the pair.
Retires(L, k, declared) ==
    /\ declared
    /\ k[3] # "relates_to"
    /\ L[RelatesTo(k[1], k[2])] = "untyped"

LinkWritten(L, k, declared) ==
    [j \in IF Retires(L, k, declared) THEN {k, RelatesTo(k[1], k[2])} ELSE {k}
        |-> IF j # k THEN "was_untyped"
            ELSE IF declared THEN "declared" ELSE "untyped"]

Unlinked(L, k) ==
    [j \in {k} |-> IF L[k] = "declared" THEN "was_declared" ELSE "was_untyped"]

\* Someone once declared a relation of the card.
EverDeclared(L, card) ==
    \E k \in LinkKeys : /\ card \in {k[1], k[2]}
                        /\ L[k] \in {"declared", "was_declared"}

-----------------------------------------------------------------------------
(* What the table must keep. *)

\* No card is above itself: every set of cards has one with nothing of the
\* set directly above it.
Acyclic(L) ==
    \A S \in (SUBSET Cards) \ {{}} :
        \E top \in S : \A u \in S : ~DirectlyAbove(L, u, top)

OneParent(L) ==
    \A p, q, c \in Cards :
        Live(L, <<p, c, "parent_of">>) /\ Live(L, <<q, c, "parent_of">>) => p = q

UntypedAlone(L) ==
    \A k \in LinkKeys : L[k] = "untyped" => ~DeclaredPair(L, k)

\* Every untyped row is a relates_to row, and those are in id order.
Canonical(L) ==
    \A k \in LinkKeys :
        /\ L[k] # "none" => k[1] # k[2]
        /\ L[k] # "none" /\ k[3] = "relates_to" => k[1] < k[2]
        /\ L[k] \in {"untyped", "was_untyped"} => k[3] = "relates_to"

\* The rules the table keeps between any two transactions.
Sound(L) == Acyclic(L) /\ OneParent(L) /\ UntypedAlone(L) /\ Canonical(L)
=============================================================================
