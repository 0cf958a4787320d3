--------------------------- MODULE CardLinksProofs ---------------------------
(***************************************************************************)
(* What the rules of card_link_write preserve, for any set of cards: a     *)
(* board whose relations form no loop, give no card two parents and keep   *)
(* untyped relations apart from declared ones stays so when a relation is  *)
(* written or unlinked.                                                    *)
(***************************************************************************)
EXTENDS CardLinks, TLAPS

\* A row a command may write: between two different cards, an untyped one
\* only as relates_to, and relates_to in id order.
Writable(k, declared) ==
    /\ k \in LinkKeys
    /\ k[1] # k[2]
    /\ k[3] = "relates_to" => k[1] < k[2]
    /\ ~declared => k[3] = "relates_to"

-----------------------------------------------------------------------------

\* A transaction that wrote nothing sees the committed table.
LEMMA OverlayNothing ==
  ASSUME NEW L \in LinkTable
  PROVE  Overlay(NoRows, L) = L
  BY DEF Overlay, NoRows, LinkTable

\* Rows over a table make a table.
LEMMA OverlayType ==
  ASSUME NEW L \in LinkTable, NEW R,
         DOMAIN R \subseteq LinkKeys, R \in [DOMAIN R -> LinkStatus]
  PROVE  /\ Overlay(R, L) \in LinkTable
         /\ \A k \in LinkKeys :
               Overlay(R, L)[k] = IF k \in DOMAIN R THEN R[k] ELSE L[k]
  BY DEF Overlay, LinkTable

\* The pair of a row in id order is a key of the table.
LEMMA RelatesToType ==
  ASSUME NEW a \in Cards, NEW b \in Cards
  PROVE  /\ RelatesTo(a, b) \in LinkKeys
         /\ RelatesTo(a, b)[1] \in {a, b}
         /\ RelatesTo(a, b)[2] \in {a, b}
         /\ RelatesTo(a, b)[3] = "relates_to"
         /\ a < b => RelatesTo(a, b) = <<a, b, "relates_to">>
         /\ a # b => RelatesTo(a, b)[1] < RelatesTo(a, b)[2]
         /\ a # b => RelatesTo(a, b)[1] # RelatesTo(a, b)[2]
  BY CardsAssumption DEF RelatesTo, Lesser, Greater, LinkKeys, LinkTypes

\* The row a named relation stands for is one card_link may write.
LEMMA LinkKeyWritable ==
  ASSUME NEW a \in Cards, NEW b \in Cards, a # b, NEW rel \in RelationNames,
         NEW declared \in BOOLEAN, ~declared => rel = "relates_to"
  PROVE  Writable(LinkKey(a, b, rel), declared)
<1>1. CASE rel = "relates_to"
  BY <1>1, RelatesToType, CardsAssumption DEF LinkKey, Writable
<1>2. CASE rel # "relates_to"
  <2>1. StoredType(rel) \in LinkTypes \ {"relates_to"}
    BY <1>2 DEF StoredType, RelationNames, LinkTypes
  <2>2. /\ LinkKey(a, b, rel) \in LinkKeys
        /\ LinkKey(a, b, rel)[1] # LinkKey(a, b, rel)[2]
        /\ LinkKey(a, b, rel)[3] # "relates_to"
    BY <1>2, <2>1 DEF LinkKey, LinkKeys
  <2> QED BY <2>2, <1>2 DEF Writable
<1> QED BY <1>1, <1>2

\* The rows a written relation changes, and the table it leaves.
LEMMA WrittenTable ==
  ASSUME NEW L \in LinkTable, NEW k, NEW declared \in BOOLEAN,
         Writable(k, declared)
  PROVE  LET R == LinkWritten(L, k, declared)
             M == Overlay(R, L)
             r == RelatesTo(k[1], k[2])
         IN  /\ DOMAIN R \subseteq LinkKeys
             /\ R \in [DOMAIN R -> LinkStatus]
             /\ M \in LinkTable
             /\ M[k] = IF declared THEN "declared" ELSE "untyped"
             /\ \A j \in LinkKeys : j # k => \/ M[j] = L[j]
                                            \/ /\ j = r
                                               /\ Retires(L, k, declared)
                                               /\ M[j] = "was_untyped"
             /\ Retires(L, k, declared) => M[r] = "was_untyped"
<1> DEFINE R == LinkWritten(L, k, declared)
           M == Overlay(R, L)
           r == RelatesTo(k[1], k[2])
<1>1. k \in LinkKeys /\ k[1] \in Cards /\ k[2] \in Cards /\ k[3] \in LinkTypes
  BY DEF Writable, LinkKeys
<1>2. r \in LinkKeys /\ r[3] = "relates_to"
  BY <1>1, RelatesToType
<1>3. DOMAIN R = IF Retires(L, k, declared) THEN {k, r} ELSE {k}
  BY DEF LinkWritten
<1>4. \A j \in DOMAIN R :
        R[j] = IF j # k THEN "was_untyped"
               ELSE IF declared THEN "declared" ELSE "untyped"
  BY DEF LinkWritten
<1>5. DOMAIN R \subseteq LinkKeys /\ R \in [DOMAIN R -> LinkStatus]
  <2>1. DOMAIN R \subseteq LinkKeys
    BY <1>1, <1>2, <1>3
  <2>2. R = [j \in DOMAIN R |-> R[j]]
    BY DEF LinkWritten
  <2> QED BY <2>1, <2>2, <1>4 DEF LinkStatus
<1>6. /\ M \in LinkTable
      /\ \A j \in LinkKeys : M[j] = IF j \in DOMAIN R THEN R[j] ELSE L[j]
  BY <1>5, OverlayType
<1>7. Retires(L, k, declared) => r # k
  BY <1>2 DEF Retires
<1> HIDE DEF R, M, r
<1>8. M[k] = IF declared THEN "declared" ELSE "untyped"
  BY <1>1, <1>3, <1>4, <1>6
<1>9. \A j \in LinkKeys : j # k => \/ M[j] = L[j]
                                   \/ /\ j = r
                                      /\ Retires(L, k, declared)
                                      /\ M[j] = "was_untyped"
  BY <1>3, <1>4, <1>6
<1>10. Retires(L, k, declared) => M[r] = "was_untyped"
  BY <1>2, <1>3, <1>4, <1>6, <1>7
<1> QED BY <1>5, <1>6, <1>8, <1>9, <1>10 DEF R, M, r

-----------------------------------------------------------------------------
(* No loops. *)

\* Removing steps keeps a table free of loops.
LEMMA FewerSteps ==
  ASSUME NEW L \in LinkTable, NEW M \in LinkTable, Acyclic(L),
         \A u, l \in Cards : DirectlyAbove(M, u, l) => DirectlyAbove(L, u, l)
  PROVE  Acyclic(M)
  BY DEF Acyclic

\* The new step up from l to u closes no loop when l is outside some closed
\* set that holds u: the top of a set S is then the top of its part inside
\* the closed set or, when u is not in S, the top S had before.
LEMMA OneMoreStep ==
  ASSUME NEW L \in LinkTable, NEW M \in LinkTable, Acyclic(L),
         NEW u \in Cards, NEW l \in Cards,
         \A x, y \in Cards :
            DirectlyAbove(M, x, y) => DirectlyAbove(L, x, y) \/ (x = u /\ y = l),
         NEW U \in SUBSET Cards, u \in U, l \notin U, UpClosed(L, U)
  PROVE  Acyclic(M)
<1> SUFFICES ASSUME NEW S \in SUBSET Cards, S # {}
             PROVE  \E top \in S : \A x \in S : ~DirectlyAbove(M, x, top)
  BY DEF Acyclic
<1>1. CASE S \cap U # {}
  <2>1. PICK top \in S \cap U : \A x \in S \cap U : ~DirectlyAbove(L, x, top)
    BY <1>1 DEF Acyclic
  <2>2. ASSUME NEW x \in S, DirectlyAbove(M, x, top)
        PROVE  FALSE
    <3>1. top # l /\ top \in Cards /\ x \in Cards
      BY <2>1
    <3>2. DirectlyAbove(L, x, top)
      BY <2>2, <3>1
    <3>3. x \in U
      BY <3>1, <3>2, <2>1 DEF UpClosed
    <3> QED BY <3>2, <3>3, <2>1
  <2> QED BY <2>1, <2>2
<1>2. CASE S \cap U = {}
  <2>1. PICK top \in S : \A x \in S : ~DirectlyAbove(L, x, top)
    BY DEF Acyclic
  <2>2. u \notin S
    BY <1>2
  <2> QED BY <2>1, <2>2
<1> QED BY <1>1, <1>2

\* A row that orders no cards, or one that stands already, adds no step; the
\* check of card_is_above lets no other one close a loop.
LEMMA WrittenAcyclic ==
  ASSUME NEW L \in LinkTable, NEW k, NEW declared \in BOOLEAN,
         Writable(k, declared), Acyclic(L), ~LinkRefused(L, k)
  PROVE  Acyclic(Overlay(LinkWritten(L, k, declared), L))
<1> DEFINE M == Overlay(LinkWritten(L, k, declared), L)
<1>1. /\ M \in LinkTable
      /\ \A j \in LinkKeys : j # k => M[j] = L[j] \/ M[j] = "was_untyped"
  BY WrittenTable
<1>2. /\ k \in LinkKeys /\ k[1] \in Cards /\ k[2] \in Cards /\ k[3] \in LinkTypes
      /\ k = <<k[1], k[2], k[3]>> /\ k[1] # k[2]
  BY DEF Writable, LinkKeys
<1> HIDE DEF M
<1>3. \A j \in LinkKeys : j # k /\ Live(M, j) => Live(L, j)
  BY <1>1 DEF Live
<1>4. ASSUME NEW x \in Cards, NEW y \in Cards, DirectlyAbove(M, x, y),
             ~DirectlyAbove(L, x, y)
      PROVE  k[3] \in Hierarchy /\ x = Upper(k) /\ y = Lower(k)
  <2>1. /\ <<x, y, "parent_of">> \in LinkKeys
        /\ <<x, y, "blocks">> \in LinkKeys
        /\ <<y, x, "depends_on">> \in LinkKeys
    BY DEF LinkKeys, LinkTypes
  <2>2. k \in {<<x, y, "parent_of">>, <<x, y, "blocks">>, <<y, x, "depends_on">>}
    BY <1>3, <1>4, <2>1 DEF DirectlyAbove
  <2> QED BY <2>2, <1>2 DEF Upper, Lower, Hierarchy
<1> SUFFICES Acyclic(M)
  BY DEF M
<1>5. CASE k[3] \notin Hierarchy
  <2>1. \A x, y \in Cards : DirectlyAbove(M, x, y) => DirectlyAbove(L, x, y)
    BY <1>4, <1>5
  <2> QED BY <1>1, <2>1, FewerSteps
<1>6. CASE k[3] \in Hierarchy
  <2>1. Upper(k) \in Cards /\ Lower(k) \in Cards /\ Upper(k) # Lower(k)
    BY <1>2 DEF Upper, Lower
  <2>2. ~IsAbove(L, Lower(k), Upper(k))
    BY <1>6 DEF LinkRefused
  <2>3. PICK U \in SUBSET Cards :
          Upper(k) \in U /\ UpClosed(L, U) /\ Lower(k) \notin U
    BY <2>1, <2>2 DEF IsAbove
  <2>4. \A x, y \in Cards :
          DirectlyAbove(M, x, y) =>
             DirectlyAbove(L, x, y) \/ (x = Upper(k) /\ y = Lower(k))
    BY <1>4
  <2> QED BY <1>1, <2>1, <2>3, <2>4, OneMoreStep
<1> QED BY <1>5, <1>6

-----------------------------------------------------------------------------
(* One parent, and untyped relations apart. *)

\* The check of card_has_parent leaves every card with one live parent.
LEMMA WrittenOneParent ==
  ASSUME NEW L \in LinkTable, NEW k, NEW declared \in BOOLEAN,
         Writable(k, declared), OneParent(L), ~LinkRefused(L, k)
  PROVE  OneParent(Overlay(LinkWritten(L, k, declared), L))
<1> DEFINE M == Overlay(LinkWritten(L, k, declared), L)
<1>1. \A j \in LinkKeys : j # k => M[j] = L[j] \/ M[j] = "was_untyped"
  BY WrittenTable
<1>2. k[1] \in Cards /\ k[2] \in Cards /\ k = <<k[1], k[2], k[3]>>
  BY DEF Writable, LinkKeys
<1> HIDE DEF M
<1>3. \A j \in LinkKeys : j # k /\ Live(M, j) => Live(L, j)
  BY <1>1 DEF Live
<1> SUFFICES ASSUME NEW p \in Cards, NEW q \in Cards, NEW c \in Cards,
                    Live(M, <<p, c, "parent_of">>),
                    Live(M, <<q, c, "parent_of">>), p # q
             PROVE  FALSE
  BY DEF OneParent, M
<1>4. <<p, c, "parent_of">> \in LinkKeys /\ <<q, c, "parent_of">> \in LinkKeys
  BY DEF LinkKeys, LinkTypes
<1>5. k \in {<<p, c, "parent_of">>, <<q, c, "parent_of">>}
  BY <1>3, <1>4 DEF OneParent
<1>6. ~HasOtherParent(L, c, k[1]) /\ k[2] = c /\ k[1] \in {p, q}
  BY <1>5 DEF LinkRefused
<1>7. \E o \in {p, q} \ {k[1]} : Live(L, <<o, c, "parent_of">>)
  <2>1. <<p, c, "parent_of">> # <<q, c, "parent_of">>
    OBVIOUS
  <2>2. CASE k = <<p, c, "parent_of">>
    <3>1. Live(L, <<q, c, "parent_of">>) /\ k[1] = p
      BY <1>3, <1>4, <2>1, <2>2
    <3> QED BY <3>1
  <2>3. CASE k = <<q, c, "parent_of">>
    <3>1. Live(L, <<p, c, "parent_of">>) /\ k[1] = q
      BY <1>3, <1>4, <2>1, <2>3
    <3> QED BY <3>1
  <2> QED BY <1>5, <2>2, <2>3
<1> QED BY <1>6, <1>7 DEF HasOtherParent

\* Rows of the pair of j, whichever way round.
LEMMA PairKeys ==
  ASSUME NEW j \in LinkKeys, NEW t \in LinkTypes
  PROVE  /\ <<j[1], j[2], t>> \in LinkKeys /\ <<j[2], j[1], t>> \in LinkKeys
         /\ j = <<j[1], j[2], j[3]>>
  BY DEF LinkKeys

\* Retiring the untyped row of the pair, and standing on a declared one, keep
\* the two kinds apart; the row written keeps the table in its stored form.
LEMMA WrittenUntypedAlone ==
  ASSUME NEW L \in LinkTable, NEW k, NEW declared \in BOOLEAN,
         Writable(k, declared), UntypedAlone(L), Canonical(L),
         ~LinkStands(L, k, declared)
  PROVE  /\ UntypedAlone(Overlay(LinkWritten(L, k, declared), L))
         /\ Canonical(Overlay(LinkWritten(L, k, declared), L))
<1> DEFINE M == Overlay(LinkWritten(L, k, declared), L)
           r == RelatesTo(k[1], k[2])
<1>1. /\ M[k] = IF declared THEN "declared" ELSE "untyped"
      /\ \A j \in LinkKeys : j # k => \/ M[j] = L[j]
                                     \/ /\ j = r
                                        /\ Retires(L, k, declared)
                                        /\ M[j] = "was_untyped"
      /\ Retires(L, k, declared) => M[r] = "was_untyped"
  BY WrittenTable
<1>2. /\ k \in LinkKeys /\ k[1] \in Cards /\ k[2] \in Cards /\ k[1] # k[2]
      /\ k = <<k[1], k[2], k[3]>>
      /\ k[3] = "relates_to" => k[1] < k[2]
      /\ ~declared => k[3] = "relates_to"
  BY DEF Writable, LinkKeys
<1>3. /\ r \in LinkKeys /\ r[3] = "relates_to" /\ r[1] # r[2] /\ r[1] < r[2]
      /\ r[1] \in {k[1], k[2]} /\ r[2] \in {k[1], k[2]}
      /\ k[1] < k[2] => r = <<k[1], k[2], "relates_to">>
  BY <1>2, RelatesToType
<1> HIDE DEF M, r
<1>4. Canonical(M)
  BY <1>1, <1>2, <1>3 DEF Canonical
<1>5. ASSUME NEW j \in LinkKeys, M[j] = "untyped", DeclaredPair(M, j)
      PROVE  FALSE
  <2>1. j[3] = "relates_to" /\ j[1] < j[2] /\ j[1] \in Cards /\ j[2] \in Cards
    BY <1>4, <1>5 DEF Canonical, LinkKeys
  <2>2. PICK d \in LinkKeys :
          /\ M[d] = "declared"
          /\ \/ d[1] = j[1] /\ d[2] = j[2]
             \/ d[1] = j[2] /\ d[2] = j[1]
    BY <1>5, PairKeys DEF DeclaredPair
  <2>3. d = <<d[1], d[2], d[3]>> /\ d[3] \in LinkTypes /\ j = <<j[1], j[2], j[3]>>
    BY DEF LinkKeys
  <2>4. CASE j = k
    <3>1. ~declared /\ d # k
      BY <1>1, <1>5, <2>2, <2>4
    <3>2. L[d] = "declared"
      BY <1>1, <2>2, <3>1
    <3>3. DeclaredPair(L, k)
      BY <2>2, <2>3, <2>4, <3>2 DEF DeclaredPair
    <3> QED BY <3>1, <3>3 DEF LinkStands
  <2>5. CASE j # k /\ d # k
    <3>1. L[j] = "untyped" /\ L[d] = "declared"
      BY <1>1, <1>5, <2>2, <2>5
    <3>2. DeclaredPair(L, j)
      BY <2>2, <2>3, <3>1 DEF DeclaredPair
    <3> QED BY <3>1, <3>2 DEF UntypedAlone
  <2>6. CASE j # k /\ d = k
    <3>1. declared /\ L[j] = "untyped"
      BY <1>1, <1>5, <2>2, <2>6
    <3>2. k[3] # "relates_to"
      BY <1>2, <2>1, <2>2, <2>3, <2>6, CardsAssumption
    <3>3. j = r
      BY <1>2, <1>3, <2>1, <2>2, <2>3, <2>6, CardsAssumption DEF r, RelatesTo, Lesser, Greater
    <3>4. Retires(L, k, declared)
      BY <3>1, <3>2, <3>3 DEF Retires, r
    <3> QED BY <1>1, <1>5, <3>3, <3>4
  <2> QED BY <2>4, <2>5, <2>6
<1> QED BY <1>4, <1>5 DEF UntypedAlone, M

-----------------------------------------------------------------------------

\* card_link_write keeps the rules: the relation it writes when it neither
\* refuses nor finds it standing leaves a sound table sound.
THEOREM LinkWriteSound ==
  ASSUME NEW L \in LinkTable, NEW k, NEW declared \in BOOLEAN,
         Writable(k, declared), Sound(L),
         declared => ~LinkRefused(L, k), ~LinkStands(L, k, declared)
  PROVE  Sound(Overlay(LinkWritten(L, k, declared), L))
<1>1. ~LinkRefused(L, k)
  BY DEF Writable, LinkRefused, Hierarchy
<1> QED BY <1>1, WrittenAcyclic, WrittenOneParent, WrittenUntypedAlone DEF Sound

\* card_unlink keeps them too: it only takes a live relation away.
THEOREM UnlinkSound ==
  ASSUME NEW L \in LinkTable, NEW k \in LinkKeys, Sound(L), Live(L, k)
  PROVE  /\ DOMAIN Unlinked(L, k) \subseteq LinkKeys
         /\ Unlinked(L, k) \in [DOMAIN Unlinked(L, k) -> LinkStatus]
         /\ Sound(Overlay(Unlinked(L, k), L))
<1> DEFINE R == Unlinked(L, k)
           M == Overlay(R, L)
<1>1. DOMAIN R = {k} /\ R \in [{k} -> LinkStatus]
      /\ R[k] = IF L[k] = "declared" THEN "was_declared" ELSE "was_untyped"
  BY DEF Unlinked, LinkStatus
<1>2. /\ M \in LinkTable
      /\ \A j \in LinkKeys : M[j] = IF j = k THEN R[k] ELSE L[j]
  BY <1>1, OverlayType
<1> HIDE DEF R, M
<1>3. \A j \in LinkKeys : /\ Live(M, j) => Live(L, j) /\ M[j] = L[j]
                          /\ M[j] = "declared" => L[j] = "declared"
                          /\ M[j] = "untyped" => L[j] = "untyped"
  BY <1>1, <1>2 DEF Live
<1>4. Acyclic(M)
  <2>1. \A u, l \in Cards : /\ <<u, l, "parent_of">> \in LinkKeys
                            /\ <<u, l, "blocks">> \in LinkKeys
                            /\ <<l, u, "depends_on">> \in LinkKeys
    BY DEF LinkKeys, LinkTypes
  <2>2. \A u, l \in Cards : DirectlyAbove(M, u, l) => DirectlyAbove(L, u, l)
    BY <1>3, <2>1 DEF DirectlyAbove
  <2> QED BY <1>2, <2>2, FewerSteps DEF Sound
<1>5. OneParent(M)
  <2>1. \A p, c \in Cards : <<p, c, "parent_of">> \in LinkKeys
    BY DEF LinkKeys, LinkTypes
  <2> QED BY <1>3, <2>1 DEF OneParent, Sound
<1>6. UntypedAlone(M)
  BY <1>3, PairKeys DEF UntypedAlone, DeclaredPair, Sound
<1>7. Canonical(M)
  BY <1>1, <1>2 DEF Canonical, Sound, Live
<1>8. Sound(M)
  BY <1>4, <1>5, <1>6, <1>7 DEF Sound
<1>9. DOMAIN R \subseteq LinkKeys /\ R \in [DOMAIN R -> LinkStatus]
  BY <1>1
<1> QED BY <1>8, <1>9 DEF R, M

\* An empty table is sound.
THEOREM NoLinksSound == Sound([k \in LinkKeys |-> "none"])
<1> DEFINE L == [k \in LinkKeys |-> "none"]
<1>1. \A k \in LinkKeys : L[k] = "none" /\ ~Live(L, k)
  BY DEF Live
<1>2. \A u, l \in Cards : ~DirectlyAbove(L, u, l)
  <2>1. \A u, l \in Cards : /\ <<u, l, "parent_of">> \in LinkKeys
                            /\ <<u, l, "blocks">> \in LinkKeys
                            /\ <<l, u, "depends_on">> \in LinkKeys
    BY DEF LinkKeys, LinkTypes
  <2> QED BY <1>1, <2>1 DEF DirectlyAbove
<1> HIDE DEF L
<1>3. Acyclic(L)
  BY <1>2 DEF Acyclic
<1>4. OneParent(L)
  <2>1. \A p, c \in Cards : <<p, c, "parent_of">> \in LinkKeys
    BY DEF LinkKeys, LinkTypes
  <2> QED BY <1>1, <2>1 DEF OneParent
<1>5. UntypedAlone(L) /\ Canonical(L)
  BY <1>1 DEF UntypedAlone, Canonical
<1> QED BY <1>3, <1>4, <1>5 DEF Sound, L
=============================================================================
