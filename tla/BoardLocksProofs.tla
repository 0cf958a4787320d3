--------------------------- MODULE BoardLocksProofs ---------------------------
(***************************************************************************)
(* The locks of the board, for any number of cards, sessions and calls.    *)
(*                                                                         *)
(* A command that writes relations holds the links lock from its first     *)
(* check to its end, so the rules of the table still hold when its writes  *)
(* become visible.  Every command takes its locks in one order, so those   *)
(* that relate cards never wait in a circle; and it keeps them to its end. *)
(***************************************************************************)
EXTENDS BoardProofs

\* A new row over a transaction's rows is seen over what it saw.
LEMMA OverlayMerged ==
  ASSUME NEW L \in LinkTable, NEW new, Rows(new, LinkKeys, LinkStatus),
         NEW rows, Rows(rows, LinkKeys, LinkStatus)
  PROVE  Overlay(Merged(new, rows), L) = Overlay(new, Overlay(rows, L))
<1> DEFINE M == Merged(new, rows)
           S == Overlay(rows, L)
<1>1. Rows(M, LinkKeys, LinkStatus)
  BY MergedType
<1>2. /\ DOMAIN M = DOMAIN new \cup DOMAIN rows
      /\ \A k \in DOMAIN M : M[k] = IF k \in DOMAIN new THEN new[k] ELSE rows[k]
  BY DEF Merged
<1>3. S \in LinkTable /\ \A k \in LinkKeys : S[k] = IF k \in DOMAIN rows THEN rows[k] ELSE L[k]
  BY OverlayType DEF Rows
<1> HIDE DEF M, S
<1>4. /\ Overlay(M, L) \in LinkTable
      /\ \A k \in LinkKeys : Overlay(M, L)[k] = IF k \in DOMAIN M THEN M[k] ELSE L[k]
  BY <1>1, OverlayType DEF Rows
<1>5. /\ Overlay(new, S) \in LinkTable
      /\ \A k \in LinkKeys : Overlay(new, S)[k] = IF k \in DOMAIN new THEN new[k] ELSE S[k]
  BY <1>3, OverlayType DEF Rows
<1>6. \A k \in LinkKeys : Overlay(M, L)[k] = Overlay(new, S)[k]
  BY <1>2, <1>3, <1>4, <1>5
<1>7. Overlay(M, L) = Overlay(new, S)
  BY <1>4, <1>5, <1>6 DEF LinkTable
<1> QED BY <1>7 DEF M, S

\* The locks differ, and nobody is None.
LEMMA LocksDiffer ==
  /\ LinksLock \in Locks
  /\ \A c : CardLock(c) # LinksLock
  /\ None \notin Sessions
  BY BoardAssumption DEF Locks, LinksLock, CardLock

\* The part of LinkInv about one session.
LinkHeld(s) ==
    /\ w[s].links # NoRows => owner[LinksLock] = s
    /\ TakesLinksLock(txn[s].call) =>
          \/ owner[LinksLock] = s
          \/ txn[s].phase = "locking" /\ txn[s].locks = LocksOf(txn[s].call)
    /\ Sound(Overlay(w[s].links, links))

\* A step of one session that commits nothing and takes the links lock from
\* nobody keeps the invariant when it keeps the session's own part.
LEMMA LinkStep ==
  ASSUME LinkInv, NEW s \in Sessions, UNCHANGED links, LinkHeld(s)',
         \A r \in Sessions \ {s} :
            /\ txn'[r] = txn[r] /\ w'[r] = w[r]
            /\ owner[LinksLock] = r => owner'[LinksLock] = r
  PROVE  LinkInv'
<1>1. ASSUME NEW r \in Sessions
      PROVE  LinkHeld(r)'
  <2>1. CASE r = s
    BY <2>1
  <2>2. CASE r # s
    <3>1. LinkHeld(r)
      BY DEF LinkInv, LinkHeld
    <3> QED BY <2>2, <3>1 DEF LinkHeld
  <2> QED BY <2>1, <2>2
<1>2. Sound(links)'
  BY DEF LinkInv
<1> QED BY <1>1, <1>2 DEF LinkInv, LinkHeld

\* A session at rest holds its part.
LEMMA RestHeld ==
  ASSUME NEW L \in LinkTable, Sound(L)
  PROVE  /\ NoWrites.links = NoRows /\ Sound(Overlay(NoWrites.links, L))
         /\ ~TakesLinksLock(Idle.call)
<1>1. NoWrites.links = NoRows /\ Idle.call.cmd = "none"
  BY DEF NoWrites, Idle, NoCall
<1> QED BY <1>1, OverlayNothing DEF TakesLinksLock, Declares, RelationCommands

\* The end of a call without a commit.
LEMMA FinishLinks ==
  ASSUME TypeOK, LinkInv, NEW s \in Sessions, NEW answer, Finish(s, answer)
  PROVE  LinkInv'
<1>1. /\ txn' = [txn EXCEPT ![s] = Idle] /\ w' = [w EXCEPT ![s] = NoWrites]
      /\ owner' = [l \in Locks |-> IF owner[l] = s THEN None ELSE owner[l]]
      /\ UNCHANGED links
  BY DEF Finish, End, tables
<1>2. links \in LinkTable /\ Sound(links)
  BY DEF TypeOK, TablesOK, LinkInv
<1>3. txn'[s] = Idle /\ w'[s] = NoWrites
  BY <1>1 DEF TypeOK
<1>4. LinkHeld(s)'
  BY <1>1, <1>2, <1>3, RestHeld DEF LinkHeld
<1>5. \A r \in Sessions \ {s} :
         /\ txn'[r] = txn[r] /\ w'[r] = w[r]
         /\ owner[LinksLock] = r => owner'[LinksLock] = r
  BY <1>1, LocksDiffer DEF TypeOK
<1> QED BY <1>1, <1>4, <1>5, LinkStep

\* The writes of a command: no relation, or relations under the links lock.
LEMMA WriteLinks ==
  ASSUME TypeOK, LinkInv, NEW s \in Sessions, NEW cmds, Ready(s, cmds),
         NEW rows, "links" \in DOMAIN rows, NEW log, NEW tail,
         Write(s, rows, log, tail),
         \/ rows.links = NoRows
         \/ TakesLinksLock(txn[s].call) /\ Sound(Overlay(rows.links, links))
  PROVE  LinkInv'
<1>1. /\ txn'[s].call = txn[s].call /\ w'[s].links = rows.links
      /\ owner' = owner /\ UNCHANGED links
      /\ \A r \in Sessions \ {s} : txn'[r] = txn[r] /\ w'[r] = w[r]
  <2>1. TxnOK(txn[s])
    BY DEF TypeOK
  <2> DEFINE new == Stamp(events, log \o IF txn[s].items = <<>> THEN tail ELSE <<>>) \ events
  <2>2. w' = [w EXCEPT ![s] = [rows EXCEPT !.events = new]]
    BY DEF Write
  <2> HIDE DEF new
  <2>3. w'[s].links = rows.links /\ \A r \in Sessions \ {s} : w'[r] = w[r]
    BY <2>2 DEF TypeOK
  <2>4. txn'[s].call = txn[s].call /\ \A r \in Sessions \ {s} : txn'[r] = txn[r]
    BY <2>1 DEF Write, TypeOK, TxnOK, Txn
  <2> QED BY <2>3, <2>4 DEF Write, tables
<1>2. /\ txn[s].call \in Calls /\ txn[s].phase = "locking" /\ txn[s].locks = <<>>
      /\ links \in LinkTable /\ Sound(links)
  BY ReadyType DEF Ready, TypeOK, TablesOK, LinkInv
<1>3. TakesLinksLock(txn[s].call) => owner[LinksLock] = s
  BY <1>2, LocksOfType DEF LinkInv
<1>4. Sound(Overlay(rows.links, links))
  BY <1>2, OverlayNothing
<1>5. LinkHeld(s)'
  BY <1>1, <1>3, <1>4 DEF LinkHeld
<1> QED BY <1>1, <1>5, LinkStep

\* One item of a call, with or without the row lock it takes.
LEMMA NextItemLinks ==
  ASSUME TypeOK, LinkInv, NEW s \in Sessions, txn[s].phase = "items",
         NEW rows, WritesOK(rows), NEW log, NextItem(s, rows, log),
         NEW c, owner' \in {owner, [owner EXCEPT ![CardLock(c)] = s]},
         \/ rows.links = w[s].links
         \/ /\ TakesLinksLock(txn[s].call)
            /\ Sound(Overlay(rows.links, links))
  PROVE  LinkInv'
<1>1. /\ txn'[s].call = txn[s].call /\ w'[s].links = rows.links
      /\ UNCHANGED links
      /\ \A r \in Sessions \ {s} : txn'[r] = txn[r] /\ w'[r] = w[r]
  <2>1. TxnOK(txn[s])
    BY DEF TypeOK
  <2> DEFINE rest == Tail(txn[s].items)
             new == Stamp(events \cup rows.events,
                          log \o IF rest = <<>> THEN txn[s].tail ELSE <<>>) \ events
  <2>2. w' = [w EXCEPT ![s] = [rows EXCEPT !.events = new]]
    BY DEF NextItem
  <2> HIDE DEF new
  <2>3. w'[s].links = rows.links /\ \A r \in Sessions \ {s} : w'[r] = w[r]
    BY <2>2 DEF TypeOK, WritesOK
  <2>4. txn'[s].call = txn[s].call /\ \A r \in Sessions \ {s} : txn'[r] = txn[r]
    BY <2>1 DEF NextItem, TypeOK, TxnOK, Txn
  <2> QED BY <2>3, <2>4 DEF NextItem, tables
<1>2. owner'[LinksLock] = owner[LinksLock]
  BY LocksDiffer DEF TypeOK
<1>3. LinkHeld(s)
  BY DEF LinkInv, LinkHeld
<1>4. LinkHeld(s)'
  BY <1>1, <1>2, <1>3 DEF LinkHeld
<1> QED BY <1>1, <1>2, <1>4, LinkStep

\* The commands that write no relation: what they write has none.
LEMMA OtherCommandsLinks ==
  ASSUME TypeOK, LinkInv, NEW s \in Sessions,
         \/ ExecCreate(s) \/ ExecEdit(s) \/ ExecMove(s) \/ ExecArchive(s)
         \/ ExecNote(s) \/ ExecLand(s) \/ ExecAttach(s) \/ ExecDetach(s)
         \/ ExecRelease(s)
  PROVE  LinkInv'
<1> DEFINE Writes(rows) == \E cmds, log, tail : Ready(s, cmds) /\ Write(s, rows, log, tail)
           Fields(x) == x.links = NoRows /\ "links" \in DOMAIN x
<1>1. ASSUME NEW rows, Writes(rows), Fields(rows)
      PROVE  LinkInv'
  BY <1>1, WriteLinks
<1>2. ASSUME NEW answer, Finish(s, answer)
      PROVE  LinkInv'
  BY <1>2, FinishLinks
<1>3. Fields(NoWrites)
  BY DEF NoWrites
<1>4. ASSUME NEW x, Fields(x)
      PROVE  /\ \A C : Fields([x EXCEPT !.cards = C])
             /\ \A B : Fields([x EXCEPT !.branches = B])
             /\ \A C, B : Fields([x EXCEPT !.cards = C, !.branches = B])
             /\ \A R : Fields([x EXCEPT !.refs = R])
             /\ \A v : Fields([x EXCEPT !.version = v])
  BY <1>4
<1> HIDE DEF Writes, Fields
<1>5. \/ \E answer : Finish(s, answer)
      \/ Writes(NoWrites)
      \/ \E C : Writes([NoWrites EXCEPT !.cards = C])
      \/ \E B : Writes([NoWrites EXCEPT !.branches = B])
      \/ \E C, B : Writes([NoWrites EXCEPT !.cards = C, !.branches = B])
      \/ \E R : Writes([NoWrites EXCEPT !.refs = R])
      \/ \E v : Writes([NoWrites EXCEPT !.version = v])
  <2>1. CASE ExecCreate(s)
    BY <2>1, Zenon DEF ExecCreate, Writes
  <2>2. CASE ExecEdit(s)
    BY <2>2, Zenon DEF ExecEdit, Writes
  <2>3. CASE ExecMove(s)
    BY <2>3, Zenon DEF ExecMove, Writes
  <2>4. CASE ExecArchive(s)
    BY <2>4, Zenon DEF ExecArchive, Writes
  <2>5. CASE ExecNote(s)
    BY <2>5, Zenon DEF ExecNote, Writes
  <2>6. CASE ExecLand(s)
    BY <2>6, Zenon DEF ExecLand, Writes
  <2>7. CASE ExecAttach(s)
    BY <2>7, Zenon DEF ExecAttach, Writes
  <2>8. CASE ExecDetach(s)
    BY <2>8, Zenon DEF ExecDetach, Writes
  <2>9. CASE ExecRelease(s)
    BY <2>9, Zenon DEF ExecRelease, Writes
  <2> QED BY <2>1, <2>2, <2>3, <2>4, <2>5, <2>6, <2>7, <2>8, <2>9
<1>6. CASE Writes(NoWrites)
  BY <1>1, <1>3, <1>6
<1>7. CASE \E C : Writes([NoWrites EXCEPT !.cards = C])
  BY <1>1, <1>3, <1>4, <1>7
<1>8. CASE \E B : Writes([NoWrites EXCEPT !.branches = B])
  BY <1>1, <1>3, <1>4, <1>8
<1>9. CASE \E C, B : Writes([NoWrites EXCEPT !.cards = C, !.branches = B])
  BY <1>1, <1>3, <1>4, <1>9
<1>10. CASE \E R : Writes([NoWrites EXCEPT !.refs = R])
  BY <1>1, <1>3, <1>4, <1>10
<1>11. CASE \E v : Writes([NoWrites EXCEPT !.version = v])
  BY <1>1, <1>3, <1>4, <1>11
<1> QED BY <1>2, <1>5, <1>6, <1>7, <1>8, <1>9, <1>10, <1>11

\* link, unlink, attach and detach of a card: what they write is sound, as
\* seen over the table nobody else can change.
LEMMA RelationCommandsLinks ==
  ASSUME TypeOK, LinkInv, NEW s \in Sessions, ExecLink(s) \/ ExecUnlink(s)
  PROVE  LinkInv'
<1> DEFINE q == txn[s].call
           k == LinkKey(q.card, q.other, q.rel)
           declared == q.cmd = "link"
           new == LinkWritten(links, k, declared)
           gone == Unlinked(links, k)
<1>1. /\ Ready(s, RelationCommands) /\ TakesLinksLock(q)
      /\ ExecLink(s) => q.cmd \in {"link", "attach_card"}
  BY DEF ExecLink, ExecUnlink, Ready, RelationCommands, TakesLinksLock
<1>2. /\ k \in LinkKeys /\ Writable(k, TRUE)
      /\ q.cmd \in {"attach_card", "detach_card"} => Writable(k, FALSE)
  BY <1>1, RelationKey
<1>3. links \in LinkTable /\ Sound(links)
  BY DEF TypeOK, TablesOK, LinkInv
<1>4. CASE \E answer \in {"refused", "unchanged"} : Finish(s, answer)
  BY <1>4, FinishLinks
<1>5. CASE /\ ExecLink(s)
           /\ ~(declared /\ LinkRefused(links, k))
           /\ ~LinkStands(links, k, declared)
           /\ \E log, tail : Write(s, [NoWrites EXCEPT !.links = new], log, tail)
  <2>1. declared \in BOOLEAN
    OBVIOUS
  <2>2. Writable(k, declared)
    <3>1. ~declared => q.cmd \in {"attach_card", "detach_card"}
      BY <1>1, <1>5
    <3> HIDE DEF k
    <3> QED BY <1>2, <3>1 DEF Writable
  <2> HIDE DEF k
  <2>3. declared => ~LinkRefused(links, k)
    BY <1>5
  <2>4. ~LinkStands(links, k, declared)
    BY <1>5
  <2> HIDE DEF declared
  <2>5. Sound(Overlay(new, links))
    BY <1>3, <2>1, <2>2, <2>3, <2>4, LinkWriteSound
  <2> DEFINE x == [NoWrites EXCEPT !.links = new]
  <2> HIDE DEF new
  <2>6. "links" \in DOMAIN x /\ x.links = new
    BY DEF NoWrites
  <2>7. PICK log, tail : Write(s, x, log, tail)
    BY <1>5
  <2> HIDE DEF x, q
  <2> QED BY <1>1, <2>5, <2>6, <2>7, WriteLinks DEF q
<1>6. CASE /\ Live(links, k)
           /\ \E log, tail : Write(s, [NoWrites EXCEPT !.links = gone], log, tail)
  <2> HIDE DEF k
  <2>1. Sound(Overlay(gone, links))
    BY <1>2, <1>3, <1>6, UnlinkSound
  <2> DEFINE x == [NoWrites EXCEPT !.links = gone]
  <2> HIDE DEF gone
  <2>2. "links" \in DOMAIN x /\ x.links = gone
    BY DEF NoWrites
  <2>3. PICK log, tail : Write(s, x, log, tail)
    BY <1>6
  <2> HIDE DEF x, q
  <2> QED BY <1>1, <2>1, <2>2, <2>3, WriteLinks DEF q
<1> QED BY <1>4, <1>5, <1>6, Zenon DEF ExecLink, ExecUnlink

\* One declared relation: what it checks is the table under the call's own
\* rows, and nobody else can change either.
LEMMA DeclareItemLinks ==
  ASSUME TypeOK, LinkInv, NEW s \in Sessions, DeclareItem(s)
  PROVE  LinkInv'
<1> DEFINE item == Head(txn[s].items)
           c == txn[s].card
           k == LinkKey(c, item.other, item.rel)
           seen == Overlay(w[s].links, links)
           new == LinkWritten(seen, k, TRUE)
           lock == CardLock(item.other)
<1>1. txn[s].phase = "items" /\ txn[s].call.cmd # "release"
  BY DEF DeclareItem
<1>2. /\ TablesOK /\ WritesOK(w[s]) /\ c \in Cards /\ item \in LinkItem
      /\ TakesLinksLock(txn[s].call)
  BY <1>1, ItemType DEF TakesLinksLock
<1>3. CASE Finish(s, "refused")
  BY <1>3, FinishLinks
<1>4. CASE owner' = [owner EXCEPT ![lock] = s] /\ NextItem(s, w[s], <<>>)
  <2>1. owner' \in {owner, [owner EXCEPT ![CardLock(item.other)] = s]}
    BY <1>4
  <2> DEFINE x == w[s]
             none == <<>>
  <2>2. WritesOK(x) /\ x.links = w[s].links /\ NextItem(s, x, none)
    BY <1>2, <1>4
  <2> HIDE DEF item, x, none
  <2> QED BY <1>1, <2>1, <2>2, NextItemLinks
<1>5. CASE /\ item.other # c
           /\ owner' = [owner EXCEPT ![lock] = s]
           /\ ~LinkRefused(seen, k) /\ ~LinkStands(seen, k, TRUE)
           /\ NextItem(s, [w[s] EXCEPT !.links = Merged(new, @)],
                       RelationLog("linked", k, c, None))
  <2>1. item.other \in Cards /\ item.rel \in RelationNames
    BY <1>2 DEF LinkItem
  <2> HIDE DEF item, c
  <2>2. Writable(k, TRUE)
    BY <1>2, <1>5, <2>1, LinkKeyWritable
  <2> HIDE DEF k
  <2>3. Rows(w[s].links, LinkKeys, LinkStatus) /\ links \in LinkTable
    BY <1>2 DEF WritesOK, TablesOK
  <2>4. seen \in LinkTable /\ Sound(seen)
    BY <2>3, OverlayType DEF Rows, LinkInv
  <2>5. Rows(new, LinkKeys, LinkStatus)
    <3> HIDE DEF seen
    <3> QED BY <2>2, <2>4, WrittenTable DEF Rows
  <2>6. Sound(Overlay(new, seen))
    <3> HIDE DEF seen
    <3> QED BY <1>5, <2>2, <2>4, LinkWriteSound
  <2> DEFINE merged == Merged(new, w[s].links)
             x == [w[s] EXCEPT !.links = merged]
             log == RelationLog("linked", k, c, None)
  <2>7. Sound(Overlay(merged, links))
    <3> HIDE DEF new
    <3> QED BY <2>3, <2>5, <2>6, OverlayMerged
  <2>8. Rows(merged, LinkKeys, LinkStatus)
    <3> HIDE DEF new
    <3> QED BY <2>3, <2>5, MergedType
  <2>9. NextItem(s, x, log)
    BY <1>5
  <2> HIDE DEF merged, log
  <2>10. WritesOK(x) /\ x.links = merged
    BY <1>2, <2>8, WrittenRows DEF WritesOK
  <2>11. owner' \in {owner, [owner EXCEPT ![CardLock(item.other)] = s]}
    BY <1>5
  <2> HIDE DEF x
  <2> QED BY <1>1, <1>2, <2>7, <2>9, <2>10, <2>11, NextItemLinks
<1> QED BY <1>3, <1>4, <1>5 DEF DeclareItem

\* One card of a release writes no relation.
LEMMA ReleaseItemLinks ==
  ASSUME TypeOK, LinkInv, NEW s \in Sessions, ReleaseItem(s)
  PROVE  LinkInv'
<1> DEFINE c == Head(txn[s].items)
<1>1. /\ txn[s].phase = "items" /\ txn[s].call.cmd = "release"
      /\ \/ NextItem(s, w[s], <<>>)
         \/ \E C, log : NextItem(s, [w[s] EXCEPT !.cards = C], log)
      /\ owner' \in {owner, [owner EXCEPT ![CardLock(c)] = s]}
  BY DEF ReleaseItem
<1>2. WritesOK(w[s])
  BY DEF TypeOK
<1>3. w'[s].links = w[s].links /\ \A r \in Sessions \ {s} : w'[r] = w[r]
  <2>1. ASSUME NEW C PROVE /\ "links" \in DOMAIN [w[s] EXCEPT !.cards = C]
                          /\ [w[s] EXCEPT !.cards = C].links = w[s].links
                          /\ "links" \in DOMAIN w[s]
    BY <1>2 DEF WritesOK
  <2>2. ASSUME NEW rows, NEW log, NextItem(s, rows, log), "links" \in DOMAIN rows
        PROVE  w'[s].links = rows.links /\ \A r \in Sessions \ {s} : w'[r] = w[r]
    <3>1. PICK E : w' = [w EXCEPT ![s] = [rows EXCEPT !.events = E]]
      BY <2>2 DEF NextItem
    <3> QED BY <2>2, <3>1 DEF TypeOK
  <2> QED BY <1>1, <2>1, <2>2
<1>4. /\ txn'[s].call = txn[s].call
      /\ \A r \in Sessions \ {s} : txn'[r] = txn[r]
      /\ UNCHANGED links
  <2>1. TxnOK(txn[s])
    BY DEF TypeOK
  <2>2. ASSUME NEW rows, NEW log, NextItem(s, rows, log)
        PROVE  /\ txn'[s].call = txn[s].call
               /\ \A r \in Sessions \ {s} : txn'[r] = txn[r]
               /\ UNCHANGED links
    BY <2>1, <2>2 DEF NextItem, TypeOK, TxnOK, Txn, tables
  <2> QED BY <1>1, <2>2
<1>5. owner'[LinksLock] = owner[LinksLock]
  BY <1>1, LocksDiffer DEF TypeOK
<1>6. LinkHeld(s)
  BY DEF LinkInv, LinkHeld
<1>7. LinkHeld(s)'
  BY <1>1, <1>3, <1>4, <1>5, <1>6 DEF LinkHeld, TakesLinksLock, Declares, RelationCommands
<1> QED BY <1>3, <1>4, <1>5, <1>7, LinkStep

\* A commit: the session that wrote relations, if there is one, is the one
\* that holds the links lock, so either the table or every other session's
\* view of it stays.
LEMMA CommitLinks ==
  ASSUME TypeOK, LinkInv, NEW s \in Sessions, Commit(s)
  PROVE  LinkInv'
<1>1. /\ txn' = [txn EXCEPT ![s] = Idle] /\ w' = [w EXCEPT ![s] = NoWrites]
      /\ owner' = [l \in Locks |-> IF owner[l] = s THEN None ELSE owner[l]]
      /\ links' = Overlay(w[s].links, links)
  BY DEF Commit, End
<1>2. /\ links \in LinkTable /\ links' \in LinkTable
      /\ Sound(links) /\ Sound(links')
  <2>1. Rows(w[s].links, LinkKeys, LinkStatus) /\ links \in LinkTable
    BY DEF TypeOK, WritesOK, TablesOK
  <2> QED BY <1>1, <2>1, OverlayType DEF LinkInv, Rows
<1>3. txn'[s] = Idle /\ w'[s] = NoWrites
      /\ \A r \in Sessions \ {s} : txn'[r] = txn[r] /\ w'[r] = w[r]
  BY <1>1 DEF TypeOK
<1>4. LinkHeld(s)'
  BY <1>2, <1>3, RestHeld DEF LinkHeld
<1>5. ASSUME NEW r \in Sessions \ {s}
      PROVE  LinkHeld(r)'
  <2>1. LinkHeld(r)
    BY DEF LinkInv, LinkHeld
  <2>2. owner[LinksLock] = r => owner'[LinksLock] = r
    BY <1>1, LocksDiffer DEF TypeOK
  <2>3. Sound(Overlay(w[r].links, links'))
    <3>1. CASE w[r].links = NoRows
      BY <1>2, <3>1, OverlayNothing
    <3>2. CASE w[r].links # NoRows
      <4>1. owner[LinksLock] = r
        BY <2>1, <3>2 DEF LinkHeld
      <4>2. w[s].links = NoRows
        BY <4>1 DEF LinkInv
      <4>3. links' = links
        BY <1>1, <1>2, <4>2, OverlayNothing
      <4> QED BY <2>1, <4>3 DEF LinkHeld
    <3> QED BY <3>1, <3>2
  <2> QED BY <1>3, <2>1, <2>2, <2>3 DEF LinkHeld
<1> QED BY <1>2, <1>4, <1>5 DEF LinkInv, LinkHeld

\* A lock taken: the first lock of a call that writes relations is the links
\* lock, and it is taken from nobody.
LEMMA TakeLockLinks ==
  ASSUME TypeOK, LinkInv, NEW s \in Sessions, TakeLock(s)
  PROVE  LinkInv'
<1> DEFINE l == Head(txn[s].locks)
<1>1. /\ txn[s].phase = "locking" /\ txn[s].locks # <<>> /\ owner[l] \in {None, s}
      /\ owner' = [owner EXCEPT ![l] = s] /\ w' = w /\ UNCHANGED links
      /\ txn' = [txn EXCEPT ![s].locks = Tail(@)]
  BY DEF TakeLock, Free, tables
<1>2. TxnOK(txn[s]) /\ LinkHeld(s)
  BY DEF TypeOK, LinkInv, LinkHeld
<1>3. txn[s].call \in Calls
  BY <1>1, <1>2 DEF TxnOK
<1>4. txn'[s].call = txn[s].call /\ \A r \in Sessions \ {s} : txn'[r] = txn[r]
  BY <1>1, <1>2 DEF TypeOK, TxnOK, Txn
<1>5. \A r \in Sessions : owner[LinksLock] = r => owner'[LinksLock] = r
  BY <1>1, LocksDiffer DEF TypeOK
<1>6. TakesLinksLock(txn[s].call) => owner'[LinksLock] = s
  <2>1. CASE owner[LinksLock] = s
    BY <1>5, <2>1
  <2>2. CASE owner[LinksLock] # s /\ TakesLinksLock(txn[s].call)
    <3>1. txn[s].locks = LocksOf(txn[s].call)
      BY <1>2, <2>2 DEF LinkHeld
    <3>2. l = LinksLock
      BY <1>3, <2>2, <3>1, LocksOfType
    <3> QED BY <1>1, <3>2, LocksDiffer DEF TypeOK
  <2> QED BY <2>1, <2>2
<1>7. LinkHeld(s)'
  BY <1>1, <1>2, <1>4, <1>5, <1>6 DEF LinkHeld
<1> QED BY <1>1, <1>4, <1>5, <1>7, LinkStep

\* A call begun has all its locks still to take.
LEMMA BeginLinks ==
  ASSUME TypeOK, LinkInv, NEW s \in Sessions, Begin(s)
  PROVE  LinkInv'
<1>1. /\ UNCHANGED <<links, owner, w>>
      /\ \/ UNCHANGED txn
         \/ \E q, t : /\ txn' = [txn EXCEPT ![s] = t]
                      /\ t.phase = "locking" /\ t.call = q /\ t.locks = LocksOf(q)
  <2>1. PICK q \in Calls, c \in Cards \cup {0} :
          /\ \/ UNCHANGED txn
             \/ txn' = [txn EXCEPT ![s] =
                    [phase |-> "locking", call |-> q, card |-> c,
                     locks |-> LocksOf(q), items |-> ItemsOf(q),
                     tail |-> <<>>, seen |-> Seen(q),
                     policy |-> IF q.cmd = "release" THEN policy ELSE "record"]]
          /\ UNCHANGED <<tables, outside, owner, w>>
    BY DEF Begin
  <2> DEFINE t == [phase |-> "locking", call |-> q, card |-> c,
                   locks |-> LocksOf(q), items |-> ItemsOf(q),
                   tail |-> <<>>, seen |-> Seen(q),
                   policy |-> IF q.cmd = "release" THEN policy ELSE "record"]
  <2>2. t.phase = "locking" /\ t.call = q /\ t.locks = LocksOf(q)
    OBVIOUS
  <2>3. UNCHANGED txn \/ txn' = [txn EXCEPT ![s] = t]
    BY <2>1
  <2> HIDE DEF t
  <2> QED BY <2>1, <2>2, <2>3 DEF tables
<1>2. LinkHeld(s)
  BY DEF LinkInv, LinkHeld
<1>3. LinkHeld(s)' /\ \A r \in Sessions \ {s} : txn'[r] = txn[r]
  <2>1. CASE UNCHANGED txn
    BY <1>1, <1>2, <2>1 DEF LinkHeld
  <2>2. CASE ~UNCHANGED txn
    <3>1. PICK q, t : /\ txn' = [txn EXCEPT ![s] = t]
                      /\ t.phase = "locking" /\ t.call = q /\ t.locks = LocksOf(q)
      BY <1>1, <2>2
    <3>2. txn'[s] = t /\ \A r \in Sessions \ {s} : txn'[r] = txn[r]
      BY <3>1 DEF TypeOK
    <3> QED BY <1>1, <1>2, <3>1, <3>2 DEF LinkHeld
  <2> QED BY <2>1, <2>2
<1> QED BY <1>1, <1>3, LinkStep

\* The invariant holds of every board.
THEOREM LinksHeldAndSound == Spec => []LinkInv
<1>1. Init => LinkInv
  <2> SUFFICES ASSUME Init PROVE LinkInv
    OBVIOUS
  <2>1. links = [k \in LinkKeys |-> "none"]
    BY DEF Init
  <2>2. links \in LinkTable /\ Sound(links)
    BY <2>1, NoLinksSound DEF LinkTable, LinkStatus
  <2>3. \A s \in Sessions : txn[s] = Idle /\ w[s] = NoWrites
    BY DEF Init
  <2> QED BY <2>2, <2>3, RestHeld DEF LinkInv
<1>2. ASSUME TypeOK, LinkInv, [Next]_vars
      PROVE  LinkInv'
  <2>1. ASSUME NEW s \in Sessions, Begin(s) PROVE LinkInv'
    BY <1>2, <2>1, BeginLinks
  <2>2. ASSUME NEW s \in Sessions, TakeLock(s) PROVE LinkInv'
    BY <1>2, <2>2, TakeLockLinks
  <2>3. ASSUME NEW s \in Sessions, Exec(s) PROVE LinkInv'
    BY <1>2, <2>3, OtherCommandsLinks, RelationCommandsLinks DEF Exec
  <2>4. ASSUME NEW s \in Sessions, DeclareItem(s) \/ ReleaseItem(s) PROVE LinkInv'
    BY <1>2, <2>4, DeclareItemLinks, ReleaseItemLinks
  <2>5. ASSUME NEW s \in Sessions, Commit(s) PROVE LinkInv'
    BY <1>2, <2>5, CommitLinks
  <2>6. ASSUME NEW s \in Sessions, UniqueViolation(s) \/ DeadlockAbort(s) PROVE LinkInv'
    BY <1>2, <2>6, FinishLinks DEF UniqueViolation, DeadlockAbort
  <2>7. CASE \/ \E p \in {"record", "record_and_move_done"} : Configure(p)
             \/ \E l \in Loops : CloseLoop(l)
             \/ UNCHANGED vars
    <3>1. UNCHANGED <<links, owner, txn, w>>
      BY <2>7 DEF Configure, CloseLoop, vars, tables
    <3> QED BY <1>2, <3>1 DEF LinkInv
  <2> QED BY <1>2, <2>1, <2>2, <2>3, <2>4, <2>5, <2>6, <2>7 DEF Next, Step, Done
<1> QED BY <1>1, <1>2, TypeCorrect, PTL DEF Spec

\* No card is ever above itself, none ever has two live parents, and an
\* untyped relation never stands beside a declared one, whatever the commands
\* that race.
THEOREM RelationsKeepTheirRules ==
  Spec => [](NoCardAboveItself /\ OneParentEach /\ UntypedYieldsToTyped)
<1>1. LinkInv => NoCardAboveItself /\ OneParentEach /\ UntypedYieldsToTyped
  BY DEF LinkInv, Sound, NoCardAboveItself, OneParentEach, UntypedYieldsToTyped
<1> QED BY <1>1, LinksHeldAndSound, PTL

-----------------------------------------------------------------------------
(* Sequence numbers. *)

\* The row that Stamp adds for the i-th row of a log.
Stamped(E, log, i) ==
    [log[i] EXCEPT !.seq =
        LastSeq(E, log[i].card)
        + Cardinality({j \in 1..i : log[j].card = log[i].card})]

\* No row of a card comes after its last one.
LEMMA LastSeqBounds ==
  ASSUME NEW E \in SUBSET Event, IsFiniteSet(E), NEW e \in E
  PROVE  e.seq <= LastSeq(E, e.card)
<1> DEFINE F == {f \in E : f.card = e.card}
           g == [f \in F |-> f.seq]
<1>1. IsFiniteSet(F) /\ \A f \in F : f.seq \in Nat
  BY FS_Subset DEF Event
<1>2. IsFiniteSet({g[f] : f \in F})
  BY <1>1, FiniteImage
<1>3. Seqs(E, e.card) = {g[f] : f \in F}
  BY DEF Seqs
<1>4. IsFiniteSet(Seqs(E, e.card) \cup {0})
  BY <1>2, <1>3, FS_AddElement
<1>5. Seqs(E, e.card) \cup {0} \in SUBSET Nat
  BY <1>1 DEF Seqs
<1>6. e.seq \in Seqs(E, e.card) \cup {0}
  BY DEF Seqs
<1>7. \A y \in Seqs(E, e.card) \cup {0} : y <= Max(Seqs(E, e.card) \cup {0})
  BY <1>4, <1>5, MaxIsMember
<1> QED BY <1>6, <1>7 DEF LastSeq

\* Each stamped row is the row of the log with a number after those of its
\* card, and the numbers of a card grow along the log.
LEMMA StampedRow ==
  ASSUME NEW E \in SUBSET Event, IsFiniteSet(E), NEW log \in Seq(Event),
         NEW i \in DOMAIN log
  PROVE  /\ Stamped(E, log, i) \in Event
         /\ \E n \in Nat : Stamped(E, log, i) = [log[i] EXCEPT !.seq = n]
         /\ Stamped(E, log, i).seq # 0
         /\ \A f \in E : f.card = log[i].card => f.seq < Stamped(E, log, i).seq
         /\ \A j \in DOMAIN log : j < i /\ log[j].card = log[i].card =>
               Stamped(E, log, j).seq < Stamped(E, log, i).seq
<1> DEFINE Same(k) == {j \in 1..k : log[j].card = log[k].card}
           n(k) == LastSeq(E, log[k].card) + Cardinality(Same(k))
<1>1. DOMAIN log = 1..Len(log) /\ Len(log) \in Nat
  OBVIOUS
<1>2. ASSUME NEW k \in DOMAIN log
      PROVE  /\ IsFiniteSet(Same(k)) /\ Cardinality(Same(k)) \in Nat
             /\ k \in Same(k) /\ log[k] \in Event /\ k \in Nat
             /\ LastSeq(E, log[k].card) \in Nat
             /\ Stamped(E, log, k) = [log[k] EXCEPT !.seq = n(k)]
  <2>1. k \in Nat /\ k >= 1
    BY <1>1
  <2>2. IsFiniteSet(1..k)
    BY <2>1, FS_Interval
  <2>3. IsFiniteSet(Same(k)) /\ Cardinality(Same(k)) \in Nat
    BY <2>2, FS_Subset, FS_CardinalityType
  <2>4. k \in Same(k) /\ log[k] \in Event
    BY <1>1, <2>1
  <2>5. LastSeq(E, log[k].card) \in Nat
    BY LastSeqType
  <2> QED BY <2>1, <2>3, <2>4, <2>5 DEF Stamped
<1> DEFINE l(k) == LastSeq(E, log[k].card)
           m(k) == Cardinality(Same(k))
<1>3. ASSUME NEW k \in DOMAIN log
      PROVE  /\ Stamped(E, log, k).seq = l(k) + m(k) /\ l(k) \in Nat /\ m(k) \in Nat
             /\ l(k) + m(k) \in Nat
             /\ Stamped(E, log, k) = [log[k] EXCEPT !.seq = l(k) + m(k)]
  <2>1. log[k] \in Event /\ Stamped(E, log, k) = [log[k] EXCEPT !.seq = l(k) + m(k)]
        /\ l(k) \in Nat /\ m(k) \in Nat
    BY <1>2
  <2> HIDE DEF l, m
  <2> QED BY <2>1 DEF Event
<1>4. ASSUME NEW k \in DOMAIN log
      PROVE  m(k) >= 1
  <2>1. Cardinality(Same(k)) # 0
    BY <1>2, FS_EmptySet
  <2> QED BY <1>3, <2>1
<1>5. Stamped(E, log, i) \in Event
  <2>1. log[i] \in Event /\ l(i) + m(i) \in Nat
    BY <1>2, <1>3
  <2>2. Stamped(E, log, i) = [log[i] EXCEPT !.seq = l(i) + m(i)]
    BY <1>3
  <2> HIDE DEF l, m
  <2> QED BY <2>1, <2>2 DEF Event
<1>6. ASSUME NEW f \in E, f.card = log[i].card
      PROVE  f.seq < Stamped(E, log, i).seq
  <2>1. f.seq <= l(i) /\ f.seq \in Nat
    BY <1>6, LastSeqBounds DEF Event
  <2> HIDE DEF l, m
  <2> QED BY <1>3, <1>4, <2>1
<1>7. ASSUME NEW j \in DOMAIN log, j < i, log[j].card = log[i].card
      PROVE  Stamped(E, log, j).seq < Stamped(E, log, i).seq
  <2>1. l(j) = l(i)
    BY <1>7
  <2>2. Same(j) \subseteq Same(i) /\ i \notin Same(j) /\ i \in Same(i)
    BY <1>1, <1>2, <1>7
  <2>3. Cardinality(Same(j)) < Cardinality(Same(i))
    <3>1. Same(j) # Same(i)
      BY <2>2
    <3>2. IsFiniteSet(Same(i))
      BY <1>2
    <3> HIDE DEF Same
    <3> QED BY <2>2, <3>1, <3>2, <1>2, FS_Subset
  <2>4. m(j) < m(i)
    BY <2>3
  <2> HIDE DEF l, m
  <2> QED BY <1>3, <2>1, <2>4
<1>8. \E x \in Nat : Stamped(E, log, i) = [log[i] EXCEPT !.seq = x]
  <2> HIDE DEF l, m
  <2> QED BY <1>3
<1>9. Stamped(E, log, i).seq # 0
  <2> HIDE DEF l, m
  <2> QED BY <1>3, <1>4
<1> QED BY <1>5, <1>6, <1>7, <1>8, <1>9

\* Stamping adds the stamped rows and nothing else.
LEMMA StampAdds ==
  ASSUME NEW E, NEW log
  PROVE  Stamp(E, log) = E \cup {Stamped(E, log, i) : i \in DOMAIN log}
  BY DEF Stamp, Stamped

-----------------------------------------------------------------------------
(* What the steps of a session leave, and what the others keep. *)

\* A step of s leaves the other sessions their calls, their writes and their
\* locks.
OthersKeep(s) ==
    \A r \in Sessions \ {s} :
        /\ txn'[r] = txn[r] /\ w'[r] = w[r]
        /\ \A l \in Locks : owner'[l] = r <=> owner[l] = r

\* A call writes on: its rows are now those of rows, and the log is stamped,
\* with the tail of the call when nothing is left to do before it.
Progress(s, rows, log) ==
    LET t == txn'[s]
    IN  /\ w'[s].cards = rows.cards /\ w'[s].branches = rows.branches
        /\ w'[s].refs = rows.refs /\ w'[s].links = rows.links
        /\ w'[s].events =
              Stamp(events \cup rows.events,
                    log \o (IF t.phase = "commit" THEN t.tail ELSE <<>>)) \ events
        /\ t.phase = IF t.items = <<>> THEN "commit" ELSE "items"
        /\ t.call = txn[s].call /\ t.card = txn[s].card
        /\ t.locks = txn[s].locks /\ t.seen = txn[s].seen
        /\ UNCHANGED <<tables, outside, callers>>
        /\ OthersKeep(s)

\* The end of a call.
LEMMA EndEffect ==
  ASSUME TypeOK, NEW s \in Sessions, NEW answer, End(s, answer)
  PROVE  /\ txn'[s] = Idle /\ w'[s] = NoWrites
         /\ \A l \in Locks : owner'[l] # s
         /\ OthersKeep(s)
<1>1. /\ txn' = [txn EXCEPT ![s] = Idle] /\ w' = [w EXCEPT ![s] = NoWrites]
      /\ owner' = [l \in Locks |-> IF owner[l] = s THEN None ELSE owner[l]]
  BY DEF End
<1>2. None \notin Sessions
  BY LocksDiffer
<1> QED BY <1>1, <1>2 DEF TypeOK, OthersKeep

\* A lock taken.
LEMMA TakeLockEffect ==
  ASSUME TypeOK, NEW s \in Sessions, TakeLock(s)
  PROVE  /\ txn[s].phase = "locking" /\ txn[s].locks # <<>>
         /\ txn'[s] = [txn[s] EXCEPT !.locks = Tail(txn[s].locks)]
         /\ w'[s] = w[s]
         /\ owner' = [owner EXCEPT ![Head(txn[s].locks)] = s]
         /\ UNCHANGED <<tables, outside, callers>>
         /\ OthersKeep(s)
<1> DEFINE l == Head(txn[s].locks)
<1>1. /\ txn[s].phase = "locking" /\ txn[s].locks # <<>> /\ owner[l] \in {None, s}
      /\ owner' = [owner EXCEPT ![l] = s] /\ w' = w
      /\ txn' = [txn EXCEPT ![s].locks = Tail(@)]
      /\ UNCHANGED <<tables, outside, callers>>
  BY DEF TakeLock, Free
<1>2. None \notin Sessions
  BY LocksDiffer
<1>3. owner \in [Locks -> Sessions \cup {None}]
  BY DEF TypeOK
<1>4. txn'[s] = [txn[s] EXCEPT !.locks = Tail(txn[s].locks)]
      /\ \A r \in Sessions \ {s} : txn'[r] = txn[r]
  BY <1>1 DEF TypeOK
<1>5. \A r \in Sessions \ {s} : \A k \in Locks : owner'[k] = r <=> owner[k] = r
  BY <1>1, <1>2, <1>3
<1> QED BY <1>1, <1>4, <1>5 DEF OthersKeep

\* The writes of a command.
LEMMA WriteEffect ==
  ASSUME TypeOK, NEW s \in Sessions, NEW rows, WritesOK(rows), rows.events = {},
         NEW log \in Seq(Event), NEW tail \in Seq(Event), Write(s, rows, log, tail)
  PROVE  /\ Progress(s, rows, log)
         /\ txn'[s].items = txn[s].items /\ txn'[s].tail = tail
         /\ UNCHANGED owner
<1> DEFINE rest == txn[s].items
           new == Stamp(events, log \o IF rest = <<>> THEN tail ELSE <<>>) \ events
<1>1. /\ txn' = [txn EXCEPT ![s].phase = IF rest = <<>> THEN "commit" ELSE "items",
                            ![s].tail = tail]
      /\ w' = [w EXCEPT ![s] = [rows EXCEPT !.events = new]]
      /\ UNCHANGED <<tables, outside, owner, callers>>
  BY DEF Write
<1>2. TxnOK(txn[s])
  BY DEF TypeOK
<1>3. /\ txn'[s].phase = IF rest = <<>> THEN "commit" ELSE "items"
      /\ txn'[s].items = rest /\ txn'[s].tail = tail
      /\ txn'[s].call = txn[s].call /\ txn'[s].card = txn[s].card
      /\ txn'[s].locks = txn[s].locks /\ txn'[s].seen = txn[s].seen
      /\ \A r \in Sessions \ {s} : txn'[r] = txn[r]
  BY <1>1, <1>2 DEF TypeOK, TxnOK, Txn
<1>4. /\ w'[s].cards = rows.cards /\ w'[s].branches = rows.branches
      /\ w'[s].refs = rows.refs /\ w'[s].links = rows.links
      /\ w'[s].events = new
      /\ \A r \in Sessions \ {s} : w'[r] = w[r]
  <2> HIDE DEF new
  <2> QED BY <1>1 DEF TypeOK, WritesOK
<1>5. new = Stamp(events \cup rows.events,
                  log \o (IF txn'[s].phase = "commit" THEN txn'[s].tail ELSE <<>>)) \ events
  <2>1. events \cup rows.events = events
    OBVIOUS
  <2>2. (IF rest = <<>> THEN tail ELSE <<>>)
           = IF txn'[s].phase = "commit" THEN txn'[s].tail ELSE <<>>
    BY <1>3
  <2> QED BY <2>1, <2>2
<1>6. OthersKeep(s)
  BY <1>1, <1>3, <1>4 DEF OthersKeep
<1> HIDE DEF new
<1> QED BY <1>1, <1>3, <1>4, <1>5, <1>6 DEF Progress

\* One item of a call, with or without the row lock it takes.
LEMMA NextItemEffect ==
  ASSUME TypeOK, NEW s \in Sessions, NEW rows, WritesOK(rows),
         NEW log \in Seq(Event), NextItem(s, rows, log),
         NEW c, \/ owner' = owner
                \/ Free(CardLock(c), s) /\ owner' = [owner EXCEPT ![CardLock(c)] = s]
  PROVE  /\ Progress(s, rows, log)
         /\ txn'[s].items = Tail(txn[s].items) /\ txn'[s].tail = txn[s].tail
         /\ txn[s].tail \in Seq(Event)
         /\ \A l \in Locks : owner[l] = s => owner'[l] = s
<1> DEFINE rest == Tail(txn[s].items)
           new == Stamp(events \cup rows.events,
                        log \o IF rest = <<>> THEN txn[s].tail ELSE <<>>) \ events
<1>1. /\ txn' = [txn EXCEPT ![s].items = rest,
                            ![s].phase = IF rest = <<>> THEN "commit" ELSE "items"]
      /\ w' = [w EXCEPT ![s] = [rows EXCEPT !.events = new]]
      /\ UNCHANGED <<tables, outside, callers>>
  BY DEF NextItem
<1>2. TxnOK(txn[s])
  BY DEF TypeOK
<1>3. /\ txn'[s].phase = IF rest = <<>> THEN "commit" ELSE "items"
      /\ txn'[s].items = rest /\ txn'[s].tail = txn[s].tail
      /\ txn'[s].call = txn[s].call /\ txn'[s].card = txn[s].card
      /\ txn'[s].locks = txn[s].locks /\ txn'[s].seen = txn[s].seen
      /\ \A r \in Sessions \ {s} : txn'[r] = txn[r]
      /\ txn[s].tail \in Seq(Event)
  <2> HIDE DEF rest
  <2> QED BY <1>1, <1>2 DEF TypeOK, TxnOK, Txn
<1>4. /\ w'[s].cards = rows.cards /\ w'[s].branches = rows.branches
      /\ w'[s].refs = rows.refs /\ w'[s].links = rows.links
      /\ w'[s].events = new
      /\ \A r \in Sessions \ {s} : w'[r] = w[r]
  <2> HIDE DEF new
  <2> QED BY <1>1 DEF TypeOK, WritesOK
<1>5. new = Stamp(events \cup rows.events,
                  log \o (IF txn'[s].phase = "commit" THEN txn'[s].tail ELSE <<>>)) \ events
  <2>1. (IF rest = <<>> THEN txn[s].tail ELSE <<>>)
           = IF txn'[s].phase = "commit" THEN txn'[s].tail ELSE <<>>
    BY <1>3
  <2> QED BY <2>1
<1>6. /\ \A r \in Sessions \ {s} : \A l \in Locks : owner'[l] = r <=> owner[l] = r
      /\ \A l \in Locks : owner[l] = s => owner'[l] = s
  BY LocksDiffer DEF TypeOK, Free
<1>7. OthersKeep(s)
  BY <1>3, <1>4, <1>6 DEF OthersKeep
<1> HIDE DEF new
<1> QED BY <1>1, <1>3, <1>4, <1>5, <1>6, <1>7 DEF Progress

\* A call begun: it has its locks to take and its items to do.
LEMMA BeginEffect ==
  ASSUME TypeOK, NEW s \in Sessions, Begin(s)
  PROVE  /\ UNCHANGED <<tables, outside, owner, w>>
         /\ OthersKeep(s)
         /\ txn[s] = Idle
         /\ \/ /\ UNCHANGED txn
               /\ \E q \in Calls, c \in Cards \cup {0} :
                     /\ EarlyAnswer(q) # "none"
                     /\ Answered(q, c, EarlyAnswer(q))
            \/ /\ txn'[s].phase = "locking"
               /\ txn'[s].call \in Calls
               /\ txn'[s].locks = LocksOf(txn'[s].call)
               /\ txn'[s].items = ItemsOf(txn'[s].call)
               /\ txn'[s].tail = <<>>
               /\ txn'[s].seen = Seen(txn'[s].call)
               /\ Target(txn'[s].call, txn'[s].card)
               /\ txn'[s].call.card # 0 => Exists(txn'[s].call.card)
               /\ txn'[s].call.cmd \in RelationCommands => Exists(txn'[s].call.other)
               /\ UNCHANGED retried
<1>1. PICK q \in Calls, c \in Cards \cup {0} :
        /\ txn[s] = Idle
        /\ Target(q, c)
        /\ q.card # 0 => Exists(q.card)
        /\ q.cmd \in RelationCommands => Exists(q.other)
        /\ \/ /\ EarlyAnswer(q) # "none"
              /\ Answered(q, c, EarlyAnswer(q))
              /\ UNCHANGED txn
           \/ /\ txn' = [txn EXCEPT ![s] =
                    [phase |-> "locking", call |-> q, card |-> c,
                     locks |-> LocksOf(q), items |-> ItemsOf(q),
                     tail |-> <<>>, seen |-> Seen(q),
                     policy |-> IF q.cmd = "release" THEN policy ELSE "record"]]
              /\ UNCHANGED retried
        /\ UNCHANGED <<tables, outside, owner, w>>
  BY DEF Begin
<1>2. CASE UNCHANGED txn /\ EarlyAnswer(q) # "none" /\ Answered(q, c, EarlyAnswer(q))
  BY <1>1, <1>2 DEF OthersKeep
<1> DEFINE t == [phase |-> "locking", call |-> q, card |-> c,
                 locks |-> LocksOf(q), items |-> ItemsOf(q),
                 tail |-> <<>>, seen |-> Seen(q),
                 policy |-> IF q.cmd = "release" THEN policy ELSE "record"]
<1>3. CASE txn' = [txn EXCEPT ![s] = t] /\ UNCHANGED retried
  <2>1. /\ t.phase = "locking" /\ t.call = q /\ t.card = c
        /\ t.locks = LocksOf(q) /\ t.items = ItemsOf(q)
        /\ t.tail = <<>> /\ t.seen = Seen(q)
    OBVIOUS
  <2> HIDE DEF t
  <2>2. txn'[s] = t /\ \A r \in Sessions \ {s} : txn'[r] = txn[r]
    BY <1>3 DEF TypeOK
  <2>3. OthersKeep(s)
    BY <1>1, <2>2 DEF OthersKeep
  <2> QED BY <1>1, <1>3, <2>1, <2>2, <2>3
<1> QED BY <1>1, <1>2, <1>3

-----------------------------------------------------------------------------
(* The locks of a call are taken in order, and kept. *)

\* A call at rest holds no lock; a call that begun holds the first locks of
\* its list, all of them once it writes; before that, it has written nothing.
LocksTaken(s) ==
    LET t == txn[s]
        L == LocksOf(t.call)
    IN  /\ t.phase = "idle" => t = Idle /\ \A l \in Locks : owner[l] # s
        /\ t.phase # "idle" =>
              \E n \in 0..Len(L) :
                 /\ t.locks = SubSeq(L, n + 1, Len(L))
                 /\ \A i \in 1..n : owner[L[i]] = s
                 /\ n = 0 => \A l \in Locks : owner[l] # s
        /\ t.phase \in {"items", "commit"} => t.locks = <<>>
        /\ t.phase \in {"idle", "locking"} => w[s] = NoWrites

LockInv == \A s \in Sessions : LocksTaken(s)

\* The rest of a list of locks: whether it is empty, and its head.
LEMMA RestOfLocks ==
  ASSUME NEW L \in Seq(Locks), NEW n \in 0..Len(L)
  PROVE  /\ SubSeq(L, n + 1, Len(L)) = <<>> <=> n = Len(L)
         /\ n # Len(L) => /\ Head(SubSeq(L, n + 1, Len(L))) = L[n + 1]
                          /\ Tail(SubSeq(L, n + 1, Len(L))) = SubSeq(L, n + 2, Len(L))
         /\ SubSeq(L, 1, Len(L)) = L
         /\ \A i \in 1..Len(L) : L[i] \in Locks
<1> DEFINE R == SubSeq(L, n + 1, Len(L))
<1>1. /\ R \in Seq(Locks) /\ Len(R) = Len(L) - n
      /\ \A i \in 1..Len(R) : R[i] = L[n + i]
  OBVIOUS
<1>2. R = <<>> <=> n = Len(L)
  <2> HIDE DEF R
  <2> QED BY <1>1
<1>3. ASSUME n # Len(L)
      PROVE  Head(R) = L[n + 1] /\ Tail(R) = SubSeq(L, n + 2, Len(L))
  <2> DEFINE Q == SubSeq(L, n + 2, Len(L))
  <2>1. Q \in Seq(Locks) /\ Len(Q) = Len(L) - n - 1
        /\ \A i \in 1..Len(Q) : Q[i] = L[n + 1 + i]
    BY <1>3
  <2>2. /\ Tail(R) \in Seq(Locks) /\ Len(Tail(R)) = Len(R) - 1
        /\ \A i \in 1..Len(Tail(R)) : Tail(R)[i] = R[i + 1]
        /\ Head(R) = R[1]
    <3> HIDE DEF R
    <3> QED BY <1>1, <1>2, <1>3
  <2> HIDE DEF R, Q
  <2>3. \A i \in 1..Len(Q) : Tail(R)[i] = Q[i]
    BY <1>1, <2>1, <2>2, <1>3
  <2>4. Tail(R) = Q
    <3> DEFINE T == Tail(R)
    <3>1. T \in Seq(Locks) /\ Q \in Seq(Locks) /\ Len(T) = Len(Q) /\ Len(Q) \in Nat
          /\ \A i \in 1..Len(Q) : T[i] = Q[i]
      BY <1>1, <2>1, <2>2, <2>3
    <3> HIDE DEF T
    <3>2. T = Q
      BY <3>1
    <3> QED BY <3>2 DEF T
  <2> QED BY <1>1, <1>3, <2>2, <2>4 DEF Q
<1>4. SubSeq(L, 1, Len(L)) = L /\ \A i \in 1..Len(L) : L[i] \in Locks
  OBVIOUS
<1> QED BY <1>2, <1>3, <1>4

\* The other sessions keep their part of it.
LEMMA OthersLocked ==
  ASSUME NEW s \in Sessions, OthersKeep(s), NEW r \in Sessions \ {s}, LocksTaken(r),
         TypeOK
  PROVE  LocksTaken(r)'
<1>1. txn'[r] = txn[r] /\ w'[r] = w[r] /\ \A l \in Locks : owner'[l] = r <=> owner[l] = r
  BY DEF OthersKeep
<1>2. txn[r].phase # "idle" => LocksOf(txn[r].call) \in Seq(Locks)
  BY LocksOfType DEF TypeOK, TxnOK
<1> DEFINE L == LocksOf(txn[r].call)
<1>3. LocksOf(txn[r].call)' = L
  BY <1>1 DEF LocksOf, FirstLock, RowLocks, TakesLinksLock, Declares
<1>4. ASSUME txn[r].phase # "idle"
      PROVE  \E n \in 0..Len(L) :
                 /\ txn[r].locks = SubSeq(L, n + 1, Len(L))
                 /\ \A i \in 1..n : owner'[L[i]] = r
                 /\ n = 0 => \A l \in Locks : owner'[l] # r
  <2>1. PICK n \in 0..Len(L) :
                 /\ txn[r].locks = SubSeq(L, n + 1, Len(L))
                 /\ \A i \in 1..n : owner[L[i]] = r
                 /\ n = 0 => \A l \in Locks : owner[l] # r
    BY <1>4 DEF LocksTaken
  <2>2. L \in Seq(Locks)
    BY <1>2, <1>4
  <2> HIDE DEF L
  <2>3. \A i \in 1..n : L[i] \in Locks
    BY <2>2
  <2> QED BY <1>1, <2>1, <2>3
<1> HIDE DEF L
<1> QED BY <1>1, <1>3, <1>4 DEF LocksTaken

\* A call at rest.
LEMMA RestLocked ==
  ASSUME NEW s, txn'[s] = Idle, w'[s] = NoWrites, \A l \in Locks : owner'[l] # s
  PROVE  LocksTaken(s)'
BY DEF LocksTaken, Idle

\* A call that writes holds all its locks.
LEMMA AllLocked ==
  ASSUME TypeOK, NEW s \in Sessions, LocksTaken(s), txn[s].phase # "idle",
         txn[s].locks = <<>>
  PROVE  /\ LocksOf(txn[s].call) \in Seq(Locks)
         /\ \A i \in DOMAIN LocksOf(txn[s].call) : owner[LocksOf(txn[s].call)[i]] = s
<1> DEFINE L == LocksOf(txn[s].call)
<1>1. L \in Seq(Locks)
  BY LocksOfType DEF TypeOK, TxnOK
<1>2. PICK n \in 0..Len(L) :
                 /\ txn[s].locks = SubSeq(L, n + 1, Len(L))
                 /\ \A i \in 1..n : owner[L[i]] = s
  BY DEF LocksTaken
<1> HIDE DEF L
<1>3. n = Len(L)
  BY <1>1, <1>2, RestOfLocks
<1>4. \A i \in DOMAIN L : owner[L[i]] = s
  BY <1>1, <1>2, <1>3
<1> QED BY <1>1, <1>4 DEF L

\* A call that writes on keeps them.
LEMMA ProgressLocked ==
  ASSUME TypeOK, NEW s \in Sessions, LocksTaken(s), txn[s].phase # "idle",
         txn[s].locks = <<>>,
         txn'[s].call = txn[s].call, txn'[s].locks = <<>>,
         txn'[s].phase \in {"items", "commit"},
         \A l \in Locks : owner[l] = s => owner'[l] = s
  PROVE  LocksTaken(s)'
<1> DEFINE L == LocksOf(txn[s].call)
<1>2. L \in Seq(Locks) /\ L # <<>> /\ \A i \in DOMAIN L : owner[L[i]] = s
  BY AllLocked, LocksOfType DEF TypeOK, TxnOK
<1>3. LocksOf(txn[s].call)' = L
  BY DEF LocksOf, FirstLock, RowLocks, TakesLinksLock, Declares
<1> HIDE DEF L
<1>4. /\ Len(L) \in 0..Len(L) /\ Len(L) # 0
      /\ SubSeq(L, Len(L) + 1, Len(L)) = <<>>
      /\ \A i \in 1..Len(L) : owner'[L[i]] = s
  BY <1>2, RestOfLocks
<1> QED BY <1>3, <1>4 DEF LocksTaken

\* The commands write only with all their locks in hand.
LEMMA ExecLocked ==
  ASSUME TypeOK, NEW s \in Sessions, LocksTaken(s), Exec(s)
  PROVE  LocksTaken(s)' /\ OthersKeep(s)
<1> DEFINE Wrote == \E rows, log, tail :
                       /\ txn[s].phase = "locking" /\ txn[s].locks = <<>>
                       /\ Write(s, rows, log, tail)
           Ended == \E answer : Finish(s, answer)
<1>1. CASE Wrote
  <2>1. PICK rows, log, tail : /\ txn[s].phase = "locking" /\ txn[s].locks = <<>>
                               /\ Write(s, rows, log, tail)
    BY <1>1
  <2> DEFINE phase == IF txn[s].items = <<>> THEN "commit" ELSE "items"
             new == [rows EXCEPT !.events =
                      Stamp(events, log \o IF txn[s].items = <<>> THEN tail ELSE <<>>) \ events]
  <2>2. /\ txn' = [txn EXCEPT ![s].phase = phase, ![s].tail = tail]
        /\ w' = [w EXCEPT ![s] = new] /\ owner' = owner
    BY <2>1 DEF Write
  <2>3. TxnOK(txn[s]) /\ phase \in {"items", "commit"}
    BY DEF TypeOK
  <2> HIDE DEF phase, new
  <2>4. /\ txn'[s].call = txn[s].call /\ txn'[s].locks = <<>>
        /\ txn'[s].phase \in {"items", "commit"}
    BY <2>1, <2>2, <2>3 DEF TypeOK, TxnOK, Txn
  <2>5. OthersKeep(s)
    BY <2>2 DEF OthersKeep, TypeOK
  <2> QED BY <2>1, <2>2, <2>4, <2>5, ProgressLocked
<1>2. CASE Ended
  BY <1>2, EndEffect, RestLocked DEF Finish
<1> HIDE DEF Wrote, Ended
<1>3. Wrote \/ Ended
  <2>1. CASE ExecCreate(s)
    BY <2>1, Zenon DEF ExecCreate, Ready, Wrote, Ended
  <2>2. CASE ExecEdit(s)
    BY <2>2, Zenon DEF ExecEdit, Ready, Wrote, Ended
  <2>3. CASE ExecMove(s)
    BY <2>3, Zenon DEF ExecMove, Ready, Wrote, Ended
  <2>4. CASE ExecArchive(s)
    BY <2>4, Zenon DEF ExecArchive, Ready, Wrote, Ended
  <2>5. CASE ExecNote(s)
    BY <2>5, Zenon DEF ExecNote, Ready, Wrote, Ended
  <2>6. CASE ExecLand(s)
    BY <2>6, Zenon DEF ExecLand, Ready, Wrote, Ended
  <2>7. CASE ExecAttach(s)
    BY <2>7, Zenon DEF ExecAttach, Ready, Wrote, Ended
  <2>8. CASE ExecDetach(s)
    BY <2>8, Zenon DEF ExecDetach, Ready, Wrote, Ended
  <2>9. CASE ExecLink(s)
    BY <2>9, Zenon DEF ExecLink, Ready, Wrote, Ended
  <2>10. CASE ExecUnlink(s)
    BY <2>10, Zenon DEF ExecUnlink, Ready, Wrote, Ended
  <2>11. CASE ExecRelease(s)
    BY <2>11, Zenon DEF ExecRelease, Ready, Wrote, Ended
  <2> QED BY <2>1, <2>2, <2>3, <2>4, <2>5, <2>6, <2>7, <2>8, <2>9, <2>10, <2>11 DEF Exec
<1> QED BY <1>1, <1>2, <1>3

\* So do the items of a call, which take one row lock more.
LEMMA ItemLocked ==
  ASSUME TypeOK, NEW s \in Sessions, LocksTaken(s), DeclareItem(s) \/ ReleaseItem(s)
  PROVE  LocksTaken(s)' /\ OthersKeep(s)
<1> DEFINE Took == \/ owner' = owner
                   \/ \E c : /\ Free(CardLock(c), s)
                             /\ owner' = [owner EXCEPT ![CardLock(c)] = s]
           Wrote == /\ txn[s].phase = "items" /\ Took
                    /\ \E rows, log : NextItem(s, rows, log)
           Ended == \E answer : Finish(s, answer)
<1>1. CASE Wrote
  <2>1. PICK rows, log : NextItem(s, rows, log)
    BY <1>1
  <2> DEFINE rest == Tail(txn[s].items)
             phase == IF rest = <<>> THEN "commit" ELSE "items"
             new == [rows EXCEPT !.events =
                      Stamp(events \cup @, log \o IF rest = <<>> THEN txn[s].tail ELSE <<>>) \ events]
  <2>2. /\ txn' = [txn EXCEPT ![s].items = rest, ![s].phase = phase]
        /\ w' = [w EXCEPT ![s] = new]
    BY <2>1 DEF NextItem
  <2>3. TxnOK(txn[s]) /\ phase \in {"items", "commit"} /\ txn[s].locks = <<>>
    BY <1>1 DEF TypeOK, LocksTaken
  <2> HIDE DEF phase, new, rest
  <2>4. /\ txn'[s].call = txn[s].call /\ txn'[s].locks = <<>>
        /\ txn'[s].phase \in {"items", "commit"}
    BY <2>2, <2>3 DEF TypeOK, TxnOK, Txn
  <2>5. /\ \A l \in Locks : owner[l] = s => owner'[l] = s
        /\ \A r \in Sessions \ {s} : \A l \in Locks : owner'[l] = r <=> owner[l] = r
    BY <1>1, LocksDiffer DEF TypeOK, Free
  <2>6. OthersKeep(s)
    BY <2>2, <2>5 DEF OthersKeep, TypeOK
  <2> QED BY <1>1, <2>3, <2>4, <2>5, <2>6, ProgressLocked
<1>2. CASE Ended
  BY <1>2, EndEffect, RestLocked DEF Finish
<1> HIDE DEF Wrote, Ended
<1>3. Wrote \/ Ended
  <2>1. CASE DeclareItem(s)
    BY <2>1, Zenon DEF DeclareItem, Wrote, Ended
  <2>2. CASE ReleaseItem(s)
    BY <2>2, Zenon DEF ReleaseItem, Wrote, Ended
  <2> QED BY <2>1, <2>2
<1> QED BY <1>1, <1>2, <1>3

\* A lock taken is the next of the list.
LEMMA TakeLockLocked ==
  ASSUME TypeOK, NEW s \in Sessions, LocksTaken(s), TakeLock(s)
  PROVE  LocksTaken(s)' /\ OthersKeep(s)
<1> DEFINE L == LocksOf(txn[s].call)
<1>1. /\ txn[s].phase = "locking" /\ txn[s].locks # <<>>
      /\ txn'[s] = [txn[s] EXCEPT !.locks = Tail(txn[s].locks)]
      /\ w'[s] = w[s] /\ owner' = [owner EXCEPT ![Head(txn[s].locks)] = s]
      /\ OthersKeep(s)
  BY TakeLockEffect
<1>2. /\ txn'[s].phase = "locking" /\ txn'[s].call = txn[s].call
      /\ txn'[s].locks = Tail(txn[s].locks)
  BY <1>1 DEF TypeOK, TxnOK, Txn
<1>3. L \in Seq(Locks) /\ LocksOf(txn[s].call)' = L
  BY <1>1, <1>2, LocksOfType
     DEF TypeOK, TxnOK, LocksOf, FirstLock, RowLocks, TakesLinksLock, Declares
<1>4. PICK n \in 0..Len(L) :
                 /\ txn[s].locks = SubSeq(L, n + 1, Len(L))
                 /\ \A i \in 1..n : owner[L[i]] = s
  BY <1>1 DEF LocksTaken
<1>5. w'[s] = NoWrites
  BY <1>1 DEF LocksTaken
<1> HIDE DEF L
<1>6. /\ n # Len(L) /\ Head(txn[s].locks) = L[n + 1]
      /\ txn'[s].locks = SubSeq(L, n + 2, Len(L))
      /\ \A i \in 1..Len(L) : L[i] \in Locks
  BY <1>1, <1>2, <1>3, <1>4, RestOfLocks
<1>7. /\ n + 1 \in 0..Len(L) /\ n + 1 # 0
      /\ \A i \in 1..(n + 1) : owner'[L[i]] = s
      /\ txn'[s].locks = SubSeq(L, (n + 1) + 1, Len(L))
  <2>1. Len(L) \in Nat /\ n \in Nat /\ n < Len(L) /\ (n + 1) + 1 = n + 2
    BY <1>3, <1>6
  <2>2. ASSUME NEW i \in 1..(n + 1)
        PROVE  owner'[L[i]] = s
    <3>1. L[i] \in Locks /\ (i \in 1..n \/ i = n + 1)
      BY <1>6, <2>1
    <3>2. owner \in [Locks -> Sessions \cup {None}] /\ owner' = [owner EXCEPT ![L[n + 1]] = s]
      BY <1>1, <1>6 DEF TypeOK
    <3> QED BY <1>4, <3>1, <3>2
  <2>3. txn'[s].locks = SubSeq(L, (n + 1) + 1, Len(L))
    BY <1>6, <2>1
  <2> QED BY <2>1, <2>2, <2>3
<1> QED BY <1>1, <1>2, <1>3, <1>5, <1>7 DEF LocksTaken

\* A call begun has them all to take.
LEMMA BeginLocked ==
  ASSUME TypeOK, NEW s \in Sessions, LocksTaken(s), Begin(s)
  PROVE  LocksTaken(s)' /\ OthersKeep(s)
<1>1. UNCHANGED <<owner, w>> /\ OthersKeep(s) /\ txn[s] = Idle
  BY BeginEffect
<1>2. w[s] = NoWrites /\ \A l \in Locks : owner[l] # s
  BY <1>1 DEF LocksTaken, Idle
<1>3. CASE UNCHANGED txn
  <2>1. LocksOf(txn[s].call)' = LocksOf(txn[s].call)
    BY <1>3 DEF LocksOf, FirstLock, RowLocks, TakesLinksLock, Declares
  <2> QED BY <1>1, <1>3, <2>1 DEF LocksTaken
<1>4. CASE /\ txn'[s].phase = "locking" /\ txn'[s].call \in Calls
           /\ txn'[s].locks = LocksOf(txn'[s].call)
  <2> DEFINE L == LocksOf(txn'[s].call)
  <2>1. LocksOf(txn[s].call)' = L
    BY DEF LocksOf, FirstLock, RowLocks, TakesLinksLock, Declares
  <2>2. L \in Seq(Locks)
    BY <1>4, LocksOfType
  <2> HIDE DEF L
  <2>3. /\ 0 \in 0..Len(L) /\ txn'[s].locks = SubSeq(L, 0 + 1, Len(L))
        /\ \A l \in Locks : owner'[l] # s
    BY <1>1, <1>2, <1>4, <2>2, RestOfLocks DEF L
  <2> QED BY <1>1, <1>2, <1>4, <2>1, <2>3 DEF LocksTaken
<1> QED BY <1>1, <1>3, <1>4, BeginEffect

\* Each step of a session keeps everybody's locks in order.
THEOREM LocksTakenInOrder == Spec => []LockInv
<1>1. Init => LockInv
  <2>1. Init => \A s \in Sessions : /\ txn[s] = Idle /\ w[s] = NoWrites
                                   /\ \A l \in Locks : owner[l] # s
    <3>1. Init => /\ txn = [s \in Sessions |-> Idle] /\ w = [s \in Sessions |-> NoWrites]
                  /\ owner = [l \in Locks |-> None]
      BY DEF Init
    <3> QED BY <3>1, LocksDiffer
  <2>2. ASSUME NEW s \in Sessions, txn[s] = Idle, w[s] = NoWrites,
               \A l \in Locks : owner[l] # s
        PROVE  LocksTaken(s)
    BY <2>2 DEF LocksTaken, Idle
  <2> QED BY <2>1, <2>2 DEF LockInv
<1>2. ASSUME TypeOK, LockInv, [Next]_vars
      PROVE  LockInv'
  <2>1. ASSUME NEW s \in Sessions, LocksTaken(s)', OthersKeep(s)
        PROVE  LockInv'
    BY <1>2, <2>1, OthersLocked DEF LockInv
  <2>2. ASSUME NEW s \in Sessions, \/ Commit(s) \/ UniqueViolation(s) \/ DeadlockAbort(s)
        PROVE  LocksTaken(s)' /\ OthersKeep(s)
    <3>1. PICK answer : End(s, answer)
      BY <2>2 DEF Commit, UniqueViolation, DeadlockAbort, Finish
    <3> QED BY <1>2, <3>1, EndEffect, RestLocked
  <2>3. ASSUME NEW s \in Sessions, Begin(s) \/ Step(s)
        PROVE  LocksTaken(s)' /\ OthersKeep(s)
    <3>1. LocksTaken(s)
      BY <1>2 DEF LockInv
    <3> QED BY <1>2, <2>2, <2>3, <3>1, ExecLocked, ItemLocked, TakeLockLocked, BeginLocked
         DEF Step
  <2>4. CASE UNCHANGED <<owner, txn, w>>
    <3>1. ASSUME NEW s \in Sessions PROVE LocksTaken(s)'
      <4>1. LocksOf(txn[s].call)' = LocksOf(txn[s].call)
        BY <2>4 DEF LocksOf, FirstLock, RowLocks, TakesLinksLock, Declares
      <4> QED BY <1>2, <2>4, <4>1 DEF LockInv, LocksTaken
    <3> QED BY <3>1 DEF LockInv
  <2>5. \/ \E s \in Sessions : Begin(s) \/ Step(s)
        \/ UNCHANGED <<owner, txn, w>>
    BY <1>2 DEF Next, Configure, CloseLoop, Done, vars
  <2> QED BY <2>1, <2>3, <2>4, <2>5
<1> QED BY <1>1, <1>2, TypeCorrect, PTL DEF Spec

\* A session that waits and holds a lock holds the links lock, unless it
\* releases: two of them cannot wait for one another.
THEOREM NoCircleOfCommands == Spec => []RelationCommandsDoNotDeadlock
<1>1. ASSUME TypeOK, LinkInv, LockInv
      PROVE  RelationCommandsDoNotDeadlock
  <2> SUFFICES ASSUME NEW D \in SUBSET Sessions, D # {}, WaitCycle(D),
                      \A s \in D : txn[s].call.cmd # "release"
               PROVE  FALSE
    BY DEF RelationCommandsDoNotDeadlock
  <2>1. ASSUME NEW s \in D, NEW l \in Locks, owner[l] = s
        PROVE  owner[LinksLock] = s
    <3>1. TxnOK(txn[s]) /\ LocksTaken(s) /\ s \in Sessions
      BY <1>1 DEF TypeOK, LockInv
    <3>2. txn[s].phase # "idle"
      BY <2>1, <3>1 DEF LocksTaken
    <3>3. txn[s].call \in Calls
      BY <3>1, <3>2 DEF TxnOK
    <3>4. Wanted(s) # {}
      BY DEF WaitCycle
    <3>5. CASE txn[s].phase = "items"
      <4>1. TakesLinksLock(txn[s].call)
        BY <1>1, <3>5, ItemType DEF TakesLinksLock
      <4> QED BY <1>1, <3>5, <4>1 DEF LinkInv
    <3>6. CASE txn[s].phase = "locking" /\ txn[s].locks # <<>>
      <4> DEFINE L == LocksOf(txn[s].call)
      <4>1. L \in Seq(Locks)
        BY <3>3, LocksOfType
      <4>2. PICK n \in 0..Len(L) :
                 /\ txn[s].locks = SubSeq(L, n + 1, Len(L))
                 /\ \A i \in 1..n : owner[L[i]] = s
                 /\ n = 0 => \A k \in Locks : owner[k] # s
        BY <3>1, <3>2 DEF LocksTaken
      <4>3. n # 0 /\ n # Len(L)
        <5> HIDE DEF L
        <5> QED BY <2>1, <3>6, <4>1, <4>2, RestOfLocks
      <4>5. TakesLinksLock(txn[s].call)
        <5>1. SUFFICES ASSUME ~TakesLinksLock(txn[s].call) PROVE Len(L) = 1
          <6> HIDE DEF L
          <6> QED BY <4>1, <4>2, <4>3
        <5>2. FirstLock(txn[s].call) = <<>> /\ txn[s].call.cmd \notin RelationCommands
          BY <5>1 DEF FirstLock, TakesLinksLock
        <5> QED BY <5>2 DEF LocksOf, RowLocks, RelationCommands
      <4>6. L[1] = LinksLock
        <5>1. Head(L) = LinksLock
          BY <3>3, <4>5, LocksOfType
        <5> HIDE DEF L
        <5> QED BY <4>1, <4>3, <5>1
      <4> HIDE DEF L
      <4> QED BY <4>1, <4>2, <4>3, <4>6
    <3> QED BY <3>4, <3>5, <3>6 DEF Wanted
  <2>2. ASSUME NEW s \in D
        PROVE  \E t \in D \ {s}, l \in Locks : owner[l] = t
    <3>1. PICK l \in Wanted(s) : owner[l] \in D \ {s}
      BY DEF WaitCycle
    <3>2. l \in Locks
      <4>1. TxnOK(txn[s]) /\ s \in Sessions
        BY <1>1 DEF TypeOK
      <4>2. CASE txn[s].phase = "locking" /\ txn[s].locks # <<>>
        BY <3>1, <4>1, <4>2 DEF Wanted, TxnOK, Txn
      <4>3. CASE txn[s].phase = "items"
        <5>1. Head(txn[s].items) \in LinkItem /\ txn[s].call.cmd # "release"
          BY <1>1, <4>1, <4>3, ItemType
        <5>2. l = CardLock(Head(txn[s].items).other)
          BY <3>1, <4>3, <5>1 DEF Wanted
        <5> QED BY <5>1, <5>2 DEF LinkItem, Locks
      <4> QED BY <3>1, <4>2, <4>3 DEF Wanted
    <3> QED BY <3>1, <3>2
  <2>3. PICK s \in D : TRUE
    OBVIOUS
  <2>4. PICK t \in D \ {s}, l \in Locks : owner[l] = t
    BY <2>2
  <2>5. PICK u \in D \ {t}, k \in Locks : owner[k] = u
    BY <2>2, <2>4
  <2> QED BY <2>1, <2>4, <2>5
<1> QED BY <1>1, TypeCorrect, LinksHeldAndSound, LocksTakenInOrder, PTL
=============================================================================
