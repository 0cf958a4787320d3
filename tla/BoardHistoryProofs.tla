-------------------------- MODULE BoardHistoryProofs --------------------------
(***************************************************************************)
(* What a board's stream of events says of its tables, and what the locks  *)
(* leave to the unique indexes, for any number of cards, sessions and      *)
(* calls.                                                                  *)
(*                                                                         *)
(* The argument: what a session has written, and the events it has logged  *)
(* or still will, are about cards it owns.  Nobody else touches the rows   *)
(* or the stream of those, so what each command checked before it wrote    *)
(* still holds when it commits.                                            *)
(*                                                                         *)
(* A relation belongs to two cards at once, so its story is an argument of *)
(* its own: until it commits, a call has told both cards what it wrote of  *)
(* a relation, or neither; and the links lock keeps the others from        *)
(* telling anything of relations meanwhile.                                *)
(*                                                                         *)
(* That a call takes effect as if it ran alone adds the reads to the       *)
(* writes: all that the checks of a call look at belongs to the cards it   *)
(* owns (their rows, branches, attachments, streams and relations), or is  *)
(* kept still by the scope lock (numbers, keys, loops) or by the links     *)
(* lock, so the checks come out the same until it commits.                 *)
(***************************************************************************)
EXTENDS BoardLocksProofs, SequenceTheorems

-----------------------------------------------------------------------------
(* The invariant of a session. *)

\* The calls that open a card.
Creates(q) == q.cmd \in {"create", "promote"}

\* A session may write a card whose row it has locked, and one it opens.
Owns(s, d) ==
    IF Exists(d) THEN owner[CardLock(d)] = s
    ELSE Creates(txn[s].call) /\ txn[s].card = d /\ owner[ScopeLock] = s

\* A session past its plan.
Written(s) == txn[s].phase \in {"items", "commit"}

\* The members of a log.
Entries(A) == {A[i] : i \in DOMAIN A}

\* The events a call will log once its items are done.
Pending(s) == IF txn[s].phase = "items" THEN Entries(txn[s].tail) ELSE {}

\* An event without its number.
Plain(e) == [e EXCEPT !.seq = 0]

\* What a call has told or will tell the streams, and the rows it wrote.
Telling(s) == {Plain(e) : e \in w[s].events \cup Pending(s)}

Wrote(s) == [cards |-> w[s].cards, branches |-> w[s].branches, refs |-> w[s].refs]

\* The cards a call wrote a column of.
Touched(x) == DOMAIN x.cards \cup DOMAIN x.branches \cup DOMAIN x.refs

\* Rows with the same unique columns, and with none in common.
SameIdentity(r, o) == r.number = o.number /\ r.key = o.key /\ r.loop = o.loop

Apart(r, o) == /\ r.number # o.number
               /\ r.key # None => r.key # o.key
               /\ r.loop # None => r.loop # o.loop

\* A row that no unique index of the cards refuses.
RowFits(d, r) ==
    /\ r.number # 0
    /\ Exists(d) => SameIdentity(r, cards[d])
    /\ ~Exists(d) => \A o \in Cards : Apart(r, cards[o])

\* The cards a call names are still there, and the one it opens is not yet.
CallStands(s) ==
    LET t == txn[s]
        q == t.call
    IN  t.phase # "idle" =>
          /\ Creates(q) => /\ t.card \in Cards /\ ~Exists(t.card)
                           /\ \A r \in Sessions \ {s} : txn[r].card # t.card
          /\ ~Creates(q) /\ q.cmd # "release" => t.card = q.card /\ Exists(q.card)
          /\ q.cmd \in RelationCommands => Exists(q.other)
          /\ t.phase = "locking" => t.items = ItemsOf(q)
          /\ q.cmd = "release" => t.tail = <<>>

\* A declared relation told to one of its cards.
LinkNews(e) == e.type = "linked" /\ e.key = None /\ e.cardType = None

\* The numbers given come after all those of the same card, and no event is
\* told twice, but for relations.
Numbered(E) ==
    /\ \A e \in E : /\ e.seq # 0
                    /\ \A f \in events : f.card = e.card => f.seq < e.seq
    /\ \A e, f \in E : e.card = f.card /\ e.seq = f.seq => e = f
    /\ \A e, f \in E : Plain(e) = Plain(f) /\ ~LinkNews(e) => e = f

\* The event still to come is the move of the card, without a number.
SeqsFit(s) ==
    /\ Numbered(w[s].events)
    /\ txn[s].phase = "items" =>
          /\ Len(txn[s].tail) <= 1
          /\ \A e \in Entries(txn[s].tail) :
                /\ e.seq = 0 /\ e.type = "moved"
                /\ \A f \in w[s].events : f.type # "moved"

\* A call owns the cards it writes and tells of, and none is archived, unless
\* it only relates them.
RowsHeld(s, x, E) ==
    /\ \A d \in Touched(x) : d \in Cards /\ Owns(s, d) /\ ~cards[d].archived
    /\ \A d \in DOMAIN x.cards : RowFits(d, x.cards[d])
    /\ \A e \in E :
          /\ Owns(s, e.card)
          /\ e.type \notin {"linked", "unlinked"} => ~cards[e.card].archived
          /\ \A f \in events :
                e.type = "released" /\ f.type = "released" /\ f.card = e.card
                   => f.version # e.version

\* A call that opens a card writes it; a call with a key puts it on one row.
KeysHeld(s, x, E) ==
    LET q == txn[s].call
        c == txn[s].card
    IN  /\ \A e, f \in E : e.key # None /\ f.key # None => e = f
        /\ Creates(q) => c \in DOMAIN x.cards /\ x.cards[c].key = q.key
        /\ ~Creates(q) /\ q.key # None => \E e \in E : e.card = c /\ e.key = q.key

\* The branches of a card with what a call wrote.
BranchesWith(x, d) == IF d \in DOMAIN x.branches THEN x.branches[d] ELSE branches[d]

\* A card that leaves or enters active has its branches or its note.
ActiveHeld(x, E) ==
    \A d \in DOMAIN x.cards :
       LET row == BranchesWith(x, d)
       IN  /\ cards[d].state = "active" /\ x.cards[d].state # "active" =>
                 \/ \A b \in Branches : row[b].state # "open"
                 \/ \E e \in E : e.card = d /\ e.type = "moved" /\ e.note
           /\ cards[d].state # "active" /\ x.cards[d].state = "active" =>
                 \/ \E b \in Branches : row[b].state = "open"
                 \/ \E e \in E : e.card = d /\ (e.note \/ e.type = "landed")

\* The events that tell a state, and those that count a revision.
Moves(e) == e.type \in {"created", "moved"}

\* The state written is the one told, or the one there was.
StateHeld(x, E) ==
    /\ \A e \in E : Moves(e) => /\ e.card \in DOMAIN x.cards
                                /\ e.to = x.cards[e.card].state
    /\ \A d \in DOMAIN x.cards :
          (\A e \in E : e.card = d => ~Moves(e)) =>
             Exists(d) /\ x.cards[d].state = cards[d].state

Changes(e) == e.type = "edited" \/ e.cardType # None

\* The revision written counts the change told, if there is one.
RevisionHeld(x, E) ==
    /\ \A e, f \in E : Changes(e) /\ Changes(f) /\ e.card = f.card => e = f
    /\ \A e \in E : Changes(e) =>
          /\ e.card \in DOMAIN x.cards /\ Exists(e.card)
          /\ x.cards[e.card].revision = cards[e.card].revision + 1
    /\ \A d \in DOMAIN x.cards :
          (\A e \in E : e.card = d => ~Changes(e)) =>
             x.cards[d].revision = IF Exists(d) THEN cards[d].revision ELSE 1

\* The branch an event says there is.
Said(e) ==
    CASE e.type = "attached" -> OpenBranch
      [] e.type = "detached" -> NoBranch
      [] OTHER -> [state |-> "landed", sha |-> e.sha]

\* The branches written are the ones told, or the ones there were.
BranchHeld(x, E) ==
    \A d \in Cards, b \in Branches :
       LET now == BranchesWith(x, d)[b]
       IN  /\ \A e \in E : e.card = d /\ e.ref = b => Said(e) = now
           /\ (\A e \in E : e.card = d => e.ref # b) => now = branches[d][b]

\* A landing on record is told again only after a detach.
LandHeld(E) ==
    /\ \A e, f \in E : e.type = "landed" /\ f.type = "landed" => e = f
    /\ \A f \in E, e \in events :
          /\ e.type = "landed" /\ f.type = "landed"
          /\ e.card = f.card /\ e.ref = f.ref /\ SameSha(e.sha, f.sha)
          => \E g \in events : /\ g.card = e.card /\ g.ref = e.ref
                               /\ g.type = "detached" /\ e.seq < g.seq

\* A release writes only cards it marks, as its observer checked them.
ReleaseHeld(s, x, E) ==
    LET q == txn[s].call
    IN  /\ q.cmd = "release" =>
              /\ DOMAIN x.branches = {} /\ DOMAIN x.refs = {}
              /\ \A e \in E : \E f \in E : /\ f.card = e.card /\ f.type = "released"
                                           /\ f.version = q.version
              /\ \A d \in DOMAIN x.cards : \E f \in E : f.card = d
        /\ \A e \in E : e.type = "released" =>
              /\ q.cmd = "release"
              /\ q.checked => LandingSeq(e.card) = txn[s].seen[e.card]

\* What a session owes for the rows x it wrote and the events E it tells.
WritesHeld(s, x, E) ==
    /\ RowsHeld(s, x, E) /\ KeysHeld(s, x, E) /\ ActiveHeld(x, E)
    /\ StateHeld(x, E) /\ RevisionHeld(x, E) /\ BranchHeld(x, E)
    /\ LandHeld(E) /\ ReleaseHeld(s, x, E)

\* A card opened with relations has one once the call has gone through some.
BirthHeld(s) ==
    LET t == txn[s]
        q == t.call
    IN  Creates(q) =>
           \/ \E e \in Telling(s) : e.card = t.card /\ e.linksNote
           \/ Declares(q) /\ (\/ t.phase = "items" /\ t.items = q.links
                              \/ EverDeclared(Overlay(w[s].links, links), t.card))

\* A session that has written keeps all of it until it commits.
SessionInv(s) ==
    /\ CallStands(s)
    /\ SeqsFit(s)
    /\ Written(s) => /\ \E x, E : x = Wrote(s) /\ E = Telling(s) /\ WritesHeld(s, x, E)
                     /\ BirthHeld(s)

-----------------------------------------------------------------------------
(* The invariant of the board. *)

\* No two cards share a number, a key or a loop.
RowsApart ==
    \A c, d \in Cards :
       /\ Exists(c) /\ c # d => Apart(cards[c], cards[d])
       /\ ~Exists(c) => cards[c] = NoCard

\* The streams tell only of cards that exist.
EventsOnCards == \A e \in events : Exists(e.card)

\* A stream gives a number once.
SeqsApart == \A e, f \in events : e.card = f.card /\ e.seq = f.seq => e = f

\* An open branch carries no landing.
OpenRows ==
    \A c \in Cards, b \in Branches :
       branches[c][b].state = "open" => branches[c][b] = OpenBranch

\* The tables and streams agree, and so does what each session is to add.
BoardInv ==
    /\ RowsApart /\ EventsOnCards /\ SeqsApart /\ OpenRows
    /\ CardFollowsHistory /\ LandingRecordedOnce /\ KeyAppliedOnce
    /\ \A s \in Sessions : SessionInv(s)

-----------------------------------------------------------------------------
(* Events and logs. *)

\* An event keeps its columns when it is given or loses its number.
LEMMA PlainColumns ==
  ASSUME NEW e \in Event
  PROVE  /\ Plain(e) \in Event /\ Plain(e).seq = 0
         /\ Plain(e).card = e.card /\ Plain(e).type = e.type /\ Plain(e).key = e.key
         /\ Plain(e).to = e.to /\ Plain(e).cardType = e.cardType
         /\ Plain(e).ref = e.ref /\ Plain(e).sha = e.sha /\ Plain(e).note = e.note
         /\ Plain(e).linksNote = e.linksNote /\ Plain(e).version = e.version
         /\ e.seq = 0 => Plain(e) = e
         /\ \A n \in Nat : Plain([e EXCEPT !.seq = n]) = Plain(e)
  BY DEF Plain, Event

\* So the predicates on events do not look at the number.
LEMMA PlainKinds ==
  ASSUME NEW e \in Event
  PROVE  /\ Moves(Plain(e)) <=> Moves(e)
         /\ Changes(Plain(e)) <=> Changes(e)
         /\ LinkNews(Plain(e)) <=> LinkNews(e)
         /\ Said(Plain(e)) = Said(e)
<1>1. /\ Plain(e).type = e.type /\ Plain(e).cardType = e.cardType
      /\ Plain(e).key = e.key /\ Plain(e).sha = e.sha
  BY PlainColumns
<1> QED BY <1>1 DEF Moves, Changes, LinkNews, Said

\* The entries of a log put together.
LEMMA EntriesOf ==
  ASSUME NEW S, NEW A \in Seq(S), NEW B \in Seq(S)
  PROVE  /\ Entries(A \o B) = Entries(A) \cup Entries(B)
         /\ Entries(<<>>) = {}
         /\ \A a : Entries(<<a>>) = {a}
         /\ A \o <<>> = A
         /\ Entries(A) \subseteq S
<1>1. Entries(A \o B) = Entries(A) \cup Entries(B)
  <2>1. ASSUME NEW i \in DOMAIN (A \o B)
        PROVE  (A \o B)[i] \in Entries(A) \cup Entries(B)
    <3>1. CASE i \in DOMAIN A
      BY <3>1 DEF Entries
    <3>2. CASE i \notin DOMAIN A
      <4>1. i - Len(A) \in DOMAIN B /\ (A \o B)[i] = B[i - Len(A)]
        BY <3>2
      <4> QED BY <4>1 DEF Entries
    <3> QED BY <3>1, <3>2
  <2>2. ASSUME NEW i \in DOMAIN A
        PROVE  A[i] \in Entries(A \o B)
    <3>1. i \in DOMAIN (A \o B) /\ (A \o B)[i] = A[i]
      OBVIOUS
    <3> QED BY <3>1 DEF Entries
  <2>3. ASSUME NEW i \in DOMAIN B
        PROVE  B[i] \in Entries(A \o B)
    <3>1. Len(A) + i \in DOMAIN (A \o B) /\ (A \o B)[Len(A) + i] = B[i]
      OBVIOUS
    <3> QED BY <3>1 DEF Entries
  <2> QED BY <2>1, <2>2, <2>3 DEF Entries
<1>2. Entries(<<>>) = {} /\ \A a : Entries(<<a>>) = {a}
  BY DEF Entries
<1>3. A \o <<>> = A /\ Entries(A) \subseteq S
  BY DEF Entries
<1> QED BY <1>1, <1>2, <1>3

\* A log with no number yet and no event twice, but for relations.
Fresh(A) ==
    /\ \A i \in DOMAIN A : A[i].seq = 0
    /\ \A i, j \in DOMAIN A : A[i] = A[j] /\ ~LinkNews(A[i]) => i = j

\* Two such logs with no event in common make one.
LEMMA FreshTogether ==
  ASSUME NEW S, NEW A \in Seq(S), NEW B \in Seq(S), Fresh(A), Fresh(B),
         \A e \in Entries(A), f \in Entries(B) : e # f
  PROVE  Fresh(A \o B)
<1> DEFINE C == A \o B
<1>1. ASSUME NEW i \in DOMAIN C
      PROVE  /\ i \in DOMAIN A => C[i] = A[i] /\ C[i] \in Entries(A)
             /\ i \notin DOMAIN A => /\ i - Len(A) \in DOMAIN B /\ C[i] = B[i - Len(A)]
                                     /\ C[i] \in Entries(B)
  BY DEF Entries
<1>2. DOMAIN C \subseteq Nat /\ Len(A) \in Nat
  OBVIOUS
<1> HIDE DEF C
<1>3. ASSUME NEW i \in DOMAIN C, NEW j \in DOMAIN C, C[i] = C[j], ~LinkNews(C[i])
      PROVE  i = j
  <2>1. CASE i \in DOMAIN A
    BY <1>1, <1>3, <2>1 DEF Fresh
  <2>2. CASE i \notin DOMAIN A
    <3>1. j \notin DOMAIN A
      BY <1>1, <1>3, <2>2
    <3>2. i - Len(A) = j - Len(A)
      BY <1>1, <1>3, <2>2, <3>1 DEF Fresh
    <3> QED BY <1>2, <3>2
  <2> QED BY <2>1, <2>2
<1>4. \A i \in DOMAIN C : C[i].seq = 0
  BY <1>1 DEF Fresh
<1>5. Fresh(C)
  BY <1>3, <1>4 DEF Fresh
<1> QED BY <1>5 DEF C

\* Stamping a log keeps the numbers of a call in order, and adds what the log
\* tells.
LEMMA StampedLog ==
  ASSUME TypeOK, NEW R \in SUBSET Event, IsFiniteSet(R), Numbered(R),
         NEW L \in Seq(Event), Fresh(L),
         \A e \in Entries(L), f \in R : e = Plain(f) => LinkNews(e)
  PROVE  /\ Numbered(Stamp(events \cup R, L) \ events)
         /\ {Plain(e) : e \in Stamp(events \cup R, L) \ events}
               = {Plain(e) : e \in R} \cup Entries(L)
         /\ Stamp(events \cup R, L) \ events \in SUBSET Event
<1> DEFINE E == events \cup R
           st(i) == Stamped(E, L, i)
           N == Stamp(E, L) \ events
<1>1. E \in SUBSET Event /\ IsFiniteSet(E) /\ events \in SUBSET Event
  BY FS_Union DEF TypeOK, TablesOK
<1>2. ASSUME NEW i \in DOMAIN L
      PROVE  /\ st(i) \in Event /\ L[i] \in Event /\ L[i] \in Entries(L)
             /\ Plain(st(i)) = L[i]
             /\ st(i).card = L[i].card /\ st(i).seq # 0
             /\ LinkNews(st(i)) <=> LinkNews(L[i])
             /\ \A f \in E : f.card = L[i].card => f.seq < st(i).seq
             /\ \A j \in DOMAIN L : j < i /\ L[j].card = L[i].card => st(j).seq < st(i).seq
  <2>1. L[i] \in Event /\ L[i] \in Entries(L) /\ L[i].seq = 0
    BY DEF Fresh, Entries
  <2>2. /\ st(i) \in Event
        /\ \E n \in Nat : st(i) = [L[i] EXCEPT !.seq = n]
        /\ st(i).seq # 0
        /\ \A f \in E : f.card = L[i].card => f.seq < st(i).seq
        /\ \A j \in DOMAIN L : j < i /\ L[j].card = L[i].card => st(j).seq < st(i).seq
    <3> HIDE DEF E
    <3> QED BY <1>1, StampedRow
  <2> HIDE DEF st
  <2>3. Plain(st(i)) = L[i]
    <3>1. PICK n \in Nat : st(i) = [L[i] EXCEPT !.seq = n]
      BY <2>2
    <3>2. Plain([L[i] EXCEPT !.seq = n]) = Plain(L[i]) /\ Plain(L[i]) = L[i]
      BY <2>1, PlainColumns
    <3> QED BY <3>1, <3>2
  <2>4. st(i).card = L[i].card /\ (LinkNews(st(i)) <=> LinkNews(L[i]))
    BY <2>2, <2>3, PlainColumns, PlainKinds
  <2> QED BY <2>1, <2>2, <2>3, <2>4
<1>3. N = R \cup {st(i) : i \in DOMAIN L}
  <2>1. N = (E \cup {st(i) : i \in DOMAIN L}) \ events
    BY StampAdds
  <2>2. ASSUME NEW e \in R PROVE e \notin events
    <3>1. e.seq \in Nat /\ e \in Event
      BY DEF Event
    <3>2. e \in events => e.seq < e.seq
      BY DEF Numbered
    <3> QED BY <3>1, <3>2
  <2>3. ASSUME NEW i \in DOMAIN L PROVE st(i) \notin events
    <3>1. st(i).seq \in Nat
      BY <1>2 DEF Event
    <3>2. st(i) \in events => st(i).seq < st(i).seq
      BY <1>2
    <3> QED BY <3>1, <3>2
  <2> HIDE DEF st
  <2> QED BY <2>1, <2>2, <2>3
<1> HIDE DEF st
<1>4. ASSUME NEW e \in N PROVE e \in R \/ \E i \in DOMAIN L : e = st(i)
  BY <1>3
<1>5. N \in SUBSET Event
  BY <1>2, <1>3
<1>6. {Plain(e) : e \in N} = {Plain(e) : e \in R} \cup Entries(L)
  <2>1. \A i \in DOMAIN L : st(i) \in N
    BY <1>3
  <2>2. R \subseteq N
    BY <1>3
  <2> HIDE DEF N
  <2> QED BY <1>2, <1>4, <2>1, <2>2 DEF Entries
<1>7. ASSUME NEW e \in N
      PROVE  e.seq # 0 /\ \A f \in events : f.card = e.card => f.seq < e.seq
  <2>1. CASE e \in R
    BY <2>1 DEF Numbered
  <2>2. CASE \E i \in DOMAIN L : e = st(i)
    BY <1>2, <2>2
  <2> QED BY <1>4, <2>1, <2>2
<1>8. ASSUME NEW e \in R, NEW i \in DOMAIN L, e.card = st(i).card
      PROVE  e.seq < st(i).seq
  BY <1>2, <1>8
<1>9. ASSUME NEW i \in DOMAIN L, NEW j \in DOMAIN L,
             st(i).card = st(j).card, st(i).seq = st(j).seq
      PROVE  i = j
  <2>1. i \in Nat /\ j \in Nat /\ st(i).seq \in Nat /\ st(j).seq \in Nat
    BY <1>2 DEF Event
  <2> QED BY <1>2, <1>9, <2>1
<1>10. ASSUME NEW e \in N, NEW f \in N, e.card = f.card, e.seq = f.seq
       PROVE  e = f
  <2>1. e.seq \in Nat /\ f.seq \in Nat
    BY <1>5 DEF Event
  <2> HIDE DEF N
  <2> QED BY <1>4, <1>8, <1>9, <1>10, <2>1 DEF Numbered
<1>11. ASSUME NEW e \in N, NEW f \in N, Plain(e) = Plain(f), ~LinkNews(e)
       PROVE  e = f
  <2>1. ~LinkNews(f) /\ e \in Event /\ f \in Event
    BY <1>5, <1>11, PlainKinds
  <2>2. ASSUME NEW i \in DOMAIN L, NEW j \in DOMAIN L, e = st(i), f = st(j)
        PROVE  e = f
    BY <1>2, <1>11, <2>2 DEF Fresh
  <2>3. ASSUME NEW g \in R, NEW i \in DOMAIN L, Plain(g) = Plain(st(i))
        PROVE  LinkNews(st(i))
    BY <1>2, <2>3
  <2> HIDE DEF N
  <2> QED BY <1>4, <1>11, <2>1, <2>2, <2>3 DEF Numbered
<1>12. Numbered(N)
  BY <1>7, <1>10, <1>11 DEF Numbered
<1> QED BY <1>5, <1>6, <1>12

\* A call that writes on has told what it had and the log, and will tell the
\* tail.
LEMMA ProgressTells ==
  ASSUME TypeOK, NEW s \in Sessions, NEW rows, WritesOK(rows), NEW log \in Seq(Event),
         NEW tail \in Seq(Event), txn'[s].tail = tail, Progress(s, rows, log),
         Numbered(rows.events), Fresh(log),
         \A e \in Entries(log), f \in rows.events : e = Plain(f) => LinkNews(e),
         Len(tail) <= 1,
         \A e \in Entries(tail) :
            /\ e.seq = 0 /\ e.type = "moved"
            /\ \A f \in Entries(log) \cup rows.events : f.type # "moved"
  PROVE  /\ Telling(s)' = {Plain(e) : e \in rows.events} \cup Entries(log) \cup Entries(tail)
         /\ SeqsFit(s)'
<1> DEFINE done == txn'[s].phase = "commit"
           L == log \o (IF done THEN tail ELSE <<>>)
           R == rows.events
           N == Stamp(events \cup R, L) \ events
<1>1. /\ w'[s].events = N /\ events' = events
      /\ txn'[s].phase = IF txn'[s].items = <<>> THEN "commit" ELSE "items"
  BY DEF Progress, tables
<1>2. R \in SUBSET Event /\ IsFiniteSet(R) /\ Numbered(R)
  BY DEF WritesOK
<1>3. \A e \in Entries(tail) : e \in Event /\ ~LinkNews(e) /\ Plain(e) = e
  <2>1. Entries(tail) \subseteq Event
    BY EntriesOf
  <2> QED BY <2>1, PlainColumns DEF LinkNews
<1>4. Fresh(tail)
  BY DEF Fresh, Entries
<1>5. \A f \in R : Plain(f).type = f.type
  BY <1>2, PlainColumns
<1>6. /\ L \in Seq(Event) /\ Fresh(L)
      /\ Entries(L) = Entries(log) \cup IF done THEN Entries(tail) ELSE {}
      /\ \A e \in Entries(L), f \in R : e = Plain(f) => LinkNews(e)
  <2>1. CASE done
    <3>1. L = log \o tail
      BY <2>1
    <3> HIDE DEF L
    <3>2. L \in Seq(Event) /\ Entries(L) = Entries(log) \cup Entries(tail)
      BY <3>1, EntriesOf
    <3>3. Fresh(L)
      BY <3>1, <1>4, FreshTogether
    <3> QED BY <1>5, <2>1, <3>2, <3>3
  <2>2. CASE ~done
    <3>1. L = log
      BY <2>2, EntriesOf
    <3> HIDE DEF L
    <3> QED BY <2>2, <3>1
  <2> QED BY <2>1, <2>2
<1> HIDE DEF L
<1>7. Numbered(N) /\ N \in SUBSET Event
      /\ {Plain(e) : e \in N} = {Plain(e) : e \in R} \cup Entries(L)
  BY <1>2, <1>6, StampedLog
<1> HIDE DEF N, R
<1>8. Telling(s)' = {Plain(e) : e \in N} \cup IF done THEN {} ELSE Entries(tail)
  <2>1. Pending(s)' = IF done THEN {} ELSE Entries(tail)
    BY <1>1 DEF Pending, Entries
  <2>2. Telling(s)' = {Plain(e) : e \in N \cup Pending(s)'}
    BY <1>1 DEF Telling, Plain
  <2> QED BY <1>3, <2>1, <2>2
<1>9. Telling(s)' = {Plain(e) : e \in R} \cup Entries(log) \cup Entries(tail)
  BY <1>6, <1>7, <1>8
<1>10. Numbered(w[s].events)'
  BY <1>1, <1>7 DEF Numbered, LinkNews, Plain
<1>11. ASSUME ~done, NEW e \in Entries(tail), NEW f \in N
       PROVE  f.type # "moved"
  <2>1. Plain(f) \in {Plain(g) : g \in R} \cup Entries(log)
    BY <1>6, <1>7, <1>11
  <2>2. Plain(f).type = f.type
    BY <1>7, PlainColumns
  <2> QED BY <1>5, <2>1, <2>2 DEF R
<1>12. SeqsFit(s)'
  BY <1>1, <1>3, <1>10, <1>11 DEF SeqsFit, Entries
<1> QED BY <1>9, <1>12 DEF R

-----------------------------------------------------------------------------
(* What a session has written stands while the others work. *)

\* A step leaves alone the cards r owns and their streams, and their locks; no
\* card changes its number or its keys, and none is opened while r may open
\* one.
Leaves(r) ==
    /\ \A d \in Cards : Owns(r, d) =>
          /\ cards'[d] = cards[d] /\ branches'[d] = branches[d]
          /\ \A e \in events \cup events' : e.card = d => (e \in events' <=> e \in events)
    /\ \A d \in Cards : Exists(d) => SameIdentity(cards'[d], cards[d])
    /\ owner[ScopeLock] = r => \A d \in Cards : SameIdentity(cards'[d], cards[d])
    /\ \A l \in Locks : owner[l] = r => owner'[l] = r

SameCall(r) ==
    /\ txn'[r].call = txn[r].call /\ txn'[r].card = txn[r].card
    /\ txn'[r].seen = txn[r].seen

\* r still owns its cards.
LEMMA OwnsOn ==
  ASSUME NEW r \in Sessions, Leaves(r), SameCall(r), NEW d \in Cards, Owns(r, d)
  PROVE  /\ Owns(r, d)' /\ cards'[d] = cards[d] /\ branches'[d] = branches[d]
         /\ Exists(d)' <=> Exists(d)
         /\ \A e \in events \cup events' : e.card = d => (e \in events' <=> e \in events)
<1>1. /\ cards'[d] = cards[d] /\ branches'[d] = branches[d]
      /\ \A e \in events \cup events' : e.card = d => (e \in events' <=> e \in events)
  BY DEF Leaves
<1>2. Exists(d)' <=> Exists(d)
  BY <1>1 DEF Exists
<1>3. CardLock(d) \in Locks /\ ScopeLock \in Locks
  BY DEF Locks
<1>4. Owns(r, d)'
  BY <1>2, <1>3 DEF Owns, Leaves, SameCall, Creates, CardLock, ScopeLock
<1> QED BY <1>1, <1>2, <1>4

\* The landings of a card whose stream does not change.
LEMMA SameLandings ==
  ASSUME NEW d, \A e \in events \cup events' : e.card = d => (e \in events' <=> e \in events)
  PROVE  LandingSeq(d)' = LandingSeq(d)
<1>1. {f \in events' : f.card = d /\ f.type = "landed"}
         = {f \in events : f.card = d /\ f.type = "landed"}
  OBVIOUS
<1> QED BY <1>1 DEF LandingSeq

\* The rows and events of a call stand.
LEMMA WritesKept ==
  ASSUME NEW r \in Sessions, Leaves(r), SameCall(r),
         NEW x, NEW E \in SUBSET Event, WritesHeld(r, x, E)
  PROVE  WritesHeld(r, x, E)'
<1>1. ASSUME NEW d \in Touched(x)
      PROVE  d \in Cards /\ Owns(r, d) /\ ~cards[d].archived
  BY DEF WritesHeld, RowsHeld
<1>2. ASSUME NEW e \in E
      PROVE  e.card \in Cards /\ Owns(r, e.card)
  BY DEF WritesHeld, RowsHeld, Event
<1>3. \A d \in DOMAIN x.cards : d \in Touched(x)
  BY DEF Touched
<1>4. RowsHeld(r, x, E)'
  <2>1. ASSUME NEW d \in Touched(x)
        PROVE  d \in Cards /\ Owns(r, d)' /\ ~cards'[d].archived
    BY <1>1, OwnsOn
  <2>2. ASSUME NEW d \in DOMAIN x.cards
        PROVE  RowFits(d, x.cards[d])'
    <3>1. d \in Cards /\ Owns(r, d) /\ RowFits(d, x.cards[d])
      BY <1>1, <1>3 DEF WritesHeld, RowsHeld
    <3>2. cards'[d] = cards[d] /\ (Exists(d)' <=> Exists(d))
      BY <3>1, OwnsOn
    <3>3. ~Exists(d) => \A o \in Cards : SameIdentity(cards'[o], cards[o])
      BY <3>1 DEF Owns, Leaves
    <3> QED BY <3>1, <3>2, <3>3 DEF RowFits, SameIdentity, Apart
  <2>3. ASSUME NEW e \in E
        PROVE  /\ Owns(r, e.card)'
               /\ e.type \notin {"linked", "unlinked"} => ~cards'[e.card].archived
               /\ \A f \in events' :
                    e.type = "released" /\ f.type = "released" /\ f.card = e.card
                       => f.version # e.version
    <3>1. /\ Owns(r, e.card)' /\ cards'[e.card] = cards[e.card]
          /\ \A f \in events \cup events' : f.card = e.card => (f \in events' <=> f \in events)
      BY <1>2, OwnsOn
    <3>2. /\ e.type \notin {"linked", "unlinked"} => ~cards[e.card].archived
          /\ \A f \in events :
               e.type = "released" /\ f.type = "released" /\ f.card = e.card
                  => f.version # e.version
      BY DEF WritesHeld, RowsHeld
    <3> QED BY <3>1, <3>2
  <2> QED BY <2>1, <2>2, <2>3 DEF RowsHeld, Touched
<1>5. KeysHeld(r, x, E)'
  BY DEF WritesHeld, KeysHeld, SameCall, Creates
<1>6. \A d \in Cards : BranchesWith(x, d)' =
         IF d \in DOMAIN x.branches THEN x.branches[d] ELSE branches'[d]
  BY DEF BranchesWith
<1>7. \A d \in Cards : Owns(r, d) => /\ BranchesWith(x, d)' = BranchesWith(x, d)
                                     /\ branches'[d] = branches[d]
                                     /\ cards'[d] = cards[d] /\ (Exists(d)' <=> Exists(d))
  BY <1>6, OwnsOn DEF BranchesWith
<1>8. \A d \in DOMAIN x.cards : d \in Cards /\ Owns(r, d)
  BY <1>1, <1>3
<1>9. ActiveHeld(x, E)'
  BY <1>7, <1>8 DEF WritesHeld, ActiveHeld
<1>10. StateHeld(x, E)'
  BY <1>7, <1>8 DEF WritesHeld, StateHeld, Moves
<1>11. RevisionHeld(x, E)'
  BY <1>2, <1>7, <1>8 DEF WritesHeld, RevisionHeld, Changes
<1>12. BranchHeld(x, E)'
  <2>1. ASSUME NEW d \in Cards, NEW b \in Branches
        PROVE  /\ \A e \in E : e.card = d /\ e.ref = b => Said(e) = BranchesWith(x, d)'[b]
               /\ (\A e \in E : e.card = d => e.ref # b) =>
                     BranchesWith(x, d)'[b] = branches'[d][b]
    <3>1. /\ \A e \in E : e.card = d /\ e.ref = b => Said(e) = BranchesWith(x, d)[b]
          /\ (\A e \in E : e.card = d => e.ref # b) =>
                BranchesWith(x, d)[b] = branches[d][b]
      BY DEF WritesHeld, BranchHeld
    <3>2. CASE Owns(r, d)
      BY <1>7, <3>1, <3>2
    <3>3. CASE ~Owns(r, d)
      <4>1. d \notin DOMAIN x.branches
        BY <1>1, <3>3 DEF Touched
      <4> QED BY <1>2, <1>6, <3>3, <4>1
    <3> QED BY <3>2, <3>3
  <2> QED BY <2>1 DEF BranchHeld, Said, OpenBranch, NoBranch
<1>13. LandHeld(E)'
  <2>1. ASSUME NEW f \in E, NEW e \in events', e.type = "landed", f.type = "landed",
               e.card = f.card, e.ref = f.ref, SameSha(e.sha, f.sha)
        PROVE  \E g \in events' : /\ g.card = e.card /\ g.ref = e.ref
                                  /\ g.type = "detached" /\ e.seq < g.seq
    <3>1. \A g \in events \cup events' : g.card = f.card => (g \in events' <=> g \in events)
      BY <1>2, OwnsOn
    <3>2. PICK g \in events : /\ g.card = e.card /\ g.ref = e.ref
                              /\ g.type = "detached" /\ e.seq < g.seq
      BY <2>1, <3>1 DEF WritesHeld, LandHeld
    <3> QED BY <2>1, <3>1, <3>2
  <2>2. \A e, f \in E : e.type = "landed" /\ f.type = "landed" => e = f
    BY DEF WritesHeld, LandHeld
  <2> QED BY <2>1, <2>2 DEF LandHeld
<1>14. ReleaseHeld(r, x, E)'
  <2>1. ASSUME NEW e \in E PROVE LandingSeq(e.card)' = LandingSeq(e.card)
    <3>1. \A f \in events \cup events' : f.card = e.card => (f \in events' <=> f \in events)
      BY <1>2, OwnsOn
    <3> HIDE DEF LandingSeq
    <3> QED BY <3>1, SameLandings
  <2>2. ReleaseHeld(r, x, E)
    BY DEF WritesHeld
  <2> QED BY <2>1, <2>2 DEF ReleaseHeld, SameCall
<1> QED BY <1>4, <1>5, <1>9, <1>10, <1>11, <1>12, <1>13, <1>14 DEF WritesHeld

\* What a call tells is events.
LEMMA TellingType ==
  ASSUME TypeOK, NEW s \in Sessions
  PROVE  /\ Telling(s) \in SUBSET Event
         /\ \A e \in w[s].events : Plain(e) \in Telling(s) /\ e \in Event
         /\ txn[s].phase = "commit" => Telling(s) = {Plain(e) : e \in w[s].events}
<1>1. w[s].events \in SUBSET Event /\ txn[s].tail \in Seq(Event)
  BY DEF TypeOK, WritesOK, TxnOK, Txn
<1>2. Pending(s) \in SUBSET Event
  BY <1>1, EntriesOf DEF Pending
<1>3. \A e \in Event : Plain(e) \in Event
  BY PlainColumns
<1> QED BY <1>1, <1>2, <1>3 DEF Telling, Pending

\* A session that did not step keeps its part of the invariant.
LEMMA OthersStand ==
  ASSUME TypeOK, LinkInv, LockInv, NEW r \in Sessions, SessionInv(r),
         txn'[r] = txn[r], w'[r] = w[r], Leaves(r), CallStands(r)',
         owner[LinksLock] = r => UNCHANGED links
  PROVE  SessionInv(r)'
<1>1. SameCall(r) /\ Telling(r)' = Telling(r) /\ Wrote(r)' = Wrote(r)
      /\ (Written(r)' <=> Written(r))
  BY DEF SameCall, Telling, Pending, Plain, Entries, Wrote, Written
<1>2. Telling(r) \in SUBSET Event
      /\ \A e \in w[r].events : Plain(e) \in Telling(r) /\ e \in Event
  BY TellingType
<1>3. ASSUME Written(r), NEW e \in w[r].events
      PROVE  Owns(r, e.card) /\ e.card \in Cards
  <2>1. PICK x, E : E = Telling(r) /\ WritesHeld(r, x, E)
    BY <1>3 DEF SessionInv
  <2>2. Plain(e) \in E /\ Plain(e).card = e.card
    BY <1>2, <2>1, PlainColumns
  <2> QED BY <1>2, <2>1, <2>2 DEF WritesHeld, RowsHeld, Event
<1>4. ~Written(r) => w[r].events = {}
  <2>1. LocksTaken(r) /\ txn[r].phase \in {"idle", "locking", "items", "commit"}
    BY DEF LockInv, TypeOK, TxnOK, Txn
  <2> QED BY <2>1 DEF LocksTaken, Written, NoWrites
<1>5. Numbered(w[r].events)'
  <2>1. ASSUME NEW e \in w[r].events, NEW f \in events', f.card = e.card
        PROVE  f.seq < e.seq
    <3>1. Owns(r, e.card) /\ e.card \in Cards
      BY <1>3, <1>4
    <3>2. f \in events
      BY <1>1, <2>1, <3>1, OwnsOn
    <3> QED BY <2>1, <3>2 DEF SessionInv, SeqsFit, Numbered
  <2>2. Numbered(w[r].events)
    BY DEF SessionInv, SeqsFit
  <2> QED BY <2>1, <2>2 DEF Numbered, LinkNews, Plain
<1>6. SeqsFit(r)'
  BY <1>5 DEF SessionInv, SeqsFit, Entries
<1>7. ASSUME Written(r)
      PROVE  \E x, E : x = Wrote(r)' /\ E = Telling(r)' /\ WritesHeld(r, x, E)'
  <2>1. PICK x, E : x = Wrote(r) /\ E = Telling(r) /\ WritesHeld(r, x, E)
    BY <1>7 DEF SessionInv
  <2>2. WritesHeld(r, x, E)'
    BY <1>1, <1>2, <2>1, WritesKept
  <2> QED BY <1>1, <2>1, <2>2
<1>8. ASSUME Written(r)
      PROVE  BirthHeld(r)'
  <2>1. BirthHeld(r)
    BY <1>8 DEF SessionInv
  <2>2. Declares(txn[r].call) => links' = links
    <3>1. Declares(txn[r].call) => owner[LinksLock] = r
      BY <1>8 DEF LinkInv, TakesLinksLock, Written
    <3> QED BY <3>1
  <2> QED BY <1>1, <2>1, <2>2 DEF BirthHeld, Creates, Declares, EverDeclared, Overlay
<1> QED BY <1>1, <1>6, <1>7, <1>8 DEF SessionInv

-----------------------------------------------------------------------------
(* The writes of a command. *)

\* What a command is about to write and log keeps the invariant of its call.
Planned(s, rows, log, tail) ==
    /\ WritesOK(rows) /\ rows.events = {}
    /\ log \in Seq(Event) /\ tail \in Seq(Event)
    /\ Fresh(log)
    /\ Len(tail) <= 1
    /\ \A e \in Entries(tail) : /\ e.seq = 0 /\ e.type = "moved"
                                /\ \A f \in Entries(log) : f.type # "moved"
    /\ txn[s].call.cmd = "release" => tail = <<>>
    /\ txn[s].call.cmd \notin RelationCommands =>
          /\ rows.links = NoRows
          /\ \A e \in Entries(log) \cup Entries(tail) : e.other = None
    /\ \E x, E : /\ x = [cards |-> rows.cards, branches |-> rows.branches,
                         refs |-> rows.refs]
                 /\ E = Entries(log) \cup Entries(tail)
                 /\ WritesHeld(s, x, E)
    /\ Creates(txn[s].call) =>
          \/ Declares(txn[s].call)
          \/ \E e \in Entries(log) : e.card = txn[s].card /\ e.linksNote

\* The call goes on with what it is about.
LEMMA ProgressCall ==
  ASSUME TypeOK, NEW s \in Sessions, CallStands(s), txn[s].phase # "idle",
         NEW rows, NEW log, Progress(s, rows, log),
         txn[s].call.cmd = "release" => txn'[s].tail = <<>>
  PROVE  CallStands(s)' /\ Written(s)' /\ SameCall(s)
<1>1. /\ txn'[s].call = txn[s].call /\ txn'[s].card = txn[s].card
      /\ txn'[s].seen = txn[s].seen
      /\ txn'[s].phase \in {"items", "commit"} /\ cards' = cards
      /\ \A r \in Sessions \ {s} : txn'[r] = txn[r]
  BY DEF Progress, tables, OthersKeep
<1>2. CallStands(s)'
  BY <1>1 DEF CallStands, Creates, Exists
<1> QED BY <1>1, <1>2 DEF Written, SameCall

\* A call that writes as planned keeps its part of the invariant.
LEMMA PlannedStands ==
  ASSUME TypeOK, NEW s \in Sessions, SessionInv(s), txn[s].phase = "locking",
         NEW rows, NEW log, NEW tail, Planned(s, rows, log, tail),
         Write(s, rows, log, tail)
  PROVE  SessionInv(s)' /\ Progress(s, rows, log)
<1>1. /\ WritesOK(rows) /\ rows.events = {} /\ log \in Seq(Event) /\ tail \in Seq(Event)
      /\ Fresh(log) /\ Len(tail) <= 1
      /\ \A e \in Entries(tail) : /\ e.seq = 0 /\ e.type = "moved"
                                  /\ \A f \in Entries(log) : f.type # "moved"
      /\ txn[s].call.cmd = "release" => tail = <<>>
  BY DEF Planned
<1>2. /\ Progress(s, rows, log) /\ txn'[s].tail = tail
      /\ txn'[s].items = txn[s].items /\ UNCHANGED owner
  BY <1>1, WriteEffect
<1>3. CallStands(s)' /\ Written(s)' /\ SameCall(s)
  BY <1>1, <1>2, ProgressCall DEF SessionInv
<1>4. /\ Telling(s)' = {Plain(e) : e \in rows.events} \cup Entries(log) \cup Entries(tail)
      /\ SeqsFit(s)'
  <2>1. Numbered(rows.events)
    BY <1>1 DEF Numbered
  <2>2. \A e \in Entries(log), f \in rows.events : e = Plain(f) => LinkNews(e)
    BY <1>1
  <2>3. \A e \in Entries(tail) :
           /\ e.seq = 0 /\ e.type = "moved"
           /\ \A f \in Entries(log) \cup rows.events : f.type # "moved"
    <3> HIDE DEF Entries
    <3> QED BY <1>1
  <2>4. log \in Seq(Event) /\ tail \in Seq(Event) /\ Fresh(log) /\ Len(tail) <= 1
        /\ WritesOK(rows) /\ Progress(s, rows, log) /\ txn'[s].tail = tail
    BY <1>1, <1>2
  <2> QED BY <2>1, <2>2, <2>3, <2>4, ProgressTells
<1>5. PICK x, E : /\ x = [cards |-> rows.cards, branches |-> rows.branches,
                         refs |-> rows.refs]
                  /\ E = Entries(log) \cup Entries(tail)
                  /\ WritesHeld(s, x, E)
  BY DEF Planned
<1>6. E = Telling(s)' /\ x = Wrote(s)'
  BY <1>1, <1>2, <1>4, <1>5 DEF Progress, Wrote
<1>7. Leaves(s)
  BY <1>2 DEF Progress, tables, Leaves, Exists, SameIdentity
<1>8. WritesHeld(s, x, E)'
  <2>1. E \in SUBSET Event
    BY <1>1, <1>5, EntriesOf
  <2> QED BY <1>3, <1>5, <1>7, <2>1, WritesKept
<1>9. BirthHeld(s)'
  <2>1. ASSUME Creates(txn[s].call), ~Declares(txn[s].call)
        PROVE  \E e \in Telling(s)' : e.card = txn[s].card /\ e.linksNote
    BY <1>1, <1>4, <2>1 DEF Planned
  <2>2. ASSUME Creates(txn[s].call), Declares(txn[s].call)
        PROVE  txn'[s].phase = "items" /\ txn'[s].items = txn[s].call.links
    <3>1. txn'[s].items = ItemsOf(txn[s].call) /\ txn[s].call.links # <<>>
      BY <1>2, <2>2 DEF SessionInv, CallStands, Declares
    <3> QED BY <1>2, <2>2, <3>1 DEF Progress, ItemsOf
  <2> QED BY <1>3, <2>1, <2>2 DEF BirthHeld, SameCall, Creates, Declares
<1> QED BY <1>2, <1>3, <1>4, <1>6, <1>8, <1>9 DEF SessionInv

\* A command that writes owns the cards it is about.
LEMMA OwnsCall ==
  ASSUME TypeOK, LockInv, NEW s \in Sessions, CallStands(s),
         txn[s].phase # "idle", txn[s].locks = <<>>, txn[s].call.cmd # "release"
  PROVE  /\ txn[s].call \in Calls
         /\ txn[s].card \in Cards /\ Owns(s, txn[s].card)
         /\ Creates(txn[s].call) => ~Exists(txn[s].card) /\ owner[ScopeLock] = s
         /\ ~Creates(txn[s].call) => Exists(txn[s].card) /\ txn[s].card = txn[s].call.card
         /\ txn[s].call.cmd \in RelationCommands =>
               /\ txn[s].call.other \in Cards /\ Owns(s, txn[s].call.other)
               /\ txn[s].call.other # txn[s].card
<1> DEFINE q == txn[s].call
           L == LocksOf(q)
<1>1. /\ q \in Calls /\ txn[s].card \in Cards /\ LocksTaken(s)
  BY CallKinds DEF TypeOK, TxnOK, LockInv
<1>2. L \in Seq(Locks) /\ \A i \in DOMAIN L : owner[L[i]] = s
  BY <1>1, AllLocked
<1>3. \A l \in Entries(L) : owner[l] = s
  BY <1>2 DEF Entries
<1>4. /\ Creates(q) => ~Exists(txn[s].card)
      /\ ~Creates(q) => Exists(txn[s].card) /\ txn[s].card = q.card
      /\ q.cmd \in RelationCommands => Exists(q.other)
  BY DEF CallStands
<1> DEFINE last == IF Creates(q) THEN <<ScopeLock>> ELSE RowLocks(q)
<1>5. L = FirstLock(q) \o last
  BY DEF LocksOf, Creates
<1>6. FirstLock(q) \in Seq(Locks)
  BY DEF FirstLock, Locks
<1>7. q.cmd \in RelationCommands => /\ q.card \in Cards /\ q.other \in Cards
                                    /\ q.card # q.other
  BY <1>1, CallKinds DEF LinkCalls
<1>8. q.card \in Cards \/ Creates(q)
  BY <1>1, CallKinds DEF Creates
<1>9. last \in Seq(Locks)
  <2>1. ScopeLock \in Locks /\ \A d \in Cards : CardLock(d) \in Locks
    BY DEF Locks
  <2>2. \A a, b \in Cards : Lesser(a, b) \in Cards /\ Greater(a, b) \in Cards
    BY DEF Lesser, Greater
  <2>3. q.cmd = "attach_card" => q.cmd \in RelationCommands
    BY DEF RelationCommands
  <2> QED BY <1>7, <1>8, <2>1, <2>2, <2>3 DEF RowLocks
<1>10. Entries(last) \subseteq Entries(L)
  <2> HIDE DEF last, L
  <2> QED BY <1>5, <1>6, <1>9, EntriesOf
<1>11. CASE Creates(q)
  <2>1. last = <<ScopeLock>> /\ q.cmd \notin RelationCommands
    BY <1>11 DEF Creates, RelationCommands
  <2>2. ScopeLock \in Entries(last)
    BY <2>1 DEF Entries
  <2> QED BY <1>1, <1>3, <1>4, <1>10, <1>11, <2>1, <2>2 DEF Owns
<1>12. CASE ~Creates(q) /\ q.cmd \notin RelationCommands
  <2>1. last = <<CardLock(q.card)>>
    BY <1>12 DEF RowLocks, RelationCommands
  <2>2. CardLock(q.card) \in Entries(last)
    BY <2>1 DEF Entries
  <2> QED BY <1>1, <1>3, <1>4, <1>10, <1>12, <2>2 DEF Owns
<1>13. CASE q.cmd \in RelationCommands
  <2>1. q.card \in Nat /\ q.other \in Nat
    BY <1>7, <1>13, CardsAssumption
  <2>2. last = <<CardLock(q.card), CardLock(q.other)>> \/ last = <<CardLock(q.other), CardLock(q.card)>>
    BY <1>13, <2>1 DEF RowLocks, Lesser, Greater, Creates, RelationCommands
  <2>3. CardLock(q.card) \in Entries(last) /\ CardLock(q.other) \in Entries(last)
    <3>1. \A a, b : a \in Entries(<<a, b>>) /\ b \in Entries(<<a, b>>)
      BY DEF Entries
    <3> HIDE DEF last
    <3> QED BY <2>2, <3>1
  <2>4. ~Creates(q)
    BY <1>13 DEF Creates, RelationCommands
  <2> QED BY <1>1, <1>3, <1>4, <1>7, <1>10, <2>3, <2>4 DEF Owns
<1> QED BY <1>11, <1>12, <1>13

\* The rows of a command that writes no card but its own, one column at least
\* of which may stay as it was.
Columns(s, x, written, row, brow) ==
    LET c == txn[s].card
    IN  /\ WritesOK(x) /\ x.events = {} /\ x.links = NoRows
        /\ DOMAIN x.cards = (IF written THEN {c} ELSE {})
        /\ written => x.cards[c] = row
        /\ ~written => row = cards[c]
        /\ DOMAIN x.branches \subseteq {c}
        /\ brow = (IF c \in DOMAIN x.branches THEN x.branches[c] ELSE branches[c])
        /\ DOMAIN x.refs \subseteq {c}

\* What it tells fits the row and the branches it leaves.
OneCard(s, written, row, brow, E) ==
    LET q == txn[s].call
        c == txn[s].card
        r == cards[c]
    IN  /\ SameIdentity(row, r)
        /\ \A e \in E : e.card = c /\ e.type # "released" /\ e.other = None
        /\ \A e, f \in E : e.key # None /\ f.key # None => e = f
        /\ q.key # None => \E e \in E : e.key = q.key
        /\ r.state = "active" /\ row.state # "active" =>
              \/ \A b \in Branches : brow[b].state # "open"
              \/ \E e \in E : e.type = "moved" /\ e.note
        /\ r.state # "active" /\ row.state = "active" =>
              \/ \E b \in Branches : brow[b].state = "open"
              \/ \E e \in E : e.note \/ e.type = "landed"
        /\ \A e \in E : Moves(e) => written /\ e.to = row.state
        /\ row.state # r.state => \E e \in E : Moves(e)
        /\ \A e, f \in E : Changes(e) /\ Changes(f) => e = f
        /\ \A e \in E : Changes(e) => written /\ row.revision = r.revision + 1
        /\ row.revision # r.revision => \E e \in E : Changes(e)
        /\ \A e \in E, b \in Branches : e.ref = b => Said(e) = brow[b]
        /\ \A b \in Branches : brow[b] # branches[c][b] => \E e \in E : e.ref = b
        /\ LandHeld(E)

\* The card is there, owned and not archived.
MayWrite(s) ==
    LET c == txn[s].card
    IN  /\ c \in Cards /\ Owns(s, c) /\ Exists(c) /\ ~cards[c].archived
        /\ ~Creates(txn[s].call) /\ txn[s].call.cmd # "release"

\* A command that writes one card it owns, as Columns and OneCard say, holds
\* what its session owes.
LEMMA OneCardHeld ==
  ASSUME NEW s \in Sessions, MayWrite(s),
         NEW rows, NEW E, NEW written \in BOOLEAN, NEW row, NEW brow,
         Columns(s, rows, written, row, brow), OneCard(s, written, row, brow, E),
         NEW x, x = [cards |-> rows.cards, branches |-> rows.branches, refs |-> rows.refs]
  PROVE  WritesHeld(s, x, E)
<1> DEFINE q == txn[s].call
           c == txn[s].card
           r == cards[c]
<1>1. /\ \A d \in DOMAIN x.cards : d = c /\ x.cards[d] = row
      /\ written => c \in DOMAIN x.cards
      /\ \A d \in Touched(x) : d = c
      /\ c \notin DOMAIN x.cards => row = r
  BY DEF Columns, Touched
<1>2. /\ BranchesWith(x, c) = brow
      /\ \A d : d # c => BranchesWith(x, d) = branches[d]
  BY DEF Columns, BranchesWith
<1>3. \A e \in E : e.card = c /\ e.type # "released"
  BY DEF OneCard
<1>4. RowsHeld(s, x, E)
  BY <1>1, <1>3 DEF RowsHeld, RowFits, OneCard, SameIdentity, Exists, MayWrite
<1>5. KeysHeld(s, x, E)
  BY <1>3 DEF KeysHeld, OneCard, MayWrite
<1>6. ActiveHeld(x, E)
  BY <1>1, <1>2, <1>3 DEF ActiveHeld, OneCard
<1>7. StateHeld(x, E)
  BY <1>1, <1>3 DEF StateHeld, OneCard, MayWrite
<1>8. RevisionHeld(x, E)
  BY <1>1, <1>3 DEF RevisionHeld, OneCard, MayWrite
<1>9. BranchHeld(x, E)
  BY <1>2, <1>3 DEF BranchHeld, OneCard
<1>10. LandHeld(E) /\ ReleaseHeld(s, x, E)
  BY <1>3 DEF ReleaseHeld, OneCard, MayWrite
<1> QED BY <1>4, <1>5, <1>6, <1>7, <1>8, <1>9, <1>10 DEF WritesHeld

\* No rows, and one row.
LEMMA OneRow ==
  /\ \A S, V : Rows(NoRows, S, V)
  /\ DOMAIN NoRows = {}
  /\ \A c, v, S, V : c \in S /\ v \in V => Rows([d \in {c} |-> v], S, V)
  /\ \A c, v : DOMAIN [d \in {c} |-> v] = {c} /\ [d \in {c} |-> v][c] = v
BY DEF Rows, NoRows

\* The rows commands write.
LEMMA ColumnsOf ==
  ASSUME NEW s \in Sessions, txn[s].card \in Cards, NEW row \in CardRow,
         NEW brow \in [Branches -> BranchRow], NEW rrow \in SUBSET Refs
  PROVE  LET C == [d \in {txn[s].card} |-> row]
             B == [d \in {txn[s].card} |-> brow]
             R == [d \in {txn[s].card} |-> rrow]
             r == cards[txn[s].card]
             br == branches[txn[s].card]
         IN  /\ Columns(s, NoWrites, FALSE, r, br)
             /\ Columns(s, [NoWrites EXCEPT !.cards = C], TRUE, row, br)
             /\ Columns(s, [NoWrites EXCEPT !.branches = B], FALSE, r, brow)
             /\ Columns(s, [NoWrites EXCEPT !.refs = R], FALSE, r, br)
             /\ Columns(s, [NoWrites EXCEPT !.cards = C, !.branches = B], TRUE, row, brow)
             /\ Columns(s, [NoWrites EXCEPT !.cards = C, !.branches = NoRows],
                        TRUE, row, br)
<1> DEFINE c == txn[s].card
           C == [d \in {c} |-> row]
           B == [d \in {c} |-> brow]
           R == [d \in {c} |-> rrow]
<1>1. /\ Rows(C, Cards, CardRow) /\ Rows(B, Cards, [Branches -> BranchRow])
      /\ Rows(R, Cards, SUBSET Refs) /\ Rows(NoRows, Cards, [Branches -> BranchRow])
      /\ DOMAIN C = {c} /\ DOMAIN B = {c} /\ DOMAIN R = {c} /\ DOMAIN NoRows = {}
      /\ C[c] = row /\ B[c] = brow
  BY OneRow
<1> HIDE DEF C, B, R
<1>2. WritesOK(NoWrites)
  BY AtRest
<1>3. /\ WritesOK([NoWrites EXCEPT !.cards = C])
      /\ WritesOK([NoWrites EXCEPT !.branches = B])
      /\ WritesOK([NoWrites EXCEPT !.refs = R])
  BY <1>1, <1>2, WrittenRows
<1>4. /\ WritesOK([[NoWrites EXCEPT !.cards = C] EXCEPT !.branches = B])
      /\ WritesOK([[NoWrites EXCEPT !.cards = C] EXCEPT !.branches = NoRows])
  BY <1>1, <1>3, WrittenRows
<1>5. \A X : [NoWrites EXCEPT !.cards = C, !.branches = X]
               = [[NoWrites EXCEPT !.cards = C] EXCEPT !.branches = X]
  BY DEF NoWrites
<1>6. Columns(s, NoWrites, FALSE, cards[c], branches[c])
  BY <1>1, <1>2 DEF Columns, NoWrites
<1>7. Columns(s, [NoWrites EXCEPT !.cards = C], TRUE, row, branches[c])
  BY <1>1, <1>3 DEF Columns, NoWrites
<1>8. Columns(s, [NoWrites EXCEPT !.branches = B], FALSE, cards[c], brow)
  BY <1>1, <1>3 DEF Columns, NoWrites
<1>9. Columns(s, [NoWrites EXCEPT !.refs = R], FALSE, cards[c], branches[c])
  BY <1>1, <1>3 DEF Columns, NoWrites
<1>10. Columns(s, [NoWrites EXCEPT !.cards = C, !.branches = B], TRUE, row, brow)
  BY <1>1, <1>4, <1>5 DEF Columns, NoWrites
<1>11. Columns(s, [NoWrites EXCEPT !.cards = C, !.branches = NoRows], TRUE, row, branches[c])
  BY <1>1, <1>4, <1>5 DEF Columns, NoWrites
<1> QED BY <1>6, <1>7, <1>8, <1>9, <1>10, <1>11 DEF C, B, R

\* A step of a command: it answers and leaves, or it writes what it planned.
PlannedStep(s) ==
    \/ \E answer \in Answers \ {"ok"} : Finish(s, answer)
    \/ \E rows, log, tail : Planned(s, rows, log, tail) /\ Write(s, rows, log, tail)

\* A command about a card that is not archived may write it.
LEMMA CardReady ==
  ASSUME TypeOK, LockInv, NEW s \in Sessions, SessionInv(s), NEW cmds, Ready(s, cmds),
         ~cards[txn[s].card].archived, cmds \cap {"create", "promote", "release"} = {}
  PROVE  /\ MayWrite(s) /\ TablesOK /\ txn[s].card \in Cards
         /\ cards[txn[s].card] \in CardRow
         /\ branches[txn[s].card] \in [Branches -> BranchRow]
         /\ refs[txn[s].card] \in SUBSET Refs
<1>1. /\ txn[s].phase # "idle" /\ txn[s].locks = <<>> /\ CallStands(s)
      /\ txn[s].call.cmd \in cmds
  BY DEF Ready, SessionInv
<1>2. ~Creates(txn[s].call) /\ txn[s].call.cmd # "release"
  BY <1>1 DEF Creates
<1>3. /\ txn[s].card \in Cards /\ Owns(s, txn[s].card) /\ Exists(txn[s].card)
  BY <1>1, <1>2, OwnsCall
<1>4. TablesOK
  BY DEF TypeOK
<1> QED BY <1>2, <1>3, <1>4 DEF MayWrite, TablesOK

\* One event.
LEMMA OneEvent ==
  ASSUME NEW e \in Event, e.seq = 0
  PROVE  /\ <<e>> \in Seq(Event) /\ <<>> \in Seq(Event) /\ Fresh(<<e>>) /\ Fresh(<<>>)
         /\ Entries(<<e>>) = {e} /\ Entries(<<>>) = {}
         /\ Len(<<>>) <= 1 /\ Len(<<e>>) <= 1
BY DEF Fresh, Entries

\* A command about its own card alone is as planned.
LEMMA PlanOneCard ==
  ASSUME NEW s \in Sessions, MayWrite(s), NEW rows, NEW log \in Seq(Event),
         NEW tail \in Seq(Event), Fresh(log), Len(tail) <= 1,
         \A e \in Entries(tail) : /\ e.seq = 0 /\ e.type = "moved"
                                  /\ \A f \in Entries(log) : f.type # "moved",
         NEW E, E = Entries(log) \cup Entries(tail),
         NEW written \in BOOLEAN, NEW row, NEW brow,
         Columns(s, rows, written, row, brow), OneCard(s, written, row, brow, E)
  PROVE  Planned(s, rows, log, tail)
<1> DEFINE x == [cards |-> rows.cards, branches |-> rows.branches, refs |-> rows.refs]
<1>1. WritesHeld(s, x, E)
  BY OneCardHeld
<1>2. ~Creates(txn[s].call) /\ txn[s].call.cmd # "release"
  BY DEF MayWrite
<1>3. WritesOK(rows) /\ rows.events = {} /\ rows.links = NoRows
  BY DEF Columns
<1>4. \A e \in E : e.other = None
  BY DEF OneCard
<1> QED BY <1>1, <1>2, <1>3, <1>4 DEF Planned

\* So is one that tells one event.
LEMMA PlanOneEvent ==
  ASSUME NEW s \in Sessions, MayWrite(s), NEW rows, NEW e \in Event, e.seq = 0,
         NEW written \in BOOLEAN, NEW row, NEW brow,
         Columns(s, rows, written, row, brow), OneCard(s, written, row, brow, {e})
  PROVE  Planned(s, rows, <<e>>, <<>>)
<1> DEFINE E == {e}
<1>1. E = Entries(<<e>>) \cup Entries(<<>>)
  BY OneEvent
<1> HIDE DEF E
<1> QED BY <1>1, OneEvent, PlanOneCard DEF E

\* The commands that carry no key.
LEMMA KeylessCalls ==
  ASSUME NEW q \in Calls,
         q.cmd \in {"archive", "edit", "unlink", "detach_card", "detach_branch",
                    "detach_ref", "release"}
  PROVE  q.key = None
BY DEF Calls, CreateCalls, MoveCalls, LandCalls, EditCalls, ArchiveCalls, NoteCalls,
       AttachCalls, LinkCalls, ReleaseCalls

\* What the changes of a card leave.
LEMMA RowArchived ==
  ASSUME NEW r \in CardRow
  PROVE  LET x == [r EXCEPT !.archived = TRUE]
         IN  /\ SameIdentity(x, r) /\ x.state = r.state /\ x.revision = r.revision
             /\ x \in CardRow
BY DEF CardRow, SameIdentity

\* A card moved.
LEMMA RowMoved ==
  ASSUME NEW r \in CardRow, NEW state \in CardStates
  PROVE  LET x == [r EXCEPT !.state = state]
         IN  /\ SameIdentity(x, r) /\ x.state = state /\ x.revision = r.revision
             /\ x.archived = r.archived /\ x \in CardRow
BY DEF CardRow, SameIdentity

\* A card moved, with a type.
LEMMA RowTyped ==
  ASSUME NEW r \in CardRow, NEW state \in CardStates,
         NEW type \in CardTypes \cup {None}, NEW revision \in Nat
  PROVE  LET x == [r EXCEPT !.state = state, !.type = type, !.revision = revision]
         IN  /\ SameIdentity(x, r) /\ x.state = state /\ x.revision = revision
             /\ x \in CardRow
BY DEF CardRow, SameIdentity

\* A card edited.
LEMMA RowEdited ==
  ASSUME NEW r \in CardRow, NEW content \in Contents \cup {None},
         NEW type \in CardTypes \cup {None}, NEW revision \in Nat
  PROVE  LET x == [r EXCEPT !.content = content, !.type = type, !.revision = revision]
         IN  /\ SameIdentity(x, r) /\ x.state = r.state /\ x.revision = revision
             /\ x \in CardRow
BY DEF CardRow, SameIdentity

\* archive.
LEMMA ArchivePlanned ==
  ASSUME TypeOK, LockInv, NEW s \in Sessions, SessionInv(s), ExecArchive(s)
  PROVE  PlannedStep(s)
<1> DEFINE c == txn[s].card
           row == [cards[c] EXCEPT !.archived = TRUE]
           e == Ev(c, "archived")
           rows == [NoWrites EXCEPT !.cards = [d \in {c} |-> row]]
<1>1. CASE Finish(s, "refused")
  BY <1>1 DEF PlannedStep, Answers
<1>2. CASE ~cards[c].archived /\ Write(s, rows, <<e>>, <<>>)
  <2>1. txn[s].call.key = None /\ Ready(s, {"archive"})
    BY ReadyType, KeylessCalls DEF ExecArchive
  <2>2. MayWrite(s) /\ c \in Cards /\ cards[c] \in CardRow
        /\ branches[c] \in [Branches -> BranchRow]
    BY <1>2, <2>1, CardReady
  <2>3. e \in Event /\ e.seq = 0 /\ e.card = c /\ e.type = "archived" /\ e.key = None
        /\ e.ref = None /\ e.cardType = None /\ e.other = None
    BY <2>2, EvType DEF Ev, EventTypes
  <2>4. /\ SameIdentity(row, cards[c]) /\ row.state = cards[c].state
        /\ row.revision = cards[c].revision /\ row \in CardRow
    <3> DEFINE r == cards[c]
    <3>1. r \in CardRow
      BY <2>2
    <3> HIDE DEF r
    <3>2. /\ SameIdentity([r EXCEPT !.archived = TRUE], r)
          /\ [r EXCEPT !.archived = TRUE].state = r.state
          /\ [r EXCEPT !.archived = TRUE].revision = r.revision
          /\ [r EXCEPT !.archived = TRUE] \in CardRow
      BY <3>1, RowArchived
    <3> QED BY <3>2 DEF r
  <2> HIDE DEF row, e
  <2>5. Columns(s, rows, TRUE, row, branches[c])
    BY <2>2, <2>4, ColumnsOf
  <2>6. OneCard(s, TRUE, row, branches[c], {e})
    BY <2>1, <2>3, <2>4, BoardAssumption DEF OneCard, Moves, Changes, LandHeld
  <2> HIDE DEF rows
  <2> QED BY <1>2, <2>2, <2>3, <2>5, <2>6, PlanOneEvent DEF PlannedStep
<1> QED BY <1>1, <1>2 DEF ExecArchive

\* edit.
LEMMA EditPlanned ==
  ASSUME TypeOK, LockInv, NEW s \in Sessions, SessionInv(s), ExecEdit(s)
  PROVE  PlannedStep(s)
<1> DEFINE q == txn[s].call
           c == txn[s].card
           r == cards[c]
           content == IF q.content = None THEN r.content ELSE q.content
           type == IF q.type = None THEN r.type ELSE q.type
           row == [r EXCEPT !.content = content, !.type = type,
                            !.revision = r.revision + 1]
           cardType == IF type = r.type THEN None ELSE type
           e == [Ev(c, "edited") EXCEPT !.cardType = cardType]
           rows == [NoWrites EXCEPT !.cards = [d \in {c} |-> row]]
<1>1. CASE \E answer \in {"refused", "unchanged"} : Finish(s, answer)
  BY <1>1 DEF PlannedStep, Answers
<1>2. CASE ~r.archived /\ Write(s, rows, <<e>>, <<>>)
  <2>1. /\ Ready(s, {"edit"}) /\ q \in Calls /\ q.cmd = "edit" /\ q.key = None
        /\ q.type \in CardTypes \cup {None} /\ q.content \in Contents \cup {None}
    BY ReadyType, KeylessCalls, Arguments DEF ExecEdit
  <2>2. MayWrite(s) /\ c \in Cards /\ r \in CardRow /\ branches[c] \in [Branches -> BranchRow]
    BY <1>2, <2>1, CardReady
  <2>3. /\ content \in Contents \cup {None} /\ type \in CardTypes \cup {None}
        /\ r.revision + 1 \in Nat /\ r.revision \in Nat /\ cardType \in CardTypes \cup {None}
    BY <2>1, <2>2 DEF CardRow
  <2> HIDE DEF content, type
  <2>4. /\ SameIdentity(row, r) /\ row.state = r.state
        /\ row.revision = r.revision + 1 /\ row \in CardRow
    <3> DEFINE revision == r.revision + 1
    <3>1. revision \in Nat
      BY <2>3
    <3> HIDE DEF r, revision
    <3>2. LET x == [r EXCEPT !.content = content, !.type = type, !.revision = revision]
          IN  /\ SameIdentity(x, r) /\ x.state = r.state /\ x.revision = revision
              /\ x \in CardRow
      BY <2>2, <2>3, <3>1, RowEdited
    <3> QED BY <3>2 DEF revision
  <2> HIDE DEF cardType
  <2>5. /\ e \in Event /\ e.seq = 0 /\ e.card = c /\ e.type = "edited" /\ e.key = None
        /\ e.ref = None /\ e.other = None
    <3>1. Ev(c, "edited") \in Event
      BY <2>2, EvType DEF EventTypes
    <3>2. e \in Event
      BY <2>3, <3>1, EventColumn
    <3> QED BY <3>2 DEF Ev
  <2> HIDE DEF row, e
  <2>6. Columns(s, rows, TRUE, row, branches[c])
    BY <2>2, <2>4, ColumnsOf
  <2>7. OneCard(s, TRUE, row, branches[c], {e})
    BY <2>1, <2>4, <2>5, BoardAssumption DEF OneCard, Moves, Changes, LandHeld
  <2> HIDE DEF rows
  <2> QED BY <1>2, <2>2, <2>5, <2>6, <2>7, PlanOneEvent DEF PlannedStep
<1> QED BY <1>1, <1>2, Zenon
       DEF ExecEdit, EditRefused, EditedRow, EditedContent, EditedType

\* note.
LEMMA NotePlanned ==
  ASSUME TypeOK, LockInv, NEW s \in Sessions, SessionInv(s), ExecNote(s)
  PROVE  PlannedStep(s)
<1> DEFINE q == txn[s].call
           c == txn[s].card
           e == [Ev(c, "noted") EXCEPT !.key = q.key]
<1>1. CASE Finish(s, "refused")
  BY <1>1 DEF PlannedStep, Answers
<1>2. CASE ~cards[c].archived /\ Write(s, NoWrites, <<e>>, <<>>)
  <2>1. Ready(s, {"note"}) /\ q.key \in Keys \cup {None}
    BY ReadyType, CallKinds DEF ExecNote
  <2>2. MayWrite(s) /\ c \in Cards /\ cards[c] \in CardRow
        /\ branches[c] \in [Branches -> BranchRow]
    BY <1>2, <2>1, CardReady
  <2>3. /\ e \in Event /\ e.seq = 0 /\ e.card = c /\ e.type = "noted" /\ e.key = q.key
        /\ e.ref = None /\ e.cardType = None /\ e.other = None
    <3>1. Ev(c, "noted") \in Event
      BY <2>2, EvType DEF EventTypes
    <3>2. e \in Event
      BY <2>1, <3>1, EventColumn
    <3> QED BY <3>2 DEF Ev
  <2> HIDE DEF e
  <2>4. Columns(s, NoWrites, FALSE, cards[c], branches[c])
    BY <2>2, ColumnsOf
  <2>5. OneCard(s, FALSE, cards[c], branches[c], {e})
    BY <2>3, BoardAssumption DEF OneCard, Moves, Changes, LandHeld, SameIdentity
  <2> QED BY <1>2, <2>2, <2>3, <2>4, <2>5, PlanOneEvent DEF PlannedStep
<1> QED BY <1>1, <1>2 DEF ExecNote

\* attach and detach of branches and other references.
LEMMA AttachPlanned ==
  ASSUME TypeOK, LockInv, NEW s \in Sessions, SessionInv(s), ExecAttach(s)
  PROVE  PlannedStep(s)
<1> DEFINE q == txn[s].call
           c == txn[s].card
           brow == [branches[c] EXCEPT ![q.target] = OpenBranch]
           B == [d \in {c} |-> brow]
           rrow == refs[c] \cup {q.target}
           R == [d \in {c} |-> rrow]
           e == [Ev(c, "attached") EXCEPT !.ref = q.target, !.key = q.key]
           ofB == [NoWrites EXCEPT !.branches = B]
           ofR == [NoWrites EXCEPT !.refs = R]
<1>1. CASE \E answer \in {"refused", "unchanged"} : Finish(s, answer)
  BY <1>1 DEF PlannedStep, Answers
<1>2. CASE /\ ~cards[c].archived
           /\ Write(s, IF q.cmd = "attach_branch"
                       THEN [NoWrites EXCEPT !.branches = BranchOpened(c, q.target)]
                       ELSE ofR, <<e>>, <<>>)
  <2>1. /\ Ready(s, {"attach_branch", "attach_ref"}) /\ q \in Calls
        /\ q.cmd \in {"attach_branch", "attach_ref"}
        /\ q.key \in Keys \cup {None} /\ q.target \in Branches \cup Refs
    BY ReadyType, CallKinds, Arguments DEF ExecAttach
  <2>2. /\ q.cmd = "attach_branch" => q.target \in Branches /\ q.target # None
        /\ q.cmd = "attach_ref" => q.target \in Refs /\ q.target \notin Branches
    BY <2>1, Arguments, BoardAssumption
  <2>3. /\ MayWrite(s) /\ c \in Cards /\ cards[c] \in CardRow
        /\ branches[c] \in [Branches -> BranchRow] /\ refs[c] \in SUBSET Refs
    BY <1>2, <2>1, CardReady
  <2>4. /\ e \in Event /\ e.seq = 0 /\ e.card = c /\ e.type = "attached" /\ e.key = q.key
        /\ e.ref = q.target /\ e.cardType = None /\ e.other = None
    <3>1. Ev(c, "attached") \in Event
      BY <2>3, EvType DEF EventTypes
    <3>2. e = [[Ev(c, "attached") EXCEPT !.ref = q.target] EXCEPT !.key = q.key]
      BY DEF Ev
    <3>3. e \in Event
      <4> DEFINE f == [Ev(c, "attached") EXCEPT !.ref = q.target]
      <4>1. f \in Event
        BY <2>1, <3>1, EventColumn
      <4> HIDE DEF f
      <4>2. [f EXCEPT !.key = q.key] \in Event
        BY <2>1, <4>1, EventColumn
      <4> QED BY <3>2, <4>2 DEF f
    <3> QED BY <3>3 DEF Ev
  <2> HIDE DEF e
  <2>5. CASE q.cmd = "attach_branch"
    <3>1. Write(s, ofB, <<e>>, <<>>)
      BY <1>2, <2>2, <2>5 DEF BranchOpened
    <3>2. brow \in [Branches -> BranchRow] /\ brow[q.target] = OpenBranch
          /\ \A b \in Branches : b # q.target => brow[b] = branches[c][b]
      BY <2>2, <2>3, <2>5 DEF BranchRow, OpenBranch
    <3> HIDE DEF brow
    <3>3. Columns(s, ofB, FALSE, cards[c], brow)
      BY <2>3, <3>2, ColumnsOf
    <3>4. OneCard(s, FALSE, cards[c], brow, {e})
      BY <2>2, <2>4, <2>5, <3>2, BoardAssumption
         DEF OneCard, Moves, Changes, LandHeld, SameIdentity, Said
    <3> HIDE DEF ofB
    <3> QED BY <2>3, <2>4, <3>1, <3>3, <3>4, PlanOneEvent DEF PlannedStep
  <2>6. CASE q.cmd = "attach_ref"
    <3>1. Write(s, ofR, <<e>>, <<>>)
      BY <1>2, <2>6
    <3>2. rrow \in SUBSET Refs
      BY <2>2, <2>3, <2>6
    <3> HIDE DEF rrow
    <3>3. Columns(s, ofR, FALSE, cards[c], branches[c])
      BY <2>3, <3>2, ColumnsOf
    <3>4. OneCard(s, FALSE, cards[c], branches[c], {e})
      BY <2>2, <2>4, <2>6, BoardAssumption
         DEF OneCard, Moves, Changes, LandHeld, SameIdentity
    <3> HIDE DEF ofR
    <3> QED BY <2>3, <2>4, <3>1, <3>3, <3>4, PlanOneEvent DEF PlannedStep
  <2> QED BY <2>1, <2>5, <2>6
<1> QED BY <1>1, <1>2, Zenon DEF ExecAttach

\* A detach refuses, or clears one branch or one attachment and says which.
LEMMA DetachPlanned ==
  ASSUME TypeOK, LockInv, NEW s \in Sessions, SessionInv(s), ExecDetach(s)
  PROVE  PlannedStep(s)
<1> DEFINE q == txn[s].call
           c == txn[s].card
           brow == [branches[c] EXCEPT ![q.target] = NoBranch]
           B == [d \in {c} |-> brow]
           rrow == refs[c] \ {q.target}
           R == [d \in {c} |-> rrow]
           e == [Ev(c, "detached") EXCEPT !.ref = q.target]
           ofB == [NoWrites EXCEPT !.branches = B]
           ofR == [NoWrites EXCEPT !.refs = R]
<1>1. CASE Finish(s, "refused")
  BY <1>1 DEF PlannedStep, Answers
<1>2. CASE /\ ~cards[c].archived
           /\ Write(s, IF q.cmd = "detach_branch" THEN ofB ELSE ofR, <<e>>, <<>>)
  <2>1. /\ Ready(s, {"detach_branch", "detach_ref"}) /\ q \in Calls
        /\ q.cmd \in {"detach_branch", "detach_ref"}
        /\ q.key = None /\ q.target \in Branches \cup Refs
    BY ReadyType, KeylessCalls, Arguments DEF ExecDetach
  <2>2. /\ q.cmd = "detach_branch" => q.target \in Branches
        /\ q.cmd = "detach_ref" => q.target \in Refs /\ q.target \notin Branches
    BY <2>1, Arguments, BoardAssumption
  <2>3. /\ MayWrite(s) /\ c \in Cards /\ cards[c] \in CardRow
        /\ branches[c] \in [Branches -> BranchRow] /\ refs[c] \in SUBSET Refs
    BY <1>2, <2>1, CardReady
  <2>4. /\ e \in Event /\ e.seq = 0 /\ e.card = c /\ e.type = "detached" /\ e.key = None
        /\ e.ref = q.target /\ e.cardType = None /\ e.other = None
    <3>1. Ev(c, "detached") \in Event
      BY <2>3, EvType DEF EventTypes
    <3>2. e \in Event
      BY <2>1, <3>1, EventColumn
    <3> QED BY <3>2 DEF Ev
  <2> HIDE DEF e
  <2>5. CASE q.cmd = "detach_branch"
    <3>1. Write(s, ofB, <<e>>, <<>>)
      BY <1>2, <2>5
    <3>2. brow \in [Branches -> BranchRow] /\ brow[q.target] = NoBranch
          /\ \A b \in Branches : b # q.target => brow[b] = branches[c][b]
      BY <2>2, <2>3, <2>5 DEF BranchRow, NoBranch
    <3> HIDE DEF brow
    <3>3. Columns(s, ofB, FALSE, cards[c], brow)
      BY <2>3, <3>2, ColumnsOf
    <3>4. OneCard(s, FALSE, cards[c], brow, {e})
      BY <2>1, <2>2, <2>4, <2>5, <3>2, BoardAssumption
         DEF OneCard, Moves, Changes, LandHeld, SameIdentity, Said
    <3> HIDE DEF ofB
    <3> QED BY <2>3, <2>4, <3>1, <3>3, <3>4, PlanOneEvent DEF PlannedStep
  <2>6. CASE q.cmd = "detach_ref"
    <3>1. Write(s, ofR, <<e>>, <<>>)
      BY <1>2, <2>6
    <3>2. rrow \in SUBSET Refs
      BY <2>2, <2>3, <2>6
    <3> HIDE DEF rrow
    <3>3. Columns(s, ofR, FALSE, cards[c], branches[c])
      BY <2>3, <3>2, ColumnsOf
    <3>4. OneCard(s, FALSE, cards[c], branches[c], {e})
      BY <2>1, <2>2, <2>4, <2>6, BoardAssumption
         DEF OneCard, Moves, Changes, LandHeld, SameIdentity
    <3> HIDE DEF ofR
    <3> QED BY <2>3, <2>4, <3>1, <3>3, <3>4, PlanOneEvent DEF PlannedStep
  <2> QED BY <2>1, <2>5, <2>6
<1> QED BY <1>1, <1>2, Zenon DEF ExecDetach

\* The branch a command works in, opened and told unless it was open.
BranchesOpened(c, b) ==
    IF b = None THEN branches[c] ELSE [branches[c] EXCEPT ![b] = OpenBranch]

\* The branch a command opens with a card, and the event that tells of it.
OpenedFits(c, b) ==
    /\ BranchesOpened(c, b) \in [Branches -> BranchRow]
    /\ BranchOpened(c, b) =
          IF b = None THEN NoRows ELSE [d \in {c} |-> BranchesOpened(c, b)]
    /\ b = None => BranchesOpened(c, b) = branches[c]
    /\ b # None => b \in Branches /\ BranchesOpened(c, b)[b] = OpenBranch
    /\ BranchLog(c, b) \in Seq(Event) /\ Fresh(BranchLog(c, b))
    /\ \A e \in Entries(BranchLog(c, b)) :
          /\ e \in Event /\ e.seq = 0 /\ e.card = c /\ e.type = "attached"
          /\ e.ref = b /\ b # None /\ e.key = None /\ e.cardType = None /\ e.other = None
    /\ \A x \in Branches : BranchesOpened(c, b)[x] # branches[c][x] =>
          x = b /\ \E e \in Entries(BranchLog(c, b)) : e.ref = x

\* The branch opened and the log of it agree, when there is one and when not.
LEMMA BranchOpenedFits ==
  ASSUME TablesOK, OpenRows, NEW c \in Cards, NEW b \in Branches \cup {None}
  PROVE  OpenedFits(c, b)
<1> DEFINE e == [Ev(c, "attached") EXCEPT !.ref = b]
           brow == [branches[c] EXCEPT ![b] = OpenBranch]
<1>1. branches[c] \in [Branches -> BranchRow] /\ None \notin Branches
      /\ OpenBranch \in BranchRow
  BY BoardAssumption DEF TablesOK, OpenBranch, BranchRow
<1>2. e \in Event /\ e.seq = 0 /\ e.card = c /\ e.type = "attached" /\ e.ref = b
      /\ e.key = None /\ e.cardType = None /\ e.other = None
  <2>1. Ev(c, "attached") \in Event
    BY EvType DEF EventTypes
  <2>2. e \in Event
    BY <2>1, EventColumn
  <2> QED BY <2>2 DEF Ev
<1>3. CASE b = None
  <2>1. BranchLog(c, b) = <<>> /\ BranchOpened(c, b) = NoRows
        /\ BranchesOpened(c, b) = branches[c]
    BY <1>3 DEF BranchLog, BranchOpened, BranchesOpened
  <2> QED BY <1>1, <1>2, <1>3, <2>1, OneEvent DEF OpenedFits
<1>4. CASE b # None
  <2>1. /\ BranchOpened(c, b) = [d \in {c} |-> BranchesOpened(c, b)]
        /\ BranchesOpened(c, b) = brow
        /\ brow \in [Branches -> BranchRow] /\ brow[b] = OpenBranch
        /\ \A x \in Branches : x # b => brow[x] = branches[c][x]
    BY <1>1, <1>4 DEF BranchOpened, BranchesOpened
  <2>2. BranchLog(c, b) = IF branches[c][b].state = "open" THEN <<>> ELSE <<e>>
    BY <1>4 DEF BranchLog
  <2>3. branches[c][b].state = "open" => branches[c][b] = OpenBranch
    BY <1>4 DEF OpenRows
  <2> HIDE DEF e, brow
  <2>4. CASE branches[c][b].state = "open"
    <3>1. BranchLog(c, b) = <<>>
      BY <2>2, <2>4
    <3> QED BY <1>2, <1>4, <2>1, <2>3, <2>4, <3>1, OneEvent DEF OpenedFits
  <2>5. CASE branches[c][b].state # "open"
    <3>1. BranchLog(c, b) = <<e>>
      BY <2>2, <2>5
    <3> QED BY <1>2, <1>4, <2>1, <3>1, OneEvent DEF OpenedFits
  <2> QED BY <2>4, <2>5
<1> QED BY <1>3, <1>4

\* The rows of a command that opens a branch with its card.
LEMMA ColumnsOpened ==
  ASSUME TablesOK, OpenRows, NEW s \in Sessions, txn[s].card \in Cards,
         NEW row \in CardRow, NEW b \in Branches \cup {None}
  PROVE  Columns(s, [NoWrites EXCEPT !.cards = [d \in {txn[s].card} |-> row],
                                     !.branches = BranchOpened(txn[s].card, b)],
                 TRUE, row, BranchesOpened(txn[s].card, b))
<1> DEFINE c == txn[s].card
           brow == BranchesOpened(c, b)
           B == BranchOpened(c, b)
           C == [d \in {c} |-> row]
           rows == [NoWrites EXCEPT !.cards = C, !.branches = B]
<1>1. OpenedFits(c, b)
  BY BranchOpenedFits
<1>2. /\ brow \in [Branches -> BranchRow]
      /\ B = IF b = None THEN NoRows ELSE [d \in {c} |-> brow]
      /\ b = None => brow = branches[c]
  BY <1>1 DEF OpenedFits
<1>3. refs[c] \in SUBSET Refs
  BY DEF TablesOK
<1> HIDE DEF brow, B
<1>4. CASE b = None
  <2>1. B = NoRows /\ brow = branches[c]
    BY <1>2, <1>4
  <2>2. Columns(s, [NoWrites EXCEPT !.cards = C, !.branches = NoRows], TRUE, row, branches[c])
    BY <1>2, <1>3, ColumnsOf
  <2> HIDE DEF C
  <2> QED BY <2>1, <2>2 DEF brow, B, C
<1>5. CASE b # None
  <2>1. B = [d \in {c} |-> brow]
    BY <1>2, <1>5
  <2>2. Columns(s, [NoWrites EXCEPT !.cards = C, !.branches = [d \in {c} |-> brow]],
                TRUE, row, brow)
    BY <1>2, <1>3, ColumnsOf
  <2> HIDE DEF C
  <2> QED BY <2>1, <2>2 DEF brow, B, C
<1> QED BY <1>4, <1>5

\* The combinations of arguments a move passes with.
LEMMA MoveArguments ==
  ASSUME NEW q \in Calls, q.cmd = "move"
  PROVE  /\ q.branch # None \/ q.noBranch => q.to = "active"
         /\ q.key \in Keys \cup {None}
  BY CallKinds DEF MoveCalls

\* move.
LEMMA MovePlanned ==
  ASSUME TypeOK, LockInv, OpenRows, NEW s \in Sessions, SessionInv(s), ExecMove(s)
  PROVE  PlannedStep(s)
<1> DEFINE q == txn[s].call
           c == txn[s].card
           r == cards[c]
           type == IF DeclaresType(q, r) THEN q.type ELSE r.type
           revision == IF DeclaresType(q, r) THEN r.revision + 1 ELSE r.revision
           row == [r EXCEPT !.state = q.to, !.type = type, !.revision = revision]
           brow == BranchesOpened(c, q.branch)
           B == BranchOpened(c, q.branch)
           log == BranchLog(c, q.branch)
           cardType == IF DeclaresType(q, r) THEN q.type ELSE None
           note == q.noBranch \/ q.notLanded
           m == [Ev(c, "moved") EXCEPT !.to = q.to, !.key = q.key, !.cardType = cardType,
                                       !.note = note, !.linksNote = q.noLinks]
           rows == [NoWrites EXCEPT !.cards = [d \in {c} |-> row], !.branches = B]
<1>1. CASE Finish(s, "refused")
  BY <1>1 DEF PlannedStep, Answers
<1>2. CASE ~MoveRefused(q, c) /\ Write(s, rows, log, <<m>>)
  <2>1. /\ Ready(s, {"move"}) /\ q \in Calls /\ q.cmd = "move" /\ q.key \in Keys \cup {None}
        /\ q.type \in CardTypes \cup {None} /\ q.branch \in Branches \cup {None}
        /\ q.to \in CardStates /\ q.noBranch \in BOOLEAN /\ q.notLanded \in BOOLEAN
        /\ q.noLinks \in BOOLEAN
        /\ (q.branch # None \/ q.noBranch => q.to = "active")
    BY ReadyType, Arguments, MoveArguments DEF ExecMove
  <2>2. /\ ~r.archived /\ ~NoWorkBranch(q, c)
        /\ q.notLanded = LeavesOpen(r, OpenBranches(c)) /\ r.state # q.to
    BY <1>2, <2>1 DEF MoveRefused, LeavesOpen
  <2>3. MayWrite(s) /\ c \in Cards /\ r \in CardRow /\ TablesOK
        /\ branches[c] \in [Branches -> BranchRow]
    BY <2>1, <2>2, CardReady
  <2>4. /\ type \in CardTypes \cup {None} /\ revision \in Nat
        /\ cardType \in CardTypes \cup {None} /\ note \in BOOLEAN
        /\ cardType # None => revision = r.revision + 1
        /\ revision # r.revision => cardType # None
    BY <2>1, <2>3 DEF CardRow, DeclaresType
  <2> HIDE DEF type, revision, cardType
  <2>5. /\ SameIdentity(row, r) /\ row.state = q.to /\ row.revision = revision
        /\ row \in CardRow
    <3> DEFINE to == q.to
    <3>1. to \in CardStates
      BY <2>1
    <3> HIDE DEF r, to
    <3>2. LET x == [r EXCEPT !.state = to, !.type = type, !.revision = revision]
          IN  SameIdentity(x, r) /\ x.state = to /\ x.revision = revision /\ x \in CardRow
      BY <2>3, <2>4, <3>1, RowTyped
    <3> QED BY <3>2 DEF to
  <2>6. /\ m \in Event /\ m.seq = 0 /\ m.card = c /\ m.type = "moved" /\ m.key = q.key
        /\ m.ref = None /\ m.cardType = cardType /\ m.note = note /\ m.to = q.to
        /\ m.other = None
    <3>1. Ev(c, "moved") \in Event
      BY <2>3, EvType DEF EventTypes
    <3> HIDE DEF note
    <3>2. m \in Event
      <4> DEFINE e1 == [Ev(c, "moved") EXCEPT !.to = q.to, !.key = q.key, !.note = note]
                 e2 == [e1 EXCEPT !.cardType = cardType]
                 e3 == [e2 EXCEPT !.linksNote = q.noLinks]
      <4>1. e1 \in Event
        <5>1. q.noLinks \in BOOLEAN /\ note \in BOOLEAN /\ q.to \in CardStates \cup {None}
          BY <2>1, <2>4
        <5> QED BY <2>1, <3>1, <5>1, EventWith
      <4>2. m = e3
        BY DEF Ev
      <4> HIDE DEF e1
      <4>3. e2 \in Event
        BY <2>4, <4>1, EventColumn
      <4> HIDE DEF e2
      <4>4. e3 \in Event
        BY <2>1, <4>3, EventColumn
      <4> QED BY <4>2, <4>4
    <3> QED BY <3>2 DEF Ev
  <2> HIDE DEF row, m
  <2>7. /\ brow \in [Branches -> BranchRow]
        /\ B = IF q.branch = None THEN NoRows ELSE [d \in {c} |-> brow]
        /\ q.branch = None => brow = branches[c]
        /\ q.branch # None => q.branch \in Branches /\ brow[q.branch] = OpenBranch
        /\ log \in Seq(Event) /\ Fresh(log)
        /\ \A e \in Entries(log) :
               /\ e \in Event /\ e.seq = 0 /\ e.card = c /\ e.type = "attached"
               /\ e.ref = q.branch /\ q.branch # None /\ e.key = None /\ e.cardType = None
               /\ e.other = None
        /\ \A x \in Branches : brow[x] # branches[c][x] =>
               x = q.branch /\ \E e \in Entries(log) : e.ref = x
    <3>1. OpenedFits(c, q.branch)
      BY <2>1, <2>3, BranchOpenedFits
    <3> QED BY <3>1 DEF OpenedFits
  <2>8. Columns(s, rows, TRUE, row, brow)
    BY <2>1, <2>3, <2>5, ColumnsOpened
  <2> HIDE DEF brow, B, log
  <2> DEFINE E == Entries(log) \cup {m}
  <2>9. r.state = "active" /\ row.state # "active" =>
          (\A b \in Branches : brow[b].state # "open") \/ m.note
    BY <2>1, <2>2, <2>5, <2>6, <2>7 DEF LeavesOpen, OpenBranches
  <2>10. r.state # "active" /\ row.state = "active" =>
          (\E b \in Branches : brow[b].state = "open") \/ m.note
    BY <2>1, <2>2, <2>5, <2>6, <2>7 DEF NoWorkBranch, OpenBranches, OpenBranch
  <2>11. \A e \in E : e = m \/ (/\ e.card = c /\ e.type = "attached" /\ e.ref = q.branch
                                /\ e.key = None /\ e.cardType = None /\ q.branch # None
                                /\ e.other = None)
    BY <2>7
  <2>12. OneCard(s, TRUE, row, brow, E)
    <3>1. \A e \in Entries(log), b \in Branches : e.ref = b => Said(e) = brow[b]
      BY <2>7 DEF Said
    <3>2. LandHeld(E)
      BY <2>6, <2>11 DEF LandHeld
    <3>3. \A e \in E : Changes(e) => e = m /\ cardType # None
      BY <2>6, <2>11 DEF Changes
    <3>4. cardType # None => Changes(m)
      BY <2>6 DEF Changes
    <3>5. Moves(m) /\ \A e \in E : Moves(e) => e = m
      BY <2>6, <2>11 DEF Moves
    <3>6. m.ref \notin Branches
      BY <2>6, BoardAssumption
    <3> QED BY <2>4, <2>5, <2>6, <2>7, <2>9, <2>10, <2>11, <3>1, <3>2, <3>3, <3>4, <3>5, <3>6
         DEF OneCard
  <2>13. Planned(s, rows, log, <<m>>)
    <3>1. /\ <<m>> \in Seq(Event) /\ Len(<<m>>) <= 1 /\ Entries(<<m>>) = {m}
      BY <2>6, OneEvent
    <3>2. \A e \in Entries(<<m>>) : /\ e.seq = 0 /\ e.type = "moved"
                                    /\ \A f \in Entries(log) : f.type # "moved"
      BY <2>6, <2>7, <3>1
    <3>3. E = Entries(log) \cup Entries(<<m>>)
      BY <3>1
    <3> HIDE DEF rows, E
    <3> QED BY <2>3, <2>7, <2>8, <2>12, <3>1, <3>2, <3>3, PlanOneCard
  <2> QED BY <1>2, <2>13 DEF PlannedStep
<1> QED BY <1>1, <1>2, Zenon DEF ExecMove, MoveRow

\* A finite set of events that is not empty has a last one.
LEMMA LatestThere ==
  ASSUME NEW E \in SUBSET Event, IsFiniteSet(E), E # {}
  PROVE  \E e \in E : e \in Latest(E)
<1> DEFINE seqOf == [e \in E |-> e.seq]
           S == {seqOf[e] : e \in E}
<1>1. S \in SUBSET Nat /\ S # {}
  BY DEF Event
<1>2. IsFiniteSet(S)
  BY FiniteImage
<1>3. Max(S) \in S /\ \A y \in S : y <= Max(S)
  BY <1>1, <1>2, MaxIsMember
<1>4. PICK e \in E : e.seq = Max(S)
  BY <1>3
<1>5. \A f \in E : f.seq \in S
  OBVIOUS
<1> QED BY <1>3, <1>4, <1>5 DEF Latest

\* A landing that is not on record any more was detached.
LEMMA LandingGone ==
  ASSUME TypeOK, BranchFollowsHistory, SeqsApart, NEW c \in Cards, NEW b \in Branches, NEW sha,
         ~LandingOnRecord(c, b, sha), NEW e \in events, e.type = "landed",
         e.card = c, e.ref = b, SameSha(e.sha, sha)
  PROVE  \E g \in events : /\ g.card = c /\ g.ref = b
                           /\ g.type = "detached" /\ e.seq < g.seq
<1> DEFINE E == {f \in events : f.card = c /\ f.ref = b}
<1>1. events \in SUBSET Event /\ IsFiniteSet(events)
  BY DEF TypeOK, TablesOK
<1>2. E \in SUBSET Event /\ IsFiniteSet(E) /\ e \in E
  BY <1>1, FS_Subset
<1>3. PICK g \in E : g \in Latest(E)
  BY <1>2, LatestThere
<1>4. branches[c][b].state = "none"
  BY DEF LandingOnRecord
<1>5. {Said(f) : f \in Latest(E)} = {branches[c][b]}
  <2>1. {Said(f) : f \in Latest(E)} = IF Latest(E) = {} THEN {} ELSE {branches[c][b]}
    BY DEF BranchFollowsHistory, Said
  <2> QED BY <1>3, <2>1
<1>6. Said(g) = branches[c][b]
  BY <1>3, <1>5
<1>7. g.type = "detached"
  BY <1>4, <1>6 DEF Said, OpenBranch, NoBranch
<1>8. e.seq <= g.seq
  BY <1>2, <1>3 DEF Latest
<1>9. e.seq # g.seq /\ e.seq \in Nat /\ g.seq \in Nat
  BY <1>2, <1>7 DEF SeqsApart, Event
<1> QED BY <1>2, <1>7, <1>8, <1>9

\* One entry after another.
LEMMA Joined ==
  ASSUME NEW S, NEW e \in S, NEW f \in S
  PROVE  <<e>> \o <<f>> = <<e, f>>
<1> DEFINE A == <<e>>
           B == <<f>>
           L == <<e, f>>
<1>1. /\ A \in Seq(S) /\ Len(A) = 1 /\ A[1] = e
      /\ B \in Seq(S) /\ Len(B) = 1 /\ B[1] = f
      /\ L \in Seq(S) /\ Len(L) = 2 /\ L[1] = e /\ L[2] = f
  OBVIOUS
<1> HIDE DEF A, B, L
<1> DEFINE C == A \o B
<1>2. /\ C \in Seq(S) /\ Len(C) = Len(A) + Len(B)
      /\ \A i \in 1..(Len(A) + Len(B)) :
            C[i] = IF i <= Len(A) THEN A[i] ELSE B[i - Len(A)]
  BY <1>1, ConcatProperties
<1> HIDE DEF C
<1>3. Len(C) = 2 /\ C[1] = e /\ C[2] = f
  BY <1>1, <1>2
<1>4. C = L
  BY <1>1, <1>2, <1>3
<1> QED BY <1>4 DEF A, B, C, L

\* Two events.
LEMMA TwoEvents ==
  ASSUME NEW e \in Event, e.seq = 0, NEW f \in Event, f.seq = 0,
         e # f \/ LinkNews(e)
  PROVE  /\ <<e>> \o <<f>> \in Seq(Event) /\ Fresh(<<e>> \o <<f>>)
         /\ Entries(<<e>> \o <<f>>) = {e, f}
         /\ <<e, f>> = <<e>> \o <<f>>
<1> DEFINE L == <<e, f>>
<1>1. <<e>> \o <<f>> = L
  BY Joined
<1>2. L \in Seq(Event) /\ DOMAIN L = {1, 2} /\ L[1] = e /\ L[2] = f
  OBVIOUS
<1> HIDE DEF L
<1>3. Entries(L) = {e, f}
  BY <1>2 DEF Entries
<1>4. Fresh(L)
  BY <1>2 DEF Fresh
<1> QED BY <1>1, <1>2, <1>3, <1>4, Zenon DEF L

\* land.
LEMMA LandPlanned ==
  ASSUME TypeOK, LockInv, SeqsApart, BranchFollowsHistory,
         NEW s \in Sessions, SessionInv(s), ExecLand(s)
  PROVE  PlannedStep(s)
<1> DEFINE q == txn[s].call
           c == txn[s].card
           r == cards[c]
           landed == [state |-> "landed", sha |-> q.sha]
           row == [r EXCEPT !.state = q.to]
           brow == [branches[c] EXCEPT ![q.branch] = landed]
           moves == r.state # q.to
           l == [Ev(c, "landed") EXCEPT !.ref = q.branch, !.sha = q.sha,
                                        !.key = IF moves THEN None ELSE q.key]
           m == [Ev(c, "moved") EXCEPT !.to = q.to, !.key = q.key, !.note = q.notLanded]
           log == <<l>> \o (IF moves THEN <<m>> ELSE <<>>)
           rows == [NoWrites EXCEPT !.cards = [d \in {c} |-> row],
                                    !.branches = [d \in {c} |-> brow]]
<1>1. CASE \E answer \in {"refused", "unchanged"} : Finish(s, answer)
  BY <1>1 DEF PlannedStep, Answers
<1>2. CASE /\ ~r.archived /\ ~LandingOnRecord(c, q.branch, q.sha) /\ ~LandRefused(q, c)
           /\ Write(s, rows, log, <<>>)
  <2>1. /\ Ready(s, {"land"}) /\ q \in Calls /\ q.cmd = "land" /\ q.key \in Keys \cup {None}
        /\ q.branch \in Branches /\ q.sha \in Seq(Nat)
        /\ q.to \in CardStates /\ q.notLanded \in BOOLEAN
    BY ReadyType, Arguments, CallKinds DEF ExecLand
  <2>2. MayWrite(s) /\ c \in Cards /\ r \in CardRow /\ refs[c] \in SUBSET Refs
        /\ branches[c] \in [Branches -> BranchRow]
    BY <1>2, <2>1, CardReady
  <2>3. /\ SameIdentity(row, r) /\ row.state = q.to /\ row.revision = r.revision
        /\ row \in CardRow
    <3> DEFINE to == q.to
    <3>1. to \in CardStates
      BY <2>1
    <3> HIDE DEF r, to
    <3>2. LET x == [r EXCEPT !.state = to]
          IN  /\ SameIdentity(x, r) /\ x.state = to /\ x.revision = r.revision
              /\ x \in CardRow
      BY <2>2, <3>1, RowMoved
    <3> QED BY <3>2 DEF to
  <2>4. /\ brow \in [Branches -> BranchRow] /\ brow[q.branch] = landed
        /\ \A b \in Branches : b # q.branch => brow[b] = branches[c][b]
    BY <2>1, <2>2 DEF BranchRow
  <2>5. /\ m \in Event /\ m.seq = 0 /\ m.card = c /\ m.type = "moved" /\ m.key = q.key
        /\ m.ref = None /\ m.cardType = None /\ m.note = q.notLanded /\ m.to = q.to
        /\ m.other = None
    <3>1. Ev(c, "moved") \in Event
      BY <2>2, EvType DEF EventTypes
    <3>2. q.to \in CardStates \cup {None}
      BY <2>1
    <3>3. m \in Event
      BY <2>1, <3>1, <3>2, EventWith
    <3> QED BY <3>3 DEF Ev
  <2>6. /\ l \in Event /\ l.seq = 0 /\ l.card = c /\ l.type = "landed"
        /\ l.key = (IF moves THEN None ELSE q.key)
        /\ l.ref = q.branch /\ l.cardType = None /\ l.sha = q.sha /\ l.other = None
    <3> DEFINE key == IF moves THEN None ELSE q.key
               e1 == [Ev(c, "landed") EXCEPT !.ref = q.branch]
               e2 == [e1 EXCEPT !.sha = q.sha]
               e3 == [e2 EXCEPT !.key = key]
    <3>1. Ev(c, "landed") \in Event
      BY <2>2, EvType DEF EventTypes
    <3>2. e1 \in Event
      BY <2>1, <3>1, EventColumn
    <3>3. key \in Keys \cup {None}
      BY <2>1
    <3> HIDE DEF key
    <3>4. l = e3
      BY DEF Ev, key
    <3> HIDE DEF e1
    <3>5. e2 \in Event
      BY <2>1, <3>2, EventColumn
    <3> HIDE DEF e2
    <3>6. e3 \in Event
      BY <3>3, <3>5, EventColumn
    <3> HIDE DEF e3
    <3>7. l \in Event
      BY <3>4, <3>6
    <3> QED BY <3>7 DEF Ev
  <2>7. Columns(s, rows, TRUE, row, brow)
    <3> HIDE DEF row, brow
    <3> QED BY <2>2, <2>3, <2>4, ColumnsOf
  <2> DEFINE E == {l} \cup (IF moves THEN {m} ELSE {})
  <2>8. \A e \in events : e.type = "landed" /\ e.card = c /\ e.ref = q.branch
                             /\ SameSha(e.sha, q.sha)
           => \E g \in events : /\ g.card = c /\ g.ref = q.branch
                                /\ g.type = "detached" /\ e.seq < g.seq
    BY <1>2, <2>1, <2>2, LandingGone
  <2>9. r.state = "active" /\ q.to # "active" =>
          (\A b \in Branches : brow[b].state # "open") \/ q.notLanded
    BY <1>2, <2>1, <2>4 DEF LandRefused, LeavesOpen, OpenBranches
  <2> HIDE DEF l, m, row, brow, moves
  <2>10. OneCard(s, TRUE, row, brow, E)
    <3>1. LandHeld(E)
      BY <2>5, <2>6, <2>8 DEF LandHeld
    <3>2. Said(l) = brow[q.branch]
      BY <2>4, <2>6 DEF Said
    <3>3. m.ref \notin Branches
      BY <2>5, BoardAssumption
    <3>4. ~Changes(l) /\ ~Changes(m) /\ ~Moves(l) /\ Moves(m)
      BY <2>5, <2>6 DEF Changes, Moves
    <3>5. row.state # r.state <=> moves
      BY <2>3 DEF moves
    <3> QED BY <2>3, <2>4, <2>5, <2>6, <2>9, <3>1, <3>2, <3>3, <3>4, <3>5 DEF OneCard
  <2>11. log \in Seq(Event) /\ Fresh(log) /\ Entries(log) = E
    <3>1. /\ <<l>> \in Seq(Event) /\ Fresh(<<l>>) /\ Entries(<<l>>) = {l}
          /\ <<m>> \in Seq(Event) /\ Fresh(<<m>>) /\ Entries(<<m>>) = {m}
          /\ <<>> \in Seq(Event)
      BY <2>5, <2>6, OneEvent
    <3>2. CASE moves
      <4>1. log = <<l>> \o <<m>>
        BY <3>2
      <4> HIDE DEF log
      <4>2. l # m
        BY <2>5, <2>6
      <4> QED BY <2>5, <2>6, <3>2, <4>1, <4>2, TwoEvents
    <3>3. CASE ~moves
      <4>1. log = <<l>> \o <<>>
        BY <3>3
      <4> HIDE DEF log
      <4>2. log = <<l>>
        BY <3>1, <4>1, EntriesOf
      <4> QED BY <3>1, <3>3, <4>2
    <3> QED BY <3>2, <3>3
  <2>12. Planned(s, rows, log, <<>>)
    <3>1. /\ <<>> \in Seq(Event) /\ Len(<<>>) <= 1 /\ Entries(<<>>) = {}
      BY <2>5, OneEvent
    <3>2. E = Entries(log) \cup Entries(<<>>)
      BY <2>11, <3>1
    <3> HIDE DEF rows, E, log
    <3> QED BY <2>2, <2>7, <2>10, <2>11, <3>1, <3>2, PlanOneCard
  <2> QED BY <1>2, <2>12 DEF PlannedStep
<1> QED BY <1>1, <1>2, Zenon DEF ExecLand, LandLog

\* The number of a new card comes after all the others.
LEMMA NextNumberBounds ==
  ASSUME TablesOK, NEW c \in Cards
  PROVE  NextNumber \in Nat /\ cards[c].number < NextNumber
<1> DEFINE S == {cards[d].number : d \in Cards}
           g == [d \in Cards |-> cards[d].number]
<1>1. S \in SUBSET Nat /\ S # {} /\ cards[c].number \in S
  BY DEF TablesOK, CardRow
<1>2. IsFiniteSet({g[d] : d \in Cards})
  BY BoardAssumption, FiniteImage
<1>3. S = {g[d] : d \in Cards}
  OBVIOUS
<1>4. Max(S) \in Nat /\ cards[c].number <= Max(S)
  <2> HIDE DEF S, g
  <2> QED BY <1>1, <1>2, <1>3, MaxIsMember
<1>5. cards[c].number \in Nat
  BY DEF TablesOK, CardRow
<1> QED BY <1>4, <1>5 DEF NextNumber

\* create and promote.
LEMMA CreatePlanned ==
  ASSUME TypeOK, LockInv, OpenRows, RowsApart, NEW s \in Sessions, SessionInv(s),
         ExecCreate(s)
  PROVE  PlannedStep(s)
<1> DEFINE q == txn[s].call
           c == txn[s].card
           row == [number |-> NextNumber, state |-> q.to, type |-> q.type,
                   content |-> q.content, revision |-> 1, archived |-> FALSE,
                   key |-> q.key, loop |-> q.loop]
           brow == BranchesOpened(c, q.branch)
           note == q.to = "active" /\ q.branch = None
           linksNote == q.links = <<>>
           e == [Ev(c, "created") EXCEPT !.to = q.to, !.note = note,
                                         !.linksNote = linksNote]
           opened == BranchLog(c, q.branch)
           log == <<e>> \o opened
           rows == [NoWrites EXCEPT !.cards = [d \in {c} |-> row],
                                    !.branches = BranchOpened(c, q.branch)]
<1>1. CASE \E answer \in {"refused", "replayed"} : Finish(s, answer)
  BY <1>1 DEF PlannedStep, Answers
<1>2. CASE ~CreateReplayed(q) /\ ~CreateRefused(q) /\ Write(s, rows, log, <<>>)
  <2>1. /\ Ready(s, {"create", "promote"}) /\ q \in Calls /\ Creates(q)
        /\ q.cmd \in {"create", "promote"}
        /\ q.key \in Keys \cup {None} /\ q.branch \in Branches \cup {None}
        /\ q.to \in CardStates /\ q.type \in CardTypes /\ q.content \in Contents
        /\ q.loop \in Loops \cup {None} /\ c \in Cards
    BY ReadyType, Arguments, CallKinds DEF ExecCreate, Creates
  <2>2. /\ Owns(s, c) /\ ~Exists(c) /\ cards[c] = NoCard /\ TablesOK
    <3>1. /\ CallStands(s) /\ txn[s].phase # "idle" /\ txn[s].locks = <<>>
          /\ q.cmd # "release"
      BY <2>1 DEF SessionInv, Ready
    <3>2. Owns(s, c) /\ ~Exists(c)
      BY <2>1, <3>1, OwnsCall
    <3> QED BY <2>1, <3>2 DEF RowsApart, TypeOK
  <2>3. NextNumber \in Nat /\ \A o \in Cards : cards[o].number < NextNumber
    BY <2>1, <2>2, NextNumberBounds
  <2>4. row \in CardRow
    BY <2>1, <2>3 DEF CardRow
  <2>5. RowFits(c, row)
    <3>1. \A o \in Cards : cards[o].number \in Nat
      BY <2>2 DEF TablesOK, CardRow
    <3>2. q.key # None => \A o \in Cards : cards[o].key # q.key
      BY <1>2, <2>1 DEF CreateReplayed, KeyOnRecord
    <3>3. q.loop # None => \A o \in Cards : cards[o].loop # q.loop
      BY <1>2 DEF CreateRefused
    <3>4. /\ row.number = NextNumber /\ row.key = q.key /\ row.loop = q.loop
          /\ NextNumber # 0
      BY <2>1, <2>3, <3>1
    <3> HIDE DEF row
    <3> QED BY <2>2, <2>3, <3>1, <3>2, <3>3, <3>4 DEF RowFits, Apart
  <2>6. /\ e \in Event /\ e.seq = 0 /\ e.card = c /\ e.type = "created" /\ e.key = None
        /\ e.ref = None /\ e.cardType = None /\ e.to = q.to /\ e.other = None
        /\ (e.note <=> q.to = "active" /\ q.branch = None)
        /\ (e.linksNote <=> q.links = <<>>)
    <3>1. Ev(c, "created") \in Event
      BY <2>1, EvType DEF EventTypes
    <3>2. note \in BOOLEAN /\ linksNote \in BOOLEAN
      OBVIOUS
    <3>3. q.to \in CardStates \cup {None}
      BY <2>1
    <3>4. e \in Event
      <4> HIDE DEF note, linksNote
      <4> QED BY <2>1, <3>1, <3>2, <3>3, EventWith
    <3> QED BY <3>4 DEF Ev
  <2>7. /\ opened \in Seq(Event) /\ Fresh(opened)
        /\ q.branch # None => q.branch \in Branches /\ brow[q.branch] = OpenBranch
        /\ \A f \in Entries(opened) :
               /\ f \in Event /\ f.seq = 0 /\ f.card = c /\ f.type = "attached"
               /\ f.ref = q.branch /\ q.branch # None /\ f.key = None /\ f.cardType = None
               /\ f.other = None
        /\ \A x \in Branches : brow[x] # branches[c][x] =>
               x = q.branch /\ \E f \in Entries(opened) : f.ref = x
    <3>1. OpenedFits(c, q.branch)
      BY <2>1, <2>2, BranchOpenedFits
    <3> QED BY <3>1 DEF OpenedFits
  <2>8. Columns(s, rows, TRUE, row, brow)
    <3> HIDE DEF row
    <3> QED BY <2>1, <2>2, <2>4, ColumnsOpened
  <2>9. row.state = q.to /\ row.key = q.key /\ row.revision = 1
    OBVIOUS
  <2> HIDE DEF e, row, brow, opened
  <2> DEFINE E == {e} \cup Entries(opened)
  <2>10. log \in Seq(Event) /\ Fresh(log) /\ Entries(log) = E
    <3>1. <<e>> \in Seq(Event) /\ Fresh(<<e>>) /\ Entries(<<e>>) = {e}
      BY <2>6, OneEvent
    <3>2. \A a \in Entries(<<e>>), f \in Entries(opened) : a # f
      BY <2>6, <2>7, <3>1
    <3> DEFINE A == <<e>>
    <3>3. A \in Seq(Event) /\ Fresh(A) /\ Entries(A) = {e}
      BY <3>1
    <3> HIDE DEF A
    <3>4. Fresh(A \o opened) /\ Entries(A \o opened) = Entries(A) \cup Entries(opened)
          /\ A \o opened \in Seq(Event)
      <4>1. \A a \in Entries(A), f \in Entries(opened) : a # f
        BY <3>2 DEF A
      <4>2. Fresh(A \o opened)
        BY <2>7, <3>3, <4>1, FreshTogether
      <4>3. Entries(A \o opened) = Entries(A) \cup Entries(opened)
        BY <2>7, <3>3, EntriesOf
      <4> QED BY <2>7, <3>3, <4>2, <4>3
    <3> QED BY <3>3, <3>4 DEF A
  <2>11. \A f \in E : /\ f.card = c /\ f.key = None /\ f.cardType = None /\ f.other = None
                      /\ f.type \in {"created", "attached"}
                      /\ f.type = "created" => f = e
                      /\ f.type = "attached" => f \in Entries(opened) /\ f.ref = q.branch
                      /\ f # e => f.type = "attached"
    BY <2>6, <2>7
  <2>12. e \in E /\ Entries(opened) \subseteq E
    OBVIOUS
  <2> HIDE DEF E
  <2> DEFINE x == [cards |-> rows.cards, branches |-> rows.branches, refs |-> rows.refs]
  <2>13. /\ DOMAIN x.cards = {c} /\ x.cards[c] = row
         /\ \A d \in Touched(x) : d = c
         /\ BranchesWith(x, c) = brow
         /\ \A d : d # c => BranchesWith(x, d) = branches[d]
    BY <2>8 DEF Columns, Touched, BranchesWith
  <2>14. WritesOK(rows) /\ rows.events = {} /\ rows.links = NoRows
    BY <2>8 DEF Columns
  <2> HIDE DEF x, rows
  <2>15. WritesHeld(s, x, E)
    <3>1. RowsHeld(s, x, E)
      BY <2>1, <2>2, <2>5, <2>11, <2>13 DEF RowsHeld, NoCard
    <3>2. KeysHeld(s, x, E)
      BY <2>1, <2>9, <2>11, <2>13 DEF KeysHeld
    <3>3. ActiveHeld(x, E)
      <4>1. cards[c].state = "idea"
        BY <2>2 DEF NoCard
      <4>2. q.to = "active" => (\E b \in Branches : brow[b].state = "open") \/ e.note
        BY <2>6, <2>7 DEF OpenBranch
      <4> QED BY <2>9, <2>11, <2>12, <2>13, <4>1, <4>2 DEF ActiveHeld
    <3>4. StateHeld(x, E)
      BY <2>6, <2>9, <2>11, <2>12, <2>13 DEF StateHeld, Moves
    <3>5. RevisionHeld(x, E)
      BY <2>2, <2>9, <2>11, <2>13 DEF RevisionHeld, Changes
    <3>6. BranchHeld(x, E)
      <4>1. \A f \in E, b \in Branches : f.ref = b => Said(f) = brow[b]
        BY <2>6, <2>7, <2>11, BoardAssumption DEF Said
      <4>2. \A b \in Branches : (\A f \in E : f.ref # b) => brow[b] = branches[c][b]
        BY <2>7, <2>12
      <4> QED BY <2>11, <2>13, <4>1, <4>2 DEF BranchHeld
    <3>7. LandHeld(E) /\ ReleaseHeld(s, x, E)
      BY <2>1, <2>11 DEF LandHeld, ReleaseHeld
    <3> QED BY <3>1, <3>2, <3>3, <3>4, <3>5, <3>6, <3>7 DEF WritesHeld
  <2>16. Planned(s, rows, log, <<>>)
    <3>1. /\ <<>> \in Seq(Event) /\ Len(<<>>) <= 1 /\ Entries(<<>>) = {}
      BY <2>6, OneEvent
    <3>2. E = Entries(log) \cup Entries(<<>>)
      BY <2>10, <3>1
    <3>3. Declares(q) \/ e.linksNote
      BY <2>1, <2>6 DEF Declares
    <3>4. \E y, F : /\ y = [cards |-> rows.cards, branches |-> rows.branches,
                            refs |-> rows.refs]
                    /\ F = Entries(log) \cup Entries(<<>>)
                    /\ WritesHeld(s, y, F)
      BY <2>15, <3>2 DEF x
    <3>5. \A f \in Entries(log) \cup Entries(<<>>) : f.other = None
      BY <2>11, <3>2
    <3> HIDE DEF log
    <3> QED BY <2>1, <2>6, <2>10, <2>12, <2>14, <3>1, <3>3, <3>4, <3>5 DEF Planned
  <2> QED BY <1>2, <2>16 DEF PlannedStep
<1> QED BY <1>1, <1>2, Zenon DEF ExecCreate, NewRow

\* The two cards of a relation are the two it was named with.
LEMMA LinkKeyPair ==
  ASSUME NEW a \in Cards, NEW b \in Cards, NEW rel
  PROVE  {LinkKey(a, b, rel)[1], LinkKey(a, b, rel)[2]} = {a, b}
<1>1. CASE rel = "relates_to"
  BY <1>1, CardsAssumption DEF LinkKey, RelatesTo, Lesser, Greater
<1>2. CASE rel # "relates_to"
  BY <1>2 DEF LinkKey
<1> QED BY <1>1, <1>2

\* What the log of a relation tells: one row for each card, and the key on the
\* row of the card the call is about.
RelationTold(log, type, k, origin, key) ==
    /\ log \in Seq(Event) /\ Fresh(log)
    /\ \A e \in Entries(log) :
          /\ e \in Event /\ e.card \in {k[1], k[2]} /\ e.type = type
          /\ e.ref = None /\ e.cardType = None
          /\ e.key = IF e.card = origin THEN key ELSE None
          /\ e.linksNote = FALSE /\ e.seq = 0
    /\ \A e, f \in Entries(log) : e.card = f.card => e = f
    /\ \A c \in {k[1], k[2]} : \E e \in Entries(log) : e.card = c

\* A relation is told once to each of its two cards, from its own end.
LEMMA RelationLogTells ==
  ASSUME NEW type \in {"linked", "unlinked"}, NEW k \in LinkKeys, k[1] # k[2],
         NEW origin, NEW key \in Keys \cup {None}
  PROVE  RelationTold(RelationLog(type, k, origin, key), type, k, origin, key)
<1> DEFINE key1 == IF k[1] = origin THEN key ELSE None
           key2 == IF k[2] = origin THEN key ELSE None
           e == [Ev(k[1], type) EXCEPT !.other = k[2], !.link = k[3],
                                       !.dir = "out", !.key = key1]
           f == [Ev(k[2], type) EXCEPT !.other = k[1], !.link = k[3],
                                       !.dir = "in", !.key = key2]
           log == RelationLog(type, k, origin, key)
<1>1. log = <<e, f>> /\ log \in Seq(Event)
  BY RelationLogType DEF RelationLog
<1>2. log[1] = e /\ log[2] = f /\ DOMAIN log = {1, 2}
  BY <1>1
<1>3. e \in Event /\ f \in Event
  BY <1>1, <1>2
<1>4. /\ e.card = k[1] /\ e.type = type /\ e.ref = None /\ e.cardType = None
      /\ e.key = key1 /\ e.linksNote = FALSE /\ e.seq = 0
      /\ f.card = k[2] /\ f.type = type /\ f.ref = None /\ f.cardType = None
      /\ f.key = key2 /\ f.linksNote = FALSE /\ f.seq = 0
  BY DEF Ev
<1>5. Entries(log) = {e, f}
  <2> HIDE DEF log, e, f
  <2> QED BY <1>2 DEF Entries
<1>6. Fresh(log)
  <2> HIDE DEF log, e, f
  <2> QED BY <1>2, <1>4 DEF Fresh
<1> HIDE DEF log, e, f
<1>7. RelationTold(log, type, k, origin, key)
  BY <1>1, <1>3, <1>4, <1>5, <1>6 DEF RelationTold
<1> QED BY <1>7 DEF log

\* A command that only relates two cards is as planned.
LEMMA RelationPlanned ==
  ASSUME TypeOK, LockInv, NEW s \in Sessions, SessionInv(s),
         Ready(s, RelationCommands), NEW type \in {"linked", "unlinked"},
         NEW k, k = LinkKey(txn[s].call.card, txn[s].call.other, txn[s].call.rel),
         NEW rows, Rows(rows, LinkKeys, LinkStatus)
  PROVE  Planned(s, [NoWrites EXCEPT !.links = rows],
                 RelationLog(type, k, txn[s].call.card, txn[s].call.key), <<>>)
<1> DEFINE q == txn[s].call
           c == txn[s].card
           written == [NoWrites EXCEPT !.links = rows]
           x == [cards |-> written.cards, branches |-> written.branches,
                 refs |-> written.refs]
           log == RelationLog(type, k, q.card, q.key)
           E == Entries(log)
<1>1. /\ q \in Calls /\ Writable(k, TRUE) /\ k \in LinkKeys
      /\ q.cmd \in RelationCommands /\ q.key \in Keys \cup {None}
      /\ txn[s].phase # "idle" /\ txn[s].locks = <<>> /\ CallStands(s)
  BY RelationKey, CallKinds DEF Ready, SessionInv
<1>2. ~Creates(q) /\ q.cmd # "release"
  BY <1>1 DEF Creates, RelationCommands
<1>3. /\ c \in Cards /\ c = q.card /\ Owns(s, c) /\ q.other \in Cards
      /\ Owns(s, q.other)
  BY <1>1, <1>2, OwnsCall
<1>4. k[1] # k[2] /\ {k[1], k[2]} = {c, q.other}
  <2>1. {LinkKey(q.card, q.other, q.rel)[1], LinkKey(q.card, q.other, q.rel)[2]}
           = {q.card, q.other}
    <3> HIDE DEF q
    <3> QED BY <1>3, LinkKeyPair
  <2>2. {k[1], k[2]} = {q.card, q.other}
    BY <2>1
  <2>3. k[1] # k[2]
    BY <1>1 DEF Writable
  <2> QED BY <1>3, <2>2, <2>3
<1>5. /\ log \in Seq(Event) /\ Fresh(log)
      /\ \A e \in E :
            /\ e \in Event /\ e.card \in {k[1], k[2]} /\ e.type = type
            /\ e.ref = None /\ e.cardType = None
            /\ e.key = IF e.card = c THEN q.key ELSE None
            /\ e.linksNote = FALSE /\ e.seq = 0
      /\ \A e, f \in E : e.card = f.card => e = f
      /\ \A d \in {k[1], k[2]} : \E e \in E : e.card = d
  <2>1. RelationTold(log, type, k, q.card, q.key)
    BY <1>1, <1>4, RelationLogTells
  <2> HIDE DEF log
  <2> QED BY <1>3, <2>1 DEF RelationTold
<1>6. WritesOK(written) /\ written.events = {}
  BY AtRest, WrittenRows DEF NoWrites
<1>7. /\ DOMAIN x.cards = {} /\ DOMAIN x.branches = {} /\ DOMAIN x.refs = {}
  BY OneRow DEF NoWrites
<1> HIDE DEF x, log
<1>8. \A e \in E : Owns(s, e.card)
  BY <1>3, <1>4, <1>5
<1>9. WritesHeld(s, x, E)
  <2>1. RowsHeld(s, x, E)
    <3> HIDE DEF E, q, c
    <3>1. Touched(x) = {}
      BY <1>7 DEF Touched
    <3>2. \A e \in E : e.type \in {"linked", "unlinked"} /\ e.type # "released"
      BY <1>5
    <3> QED BY <1>7, <1>8, <3>1, <3>2 DEF RowsHeld
  <2>2. KeysHeld(s, x, E)
    BY <1>2, <1>4, <1>5 DEF KeysHeld
  <2>3. ActiveHeld(x, E) /\ StateHeld(x, E) /\ RevisionHeld(x, E)
    BY <1>5, <1>7 DEF ActiveHeld, StateHeld, RevisionHeld, Moves, Changes
  <2>4. BranchHeld(x, E)
    BY <1>5, <1>7, BoardAssumption DEF BranchHeld, BranchesWith
  <2>5. LandHeld(E) /\ ReleaseHeld(s, x, E)
    BY <1>2, <1>5 DEF LandHeld, ReleaseHeld
  <2> QED BY <2>1, <2>2, <2>3, <2>4, <2>5 DEF WritesHeld
<1>10. <<>> \in Seq(Event) /\ Len(<<>>) <= 1 /\ Entries(<<>>) = {}
  BY DEF Entries
<1>11. \E y, F : /\ y = [cards |-> written.cards, branches |-> written.branches,
                         refs |-> written.refs]
                 /\ F = Entries(log) \cup Entries(<<>>)
                 /\ WritesHeld(s, y, F)
  BY <1>9, <1>10 DEF x
<1> HIDE DEF written
<1>12. Planned(s, written, log, <<>>)
  BY <1>1, <1>2, <1>5, <1>6, <1>10, <1>11 DEF Planned
<1> QED BY <1>12 DEF log, written

\* link, and attach with kind card.
LEMMA LinkPlanned ==
  ASSUME TypeOK, LockInv, NEW s \in Sessions, SessionInv(s), ExecLink(s)
  PROVE  PlannedStep(s)
<1> DEFINE q == txn[s].call
           k == LinkKey(q.card, q.other, q.rel)
           declared == q.cmd = "link"
           new == LinkWritten(links, k, declared)
           rows == [NoWrites EXCEPT !.links = new]
           log == RelationLog("linked", k, q.card, q.key)
<1>1. Ready(s, RelationCommands) /\ q.cmd \in {"link", "attach_card"}
  BY DEF ExecLink, Ready, RelationCommands
<1>2. /\ q \in Calls /\ k \in LinkKeys /\ Writable(k, TRUE)
      /\ q.cmd \in {"attach_card", "detach_card"} => Writable(k, FALSE)
      /\ links \in LinkTable
  BY <1>1, RelationKey DEF TypeOK, TablesOK
<1>3. CASE \E answer \in {"refused", "unchanged"} : Finish(s, answer)
  BY <1>3 DEF PlannedStep, Answers
<1>4. CASE Write(s, rows, log, <<>>)
  <2>1. Writable(k, declared) /\ declared \in BOOLEAN
    <3>1. declared = TRUE \/ declared = FALSE
      OBVIOUS
    <3>2. ~declared => q.cmd \in {"attach_card", "detach_card"}
      BY <1>1
    <3> HIDE DEF k
    <3> QED BY <1>2, <3>1, <3>2 DEF Writable
  <2>2. Rows(new, LinkKeys, LinkStatus)
    <3> HIDE DEF declared, k
    <3> QED BY <1>2, <2>1, WrittenTable DEF Rows
  <2> HIDE DEF new
  <2>3. Planned(s, rows, log, <<>>)
    BY <1>1, <2>2, RelationPlanned
  <2> HIDE DEF rows, log
  <2> QED BY <1>4, <2>3 DEF PlannedStep
<1> QED BY <1>3, <1>4, Zenon DEF ExecLink

\* unlink, and detach of a card.
LEMMA UnlinkPlanned ==
  ASSUME TypeOK, LockInv, NEW s \in Sessions, SessionInv(s), ExecUnlink(s)
  PROVE  PlannedStep(s)
<1> DEFINE q == txn[s].call
           k == LinkKey(q.card, q.other, q.rel)
           gone == Unlinked(links, k)
           rows == [NoWrites EXCEPT !.links = gone]
           log == RelationLog("unlinked", k, q.card, None)
<1>1. /\ Ready(s, RelationCommands) /\ q.cmd \in {"unlink", "detach_card"}
  BY DEF ExecUnlink, Ready, RelationCommands
<1>2. q \in Calls /\ k \in LinkKeys
  BY <1>1, RelationKey
<1>3. q.key = None
  BY <1>1, <1>2, KeylessCalls
<1>4. CASE Finish(s, "refused")
  BY <1>4 DEF PlannedStep, Answers
<1>5. CASE Write(s, rows, log, <<>>)
  <2>1. Rows(gone, LinkKeys, LinkStatus)
    <3> HIDE DEF k
    <3> QED BY <1>2 DEF Unlinked, LinkStatus, Rows
  <2> HIDE DEF gone
  <2>2. Planned(s, rows, RelationLog("unlinked", k, q.card, q.key), <<>>)
    BY <1>1, <2>1, RelationPlanned
  <2>3. Planned(s, rows, log, <<>>)
    <3> HIDE DEF rows
    <3> QED BY <1>3, <2>2
  <2> HIDE DEF rows, log
  <2> QED BY <1>5, <2>3 DEF PlannedStep
<1> QED BY <1>4, <1>5 DEF ExecUnlink

\* A release begins with nothing told.
LEMMA ReleasePlanned ==
  ASSUME TypeOK, LockInv, NEW s \in Sessions, SessionInv(s), ExecRelease(s)
  PROVE  PlannedStep(s)
<1> DEFINE q == txn[s].call
           rows == [NoWrites EXCEPT !.version = q.version]
           x == [cards |-> rows.cards, branches |-> rows.branches, refs |-> rows.refs]
           E == Entries(<<>>) \cup Entries(<<>>)
<1>1. /\ q \in Calls /\ q.cmd = "release" /\ q.version \in Versions /\ q.key = None
      /\ Write(s, rows, <<>>, <<>>)
  BY ReadyType, Arguments, KeylessCalls DEF ExecRelease
<1>2. WritesOK(rows) /\ rows.events = {} /\ rows.links = NoRows
  BY <1>1, AtRest, WrittenRows DEF NoWrites
<1>3. /\ DOMAIN x.cards = {} /\ DOMAIN x.branches = {} /\ DOMAIN x.refs = {}
  BY OneRow DEF NoWrites
<1>4. E = {} /\ <<>> \in Seq(Event) /\ Len(<<>>) <= 1 /\ Fresh(<<>>) /\ Entries(<<>>) = {}
  BY DEF Entries, Fresh
<1>5. ~Creates(q)
  BY <1>1 DEF Creates
<1> HIDE DEF x, E
<1>6. WritesHeld(s, x, E)
  BY <1>1, <1>3, <1>4, <1>5
     DEF WritesHeld, RowsHeld, Touched, KeysHeld, ActiveHeld, StateHeld, RevisionHeld,
         BranchHeld, BranchesWith, LandHeld, ReleaseHeld
<1>7. \E y, F : /\ y = [cards |-> rows.cards, branches |-> rows.branches,
                        refs |-> rows.refs]
                /\ F = Entries(<<>>) \cup Entries(<<>>) /\ WritesHeld(s, y, F)
  BY <1>6 DEF x, E
<1> HIDE DEF rows
<1>8. Planned(s, rows, <<>>, <<>>)
  BY <1>2, <1>4, <1>5, <1>7 DEF Planned
<1> QED BY <1>1, <1>8 DEF PlannedStep

\* Every command writes as planned, or ends the call.
LEMMA ExecPlanned ==
  ASSUME TypeOK, LockInv, SeqsApart, OpenRows, RowsApart, CardFollowsHistory,
         NEW s \in Sessions, SessionInv(s), Exec(s)
  PROVE  PlannedStep(s)
<1>1. BranchFollowsHistory
  BY DEF CardFollowsHistory
<1> QED BY <1>1, CreatePlanned, EditPlanned, MovePlanned, ArchivePlanned, NotePlanned,
           LandPlanned, AttachPlanned, DetachPlanned, LinkPlanned, UnlinkPlanned,
           ReleasePlanned, Zenon DEF Exec

\* So a command keeps the session's part of the invariant, and the tables.
LEMMA ExecStands ==
  ASSUME TypeOK, LockInv, SeqsApart, OpenRows, RowsApart, CardFollowsHistory,
         NEW s \in Sessions, SessionInv(s), Exec(s)
  PROVE  \/ \E answer \in Answers \ {"ok"} : Finish(s, answer)
         \/ /\ SessionInv(s)'
            /\ \E rows, log : Progress(s, rows, log)
<1>1. PlannedStep(s)
  BY ExecPlanned
<1>2. txn[s].phase = "locking"
  BY DEF Exec, ExecCreate, ExecEdit, ExecMove, ExecArchive, ExecNote, ExecLand, ExecAttach,
         ExecDetach, ExecLink, ExecUnlink, ExecRelease, Ready
<1> QED BY <1>1, <1>2, PlannedStands DEF PlannedStep

-----------------------------------------------------------------------------
(* The items of a call. *)

\* An item of a call that logs what the call has not told.
NewItem(s, log) ==
    /\ log \in Seq(Event) /\ Fresh(log)
    /\ \A e \in Entries(log), f \in w[s].events : e = Plain(f) => LinkNews(e)
    /\ \A e \in Entries(txn[s].tail), f \in Entries(log) : f.type # "moved"

\* The call goes on, owns what it owned, and has told the log as well.
LEMMA ItemGoesOn ==
  ASSUME TypeOK, NEW s \in Sessions, SessionInv(s), txn[s].phase = "items",
         NEW rows, WritesOK(rows), rows.events = w[s].events, NEW log, NewItem(s, log),
         NextItem(s, rows, log),
         NEW c, \/ owner' = owner
                \/ Free(CardLock(c), s) /\ owner' = [owner EXCEPT ![CardLock(c)] = s]
  PROVE  /\ Progress(s, rows, log) /\ SameCall(s) /\ Written(s)' /\ CallStands(s)'
         /\ SeqsFit(s)' /\ UNCHANGED tables
         /\ \E x, E : /\ x = Wrote(s) /\ E = Telling(s) /\ E \in SUBSET Event
                      /\ WritesHeld(s, x, E) /\ WritesHeld(s, x, E)'
                      /\ Telling(s)' = E \cup Entries(log)
<1>1. log \in Seq(Event) /\ Fresh(log)
  BY DEF NewItem
<1>2. /\ Progress(s, rows, log) /\ txn'[s].tail = txn[s].tail /\ txn[s].tail \in Seq(Event)
      /\ \A l \in Locks : owner[l] = s => owner'[l] = s
  BY <1>1, NextItemEffect
<1>3. SeqsFit(s) /\ CallStands(s) /\ txn[s].phase # "idle" /\ Written(s)
  BY DEF SessionInv, Written
<1>4. CallStands(s)' /\ Written(s)' /\ SameCall(s)
  <2>1. txn[s].call.cmd = "release" => txn'[s].tail = <<>>
    BY <1>2, <1>3 DEF CallStands
  <2> QED BY <1>2, <1>3, <2>1, ProgressCall
<1>5. /\ Len(txn[s].tail) <= 1
      /\ \A e \in Entries(txn[s].tail) :
            /\ e.seq = 0 /\ e.type = "moved" /\ e \in Event /\ Plain(e) = e
            /\ \A f \in Entries(log) \cup rows.events : f.type # "moved"
  <2>1. Entries(txn[s].tail) \subseteq Event
    BY <1>2, EntriesOf
  <2>2. \A e \in Entries(txn[s].tail) : e.seq = 0
    BY <1>3 DEF SeqsFit
  <2> QED BY <1>3, <2>1, <2>2, PlainColumns DEF SeqsFit, NewItem
<1>6. /\ Telling(s)' = {Plain(e) : e \in rows.events} \cup Entries(log) \cup Entries(txn[s].tail)
      /\ SeqsFit(s)'
  <2> DEFINE tail == txn[s].tail
  <2>1. Numbered(rows.events)
    BY <1>3 DEF SeqsFit
  <2>2. \A e \in Entries(log), f \in rows.events : e = Plain(f) => LinkNews(e)
    BY DEF NewItem
  <2>3. /\ tail \in Seq(Event) /\ txn'[s].tail = tail /\ Len(tail) <= 1
        /\ \A e \in Entries(tail) :
              /\ e.seq = 0 /\ e.type = "moved"
              /\ \A f \in Entries(log) \cup rows.events : f.type # "moved"
    BY <1>2, <1>5
  <2> HIDE DEF tail
  <2>4. /\ Telling(s)' = {Plain(e) : e \in rows.events} \cup Entries(log) \cup Entries(tail)
        /\ SeqsFit(s)'
    BY <1>1, <1>2, <2>1, <2>2, <2>3, ProgressTells
  <2> QED BY <2>4 DEF tail
<1>7. Telling(s) = {Plain(e) : e \in rows.events} \cup Entries(txn[s].tail)
  BY <1>5 DEF Telling, Pending
<1>8. PICK x, E : x = Wrote(s) /\ E = Telling(s) /\ WritesHeld(s, x, E)
  BY <1>3 DEF SessionInv
<1>9. UNCHANGED tables
  BY <1>2 DEF Progress
<1>10. Leaves(s)
  BY <1>2, <1>9 DEF tables, Leaves, Exists, SameIdentity
<1>11. E \in SUBSET Event
  BY <1>8, TellingType
<1>12. WritesHeld(s, x, E)'
  BY <1>4, <1>8, <1>10, <1>11, WritesKept
<1>13. Telling(s)' = E \cup Entries(log)
  BY <1>6, <1>7, <1>8
<1> QED BY <1>2, <1>4, <1>6, <1>8, <1>9, <1>11, <1>12, <1>13

\* Relations told add nothing to the rows.
LEMMA MoreNews ==
  ASSUME NEW s, NEW x, NEW E, NEW F, WritesHeld(s, x, E)',
         \A e \in F : /\ Owns(s, e.card)' /\ e.type = "linked" /\ e.key = None
                      /\ e.ref = None /\ e.cardType = None,
         txn'[s].call.cmd # "release"
  PROVE  WritesHeld(s, x, E \cup F)'
<1> DEFINE G == E \cup F
<1>1. \A e \in G : e \in E \/ (e \in F /\ e \notin E)
  OBVIOUS
<1>2. None \notin Branches
  BY BoardAssumption
<1>3. RowsHeld(s, x, G)'
  BY DEF WritesHeld, RowsHeld
<1>4. KeysHeld(s, x, G)'
  BY DEF WritesHeld, KeysHeld
<1>5. ActiveHeld(x, G)'
  BY DEF WritesHeld, ActiveHeld
<1>6. StateHeld(x, G)'
  BY DEF WritesHeld, StateHeld, Moves
<1>7. RevisionHeld(x, G)'
  BY DEF WritesHeld, RevisionHeld, Changes
<1>8. BranchHeld(x, G)'
  BY <1>2 DEF WritesHeld, BranchHeld
<1>9. LandHeld(G)'
  BY DEF WritesHeld, LandHeld
<1>10. ReleaseHeld(s, x, G)'
  BY DEF WritesHeld, ReleaseHeld
<1> QED BY <1>3, <1>4, <1>5, <1>6, <1>7, <1>8, <1>9, <1>10 DEF WritesHeld

\* One declared relation.
LEMMA DeclareStands ==
  ASSUME TypeOK, LinkInv, LockInv, NEW s \in Sessions, SessionInv(s), DeclareItem(s)
  PROVE  \/ Finish(s, "refused")
         \/ /\ SessionInv(s)' /\ UNCHANGED tables
            /\ \E rows, log : Progress(s, rows, log)
<1> DEFINE item == Head(txn[s].items)
           c == txn[s].card
           k == LinkKey(c, item.other, item.rel)
           seen == Overlay(w[s].links, links)
           new == LinkWritten(seen, k, TRUE)
           lock == CardLock(item.other)
           told == RelationLog("linked", k, c, None)
           merged == Merged(new, w[s].links)
           rows == [w[s] EXCEPT !.links = merged]
<1>1. txn[s].phase = "items" /\ txn[s].call.cmd # "release"
  BY DEF DeclareItem
<1>2. /\ TablesOK /\ WritesOK(w[s]) /\ c \in Cards /\ item \in LinkItem
      /\ txn[s].call \in Calls
  BY <1>1, ItemType
<1>3. item.other \in Cards /\ item.rel \in RelationNames /\ links \in LinkTable
      /\ Rows(w[s].links, LinkKeys, LinkStatus)
  BY <1>2 DEF LinkItem, TablesOK, WritesOK
<1>4. seen \in LinkTable
  BY <1>3, OverlayType DEF Rows
<1>5. SUFFICES ASSUME item.other # c, Exists(item.other), Free(lock, s),
                      owner' = [owner EXCEPT ![lock] = s],
                      \/ LinkStands(seen, k, TRUE) /\ NextItem(s, w[s], <<>>)
                      \/ NextItem(s, rows, told)
               PROVE  /\ SessionInv(s)' /\ UNCHANGED tables
                      /\ \E a, b : Progress(s, a, b)
  BY Zenon DEF DeclareItem
<1> HIDE DEF item
<1>6. /\ Writable(k, TRUE) /\ k \in LinkKeys /\ k[1] # k[2]
      /\ {k[1], k[2]} = {c, item.other}
  <2>1. Writable(k, TRUE) /\ {k[1], k[2]} = {c, item.other}
    <3> HIDE DEF c
    <3> QED BY <1>2, <1>3, <1>5, LinkKeyWritable, LinkKeyPair DEF c
  <2> QED BY <2>1 DEF Writable
<1> HIDE DEF k, seen
<1>7. /\ Rows(new, LinkKeys, LinkStatus) /\ Overlay(new, seen)[k] = "declared"
  BY <1>4, <1>6, WrittenTable DEF Rows
<1> HIDE DEF new
<1>8. Overlay(merged, links) = Overlay(new, seen) /\ Rows(merged, LinkKeys, LinkStatus)
  BY <1>3, <1>7, OverlayMerged, MergedType DEF seen
<1> HIDE DEF merged
<1>9. WritesOK(rows) /\ rows.events = w[s].events /\ rows.links = merged
      /\ rows.cards = w[s].cards /\ rows.branches = w[s].branches /\ rows.refs = w[s].refs
  BY <1>2, <1>8, WrittenRows DEF WritesOK
<1>10. /\ SeqsFit(s) /\ CallStands(s) /\ Written(s)
  BY <1>1 DEF SessionInv, Written
<1>11. /\ told \in Seq(Event) /\ Fresh(told)
       /\ \A e \in Entries(told) :
             /\ e \in Event /\ e.card \in {c, item.other} /\ e.type = "linked"
             /\ e.ref = None /\ e.cardType = None /\ e.key = None
  <2>1. RelationTold(told, "linked", k, c, None)
    BY <1>6, RelationLogTells
  <2> HIDE DEF told
  <2> QED BY <1>6, <2>1 DEF RelationTold
<1> HIDE DEF told
<1>12. NewItem(s, told) /\ NewItem(s, <<>>)
  <2>1. \A e \in Entries(told) : LinkNews(e)
    BY <1>11 DEF LinkNews
  <2>2. <<>> \in Seq(Event) /\ Fresh(<<>>) /\ Entries(<<>>) = {}
    BY DEF Fresh, Entries
  <2> QED BY <1>11, <2>1, <2>2 DEF NewItem
<1>13. PICK a, log :
         /\ NextItem(s, a, log) /\ WritesOK(a) /\ a.events = w[s].events
         /\ a.cards = w[s].cards /\ a.branches = w[s].branches /\ a.refs = w[s].refs
         /\ Overlay(a.links, links)[k] = "declared"
         /\ log \in {told, <<>>}
  <2>1. LinkStands(seen, k, TRUE) => Overlay(w[s].links, links)[k] = "declared"
    BY DEF LinkStands, seen
  <2> HIDE DEF rows
  <2> QED BY <1>2, <1>5, <1>7, <1>8, <1>9, <2>1
<1>14. /\ Progress(s, a, log) /\ SameCall(s) /\ Written(s)' /\ CallStands(s)'
       /\ SeqsFit(s)' /\ UNCHANGED tables
       /\ \E x, E : /\ x = Wrote(s) /\ E = Telling(s) /\ E \in SUBSET Event
                    /\ WritesHeld(s, x, E) /\ WritesHeld(s, x, E)'
                    /\ Telling(s)' = E \cup Entries(log)
  <2>1. NewItem(s, log)
    BY <1>12, <1>13
  <2> QED BY <1>1, <1>5, <1>13, <2>1, ItemGoesOn DEF lock
<1>15. PICK x, E : /\ x = Wrote(s) /\ E = Telling(s) /\ E \in SUBSET Event
                   /\ WritesHeld(s, x, E) /\ WritesHeld(s, x, E)'
                   /\ Telling(s)' = E \cup Entries(log)
  BY <1>14
<1>16. \A e \in Entries(log) :
         /\ e \in Event /\ e.card \in {c, item.other} /\ e.type = "linked"
         /\ e.ref = None /\ e.cardType = None /\ e.key = None
  BY <1>11, <1>13 DEF Entries
<1>a. PICK d \in Cards, h \in Cards : d = item.other /\ h = c
  BY <1>2, <1>3
<1>17. Owns(s, h)' /\ Owns(s, d)'
  <2>1. CardLock(d) \in Locks /\ owner \in [Locks -> Sessions \cup {None}]
    BY DEF Locks, TypeOK
  <2>2. owner'[CardLock(d)] = s
    BY <1>5, <1>a, <2>1
  <2>3. cards' = cards
    BY <1>14 DEF tables
  <2>4. Owns(s, d)'
    BY <1>5, <1>a, <2>2, <2>3 DEF Owns, Exists
  <2>5. txn[s].call.cmd # "release" /\ txn[s].phase # "idle" /\ txn[s].locks = <<>>
    BY <1>1 DEF LockInv, LocksTaken
  <2>6. Owns(s, h)
    BY <1>10, <1>a, <2>5, OwnsCall
  <2>7. owner[CardLock(h)] = s => owner'[CardLock(h)] = s
    BY <1>5, <1>a, <2>1
  <2>8. owner[ScopeLock] = s => owner'[ScopeLock] = s
    BY <1>5, <2>1
  <2>9. Owns(s, h)'
    BY <1>14, <2>3, <2>6, <2>7, <2>8 DEF Owns, Exists, SameCall, Creates
  <2> QED BY <2>4, <2>9
<1>18. WritesHeld(s, x, E \cup Entries(log))'
  <2> DEFINE F == Entries(log)
  <2>1. \A e \in F : /\ Owns(s, e.card)' /\ e.type = "linked" /\ e.key = None
                     /\ e.ref = None /\ e.cardType = None
    <3>1. ASSUME NEW e \in F
          PROVE  /\ Owns(s, e.card)' /\ e.type = "linked" /\ e.key = None
                 /\ e.ref = None /\ e.cardType = None
      <4>1. e.card = h \/ e.card = d
        BY <1>16, <1>a
      <4>2. Owns(s, e.card)'
        BY <1>17, <4>1
      <4> QED BY <1>16, <4>2
    <3> QED BY <3>1
  <2>2. txn'[s].call.cmd # "release"
    BY <1>1, <1>14 DEF SameCall
  <2> HIDE DEF F
  <2>3. WritesHeld(s, x, E \cup F)'
    BY <1>15, <2>1, <2>2, MoreNews
  <2> QED BY <2>3 DEF F
<1>19. Wrote(s)' = Wrote(s) /\ w'[s].links = a.links
  BY <1>13, <1>14 DEF Wrote, Progress
<1>20. BirthHeld(s)'
  <2>1. EverDeclared(Overlay(w'[s].links, links'), c)
    <3>1. links' = links
      BY <1>14 DEF tables
    <3> HIDE DEF c
    <3> QED BY <1>6, <1>13, <1>19, <3>1 DEF EverDeclared
  <2>2. Declares(txn[s].call)
    BY <1>1, ItemType
  <2> QED BY <1>14, <2>1, <2>2 DEF BirthHeld, SameCall, Declares, Creates, EverDeclared, Overlay
<1>21. SessionInv(s)'
  BY <1>14, <1>15, <1>18, <1>19, <1>20 DEF SessionInv
<1> QED BY <1>14, <1>21

\* A release marks a card it had not, as its observer checked it.
Marks(s, x, E, c, e) ==
    LET q == txn[s].call
    IN  /\ q.cmd = "release" /\ q.key = None
        /\ Owns(s, c) /\ Exists(c) /\ ~cards[c].archived
        /\ e.card = c /\ e.type = "released" /\ e.version = q.version
        /\ e.key = None /\ e.ref = None /\ e.cardType = None
        /\ \A f \in events : f.type = "released" /\ f.card = c => f.version # e.version
        /\ q.checked => LandingSeq(c) = txn[s].seen[c]
        /\ c \notin DOMAIN x.cards /\ \A f \in E : f.card # c

\* A waiting card may be done with its release.
MarksRow(x, y, c, e, F) ==
    /\ y.branches = x.branches /\ y.refs = x.refs
    /\ \/ F = {e} /\ y.cards = x.cards
       \/ /\ DOMAIN y.cards = DOMAIN x.cards \cup {c}
          /\ \A d \in DOMAIN x.cards : y.cards[d] = x.cards[d]
          /\ SameIdentity(y.cards[c], cards[c]) /\ y.cards[c].state = "done"
          /\ y.cards[c].revision = cards[c].revision /\ cards[c].state = "waiting"
          /\ \E m : /\ F = {e, m}
                    /\ m.card = c /\ m.type = "moved" /\ m.key = None /\ m.ref = None
                    /\ m.cardType = None /\ m.to = "done"

\* A card marked so joins the rows of a release.
LEMMA MoreReleased ==
  ASSUME NEW s, NEW x, NEW E, NEW c \in Cards, NEW e, NEW y, NEW F, WritesHeld(s, x, E)',
         Marks(s, x, E, c, e)', MarksRow(x, y, c, e, F)'
  PROVE  WritesHeld(s, y, E \cup F)'
<1> DEFINE G == E \cup F
<1>1. /\ \A f \in F : /\ f.card = c /\ f.key = None /\ f.ref = None /\ f.cardType = None
                      /\ f = e \/ f.type = "moved"
      /\ e \in F
      /\ \A f \in F : f.type = "moved" => /\ c \in DOMAIN y.cards /\ f.to = y.cards[c].state
      /\ c \in DOMAIN y.cards => \E f \in F : f.type = "moved"
      /\ c \in DOMAIN y.cards => /\ SameIdentity(y.cards[c], cards[c])' /\ y.cards[c].state = "done"
                                 /\ y.cards[c].revision = cards'[c].revision
                                 /\ cards'[c].state = "waiting"
      /\ DOMAIN x.cards \subseteq DOMAIN y.cards
      /\ \A d \in DOMAIN y.cards : (d \in DOMAIN x.cards /\ d # c) \/ d = c
      /\ \A d \in DOMAIN x.cards : y.cards[d] = x.cards[d] /\ d # c
      /\ \A f \in E : f.card # c
  BY DEF Marks, MarksRow
<1>2. None \notin Branches /\ \A f \in G : f \in E \/ f \in F
  BY BoardAssumption
<1>3. E \subseteq G /\ F \subseteq G
  OBVIOUS
<1> HIDE DEF G
<1>a. /\ y.branches = x.branches /\ y.refs = x.refs
      /\ Owns(s, c)' /\ Exists(c)' /\ ~cards'[c].archived
      /\ e.card = c /\ e.type = "released" /\ e.version = txn'[s].call.version
      /\ \A f \in events' : f.type = "released" /\ f.card = c => f.version # e.version
      /\ txn'[s].call.checked => LandingSeq(c)' = txn'[s].seen[c]
      /\ txn'[s].call.cmd = "release" /\ txn'[s].call.key = None
  BY DEF Marks, MarksRow
<1>4. RowsHeld(s, y, G)'
  <2>1. \A d \in Touched(y) : d \in Touched(x) \/ d = c
    BY <1>1, <1>a DEF Touched
  <2>2. \A d \in Touched(y) : d \in Cards /\ Owns(s, d)' /\ ~cards'[d].archived
    BY <1>a, <2>1 DEF WritesHeld, RowsHeld, Touched
  <2>3. \A d \in DOMAIN y.cards : RowFits(d, y.cards[d])'
    <3>1. ASSUME NEW d \in DOMAIN y.cards PROVE RowFits(d, y.cards[d])'
      <4>1. CASE d # c
        BY <1>1, <4>1 DEF WritesHeld, RowsHeld
      <4>2. CASE d = c
        BY <1>1, <1>a, <4>2 DEF RowFits, SameIdentity, Exists
      <4> QED BY <4>1, <4>2
    <3> QED BY <3>1
  <2>4. ASSUME NEW f \in G
        PROVE  /\ Owns(s, f.card)'
               /\ f.type \notin {"linked", "unlinked"} => ~cards'[f.card].archived
               /\ \A g \in events' :
                    f.type = "released" /\ g.type = "released" /\ g.card = f.card
                       => g.version # f.version
    BY <1>1, <1>2, <1>a DEF WritesHeld, RowsHeld
  <2> QED BY <2>2, <2>3, <2>4 DEF RowsHeld, Touched
<1>5. KeysHeld(s, y, G)'
  BY <1>a, <1>1, <1>2, <1>3 DEF WritesHeld, KeysHeld, Creates
<1>6. \A d : BranchesWith(y, d)' = BranchesWith(x, d)'
  BY <1>a DEF BranchesWith
<1>7. ActiveHeld(y, G)'
  BY <1>a, <1>1, <1>3, <1>6 DEF WritesHeld, ActiveHeld
<1>8. StateHeld(y, G)'
  BY <1>a, <1>1, <1>2, <1>3 DEF WritesHeld, StateHeld, Moves
<1>9. RevisionHeld(y, G)'
  BY <1>a, <1>1, <1>2, <1>3 DEF WritesHeld, RevisionHeld, Changes
<1>10. BranchHeld(y, G)'
  BY <1>a, <1>1, <1>2, <1>3, <1>6 DEF WritesHeld, BranchHeld
<1>11. LandHeld(G)'
  BY <1>a, <1>1, <1>2 DEF WritesHeld, LandHeld
<1>12. ReleaseHeld(s, y, G)'
  BY <1>a, <1>1, <1>2, <1>3 DEF WritesHeld, ReleaseHeld
<1> QED BY <1>4, <1>5, <1>7, <1>8, <1>9, <1>10, <1>11, <1>12 DEF WritesHeld, G

\* One card of a release.
LEMMA ReleaseItemStands ==
  ASSUME TypeOK, LockInv, NEW s \in Sessions, SessionInv(s), ReleaseItem(s)
  PROVE  /\ SessionInv(s)' /\ UNCHANGED tables
         /\ \E rows, log : Progress(s, rows, log)
<1> DEFINE q == txn[s].call
           c == Head(txn[s].items)
           r == cards[c]
           done == txn[s].policy = "record_and_move_done" /\ r.state = "waiting"
           row == [r EXCEPT !.state = "done"]
           finished == [d \in {c} |-> row]
           C == IF done THEN Merged(finished, w[s].cards) ELSE w[s].cards
           e == [Ev(c, "released") EXCEPT !.version = q.version]
           m == [Ev(c, "moved") EXCEPT !.to = "done"]
           log == <<e>> \o (IF done THEN <<m>> ELSE <<>>)
           rows == [w[s] EXCEPT !.cards = C]
<1>1. /\ txn[s].phase = "items" /\ q.cmd = "release"
  BY DEF ReleaseItem
<1>2. /\ TablesOK /\ WritesOK(w[s]) /\ c \in Cards /\ q \in Calls /\ q.key = None
      /\ q.version \in Versions /\ r \in CardRow
  BY <1>1, ItemType, KeylessCalls, Arguments DEF TablesOK
<1>3. txn[s].tail = <<>> /\ SeqsFit(s) /\ CallStands(s) /\ Written(s)
  BY <1>1 DEF SessionInv, CallStands, Written
<1>4. Entries(txn[s].tail) = {} /\ Entries(<<>>) = {} /\ Fresh(<<>>) /\ <<>> \in Seq(Event)
  BY <1>3 DEF Entries, Fresh
<1>5. \/ /\ NextItem(s, w[s], <<>>)
         /\ \/ owner' = owner
            \/ Free(CardLock(c), s) /\ owner' = [owner EXCEPT ![CardLock(c)] = s]
      \/ /\ Exists(c) /\ ~r.archived /\ Free(CardLock(c), s)
         /\ owner' = [owner EXCEPT ![CardLock(c)] = s]
         /\ ~ReleaseSkips(s, c) /\ NextItem(s, rows, log)
  BY Zenon DEF ReleaseItem
<1>6. ASSUME BirthHeld(s)'
      PROVE  ~Creates(q)
  BY <1>1 DEF Creates
<1>7. CASE /\ NextItem(s, w[s], <<>>)
           /\ \/ owner' = owner
              \/ Free(CardLock(c), s) /\ owner' = [owner EXCEPT ![CardLock(c)] = s]
  <2>1. NewItem(s, <<>>)
    BY <1>4 DEF NewItem
  <2>2. /\ Progress(s, w[s], <<>>) /\ SameCall(s) /\ Written(s)' /\ CallStands(s)'
        /\ SeqsFit(s)' /\ UNCHANGED tables
        /\ \E x, E : /\ x = Wrote(s) /\ E = Telling(s) /\ E \in SUBSET Event
                     /\ WritesHeld(s, x, E) /\ WritesHeld(s, x, E)'
                     /\ Telling(s)' = E \cup Entries(<<>>)
    <3> HIDE DEF c
    <3> QED BY <1>1, <1>2, <1>7, <2>1, ItemGoesOn
  <2>3. Wrote(s)' = Wrote(s)
    BY <2>2 DEF Wrote, Progress
  <2>4. BirthHeld(s)'
    BY <1>1, <2>2 DEF BirthHeld, SameCall, Creates
  <2>5. \E x, E : x = Wrote(s)' /\ E = Telling(s)' /\ WritesHeld(s, x, E)'
    <3>1. PICK x, E : /\ x = Wrote(s) /\ WritesHeld(s, x, E)'
                      /\ Telling(s)' = E \cup Entries(<<>>)
      BY <2>2
    <3>2. Telling(s)' = E
      BY <1>4, <3>1
    <3> QED BY <2>3, <3>1, <3>2
  <2> QED BY <2>2, <2>4, <2>5 DEF SessionInv
<1>8. CASE /\ Exists(c) /\ ~r.archived /\ Free(CardLock(c), s)
           /\ owner' = [owner EXCEPT ![CardLock(c)] = s]
           /\ ~ReleaseSkips(s, c) /\ NextItem(s, rows, log)
  <2>1. /\ e \in Event /\ e.seq = 0 /\ e.card = c /\ e.type = "released" /\ e.key = None
        /\ e.ref = None /\ e.cardType = None /\ e.version = q.version
        /\ m \in Event /\ m.seq = 0 /\ m.card = c /\ m.type = "moved" /\ m.key = None
        /\ m.ref = None /\ m.cardType = None /\ m.to = "done"
    <3>1. Ev(c, "released") \in Event /\ Ev(c, "moved") \in Event
      BY <1>2, EvType DEF EventTypes
    <3>2. e \in Event
      BY <1>2, <3>1, EventColumn
    <3>3. m \in Event
      <4>1. "done" \in CardStates \cup {None}
        BY DEF CardStates
      <4> QED BY <3>1, <4>1, EventColumn
    <3> QED BY <3>2, <3>3 DEF Ev
  <2>2. SameIdentity(row, r) /\ row.state = "done" /\ row.revision = r.revision
        /\ row \in CardRow
    <3> HIDE DEF r
    <3>1. r \in CardRow
      BY <1>2
    <3>2. row \in CardRow
      BY <3>1 DEF CardRow, CardStates
    <3>3. row.number = r.number /\ row.key = r.key /\ row.loop = r.loop
          /\ row.revision = r.revision /\ row.state = "done"
      BY <3>1 DEF CardRow
    <3> QED BY <3>2, <3>3 DEF SameIdentity
  <2>3. /\ Rows(C, Cards, CardRow)
        /\ done => /\ DOMAIN C = DOMAIN w[s].cards \cup {c} /\ C[c] = row
                   /\ \A d \in DOMAIN w[s].cards : d # c => C[d] = w[s].cards[d]
        /\ ~done => C = w[s].cards
    <3>1. Rows(finished, Cards, CardRow) /\ Rows(w[s].cards, Cards, CardRow)
          /\ DOMAIN finished = {c} /\ finished[c] = row
      BY <1>2, <2>2, OneRow DEF WritesOK
    <3> HIDE DEF finished
    <3>2. Rows(Merged(finished, w[s].cards), Cards, CardRow)
      BY <3>1, MergedType
    <3> HIDE DEF done
    <3> QED BY <3>1, <3>2 DEF Merged
  <2> HIDE DEF C, row, e, m
  <2>4. /\ WritesOK(rows) /\ rows.events = w[s].events /\ rows.cards = C
        /\ rows.branches = w[s].branches /\ rows.refs = w[s].refs
    BY <1>2, <2>3, WrittenRows DEF WritesOK
  <2>5. \A f \in w[s].events : ~(/\ f.card = c /\ f.type = "released"
                                 /\ f.version = q.version)
    BY <1>8 DEF ReleaseSkips
  <2>6. /\ \A f \in events : f.type = "released" /\ f.card = c => f.version # q.version
        /\ q.checked => LandingSeq(c) = txn[s].seen[c]
    BY <1>8 DEF ReleaseSkips
  <2>7. ASSUME NEW x, NEW E, E = Telling(s), WritesHeld(s, x, E)
        PROVE  /\ \A f \in E : f.card # c
               /\ c \notin DOMAIN x.cards
               /\ \A f \in w[s].events : f.card # c
    <3>1. E = {Plain(f) : f \in w[s].events}
      BY <1>4, <2>7 DEF Telling, Pending
    <3>2. \A f \in w[s].events : /\ Plain(f).card = f.card /\ Plain(f).type = f.type
                                 /\ Plain(f).version = f.version /\ Plain(f) \in E
      BY <1>2, <3>1, PlainColumns DEF WritesOK
    <3>3. \A f \in E : ~(f.card = c /\ f.type = "released" /\ f.version = q.version)
      BY <2>5, <3>1, <3>2
    <3>4. \A f \in E : f.card # c
      BY <1>1, <2>7, <3>3 DEF WritesHeld, ReleaseHeld
    <3>5. c \notin DOMAIN x.cards
      BY <1>1, <2>7, <3>4 DEF WritesHeld, ReleaseHeld
    <3> QED BY <3>2, <3>4, <3>5
  <2>8. \A f \in w[s].events : f.card # c
    BY <1>3, <2>7 DEF SessionInv
  <2> DEFINE F == {e} \cup (IF done THEN {m} ELSE {})
  <2>9. log \in Seq(Event) /\ Fresh(log) /\ Entries(log) = F
    <3>1. CASE done
      <4>1. e # m /\ log = <<e>> \o <<m>>
        BY <2>1, <3>1
      <4> HIDE DEF done, log
      <4> QED BY <2>1, <3>1, <4>1, TwoEvents
    <3>2. CASE ~done
      <4>1. log = <<e>> \o <<>> /\ <<e>> \in Seq(Event) /\ Fresh(<<e>>) /\ Entries(<<e>>) = {e}
        BY <2>1, <3>2, OneEvent
      <4> HIDE DEF done, log
      <4>2. log = <<e>>
        BY <4>1, EntriesOf
      <4> QED BY <3>2, <4>1, <4>2
    <3> QED BY <3>1, <3>2
  <2> HIDE DEF log, rows
  <2>10. NewItem(s, log)
    <3>1. \A f \in w[s].events : Plain(f).card = f.card
      BY <1>2, PlainColumns DEF WritesOK
    <3>2. \A f \in Entries(log) : f.card = c
      BY <2>1, <2>9
    <3> HIDE DEF F
    <3> QED BY <1>4, <2>8, <2>9, <3>1, <3>2 DEF NewItem
  <2>11. /\ Progress(s, rows, log) /\ SameCall(s) /\ Written(s)' /\ CallStands(s)'
         /\ SeqsFit(s)' /\ UNCHANGED tables
         /\ \E x, E : /\ x = Wrote(s) /\ E = Telling(s) /\ E \in SUBSET Event
                      /\ WritesHeld(s, x, E) /\ WritesHeld(s, x, E)'
                      /\ Telling(s)' = E \cup Entries(log)
    <3> HIDE DEF c
    <3> QED BY <1>1, <1>8, <2>4, <2>10, ItemGoesOn
  <2>12. PICK x, E : /\ x = Wrote(s) /\ E = Telling(s) /\ E \in SUBSET Event
                     /\ WritesHeld(s, x, E) /\ WritesHeld(s, x, E)'
                     /\ Telling(s)' = E \cup Entries(log)
    BY <2>11
  <2>13. PICK y : y = Wrote(s)'
    OBVIOUS
  <2>14. /\ y.cards = C /\ y.branches = x.branches /\ y.refs = x.refs
         /\ x.cards = w[s].cards
    BY <2>4, <2>11, <2>12, <2>13 DEF Wrote, Progress
  <2>15. PICK d \in Cards : d = c
    BY <1>2
  <2>a. PICK G, a, b : G = F /\ a = e /\ b = m
    OBVIOUS
  <2>16. WritesHeld(s, y, E \cup G)' /\ E \cup G = Telling(s)'
    <3>2. txn'[s].call = q /\ txn'[s].seen = txn[s].seen /\ cards' = cards /\ events' = events
      BY <2>11 DEF SameCall, tables
    <3>3. /\ Exists(d)' /\ ~cards'[d].archived
          /\ Owns(s, d)'
      <4>1. CardLock(d) \in Locks /\ owner \in [Locks -> Sessions \cup {None}]
        BY DEF Locks, TypeOK
      <4>2. owner'[CardLock(d)] = s
        BY <1>8, <2>15, <4>1
      <4> QED BY <1>8, <2>15, <3>2, <4>2 DEF Owns, Exists
    <3>4. /\ \A f \in events' : f.type = "released" /\ f.card = d => f.version # a.version
          /\ (txn'[s].call.checked => LandingSeq(d)' = txn'[s].seen[d])
      <4>1. LandingSeq(d)' = LandingSeq(d)
        BY <3>2 DEF LandingSeq
      <4> QED BY <2>1, <2>6, <2>15, <2>a, <3>2, <4>1
    <3>5. d \notin DOMAIN x.cards /\ \A f \in E : f.card # d
      BY <2>7, <2>12, <2>15
    <3>6. /\ a.card = d /\ a.type = "released" /\ a.key = None /\ a.ref = None
          /\ a.cardType = None /\ a.version = txn'[s].call.version
          /\ txn'[s].call.cmd = "release" /\ txn'[s].call.key = None
      BY <1>1, <1>2, <2>1, <2>15, <2>a, <3>2
    <3>7. MarksRow(x, y, d, a, G)'
      <4>1. CASE ~done
        BY <2>3, <2>14, <2>a, <4>1 DEF MarksRow
      <4>2. CASE done
        <5>1. /\ DOMAIN y.cards = DOMAIN x.cards \cup {d} /\ y.cards[d] = row
              /\ \A o \in DOMAIN x.cards : y.cards[o] = x.cards[o]
              /\ cards'[d] = r /\ r.state = "waiting"
          BY <2>3, <2>14, <2>15, <3>2, <3>5, <4>2
        <5>2. SameIdentity(y.cards[d], cards[d])'
          BY <2>2, <5>1 DEF SameIdentity
        <5>3. G = {a, b}
          BY <2>a, <4>2
        <5>4. /\ b.card = d /\ b.type = "moved" /\ b.key = None /\ b.ref = None
              /\ b.cardType = None /\ b.to = "done"
          BY <2>1, <2>15, <2>a
        <5> HIDE DEF done, row, r
        <5> QED BY <2>2, <2>14, <5>1, <5>2, <5>3, <5>4 DEF MarksRow
      <4> QED BY <4>1, <4>2
    <3>8. Marks(s, x, E, d, a)'
      BY <3>3, <3>4, <3>5, <3>6 DEF Marks
    <3>9. WritesHeld(s, y, E \cup G)'
      BY <2>12, <3>7, <3>8, MoreReleased
    <3>10. E \cup G = Telling(s)'
      BY <2>9, <2>12, <2>a
    <3> QED BY <3>9, <3>10
  <2>17. BirthHeld(s)'
    BY <1>1, <2>11 DEF BirthHeld, SameCall, Creates
  <2>18. \E x0, E0 : x0 = Wrote(s)' /\ E0 = Telling(s)' /\ WritesHeld(s, x0, E0)'
    BY <2>13, <2>16
  <2> QED BY <2>11, <2>17, <2>18 DEF SessionInv
<1> QED BY <1>5, <1>7, <1>8

-----------------------------------------------------------------------------
(* The other sessions. *)

\* Two sessions never own the same card.
LEMMA OwnedByOne ==
  ASSUME NEW s, NEW r, NEW d, Owns(s, d), Owns(r, d)
  PROVE  s = r
  BY DEF Owns

\* A step that commits nothing leaves the others as they were.
LEMMA OthersQuiet ==
  ASSUME TypeOK, LinkInv, LockInv, NEW s \in Sessions, UNCHANGED tables, OthersKeep(s),
         NEW r \in Sessions \ {s}, SessionInv(r),
         Creates(txn[r].call) /\ txn[r].phase # "idle" => txn'[s].card # txn[r].card
  PROVE  SessionInv(r)'
<1>1. /\ txn'[r] = txn[r] /\ w'[r] = w[r] /\ cards' = cards /\ events' = events
      /\ branches' = branches /\ links' = links
      /\ \A l \in Locks : owner'[l] = r <=> owner[l] = r
      /\ \A p \in Sessions \ {s} : txn'[p] = txn[p]
  BY DEF OthersKeep, tables
<1>2. Leaves(r)
  BY <1>1 DEF Leaves, SameIdentity
<1>3. CallStands(r)'
  <2>1. CallStands(r)
    BY DEF SessionInv
  <2> QED BY <1>1, <2>1 DEF CallStands, Creates, Exists
<1> QED BY <1>1, <1>2, <1>3, OthersStand

\* A session at rest holds its part.
LEMMA RestStands ==
  ASSUME NEW s, txn'[s] = Idle, w'[s] = NoWrites
  PROVE  SessionInv(s)'
<1>1. CallStands(s)' /\ ~Written(s)' /\ txn'[s].phase = "idle"
  BY DEF CallStands, Written, Idle
<1>2. w'[s].events = {}
  BY DEF NoWrites
<1>3. SeqsFit(s)'
  BY <1>1, <1>2 DEF SeqsFit, Numbered
<1> QED BY <1>1, <1>3 DEF SessionInv

\* The part of the invariant about the tables.
HistoryHeld ==
    /\ RowsApart /\ EventsOnCards /\ SeqsApart /\ OpenRows
    /\ CardFollowsHistory /\ LandingRecordedOnce
    /\ \A e, f \in events : e.card = f.card /\ e.key # None /\ e.key = f.key => e = f

\* It stands as long as the tables do.
LEMMA HistoryKept ==
  ASSUME HistoryHeld, UNCHANGED tables
  PROVE  HistoryHeld'
<1>1. cards' = cards /\ events' = events /\ branches' = branches
  BY DEF tables
<1>2. RowsApart' /\ EventsOnCards' /\ SeqsApart' /\ OpenRows'
  <2>1. RowsApart' /\ EventsOnCards'
    BY <1>1 DEF HistoryHeld, RowsApart, EventsOnCards, Exists
  <2>2. SeqsApart' /\ OpenRows'
    BY <1>1 DEF HistoryHeld, SeqsApart, OpenRows, Exists
  <2> QED BY <2>1, <2>2
<1>3. CardFollowsHistory'
  <2> USE DEF Exists
  <2>1. StateFollowsHistory <=> StateFollowsHistory'
    BY <1>1 DEF StateFollowsHistory, Latest
  <2>2. RevisionCountsChanges <=> RevisionCountsChanges'
    BY <1>1 DEF RevisionCountsChanges
  <2>3. BranchFollowsHistory <=> BranchFollowsHistory'
    BY <1>1 DEF BranchFollowsHistory, Latest, NoBranch, OpenBranch
  <2> QED BY <2>1, <2>2, <2>3 DEF HistoryHeld, CardFollowsHistory
<1>4. LandingRecordedOnce'
  BY <1>1 DEF HistoryHeld, LandingRecordedOnce
<1>5. \A e, f \in events' : e.card = f.card /\ e.key # None /\ e.key = f.key => e = f
  BY <1>1 DEF HistoryHeld
<1> QED BY <1>2, <1>3, <1>4, <1>5 DEF HistoryHeld

\* The invariant is the part about the tables, the answers and the sessions.
LEMMA BoardInvParts ==
  BoardInv <=> /\ HistoryHeld
               /\ \A x \in retried : x[2] # "ok"
               /\ \A s \in Sessions : SessionInv(s)
  BY DEF BoardInv, HistoryHeld, KeyAppliedOnce

-----------------------------------------------------------------------------
(* A commit. *)

\* The rows and the events a call publishes, with what its invariant says of
\* them.
Publishes(s, x, E) ==
    /\ x = Wrote(s) /\ E = Telling(s) /\ E \in SUBSET Event /\ WritesHeld(s, x, E)
    /\ \A d \in Cards :
          /\ cards'[d] = IF d \in DOMAIN x.cards THEN x.cards[d] ELSE cards[d]
          /\ branches'[d] = BranchesWith(x, d)
          /\ refs'[d] = IF d \in DOMAIN x.refs THEN x.refs[d] ELSE refs[d]
    /\ Touched(x) \subseteq Cards
    /\ events' = events \cup w[s].events
    /\ \A e \in w[s].events :
          /\ e \in Event /\ Plain(e) \in E
          /\ Owns(s, e.card) /\ e.card \in Cards /\ e \notin events
          /\ \A f \in events : f.card = e.card => f.seq < e.seq
    /\ \A g \in E : \E e \in w[s].events : g = Plain(e)
    /\ \A e, f \in w[s].events :
          /\ e.card = f.card /\ e.seq = f.seq => e = f
          /\ Plain(e) = Plain(f) /\ ~LinkNews(e) => e = f
    /\ Creates(txn[s].call) => txn[s].card \in Cards /\ ~Exists(txn[s].card)

\* A commit publishes what the call wrote and told.
LEMMA CommitPublishes ==
  ASSUME TypeOK, NEW s \in Sessions, SessionInv(s), Commit(s)
  PROVE  \E x, E : Publishes(s, x, E)
<1>1. txn[s].phase = "commit" /\ Written(s)
  BY DEF Commit, Written
<1>2. PICK x, E : x = Wrote(s) /\ E = Telling(s) /\ WritesHeld(s, x, E)
  BY <1>1 DEF SessionInv
<1>3. /\ E \in SUBSET Event /\ E = {Plain(e) : e \in w[s].events}
      /\ \A e \in w[s].events : Plain(e) \in E /\ e \in Event
  BY <1>1, <1>2, TellingType
<1>4. \A d \in Cards :
         /\ cards'[d] = IF d \in DOMAIN x.cards THEN x.cards[d] ELSE cards[d]
         /\ branches'[d] = BranchesWith(x, d)
         /\ refs'[d] = IF d \in DOMAIN x.refs THEN x.refs[d] ELSE refs[d]
  BY <1>2 DEF Commit, Wrote, Overlay, BranchesWith, TypeOK, TablesOK
<1>5. Touched(x) \subseteq Cards
  BY <1>2 DEF WritesHeld, RowsHeld
<1>6. events' = events \cup w[s].events
  BY DEF Commit
<1>7. Numbered(w[s].events)
  BY DEF SessionInv, SeqsFit
<1>8. ASSUME NEW e \in w[s].events
      PROVE  /\ e \in Event /\ Plain(e) \in E
             /\ Owns(s, e.card) /\ e.card \in Cards /\ e \notin events
             /\ \A f \in events : f.card = e.card => f.seq < e.seq
  <2>1. e \in Event /\ Plain(e) \in E /\ Plain(e).card = e.card
    BY <1>3, PlainColumns
  <2>2. Owns(s, e.card)
    BY <1>2, <2>1 DEF WritesHeld, RowsHeld
  <2>3. \A f \in events : f.card = e.card => f.seq < e.seq
    BY <1>7 DEF Numbered
  <2>4. e.seq \in Nat /\ e.card \in Cards
    BY <2>1 DEF Event
  <2> QED BY <2>1, <2>2, <2>3, <2>4
<1>9. \A e, f \in w[s].events :
         /\ e.card = f.card /\ e.seq = f.seq => e = f
         /\ Plain(e) = Plain(f) /\ ~LinkNews(e) => e = f
  BY <1>7 DEF Numbered
<1>10. Creates(txn[s].call) => txn[s].card \in Cards /\ ~Exists(txn[s].card)
  BY <1>1 DEF SessionInv, CallStands
<1>11. \A g \in E : \E e \in w[s].events : g = Plain(e)
  BY <1>3
<1> QED BY <1>2, <1>3, <1>4, <1>5, <1>6, <1>8, <1>9, <1>10, <1>11 DEF Publishes

\* A published event has the columns of the one the call held.
LEMMA PublishedEvent ==
  ASSUME NEW s, NEW x, NEW E, Publishes(s, x, E), NEW e \in w[s].events
  PROVE  /\ e \in Event /\ Plain(e) \in E
         /\ Plain(e).card = e.card /\ Plain(e).type = e.type /\ Plain(e).key = e.key
         /\ Plain(e).to = e.to /\ Plain(e).cardType = e.cardType
         /\ Plain(e).ref = e.ref /\ Plain(e).sha = e.sha /\ Plain(e).note = e.note
         /\ Plain(e).linksNote = e.linksNote /\ Plain(e).version = e.version
         /\ Moves(Plain(e)) <=> Moves(e)
         /\ Changes(Plain(e)) <=> Changes(e)
         /\ Said(Plain(e)) = Said(e)
<1>1. e \in Event /\ Plain(e) \in E
  BY DEF Publishes
<1> QED BY <1>1, PlainColumns, PlainKinds

\* A card there was keeps its number and its keys; the only other one a commit
\* may open is the one it is about.
LEMMA PublishedCards ==
  ASSUME NEW s, NEW x, NEW E, Publishes(s, x, E)
  PROVE  /\ \A d \in Cards : Exists(d) => SameIdentity(cards'[d], cards[d]) /\ Exists(d)'
         /\ \A d \in Cards : ~Exists(d) /\ d \in DOMAIN x.cards =>
               /\ d = txn[s].card /\ Creates(txn[s].call) /\ owner[ScopeLock] = s
               /\ RowFits(d, x.cards[d]) /\ Exists(d)'
         /\ \A d \in Cards : d \notin DOMAIN x.cards => cards'[d] = cards[d]
<1>1. \A d \in Cards : cards'[d] = IF d \in DOMAIN x.cards THEN x.cards[d] ELSE cards[d]
  BY DEF Publishes
<1>2. \A d \in DOMAIN x.cards : RowFits(d, x.cards[d]) /\ Owns(s, d)
  BY DEF Publishes, WritesHeld, RowsHeld, Touched
<1>3. \A d \in Cards : Exists(d) => SameIdentity(cards'[d], cards[d]) /\ Exists(d)'
  BY <1>1, <1>2 DEF RowFits, SameIdentity, Exists
<1>4. \A d \in Cards : ~Exists(d) /\ d \in DOMAIN x.cards =>
               /\ d = txn[s].card /\ Creates(txn[s].call) /\ owner[ScopeLock] = s
               /\ RowFits(d, x.cards[d]) /\ Exists(d)'
  BY <1>1, <1>2 DEF RowFits, Exists, Owns
<1> QED BY <1>1, <1>3, <1>4

\* A commit leaves alone the cards of the others.
LEMMA CommitLeaves ==
  ASSUME NEW s \in Sessions, NEW x, NEW E, Publishes(s, x, E), OthersKeep(s),
         NEW r \in Sessions \ {s}
  PROVE  Leaves(r)
<1>1. \A l \in Locks : owner'[l] = r <=> owner[l] = r
  BY DEF OthersKeep
<1>2. \A d \in Cards : Owns(r, d) => ~Owns(s, d)
  BY OwnedByOne
<1>3. ASSUME NEW d \in Cards, Owns(r, d)
      PROVE  /\ cards'[d] = cards[d] /\ branches'[d] = branches[d]
             /\ \A e \in events \cup events' : e.card = d => (e \in events' <=> e \in events)
  <2>1. d \notin Touched(x)
    BY <1>2, <1>3 DEF Publishes, WritesHeld, RowsHeld
  <2>2. \A e \in w[s].events : e.card # d
    BY <1>2, <1>3 DEF Publishes
  <2>3. events' = events \cup w[s].events
    BY DEF Publishes
  <2> QED BY <2>1, <2>2, <2>3 DEF Publishes, Touched, BranchesWith
<1>4. \A d \in Cards : Exists(d) => SameIdentity(cards'[d], cards[d])
  BY PublishedCards
<1>5. ASSUME owner[ScopeLock] = r, NEW d \in Cards
      PROVE  SameIdentity(cards'[d], cards[d])
  <2>1. Exists(d) \/ d \notin DOMAIN x.cards
    BY <1>5, PublishedCards
  <2> QED BY <1>4, <2>1, PublishedCards DEF SameIdentity
<1> QED BY <1>1, <1>3, <1>4, <1>5 DEF Leaves

\* The links change only under the links lock.
LEMMA CommitLinksAlone ==
  ASSUME TypeOK, LinkInv, NEW s \in Sessions, Commit(s), NEW r \in Sessions \ {s},
         owner[LinksLock] = r
  PROVE  UNCHANGED links
<1>1. w[s].links = NoRows
  BY DEF LinkInv
<1>2. links \in LinkTable /\ links' = Overlay(w[s].links, links)
  BY DEF TypeOK, TablesOK, Commit
<1> QED BY <1>1, <1>2, OverlayNothing

\* So what the others wrote still stands.
LEMMA CommitOthersStand ==
  ASSUME TypeOK, LinkInv, LockInv, NEW s \in Sessions, SessionInv(s), Commit(s),
         NEW r \in Sessions \ {s}, SessionInv(r)
  PROVE  SessionInv(r)'
<1>1. PICK x, E : Publishes(s, x, E)
  BY CommitPublishes
<1>2. OthersKeep(s) /\ txn'[s] = Idle
  BY EndEffect DEF Commit
<1>3. txn'[r] = txn[r] /\ w'[r] = w[r]
  BY <1>2 DEF OthersKeep
<1>4. Leaves(r)
  BY <1>1, <1>2, CommitLeaves
<1>5. CallStands(r)'
  <2>1. CallStands(r)
    BY DEF SessionInv
  <2>2. \A p \in Sessions : txn'[p] = txn[p] \/ txn'[p] = Idle
    BY <1>2 DEF OthersKeep
  <2>3. Idle.card = 0 /\ 0 \notin Cards
    BY CardsAssumption DEF Idle
  <2>4. \A d \in Cards : Exists(d) => Exists(d)'
    BY <1>1, PublishedCards
  <2>5. ASSUME txn[r].phase # "idle", Creates(txn[r].call)
        PROVE  ~Exists(txn[r].card)'
    <3>1. txn[r].card \in Cards /\ ~Exists(txn[r].card) /\ txn[s].card # txn[r].card
      BY <2>1, <2>5 DEF CallStands
    <3>2. txn[r].card \notin DOMAIN x.cards
      BY <1>1, <3>1, PublishedCards
    <3>3. cards'[txn[r].card] = cards[txn[r].card]
      BY <1>1, <3>1, <3>2, PublishedCards
    <3> QED BY <1>3, <3>1, <3>3 DEF Exists
  <2>6. ASSUME txn[r].phase # "idle", ~Creates(txn[r].call), txn[r].call.cmd # "release"
        PROVE  txn[r].card = txn[r].call.card /\ Exists(txn[r].call.card)'
    <3>1. txn[r].card = txn[r].call.card /\ Exists(txn[r].call.card)
      BY <2>1, <2>6 DEF CallStands
    <3>2. txn[r].card \in Cards
      BY <2>6, CallKinds DEF TypeOK, TxnOK
    <3> QED BY <1>3, <2>4, <3>1, <3>2
  <2>7. ASSUME txn[r].phase # "idle", txn[r].call.cmd \in RelationCommands
        PROVE  Exists(txn[r].call.other)'
    <3>1. Exists(txn[r].call.other)
      BY <2>1, <2>7 DEF CallStands
    <3>2. txn[r].call \in Calls
      BY <2>7 DEF TypeOK, TxnOK
    <3>3. txn[r].call.other \in Cards
      BY <2>7, <3>2, CallKinds DEF LinkCalls
    <3> QED BY <1>3, <2>4, <3>1, <3>3
  <2>8. ASSUME txn[r].phase # "idle", Creates(txn[r].call)
        PROVE  \A p \in Sessions \ {r} : txn'[p].card # txn[r].card
    BY <2>1, <2>2, <2>3, <2>8 DEF CallStands
  <2>9. txn[r].phase # "idle" /\ Creates(txn[r].call) => txn[r].card \in Cards
    BY <2>1 DEF CallStands
  <2>10. txn[r].phase # "idle" => /\ txn[r].phase = "locking" => txn[r].items = ItemsOf(txn[r].call)
                                  /\ txn[r].call.cmd = "release" => txn[r].tail = <<>>
    BY <2>1 DEF CallStands
  <2>11. ItemsOf(txn[r].call)' = ItemsOf(txn[r].call)
    BY <1>3 DEF ItemsOf, Declares
  <2> QED BY <1>3, <2>5, <2>6, <2>7, <2>8, <2>9, <2>10, <2>11 DEF CallStands, Creates, Exists
<1>6. owner[LinksLock] = r => UNCHANGED links
  BY CommitLinksAlone
<1> QED BY <1>3, <1>4, <1>5, <1>6, OthersStand

\* A commit leaves the cards apart, its events on cards and numbered.
LEMMA CommitRows ==
  ASSUME TypeOK, HistoryHeld, NEW s, NEW x, NEW E, Publishes(s, x, E)
  PROVE  RowsApart' /\ EventsOnCards' /\ SeqsApart' /\ OpenRows'
<1>1. RowsApart /\ EventsOnCards /\ SeqsApart /\ OpenRows
  BY DEF HistoryHeld
<1>2. \A d \in Cards : Exists(d) => SameIdentity(cards'[d], cards[d]) /\ Exists(d)'
  BY PublishedCards
<1>3. \A d \in Cards : ~Exists(d) =>
         \/ cards'[d] = NoCard /\ ~Exists(d)'
         \/ /\ d = txn[s].card /\ Exists(d)'
            /\ \A o \in Cards : Apart(cards'[d], cards[o])
  <2>1. ASSUME NEW d \in Cards, ~Exists(d), d \notin DOMAIN x.cards
        PROVE  cards'[d] = NoCard /\ ~Exists(d)'
    BY <1>1, <2>1, PublishedCards DEF RowsApart, Exists
  <2>2. ASSUME NEW d \in Cards, ~Exists(d), d \in DOMAIN x.cards
        PROVE  d = txn[s].card /\ Exists(d)' /\ \A o \in Cards : Apart(cards'[d], cards[o])
    BY <2>2, PublishedCards DEF RowFits, Publishes
  <2> QED BY <2>1, <2>2
<1>4. \A c, d \in Cards : Exists(c) /\ c # d => Apart(cards[c], cards[d])
  BY <1>1 DEF RowsApart
<1>5. \A r, o, u, v : SameIdentity(r, u) /\ SameIdentity(o, v) /\ Apart(u, v) => Apart(r, o)
  BY DEF SameIdentity, Apart
<1>6. \A r, o : Apart(r, o) => Apart(o, r)
  BY DEF Apart
<1>7. NoCard.number = 0 /\ NoCard.key = None /\ NoCard.loop = None
  BY DEF NoCard
<1>8. ASSUME NEW c \in Cards, NEW d \in Cards, Exists(c)', c # d
      PROVE  Apart(cards'[c], cards'[d])
  <2>1. SameIdentity(cards'[c], cards'[c]) /\ SameIdentity(cards'[d], cards'[d])
    BY DEF SameIdentity
  <2>2. CASE Exists(c) /\ Exists(d)
    BY <1>2, <1>4, <1>5, <1>8, <2>2
  <2>3. CASE Exists(c) /\ ~Exists(d)
    <3>1. CASE cards'[d] = NoCard
      <4>1. cards[d] = NoCard
        BY <1>1, <2>3 DEF RowsApart
      <4> QED BY <1>2, <1>4, <1>5, <1>8, <2>1, <2>3, <3>1, <4>1
    <3>2. CASE \A o \in Cards : Apart(cards'[d], cards[o])
      BY <1>2, <1>5, <1>6, <2>1, <2>3, <3>2
    <3> QED BY <1>3, <2>3, <3>1, <3>2
  <2>4. CASE ~Exists(c)
    <3>1. c = txn[s].card /\ \A o \in Cards : Apart(cards'[c], cards[o])
      BY <1>3, <1>8, <2>4
    <3>2. CASE Exists(d)
      BY <1>2, <1>5, <2>1, <3>1, <3>2
    <3>3. CASE ~Exists(d)
      <4>1. cards'[d] = NoCard /\ cards[d] = NoCard
        BY <1>1, <1>3, <1>8, <3>1, <3>3 DEF RowsApart
      <4> QED BY <3>1, <4>1
    <3> QED BY <3>2, <3>3
  <2> QED BY <2>2, <2>3, <2>4
<1>9. RowsApart'
  <2>1. \A c \in Cards : ~Exists(c)' => cards'[c] = NoCard
    BY <1>2, <1>3
  <2> QED BY <1>8, <2>1 DEF RowsApart
<1>10. EventsOnCards'
  <2>1. ASSUME NEW e \in w[s].events
        PROVE  Exists(e.card)'
    <3>1. Owns(s, e.card) /\ e.card \in Cards
      BY DEF Publishes
    <3>2. CASE ~Exists(e.card)
      <4>1. e.card = txn[s].card /\ Creates(txn[s].call)
        BY <3>1, <3>2 DEF Owns
      <4>2. e.card \in DOMAIN x.cards
        BY <4>1 DEF Publishes, WritesHeld, KeysHeld
      <4> QED BY <3>1, <3>2, <4>2, PublishedCards
    <3> QED BY <1>2, <3>1, <3>2
  <2>2. events' = events \cup w[s].events /\ events \in SUBSET Event
    BY DEF Publishes, TypeOK, TablesOK
  <2> QED BY <1>1, <1>2, <2>1, <2>2 DEF EventsOnCards, Event
<1>11. SeqsApart'
  <2>1. events' = events \cup w[s].events
    BY DEF Publishes
  <2>2. ASSUME NEW e \in w[s].events, NEW f \in events, e.card = f.card
        PROVE  e.seq # f.seq
    BY <2>2 DEF Publishes, Event
  <2>3. \A e, f \in w[s].events : e.card = f.card /\ e.seq = f.seq => e = f
    BY DEF Publishes
  <2> QED BY <1>1, <2>1, <2>2, <2>3 DEF SeqsApart
<1>12. OpenRows'
  <2>1. ASSUME NEW d \in Cards, NEW b \in Branches, branches'[d][b].state = "open"
        PROVE  branches'[d][b] = OpenBranch
    <3>1. branches'[d][b] = BranchesWith(x, d)[b]
      BY DEF Publishes
    <3>2. CASE \E e \in E : e.card = d /\ e.ref = b
      <4>1. PICK e \in E : e.card = d /\ e.ref = b
        BY <3>2
      <4>2. Said(e) = branches'[d][b]
        BY <3>1, <4>1 DEF Publishes, WritesHeld, BranchHeld
      <4> QED BY <2>1, <4>2 DEF Said, NoBranch, OpenBranch
    <3>3. CASE \A e \in E : e.card = d => e.ref # b
      <4>1. branches'[d][b] = branches[d][b]
        BY <3>1, <3>3 DEF Publishes, WritesHeld, BranchHeld
      <4> QED BY <1>1, <2>1, <4>1 DEF OpenRows
    <3> QED BY <3>2, <3>3
  <2> QED BY <2>1 DEF OpenRows, OpenBranch
<1> QED BY <1>9, <1>10, <1>11, <1>12

\* The last of some events is one of those that come after all the others.
LEMMA LatestOfMore ==
  ASSUME NEW F \in SUBSET Event, NEW G \in SUBSET Event, IsFiniteSet(G), G # {},
         \A f \in F, g \in G : f.seq < g.seq
  PROVE  Latest(F \cup G) \subseteq G /\ Latest(F \cup G) # {}
<1>1. PICK g \in G : g \in Latest(G)
  BY LatestThere
<1>2. \A e \in F \cup G : e.seq \in Nat
  BY DEF Event
<1>3. g \in Latest(F \cup G)
  BY <1>1, <1>2 DEF Latest
<1>4. \A f \in F : f \notin Latest(F \cup G)
  BY <1>2 DEF Latest
<1>5. Latest(F \cup G) \subseteq F \cup G
  BY DEF Latest
<1> QED BY <1>3, <1>4, <1>5

\* The state told by the stream of a card is the one written.
LEMMA CommitState ==
  ASSUME TypeOK, HistoryHeld, NEW s \in Sessions, NEW x, NEW E, Publishes(s, x, E)
  PROVE  StateFollowsHistory'
<1> SUFFICES ASSUME NEW c \in Cards, Exists(c)'
             PROVE  {e.to : e \in Latest({e \in events' : e.card = c /\ Moves(e)})}
                       = {cards'[c].state}
  BY DEF StateFollowsHistory, Moves, Latest, Exists
<1> DEFINE F == {e \in events : e.card = c /\ Moves(e)}
           G == {e \in w[s].events : e.card = c /\ Moves(e)}
<1>1. /\ {e \in events' : e.card = c /\ Moves(e)} = F \cup G
      /\ F \in SUBSET Event /\ G \in SUBSET Event /\ IsFiniteSet(G)
      /\ \A f \in F, g \in G : f.seq < g.seq
  <2>1. events' = events \cup w[s].events /\ events \in SUBSET Event
        /\ w[s].events \in SUBSET Event /\ IsFiniteSet(w[s].events)
    BY DEF Publishes, TypeOK, TablesOK, WritesOK
  <2>2. \A e \in w[s].events, f \in events : f.card = e.card => f.seq < e.seq
    BY DEF Publishes
  <2> QED BY <2>1, <2>2, FS_Subset
<1>2. CASE G = {}
  <2>1. \A e \in E : e.card = c => ~Moves(e)
    <3>1. ASSUME NEW g \in E, g.card = c, Moves(g)
          PROVE  FALSE
      <4>1. PICK e \in w[s].events : g = Plain(e)
        BY DEF Publishes
      <4>2. e.card = c /\ Moves(e)
        BY <3>1, <4>1, PublishedEvent
      <4> QED BY <1>2, <4>2
    <3> QED BY <3>1
  <2>2. Exists(c) /\ cards'[c].state = cards[c].state
    <3>1. CASE c \in DOMAIN x.cards
      BY <2>1, <3>1 DEF Publishes, WritesHeld, StateHeld
    <3>2. CASE c \notin DOMAIN x.cards
      BY <3>2, PublishedCards DEF Exists
    <3> QED BY <3>1, <3>2
  <2>3. {e.to : e \in Latest(F)} = {cards[c].state}
    BY <2>2 DEF HistoryHeld, CardFollowsHistory, StateFollowsHistory, Moves
  <2> QED BY <1>1, <1>2, <2>2, <2>3
<1>3. CASE G # {}
  <2> HIDE DEF F
  <2>1. Latest(F \cup G) \subseteq G /\ Latest(F \cup G) # {}
    <3> HIDE DEF G
    <3> QED BY <1>1, <1>3, LatestOfMore
  <2>2. ASSUME NEW e \in G
        PROVE  e.to = cards'[c].state
    <3>1. Plain(e) \in E /\ Plain(e).card = c /\ Plain(e).to = e.to /\ Moves(Plain(e))
      BY PublishedEvent
    <3>2. c \in DOMAIN x.cards /\ e.to = x.cards[c].state
      BY <3>1 DEF Publishes, WritesHeld, StateHeld
    <3> QED BY <3>2 DEF Publishes
  <2> HIDE DEF G
  <2> QED BY <1>1, <2>1, <2>2
<1> QED BY <1>2, <1>3

\* The revision written counts the changes told.
LEMMA CommitRevision ==
  ASSUME TypeOK, HistoryHeld, NEW s \in Sessions, NEW x, NEW E, Publishes(s, x, E)
  PROVE  RevisionCountsChanges'
<1> SUFFICES ASSUME NEW c \in Cards, Exists(c)'
             PROVE  cards'[c].revision
                       = 1 + Cardinality({e \in events' : e.card = c /\ Changes(e)})
  BY DEF RevisionCountsChanges, Changes, Exists
<1> DEFINE F == {e \in events : e.card = c /\ Changes(e)}
           G == {e \in w[s].events : e.card = c /\ Changes(e)}
<1>1. {e \in events' : e.card = c /\ Changes(e)} = F \cup G
  BY DEF Publishes
<1>2. IsFiniteSet(F) /\ Cardinality(F) \in Nat /\ \A g \in G : g \notin F
  <2>1. IsFiniteSet(F)
    BY FS_Subset DEF TypeOK, TablesOK
  <2> QED BY <2>1, FS_CardinalityType DEF Publishes
<1>3. Exists(c) => cards[c].revision = 1 + Cardinality(F)
  BY DEF HistoryHeld, CardFollowsHistory, RevisionCountsChanges, Changes
<1>4. ~Exists(c) => Cardinality(F) = 0
  <2>1. ~Exists(c) => F = {}
    BY DEF HistoryHeld, EventsOnCards
  <2> QED BY <2>1, FS_EmptySet
<1>5. CASE G = {}
  <2>1. \A e \in E : e.card = c => ~Changes(e)
    <3>1. ASSUME NEW g \in E, g.card = c, Changes(g)
          PROVE  FALSE
      <4>1. PICK e \in w[s].events : g = Plain(e)
        BY DEF Publishes
      <4>2. e.card = c /\ Changes(e)
        BY <3>1, <4>1, PublishedEvent
      <4> QED BY <1>5, <4>2
    <3> QED BY <3>1
  <2>2. CASE c \in DOMAIN x.cards
    <3>1. x.cards[c].revision = IF Exists(c) THEN cards[c].revision ELSE 1
      BY <2>1, <2>2 DEF Publishes, WritesHeld, RevisionHeld
    <3>2. cards'[c].revision = x.cards[c].revision
      BY <2>2 DEF Publishes
    <3>3. F \cup G = F
      BY <1>5
    <3>4. cards'[c].revision = 1 + Cardinality(F)
      <4> HIDE DEF F
      <4> QED BY <1>3, <1>4, <3>1, <3>2
    <3> HIDE DEF F, G
    <3> QED BY <1>1, <3>3, <3>4
  <2>3. CASE c \notin DOMAIN x.cards
    <3>1. cards'[c] = cards[c] /\ Exists(c)
      BY <2>3, PublishedCards DEF Exists
    <3> QED BY <1>1, <1>3, <1>5, <3>1
  <2> QED BY <2>2, <2>3
<1>6. CASE G # {}
  <2>1. PICK e \in G : TRUE
    BY <1>6
  <2>2. Plain(e) \in E /\ Plain(e).card = c /\ Changes(Plain(e))
    BY PublishedEvent
  <2>3. /\ c \in DOMAIN x.cards /\ Exists(c)
        /\ x.cards[c].revision = cards[c].revision + 1
    BY <2>2 DEF Publishes, WritesHeld, RevisionHeld
  <2>4. ASSUME NEW f \in G
        PROVE  f = e
    <3>1. Plain(f) \in E /\ Plain(f).card = c /\ Changes(Plain(f))
      BY PublishedEvent
    <3>2. Plain(f) = Plain(e)
      BY <2>2, <3>1 DEF Publishes, WritesHeld, RevisionHeld
    <3>3. ~LinkNews(f)
      BY DEF LinkNews, Changes
    <3> QED BY <3>2, <3>3 DEF Publishes
  <2>5. F \cup G = F \cup {e} /\ e \notin F
    BY <1>2, <2>4
  <2>6. Cardinality(F \cup {e}) = Cardinality(F) + 1
    <3> HIDE DEF F
    <3> QED BY <1>2, <2>5, FS_AddElement
  <2>7. cards'[c].revision = cards[c].revision + 1
    BY <2>3 DEF Publishes
  <2> HIDE DEF F, G
  <2>8. cards'[c].revision = 1 + Cardinality(F \cup {e})
    BY <1>2, <1>3, <2>3, <2>6, <2>7
  <2> QED BY <1>1, <2>5, <2>8
<1> QED BY <1>5, <1>6

\* The branch told by the stream of a card is the one written.
LEMMA CommitBranch ==
  ASSUME TypeOK, HistoryHeld, NEW s \in Sessions, NEW x, NEW E, Publishes(s, x, E)
  PROVE  BranchFollowsHistory'
<1> DEFINE Last(c, b) == Latest({e \in events : e.card = c /\ e.ref = b})
<1>a. ASSUME BranchFollowsHistory, NEW c \in Cards, NEW b \in Branches
      PROVE  {Said(e) : e \in Last(c, b)} = IF Last(c, b) = {} THEN {} ELSE {branches[c][b]}
  BY <1>a DEF BranchFollowsHistory, Said
<1> SUFFICES ASSUME NEW c \in Cards, NEW b \in Branches
             PROVE  LET last == Latest({e \in events' : e.card = c /\ e.ref = b})
                    IN  {Said(e) : e \in last}
                          = IF last = {} THEN {} ELSE {branches'[c][b]}
  BY DEF BranchFollowsHistory, Said, Latest, NoBranch, OpenBranch
<1> DEFINE F == {e \in events : e.card = c /\ e.ref = b}
           G == {e \in w[s].events : e.card = c /\ e.ref = b}
<1>1. /\ {e \in events' : e.card = c /\ e.ref = b} = F \cup G
      /\ F \in SUBSET Event /\ G \in SUBSET Event /\ IsFiniteSet(G)
      /\ \A f \in F, g \in G : f.seq < g.seq
  <2>1. events' = events \cup w[s].events /\ events \in SUBSET Event
        /\ w[s].events \in SUBSET Event /\ IsFiniteSet(w[s].events)
    BY DEF Publishes, TypeOK, TablesOK, WritesOK
  <2>2. \A e \in w[s].events, f \in events : f.card = e.card => f.seq < e.seq
    BY DEF Publishes
  <2> QED BY <2>1, <2>2, FS_Subset
<1>2. branches'[c][b] = BranchesWith(x, c)[b]
  BY DEF Publishes
<1>3. CASE G = {}
  <2>1. \A e \in E : e.card = c => e.ref # b
    <3>1. ASSUME NEW g \in E, g.card = c, g.ref = b
          PROVE  FALSE
      <4>1. PICK e \in w[s].events : g = Plain(e)
        BY DEF Publishes
      <4>2. e.card = c /\ e.ref = b
        BY <3>1, <4>1, PublishedEvent
      <4> QED BY <1>3, <4>2
    <3> QED BY <3>1
  <2>2. branches'[c][b] = branches[c][b]
    BY <1>2, <2>1 DEF Publishes, WritesHeld, BranchHeld
  <2>3. {Said(e) : e \in Latest(F)} = IF Latest(F) = {} THEN {} ELSE {branches[c][b]}
    BY <1>a DEF HistoryHeld, CardFollowsHistory
  <2> QED BY <1>1, <1>3, <2>2, <2>3
<1>4. CASE G # {}
  <2> HIDE DEF F
  <2>1. Latest(F \cup G) \subseteq G /\ Latest(F \cup G) # {}
    <3> HIDE DEF G
    <3> QED BY <1>1, <1>4, LatestOfMore
  <2>2. ASSUME NEW e \in G
        PROVE  Said(e) = branches'[c][b]
    <3>1. Plain(e) \in E /\ Plain(e).card = c /\ Plain(e).ref = b /\ Said(Plain(e)) = Said(e)
      BY PublishedEvent
    <3>2. Said(Plain(e)) = BranchesWith(x, c)[b]
      BY <3>1 DEF Publishes, WritesHeld, BranchHeld
    <3> QED BY <1>2, <3>1, <3>2
  <2> HIDE DEF G
  <2> QED BY <1>1, <2>1, <2>2
<1> QED BY <1>3, <1>4

\* A landing is told once, and a key is put on one event of a card.
LEMMA CommitTold ==
  ASSUME TypeOK, HistoryHeld, NEW s \in Sessions, NEW x, NEW E, Publishes(s, x, E),
         ~KeyClash(s)
  PROVE  /\ LandingRecordedOnce'
         /\ \A e, f \in events' : e.card = f.card /\ e.key # None /\ e.key = f.key => e = f
<1>1. events' = events \cup w[s].events
  BY DEF Publishes
<1>2. \A e \in w[s].events, f \in events : f.card = e.card => f.seq < e.seq
  BY DEF Publishes
<1>3. \A e \in events \cup w[s].events : e.seq \in Nat
  BY DEF TypeOK, TablesOK, Publishes, Event
<1>4. ASSUME NEW e \in events', NEW f \in events', e.type = "landed", f.type = "landed",
             e.card = f.card, e.ref = f.ref, e.seq < f.seq, SameSha(e.sha, f.sha)
      PROVE  \E g \in events' : /\ g.card = e.card /\ g.ref = e.ref
                                /\ g.type = "detached"
                                /\ e.seq < g.seq /\ g.seq < f.seq
  <2>1. CASE e \in events /\ f \in events
    BY <1>1, <1>4, <2>1 DEF HistoryHeld, LandingRecordedOnce
  <2>2. CASE e \in events /\ f \in w[s].events
    <3>1. /\ Plain(f) \in E /\ Plain(f).type = "landed" /\ Plain(f).card = f.card
          /\ Plain(f).ref = f.ref /\ Plain(f).sha = f.sha
      BY <1>4, <2>2, PublishedEvent
    <3>2. PICK g \in events : /\ g.card = e.card /\ g.ref = e.ref
                              /\ g.type = "detached" /\ e.seq < g.seq
      BY <1>4, <2>2, <3>1 DEF Publishes, WritesHeld, LandHeld
    <3>3. g.seq < f.seq
      BY <1>2, <1>4, <2>2, <3>2
    <3> QED BY <1>1, <3>2, <3>3
  <2>3. CASE e \in w[s].events /\ f \in events
    <3>1. f.seq < e.seq
      BY <1>2, <1>4, <2>3
    <3> QED BY <1>1, <1>3, <1>4, <3>1
  <2>4. CASE e \in w[s].events /\ f \in w[s].events
    <3>1. /\ Plain(f) \in E /\ Plain(f).type = "landed"
          /\ Plain(e) \in E /\ Plain(e).type = "landed"
      BY <1>4, <2>4, PublishedEvent
    <3>2. Plain(e) = Plain(f)
      BY <3>1 DEF Publishes, WritesHeld, LandHeld
    <3>3. e = f
      BY <1>4, <2>4, <3>2 DEF Publishes, LinkNews
    <3> QED BY <1>1, <1>3, <1>4, <3>3
  <2> QED BY <1>1, <2>1, <2>2, <2>3, <2>4
<1>5. LandingRecordedOnce'
  BY <1>4 DEF LandingRecordedOnce, SameSha
<1>6. ASSUME NEW e \in events', NEW f \in events', e.card = f.card, e.key # None,
             e.key = f.key
      PROVE  e = f
  <2>1. CASE e \in events /\ f \in events
    BY <1>6, <2>1 DEF HistoryHeld
  <2>2. CASE e \in events /\ f \in w[s].events
    BY <1>6, <2>2 DEF KeyClash
  <2>3. CASE e \in w[s].events /\ f \in events
    BY <1>6, <2>3 DEF KeyClash
  <2>4. CASE e \in w[s].events /\ f \in w[s].events
    <3>1. /\ Plain(f) \in E /\ Plain(f).key # None
          /\ Plain(e) \in E /\ Plain(e).key # None
      BY <1>6, <2>4, PublishedEvent
    <3>2. Plain(e) = Plain(f)
      BY <3>1 DEF Publishes, WritesHeld, KeysHeld
    <3> QED BY <1>6, <2>4, <3>2 DEF Publishes, LinkNews
  <2> QED BY <1>1, <2>1, <2>2, <2>3, <2>4
<1> QED BY <1>5, <1>6

\* A call that reaches its commit, and no index refuses its key, has a key that
\* had no effect yet.
LEMMA KeyStillNew ==
  ASSUME TypeOK, NEW s \in Sessions, SessionInv(s), txn[s].phase = "commit", ~KeyClash(s)
  PROVE  ~KeyOnRecord(txn[s].call, txn[s].card)
<1> DEFINE q == txn[s].call
           c == txn[s].card
<1> SUFFICES ASSUME KeyOnRecord(q, c)
             PROVE  FALSE
  OBVIOUS
<1>1. PICK x, E : x = Wrote(s) /\ E = Telling(s) /\ WritesHeld(s, x, E)
  BY DEF SessionInv, Written
<1>2. q.key # None
  BY DEF KeyOnRecord
<1>3. CASE Creates(q)
  <2>1. PICK d \in Cards : cards[d].key = q.key
    BY <1>3 DEF KeyOnRecord, Creates
  <2>2. c \in DOMAIN x.cards /\ x.cards[c].key = q.key /\ ~Exists(c) /\ c \in Cards
    BY <1>1, <1>3 DEF WritesHeld, KeysHeld, SessionInv, CallStands
  <2>3. Apart(x.cards[c], cards[d])
    BY <1>1, <2>1, <2>2 DEF WritesHeld, RowsHeld, RowFits
  <2> QED BY <1>2, <2>1, <2>2, <2>3 DEF Apart
<1>4. CASE ~Creates(q)
  <2>1. PICK f \in events : f.card = c /\ f.key = q.key
    BY <1>4 DEF KeyOnRecord, Creates, KeyUsed
  <2>2. PICK g \in E : g.card = c /\ g.key = q.key
    BY <1>1, <1>2, <1>4 DEF WritesHeld, KeysHeld
  <2>3. PICK e \in w[s].events : g = Plain(e)
    BY <1>1, TellingType
  <2>4. e.card = c /\ e.key = q.key
    BY <2>2, <2>3, TellingType, PlainColumns
  <2> QED BY <1>2, <2>1, <2>4 DEF KeyClash
<1> QED BY <1>3, <1>4

\* So a commit keeps the invariant.
LEMMA CommitStands ==
  ASSUME TypeOK, LinkInv, LockInv, BoardInv, NEW s \in Sessions, Commit(s)
  PROVE  BoardInv'
<1>1. HistoryHeld /\ \A r \in Sessions : SessionInv(r)
  BY BoardInvParts
<1>2. PICK x, E : Publishes(s, x, E)
  BY <1>1, CommitPublishes
<1>3. ~KeyClash(s) /\ End(s, "ok") /\ Answered(txn[s].call, txn[s].card, "ok")
  BY DEF Commit, End
<1>4. RowsApart' /\ EventsOnCards' /\ SeqsApart' /\ OpenRows'
  BY <1>1, <1>2, CommitRows
<1>5. CardFollowsHistory'
  BY <1>1, <1>2, CommitState, CommitRevision, CommitBranch DEF CardFollowsHistory
<1>6. /\ LandingRecordedOnce'
      /\ \A e, f \in events' : e.card = f.card /\ e.key # None /\ e.key = f.key => e = f
  BY <1>1, <1>2, <1>3, CommitTold
<1>7. retried' = retried
  BY <1>1, <1>3, KeyStillNew DEF Commit, Answered
<1>8. KeyAppliedOnce'
  BY <1>6, <1>7 DEF KeyAppliedOnce, BoardInv
<1>9. SessionInv(s)'
  BY <1>3, EndEffect, RestStands
<1>10. \A r \in Sessions \ {s} : SessionInv(r)'
  BY <1>1, CommitOthersStand
<1> QED BY <1>4, <1>5, <1>6, <1>8, <1>9, <1>10 DEF BoardInv

-----------------------------------------------------------------------------
(* The other steps. *)

\* A step of s that publishes nothing keeps its part, and takes no id that
\* another call is about to open.
Quiet(s) ==
    /\ UNCHANGED tables /\ OthersKeep(s) /\ SessionInv(s)'
    /\ \A x \in retried' : x \in retried \/ x[2] # "ok"
    /\ \A r \in Sessions \ {s} :
          Creates(txn[r].call) /\ txn[r].phase # "idle" => txn'[s].card # txn[r].card

\* Then the others keep theirs.
LEMMA QuietStands ==
  ASSUME TypeOK, LinkInv, LockInv, BoardInv, NEW s \in Sessions, Quiet(s)
  PROVE  BoardInv'
<1>1. HistoryHeld /\ (\A r \in Sessions : SessionInv(r)) /\ \A x \in retried : x[2] # "ok"
  BY BoardInvParts
<1>2. HistoryHeld'
  BY <1>1, HistoryKept DEF Quiet
<1>3. \A r \in Sessions \ {s} : SessionInv(r)'
  BY <1>1, OthersQuiet DEF Quiet
<1>4. \A x \in retried' : x[2] # "ok"
  BY <1>1 DEF Quiet
<1> QED BY <1>2, <1>3, <1>4 DEF Quiet, BoardInv, HistoryHeld, KeyAppliedOnce

\* A call refused, or answered without a change.
LEMMA FinishQuiet ==
  ASSUME TypeOK, BoardInv, NEW s \in Sessions, NEW answer, answer # "ok", Finish(s, answer)
  PROVE  Quiet(s)
<1>1. /\ txn'[s] = Idle /\ w'[s] = NoWrites /\ OthersKeep(s) /\ UNCHANGED tables
  BY EndEffect DEF Finish
<1>2. SessionInv(s)'
  BY <1>1, RestStands
<1>3. \A x \in retried' : x \in retried \/ x[2] # "ok"
  BY DEF Finish, End, Answered
<1>4. ASSUME NEW r \in Sessions \ {s}, Creates(txn[r].call), txn[r].phase # "idle"
      PROVE  txn'[s].card # txn[r].card
  <2>1. txn[r].card \in Cards
    BY <1>4 DEF BoardInv, SessionInv, CallStands
  <2> QED BY <1>1, <2>1, CardsAssumption DEF Idle
<1> QED BY <1>1, <1>2, <1>3, <1>4 DEF Quiet

\* A call that goes on.
LEMMA ProgressQuiet ==
  ASSUME BoardInv, NEW s \in Sessions, SessionInv(s)', NEW rows, NEW log,
         Progress(s, rows, log)
  PROVE  Quiet(s)
<1>1. /\ UNCHANGED tables /\ OthersKeep(s) /\ retried' = retried
      /\ txn'[s].card = txn[s].card
  BY DEF Progress, callers
<1>2. \A r \in Sessions \ {s} :
          Creates(txn[r].call) /\ txn[r].phase # "idle" => txn'[s].card # txn[r].card
  BY <1>1 DEF BoardInv, SessionInv, CallStands
<1> QED BY <1>1, <1>2 DEF Quiet

\* A lock taken.
LEMMA TakeLockQuiet ==
  ASSUME TypeOK, LockInv, BoardInv, NEW s \in Sessions, TakeLock(s)
  PROVE  Quiet(s)
<1>1. /\ txn[s].phase = "locking" /\ w'[s] = w[s]
      /\ txn'[s] = [txn[s] EXCEPT !.locks = Tail(txn[s].locks)]
      /\ UNCHANGED tables /\ retried' = retried /\ OthersKeep(s)
  BY TakeLockEffect DEF callers
<1>2. /\ txn'[s].phase = txn[s].phase /\ txn'[s].call = txn[s].call
      /\ txn'[s].card = txn[s].card /\ txn'[s].items = txn[s].items
      /\ txn'[s].tail = txn[s].tail
  BY <1>1
<1>3. w[s] = NoWrites
  BY <1>1 DEF LockInv, LocksTaken
<1>4. CallStands(s)'
  <2>1. CallStands(s)
    BY DEF BoardInv, SessionInv
  <2>2. cards' = cards /\ \A r \in Sessions \ {s} : txn'[r] = txn[r]
    BY <1>1 DEF tables, OthersKeep
  <2>3. ItemsOf(txn[s].call)' = ItemsOf(txn[s].call)
    BY <1>2 DEF ItemsOf, Declares
  <2> QED BY <1>2, <2>1, <2>2, <2>3 DEF CallStands, Creates, Exists
<1>5. SessionInv(s)'
  <2>1. w'[s].events = {} /\ ~Written(s)' /\ txn'[s].phase = "locking"
    BY <1>1, <1>2, <1>3 DEF NoWrites, Written
  <2>2. SeqsFit(s)'
    BY <2>1 DEF SeqsFit, Numbered
  <2> QED BY <1>4, <2>1, <2>2 DEF SessionInv
<1>6. \A r \in Sessions \ {s} :
          Creates(txn[r].call) /\ txn[r].phase # "idle" => txn'[s].card # txn[r].card
  BY <1>2 DEF BoardInv, SessionInv, CallStands
<1> QED BY <1>1, <1>5, <1>6 DEF Quiet

\* A call begun, or answered at once.
LEMMA BeginQuiet ==
  ASSUME TypeOK, LockInv, BoardInv, NEW s \in Sessions, Begin(s)
  PROVE  Quiet(s)
<1>1. /\ UNCHANGED tables /\ w' = w /\ OthersKeep(s) /\ txn[s] = Idle
      /\ w[s] = NoWrites /\ cards' = cards
  BY BeginEffect DEF LockInv, LocksTaken, Idle, tables
<1>2. CASE /\ UNCHANGED txn
           /\ \E q \in Calls, c \in Cards \cup {0} :
                 /\ EarlyAnswer(q) # "none"
                 /\ Answered(q, c, EarlyAnswer(q))
  <2>1. \A q : EarlyAnswer(q) # "ok"
    BY DEF EarlyAnswer
  <2>2. \A x \in retried' : x \in retried \/ x[2] # "ok"
    BY <1>2, <2>1 DEF Answered
  <2>3. SessionInv(s)'
    BY <1>1, <1>2, RestStands
  <2>4. \A r \in Sessions \ {s} :
          Creates(txn[r].call) /\ txn[r].phase # "idle" => txn'[s].card # txn[r].card
    BY <1>2 DEF BoardInv, SessionInv, CallStands
  <2> QED BY <1>1, <2>2, <2>3, <2>4 DEF Quiet
<1>3. CASE /\ txn'[s].phase = "locking"
           /\ txn'[s].call \in Calls
           /\ txn'[s].items = ItemsOf(txn'[s].call)
           /\ txn'[s].tail = <<>>
           /\ Target(txn'[s].call, txn'[s].card)
           /\ txn'[s].call.card # 0 => Exists(txn'[s].call.card)
           /\ txn'[s].call.cmd \in RelationCommands => Exists(txn'[s].call.other)
           /\ UNCHANGED retried
  <2> DEFINE q == txn'[s].call
             c == txn'[s].card
  <2>1. Creates(q) => /\ c \in Cards /\ ~Exists(c)
                      /\ \A r \in Sessions : txn[r].card # c
    BY <1>3 DEF Target, Creates
  <2>2. ~Creates(q) => /\ c = q.card
                       /\ q.cmd # "release" => q.card \in Cards
                       /\ q.cmd = "release" => q.card = 0
    <3>1. ~Creates(q) => c = q.card
      BY <1>3 DEF Target, Creates
    <3>2. ~Creates(q) /\ q.cmd # "release" => q.card \in Cards
      BY <1>3, CallKinds DEF Creates
    <3>3. q.cmd = "release" => q.card = 0
      BY <1>3, CallKinds DEF ReleaseCalls
    <3> QED BY <3>1, <3>2, <3>3
  <2>3. ~Creates(q) /\ q.cmd # "release" => Exists(q.card)
    BY <1>3, <2>2, CardsAssumption
  <2>4. CallStands(s)'
    <3>1. ItemsOf(txn[s].call)' = ItemsOf(q)
      BY DEF ItemsOf, Declares
    <3>2. \A r \in Sessions \ {s} : txn'[r] = txn[r]
      BY <1>1 DEF OthersKeep
    <3>3. \A d : Exists(d)' <=> Exists(d)
      BY <1>1 DEF Exists
    <3> QED BY <1>3, <2>1, <2>2, <2>3, <3>1, <3>2, <3>3 DEF CallStands, Creates
  <2>5. SessionInv(s)'
    <3>1. w'[s].events = {} /\ ~Written(s)'
      BY <1>1, <1>3 DEF NoWrites, Written
    <3>2. SeqsFit(s)'
      BY <1>3, <3>1 DEF SeqsFit, Numbered
    <3> QED BY <2>4, <3>1, <3>2 DEF SessionInv
  <2>6. ASSUME NEW r \in Sessions \ {s}, Creates(txn[r].call), txn[r].phase # "idle"
        PROVE  c # txn[r].card
    <3>1. txn[r].card \in Cards /\ ~Exists(txn[r].card)
      BY <2>6 DEF BoardInv, SessionInv, CallStands
    <3> QED BY <2>1, <2>2, <2>3, <3>1, CardsAssumption
  <2> QED BY <1>1, <1>3, <2>5, <2>6 DEF Quiet
<1> QED BY <1>2, <1>3, BeginEffect

\* Every step but a commit is quiet.
LEMMA StepQuiet ==
  ASSUME TypeOK, LinkInv, LockInv, BoardInv, NEW s \in Sessions, Begin(s) \/ Step(s)
  PROVE  Commit(s) \/ Quiet(s)
<1>1. /\ SeqsApart /\ OpenRows /\ RowsApart /\ CardFollowsHistory /\ SessionInv(s)
  BY DEF BoardInv
<1>2. CASE Exec(s)
  <2>1. CASE \E answer \in Answers \ {"ok"} : Finish(s, answer)
    BY <2>1, FinishQuiet
  <2>2. CASE SessionInv(s)' /\ \E rows, log : Progress(s, rows, log)
    BY <2>2, ProgressQuiet
  <2> QED BY <1>1, <1>2, <2>1, <2>2, ExecStands
<1>3. CASE DeclareItem(s)
  <2>1. CASE Finish(s, "refused")
    BY <2>1, FinishQuiet
  <2>2. CASE SessionInv(s)' /\ \E rows, log : Progress(s, rows, log)
    BY <2>2, ProgressQuiet
  <2> QED BY <1>1, <1>3, <2>1, <2>2, DeclareStands
<1>4. CASE ReleaseItem(s)
  <2>1. SessionInv(s)' /\ \E rows, log : Progress(s, rows, log)
    BY <1>1, <1>4, ReleaseItemStands
  <2> QED BY <2>1, ProgressQuiet
<1>5. CASE UniqueViolation(s) \/ DeadlockAbort(s)
  <2>1. Finish(s, "error")
    BY <1>5 DEF UniqueViolation, DeadlockAbort
  <2> QED BY <2>1, FinishQuiet
<1>6. CASE TakeLock(s)
  BY <1>6, TakeLockQuiet
<1>7. CASE Begin(s)
  BY <1>7, BeginQuiet
<1>8. \/ Begin(s) \/ TakeLock(s) \/ Exec(s) \/ DeclareItem(s) \/ ReleaseItem(s)
      \/ Commit(s) \/ UniqueViolation(s) \/ DeadlockAbort(s)
  BY DEF Step
<1> QED BY <1>2, <1>3, <1>4, <1>5, <1>6, <1>7, <1>8

\* The cards there are at the start have different numbers.
LEMMA FirstNumbers ==
  ASSUME NEW c \in OpenCards
  PROVE  /\ FirstNumber(c) # 0
         /\ \A d \in OpenCards : c # d => FirstNumber(c) # FirstNumber(d)
<1> DEFINE B(d) == {o \in OpenCards : o <= d}
<1>1. OpenCards \in SUBSET Nat /\ IsFiniteSet(OpenCards)
  BY BoardAssumption, CardsAssumption, FS_Subset
<1>2. \A d \in OpenCards : IsFiniteSet(B(d)) /\ d \in B(d)
  BY <1>1, FS_Subset
<1>3. FirstNumber(c) # 0
  BY <1>2, FS_EmptySet DEF FirstNumber
<1>4. ASSUME NEW a \in OpenCards, NEW b \in OpenCards, a < b
      PROVE  FirstNumber(a) # FirstNumber(b)
  <2>1. B(a) \in SUBSET B(b) /\ b \notin B(a) /\ b \in B(b)
    <3>1. a \in Nat /\ b \in Nat /\ \A o \in OpenCards : o \in Nat
      BY <1>1
    <3>2. \A o \in OpenCards : o <= a => o <= b
      BY <1>4, <3>1
    <3>3. ~(b <= a) /\ b <= b
      BY <1>4, <3>1
    <3> QED BY <3>2, <3>3
  <2>2. IsFiniteSet(B(b))
    BY <1>2
  <2> HIDE DEF B
  <2>3. Cardinality(B(a)) # Cardinality(B(b))
    BY <2>1, <2>2, FS_Subset
  <2> QED BY <2>3 DEF FirstNumber, B
<1>5. \A d \in OpenCards : c # d => c < d \/ d < c
  BY <1>1
<1> QED BY <1>3, <1>4, <1>5

\* The board at the start.
LEMMA InitStands == Init => BoardInv
<1> SUFFICES ASSUME Init PROVE BoardInv
  OBVIOUS
<1>1. ASSUME NEW c \in Cards
      PROVE  /\ c \notin OpenCards => cards[c] = NoCard
             /\ c \in OpenCards =>
                   /\ cards[c].number = FirstNumber(c) /\ cards[c].state = "idea"
                   /\ cards[c].revision = 1 /\ cards[c].key = None /\ cards[c].loop = None
             /\ \A b \in Branches : branches[c][b] = NoBranch
  BY DEF Init
<1>2. /\ NoCard.number = 0 /\ NoCard.key = None /\ NoCard.loop = None
      /\ NoBranch.state = "none"
  BY DEF NoCard, NoBranch
<1>3. \A c \in Cards : Exists(c) <=> c \in OpenCards
  BY <1>1, <1>2, FirstNumbers DEF Exists
<1> DEFINE first(c) == [Ev(c, "created") EXCEPT !.seq = 1, !.to = "idea",
                                                !.linksNote = c \notin LegacyCards]
<1>4. \A c : /\ first(c).card = c /\ first(c).seq = 1 /\ first(c).type = "created"
             /\ first(c).to = "idea" /\ first(c).key = None /\ first(c).cardType = None
             /\ first(c).ref = None
  BY DEF Ev
<1>5. events = {first(c) : c \in OpenCards}
  BY DEF Init
<1> HIDE DEF first
<1>6. \A e \in events : /\ e.card \in OpenCards /\ e = first(e.card)
                        /\ e.type = "created" /\ e.key = None
                        /\ e.cardType = None /\ e.ref = None /\ e.to = "idea"
  BY <1>4, <1>5
<1>7. OpenCards \subseteq Cards /\ None \notin Branches
  BY BoardAssumption
<1>8. RowsApart
  <2>1. ASSUME NEW c \in Cards, NEW d \in Cards, Exists(c), c # d
        PROVE  Apart(cards[c], cards[d])
    <3>1. cards[c].key = None /\ cards[c].loop = None
      BY <1>1, <1>3, <2>1
    <3>2. cards[c].number # cards[d].number
      <4>1. CASE d \in OpenCards
        BY <1>1, <1>3, <2>1, <4>1, FirstNumbers
      <4>2. CASE d \notin OpenCards
        BY <1>1, <1>2, <2>1, <4>2 DEF Exists
      <4> QED BY <4>1, <4>2
    <3> QED BY <3>1, <3>2 DEF Apart
  <2>2. \A c \in Cards : ~Exists(c) => cards[c] = NoCard
    BY <1>1, <1>3
  <2> QED BY <2>1, <2>2 DEF RowsApart
<1>9. EventsOnCards /\ SeqsApart
  BY <1>3, <1>6, <1>7 DEF EventsOnCards, SeqsApart
<1>10. OpenRows
  BY <1>1, <1>2 DEF OpenRows
<1>11. StateFollowsHistory
  <2>1. ASSUME NEW c \in Cards, Exists(c)
        PROVE  {e.to : e \in Latest({e \in events : e.card = c /\ e.type \in {"created", "moved"}})}
                  = {cards[c].state}
    <3> DEFINE M == {e \in events : e.card = c /\ e.type \in {"created", "moved"}}
    <3>1. c \in OpenCards
      BY <1>3, <2>1
    <3>2. M = {first(c)}
      BY <1>4, <1>5, <1>6, <3>1
    <3>3. Latest({first(c)}) = {first(c)}
      BY <1>4 DEF Latest
    <3>4. {e.to : e \in {first(c)}} = {cards[c].state}
      BY <1>1, <1>4, <3>1
    <3> HIDE DEF M
    <3>5. {e.to : e \in Latest(M)} = {cards[c].state}
      BY <3>2, <3>3, <3>4
    <3> QED BY <3>5 DEF M
  <2> QED BY <2>1 DEF StateFollowsHistory
<1>12. RevisionCountsChanges
  <2>1. ASSUME NEW c \in Cards, Exists(c)
        PROVE  cards[c].revision = 1 + Cardinality({e \in events :
                  e.card = c /\ (e.type = "edited" \/ e.cardType # None)})
    <3>1. {e \in events : e.card = c /\ (e.type = "edited" \/ e.cardType # None)} = {}
      BY <1>6
    <3>2. cards[c].revision = 1
      BY <1>1, <1>3, <2>1
    <3> QED BY <3>1, <3>2, FS_EmptySet
  <2> QED BY <2>1 DEF RevisionCountsChanges
<1>13. BranchFollowsHistory
  <2>1. ASSUME NEW c \in Cards, NEW b \in Branches
        PROVE  Latest({e \in events : e.card = c /\ e.ref = b}) = {}
    BY <1>6, <1>7 DEF Latest
  <2> QED BY <2>1 DEF BranchFollowsHistory
<1>14. LandingRecordedOnce /\ KeyAppliedOnce
  <2>1. retried = {}
    BY DEF Init
  <2> QED BY <1>6, <2>1 DEF LandingRecordedOnce, KeyAppliedOnce
<1>15. ASSUME NEW s \in Sessions
       PROVE  SessionInv(s)
  <2>1. txn[s] = Idle /\ w[s] = NoWrites
    BY DEF Init
  <2>2. CallStands(s) /\ ~Written(s) /\ SeqsFit(s)
    BY <2>1 DEF CallStands, Written, SeqsFit, Numbered, Idle, NoWrites
  <2> QED BY <2>2 DEF SessionInv
<1> QED BY <1>8, <1>9, <1>10, <1>11, <1>12, <1>13, <1>14, <1>15
     DEF BoardInv, CardFollowsHistory

\* What the board does by itself keeps the invariant.
LEMMA OutsideStands ==
  ASSUME BoardInv, UNCHANGED <<tables, txn, w, owner, retried>>
  PROVE  BoardInv'
<1>1. HistoryHeld /\ (\A s \in Sessions : SessionInv(s)) /\ \A x \in retried : x[2] # "ok"
  BY BoardInvParts
<1>2. HistoryHeld'
  BY <1>1, HistoryKept
<1>3. ASSUME NEW s \in Sessions
      PROVE  SessionInv(s)'
  <2>1. /\ cards' = cards /\ branches' = branches /\ events' = events /\ links' = links
        /\ txn' = txn /\ w' = w /\ owner' = owner
    BY DEF tables
  <2>2. Telling(s)' = Telling(s) /\ Wrote(s)' = Wrote(s) /\ (Written(s)' <=> Written(s))
    BY <2>1 DEF Telling, Pending, Plain, Entries, Wrote, Written
  <2>3. CallStands(s)' /\ SeqsFit(s)'
    BY <1>1, <2>1 DEF SessionInv, CallStands, SeqsFit, Creates, Exists, ItemsOf, Declares,
                      Numbered, LinkNews, Plain, Entries
  <2>4. Leaves(s) /\ SameCall(s)
    BY <2>1 DEF Leaves, SameCall, SameIdentity
  <2>5. ASSUME Written(s)
        PROVE  \E x, E : x = Wrote(s)' /\ E = Telling(s)' /\ WritesHeld(s, x, E)'
    <3>1. PICK x, E : x = Wrote(s) /\ E = Telling(s) /\ WritesHeld(s, x, E)
      BY <1>1, <2>5 DEF SessionInv
    <3>2. \A d : /\ Owns(s, d)' <=> Owns(s, d)
                 /\ Exists(d)' <=> Exists(d)
                 /\ BranchesWith(x, d)' = BranchesWith(x, d)
                 /\ LandingSeq(d)' = LandingSeq(d)
      BY <2>1 DEF Owns, Exists, Creates, BranchesWith, LandingSeq
    <3>3. RowsHeld(s, x, E)' /\ KeysHeld(s, x, E)' /\ ActiveHeld(x, E)'
      BY <2>1, <3>1, <3>2 DEF WritesHeld, RowsHeld, KeysHeld, ActiveHeld, RowFits, Touched,
                              Creates, SameIdentity, Apart
    <3>4. StateHeld(x, E)' /\ RevisionHeld(x, E)'
      BY <2>1, <3>1, <3>2 DEF WritesHeld, StateHeld, RevisionHeld, Moves, Changes
    <3>5. BranchHeld(x, E)' /\ LandHeld(E)' /\ ReleaseHeld(s, x, E)'
      BY <2>1, <3>1, <3>2 DEF WritesHeld, BranchHeld, LandHeld, ReleaseHeld, Said, SameSha,
                              OpenBranch, NoBranch
    <3>6. WritesHeld(s, x, E)'
      BY <3>3, <3>4, <3>5 DEF WritesHeld
    <3> QED BY <2>2, <3>1, <3>6
  <2>6. Written(s) => BirthHeld(s)'
    BY <1>1, <2>1, <2>2 DEF SessionInv, BirthHeld, Creates, Declares, EverDeclared, Overlay
  <2> QED BY <2>2, <2>3, <2>5, <2>6 DEF SessionInv
<1>4. \A x \in retried' : x[2] # "ok"
  BY <1>1
<1> QED BY <1>2, <1>3, <1>4 DEF BoardInv, HistoryHeld, KeyAppliedOnce

\* Every step keeps the invariant.
LEMMA NextStands ==
  ASSUME TypeOK, LinkInv, LockInv, BoardInv, [Next]_vars
  PROVE  BoardInv'
<1>1. ASSUME NEW s \in Sessions, Begin(s) \/ Step(s)
      PROVE  BoardInv'
  <2>1. Commit(s) \/ Quiet(s)
    BY <1>1, StepQuiet
  <2> QED BY <2>1, CommitStands, QuietStands
<1>2. CASE UNCHANGED <<tables, txn, w, owner, retried>>
  BY <1>2, OutsideStands
<1>3. \/ \E s \in Sessions : Begin(s) \/ Step(s)
      \/ UNCHANGED <<tables, txn, w, owner, retried>>
  BY DEF Next, Configure, CloseLoop, Done, vars, callers
<1> QED BY <1>1, <1>2, <1>3

\* In every reachable state, what the sessions wrote and told is about cards
\* they own, and the tables are what the streams say.
THEOREM BoardHolds == Spec => []BoardInv
<1>1. Init => BoardInv
  BY InitStands
<1>2. ASSUME TypeOK, LinkInv, LockInv, BoardInv, [Next]_vars
      PROVE  BoardInv'
  BY <1>2, NextStands
<1> QED BY <1>1, <1>2, TypeCorrect, LinksHeldAndSound, LocksTakenInOrder, PTL DEF Spec

-----------------------------------------------------------------------------
(* What a reader of the board may rely on. *)

\* Whatever the calls and their order, the row of a card and its branches are
\* what its stream of events says.
THEOREM HistoryTold == Spec => []CardFollowsHistory
<1>1. BoardInv => CardFollowsHistory
  BY DEF BoardInv
<1> QED BY <1>1, BoardHolds, PTL

\* A landing is in the stream of a card once, unless it was detached since.
THEOREM LandingsRecordedOnce == Spec => []LandingRecordedOnce
<1>1. BoardInv => LandingRecordedOnce
  BY DEF BoardInv
<1> QED BY <1>1, BoardHolds, PTL

\* However the retries of a call race, its key has one effect, and a late
\* retry is never told that it had its own.
THEOREM KeysAppliedOnce == Spec => []KeyAppliedOnce
<1>1. BoardInv => KeyAppliedOnce
  BY DEF BoardInv
<1> QED BY <1>1, BoardHolds, PTL

\* A session that wrote something can say which rows and events.
LEMMA WrittenOf ==
  ASSUME TypeOK, LockInv, BoardInv, NEW s \in Sessions
  PROVE  \/ w[s] = NoWrites
         \/ \E x, E : /\ x = Wrote(s) /\ E = Telling(s) /\ WritesHeld(s, x, E)
                      /\ \A e \in w[s].events : e \in Event /\ Plain(e) \in E
<1>1. txn[s].phase \in {"idle", "locking", "items", "commit"}
  BY DEF TypeOK, TxnOK, Txn
<1>2. ~Written(s) => w[s] = NoWrites
  BY <1>1 DEF LockInv, LocksTaken, Written
<1>3. Written(s) => \E x, E : x = Wrote(s) /\ E = Telling(s) /\ WritesHeld(s, x, E)
  BY DEF BoardInv, SessionInv
<1>4. \A e \in w[s].events : Plain(e) \in Telling(s) /\ e \in Event
  BY TellingType
<1> QED BY <1>2, <1>3, <1>4

\* Whatever a call is about to publish, the locks it holds and the checks it
\* made leave nothing to the unique indexes but a repeated key.
THEOREM IndexesNeverRefuse == Spec => []LocksPreventClashes
<1>1. ASSUME TypeOK, LinkInv, LockInv, BoardInv
      PROVE  LocksPreventClashes
  <2> SUFFICES ASSUME NEW s \in Sessions
               PROVE  ~Clash(s)
    BY DEF LocksPreventClashes
  <2>1. ~SeqClash(s)
    <3>1. \A e \in w[s].events, f \in events : f.card = e.card => f.seq < e.seq
      BY <1>1 DEF BoardInv, SessionInv, SeqsFit, Numbered
    <3>2. \A f \in events : f.seq \in Nat
      BY <1>1 DEF TypeOK, TablesOK, Event
    <3> QED BY <3>1, <3>2 DEF SeqClash
  <2>2. ~ParentClash(s)
    BY <1>1 DEF LinkInv, Sound, ParentClash
  <2>3. CASE w[s] = NoWrites
    <3>1. w[s].events = {} /\ DOMAIN w[s].cards = {}
      BY <2>3 DEF NoWrites, NoRows
    <3> QED BY <2>1, <2>2, <3>1 DEF Clash, RowClash, ReleaseClash
  <2>4. ASSUME NEW x, NEW E, x = Wrote(s), E = Telling(s), WritesHeld(s, x, E),
               \A e \in w[s].events : e \in Event /\ Plain(e) \in E
        PROVE  ~RowClash(s) /\ ~ReleaseClash(s)
    <3>1. x.cards = w[s].cards
      BY <2>4 DEF Wrote
    <3>2. ~ReleaseClash(s)
      <4>1. \A e \in w[s].events : /\ Plain(e) \in E /\ Plain(e).card = e.card
                                   /\ Plain(e).type = e.type /\ Plain(e).version = e.version
        BY <2>4, PlainColumns
      <4> QED BY <2>4, <4>1 DEF WritesHeld, RowsHeld, ReleaseClash
    <3>3. ASSUME NEW c \in DOMAIN x.cards, NEW d \in Cards, c # d
          PROVE  Apart(x.cards[c], cards[d])
      <4>1. c \in Cards /\ RowFits(c, x.cards[c])
        BY <2>4 DEF WritesHeld, RowsHeld, Touched
      <4>2. CASE Exists(c)
        BY <1>1, <3>3, <4>1, <4>2 DEF RowFits, SameIdentity, Apart, BoardInv, RowsApart
      <4>3. CASE ~Exists(c)
        BY <4>1, <4>3 DEF RowFits
      <4> QED BY <4>2, <4>3
    <3> QED BY <3>1, <3>2, <3>3 DEF RowClash, Apart
  <2> QED BY <1>1, <2>1, <2>2, <2>3, <2>4, WrittenOf DEF Clash
<1> QED BY <1>1, TypeCorrect, LinksHeldAndSound, LocksTakenInOrder, BoardHolds, PTL

\* Up to its commit, a release has marked no card that landed again since its
\* observer looked.
THEOREM ReleasesCarryCheckedLanding == Spec => []ReleaseCarriesCheckedLanding
<1>1. ASSUME TypeOK, LockInv, BoardInv
      PROVE  ReleaseCarriesCheckedLanding
  <2> SUFFICES ASSUME NEW s \in Sessions, NEW e \in w[s].events, e.type = "released",
                      txn[s].call.checked
               PROVE  LandingSeq(e.card) = txn[s].seen[e.card]
    BY DEF ReleaseCarriesCheckedLanding
  <2>1. w[s] # NoWrites
    BY DEF NoWrites
  <2>2. PICK x, E : /\ WritesHeld(s, x, E)
                    /\ \A f \in w[s].events : f \in Event /\ Plain(f) \in E
    BY <1>1, <2>1, WrittenOf
  <2>3. Plain(e) \in E /\ Plain(e).card = e.card /\ Plain(e).type = e.type
    BY <2>2, PlainColumns
  <2> QED BY <2>2, <2>3 DEF WritesHeld, ReleaseHeld
<1> QED BY <1>1, TypeCorrect, LocksTakenInOrder, BoardHolds, PTL

-----------------------------------------------------------------------------
(* What a step may never do. *)

\* A step changes the tables only by a commit.
LEMMA TablesByCommit ==
  ASSUME TypeOK, LinkInv, LockInv, BoardInv, [Next]_vars
  PROVE  \/ UNCHANGED tables
         \/ \E s \in Sessions : \E x, E : Publishes(s, x, E) /\ Commit(s)
<1>1. ASSUME NEW s \in Sessions, Begin(s) \/ Step(s)
      PROVE  UNCHANGED tables \/ \E x, E : Publishes(s, x, E) /\ Commit(s)
  <2>1. Commit(s) \/ Quiet(s)
    BY <1>1, StepQuiet
  <2>2. SessionInv(s)
    BY DEF BoardInv
  <2> QED BY <2>1, <2>2, CommitPublishes DEF Quiet
<1>2. \/ \E s \in Sessions : Begin(s) \/ Step(s)
      \/ UNCHANGED tables
  BY DEF Next, Configure, CloseLoop, Done, vars
<1> QED BY <1>1, <1>2

\* A published event with a column of the one told.
LEMMA TellsNew ==
  ASSUME NEW s, NEW x, NEW E, Publishes(s, x, E), NEW g \in E
  PROVE  \E e \in events' \ events :
            /\ e.card = g.card /\ e.type = g.type /\ e.note = g.note
            /\ e.linksNote = g.linksNote
<1>1. PICK e \in w[s].events : g = Plain(e)
  BY DEF Publishes
<1>2. /\ e.card = g.card /\ e.type = g.type /\ e.note = g.note
      /\ e.linksNote = g.linksNote
  BY <1>1, PublishedEvent
<1>3. e \in events' \ events
  BY DEF Publishes
<1> QED BY <1>2, <1>3

\* An archived card keeps its row, its branches and its attachments.
THEOREM ArchivedKept == Spec => ArchivedKeepsContent
<1>1. ASSUME TypeOK, LinkInv, LockInv, BoardInv, [Next]_vars,
             NEW c \in Cards, cards[c].archived
      PROVE  /\ cards'[c] = cards[c] /\ branches'[c] = branches[c] /\ refs'[c] = refs[c]
             /\ \A e \in events' \ events : e.card = c => e.type \in {"linked", "unlinked"}
  <2>1. CASE UNCHANGED tables
    BY <2>1 DEF tables
  <2>2. ASSUME NEW s \in Sessions, NEW x, NEW E, Publishes(s, x, E)
        PROVE  /\ cards'[c] = cards[c] /\ branches'[c] = branches[c] /\ refs'[c] = refs[c]
               /\ \A e \in events' \ events : e.card = c => e.type \in {"linked", "unlinked"}
    <3>1. c \notin Touched(x)
      BY <1>1, <2>2 DEF Publishes, WritesHeld, RowsHeld
    <3>2. cards'[c] = cards[c] /\ branches'[c] = branches[c] /\ refs'[c] = refs[c]
      BY <2>2, <3>1 DEF Publishes, Touched, BranchesWith
    <3>3. ASSUME NEW e \in events' \ events, e.card = c
          PROVE  e.type \in {"linked", "unlinked"}
      <4>1. e \in w[s].events
        BY <2>2 DEF Publishes
      <4>2. Plain(e) \in E /\ Plain(e).card = e.card /\ Plain(e).type = e.type
        BY <2>2, <4>1, PublishedEvent
      <4> QED BY <1>1, <2>2, <3>3, <4>2 DEF Publishes, WritesHeld, RowsHeld
    <3> QED BY <3>2, <3>3
  <2> QED BY <1>1, <2>1, <2>2, TablesByCommit
<1>2. TypeOK /\ LinkInv /\ LockInv /\ BoardInv /\ [Next]_vars => [KeepsArchived]_vars
  BY <1>1 DEF KeepsArchived
<1> QED BY <1>2, TypeCorrect, LinksHeldAndSound, LocksTakenInOrder, BoardHolds, PTL
     DEF Spec, ArchivedKeepsContent

\* The branches a commit leaves a card.
LEMMA PublishedBranches ==
  ASSUME NEW s, NEW x, NEW E, Publishes(s, x, E), NEW c \in Cards,
         cards'[c].state # cards[c].state
  PROVE  /\ c \in DOMAIN x.cards /\ cards'[c] = x.cards[c]
         /\ BranchesWith(x, c) = branches'[c]
  BY DEF Publishes

\* A card leaves active with no branch open, or with the reason one is.
THEOREM ActiveLeftAccounted == Spec => LeavesActiveAccounted
<1>1. ASSUME TypeOK, LinkInv, LockInv, BoardInv, [Next]_vars,
             NEW c \in Cards, cards[c].state = "active", cards'[c].state # "active"
      PROVE  \/ \A b \in Branches : branches'[c][b].state # "open"
             \/ \E e \in events' \ events : e.card = c /\ e.type = "moved" /\ e.note
  <2>1. ~UNCHANGED tables
    BY <1>1 DEF tables
  <2>1a. PICK s \in Sessions : \E x, E : Publishes(s, x, E)
    BY <1>1, <2>1, TablesByCommit
  <2>2. PICK x, E : Publishes(s, x, E)
    BY <2>1a
  <2>3. /\ c \in DOMAIN x.cards /\ cards'[c] = x.cards[c]
        /\ BranchesWith(x, c) = branches'[c]
    BY <1>1, <2>2, PublishedBranches
  <2>4. \/ \A b \in Branches : BranchesWith(x, c)[b].state # "open"
        \/ \E g \in E : g.card = c /\ g.type = "moved" /\ g.note
    BY <1>1, <2>2, <2>3 DEF Publishes, WritesHeld, ActiveHeld
  <2> QED BY <2>2, <2>3, <2>4, TellsNew
<1>2. TypeOK /\ LinkInv /\ LockInv /\ BoardInv /\ [Next]_vars => [LeavingAccounted]_vars
  BY <1>1 DEF LeavingAccounted
<1> QED BY <1>2, TypeCorrect, LinksHeldAndSound, LocksTakenInOrder, BoardHolds, PTL
     DEF Spec, LeavesActiveAccounted

\* A card enters active with a branch open, or with the reason it has none.
THEOREM ActiveEnteredAccounted == Spec => EntersActiveAccounted
<1>1. ASSUME TypeOK, LinkInv, LockInv, BoardInv, [Next]_vars,
             NEW c \in Cards, cards[c].state # "active", cards'[c].state = "active"
      PROVE  \/ \E b \in Branches : branches'[c][b].state = "open"
             \/ \E e \in events' \ events : e.card = c /\ (e.note \/ e.type = "landed")
  <2>1. ~UNCHANGED tables
    BY <1>1 DEF tables
  <2>1a. PICK s \in Sessions : \E x, E : Publishes(s, x, E)
    BY <1>1, <2>1, TablesByCommit
  <2>2. PICK x, E : Publishes(s, x, E)
    BY <2>1a
  <2>3. /\ c \in DOMAIN x.cards /\ cards'[c] = x.cards[c]
        /\ BranchesWith(x, c) = branches'[c]
    BY <1>1, <2>2, PublishedBranches
  <2>4. \/ \E b \in Branches : BranchesWith(x, c)[b].state = "open"
        \/ \E g \in E : g.card = c /\ (g.note \/ g.type = "landed")
    BY <1>1, <2>2, <2>3 DEF Publishes, WritesHeld, ActiveHeld
  <2> QED BY <2>2, <2>3, <2>4, TellsNew
<1>2. TypeOK /\ LinkInv /\ LockInv /\ BoardInv /\ [Next]_vars => [EnteringAccounted]_vars
  BY <1>1 DEF EnteringAccounted
<1> QED BY <1>2, TypeCorrect, LinksHeldAndSound, LocksTakenInOrder, BoardHolds, PTL
     DEF Spec, EntersActiveAccounted

\* A card appears on the board with an answer about its relations.
THEOREM BornAssessed == Spec => AssessedAtBirth
<1>1. ASSUME TypeOK, LinkInv, LockInv, BoardInv, [Next]_vars,
             NEW c \in Cards, ~Exists(c), Exists(c)'
      PROVE  LinksAssessed(c)'
  <2>1. ~UNCHANGED tables
    BY <1>1 DEF tables, Exists
  <2>1a. PICK s \in Sessions : \E x, E : Publishes(s, x, E) /\ Commit(s)
    BY <1>1, <2>1, TablesByCommit
  <2>2. PICK x, E : Publishes(s, x, E) /\ Commit(s)
    BY <2>1a
  <2>3. c = txn[s].card /\ Creates(txn[s].call)
    <3>1. c \in DOMAIN x.cards
      BY <1>1, <2>2, PublishedCards DEF Exists
    <3> QED BY <1>1, <2>2, <3>1, PublishedCards
  <2>4. txn[s].phase = "commit" /\ BirthHeld(s)
    BY <1>1, <2>2 DEF Commit, BoardInv, SessionInv, Written
  <2>5. CASE \E g \in E : g.card = c /\ g.linksNote
    <3>1. PICK e \in events' : e.card = c /\ e.linksNote
      BY <2>2, <2>5, TellsNew
    <3> QED BY <3>1 DEF LinksAssessed
  <2>6. CASE EverDeclared(Overlay(w[s].links, links), c)
    <3>1. links' = Overlay(w[s].links, links)
      BY <2>2 DEF Commit
    <3>2. EverDeclared(links', c)
      BY <2>6, <3>1
    <3> QED BY <3>2 DEF LinksAssessed, EverDeclared
  <2> QED BY <2>2, <2>3, <2>4, <2>5, <2>6 DEF BirthHeld, Publishes
<1>2. TypeOK /\ LinkInv /\ LockInv /\ BoardInv /\ [Next]_vars => [AssessedWhenOpened]_vars
  BY <1>1 DEF AssessedWhenOpened
<1> QED BY <1>2, TypeCorrect, LinksHeldAndSound, LocksTakenInOrder, BoardHolds, PTL
     DEF Spec, AssessedAtBirth

-----------------------------------------------------------------------------
(* What the streams of two cards say of their relation. *)

\* The events that tell of a relation, in the streams of its two cards.
Out(E, k) ==
    {e \in E : e.card = k[1] /\ e.other = k[2] /\ e.link = k[3] /\ e.dir = "out"}

In(E, k) ==
    {e \in E : e.card = k[2] /\ e.other = k[1] /\ e.link = k[3] /\ e.dir = "in"}

\* Both streams are told once, of the same change.
ToldOnce(E, k, t) ==
    \E e, f : Out(E, k) = {e} /\ In(E, k) = {f} /\ e.type = t /\ f.type = t

\* A call tells both cards what it wrote of their relation, or neither when it
\* wrote nothing or retired an untyped row for a declared one.
KeyTold(phase, L, E, k) ==
    \/ /\ Out(E, k) = {} /\ In(E, k) = {}
       /\ k \in DOMAIN L => L[k] = "was_untyped"
    \/ k \in DOMAIN L /\ Live(L, k) /\ ToldOnce(E, k, "linked")
    \/ /\ phase = "commit" /\ k \in DOMAIN L
       /\ L[k] \in {"was_declared", "was_untyped"}
       /\ ToldOnce(E, k, "unlinked")

\* A call that goes through its declared relations has written no others.
LinkTold(s) ==
    /\ \A e \in Pending(s) : e.other = None
    /\ txn[s].phase = "items" =>
          \A k \in DOMAIN w[s].links : w[s].links[k] \in {"declared", "was_untyped"}
    /\ \A k \in LinkKeys : KeyTold(txn[s].phase, w[s].links, w[s].events, k)

\* The rows a log leaves, and the columns stamping leaves alone.
LEMMA StampedRows ==
  ASSUME TypeOK, NEW R \in SUBSET Event, IsFiniteSet(R), Numbered(R), NEW L \in Seq(Event)
  PROVE  /\ Stamp(events \cup R, L) \ events
               = R \cup {Stamped(events \cup R, L, i) : i \in DOMAIN L}
         /\ \A i \in DOMAIN L :
               LET e == Stamped(events \cup R, L, i)
               IN  /\ L[i] \in Event /\ e.card = L[i].card /\ e.type = L[i].type
                   /\ e.other = L[i].other /\ e.link = L[i].link /\ e.dir = L[i].dir
<1> DEFINE E == events \cup R
           st(i) == Stamped(E, L, i)
<1>1. E \in SUBSET Event /\ IsFiniteSet(E) /\ events \in SUBSET Event
  BY FS_Union DEF TypeOK, TablesOK
<1>2. ASSUME NEW i \in DOMAIN L
      PROVE  /\ L[i] \in Event /\ st(i).seq \in Nat
             /\ st(i).card = L[i].card /\ st(i).type = L[i].type
             /\ st(i).other = L[i].other /\ st(i).link = L[i].link /\ st(i).dir = L[i].dir
             /\ \A f \in E : f.card = L[i].card => f.seq < st(i).seq
  <2>1. L[i] \in Event
    OBVIOUS
  <2>2. /\ st(i) \in Event
        /\ \E n \in Nat : st(i) = [L[i] EXCEPT !.seq = n]
        /\ \A f \in E : f.card = L[i].card => f.seq < st(i).seq
    <3> HIDE DEF E
    <3> QED BY <1>1, StampedRow
  <2> HIDE DEF st
  <2>3. PICK n \in Nat : st(i) = [L[i] EXCEPT !.seq = n]
    BY <2>2
  <2> QED BY <2>1, <2>2, <2>3 DEF Event
<1>3. Stamp(E, L) \ events = R \cup {st(i) : i \in DOMAIN L}
  <2>1. Stamp(E, L) \ events = (E \cup {st(i) : i \in DOMAIN L}) \ events
    BY StampAdds
  <2>2. ASSUME NEW e \in R PROVE e \notin events
    <3>1. e.seq \in Nat /\ (e \in events => e.seq < e.seq)
      BY DEF Numbered, Event
    <3> QED BY <3>1
  <2>3. ASSUME NEW i \in DOMAIN L PROVE st(i) \notin events
    <3>1. (st(i) \in events => st(i).seq < st(i).seq) /\ st(i).seq \in Nat
      BY <1>2
    <3> HIDE DEF st
    <3> QED BY <3>1
  <2> HIDE DEF st
  <2> QED BY <2>1, <2>2, <2>3
<1> HIDE DEF st
<1> QED BY <1>2, <1>3 DEF st

\* What a call that writes on has logged: the log, and perhaps events that
\* tell of no relation.
Logged(s, R, log, st) ==
    /\ DOMAIN log \subseteq DOMAIN st
    /\ w'[s].events = R \cup {st[i] : i \in DOMAIN st}
    /\ \A i \in DOMAIN st \ DOMAIN log : st[i].other = None
    /\ \A i \in DOMAIN log :
          /\ st[i].card = log[i].card /\ st[i].type = log[i].type
          /\ st[i].other = log[i].other /\ st[i].link = log[i].link
          /\ st[i].dir = log[i].dir

\* That is what every call logs that goes on.
LEMMA ProgressLogged ==
  ASSUME TypeOK, NEW s \in Sessions, NEW rows, WritesOK(rows), Numbered(rows.events),
         NEW log \in Seq(Event), txn'[s].tail \in Seq(Event), Progress(s, rows, log),
         \A e \in Entries(txn'[s].tail) : e.other = None
  PROVE  \E st : Logged(s, rows.events, log, st)
<1> DEFINE tail == IF txn'[s].phase = "commit" THEN txn'[s].tail ELSE <<>>
           L == log \o tail
           R == rows.events
           st == [i \in DOMAIN L |-> Stamped(events \cup R, L, i)]
<1>1. R \in SUBSET Event /\ IsFiniteSet(R) /\ Numbered(R)
  BY DEF WritesOK
<1>2. tail \in Seq(Event) /\ \A i \in DOMAIN tail : tail[i].other = None
  BY DEF Entries
<1>3. w'[s].events = Stamp(events \cup R, L) \ events
  BY DEF Progress
<1> HIDE DEF tail
<1>4. /\ L \in Seq(Event) /\ DOMAIN log \subseteq DOMAIN L
      /\ \A i \in DOMAIN log : L[i] = log[i]
      /\ \A i \in DOMAIN L \ DOMAIN log : L[i].other = None
  <2>1. L \in Seq(Event) /\ DOMAIN log \subseteq DOMAIN L /\ \A i \in DOMAIN log : L[i] = log[i]
    BY <1>2
  <2>2. ASSUME NEW i \in DOMAIN L \ DOMAIN log
        PROVE  L[i].other = None
    <3>1. i - Len(log) \in DOMAIN tail /\ L[i] = tail[i - Len(log)]
      BY <1>2
    <3> QED BY <1>2, <3>1
  <2> QED BY <2>1, <2>2
<1> HIDE DEF L
<1>5. /\ Stamp(events \cup R, L) \ events
            = R \cup {Stamped(events \cup R, L, i) : i \in DOMAIN L}
      /\ \A i \in DOMAIN L :
            LET e == Stamped(events \cup R, L, i)
            IN  /\ L[i] \in Event /\ e.card = L[i].card /\ e.type = L[i].type
                /\ e.other = L[i].other /\ e.link = L[i].link /\ e.dir = L[i].dir
  BY <1>1, <1>4, StampedRows
<1>6. DOMAIN st = DOMAIN L /\ \A i \in DOMAIN L : st[i] = Stamped(events \cup R, L, i)
  OBVIOUS
<1> HIDE DEF st
<1>7. w'[s].events = R \cup {st[i] : i \in DOMAIN st}
  <2>1. {st[i] : i \in DOMAIN st} = {Stamped(events \cup R, L, i) : i \in DOMAIN L}
    BY <1>6
  <2> QED BY <1>3, <1>5, <2>1
<1>8. Logged(s, R, log, st)
  BY <1>4, <1>5, <1>6, <1>7 DEF Logged
<1> QED BY <1>8

\* A log that tells of no relation leaves them as they were told.
LEMMA LoggedNone ==
  ASSUME NEW s, NEW R, NEW log, NEW st, Logged(s, R, log, st),
         \A i \in DOMAIN log : log[i].other = None, NEW k \in LinkKeys
  PROVE  Out(w'[s].events, k) = Out(R, k) /\ In(w'[s].events, k) = In(R, k)
<1>1. k[1] # None /\ k[2] # None
  BY BoardAssumption DEF LinkKeys
<1>2. \A i \in DOMAIN st : st[i].other = None
  BY DEF Logged
<1>3. \A e \in w'[s].events : e \in R \/ e.other = None
  BY <1>2 DEF Logged
<1>4. R \subseteq w'[s].events
  BY DEF Logged
<1> QED BY <1>1, <1>3, <1>4 DEF Out, In

\* The log of a relation tells both cards of it, and of no other.
LEMMA LoggedRelation ==
  ASSUME NEW s, NEW R, NEW st, NEW k \in LinkKeys, NEW type, NEW origin, NEW key,
         Logged(s, R, RelationLog(type, k, origin, key), st)
  PROVE  /\ \E e, f : /\ Out(w'[s].events, k) = Out(R, k) \cup {e} /\ e.type = type
                      /\ In(w'[s].events, k) = In(R, k) \cup {f} /\ f.type = type
         /\ \A j \in LinkKeys \ {k} : /\ Out(w'[s].events, j) = Out(R, j)
                                      /\ In(w'[s].events, j) = In(R, j)
<1> DEFINE log == RelationLog(type, k, origin, key)
           N == w'[s].events
<1>1. /\ DOMAIN log = {1, 2}
      /\ log[1].card = k[1] /\ log[1].type = type /\ log[1].other = k[2]
      /\ log[1].link = k[3] /\ log[1].dir = "out"
      /\ log[2].card = k[2] /\ log[2].type = type /\ log[2].other = k[1]
      /\ log[2].link = k[3] /\ log[2].dir = "in"
  <2> DEFINE a == [Ev(k[1], type) EXCEPT !.other = k[2], !.link = k[3], !.dir = "out",
                             !.key = IF k[1] = origin THEN key ELSE None]
             b == [Ev(k[2], type) EXCEPT !.other = k[1], !.link = k[3], !.dir = "in",
                             !.key = IF k[2] = origin THEN key ELSE None]
  <2>1. log = <<a, b>>
    BY DEF RelationLog
  <2>2. /\ a.card = k[1] /\ a.type = type /\ a.other = k[2] /\ a.link = k[3] /\ a.dir = "out"
        /\ b.card = k[2] /\ b.type = type /\ b.other = k[1] /\ b.link = k[3] /\ b.dir = "in"
    BY DEF Ev
  <2> HIDE DEF a, b, log
  <2>3. DOMAIN log = {1, 2} /\ log[1] = a /\ log[2] = b
    BY <2>1
  <2> QED BY <2>2, <2>3
<1>a. Logged(s, R, log, st)
  OBVIOUS
<1> DEFINE e == st[1]
           f == st[2]
<1>2. /\ e.card = k[1] /\ e.type = type /\ e.other = k[2] /\ e.link = k[3] /\ e.dir = "out"
      /\ f.card = k[2] /\ f.type = type /\ f.other = k[1] /\ f.link = k[3] /\ f.dir = "in"
      /\ e \in N /\ f \in N
  <2> HIDE DEF log
  <2>1. 1 \in DOMAIN st /\ 2 \in DOMAIN st
    BY <1>1, <1>a DEF Logged
  <2> QED BY <1>1, <1>a, <2>1 DEF Logged
<1>3. \A x \in N : x \in R \/ x = e \/ x = f \/ x.other = None
  <2> HIDE DEF log
  <2>1. \A i \in DOMAIN st : i = 1 \/ i = 2 \/ st[i].other = None
    BY <1>1, <1>a DEF Logged
  <2> QED BY <2>1 DEF Logged
<1>4. R \subseteq N
  BY DEF Logged
<1> HIDE DEF N, log, e, f
<1>5. \A j \in LinkKeys : /\ j[1] # None /\ j[2] # None /\ j = <<j[1], j[2], j[3]>>
  BY BoardAssumption DEF LinkKeys
<1>6. Out(N, k) = Out(R, k) \cup {e} /\ In(N, k) = In(R, k) \cup {f}
  BY <1>2, <1>3, <1>4, <1>5 DEF Out, In
<1>7. ASSUME NEW j \in LinkKeys, j # k
      PROVE  Out(N, j) = Out(R, j) /\ In(N, j) = In(R, j)
  <2>1. ~(j[1] = k[1] /\ j[2] = k[2] /\ j[3] = k[3])
    BY <1>5, <1>7
  <2> QED BY <1>2, <1>3, <1>4, <1>5, <2>1 DEF Out, In
<1> QED BY <1>2, <1>6, <1>7 DEF N

\* A call that goes on and keeps to its last events.
GoesOn(s, rows, log) ==
    /\ WritesOK(rows) /\ Numbered(rows.events) /\ log \in Seq(Event)
    /\ Progress(s, rows, log)
    /\ txn'[s].tail \in Seq(Event)
    /\ \A e \in Entries(txn'[s].tail) : e.other = None
    /\ txn'[s].phase = "items" =>
          \A k \in DOMAIN rows.links : rows.links[k] \in {"declared", "was_untyped"}

\* One that tells of no relation keeps what it told.
LEMMA UntoldStands ==
  ASSUME TypeOK, NEW s \in Sessions, NEW rows, NEW log, GoesOn(s, rows, log),
         \A e \in Entries(log) : e.other = None,
         \A k \in LinkKeys : KeyTold("items", rows.links, rows.events, k)
  PROVE  LinkTold(s)'
<1>1. PICK st : Logged(s, rows.events, log, st)
  BY ProgressLogged DEF GoesOn
<1>2. \A i \in DOMAIN log : log[i].other = None
  BY DEF Entries
<1>3. \A k \in LinkKeys : /\ Out(w'[s].events, k) = Out(rows.events, k)
                          /\ In(w'[s].events, k) = In(rows.events, k)
  BY <1>1, <1>2, LoggedNone
<1>4. w'[s].links = rows.links
  BY DEF GoesOn, Progress
<1>5. \A k \in LinkKeys : KeyTold(txn'[s].phase, w'[s].links, w'[s].events, k)
  BY <1>3, <1>4 DEF KeyTold, ToldOnce
<1> QED BY <1>4, <1>5 DEF LinkTold, Pending, GoesOn, KeyTold, ToldOnce, Out, In, Live

\* So does one that tells both cards of a relation it had not told.
LEMMA ToldStands ==
  ASSUME TypeOK, NEW s \in Sessions, NEW rows, NEW k \in LinkKeys,
         NEW type, NEW origin, NEW key,
         GoesOn(s, rows, RelationLog(type, k, origin, key)),
         Out(rows.events, k) = {}, In(rows.events, k) = {}, k \in DOMAIN rows.links,
         \/ type = "linked" /\ Live(rows.links, k)
         \/ /\ type = "unlinked" /\ txn'[s].phase = "commit"
            /\ rows.links[k] \in {"was_declared", "was_untyped"},
         \A j \in LinkKeys \ {k} : KeyTold("items", rows.links, rows.events, j)
  PROVE  LinkTold(s)'
<1>1. PICK st : Logged(s, rows.events, RelationLog(type, k, origin, key), st)
  BY ProgressLogged DEF GoesOn
<1>2. /\ \E e, f : /\ Out(w'[s].events, k) = Out(rows.events, k) \cup {e} /\ e.type = type
                   /\ In(w'[s].events, k) = In(rows.events, k) \cup {f} /\ f.type = type
      /\ \A j \in LinkKeys \ {k} : /\ Out(w'[s].events, j) = Out(rows.events, j)
                                   /\ In(w'[s].events, j) = In(rows.events, j)
  BY <1>1, LoggedRelation
<1>3. w'[s].links = rows.links
  BY DEF GoesOn, Progress
<1>4. ToldOnce(w'[s].events, k, type)
  BY <1>2 DEF ToldOnce
<1>5. ASSUME NEW j \in LinkKeys
      PROVE  KeyTold(txn'[s].phase, w'[s].links, w'[s].events, j)
  <2>1. CASE j = k
    BY <1>3, <1>4, <2>1 DEF KeyTold
  <2>2. CASE j # k
    <3>1. KeyTold("items", rows.links, rows.events, j)
      BY <2>2
    <3> QED BY <1>2, <1>3, <2>2, <3>1 DEF KeyTold, ToldOnce
  <2> QED BY <2>1, <2>2
<1> QED BY <1>3, <1>5 DEF LinkTold, Pending, GoesOn, KeyTold, ToldOnce, Out, In, Live

\* A session that wrote no relation has told of none.
LEMMA NothingTold ==
  ASSUME NEW s, w'[s] = NoWrites, txn'[s].phase # "items"
  PROVE  LinkTold(s)'
<1>1. w'[s].events = {} /\ DOMAIN w'[s].links = {}
  BY DEF NoWrites, NoRows
<1>2. \A k \in LinkKeys : Out(w'[s].events, k) = {} /\ In(w'[s].events, k) = {}
  BY <1>1 DEF Out, In
<1> QED BY <1>1, <1>2 DEF LinkTold, Pending, KeyTold, Out, In, ToldOnce, Live

\* The relations told stand while others work.
LEMMA OthersTold ==
  ASSUME NEW s \in Sessions, OthersKeep(s), NEW r \in Sessions \ {s}, LinkTold(r)
  PROVE  LinkTold(r)'
<1>1. txn'[r] = txn[r] /\ w'[r] = w[r]
  BY DEF OthersKeep
<1> QED BY <1>1 DEF LinkTold, Pending, Entries, KeyTold, Out, In, ToldOnce, Live

\* Nothing is told of a relation before a call writes.
LEMMA NoneToldYet ==
  ASSUME NEW k \in LinkKeys, NEW L, k \in DOMAIN L => L[k] = "was_untyped"
  PROVE  KeyTold("items", L, {}, k) /\ Out({}, k) = {} /\ In({}, k) = {}
BY DEF KeyTold, Out, In

\* A command that only relates two cards tells both.
LEMMA RelationTells ==
  ASSUME TypeOK, NEW s \in Sessions, Ready(s, RelationCommands), NEW k \in LinkKeys,
         NEW L, Rows(L, LinkKeys, LinkStatus), k \in DOMAIN L,
         \A j \in DOMAIN L \ {k} : L[j] = "was_untyped",
         NEW type, NEW origin, NEW key \in Keys \cup {None},
         \/ type = "linked" /\ Live(L, k)
         \/ type = "unlinked" /\ L[k] \in {"was_declared", "was_untyped"},
         Write(s, [NoWrites EXCEPT !.links = L], RelationLog(type, k, origin, key), <<>>)
  PROVE  LinkTold(s)'
<1> DEFINE rows == [NoWrites EXCEPT !.links = L]
           log == RelationLog(type, k, origin, key)
<1>1. WritesOK(rows) /\ rows.events = {} /\ rows.links = L
  BY AtRest, WrittenRows DEF NoWrites
<1>2. log \in Seq(Event)
  BY RelationLogType
<1>3. txn[s].items = <<>>
  <2>1. TxnOK(txn[s]) /\ txn[s].call.cmd \in RelationCommands
    BY DEF TypeOK, Ready
  <2> QED BY <2>1 DEF TxnOK, RelationCommands, Declares
<1> HIDE DEF rows, log
<1>4. Progress(s, rows, log) /\ txn'[s].items = <<>> /\ txn'[s].tail = <<>>
  <2>1. <<>> \in Seq(Event)
    OBVIOUS
  <2> QED BY <1>1, <1>2, <1>3, <2>1, WriteEffect DEF rows, log
<1>5. txn'[s].phase = "commit"
  BY <1>4 DEF Progress
<1>6. GoesOn(s, rows, log)
  <2>1. Numbered(rows.events)
    BY <1>1 DEF Numbered
  <2>2. txn'[s].tail \in Seq(Event) /\ Entries(txn'[s].tail) = {}
    BY <1>4 DEF Entries
  <2> QED BY <1>1, <1>2, <1>4, <1>5, <2>1, <2>2 DEF GoesOn
<1>7. \A j \in LinkKeys \ {k} : KeyTold("items", rows.links, rows.events, j)
  BY <1>1, NoneToldYet
<1>8. Out(rows.events, k) = {} /\ In(rows.events, k) = {}
  BY <1>1 DEF Out, In
<1>9. GoesOn(s, rows, RelationLog(type, k, origin, key))
  BY <1>6 DEF log
<1> QED BY <1>1, <1>5, <1>7, <1>8, <1>9, ToldStands

\* What writing and retiring a relation leave.
LEMMA WrittenRelation ==
  ASSUME NEW L \in LinkTable, NEW k, NEW declared \in BOOLEAN, Writable(k, declared)
  PROVE  LET R == LinkWritten(L, k, declared)
         IN  /\ Rows(R, LinkKeys, LinkStatus)
             /\ k \in DOMAIN R /\ R[k] = IF declared THEN "declared" ELSE "untyped"
             /\ \A j \in DOMAIN R \ {k} : R[j] = "was_untyped" /\ L[j] = "untyped"
<1> DEFINE R == LinkWritten(L, k, declared)
<1>1. Rows(R, LinkKeys, LinkStatus)
  BY WrittenTable DEF Rows
<1>2. /\ k \in DOMAIN R /\ R[k] = IF declared THEN "declared" ELSE "untyped"
      /\ \A j \in DOMAIN R \ {k} : R[j] = "was_untyped" /\ L[j] = "untyped"
  BY DEF LinkWritten, Retires
<1> QED BY <1>1, <1>2

\* A command tells of the relation it writes, if it writes one.
LEMMA ExecTold ==
  ASSUME TypeOK, LockInv, SeqsApart, OpenRows, RowsApart, CardFollowsHistory,
         NEW s \in Sessions, SessionInv(s), Exec(s)
  PROVE  LinkTold(s)' \/ \E answer \in Answers : Finish(s, answer)
<1> DEFINE q == txn[s].call
           k == LinkKey(q.card, q.other, q.rel)
<1>1. CASE ExecLink(s)
  <2> DEFINE declared == q.cmd = "link"
             L == LinkWritten(links, k, declared)
  <2>1. Ready(s, RelationCommands) /\ q.cmd \in {"link", "attach_card"}
    BY <1>1 DEF ExecLink, Ready, RelationCommands
  <2>2. /\ q \in Calls /\ Writable(k, TRUE) /\ k \in LinkKeys /\ links \in LinkTable
        /\ q.cmd = "attach_card" => Writable(k, FALSE)
        /\ q.key \in Keys \cup {None}
    BY <2>1, RelationKey, CallKinds DEF TypeOK, TablesOK
  <2>3. CASE \E answer \in Answers : Finish(s, answer)
    BY <2>3
  <2>4. CASE Write(s, [NoWrites EXCEPT !.links = L],
                   RelationLog("linked", k, q.card, q.key), <<>>)
    <3>1. Writable(k, declared) /\ declared \in BOOLEAN
      <4>1. declared = TRUE \/ declared = FALSE
        OBVIOUS
      <4>2. ~declared => q.cmd = "attach_card"
        BY <2>1
      <4> HIDE DEF declared, k
      <4> QED BY <2>2, <4>1, <4>2
    <3> HIDE DEF declared, k
    <3>2. /\ Rows(L, LinkKeys, LinkStatus)
          /\ k \in DOMAIN L /\ L[k] = IF declared THEN "declared" ELSE "untyped"
          /\ \A j \in DOMAIN L \ {k} : L[j] = "was_untyped"
      BY <2>2, <3>1, WrittenRelation
    <3>3. Live(L, k)
      BY <3>2 DEF Live
    <3> HIDE DEF L
    <3> QED BY <2>1, <2>2, <2>4, <3>2, <3>3, RelationTells
  <2> QED BY <1>1, <2>3, <2>4, Zenon DEF ExecLink, Answers
<1>2. CASE ExecUnlink(s)
  <2> DEFINE L == Unlinked(links, k)
  <2>1. Ready(s, RelationCommands)
    BY <1>2 DEF ExecUnlink, Ready, RelationCommands
  <2>2. k \in LinkKeys
    BY <2>1, RelationKey
  <2>3. CASE Finish(s, "refused")
    BY <2>3 DEF Answers
  <2>4. CASE Write(s, [NoWrites EXCEPT !.links = L],
                   RelationLog("unlinked", k, q.card, None), <<>>)
    <3> HIDE DEF k
    <3>1. /\ Rows(L, LinkKeys, LinkStatus) /\ k \in DOMAIN L
          /\ L[k] \in {"was_declared", "was_untyped"}
          /\ \A j \in DOMAIN L \ {k} : L[j] = "was_untyped"
      BY <2>2 DEF Unlinked, LinkStatus, Rows
    <3> HIDE DEF L
    <3> QED BY <2>1, <2>2, <2>4, <3>1, RelationTells
  <2> QED BY <1>2, <2>3, <2>4 DEF ExecUnlink
<1>3. CASE q.cmd \notin RelationCommands
  <2>1. PlannedStep(s)
    BY ExecPlanned
  <2>2. CASE \E answer \in Answers : Finish(s, answer)
    BY <2>2
  <2>3. ASSUME NEW rows, NEW log, NEW tail, Planned(s, rows, log, tail),
               Write(s, rows, log, tail)
        PROVE  LinkTold(s)'
    <3>1. /\ WritesOK(rows) /\ rows.events = {} /\ log \in Seq(Event) /\ tail \in Seq(Event)
          /\ rows.links = NoRows
          /\ \A e \in Entries(log) \cup Entries(tail) : e.other = None
      BY <1>3, <2>3 DEF Planned
    <3>2. Progress(s, rows, log) /\ txn'[s].tail = tail
      BY <2>3, <3>1, WriteEffect
    <3>3. DOMAIN rows.links = {} /\ Numbered(rows.events)
      BY <3>1 DEF NoRows, Numbered
    <3>4. GoesOn(s, rows, log)
      BY <3>1, <3>2, <3>3 DEF GoesOn
    <3>5. \A j \in LinkKeys : KeyTold("items", rows.links, rows.events, j)
      BY <3>1, <3>3, NoneToldYet
    <3> QED BY <3>1, <3>4, <3>5, UntoldStands
  <2> QED BY <2>1, <2>2, <2>3 DEF PlannedStep
<1>4. ExecLink(s) \/ ExecUnlink(s) \/ q.cmd \notin RelationCommands
  BY DEF Exec, ExecCreate, ExecEdit, ExecMove, ExecArchive, ExecNote, ExecLand, ExecAttach,
         ExecDetach, ExecRelease, Ready, RelationCommands
<1> QED BY <1>1, <1>2, <1>3, <1>4

\* What a call that works on its items goes on with.
LEMMA ItemTold ==
  ASSUME TypeOK, NEW s \in Sessions, SessionInv(s), LinkTold(s), txn[s].phase = "items",
         NEW rows, WritesOK(rows), rows.events = w[s].events,
         \A k \in DOMAIN rows.links : rows.links[k] \in {"declared", "was_untyped"},
         NEW log \in Seq(Event), NextItem(s, rows, log),
         NEW c, \/ owner' = owner
                \/ Free(CardLock(c), s) /\ owner' = [owner EXCEPT ![CardLock(c)] = s]
  PROVE  GoesOn(s, rows, log)
<1>1. /\ Progress(s, rows, log) /\ txn'[s].tail = txn[s].tail /\ txn[s].tail \in Seq(Event)
  BY NextItemEffect
<1>2. \A e \in Entries(txn[s].tail) : e.other = None
  BY DEF LinkTold, Pending
<1>3. Numbered(rows.events)
  BY DEF SessionInv, SeqsFit
<1> QED BY <1>1, <1>2, <1>3 DEF GoesOn

\* A declared relation is told to both cards, or it stood already.
LEMMA DeclareTold ==
  ASSUME TypeOK, NEW s \in Sessions, SessionInv(s), LinkTold(s), DeclareItem(s)
  PROVE  LinkTold(s)' \/ Finish(s, "refused")
<1> DEFINE item == Head(txn[s].items)
           c == txn[s].card
           k == LinkKey(c, item.other, item.rel)
           seen == Overlay(w[s].links, links)
           new == LinkWritten(seen, k, TRUE)
           lock == CardLock(item.other)
           told == RelationLog("linked", k, c, None)
           merged == Merged(new, w[s].links)
           rows == [w[s] EXCEPT !.links = merged]
<1>1. txn[s].phase = "items" /\ txn[s].call.cmd # "release"
  BY DEF DeclareItem
<1>2. /\ TablesOK /\ WritesOK(w[s]) /\ c \in Cards /\ item \in LinkItem
  BY <1>1, ItemType
<1>3. item.other \in Cards /\ item.rel \in RelationNames /\ links \in LinkTable
      /\ Rows(w[s].links, LinkKeys, LinkStatus)
  BY <1>2 DEF LinkItem, TablesOK, WritesOK
<1>4. /\ seen \in LinkTable
      /\ \A j \in LinkKeys : seen[j] = IF j \in DOMAIN w[s].links THEN w[s].links[j] ELSE links[j]
  BY <1>3, OverlayType DEF Rows
<1>5. SUFFICES ASSUME item.other # c, Free(lock, s),
                      owner' = [owner EXCEPT ![lock] = s],
                      \/ NextItem(s, w[s], <<>>)
                      \/ ~LinkStands(seen, k, TRUE) /\ NextItem(s, rows, told)
               PROVE  LinkTold(s)'
  BY Zenon DEF DeclareItem
<1> HIDE DEF item
<1>6. Writable(k, TRUE) /\ k \in LinkKeys
  <2>1. Writable(k, TRUE)
    <3> HIDE DEF c
    <3> QED BY <1>2, <1>3, <1>5, LinkKeyWritable
  <2> QED BY <2>1 DEF Writable
<1>7. /\ \A j \in DOMAIN w[s].links : w[s].links[j] \in {"declared", "was_untyped"}
      /\ \A j \in LinkKeys : KeyTold("items", w[s].links, w[s].events, j)
  BY <1>1 DEF LinkTold
<1>8. CASE NextItem(s, w[s], <<>>)
  <2>1. <<>> \in Seq(Event) /\ Entries(<<>>) = {}
    BY DEF Entries
  <2>2. GoesOn(s, w[s], <<>>)
    BY <1>1, <1>2, <1>5, <1>7, <1>8, <2>1, ItemTold DEF lock
  <2> QED BY <1>7, <2>1, <2>2, UntoldStands
<1>9. CASE ~LinkStands(seen, k, TRUE) /\ NextItem(s, rows, told)
  <2> HIDE DEF k, seen
  <2>1. /\ Rows(new, LinkKeys, LinkStatus)
        /\ k \in DOMAIN new /\ new[k] = "declared"
        /\ \A j \in DOMAIN new \ {k} : new[j] = "was_untyped" /\ seen[j] = "untyped"
    BY <1>4, <1>6, WrittenRelation
  <2>2. seen[k] # "declared"
    BY <1>9 DEF LinkStands
  <2> HIDE DEF new
  <2>3. /\ DOMAIN merged = DOMAIN new \cup DOMAIN w[s].links
        /\ \A j \in DOMAIN merged :
              merged[j] = IF j \in DOMAIN new THEN new[j] ELSE w[s].links[j]
        /\ Rows(merged, LinkKeys, LinkStatus)
    BY <1>3, <2>1, MergedType DEF Merged
  <2> HIDE DEF merged
  <2>4. WritesOK(rows) /\ rows.events = w[s].events /\ rows.links = merged
    BY <1>2, <2>3, WrittenRows DEF WritesOK
  <2>5. \A j \in DOMAIN rows.links : rows.links[j] \in {"declared", "was_untyped"}
    BY <1>7, <2>1, <2>3, <2>4
  <2>6. told \in Seq(Event)
    BY <1>6, RelationLogType
  <2>7. GoesOn(s, rows, told)
    <3> HIDE DEF rows, told
    <3> QED BY <1>1, <1>5, <1>9, <2>4, <2>5, <2>6, ItemTold DEF lock
  <2> HIDE DEF rows
  <2>8. ASSUME NEW j \in DOMAIN new
        PROVE  /\ j \in LinkKeys
               /\ Out(w[s].events, j) = {} /\ In(w[s].events, j) = {}
    <3>1. j \in LinkKeys
      BY <2>1 DEF Rows
    <3>2. j \in DOMAIN w[s].links => w[s].links[j] = "was_untyped"
      BY <1>4, <1>7, <2>1, <2>2, <3>1
    <3>3. KeyTold("items", w[s].links, w[s].events, j)
      BY <1>7, <3>1
    <3> QED BY <3>1, <3>2, <3>3 DEF KeyTold, Live
  <2>9. ASSUME NEW j \in LinkKeys \ {k}
        PROVE  KeyTold("items", rows.links, rows.events, j)
    <3>1. CASE j \in DOMAIN new
      <4>1. rows.links[j] = "was_untyped"
        BY <2>1, <2>3, <2>4, <3>1
      <4> QED BY <2>4, <2>8, <3>1, <4>1 DEF KeyTold
    <3>2. CASE j \notin DOMAIN new
      <4>1. KeyTold("items", w[s].links, w[s].events, j)
        BY <1>7
      <4>2. /\ j \in DOMAIN rows.links <=> j \in DOMAIN w[s].links
            /\ j \in DOMAIN rows.links => rows.links[j] = w[s].links[j]
        BY <2>3, <2>4, <3>2
      <4> QED BY <2>4, <4>1, <4>2 DEF KeyTold, Live
    <3> QED BY <3>1, <3>2
  <2>10. k \in DOMAIN rows.links /\ Live(rows.links, k)
    BY <2>1, <2>3, <2>4 DEF Live
  <2>11. Out(rows.events, k) = {} /\ In(rows.events, k) = {}
    BY <2>1, <2>4, <2>8
  <2> HIDE DEF c
  <2> QED BY <1>6, <2>7, <2>9, <2>10, <2>11, ToldStands DEF told
<1> QED BY <1>5, <1>8, <1>9

\* A release tells of no relation.
LEMMA ReleaseTold ==
  ASSUME TypeOK, NEW s \in Sessions, SessionInv(s), LinkTold(s), ReleaseItem(s)
  PROVE  LinkTold(s)'
<1> DEFINE q == txn[s].call
           c == Head(txn[s].items)
           r == cards[c]
           done == txn[s].policy = "record_and_move_done" /\ r.state = "waiting"
           C == IF done THEN Merged([d \in {c} |-> [r EXCEPT !.state = "done"]], w[s].cards)
                ELSE w[s].cards
           e == [Ev(c, "released") EXCEPT !.version = q.version]
           m == [Ev(c, "moved") EXCEPT !.to = "done"]
           log == <<e>> \o (IF done THEN <<m>> ELSE <<>>)
           rows == [w[s] EXCEPT !.cards = C]
<1>1. /\ txn[s].phase = "items" /\ q.cmd = "release"
  BY DEF ReleaseItem
<1>2. /\ TablesOK /\ WritesOK(w[s]) /\ c \in Cards /\ q \in Calls
      /\ q.version \in Versions /\ r \in CardRow
  BY <1>1, ItemType, Arguments DEF TablesOK
<1>3. \/ /\ NextItem(s, w[s], <<>>)
         /\ \/ owner' = owner
            \/ Free(CardLock(c), s) /\ owner' = [owner EXCEPT ![CardLock(c)] = s]
      \/ /\ Free(CardLock(c), s) /\ owner' = [owner EXCEPT ![CardLock(c)] = s]
         /\ NextItem(s, rows, log)
  BY Zenon DEF ReleaseItem
<1>4. /\ \A j \in DOMAIN w[s].links : w[s].links[j] \in {"declared", "was_untyped"}
      /\ \A j \in LinkKeys : KeyTold("items", w[s].links, w[s].events, j)
  BY <1>1 DEF LinkTold
<1>5. CASE /\ NextItem(s, w[s], <<>>)
           /\ \/ owner' = owner
              \/ Free(CardLock(c), s) /\ owner' = [owner EXCEPT ![CardLock(c)] = s]
  <2>1. <<>> \in Seq(Event) /\ Entries(<<>>) = {}
    BY DEF Entries
  <2> HIDE DEF c
  <2>2. GoesOn(s, w[s], <<>>)
    BY <1>1, <1>2, <1>4, <1>5, <2>1, ItemTold
  <2> QED BY <1>4, <2>1, <2>2, UntoldStands
<1>6. CASE /\ Free(CardLock(c), s) /\ owner' = [owner EXCEPT ![CardLock(c)] = s]
           /\ NextItem(s, rows, log)
  <2>1. e \in Event /\ e.other = None /\ m \in Event /\ m.other = None
    <3>1. Ev(c, "released") \in Event /\ Ev(c, "moved") \in Event
      BY <1>2, EvType DEF EventTypes
    <3>2. e \in Event
      BY <1>2, <3>1, EventColumn
    <3>3. m \in Event
      <4>1. "done" \in CardStates \cup {None}
        BY DEF CardStates
      <4> QED BY <3>1, <4>1, EventColumn
    <3> QED BY <3>2, <3>3 DEF Ev
  <2>2. log \in Seq(Event) /\ \A f \in Entries(log) : f.other = None
    <3> HIDE DEF e, m, done
    <3> DEFINE first == <<e>>
               more == IF done THEN <<m>> ELSE <<>>
    <3>1. /\ first \in Seq(Event) /\ more \in Seq(Event)
          /\ Entries(first) = {e} /\ Entries(more) \subseteq {m}
      BY <2>1 DEF Entries
    <3>2. log = first \o more
      OBVIOUS
    <3> HIDE DEF first, more, log
    <3>3. Entries(log) \subseteq {e, m} /\ log \in Seq(Event)
      BY <3>1, <3>2, EntriesOf
    <3> QED BY <2>1, <3>3
  <2> HIDE DEF log
  <2>3. Rows(C, Cards, CardRow)
    <3>1. Rows(w[s].cards, Cards, CardRow)
      BY <1>2 DEF WritesOK
    <3> DEFINE row == [r EXCEPT !.state = "done"]
               finished == [d \in {c} |-> row]
    <3>2. row \in CardRow
      <4> HIDE DEF r
      <4> QED BY <1>2 DEF CardRow, CardStates
    <3> HIDE DEF row
    <3>3. Rows(finished, Cards, CardRow)
      BY <1>2, <3>2 DEF Rows
    <3> HIDE DEF finished
    <3>4. Rows(Merged(finished, w[s].cards), Cards, CardRow)
      BY <3>1, <3>3, MergedType
    <3> QED BY <3>1, <3>4 DEF finished, row
  <2> HIDE DEF C
  <2>4. WritesOK(rows) /\ rows.events = w[s].events /\ rows.links = w[s].links
    BY <1>2, <2>3, WrittenRows DEF WritesOK
  <2> HIDE DEF rows, c
  <2>5. GoesOn(s, rows, log)
    BY <1>1, <1>4, <1>6, <2>2, <2>4, ItemTold
  <2> QED BY <1>4, <2>2, <2>4, <2>5, UntoldStands
<1> QED BY <1>3, <1>5, <1>6

\* A call that ends has told of none.
LEMMA EndTold ==
  ASSUME TypeOK, NEW s \in Sessions, NEW answer, End(s, answer)
  PROVE  LinkTold(s)'
<1>1. txn'[s] = Idle /\ w'[s] = NoWrites
  BY EndEffect
<1>2. txn'[s].phase # "items"
  BY <1>1 DEF Idle
<1> QED BY <1>1, <1>2, NothingTold

\* Whatever it does, a call has told both cards of what it wrote.
LEMMA StepTold ==
  ASSUME TypeOK, LockInv, BoardInv, NEW s \in Sessions, LinkTold(s), Begin(s) \/ Step(s)
  PROVE  LinkTold(s)'
<1>1. /\ SeqsApart /\ OpenRows /\ RowsApart /\ CardFollowsHistory /\ SessionInv(s)
  BY DEF BoardInv
<1>2. ASSUME NEW answer, Finish(s, answer)
      PROVE  LinkTold(s)'
  BY <1>2, EndTold DEF Finish
<1>3. CASE Exec(s)
  BY <1>1, <1>2, <1>3, ExecTold
<1>4. CASE DeclareItem(s)
  BY <1>1, <1>2, <1>4, DeclareTold
<1>5. CASE ReleaseItem(s)
  BY <1>1, <1>5, ReleaseTold
<1>6. CASE UniqueViolation(s) \/ DeadlockAbort(s)
  BY <1>2, <1>6 DEF UniqueViolation, DeadlockAbort
<1>7. CASE Commit(s)
  BY <1>7, EndTold DEF Commit
<1>8. CASE TakeLock(s)
  <2>1. /\ txn[s].phase = "locking" /\ w'[s] = w[s]
        /\ txn'[s] = [txn[s] EXCEPT !.locks = Tail(txn[s].locks)]
    BY <1>8, TakeLockEffect
  <2>2. txn'[s].phase = txn[s].phase
    BY <2>1
  <2>3. w[s] = NoWrites
    BY <2>1 DEF LockInv, LocksTaken
  <2> QED BY <2>1, <2>2, <2>3, NothingTold
<1>9. CASE Begin(s)
  <2>1. w' = w /\ txn[s] = Idle /\ (UNCHANGED txn \/ txn'[s].phase = "locking")
    BY <1>9, BeginEffect
  <2>2. txn[s].phase = "idle" /\ w[s] = NoWrites
    BY <2>1 DEF LockInv, LocksTaken, Idle
  <2>3. txn'[s].phase # "items" /\ w'[s] = NoWrites
    BY <2>1, <2>2
  <2> QED BY <2>3, NothingTold
<1>10. \/ Begin(s) \/ TakeLock(s) \/ Exec(s) \/ DeclareItem(s) \/ ReleaseItem(s)
       \/ Commit(s) \/ UniqueViolation(s) \/ DeadlockAbort(s)
  BY DEF Step
<1> QED BY <1>3, <1>4, <1>5, <1>6, <1>7, <1>8, <1>9, <1>10

-----------------------------------------------------------------------------
(* A commit adds the same story to both streams. *)

\* The events of a type.
OfType(E, t) == {e \in E : e.type = t}

\* What the two streams say of one relation.
KeyFollows(E, L, k) ==
    LET last == {e.type : e \in Latest(Out(E, k))}
    IN  /\ \A t \in {"linked", "unlinked"} :
              Cardinality(OfType(Out(E, k), t)) = Cardinality(OfType(In(E, k), t))
        /\ last = {e.type : e \in Latest(In(E, k))}
        /\ L[k] = "none" => last = {}
        /\ Live(L, k) => last = {"linked"}
        /\ L[k] = "was_declared" => last = {"unlinked"}

\* That is what the property asks of every relation.
LEMMA StoriesOfKeys ==
  LinksFollowHistory <=> \A k \in LinkKeys : KeyFollows(events, links, k)
  BY DEF LinksFollowHistory, KeyFollows, OfType, Out, In

\* An event after all the others is the last, and counts once under its type.
LEMMA OneMoreTold ==
  ASSUME NEW F \in SUBSET Event, IsFiniteSet(F), NEW e \in Event,
         \A f \in F : f.seq < e.seq, NEW t
  PROVE  /\ Latest(F \cup {e}) = {e}
         /\ Cardinality(OfType(F, t)) \in Nat
         /\ Cardinality(OfType(F \cup {e}, t))
               = Cardinality(OfType(F, t)) + IF e.type = t THEN 1 ELSE 0
<1> DEFINE S == OfType(F, t)
<1>1. Latest(F \cup {e}) = {e}
  <2> DEFINE G == {e}
  <2>1. G \in SUBSET Event /\ IsFiniteSet(G) /\ G # {} /\ \A f \in F, g \in G : f.seq < g.seq
    BY FS_Singleton
  <2> HIDE DEF G
  <2>2. Latest(F \cup G) \subseteq G /\ Latest(F \cup G) # {}
    BY <2>1, LatestOfMore
  <2> QED BY <2>2 DEF G
<1>2. IsFiniteSet(S) /\ Cardinality(S) \in Nat
  BY FS_Subset, FS_CardinalityType DEF OfType
<1>3. e \notin S
  <2>1. e.seq \in Nat
    BY DEF Event
  <2> QED BY <2>1 DEF OfType
<1>4. OfType(F \cup {e}, t) = IF e.type = t THEN S \cup {e} ELSE S
  BY DEF OfType
<1> HIDE DEF S
<1>5. Cardinality(S \cup {e}) = Cardinality(S) + 1
  BY <1>2, <1>3, FS_AddElement
<1>6. Cardinality(OfType(F \cup {e}, t)) = Cardinality(S) + IF e.type = t THEN 1 ELSE 0
  BY <1>2, <1>4, <1>5
<1> QED BY <1>1, <1>2, <1>6 DEF S

\* The committed relation and its two streams, once a call has published.
LEMMA KeyPublished ==
  ASSUME TypeOK, NEW s \in Sessions, SessionInv(s), LinkTold(s), Commit(s),
         NEW k \in LinkKeys, KeyFollows(events, links, k)
  PROVE  KeyFollows(events', links', k)
<1> DEFINE L == w[s].links
           E == w[s].events
           O == Out(events, k)
           I == In(events, k)
<1>1. /\ links' = Overlay(L, links) /\ events' = events \cup E
      /\ txn[s].phase = "commit"
  BY DEF Commit
<1>2. /\ links \in LinkTable /\ Rows(L, LinkKeys, LinkStatus)
      /\ events \in SUBSET Event /\ IsFiniteSet(events) /\ E \in SUBSET Event
  BY DEF TypeOK, TablesOK, WritesOK
<1>3. links'[k] = IF k \in DOMAIN L THEN L[k] ELSE links[k]
  BY <1>1, <1>2, OverlayType DEF Rows
<1>4. Numbered(E)
  BY DEF SessionInv, SeqsFit
<1>5. KeyTold("commit", L, E, k)
  BY <1>1 DEF LinkTold
<1>6. /\ O \in SUBSET Event /\ IsFiniteSet(O) /\ I \in SUBSET Event /\ IsFiniteSet(I)
  BY <1>2, FS_Subset DEF Out, In
<1>7. Out(events', k) = O \cup Out(E, k) /\ In(events', k) = I \cup In(E, k)
  BY <1>1 DEF Out, In
<1>8. CASE Out(E, k) = {} /\ In(E, k) = {} /\ (k \in DOMAIN L => L[k] = "was_untyped")
  <2>1. Out(events', k) = O /\ In(events', k) = I
    BY <1>7, <1>8
  <2>2. links'[k] = links[k] \/ links'[k] = "was_untyped"
    BY <1>3, <1>8
  <2> HIDE DEF L, E
  <2> QED BY <2>1, <2>2 DEF KeyFollows, Live
<1>9. ASSUME NEW t \in {"linked", "unlinked"}, ToldOnce(E, k, t)
      PROVE  /\ \A u : Cardinality(OfType(O, u)) = Cardinality(OfType(I, u))
                         => Cardinality(OfType(Out(events', k), u))
                              = Cardinality(OfType(In(events', k), u))
             /\ {e.type : e \in Latest(Out(events', k))} = {t}
             /\ {e.type : e \in Latest(In(events', k))} = {t}
  <2>1. PICK e, f : Out(E, k) = {e} /\ In(E, k) = {f} /\ e.type = t /\ f.type = t
    BY <1>9 DEF ToldOnce
  <2>2. e \in Out(E, k) /\ f \in In(E, k)
    BY <2>1
  <2>3. /\ e \in E /\ e \in Event /\ e.card = k[1]
        /\ f \in E /\ f \in Event /\ f.card = k[2]
    BY <1>2, <2>2 DEF Out, In
  <2>4. /\ \A g \in O : g.seq < e.seq
        /\ \A g \in I : g.seq < f.seq
    BY <1>4, <2>3 DEF Numbered, Out, In
  <2>5. Out(events', k) = O \cup {e} /\ In(events', k) = I \cup {f}
    BY <1>7, <2>1
  <2> HIDE DEF O, I, E
  <2>6. Latest(O \cup {e}) = {e} /\ Latest(I \cup {f}) = {f}
    BY <1>6, <2>3, <2>4, OneMoreTold
  <2>7. ASSUME NEW u, Cardinality(OfType(O, u)) = Cardinality(OfType(I, u))
        PROVE  Cardinality(OfType(O \cup {e}, u)) = Cardinality(OfType(I \cup {f}, u))
    <3>1. Cardinality(OfType(O \cup {e}, u))
            = Cardinality(OfType(O, u)) + IF e.type = u THEN 1 ELSE 0
      BY <1>6, <2>3, <2>4, OneMoreTold
    <3>2. Cardinality(OfType(I \cup {f}, u))
            = Cardinality(OfType(I, u)) + IF f.type = u THEN 1 ELSE 0
      BY <1>6, <2>3, <2>4, OneMoreTold
    <3> QED BY <2>1, <2>7, <3>1, <3>2
  <2> QED BY <2>1, <2>5, <2>6, <2>7
<1>10. \A t \in {"linked", "unlinked"} :
          Cardinality(OfType(O, t)) = Cardinality(OfType(I, t))
  BY DEF KeyFollows
<1> HIDE DEF O, I, E
<1>11. CASE k \in DOMAIN L /\ Live(L, k) /\ ToldOnce(E, k, "linked")
  <2>1. links'[k] \in {"untyped", "declared"}
    BY <1>3, <1>11 DEF Live
  <2> HIDE DEF L
  <2> QED BY <1>9, <1>10, <1>11, <2>1 DEF KeyFollows, Live
<1>12. CASE k \in DOMAIN L /\ L[k] \in {"was_declared", "was_untyped"}
            /\ ToldOnce(E, k, "unlinked")
  <2>1. links'[k] \in {"was_declared", "was_untyped"}
    BY <1>3, <1>12
  <2> HIDE DEF L
  <2> QED BY <1>9, <1>10, <1>12, <2>1 DEF KeyFollows, Live
<1> QED BY <1>5, <1>8, <1>11, <1>12 DEF KeyTold

\* The streams and the table agree on every relation, and so does what each
\* session is to add to them.
StoryInv ==
    /\ \A k \in LinkKeys : KeyFollows(events, links, k)
    /\ \A s \in Sessions : LinkTold(s)

\* No card has heard of a relation at the start.
LEMMA InitStory == Init => StoryInv
<1> SUFFICES ASSUME Init PROVE StoryInv
  OBVIOUS
<1>1. events = {[Ev(c, "created") EXCEPT !.seq = 1, !.to = "idea",
                                         !.linksNote = c \notin LegacyCards] : c \in OpenCards}
      /\ links = [k \in LinkKeys |-> "none"]
      /\ txn = [s \in Sessions |-> Idle] /\ w = [s \in Sessions |-> NoWrites]
  BY DEF Init
<1>2. \A e \in events : e.other = None
  BY <1>1 DEF Ev
<1>3. \A k \in LinkKeys : Out(events, k) = {} /\ In(events, k) = {}
  BY <1>2, BoardAssumption DEF Out, In, LinkKeys
<1>4. Latest({}) = {}
  BY DEF Latest
<1>5. \A k \in LinkKeys : KeyFollows(events, links, k)
  <2>1. ASSUME NEW k \in LinkKeys PROVE KeyFollows(events, links, k)
    <3>1. links[k] = "none"
      BY <1>1
    <3>2. Out(events, k) = {} /\ In(events, k) = {}
      BY <1>3
    <3> QED BY <1>4, <3>1, <3>2 DEF KeyFollows, Live
  <2> QED BY <2>1
<1>6. ASSUME NEW s \in Sessions PROVE LinkTold(s)
  <2>1. txn[s].phase = "idle" /\ w[s].events = {} /\ DOMAIN w[s].links = {}
    BY <1>1 DEF Idle, NoWrites, NoRows
  <2>2. \A k \in LinkKeys : Out(w[s].events, k) = {} /\ In(w[s].events, k) = {}
    BY <2>1 DEF Out, In
  <2> QED BY <2>1, <2>2 DEF LinkTold, Pending, KeyTold
<1> QED BY <1>5, <1>6 DEF StoryInv

\* Every step keeps them in agreement.
LEMMA NextStory ==
  ASSUME TypeOK, LinkInv, LockInv, BoardInv, StoryInv, [Next]_vars
  PROVE  StoryInv'
<1>1. ASSUME NEW s \in Sessions, Begin(s) \/ Step(s)
      PROVE  StoryInv'
  <2>1. LinkTold(s)'
    BY <1>1, StepTold DEF StoryInv
  <2>2. OthersKeep(s) /\ (Commit(s) \/ UNCHANGED tables)
    <3>1. Commit(s) => OthersKeep(s)
      BY EndEffect DEF Commit
    <3> QED BY <1>1, <3>1, StepQuiet DEF Quiet
  <2>3. \A r \in Sessions : LinkTold(r)'
    BY <2>1, <2>2, OthersTold DEF StoryInv
  <2>4. \A k \in LinkKeys : KeyFollows(events', links', k)
    <3>1. CASE Commit(s)
      BY <3>1, KeyPublished DEF StoryInv, BoardInv
    <3>2. CASE UNCHANGED tables
      BY <3>2 DEF StoryInv, tables
    <3> QED BY <2>2, <3>1, <3>2
  <2> QED BY <2>3, <2>4 DEF StoryInv
<1>2. CASE UNCHANGED <<tables, txn, w>>
  <2>1. events' = events /\ links' = links /\ txn' = txn /\ w' = w
    BY <1>2 DEF tables
  <2>2. \A k \in LinkKeys : KeyFollows(events', links', k)
    BY <2>1 DEF StoryInv
  <2>3. \A s \in Sessions : LinkTold(s)'
    BY <2>1 DEF StoryInv, LinkTold, Pending, Entries, KeyTold, Out, In, ToldOnce, Live
  <2> QED BY <2>2, <2>3 DEF StoryInv
<1>3. \/ \E s \in Sessions : Begin(s) \/ Step(s)
      \/ UNCHANGED <<tables, txn, w>>
  BY DEF Next, Configure, CloseLoop, Done, vars
<1> QED BY <1>1, <1>2, <1>3

\* In every reachable state both cards of a pair have heard the same of their
\* relations, up to what running calls are still to publish.
THEOREM StoriesAgree == Spec => []StoryInv
<1>1. TypeOK /\ LinkInv /\ LockInv /\ BoardInv /\ StoryInv /\ [Next]_vars => StoryInv'
  BY NextStory
<1> QED BY <1>1, InitStory, TypeCorrect, LinksHeldAndSound, LocksTakenInOrder, BoardHolds, PTL
     DEF Spec

\* The streams of the two cards of a relation tell the same of it, and their
\* last word is whether it stands.
THEOREM RelationsTold == Spec => []LinksFollowHistory
<1>1. StoryInv => LinksFollowHistory
  BY StoriesOfKeys DEF StoryInv
<1> QED BY <1>1, StoriesAgree, PTL

-----------------------------------------------------------------------------
(* Calls take effect as if they ran alone. *)

\* The rows x of a call are what it would write now.
AsIfAlone(s, x) ==
    CardAsIfAlone(s, x) /\ BranchAsIfAlone(s, x) /\ OthersAsIfAlone(s, x)

\* A step changes nothing that a call with the rows x reads.
Undisturbed(s, x) ==
    LET q == txn[s].call
        c == txn[s].card
    IN  /\ q.cmd # "release" =>
              /\ cards'[c] = cards[c] /\ branches'[c] = branches[c] /\ refs'[c] = refs[c]
              /\ \A e \in events \cup events' : e.card = c => (e \in events' <=> e \in events)
              /\ \A k \in LinkKeys : c \in {k[1], k[2]} => links'[k] = links[k]
        /\ Creates(q) => \A d \in Cards : SameIdentity(cards'[d], cards[d])
        /\ q.cmd \in RelationCommands => links' = links /\ cards'[q.card] = cards[q.card]
        /\ q.cmd = "release" => \A d \in DOMAIN x.cards : cards'[d] = cards[d]

\* Nor does it change what the checks of a card come to.
LEMMA SameChecks ==
  ASSUME NEW c, branches'[c] = branches[c],
         \A e \in events \cup events' : e.card = c => (e \in events' <=> e \in events),
         \A k \in LinkKeys : c \in {k[1], k[2]} => links'[k] = links[k]
  PROVE  /\ OpenBranches(c)' = OpenBranches(c)
         /\ LinksAssessed(c)' <=> LinksAssessed(c)
         /\ \A b, sha : LandingOnRecord(c, b, sha)' <=> LandingOnRecord(c, b, sha)
         /\ \A b : BranchOpened(c, b)' = BranchOpened(c, b)
<1>1. OpenBranches(c)' = OpenBranches(c)
  BY DEF OpenBranches
<1>2. LinksAssessed(c)' <=> LinksAssessed(c)
  <2>1. EverDeclared(links, c)' <=> EverDeclared(links, c)
    BY DEF EverDeclared
  <2> HIDE DEF EverDeclared
  <2> QED BY <2>1 DEF LinksAssessed
<1>3. \A b, sha : LandingOnRecord(c, b, sha)' <=> LandingOnRecord(c, b, sha)
  BY DEF LandingOnRecord, SameSha
<1>4. \A b : BranchOpened(c, b)' = BranchOpened(c, b)
  BY DEF BranchOpened, OpenBranch, NoRows
<1> QED BY <1>1, <1>2, <1>3, <1>4

\* The number a new card gets, and whether its key or its loop is taken.
LEMMA SameNumbers ==
  ASSUME \A d \in Cards : SameIdentity(cards'[d], cards[d]), NEW q, Creates(q)
  PROVE  /\ NewRow(q)' = NewRow(q)
         /\ CreateReplayed(q)' <=> CreateReplayed(q)
         /\ CreateRefused(q)' <=> CreateRefused(q)
<1>1. {cards'[c].number : c \in Cards} = {cards[c].number : c \in Cards}
  BY DEF SameIdentity
<1>2. NextNumber' = NextNumber
  BY <1>1 DEF NextNumber
<1>3. NewRow(q)' = NewRow(q)
  BY <1>2 DEF NewRow
<1>4. CreateReplayed(q)' <=> CreateReplayed(q)
  BY DEF CreateReplayed, KeyOnRecord, SameIdentity, Creates
<1>5. CreateRefused(q)' <=> CreateRefused(q)
  BY DEF CreateRefused, SameIdentity
<1> QED BY <1>3, <1>4, <1>5

\* So a call that would have written its rows before the step would write them
\* after it.
LEMMA AloneKept ==
  ASSUME NEW s \in Sessions, SameCall(s), NEW x, AsIfAlone(s, x), Undisturbed(s, x)
  PROVE  AsIfAlone(s, x)'
<1>1. PICK q, c, read : q = txn[s].call /\ c = txn[s].card /\ read = txn[s].seen
  OBVIOUS
<1>2. txn'[s].call = q /\ txn'[s].card = c /\ txn'[s].seen = read
  BY <1>1 DEF SameCall
<1>3. q.cmd # "release" =>
         /\ cards'[c] = cards[c] /\ branches'[c] = branches[c] /\ refs'[c] = refs[c]
         /\ OpenBranches(c)' = OpenBranches(c)
         /\ LinksAssessed(c)' <=> LinksAssessed(c)
         /\ \A b, sha : LandingOnRecord(c, b, sha)' <=> LandingOnRecord(c, b, sha)
         /\ \A b : BranchOpened(c, b)' = BranchOpened(c, b)
  BY <1>1, SameChecks DEF Undisturbed
<1>4. CardAsIfAlone(s, x)'
  <2> DEFINE Only(row) == [d \in {c} |-> row]
  <2>1. ASSUME q.cmd \in {"create", "promote"}
        PROVE  /\ ~CreateReplayed(q)' /\ ~CreateRefused(q)'
               /\ WroteRows(x, Only(NewRow(q)'), BranchOpened(c, q.branch)', NoRows)
    <3>1. /\ ~CreateReplayed(q) /\ ~CreateRefused(q)
          /\ WroteRows(x, Only(NewRow(q)), BranchOpened(c, q.branch), NoRows)
      BY <1>1, <2>1 DEF AsIfAlone, CardAsIfAlone
    <3>2. Creates(q) /\ \A d \in Cards : SameIdentity(cards'[d], cards[d])
      BY <1>1, <2>1 DEF Undisturbed, Creates
    <3> QED BY <1>3, <2>1, <3>1, <3>2, SameNumbers
  <2>2. ASSUME q.cmd = "edit"
        PROVE  /\ ~EditRefused(q, cards'[c], read[c]) /\ ~EditSame(q, cards'[c])
               /\ WroteRows(x, Only(EditedRow(q, cards'[c])), NoRows, NoRows)
    BY <1>1, <1>3, <2>2 DEF AsIfAlone, CardAsIfAlone
  <2>3. ASSUME q.cmd = "move"
        PROVE  /\ ~MoveRefused(q, c)'
               /\ WroteRows(x, Only(MoveRow(q, cards'[c])), BranchOpened(c, q.branch)', NoRows)
    <3>1. /\ ~MoveRefused(q, c)
          /\ WroteRows(x, Only(MoveRow(q, cards[c])), BranchOpened(c, q.branch), NoRows)
      BY <1>1, <2>3 DEF AsIfAlone, CardAsIfAlone
    <3>2. MoveRefused(q, c)' <=> MoveRefused(q, c)
      BY <1>3, <2>3 DEF MoveRefused, NoWorkBranch, LeavesOpen
    <3> QED BY <1>3, <2>3, <3>1, <3>2
  <2>4. ASSUME q.cmd = "archive"
        PROVE  /\ ~cards'[c].archived
               /\ WroteRows(x, Only([cards'[c] EXCEPT !.archived = TRUE]), NoRows, NoRows)
    BY <1>1, <1>3, <2>4 DEF AsIfAlone, CardAsIfAlone
  <2>5. ASSUME q.cmd = "note"
        PROVE  ~cards'[c].archived /\ WroteRows(x, NoRows, NoRows, NoRows)
    BY <1>1, <1>3, <2>5 DEF AsIfAlone, CardAsIfAlone
  <2> QED BY <1>2, <2>1, <2>2, <2>3, <2>4, <2>5 DEF CardAsIfAlone
<1>5. BranchAsIfAlone(s, x)'
  <2> DEFINE Only(row) == [d \in {c} |-> row]
             there == branches[c][q.target].state # "none"
             gone == [branches[c] EXCEPT ![q.target] = NoBranch]
  <2>1. ASSUME q.cmd = "land"
        PROVE  /\ ~cards'[c].archived /\ ~LandingOnRecord(c, q.branch, q.sha)'
               /\ ~LandRefused(q, c)'
               /\ WroteRows(x, Only([cards'[c] EXCEPT !.state = q.to]),
                            Only([branches'[c] EXCEPT ![q.branch] =
                                     [state |-> "landed", sha |-> q.sha]]), NoRows)
    <3>1. /\ ~cards[c].archived /\ ~LandingOnRecord(c, q.branch, q.sha)
          /\ ~LandRefused(q, c)
          /\ WroteRows(x, Only([cards[c] EXCEPT !.state = q.to]),
                       Only([branches[c] EXCEPT ![q.branch] =
                                [state |-> "landed", sha |-> q.sha]]), NoRows)
      BY <1>1, <2>1 DEF AsIfAlone, BranchAsIfAlone
    <3>2. LandRefused(q, c)' <=> LandRefused(q, c)
      BY <1>3, <2>1 DEF LandRefused, LeavesOpen
    <3> QED BY <1>3, <2>1, <3>1, <3>2
  <2>2. ASSUME q.cmd = "attach_branch"
        PROVE  /\ ~cards'[c].archived /\ ~there'
               /\ WroteRows(x, NoRows, BranchOpened(c, q.target)', NoRows)
    BY <1>1, <1>3, <2>2 DEF AsIfAlone, BranchAsIfAlone
  <2>3. ASSUME q.cmd = "attach_ref"
        PROVE  /\ ~cards'[c].archived /\ q.target \notin refs'[c]
               /\ WroteRows(x, NoRows, NoRows, Only(refs'[c] \cup {q.target}))
    BY <1>1, <1>3, <2>3 DEF AsIfAlone, BranchAsIfAlone
  <2>4. ASSUME q.cmd = "detach_branch"
        PROVE  /\ ~cards'[c].archived /\ there'
               /\ WroteRows(x, NoRows, Only([branches'[c] EXCEPT ![q.target] = NoBranch]), NoRows)
    BY <1>1, <1>3, <2>4 DEF AsIfAlone, BranchAsIfAlone
  <2>5. ASSUME q.cmd = "detach_ref"
        PROVE  /\ ~cards'[c].archived /\ q.target \in refs'[c]
               /\ WroteRows(x, NoRows, NoRows, Only(refs'[c] \ {q.target}))
    BY <1>1, <1>3, <2>5 DEF AsIfAlone, BranchAsIfAlone
  <2> QED BY <1>2, <2>1, <2>2, <2>3, <2>4, <2>5 DEF BranchAsIfAlone
<1>6. OthersAsIfAlone(s, x)'
  <2> DEFINE k == LinkKey(q.card, q.other, q.rel)
             declared == q.cmd = "link"
  <2>1. ASSUME q.cmd \in {"link", "attach_card"}
        PROVE  /\ declared => ~LinkRefused(links', k)
               /\ ~declared => ~cards'[q.card].archived
               /\ ~LinkStands(links', k, declared)
               /\ x.links = LinkWritten(links', k, declared)
    <3>1. links' = links /\ cards'[q.card] = cards[q.card]
      BY <1>1, <2>1 DEF Undisturbed, RelationCommands
    <3> QED BY <1>1, <2>1, <3>1 DEF AsIfAlone, OthersAsIfAlone
  <2>2. ASSUME q.cmd \in {"unlink", "detach_card"}
        PROVE  Live(links', k) /\ x.links = Unlinked(links', k)
    <3>1. links' = links
      BY <1>1, <2>2 DEF Undisturbed, RelationCommands
    <3> QED BY <1>1, <2>2, <3>1 DEF AsIfAlone, OthersAsIfAlone
  <2>3. q.cmd \in RelationCommands => WroteRows(x, NoRows, NoRows, NoRows)
    BY <1>1 DEF AsIfAlone, OthersAsIfAlone
  <2>4. ASSUME q.cmd = "release"
        PROVE  /\ x.branches = NoRows /\ x.refs = NoRows
               /\ \A d \in DOMAIN x.cards :
                     /\ cards'[d].state = "waiting" /\ ~cards'[d].archived
                     /\ x.cards[d] = [cards'[d] EXCEPT !.state = "done"]
    BY <1>1, <2>4 DEF AsIfAlone, OthersAsIfAlone, Undisturbed
  <2> QED BY <1>2, <2>1, <2>2, <2>3, <2>4 DEF OthersAsIfAlone
<1> QED BY <1>4, <1>5, <1>6 DEF AsIfAlone

\* A step of s that writes on leaves it, and the tables, with the rows written.
Writes(s, C, B, R, L) ==
    /\ w'[s].cards = C /\ w'[s].branches = B /\ w'[s].refs = R /\ w'[s].links = L
    /\ SameCall(s) /\ Written(s)' /\ UNCHANGED <<tables, owner>>

\* A command leaves the rows it names.
LEMMA WriteWrites ==
  ASSUME TypeOK, NEW s \in Sessions, NEW C, NEW B, NEW R, NEW L, NEW rows,
         rows.cards = C, rows.branches = B, rows.refs = R, rows.links = L,
         DOMAIN rows = DOMAIN NoWrites, NEW log, NEW tail, Write(s, rows, log, tail)
  PROVE  Writes(s, C, B, R, L)
<1>1. PICK N, phase :
         /\ w' = [w EXCEPT ![s] = [rows EXCEPT !.events = N]]
         /\ txn' = [txn EXCEPT ![s].phase = phase, ![s].tail = tail]
         /\ phase \in {"items", "commit"}
         /\ UNCHANGED <<tables, owner>>
  BY DEF Write
<1>2. w'[s] = [rows EXCEPT !.events = N]
  BY <1>1 DEF TypeOK
<1>3. /\ w'[s].cards = C /\ w'[s].branches = B /\ w'[s].refs = R /\ w'[s].links = L
  BY <1>2 DEF NoWrites
<1>4. /\ txn'[s].phase = phase /\ txn'[s].call = txn[s].call
      /\ txn'[s].card = txn[s].card /\ txn'[s].seen = txn[s].seen
  BY <1>1 DEF TypeOK, TxnOK, Txn
<1> QED BY <1>1, <1>3, <1>4 DEF Writes, SameCall, Written

\* The rows of each kind of command.
LEMMA WriteKinds ==
  ASSUME TypeOK, NEW s \in Sessions, NEW C, NEW B, NEW R, NEW L, NEW log, NEW tail
  PROVE  /\ Write(s, [NoWrites EXCEPT !.cards = C, !.branches = B], log, tail) =>
               Writes(s, C, B, NoRows, NoRows)
         /\ Write(s, [NoWrites EXCEPT !.cards = C], log, tail) =>
               Writes(s, C, NoRows, NoRows, NoRows)
         /\ Write(s, [NoWrites EXCEPT !.branches = B], log, tail) =>
               Writes(s, NoRows, B, NoRows, NoRows)
         /\ Write(s, [NoWrites EXCEPT !.refs = R], log, tail) =>
               Writes(s, NoRows, NoRows, R, NoRows)
         /\ Write(s, [NoWrites EXCEPT !.links = L], log, tail) =>
               Writes(s, NoRows, NoRows, NoRows, L)
         /\ \A v : Write(s, [NoWrites EXCEPT !.version = v], log, tail) =>
               Writes(s, NoRows, NoRows, NoRows, NoRows)
         /\ Write(s, NoWrites, log, tail) => Writes(s, NoRows, NoRows, NoRows, NoRows)
<1>1. ASSUME NEW x, NEW c, NEW b, NEW r, NEW l,
             x.cards = c, x.branches = b, x.refs = r, x.links = l,
             DOMAIN x = DOMAIN NoWrites, Write(s, x, log, tail)
      PROVE  Writes(s, c, b, r, l)
  BY <1>1, WriteWrites
<1>2. ASSUME NEW x, x = [NoWrites EXCEPT !.cards = C, !.branches = B]
      PROVE  /\ x.cards = C /\ x.branches = B /\ x.refs = NoRows /\ x.links = NoRows
             /\ DOMAIN x = DOMAIN NoWrites
  BY <1>2 DEF NoWrites
<1>3. ASSUME NEW x, x = [NoWrites EXCEPT !.cards = C]
      PROVE  /\ x.cards = C /\ x.branches = NoRows /\ x.refs = NoRows /\ x.links = NoRows
             /\ DOMAIN x = DOMAIN NoWrites
  BY <1>3 DEF NoWrites
<1>4. ASSUME NEW x, x = [NoWrites EXCEPT !.branches = B]
      PROVE  /\ x.cards = NoRows /\ x.branches = B /\ x.refs = NoRows /\ x.links = NoRows
             /\ DOMAIN x = DOMAIN NoWrites
  BY <1>4 DEF NoWrites
<1>5. ASSUME NEW x, x = [NoWrites EXCEPT !.refs = R]
      PROVE  /\ x.cards = NoRows /\ x.branches = NoRows /\ x.refs = R /\ x.links = NoRows
             /\ DOMAIN x = DOMAIN NoWrites
  BY <1>5 DEF NoWrites
<1>6. ASSUME NEW x, x = [NoWrites EXCEPT !.links = L]
      PROVE  /\ x.cards = NoRows /\ x.branches = NoRows /\ x.refs = NoRows /\ x.links = L
             /\ DOMAIN x = DOMAIN NoWrites
  BY <1>6 DEF NoWrites
<1>7. ASSUME NEW x, x = NoWrites \/ \E v : x = [NoWrites EXCEPT !.version = v]
      PROVE  /\ x.cards = NoRows /\ x.branches = NoRows /\ x.refs = NoRows
             /\ x.links = NoRows /\ DOMAIN x = DOMAIN NoWrites
  BY <1>7 DEF NoWrites
<1> QED BY <1>1, <1>2, <1>3, <1>4, <1>5, <1>6, <1>7

\* The row of the table relates the two cards.
Pairs(k, a, b) == {k[1], k[2]} = {a, b}

\* A step of a call that writes what it would write alone.
WritesAlone(s) ==
    \E x : /\ x = w'[s] /\ AsIfAlone(s, x)
           /\ SameCall(s) /\ Written(s)' /\ UNCHANGED <<tables, owner>>
           /\ txn[s].call.cmd = "release" => x.cards = NoRows
           /\ \A k \in DOMAIN x.links : /\ txn[s].call.cmd \in RelationCommands
                                        /\ Pairs(k, txn[s].call.card, txn[s].call.other)

\* create, promote, edit, move, archive and note.
LEMMA CardAlone ==
  ASSUME TypeOK, NEW s \in Sessions,
         ExecCreate(s) \/ ExecEdit(s) \/ ExecMove(s) \/ ExecArchive(s) \/ ExecNote(s)
  PROVE  WritesAlone(s) \/ \E answer : Finish(s, answer)
<1> DEFINE q == txn[s].call
           c == txn[s].card
           r == cards[c]
           Only(row) == [d \in {c} |-> row]
<1>1. PICK x : x = w'[s]
  OBVIOUS
<1>2. ASSUME NEW C, NEW B, Writes(s, C, B, NoRows, NoRows), CardAsIfAlone(s, x),
             q.cmd \in {"create", "promote", "edit", "move", "archive", "note"}
      PROVE  WritesAlone(s)
  <2>1. BranchAsIfAlone(s, x)
    BY <1>2 DEF BranchAsIfAlone
  <2>2. OthersAsIfAlone(s, x)
    BY <1>2 DEF OthersAsIfAlone, RelationCommands
  <2>3. DOMAIN x.links = {}
    BY <1>1, <1>2 DEF Writes, NoRows
  <2> QED BY <1>1, <1>2, <2>1, <2>2, <2>3 DEF WritesAlone, Writes, AsIfAlone
<1>3. CASE ExecCreate(s)
  <2> DEFINE C == Only(NewRow(q))
             B == BranchOpened(c, q.branch)
  <2>1. q.cmd \in {"create", "promote"}
    BY <1>3 DEF ExecCreate, Ready
  <2>2. CASE \E answer : Finish(s, answer)
    BY <2>2
  <2>3. ASSUME NEW log, NEW tail, ~CreateReplayed(q), ~CreateRefused(q),
               Write(s, [NoWrites EXCEPT !.cards = C, !.branches = B], log, tail)
        PROVE  WritesAlone(s)
    <3>1. Writes(s, C, B, NoRows, NoRows)
      BY <2>3, WriteKinds
    <3>2. CardAsIfAlone(s, x)
      BY <1>1, <2>1, <2>3, <3>1 DEF CardAsIfAlone, WroteRows, Writes
    <3> QED BY <1>2, <2>1, <3>1, <3>2
  <2> QED BY <1>3, <2>2, <2>3, Zenon DEF ExecCreate
<1>4. CASE ExecEdit(s)
  <2> DEFINE C == Only(EditedRow(q, r))
  <2>1. q.cmd = "edit"
    BY <1>4 DEF ExecEdit, Ready
  <2>2. CASE \E answer : Finish(s, answer)
    BY <2>2
  <2>3. ASSUME NEW log, NEW tail, ~EditRefused(q, r, txn[s].seen[c]), ~EditSame(q, r),
               Write(s, [NoWrites EXCEPT !.cards = C], log, tail)
        PROVE  WritesAlone(s)
    <3>1. Writes(s, C, NoRows, NoRows, NoRows)
      BY <2>3, WriteKinds
    <3>2. CardAsIfAlone(s, x)
      BY <1>1, <2>1, <2>3, <3>1 DEF CardAsIfAlone, WroteRows, Writes
    <3> QED BY <1>2, <2>1, <3>1, <3>2
  <2> QED BY <1>4, <2>2, <2>3, Zenon DEF ExecEdit
<1>5. CASE ExecMove(s)
  <2> DEFINE C == Only(MoveRow(q, r))
             B == BranchOpened(c, q.branch)
  <2>1. q.cmd = "move"
    BY <1>5 DEF ExecMove, Ready
  <2>2. CASE \E answer : Finish(s, answer)
    BY <2>2
  <2>3. ASSUME NEW log, NEW tail, ~MoveRefused(q, c),
               Write(s, [NoWrites EXCEPT !.cards = C, !.branches = B], log, tail)
        PROVE  WritesAlone(s)
    <3>1. Writes(s, C, B, NoRows, NoRows)
      BY <2>3, WriteKinds
    <3>2. CardAsIfAlone(s, x)
      BY <1>1, <2>1, <2>3, <3>1 DEF CardAsIfAlone, WroteRows, Writes
    <3> QED BY <1>2, <2>1, <3>1, <3>2
  <2> QED BY <1>5, <2>2, <2>3, Zenon DEF ExecMove
<1>6. CASE ExecArchive(s)
  <2> DEFINE C == Only([r EXCEPT !.archived = TRUE])
  <2>1. q.cmd = "archive"
    BY <1>6 DEF ExecArchive, Ready
  <2>2. CASE \E answer : Finish(s, answer)
    BY <2>2
  <2>3. ASSUME NEW log, NEW tail, ~r.archived,
               Write(s, [NoWrites EXCEPT !.cards = C], log, tail)
        PROVE  WritesAlone(s)
    <3>1. Writes(s, C, NoRows, NoRows, NoRows)
      BY <2>3, WriteKinds
    <3>2. CardAsIfAlone(s, x)
      BY <1>1, <2>1, <2>3, <3>1 DEF CardAsIfAlone, WroteRows, Writes
    <3> QED BY <1>2, <2>1, <3>1, <3>2
  <2> QED BY <1>6, <2>2, <2>3, Zenon DEF ExecArchive
<1>7. CASE ExecNote(s)
  <2>1. q.cmd = "note"
    BY <1>7 DEF ExecNote, Ready
  <2>2. CASE \E answer : Finish(s, answer)
    BY <2>2
  <2>3. ASSUME NEW log, NEW tail, ~r.archived, Write(s, NoWrites, log, tail)
        PROVE  WritesAlone(s)
    <3>1. Writes(s, NoRows, NoRows, NoRows, NoRows)
      BY <2>3, WriteKinds
    <3>2. CardAsIfAlone(s, x)
      BY <1>1, <2>1, <2>3, <3>1 DEF CardAsIfAlone, WroteRows, Writes
    <3> QED BY <1>2, <2>1, <3>1, <3>2
  <2> QED BY <1>7, <2>2, <2>3, Zenon DEF ExecNote
<1> QED BY <1>3, <1>4, <1>5, <1>6, <1>7

\* land, attach and detach.
LEMMA BranchAlone ==
  ASSUME TypeOK, NEW s \in Sessions, ExecLand(s) \/ ExecAttach(s) \/ ExecDetach(s)
  PROVE  WritesAlone(s) \/ \E answer : Finish(s, answer)
<1> DEFINE q == txn[s].call
           c == txn[s].card
           r == cards[c]
           Only(row) == [d \in {c} |-> row]
           there == branches[c][q.target].state # "none"
<1>1. PICK x : x = w'[s]
  OBVIOUS
<1>2. ASSUME NEW C, NEW B, NEW R, Writes(s, C, B, R, NoRows), BranchAsIfAlone(s, x),
             q.cmd \in {"land", "attach_branch", "attach_ref", "detach_branch", "detach_ref"}
      PROVE  WritesAlone(s)
  <2>1. CardAsIfAlone(s, x)
    BY <1>2 DEF CardAsIfAlone
  <2>2. OthersAsIfAlone(s, x)
    BY <1>2 DEF OthersAsIfAlone, RelationCommands
  <2>3. DOMAIN x.links = {}
    BY <1>1, <1>2 DEF Writes, NoRows
  <2> QED BY <1>1, <1>2, <2>1, <2>2, <2>3 DEF WritesAlone, Writes, AsIfAlone
<1>3. CASE ExecLand(s)
  <2> DEFINE C == Only([r EXCEPT !.state = q.to])
             B == Only([branches[c] EXCEPT ![q.branch] = [state |-> "landed", sha |-> q.sha]])
  <2>1. q.cmd = "land"
    BY <1>3 DEF ExecLand, Ready
  <2>2. CASE \E answer : Finish(s, answer)
    BY <2>2
  <2>3. ASSUME NEW log, NEW tail, ~r.archived, ~LandingOnRecord(c, q.branch, q.sha),
               ~LandRefused(q, c),
               Write(s, [NoWrites EXCEPT !.cards = C, !.branches = B], log, tail)
        PROVE  WritesAlone(s)
    <3>1. Writes(s, C, B, NoRows, NoRows)
      BY <2>3, WriteKinds
    <3>2. BranchAsIfAlone(s, x)
      BY <1>1, <2>1, <2>3, <3>1 DEF BranchAsIfAlone, WroteRows, Writes
    <3> QED BY <1>2, <2>1, <3>1, <3>2
  <2> QED BY <1>3, <2>2, <2>3, Zenon DEF ExecLand
<1>4. CASE ExecAttach(s)
  <2> DEFINE B == BranchOpened(c, q.target)
             R == Only(refs[c] \cup {q.target})
             attached == IF q.cmd = "attach_branch" THEN there ELSE q.target \in refs[c]
  <2>1. q.cmd \in {"attach_branch", "attach_ref"}
    BY <1>4 DEF ExecAttach, Ready
  <2>2. CASE \E answer : Finish(s, answer)
    BY <2>2
  <2>3. ASSUME NEW log, NEW tail, ~r.archived, ~attached,
               Write(s, IF q.cmd = "attach_branch"
                        THEN [NoWrites EXCEPT !.branches = B]
                        ELSE [NoWrites EXCEPT !.refs = R], log, tail)
        PROVE  WritesAlone(s)
    <3>1. CASE q.cmd = "attach_branch"
      <4>1. Writes(s, NoRows, B, NoRows, NoRows)
        BY <2>3, <3>1, WriteKinds
      <4>2. BranchAsIfAlone(s, x)
        BY <1>1, <2>3, <3>1, <4>1 DEF BranchAsIfAlone, WroteRows, Writes
      <4> QED BY <1>2, <2>1, <4>1, <4>2
    <3>2. CASE q.cmd = "attach_ref"
      <4>1. Writes(s, NoRows, NoRows, R, NoRows)
        BY <2>3, <3>2, WriteKinds
      <4>2. BranchAsIfAlone(s, x)
        BY <1>1, <2>3, <3>2, <4>1 DEF BranchAsIfAlone, WroteRows, Writes
      <4> QED BY <1>2, <2>1, <4>1, <4>2
    <3> QED BY <2>1, <3>1, <3>2
  <2> QED BY <1>4, <2>2, <2>3, Zenon DEF ExecAttach
<1>5. CASE ExecDetach(s)
  <2> DEFINE B == Only([branches[c] EXCEPT ![q.target] = NoBranch])
             R == Only(refs[c] \ {q.target})
             attached == IF q.cmd = "detach_branch" THEN there ELSE q.target \in refs[c]
  <2>1. q.cmd \in {"detach_branch", "detach_ref"}
    BY <1>5 DEF ExecDetach, Ready
  <2>2. CASE \E answer : Finish(s, answer)
    BY <2>2
  <2>3. ASSUME NEW log, NEW tail, ~r.archived, attached,
               Write(s, IF q.cmd = "detach_branch"
                        THEN [NoWrites EXCEPT !.branches = B]
                        ELSE [NoWrites EXCEPT !.refs = R], log, tail)
        PROVE  WritesAlone(s)
    <3>1. CASE q.cmd = "detach_branch"
      <4>1. Writes(s, NoRows, B, NoRows, NoRows)
        BY <2>3, <3>1, WriteKinds
      <4>2. BranchAsIfAlone(s, x)
        BY <1>1, <2>3, <3>1, <4>1 DEF BranchAsIfAlone, WroteRows, Writes
      <4> QED BY <1>2, <2>1, <4>1, <4>2
    <3>2. CASE q.cmd = "detach_ref"
      <4>1. Writes(s, NoRows, NoRows, R, NoRows)
        BY <2>3, <3>2, WriteKinds
      <4>2. BranchAsIfAlone(s, x)
        BY <1>1, <2>3, <3>2, <4>1 DEF BranchAsIfAlone, WroteRows, Writes
      <4> QED BY <1>2, <2>1, <4>1, <4>2
    <3> QED BY <2>1, <3>1, <3>2
  <2> QED BY <1>5, <2>2, <2>3, Zenon DEF ExecDetach
<1> QED BY <1>3, <1>4, <1>5

\* The cards of the rows a relation writes.
LEMMA WrittenPairs ==
  ASSUME NEW L, NEW a \in Cards, NEW b \in Cards, NEW rel, NEW declared
  PROVE  /\ \A j \in DOMAIN LinkWritten(L, LinkKey(a, b, rel), declared) : Pairs(j, a, b)
         /\ \A j \in DOMAIN Unlinked(L, LinkKey(a, b, rel)) : Pairs(j, a, b)
<1> DEFINE k == LinkKey(a, b, rel)
<1>1. {k[1], k[2]} = {a, b}
  BY LinkKeyPair
<1>2. /\ DOMAIN LinkWritten(L, k, declared) \subseteq {k, RelatesTo(k[1], k[2])}
      /\ DOMAIN Unlinked(L, k) = {k}
  BY DEF LinkWritten, Unlinked
<1> HIDE DEF k
<1>3. LET j == RelatesTo(k[1], k[2]) IN {j[1], j[2]} = {k[1], k[2]}
  <2>1. k[1] \in Nat /\ k[2] \in Nat
    BY <1>1, CardsAssumption
  <2> QED BY <2>1 DEF RelatesTo, Lesser, Greater
<1> QED BY <1>1, <1>2, <1>3 DEF k, Pairs

\* link, unlink, attach and detach of a card, and the start of a release.
LEMMA OthersAlone ==
  ASSUME TypeOK, NEW s \in Sessions, ExecLink(s) \/ ExecUnlink(s) \/ ExecRelease(s)
  PROVE  WritesAlone(s) \/ \E answer : Finish(s, answer)
<1> DEFINE q == txn[s].call
           k == LinkKey(q.card, q.other, q.rel)
<1>1. PICK x : x = w'[s]
  OBVIOUS
<1>2. ASSUME NEW L, Writes(s, NoRows, NoRows, NoRows, L), OthersAsIfAlone(s, x),
             q.cmd \in RelationCommands \cup {"release"},
             \A j \in DOMAIN L : /\ q.cmd \in RelationCommands
                                 /\ Pairs(j, q.card, q.other)
      PROVE  WritesAlone(s)
  <2>1. CardAsIfAlone(s, x)
    BY <1>2 DEF CardAsIfAlone, RelationCommands
  <2>2. BranchAsIfAlone(s, x)
    BY <1>2 DEF BranchAsIfAlone, RelationCommands
  <2> QED BY <1>1, <1>2, <2>1, <2>2 DEF WritesAlone, Writes, AsIfAlone
<1>3. ASSUME Ready(s, RelationCommands)
      PROVE  q.card \in Cards /\ q.other \in Cards
  BY <1>3, ReadyType, CallKinds DEF LinkCalls
<1>4. CASE ExecLink(s)
  <2> DEFINE declared == q.cmd = "link"
             L == LinkWritten(links, k, declared)
  <2>1. Ready(s, RelationCommands) /\ q.cmd \in {"link", "attach_card"}
    BY <1>4 DEF ExecLink, Ready, RelationCommands
  <2>2. CASE \E answer : Finish(s, answer)
    BY <2>2
  <2>3. ASSUME NEW log, NEW tail,
               ~((~declared /\ cards[q.card].archived) \/ (declared /\ LinkRefused(links, k))),
               ~LinkStands(links, k, declared),
               Write(s, [NoWrites EXCEPT !.links = L], log, tail)
        PROVE  WritesAlone(s)
    <3>1. Writes(s, NoRows, NoRows, NoRows, L)
      BY <2>3, WriteKinds
    <3>2. OthersAsIfAlone(s, x)
      BY <1>1, <2>1, <2>3, <3>1 DEF OthersAsIfAlone, WroteRows, Writes
    <3>3. \A j \in DOMAIN L : Pairs(j, q.card, q.other)
      <4>1. q.card \in Cards /\ q.other \in Cards
        BY <1>3, <2>1
      <4> HIDE DEF q
      <4> QED BY <4>1, WrittenPairs
    <3> QED BY <1>2, <2>1, <3>1, <3>2, <3>3 DEF RelationCommands
  <2> QED BY <1>4, <2>2, <2>3, Zenon DEF ExecLink
<1>5. CASE ExecUnlink(s)
  <2> DEFINE L == Unlinked(links, k)
  <2>1. Ready(s, RelationCommands) /\ q.cmd \in {"unlink", "detach_card"}
    BY <1>5 DEF ExecUnlink, Ready, RelationCommands
  <2>2. CASE \E answer : Finish(s, answer)
    BY <2>2
  <2>3. ASSUME NEW log, NEW tail, Live(links, k),
               Write(s, [NoWrites EXCEPT !.links = L], log, tail)
        PROVE  WritesAlone(s)
    <3>1. Writes(s, NoRows, NoRows, NoRows, L)
      BY <2>3, WriteKinds
    <3>2. OthersAsIfAlone(s, x)
      BY <1>1, <2>1, <2>3, <3>1 DEF OthersAsIfAlone, WroteRows, Writes
    <3>3. \A j \in DOMAIN L : Pairs(j, q.card, q.other)
      <4>1. q.card \in Cards /\ q.other \in Cards
        BY <1>3, <2>1
      <4> HIDE DEF q
      <4> QED BY <4>1, WrittenPairs
    <3> QED BY <1>2, <2>1, <3>1, <3>2, <3>3 DEF RelationCommands
  <2> QED BY <1>5, <2>2, <2>3, Zenon DEF ExecUnlink
<1>6. CASE ExecRelease(s)
  <2>1. /\ q.cmd = "release" /\ q.cmd \notin RelationCommands
        /\ Write(s, [NoWrites EXCEPT !.version = q.version], <<>>, <<>>)
    BY <1>6 DEF ExecRelease, Ready, RelationCommands
  <2>2. Writes(s, NoRows, NoRows, NoRows, NoRows)
    BY <2>1, WriteKinds
  <2>3. OthersAsIfAlone(s, x)
    BY <1>1, <2>1, <2>2 DEF OthersAsIfAlone, Writes, NoRows
  <2>4. DOMAIN NoRows = {}
    BY DEF NoRows
  <2> QED BY <1>2, <2>1, <2>2, <2>3, <2>4
<1> QED BY <1>4, <1>5, <1>6

\* Whatever it does, a command writes what it would write alone.
LEMMA ExecAlone ==
  ASSUME TypeOK, NEW s \in Sessions, Exec(s)
  PROVE  WritesAlone(s) \/ \E answer : Finish(s, answer)
  BY CardAlone, BranchAlone, OthersAlone DEF Exec

\* A call that has written would write the same now, and owns the cards of the
\* relations it wrote.
AloneHeld(s) ==
    Written(s) => \E x : /\ x = w[s] /\ AsIfAlone(s, x)
                         /\ \A k \in DOMAIN x.links : Owns(s, k[1]) /\ Owns(s, k[2])

\* So it is for every session.
AloneInv == \A s \in Sessions : AloneHeld(s)

\* A session that has not written owes nothing.
LEMMA NothingAlone ==
  ASSUME NEW s, txn'[s].phase \in {"idle", "locking"}
  PROVE  AloneHeld(s)'
  BY DEF AloneHeld, Written

\* A call that works on, with the tables as they were.
LEMMA AloneGoesOn ==
  ASSUME NEW s \in Sessions, SameCall(s), UNCHANGED tables,
         NEW x, x = w'[s], AsIfAlone(s, x),
         \A k \in DOMAIN x.links : Owns(s, k[1])' /\ Owns(s, k[2])'
  PROVE  AloneHeld(s)'
<1>1. /\ cards' = cards /\ branches' = branches /\ refs' = refs /\ events' = events
      /\ links' = links
  BY DEF tables
<1>2. Undisturbed(s, x)
  BY <1>1 DEF Undisturbed, SameIdentity
<1>3. AsIfAlone(s, x)'
  BY <1>2, AloneKept
<1> QED BY <1>3 DEF AloneHeld

\* A command that wrote what it would write alone.
LEMMA ExecHeld ==
  ASSUME TypeOK, LockInv, NEW s \in Sessions, SessionInv(s), Exec(s)
  PROVE  AloneHeld(s)' \/ \E answer : Finish(s, answer)
<1> SUFFICES ASSUME WritesAlone(s) PROVE AloneHeld(s)'
  BY ExecAlone
<1>1. PICK x : /\ x = w'[s] /\ AsIfAlone(s, x)
               /\ SameCall(s) /\ UNCHANGED <<tables, owner>>
               /\ \A k \in DOMAIN x.links : /\ txn[s].call.cmd \in RelationCommands
                                            /\ Pairs(k, txn[s].call.card, txn[s].call.other)
  BY DEF WritesAlone
<1>2. PICK a, b : a = txn[s].call.card /\ b = txn[s].call.other
  OBVIOUS
<1>3. ASSUME txn[s].call.cmd \in RelationCommands, NEW d \in {a, b}
      PROVE  Owns(s, d)'
  <2>1. txn[s].phase # "idle" /\ txn[s].locks = <<>>
    BY DEF Exec, ExecCreate, ExecEdit, ExecMove, ExecArchive, ExecNote, ExecLand, ExecAttach,
           ExecDetach, ExecLink, ExecUnlink, ExecRelease, Ready
  <2>2. CallStands(s) /\ txn[s].call.cmd # "release" /\ ~Creates(txn[s].call)
    BY <1>3 DEF SessionInv, RelationCommands, Creates
  <2>3. Owns(s, d)
    BY <1>2, <1>3, <2>1, <2>2, OwnsCall
  <2>4. cards' = cards /\ owner' = owner
    BY <1>1 DEF tables
  <2> QED BY <1>1, <2>3, <2>4 DEF Owns, Exists, SameCall, Creates
<1>4. ASSUME NEW k \in DOMAIN x.links
      PROVE  Owns(s, k[1])' /\ Owns(s, k[2])'
  <2>1. {k[1], k[2]} = {a, b} /\ txn[s].call.cmd \in RelationCommands
    BY <1>1, <1>2 DEF Pairs
  <2>2. k[1] \in {a, b} /\ k[2] \in {a, b}
    BY <2>1
  <2> QED BY <1>3, <2>1, <2>2
<1> QED BY <1>1, <1>4, AloneGoesOn

\* An item that leaves a declaring call its rows, and adds to a release only
\* cards it would mark.
LEMMA ItemAlone ==
  ASSUME TypeOK, NEW s \in Sessions, AloneHeld(s), txn[s].phase = "items",
         NEW rows, NEW log, Progress(s, rows, log),
         \A l \in Locks : owner[l] = s => owner'[l] = s,
         rows.branches = w[s].branches, rows.refs = w[s].refs,
         \/ rows.cards = w[s].cards
         \/ /\ txn[s].call.cmd = "release"
            /\ \A d \in DOMAIN rows.cards :
                  \/ d \in DOMAIN w[s].cards /\ rows.cards[d] = w[s].cards[d]
                  \/ /\ cards[d].state = "waiting" /\ ~cards[d].archived
                     /\ rows.cards[d] = [cards[d] EXCEPT !.state = "done"],
         \A k \in DOMAIN rows.links : \/ k \in DOMAIN w[s].links
                                      \/ Owns(s, k[1])' /\ Owns(s, k[2])'
  PROVE  AloneHeld(s)'
<1>1. PICK x : /\ x = w[s] /\ AsIfAlone(s, x)
               /\ \A k \in DOMAIN x.links : Owns(s, k[1]) /\ Owns(s, k[2])
  BY DEF AloneHeld, Written
<1>2. PICK y : y = w'[s]
  OBVIOUS
<1>3. /\ y.cards = rows.cards /\ y.branches = x.branches /\ y.refs = x.refs
      /\ y.links = rows.links
      /\ SameCall(s) /\ UNCHANGED tables /\ cards' = cards
  BY <1>1, <1>2 DEF Progress, SameCall, tables
<1>4. AsIfAlone(s, y)
  <2>1. CASE txn[s].call.cmd = "release"
    <3>1. /\ x.branches = NoRows /\ x.refs = NoRows
          /\ \A d \in DOMAIN x.cards :
                /\ cards[d].state = "waiting" /\ ~cards[d].archived
                /\ x.cards[d] = [cards[d] EXCEPT !.state = "done"]
      BY <1>1, <2>1 DEF AsIfAlone, OthersAsIfAlone
    <3>2. \A d \in DOMAIN y.cards :
                /\ cards[d].state = "waiting" /\ ~cards[d].archived
                /\ y.cards[d] = [cards[d] EXCEPT !.state = "done"]
      BY <1>1, <1>3, <3>1
    <3>3. OthersAsIfAlone(s, y)
      BY <1>3, <2>1, <3>1, <3>2 DEF OthersAsIfAlone, RelationCommands
    <3>4. CardAsIfAlone(s, y) /\ BranchAsIfAlone(s, y)
      BY <2>1 DEF CardAsIfAlone, BranchAsIfAlone
    <3> QED BY <3>3, <3>4 DEF AsIfAlone
  <2>2. CASE txn[s].call.cmd # "release"
    <3>1. txn[s].call.cmd \in {"create", "promote", "move"}
      BY <2>2, ItemType DEF Declares
    <3>2. \A C, B, R : WroteRows(y, C, B, R) <=> WroteRows(x, C, B, R)
      BY <1>1, <1>3, <2>2 DEF WroteRows
    <3>3. CardAsIfAlone(s, y)
      <4>1. CardAsIfAlone(s, x)
        BY <1>1 DEF AsIfAlone
      <4> HIDE DEF WroteRows
      <4> QED BY <3>1, <3>2, <4>1 DEF CardAsIfAlone
    <3>4. BranchAsIfAlone(s, y) /\ OthersAsIfAlone(s, y)
      BY <3>1 DEF BranchAsIfAlone, OthersAsIfAlone, RelationCommands
    <3> QED BY <3>3, <3>4 DEF AsIfAlone
  <2> QED BY <2>1, <2>2
<1>5. \A k \in DOMAIN y.links : Owns(s, k[1])' /\ Owns(s, k[2])'
  <2>1. ASSUME NEW k \in DOMAIN x.links
        PROVE  Owns(s, k[1])' /\ Owns(s, k[2])'
    <3>1. k \in LinkKeys
      BY <1>1 DEF TypeOK, WritesOK, Rows
    <3>2. k[1] \in Cards /\ k[2] \in Cards
      BY <3>1 DEF LinkKeys
    <3>3. \A d \in Cards : CardLock(d) \in Locks
      BY DEF Locks
    <3>4. ScopeLock \in Locks
      BY DEF Locks
    <3>5. \A d \in Cards : Owns(s, d) => Owns(s, d)'
      BY <1>3, <3>3, <3>4 DEF Owns, Exists, SameCall, Creates, CardLock, ScopeLock
    <3> QED BY <1>1, <3>2, <3>5
  <2> HIDE DEF Owns
  <2> QED BY <1>1, <1>3, <2>1
<1> QED BY <1>2, <1>3, <1>4, <1>5, AloneGoesOn

\* A declared relation.
LEMMA DeclareAlone ==
  ASSUME TypeOK, LockInv, NEW s \in Sessions, SessionInv(s), AloneHeld(s), DeclareItem(s)
  PROVE  AloneHeld(s)' \/ Finish(s, "refused")
<1> DEFINE item == Head(txn[s].items)
           c == txn[s].card
           k == LinkKey(c, item.other, item.rel)
           seen == Overlay(w[s].links, links)
           new == LinkWritten(seen, k, TRUE)
           lock == CardLock(item.other)
           told == RelationLog("linked", k, c, None)
           merged == Merged(new, w[s].links)
           rows == [w[s] EXCEPT !.links = merged]
<1>1. txn[s].phase = "items" /\ txn[s].call.cmd # "release"
  BY DEF DeclareItem
<1>2. /\ TablesOK /\ WritesOK(w[s]) /\ c \in Cards /\ item \in LinkItem
  BY <1>1, ItemType
<1>3. item.other \in Cards /\ item.rel \in RelationNames /\ links \in LinkTable
      /\ Rows(w[s].links, LinkKeys, LinkStatus)
  BY <1>2 DEF LinkItem, TablesOK, WritesOK
<1>4. SUFFICES ASSUME item.other # c, Exists(item.other), Free(lock, s),
                      owner' = [owner EXCEPT ![lock] = s],
                      \/ NextItem(s, w[s], <<>>)
                      \/ ~LinkStands(seen, k, TRUE) /\ NextItem(s, rows, told)
               PROVE  AloneHeld(s)'
  BY Zenon DEF DeclareItem
<1> HIDE DEF item
<1>5. Writable(k, TRUE) /\ k \in LinkKeys
  <2>1. Writable(k, TRUE)
    <3> HIDE DEF c
    <3> QED BY <1>2, <1>3, <1>4, LinkKeyWritable
  <2> QED BY <2>1 DEF Writable
<1>6. CASE NextItem(s, w[s], <<>>)
  <2>1. <<>> \in Seq(Event)
    OBVIOUS
  <2>2. Progress(s, w[s], <<>>) /\ \A l \in Locks : owner[l] = s => owner'[l] = s
    BY <1>2, <1>4, <1>6, <2>1, NextItemEffect
  <2> QED BY <1>1, <2>2, ItemAlone
<1>7. CASE ~LinkStands(seen, k, TRUE) /\ NextItem(s, rows, told)
  <2>1. \A j \in DOMAIN new : Pairs(j, c, item.other)
    <3> HIDE DEF c, seen
    <3> QED BY <1>2, <1>3, WrittenPairs
  <2>2. seen \in LinkTable
    BY <1>3, OverlayType DEF Rows
  <2>3. Rows(new, LinkKeys, LinkStatus)
    <3> HIDE DEF k, seen
    <3> QED BY <1>5, <2>2, WrittenRelation
  <2> HIDE DEF new
  <2>4. DOMAIN merged = DOMAIN new \cup DOMAIN w[s].links
        /\ Rows(merged, LinkKeys, LinkStatus)
    BY <1>3, <2>3, MergedType DEF Merged
  <2> HIDE DEF merged
  <2>5. /\ WritesOK(rows) /\ rows.links = merged /\ rows.cards = w[s].cards
        /\ rows.branches = w[s].branches /\ rows.refs = w[s].refs
    BY <1>2, <2>4, WrittenRows DEF WritesOK
  <2>6. told \in Seq(Event)
    BY <1>5, RelationLogType
  <2> HIDE DEF rows, told
  <2>7. Progress(s, rows, told) /\ \A l \in Locks : owner[l] = s => owner'[l] = s
    BY <1>4, <1>7, <2>5, <2>6, NextItemEffect
  <2>8. PICK a, b : a = c /\ b = item.other
    OBVIOUS
  <2>9. ASSUME NEW d \in {a, b}
        PROVE  Owns(s, d)'
    <3>1. LocksTaken(s) /\ CallStands(s)
      BY DEF LockInv, SessionInv
    <3>2. Owns(s, c)
      BY <1>1, <3>1, OwnsCall DEF LocksTaken
    <3>3. cards' = cards /\ SameCall(s)
      BY <2>7 DEF Progress, tables, SameCall
    <3>4. CardLock(a) \in Locks /\ ScopeLock \in Locks /\ CardLock(b) \in Locks
      BY <1>2, <1>3, <2>8 DEF Locks
    <3>5. owner'[CardLock(b)] = s /\ Exists(b)'
      BY <1>4, <2>8, <3>3, <3>4 DEF TypeOK, Exists
    <3>6. CASE d = a
      BY <2>7, <2>8, <3>2, <3>3, <3>4, <3>6 DEF Owns, Exists, SameCall, Creates
    <3>7. CASE d = b
      BY <3>5, <3>7 DEF Owns
    <3> QED BY <3>6, <3>7
  <2>10. ASSUME NEW j \in DOMAIN rows.links
        PROVE  \/ j \in DOMAIN w[s].links
               \/ Owns(s, j[1])' /\ Owns(s, j[2])'
    <3> HIDE DEF Owns, c
    <3>1. CASE j \in DOMAIN new
      <4>1. {j[1], j[2]} = {a, b}
        BY <2>1, <2>8, <3>1 DEF Pairs
      <4>2. j[1] \in {a, b} /\ j[2] \in {a, b}
        BY <4>1
      <4> QED BY <2>9, <4>2
    <3> QED BY <2>4, <2>5, <3>1
  <2> QED BY <1>1, <2>5, <2>7, <2>10, ItemAlone
<1> QED BY <1>4, <1>6, <1>7

\* A card of a release.
LEMMA ReleaseAlone ==
  ASSUME TypeOK, NEW s \in Sessions, AloneHeld(s), ReleaseItem(s)
  PROVE  AloneHeld(s)'
<1> DEFINE q == txn[s].call
           c == Head(txn[s].items)
           r == cards[c]
           done == txn[s].policy = "record_and_move_done" /\ r.state = "waiting"
           row == [r EXCEPT !.state = "done"]
           finished == [d \in {c} |-> row]
           C == IF done THEN Merged(finished, w[s].cards) ELSE w[s].cards
           e == [Ev(c, "released") EXCEPT !.version = q.version]
           m == [Ev(c, "moved") EXCEPT !.to = "done"]
           log == <<e>> \o (IF done THEN <<m>> ELSE <<>>)
           rows == [w[s] EXCEPT !.cards = C]
<1>1. /\ txn[s].phase = "items" /\ q.cmd = "release"
  BY DEF ReleaseItem
<1>2. /\ TablesOK /\ WritesOK(w[s]) /\ c \in Cards /\ q \in Calls
      /\ q.version \in Versions /\ r \in CardRow
  BY <1>1, ItemType, Arguments DEF TablesOK
<1>3. \/ /\ NextItem(s, w[s], <<>>)
         /\ \/ owner' = owner
            \/ Free(CardLock(c), s) /\ owner' = [owner EXCEPT ![CardLock(c)] = s]
      \/ /\ ~r.archived
         /\ Free(CardLock(c), s) /\ owner' = [owner EXCEPT ![CardLock(c)] = s]
         /\ NextItem(s, rows, log)
  BY Zenon DEF ReleaseItem
<1>4. CASE /\ NextItem(s, w[s], <<>>)
           /\ \/ owner' = owner
              \/ Free(CardLock(c), s) /\ owner' = [owner EXCEPT ![CardLock(c)] = s]
  <2>1. <<>> \in Seq(Event)
    OBVIOUS
  <2> HIDE DEF c
  <2>2. Progress(s, w[s], <<>>) /\ \A l \in Locks : owner[l] = s => owner'[l] = s
    BY <1>2, <1>4, <2>1, NextItemEffect
  <2> QED BY <1>1, <2>2, ItemAlone
<1>5. CASE /\ ~r.archived
           /\ Free(CardLock(c), s) /\ owner' = [owner EXCEPT ![CardLock(c)] = s]
           /\ NextItem(s, rows, log)
  <2>1. log \in Seq(Event)
    <3>1. Ev(c, "released") \in Event /\ Ev(c, "moved") \in Event
      BY <1>2, EvType DEF EventTypes
    <3>2. e \in Event
      BY <1>2, <3>1, EventColumn
    <3>3. m \in Event
      <4>1. "done" \in CardStates \cup {None}
        BY DEF CardStates
      <4> QED BY <3>1, <4>1, EventColumn
    <3> HIDE DEF e, m, done
    <3> QED BY <3>2, <3>3
  <2> HIDE DEF log
  <2>2. row \in CardRow
    <3> HIDE DEF r
    <3> QED BY <1>2 DEF CardRow, CardStates
  <2>3. /\ Rows(C, Cards, CardRow)
        /\ \A d \in DOMAIN C : \/ d \in DOMAIN w[s].cards /\ C[d] = w[s].cards[d]
                               \/ d = c /\ C[d] = row /\ r.state = "waiting"
    <3>1. Rows(w[s].cards, Cards, CardRow)
      BY <1>2 DEF WritesOK
    <3> HIDE DEF row
    <3>2. Rows(finished, Cards, CardRow)
      BY <1>2, <2>2 DEF Rows
    <3>3. DOMAIN finished = {c} /\ finished[c] = row
      OBVIOUS
    <3> HIDE DEF finished
    <3>4. Rows(Merged(finished, w[s].cards), Cards, CardRow)
      BY <3>1, <3>2, MergedType
    <3>5. ASSUME NEW d \in DOMAIN Merged(finished, w[s].cards)
          PROVE  \/ d \in DOMAIN w[s].cards /\ Merged(finished, w[s].cards)[d] = w[s].cards[d]
                 \/ d = c /\ Merged(finished, w[s].cards)[d] = row
      BY <3>3 DEF Merged
    <3> QED BY <3>1, <3>4, <3>5
  <2> HIDE DEF C
  <2>4. /\ WritesOK(rows) /\ rows.cards = C /\ rows.links = w[s].links
        /\ rows.branches = w[s].branches /\ rows.refs = w[s].refs
    BY <1>2, <2>3, WrittenRows DEF WritesOK
  <2> HIDE DEF rows
  <2>5. Progress(s, rows, log) /\ \A l \in Locks : owner[l] = s => owner'[l] = s
    <3> HIDE DEF c
    <3> QED BY <1>5, <2>1, <2>4, NextItemEffect
  <2>6. \A d \in DOMAIN rows.cards :
           \/ d \in DOMAIN w[s].cards /\ rows.cards[d] = w[s].cards[d]
           \/ /\ cards[d].state = "waiting" /\ ~cards[d].archived
              /\ rows.cards[d] = [cards[d] EXCEPT !.state = "done"]
    BY <1>5, <2>3, <2>4
  <2> QED BY <1>1, <2>4, <2>5, <2>6, ItemAlone
<1> QED BY <1>3, <1>4, <1>5

\* Whatever it does, a call would still write what it wrote.
LEMMA StepAlone ==
  ASSUME TypeOK, LockInv, BoardInv, NEW s \in Sessions, AloneHeld(s), Begin(s) \/ Step(s)
  PROVE  AloneHeld(s)'
<1>1. SessionInv(s)
  BY DEF BoardInv
<1>2. ASSUME NEW answer, End(s, answer)
      PROVE  AloneHeld(s)'
  <2>1. txn'[s].phase = "idle"
    BY <1>2, EndEffect DEF Idle
  <2> QED BY <2>1, NothingAlone
<1>3. CASE Exec(s)
  BY <1>1, <1>2, <1>3, ExecHeld DEF Finish
<1>4. CASE DeclareItem(s)
  BY <1>1, <1>2, <1>4, DeclareAlone DEF Finish
<1>5. CASE ReleaseItem(s)
  BY <1>5, ReleaseAlone
<1>6. CASE UniqueViolation(s) \/ DeadlockAbort(s) \/ Commit(s)
  BY <1>2, <1>6 DEF UniqueViolation, DeadlockAbort, Commit, Finish
<1>7. CASE TakeLock(s)
  <2>1. txn[s].phase = "locking" /\ txn'[s] = [txn[s] EXCEPT !.locks = Tail(txn[s].locks)]
    BY <1>7, TakeLockEffect
  <2>2. txn'[s].phase = "locking"
    BY <2>1
  <2> QED BY <2>2, NothingAlone
<1>8. CASE Begin(s)
  <2>1. txn[s] = Idle /\ (UNCHANGED txn \/ txn'[s].phase = "locking")
    BY <1>8, BeginEffect
  <2>2. txn'[s].phase \in {"idle", "locking"}
    BY <2>1 DEF Idle
  <2> QED BY <2>2, NothingAlone
<1>9. \/ Begin(s) \/ TakeLock(s) \/ Exec(s) \/ DeclareItem(s) \/ ReleaseItem(s)
      \/ Commit(s) \/ UniqueViolation(s) \/ DeadlockAbort(s)
  BY DEF Step
<1> QED BY <1>3, <1>4, <1>5, <1>6, <1>7, <1>8, <1>9

\* A step leaves alone the cards r owns with all that is known of them, and
\* every relation while r may write some.
Spares(r) ==
    /\ Leaves(r)
    /\ \A d \in Cards : Owns(r, d) =>
          /\ refs'[d] = refs[d]
          /\ \A k \in LinkKeys : d \in {k[1], k[2]} => links'[k] = links[k]
    /\ owner[LinksLock] = r => links' = links

\* Then r would still write what it wrote.
LEMMA AloneStands ==
  ASSUME TypeOK, LinkInv, LockInv, NEW r \in Sessions, SessionInv(r), AloneHeld(r),
         txn'[r] = txn[r], w'[r] = w[r], Spares(r)
  PROVE  AloneHeld(r)'
<1>1. SUFFICES ASSUME Written(r) PROVE AloneHeld(r)'
  BY DEF AloneHeld, Written
<1>2. PICK x : /\ x = w[r] /\ AsIfAlone(r, x)
               /\ \A k \in DOMAIN x.links : Owns(r, k[1]) /\ Owns(r, k[2])
  BY <1>1 DEF AloneHeld
<1>3. SameCall(r) /\ Leaves(r)
  BY DEF SameCall, Spares
<1>4. PICK q, c : q = txn[r].call /\ c = txn[r].card
  OBVIOUS
<1>5. /\ txn[r].phase # "idle" /\ txn[r].phase # "locking" /\ txn[r].locks = <<>>
      /\ CallStands(r)
  BY <1>1 DEF Written, LockInv, LocksTaken, SessionInv
<1>6. q.cmd # "release" =>
         /\ c \in Cards /\ Owns(r, c)
         /\ Creates(q) => owner[ScopeLock] = r
         /\ ~Creates(q) => c = q.card
  BY <1>4, <1>5, OwnsCall
<1>7. Undisturbed(r, x)
  <2>1. ASSUME q.cmd # "release"
        PROVE  /\ cards'[c] = cards[c] /\ branches'[c] = branches[c] /\ refs'[c] = refs[c]
               /\ \A e \in events \cup events' : e.card = c => (e \in events' <=> e \in events)
               /\ \A k \in LinkKeys : c \in {k[1], k[2]} => links'[k] = links[k]
    BY <1>6, <2>1 DEF Spares, Leaves
  <2>2. ASSUME Creates(q)
        PROVE  \A d \in Cards : SameIdentity(cards'[d], cards[d])
    BY <1>3, <1>6, <2>2 DEF Leaves, Creates
  <2>3. ASSUME q.cmd \in RelationCommands
        PROVE  links' = links /\ cards'[q.card] = cards[q.card]
    <3>1. q.cmd # "release" /\ ~Creates(q)
      BY <2>3 DEF RelationCommands, Creates
    <3>2. owner[LinksLock] = r
      BY <1>4, <1>5, <2>3 DEF LinkInv, TakesLinksLock
    <3> QED BY <1>6, <2>1, <3>1, <3>2 DEF Spares
  <2>4. ASSUME NEW d \in DOMAIN x.cards
        PROVE  cards'[d] = cards[d]
    <3>1. PICK y, E : y = Wrote(r) /\ WritesHeld(r, y, E)
      BY <1>1 DEF SessionInv
    <3>2. d \in Touched(y)
      BY <1>2, <3>1 DEF Touched, Wrote
    <3>3. d \in Cards /\ Owns(r, d)
      BY <3>1, <3>2 DEF WritesHeld, RowsHeld
    <3> QED BY <1>3, <3>3 DEF Leaves
  <2> QED BY <1>4, <2>1, <2>2, <2>3, <2>4 DEF Undisturbed
<1>8. AsIfAlone(r, x)'
  BY <1>2, <1>3, <1>7, AloneKept
<1>9. \A k \in DOMAIN x.links : Owns(r, k[1])' /\ Owns(r, k[2])'
  <2>1. ASSUME NEW k \in DOMAIN x.links
        PROVE  k[1] \in Cards /\ k[2] \in Cards
    <3>1. k \in LinkKeys
      BY <1>2 DEF TypeOK, WritesOK, Rows
    <3> QED BY <3>1 DEF LinkKeys
  <2> HIDE DEF Owns
  <2> QED BY <1>2, <1>3, <2>1, OwnsOn
<1> QED BY <1>2, <1>8, <1>9 DEF AloneHeld

\* A commit spares what the others own.
LEMMA CommitSpares ==
  ASSUME TypeOK, LinkInv, NEW s \in Sessions, SessionInv(s), AloneHeld(s), Commit(s),
         NEW r \in Sessions \ {s}
  PROVE  Spares(r)
<1>1. PICK x, E : Publishes(s, x, E)
  BY CommitPublishes
<1>2. OthersKeep(s)
  BY EndEffect DEF Commit
<1>3. PICK y : /\ y = w[s]
               /\ \A k \in DOMAIN y.links : Owns(s, k[1]) /\ Owns(s, k[2])
  BY DEF AloneHeld, Written, Commit
<1>4. Leaves(r)
  BY <1>1, <1>2, CommitLeaves
<1>5. ASSUME NEW d \in Cards, Owns(r, d)
      PROVE  /\ refs'[d] = refs[d]
             /\ \A k \in LinkKeys : d \in {k[1], k[2]} => links'[k] = links[k]
  <2>1. ~Owns(s, d)
    BY <1>5, OwnedByOne
  <2>2. d \notin Touched(x)
    BY <1>1, <2>1 DEF Publishes, WritesHeld, RowsHeld
  <2>3. refs'[d] = refs[d]
    BY <1>1, <2>2 DEF Publishes, Touched
  <2>4. links' = Overlay(y.links, links) /\ DOMAIN links = LinkKeys
    BY <1>3 DEF Commit, TypeOK, TablesOK, LinkTable
  <2>5. ASSUME NEW k \in LinkKeys, d \in {k[1], k[2]}
        PROVE  links'[k] = links[k]
    <3>1. k \notin DOMAIN y.links
      BY <1>3, <2>1, <2>5
    <3> QED BY <2>4, <3>1 DEF Overlay
  <2> QED BY <2>3, <2>5
<1>6. owner[LinksLock] = r => links' = links
  BY CommitLinksAlone
<1> QED BY <1>4, <1>5, <1>6 DEF Spares

\* So does a step that changes no table.
LEMMA QuietSpares ==
  ASSUME UNCHANGED tables, NEW r, \A l \in Locks : owner'[l] = r <=> owner[l] = r
  PROVE  Spares(r)
<1>1. /\ cards' = cards /\ branches' = branches /\ refs' = refs /\ events' = events
      /\ links' = links
  BY DEF tables
<1> QED BY <1>1 DEF Spares, Leaves, SameIdentity

\* Every step leaves the calls that have written with what they would write.
LEMMA NextAlone ==
  ASSUME TypeOK, LinkInv, LockInv, BoardInv, AloneInv, [Next]_vars
  PROVE  AloneInv'
<1>1. ASSUME NEW s \in Sessions, Begin(s) \/ Step(s)
      PROVE  AloneInv'
  <2>1. AloneHeld(s)'
    BY <1>1, StepAlone DEF AloneInv
  <2>2. ASSUME NEW r \in Sessions \ {s}
        PROVE  AloneHeld(r)'
    <3>1. SessionInv(s) /\ SessionInv(r) /\ AloneHeld(s) /\ AloneHeld(r)
      BY DEF BoardInv, AloneInv
    <3>2. OthersKeep(s) /\ (Commit(s) \/ UNCHANGED tables)
      <4>1. Commit(s) => OthersKeep(s)
        BY EndEffect DEF Commit
      <4> QED BY <1>1, <4>1, StepQuiet DEF Quiet
    <3>3. /\ txn'[r] = txn[r] /\ w'[r] = w[r]
          /\ \A l \in Locks : owner'[l] = r <=> owner[l] = r
      BY <3>2 DEF OthersKeep
    <3>4. Spares(r)
      BY <3>1, <3>2, <3>3, CommitSpares, QuietSpares
    <3> QED BY <3>1, <3>3, <3>4, AloneStands
  <2> QED BY <2>1, <2>2 DEF AloneInv
<1>2. CASE UNCHANGED <<tables, txn, w, owner>>
  <2>1. ASSUME NEW r \in Sessions
        PROVE  AloneHeld(r)'
    <3>1. SessionInv(r) /\ AloneHeld(r)
      BY DEF BoardInv, AloneInv
    <3>2. /\ UNCHANGED tables /\ txn'[r] = txn[r] /\ w'[r] = w[r]
          /\ \A l \in Locks : owner'[l] = r <=> owner[l] = r
      BY <1>2
    <3>3. Spares(r)
      BY <3>2, QuietSpares
    <3> QED BY <3>1, <3>2, <3>3, AloneStands
  <2> QED BY <2>1 DEF AloneInv
<1>3. \/ \E s \in Sessions : Begin(s) \/ Step(s)
      \/ UNCHANGED <<tables, txn, w, owner>>
  BY DEF Next, Configure, CloseLoop, Done, vars
<1> QED BY <1>1, <1>2, <1>3

\* In every reachable state, what a call has written so far is what it would
\* write if it started now with nobody else at work.
THEOREM AloneHolds == Spec => []AloneInv
<1>1. Init => AloneInv
  <2>1. Init => txn = [s \in Sessions |-> Idle]
    BY DEF Init
  <2>2. Idle.phase = "idle"
    BY DEF Idle
  <2> QED BY <2>1, <2>2 DEF AloneInv, AloneHeld, Written
<1>2. TypeOK /\ LinkInv /\ LockInv /\ BoardInv /\ AloneInv /\ [Next]_vars => AloneInv'
  BY NextAlone
<1> QED BY <1>1, <1>2, TypeCorrect, LinksHeldAndSound, LocksTakenInOrder, BoardHolds, PTL
     DEF Spec

\* A call takes effect as if it ran alone, at the moment it commits: its key
\* is new, its checks would pass then, and it would write the same rows.
THEOREM CommitsAlone == Spec => []CommitsAsIfAlone
<1>1. ASSUME TypeOK, BoardInv, AloneInv
      PROVE  CommitsAsIfAlone
  <2>1. ASSUME NEW s \in Sessions, txn[s].phase = "commit", ~KeyClash(s)
        PROVE  ~KeyOnRecord(txn[s].call, txn[s].card) /\ AsIfAlone(s, w[s])
    <3>1. SessionInv(s) /\ AloneHeld(s)
      BY <1>1 DEF BoardInv, AloneInv
    <3>2. AsIfAlone(s, w[s])
      BY <2>1, <3>1 DEF AloneHeld, Written
    <3> QED BY <1>1, <2>1, <3>1, <3>2, KeyStillNew
  <2> QED BY <2>1 DEF CommitsAsIfAlone, AsIfAlone
<1> QED BY <1>1, TypeCorrect, BoardHolds, AloneHolds, PTL
===============================================================================
