----------------------------- MODULE BoardProofs -----------------------------
(***************************************************************************)
(* Proofs about the board, for any number of cards, sessions and calls.    *)
(***************************************************************************)
EXTENDS Board, CardLinksProofs, FiniteSetTheorems, WellFoundedInduction, TLAPS

-----------------------------------------------------------------------------
(* Sequence numbers: the maximum of finitely many. *)

\* A finite set of numbers has a greatest one.
LEMMA MaxIsMember ==
  ASSUME NEW S \in SUBSET Nat, IsFiniteSet(S), S # {}
  PROVE  Max(S) \in S /\ \A y \in S : y <= Max(S)
<1> DEFINE HasMax(U) == \E x \in U : \A y \in U : x >= y
           T == {U \in FiniteSubsetsOf(S) : U # {} /\ ~HasMax(U)}
<1>1. T = {}
  <2> SUFFICES ASSUME T # {} PROVE FALSE
    OBVIOUS
  <2>1. IsWellFoundedOn(StrictSubsetOrdering(S), FiniteSubsetsOf(S))
    BY FS_StrictSubsetOrderingWellFounded
  <2>2. T \subseteq FiniteSubsetsOf(S)
    OBVIOUS
  <2>3. PICK U \in T : \A V \in T : <<V, U>> \notin StrictSubsetOrdering(S)
    BY <2>1, <2>2, WFMin
  <2>4. PICK x \in U : TRUE
    BY <2>3
  <2> DEFINE V == U \ {x}
  <2>5. U \in SUBSET S /\ IsFiniteSet(U) /\ x \in Nat
    BY <2>3, <2>4 DEF FiniteSubsetsOf
  <2>6. V \in FiniteSubsetsOf(S) /\ U \in FiniteSubsetsOf(S)
    BY <2>5, FS_RemoveElement DEF FiniteSubsetsOf
  <2>7. <<V, U>> \in StrictSubsetOrdering(S)
    BY <2>4, <2>5, <2>6 DEF StrictSubsetOrdering, FiniteSubsetsOf
  <2>8. V = {} \/ HasMax(V)
    BY <2>3, <2>6, <2>7
  <2>9. CASE V = {}
    BY <2>3, <2>4, <2>5, <2>9
  <2>10. CASE HasMax(V)
    <3>1. PICK m \in V : \A y \in V : m >= y
      BY <2>10
    <3>2. HasMax(U)
      <4>1. CASE m >= x
        BY <3>1, <4>1, <2>4, <2>5
      <4>2. CASE ~(m >= x)
        <5>1. \A y \in U : x >= y
          BY <3>1, <4>2, <2>4, <2>5
        <5> QED BY <5>1, <2>4
      <4> QED BY <4>1, <4>2
    <3> QED BY <3>2, <2>3
  <2> QED BY <2>8, <2>9, <2>10
<1>2. HasMax(S)
  BY <1>1 DEF FiniteSubsetsOf
<1>3. Max(S) \in S /\ \A y \in S : Max(S) >= y
  BY <1>2 DEF Max
<1> QED BY <1>3

\* The image of a finite set under a function is finite.
LEMMA FiniteImage ==
  ASSUME NEW S, IsFiniteSet(S), NEW f, DOMAIN f = S
  PROVE  IsFiniteSet({f[x] : x \in S})
<1> DEFINE T == {f[x] : x \in S}
           g == [x \in S |-> f[x]]
<1>1. g \in Surjection(S, T)
  BY DEF Surjection
<1> QED BY <1>1, FS_Surjection

\* The sequence number a row is given is a number.
LEMMA LastSeqType ==
  ASSUME NEW E \in SUBSET Event, IsFiniteSet(E), NEW c
  PROVE  LastSeq(E, c) \in Nat
<1> DEFINE F == {f \in E : f.card = c}
           g == [e \in F |-> e.seq]
<1>1. IsFiniteSet(F) /\ \A e \in F : e.seq \in Nat
  BY FS_Subset DEF Event
<1>2. IsFiniteSet({g[e] : e \in F})
  BY <1>1, FiniteImage
<1>3. Seqs(E, c) = {g[e] : e \in F}
  BY DEF Seqs
<1>4. IsFiniteSet(Seqs(E, c) \cup {0})
  BY <1>2, <1>3, FS_AddElement
<1>5. Seqs(E, c) \cup {0} \in SUBSET Nat
  BY <1>1 DEF Seqs
<1>6. Max(Seqs(E, c) \cup {0}) \in Seqs(E, c) \cup {0}
  BY <1>4, <1>5, MaxIsMember
<1> QED BY <1>5, <1>6 DEF LastSeq

\* The stamped rows of a log are events, finitely many.
LEMMA StampType ==
  ASSUME NEW E \in SUBSET Event, IsFiniteSet(E), NEW log \in Seq(Event)
  PROVE  Stamp(E, log) \in SUBSET Event /\ IsFiniteSet(Stamp(E, log))
<1> DEFINE n(i) == LastSeq(E, log[i].card)
                   + Cardinality({j \in 1..i : log[j].card = log[i].card})
           g == [i \in DOMAIN log |-> [log[i] EXCEPT !.seq = n(i)]]
<1>1. DOMAIN log = 1..Len(log) /\ Len(log) \in Nat
  OBVIOUS
<1>2. ASSUME NEW i \in DOMAIN log
      PROVE  n(i) \in Nat
  <2>1. i \in Nat
    BY <1>1
  <2>2. IsFiniteSet(1..i)
    BY <2>1, FS_Interval
  <2>3. {j \in 1..i : log[j].card = log[i].card} \in SUBSET (1..i)
    OBVIOUS
  <2>4. Cardinality({j \in 1..i : log[j].card = log[i].card}) \in Nat
    BY <2>2, <2>3, FS_Subset, FS_CardinalityType
  <2>5. LastSeq(E, log[i].card) \in Nat
    BY LastSeqType
  <2> QED BY <2>4, <2>5
<1>3. ASSUME NEW i \in DOMAIN log
      PROVE  [log[i] EXCEPT !.seq = n(i)] \in Event
  <2>1. log[i] \in Event
    BY <1>1
  <2>2. n(i) \in Nat
    BY <1>2
  <2> HIDE DEF n
  <2> QED BY <2>1, <2>2 DEF Event
<1>4. IsFiniteSet(DOMAIN log)
  BY <1>1, FS_Interval
<1>5. Stamp(E, log) = E \cup {g[i] : i \in DOMAIN log}
  BY DEF Stamp
<1>6. DOMAIN g = DOMAIN log
  OBVIOUS
<1>7. IsFiniteSet(Stamp(E, log))
  <2> HIDE DEF g
  <2> DEFINE T == {g[i] : i \in DOMAIN log}
  <2>1. IsFiniteSet(T)
    BY <1>4, <1>6, FiniteImage
  <2> HIDE DEF T
  <2>2. IsFiniteSet(E \cup T)
    BY <2>1, FS_Union
  <2> QED BY <2>2, <1>5 DEF T
<1>8. Stamp(E, log) \in SUBSET Event
  BY <1>3, <1>5
<1> QED BY <1>7, <1>8

-----------------------------------------------------------------------------
(* What the kind of a call says of its arguments. *)

\* The command of a call tells which arguments it has.
LEMMA CallKinds ==
  ASSUME NEW q \in Calls
  PROVE  /\ q.cmd \in {"create", "promote"} => q \in CreateCalls
         /\ q.cmd = "move" => q \in MoveCalls
         /\ q.cmd = "land" => q \in LandCalls
         /\ q.cmd = "edit" => q \in EditCalls
         /\ q.cmd \in {"attach_branch", "detach_branch", "attach_ref", "detach_ref"}
               => q \in AttachCalls
         /\ q.cmd \in RelationCommands => q \in LinkCalls
         /\ q.cmd = "release" => q \in ReleaseCalls
         /\ q.cmd # "none"
         /\ q.key \in Keys \cup {None}
         /\ q.cmd \notin {"create", "promote", "release"} => q.card \in Cards
<1>1. CASE q \in CreateCalls
  BY <1>1 DEF CreateCalls, RelationCommands
<1>2. CASE q \in MoveCalls
  BY <1>2 DEF MoveCalls, RelationCommands
<1>3. CASE q \in LandCalls
  BY <1>3 DEF LandCalls, RelationCommands
<1>4. CASE q \in EditCalls
  BY <1>4 DEF EditCalls, RelationCommands
<1>5. CASE q \in ArchiveCalls
  BY <1>5 DEF ArchiveCalls, RelationCommands
<1>6. CASE q \in NoteCalls
  BY <1>6 DEF NoteCalls, RelationCommands
<1>7. CASE q \in AttachCalls
  BY <1>7 DEF AttachCalls, RelationCommands
<1>8. CASE q \in LinkCalls
  BY <1>8 DEF LinkCalls, RelationCommands
<1>9. CASE q \in ReleaseCalls
  BY <1>9 DEF ReleaseCalls, RelationCommands
<1> QED BY <1>1, <1>2, <1>3, <1>4, <1>5, <1>6, <1>7, <1>8, <1>9 DEF Calls

\* The arguments of the calls that open or attach a branch, or land one.
LEMMA Arguments ==
  ASSUME NEW q \in Calls
  PROVE  /\ q.cmd \in {"create", "promote", "move"} =>
               /\ q.branch \in Branches \cup {None}
               /\ q.to \in CardStates
               /\ q.links \in Seq(LinkItem)
         /\ q.cmd \in {"create", "promote"} =>
               /\ q.type \in CardTypes /\ q.content \in Contents
               /\ q.loop \in Loops \cup {None}
         /\ q.cmd \in {"move", "edit"} => q.type \in CardTypes \cup {None}
         /\ q.cmd = "move" => q.noBranch \in BOOLEAN /\ q.notLanded \in BOOLEAN
                              /\ q.noLinks \in BOOLEAN
         /\ q.cmd = "edit" => q.content \in Contents \cup {None}
         /\ q.cmd = "land" => /\ q.branch \in Branches /\ q.sha \in Seq(Nat)
                              /\ q.to \in CardStates /\ q.notLanded \in BOOLEAN
         /\ q.cmd \in {"attach_branch", "detach_branch"} => q.target \in Branches
         /\ q.cmd \in {"attach_ref", "detach_ref"} => q.target \in Refs
         /\ q.cmd \in RelationCommands =>
               /\ q.other \in Cards /\ q.card # q.other /\ q.rel \in RelationNames
               /\ q.cmd \in {"attach_card", "detach_card"} => q.rel = "relates_to"
         /\ q.cmd = "release" => q.version \in Versions /\ q.batch \in Seq(Cards)
<1>0. /\ LinkLists \cup {<<>>} \subseteq Seq(LinkItem)
      /\ TargetStates \subseteq CardStates
  <2>1. LinkLists \subseteq Seq(LinkItem) /\ TargetStates \subseteq CardStates
    BY BoardAssumption
  <2>2. <<>> \in Seq(LinkItem)
    OBVIOUS
  <2> QED BY <2>1, <2>2
<1>1. CASE q.cmd \in {"create", "promote"}
  <2>1. q \in CreateCalls
    BY <1>1, CallKinds
  <2> QED BY <1>0, <1>1, <2>1 DEF CreateCalls, RelationCommands
<1>2. CASE q.cmd = "move"
  <2>1. q \in MoveCalls
    BY <1>2, CallKinds
  <2> QED BY <1>0, <1>2, <2>1 DEF MoveCalls, RelationCommands
<1>3. CASE q.cmd = "land"
  BY <1>3, CallKinds, BoardAssumption DEF LandCalls, RelationCommands
<1>4. CASE q.cmd = "edit"
  BY <1>4, CallKinds DEF EditCalls, RelationCommands
<1>5. CASE q.cmd \in {"attach_branch", "detach_branch", "attach_ref", "detach_ref"}
  BY <1>5, CallKinds DEF AttachCalls, RelationCommands
<1>6. CASE q.cmd \in RelationCommands
  BY <1>6, CallKinds, BoardAssumption DEF LinkCalls, RelationCommands, RelationNames
<1>7. CASE q.cmd = "release"
  BY <1>7, CallKinds, BoardAssumption DEF ReleaseCalls, RelationCommands
<1> QED BY <1>1, <1>2, <1>3, <1>4, <1>5, <1>6, <1>7 DEF RelationCommands

\* A fresh event row is an event.
LEMMA EvType ==
  ASSUME NEW c \in Cards, NEW type \in EventTypes
  PROVE  Ev(c, type) \in Event
  BY DEF Ev, Event

\* Filling one column of an event leaves an event.
LEMMA EventColumn ==
  ASSUME NEW e \in Event
  PROVE  /\ \A x \in Keys \cup {None} : [e EXCEPT !.key = x] \in Event
         /\ \A x \in CardStates \cup {None} : [e EXCEPT !.to = x] \in Event
         /\ \A x \in CardTypes \cup {None} : [e EXCEPT !.cardType = x] \in Event
         /\ \A x \in Branches \cup Refs \cup {None} : [e EXCEPT !.ref = x] \in Event
         /\ \A x \in Seq(Nat) : [e EXCEPT !.sha = x] \in Event
         /\ \A x \in BOOLEAN : [e EXCEPT !.note = x] \in Event
         /\ \A x \in BOOLEAN : [e EXCEPT !.linksNote = x] \in Event
         /\ \A x \in Cards \cup {None} : [e EXCEPT !.other = x] \in Event
         /\ \A x \in LinkTypes \cup {None} : [e EXCEPT !.link = x] \in Event
         /\ \A x \in {"in", "out", None} : [e EXCEPT !.dir = x] \in Event
         /\ \A x \in Versions \cup {None} : [e EXCEPT !.version = x] \in Event
<1>1. \A x \in Keys \cup {None} : [e EXCEPT !.key = x] \in Event
  BY DEF Event
<1>2. \A x \in CardStates \cup {None} : [e EXCEPT !.to = x] \in Event
  BY DEF Event
<1>3. \A x \in CardTypes \cup {None} : [e EXCEPT !.cardType = x] \in Event
  BY DEF Event
<1>4. \A x \in Branches \cup Refs \cup {None} : [e EXCEPT !.ref = x] \in Event
  BY DEF Event
<1>5. \A x \in Seq(Nat) : [e EXCEPT !.sha = x] \in Event
  BY DEF Event
<1>6. \A x \in BOOLEAN : [e EXCEPT !.note = x] \in Event
  BY DEF Event
<1>7. \A x \in BOOLEAN : [e EXCEPT !.linksNote = x] \in Event
  BY DEF Event
<1>8. \A x \in Cards \cup {None} : [e EXCEPT !.other = x] \in Event
  BY DEF Event
<1>9. \A x \in LinkTypes \cup {None} : [e EXCEPT !.link = x] \in Event
  BY DEF Event
<1>10. \A x \in {"in", "out", None} : [e EXCEPT !.dir = x] \in Event
  BY DEF Event
<1>11. \A x \in Versions \cup {None} : [e EXCEPT !.version = x] \in Event
  BY DEF Event
<1> QED BY <1>1, <1>2, <1>3, <1>4, <1>5, <1>6, <1>7, <1>8, <1>9, <1>10, <1>11

\* Filling the columns of an event leaves an event.
LEMMA EventWith ==
  ASSUME NEW e \in Event,
         NEW to \in CardStates \cup {None}, NEW key \in Keys \cup {None},
         NEW note \in BOOLEAN, NEW linksNote \in BOOLEAN
  PROVE  /\ [e EXCEPT !.to = to, !.note = note, !.linksNote = linksNote] \in Event
         /\ [e EXCEPT !.to = to, !.key = key, !.note = note] \in Event
<1>1. [e EXCEPT !.to = to, !.note = note, !.linksNote = linksNote] \in Event
  BY DEF Event
<1>2. [e EXCEPT !.to = to, !.key = key, !.note = note] \in Event
  BY DEF Event
<1> QED BY <1>1, <1>2

\* Filling the columns of a card leaves a card.
LEMMA RowWith ==
  ASSUME NEW r \in CardRow, NEW state \in CardStates,
         NEW content \in Contents \cup {None}, NEW type \in CardTypes \cup {None},
         NEW revision \in Nat
  PROVE  /\ [r EXCEPT !.content = content, !.type = type, !.revision = revision]
               \in CardRow
         /\ [r EXCEPT !.state = state, !.type = type, !.revision = revision] \in CardRow
         /\ [r EXCEPT !.state = state] \in CardRow
         /\ [r EXCEPT !.archived = TRUE] \in CardRow
<1>1. [r EXCEPT !.content = content, !.type = type, !.revision = revision] \in CardRow
  BY DEF CardRow
<1>2. [r EXCEPT !.state = state, !.type = type, !.revision = revision] \in CardRow
  BY DEF CardRow
<1>3. [r EXCEPT !.state = state] \in CardRow
  BY DEF CardRow
<1>4. [r EXCEPT !.archived = TRUE] \in CardRow
  BY DEF CardRow
<1> QED BY <1>1, <1>2, <1>3, <1>4

\* The locks of a call are locks, and the first is the links lock when the
\* call writes relations.
LEMMA LocksOfType ==
  ASSUME NEW q \in Calls
  PROVE  /\ LocksOf(q) \in Seq(Locks)
         /\ LocksOf(q) # <<>>
         /\ TakesLinksLock(q) => Head(LocksOf(q)) = LinksLock
<1> DEFINE rows == IF q.cmd \in {"create", "promote"} THEN <<ScopeLock>>
                   ELSE IF q.cmd = "release" THEN <<VersionLock(q.version)>>
                   ELSE RowLocks(q)
<1>1. /\ LinksLock \in Locks /\ ScopeLock \in Locks
      /\ \A c \in Cards : CardLock(c) \in Locks
      /\ \A v \in Versions : VersionLock(v) \in Locks
  BY DEF Locks
<1>2. rows \in Seq(Locks) /\ rows # <<>>
  <2>1. q.cmd = "release" => q.version \in Versions
    BY Arguments
  <2>2. q.cmd \in RelationCommands => /\ Lesser(q.card, q.other) \in Cards
                                      /\ Greater(q.card, q.other) \in Cards
                                      /\ q.card \in Cards /\ q.other \in Cards
    BY Arguments, CallKinds DEF RelationCommands, Lesser, Greater
  <2>3. q.cmd \notin {"create", "promote", "release"} => q.card \in Cards
    BY CallKinds
  <2> QED BY <1>1, <2>1, <2>2, <2>3 DEF RelationCommands, RowLocks
<1>3. LocksOf(q) = (IF TakesLinksLock(q) THEN <<LinksLock>> ELSE <<>>) \o rows
  BY DEF LocksOf, FirstLock
<1> HIDE DEF rows
<1> QED BY <1>1, <1>2, <1>3

-----------------------------------------------------------------------------
(* The type invariant: what the common parts of the actions preserve. *)

\* Tables that do not change keep their types.
LEMMA TablesKeep ==
  ASSUME TypeOK, UNCHANGED tables
  PROVE  TablesOK'
  BY DEF TypeOK, TablesOK, tables

\* Callers that do not change keep theirs.
LEMMA CallersKeep ==
  ASSUME TypeOK, UNCHANGED callers
  PROVE  CallersOK'
  BY DEF TypeOK, CallersOK, callers

\* A step of one session keeps the invariant when what it leaves is typed.
LEMMA SessionStep ==
  ASSUME TypeOK, NEW s \in Sessions, NEW t, TxnOK(t), NEW x, WritesOK(x),
         txn' = [txn EXCEPT ![s] = t], w' = [w EXCEPT ![s] = x],
         owner' \in [Locks -> Sessions \cup {None}],
         TablesOK', CallersOK', UNCHANGED outside
  PROVE  TypeOK'
<1>1. txn' = [r \in Sessions |-> IF r = s THEN t ELSE txn[r]]
  BY DEF TypeOK
<1>2. w' = [r \in Sessions |-> IF r = s THEN x ELSE w[r]]
  BY DEF TypeOK
<1>3. \A r \in Sessions : TxnOK(txn[r]) /\ WritesOK(w[r])
  BY DEF TypeOK
<1>4. ASSUME NEW r \in Sessions
      PROVE  TxnOK(txn'[r]) /\ WritesOK(w'[r])
  BY <1>1, <1>2, <1>3
<1>5. \A r \in Sessions : TxnOK(txn[r])' /\ WritesOK(w[r])'
  BY <1>4 DEF TxnOK, WritesOK
<1>6. (txn = [r \in Sessions |-> txn[r]])' /\ (w = [r \in Sessions |-> w[r]])'
  BY <1>1, <1>2
<1>7. /\ policy' \in {"record", "record_and_move_done"}
      /\ loops' \in [Loops -> {"open", "closed"}]
  BY DEF TypeOK, outside
<1> QED BY <1>5, <1>6, <1>7 DEF TypeOK

\* A session at rest, and one that has written nothing.
LEMMA AtRest == TxnOK(Idle) /\ WritesOK(NoWrites)
<1>1. Idle \in Txn
  BY DEF Idle, Txn
<1>2. WritesOK(NoWrites)
  BY FS_EmptySet DEF WritesOK, NoWrites, NoRows, Rows
<1> QED BY <1>1, <1>2 DEF TxnOK, Idle, NoCall

\* What a retry is answered is recorded under its key.
LEMMA AnsweredType ==
  ASSUME NEW q, q.key \in Keys \cup {None}, NEW c, NEW answer \in Answers,
         retried \in SUBSET (Keys \X Answers), Answered(q, c, answer)
  PROVE  retried' \in SUBSET (Keys \X Answers)
<1>1. KeyOnRecord(q, c) => q.key \in Keys
  BY DEF KeyOnRecord
<1> QED BY <1>1 DEF Answered

\* The end of a call keeps the invariant, when the tables keep theirs.
LEMMA EndType ==
  ASSUME TypeOK, NEW s \in Sessions, NEW answer \in Answers, End(s, answer),
         TablesOK'
  PROVE  TypeOK'
<1>1. txn' = [txn EXCEPT ![s] = Idle] /\ w' = [w EXCEPT ![s] = NoWrites]
  BY DEF End
<1>2. owner' \in [Locks -> Sessions \cup {None}]
  BY DEF End, TypeOK
<1>3. txn[s].call.key \in Keys \cup {None}
  <2>1. txn[s].call \in Calls \cup {NoCall}
    BY DEF TypeOK, TxnOK, Txn
  <2> QED BY <2>1, CallKinds DEF NoCall
<1>4. CallersOK'
  BY <1>3, AnsweredType DEF End, CallersOK, TypeOK
<1>5. UNCHANGED outside
  BY DEF End
<1> QED BY <1>1, <1>2, <1>4, <1>5, AtRest, SessionStep

\* A refusal keeps it.
LEMMA FinishType ==
  ASSUME TypeOK, NEW s \in Sessions, NEW answer \in Answers, Finish(s, answer)
  PROVE  TypeOK'
  BY TablesKeep, EndType DEF Finish

\* So do the writes of a command.
LEMMA WriteType ==
  ASSUME TypeOK, NEW s \in Sessions, NEW rows, WritesOK(rows),
         NEW log \in Seq(Event), NEW tail \in Seq(Event),
         txn[s].phase # "idle", Write(s, rows, log, tail)
  PROVE  TypeOK'
<1> DEFINE rest == txn[s].items
           all == log \o IF rest = <<>> THEN tail ELSE <<>>
           new == Stamp(events, all) \ events
           x == [rows EXCEPT !.events = new]
           t == [txn[s] EXCEPT !.phase = IF rest = <<>> THEN "commit" ELSE "items",
                               !.tail = tail]
<1>1. TxnOK(txn[s]) /\ TablesOK
  BY DEF TypeOK
<1>2. all \in Seq(Event)
  <2>1. (IF rest = <<>> THEN tail ELSE <<>>) \in Seq(Event)
    OBVIOUS
  <2> QED BY <2>1
<1>3. new \in SUBSET Event /\ IsFiniteSet(new)
  <2> HIDE DEF all
  <2> QED BY <1>1, <1>2, StampType, FS_Difference DEF TablesOK
<1>4. WritesOK(x)
  <2> HIDE DEF new
  <2> QED BY <1>3 DEF WritesOK
<1>5. TxnOK(t)
  <2>1. t \in Txn
    BY <1>1 DEF TxnOK, Txn
  <2> QED BY <1>1, <2>1 DEF TxnOK, Txn
<1>6. txn' = [txn EXCEPT ![s] = t] /\ w' = [w EXCEPT ![s] = x]
  BY DEF Write
<1>7. /\ owner' \in [Locks -> Sessions \cup {None}]
      /\ TablesOK' /\ CallersOK' /\ UNCHANGED outside
  BY TablesKeep, CallersKeep DEF Write, TypeOK
<1> HIDE DEF t, x
<1> QED BY <1>4, <1>5, <1>6, <1>7, SessionStep

\* And one item of a call, given the lock it took.
LEMMA NextItemType ==
  ASSUME TypeOK, NEW s \in Sessions, NEW rows, WritesOK(rows),
         NEW log \in Seq(Event), txn[s].phase = "items",
         owner' \in [Locks -> Sessions \cup {None}], NextItem(s, rows, log)
  PROVE  TypeOK'
<1> DEFINE rest == Tail(txn[s].items)
           all == log \o IF rest = <<>> THEN txn[s].tail ELSE <<>>
           new == Stamp(events \cup rows.events, all) \ events
           x == [rows EXCEPT !.events = new]
           t == [txn[s] EXCEPT !.items = rest,
                               !.phase = IF rest = <<>> THEN "commit" ELSE "items"]
<1>1. TxnOK(txn[s]) /\ TablesOK
  BY DEF TypeOK
<1>2. all \in Seq(Event)
  <2>1. txn[s].tail \in Seq(Event)
    BY <1>1 DEF TxnOK, Txn
  <2>2. (IF rest = <<>> THEN txn[s].tail ELSE <<>>) \in Seq(Event)
    BY <2>1
  <2> QED BY <2>2
<1>3. new \in SUBSET Event /\ IsFiniteSet(new)
  <2> HIDE DEF all
  <2>1. events \cup rows.events \in SUBSET Event /\ IsFiniteSet(events \cup rows.events)
    BY <1>1, FS_Union DEF TablesOK, WritesOK
  <2> QED BY <1>2, <2>1, StampType, FS_Difference
<1>4. WritesOK(x)
  <2> HIDE DEF new
  <2> QED BY <1>3 DEF WritesOK
<1>5. TxnOK(t)
  <2>1. /\ txn[s].items # <<>> /\ txn[s].call \in Calls
        /\ txn[s].items \in Seq(LinkItem) \cup Seq(Cards)
        /\ txn[s].items \in Seq(LinkItem) => rest \in Seq(LinkItem)
        /\ txn[s].items \in Seq(Cards) => rest \in Seq(Cards)
    BY <1>1 DEF TxnOK, Txn
  <2> HIDE DEF rest
  <2>2. t \in Txn
    BY <1>1, <2>1 DEF TxnOK, Txn
  <2> QED BY <1>1, <2>1, <2>2 DEF TxnOK, Txn
<1>6. txn' = [txn EXCEPT ![s] = t] /\ w' = [w EXCEPT ![s] = x]
  BY DEF NextItem
<1>7. TablesOK' /\ CallersOK' /\ UNCHANGED outside
  BY TablesKeep, CallersKeep DEF NextItem
<1> HIDE DEF t, x
<1> QED BY <1>4, <1>5, <1>6, <1>7, SessionStep

\* The rows the commands write are rows of their tables.
LEMMA WrittenRows ==
  ASSUME NEW x, WritesOK(x)
  PROVE  /\ \A C : Rows(C, Cards, CardRow) => WritesOK([x EXCEPT !.cards = C])
         /\ \A B : Rows(B, Cards, [Branches -> BranchRow]) =>
               WritesOK([x EXCEPT !.branches = B])
         /\ \A R : Rows(R, Cards, SUBSET Refs) => WritesOK([x EXCEPT !.refs = R])
         /\ \A L : Rows(L, LinkKeys, LinkStatus) => WritesOK([x EXCEPT !.links = L])
         /\ \A v \in Versions : WritesOK([x EXCEPT !.version = v])
<1>1. ASSUME NEW C, Rows(C, Cards, CardRow) PROVE WritesOK([x EXCEPT !.cards = C])
  BY <1>1 DEF WritesOK
<1>2. ASSUME NEW B, Rows(B, Cards, [Branches -> BranchRow])
      PROVE  WritesOK([x EXCEPT !.branches = B])
  BY <1>2 DEF WritesOK
<1>3. ASSUME NEW R, Rows(R, Cards, SUBSET Refs) PROVE WritesOK([x EXCEPT !.refs = R])
  BY <1>3 DEF WritesOK
<1>4. ASSUME NEW L, Rows(L, LinkKeys, LinkStatus) PROVE WritesOK([x EXCEPT !.links = L])
  BY <1>4 DEF WritesOK
<1>5. ASSUME NEW v \in Versions PROVE WritesOK([x EXCEPT !.version = v])
  BY DEF WritesOK
<1> QED BY <1>1, <1>2, <1>3, <1>4, <1>5

\* The branch a command opens, and its event.
LEMMA BranchOpenedType ==
  ASSUME TablesOK, NEW c \in Cards, NEW b \in Branches \cup {None}
  PROVE  /\ Rows(BranchOpened(c, b), Cards, [Branches -> BranchRow])
         /\ BranchLog(c, b) \in Seq(Event)
<1>1. branches[c] \in [Branches -> BranchRow] /\ OpenBranch \in BranchRow
  BY DEF TablesOK, OpenBranch, BranchRow
<1>2. CASE b = None
  <2>1. BranchOpened(c, b) = NoRows /\ BranchLog(c, b) = <<>>
    BY <1>2 DEF BranchOpened, BranchLog
  <2> QED BY <2>1 DEF Rows, NoRows
<1>3. CASE b # None
  <2>1. [branches[c] EXCEPT ![b] = OpenBranch] \in [Branches -> BranchRow]
    BY <1>1, <1>3
  <2>2. BranchOpened(c, b) = [d \in {c} |-> [branches[c] EXCEPT ![b] = OpenBranch]]
    BY <1>3 DEF BranchOpened
  <2>3. Rows(BranchOpened(c, b), Cards, [Branches -> BranchRow])
    BY <2>1, <2>2 DEF Rows
  <2>4. Ev(c, "attached") \in Event
    BY EvType DEF EventTypes
  <2>5. [Ev(c, "attached") EXCEPT !.ref = b] \in Event
    BY <2>4 DEF Event
  <2>6. BranchLog(c, b) \in Seq(Event)
    BY <2>5 DEF BranchLog
  <2> QED BY <2>3, <2>6
<1> QED BY <1>2, <1>3

\* The number a new card is given.
LEMMA NextNumberType ==
  ASSUME TablesOK, Cards # {}
  PROVE  NextNumber \in Nat
<1> DEFINE S == {cards[c].number : c \in Cards}
           g == [c \in Cards |-> cards[c].number]
<1>1. S \in SUBSET Nat /\ S # {}
  BY DEF TablesOK, CardRow
<1>2. IsFiniteSet({g[c] : c \in Cards})
  BY BoardAssumption, FiniteImage
<1>3. S = {g[c] : c \in Cards}
  OBVIOUS
<1>4. Max(S) \in Nat
  <2> HIDE DEF S, g
  <2> QED BY <1>1, <1>2, <1>3, MaxIsMember
<1> QED BY <1>4 DEF NextNumber

-----------------------------------------------------------------------------
(* The type invariant: one lemma per command. *)

\* A session about to execute has a call of its kind, and its card.
LEMMA ReadyType ==
  ASSUME TypeOK, NEW s \in Sessions, NEW cmds, Ready(s, cmds)
  PROVE  /\ txn[s].phase # "idle"
         /\ txn[s].call \in Calls
         /\ txn[s].call.cmd \in cmds
         /\ txn[s].call.cmd # "release" => txn[s].card \in Cards
         /\ TablesOK
<1>1. TxnOK(txn[s]) /\ txn[s].phase = "locking" /\ txn[s].call.cmd \in cmds
  BY DEF TypeOK, Ready
<1>2. txn[s].call \in Calls
  BY <1>1 DEF TxnOK
<1> QED BY <1>1, <1>2, CallKinds DEF TypeOK, TxnOK

\* create and promote.
LEMMA CreateType ==
  ASSUME TypeOK, NEW s \in Sessions, ExecCreate(s)
  PROVE  TypeOK'
<1> DEFINE q == txn[s].call
           c == txn[s].card
           row == [number |-> NextNumber, state |-> q.to, type |-> q.type,
                   content |-> q.content, revision |-> 1, archived |-> FALSE,
                   key |-> q.key, loop |-> q.loop]
           e == [Ev(c, "created") EXCEPT
                   !.to = q.to, !.note = q.to = "active" /\ q.branch = None,
                   !.linksNote = q.links = <<>>]
<1>1. /\ txn[s].phase # "idle" /\ q \in Calls /\ c \in Cards /\ TablesOK
      /\ q.cmd \in {"create", "promote"}
  BY ReadyType DEF ExecCreate
<1>2. /\ q.branch \in Branches \cup {None} /\ q.to \in CardStates
      /\ q.type \in CardTypes /\ q.content \in Contents
      /\ q.loop \in Loops \cup {None} /\ q.key \in Keys \cup {None}
  BY <1>1, Arguments, CallKinds
<1>3. CASE \E a \in {"replayed", "refused"} : Finish(s, a)
  BY <1>3, FinishType DEF Answers
<1>4. CASE Write(s, [NoWrites EXCEPT !.cards = [d \in {c} |-> row],
                                     !.branches = BranchOpened(c, q.branch)],
                 <<e>> \o BranchLog(c, q.branch), <<>>)
  <2>1. NextNumber \in Nat
    BY <1>1, NextNumberType
  <2>2. row \in CardRow
    BY <1>2, <2>1 DEF CardRow
  <2>3. Rows([d \in {c} |-> row], Cards, CardRow)
    <3> HIDE DEF row
    <3> QED BY <1>1, <2>2 DEF Rows
  <2>4. /\ Rows(BranchOpened(c, q.branch), Cards, [Branches -> BranchRow])
        /\ BranchLog(c, q.branch) \in Seq(Event)
    BY <1>1, <1>2, BranchOpenedType
  <2>5. Ev(c, "created") \in Event
    BY <1>1, EvType DEF EventTypes
  <2>6. e \in Event
    <3> DEFINE note == q.to = "active" /\ q.branch = None
               linksNote == q.links = <<>>
    <3>1. note \in BOOLEAN /\ linksNote \in BOOLEAN
      OBVIOUS
    <3>2. e = [Ev(c, "created") EXCEPT !.to = q.to, !.note = note,
                                       !.linksNote = linksNote]
      OBVIOUS
    <3> HIDE DEF note, linksNote, e
    <3> QED BY <1>2, <2>5, <3>1, <3>2, EventWith
  <2>7. <<e>> \o BranchLog(c, q.branch) \in Seq(Event) /\ <<>> \in Seq(Event)
    <3> HIDE DEF e
    <3> QED BY <2>4, <2>6
  <2> HIDE DEF row, e
  <2> DEFINE rows == [NoWrites EXCEPT !.cards = [d \in {c} |-> row],
                                      !.branches = BranchOpened(c, q.branch)]
  <2>8. WritesOK(rows)
    <3> DEFINE x == [NoWrites EXCEPT !.cards = [d \in {c} |-> row]]
    <3>1. WritesOK(x)
      BY <2>3, AtRest, WrittenRows
    <3>2. rows = [x EXCEPT !.branches = BranchOpened(c, q.branch)]
      OBVIOUS
    <3> HIDE DEF x, rows
    <3> QED BY <2>4, <3>1, <3>2, WrittenRows
  <2> HIDE DEF rows
  <2>9. Write(s, rows, <<e>> \o BranchLog(c, q.branch), <<>>)
    BY <1>4 DEF rows
  <2> QED BY <1>1, <2>7, <2>8, <2>9, WriteType
<1> QED BY <1>3, <1>4 DEF ExecCreate, NewRow

\* A card whose row, branches and events are typed may be written.
LEMMA CardWriteType ==
  ASSUME TypeOK, NEW s \in Sessions, NEW c \in Cards, NEW row \in CardRow,
         NEW B, Rows(B, Cards, [Branches -> BranchRow]),
         NEW log \in Seq(Event), NEW tail \in Seq(Event), txn[s].phase # "idle",
         \/ Write(s, [NoWrites EXCEPT !.cards = [d \in {c} |-> row], !.branches = B],
                  log, tail)
         \/ Write(s, [NoWrites EXCEPT !.cards = [d \in {c} |-> row]], log, tail)
         \/ Write(s, [NoWrites EXCEPT !.branches = B], log, tail)
  PROVE  TypeOK'
<1> DEFINE C == [d \in {c} |-> row]
           x == [NoWrites EXCEPT !.cards = C]
           y == [NoWrites EXCEPT !.cards = C, !.branches = B]
           z == [NoWrites EXCEPT !.branches = B]
<1>1. Rows(C, Cards, CardRow)
  BY DEF Rows
<1>2. y = [x EXCEPT !.branches = B]
  OBVIOUS
<1> HIDE DEF C
<1>3. WritesOK(x) /\ WritesOK(z)
  BY <1>1, AtRest, WrittenRows
<1> HIDE DEF x, y, z
<1>4. WritesOK(y)
  BY <1>2, <1>3, WrittenRows
<1>5. Write(s, x, log, tail) \/ Write(s, y, log, tail) \/ Write(s, z, log, tail)
  BY DEF x, y, z, C
<1> QED BY <1>3, <1>4, <1>5, WriteType

\* edit.
LEMMA EditType ==
  ASSUME TypeOK, NEW s \in Sessions, ExecEdit(s)
  PROVE  TypeOK'
<1> DEFINE q == txn[s].call
           c == txn[s].card
           r == cards[c]
           content == IF q.content = None THEN r.content ELSE q.content
           type == IF q.type = None THEN r.type ELSE q.type
           row == [r EXCEPT !.content = content, !.type = type,
                            !.revision = r.revision + 1]
           e == [Ev(c, "edited") EXCEPT
                   !.cardType = IF type = r.type THEN None ELSE type]
<1>1. /\ txn[s].phase # "idle" /\ q \in Calls /\ c \in Cards /\ TablesOK
      /\ q.cmd = "edit"
  <2>1. Ready(s, {"edit"})
    BY DEF ExecEdit
  <2> HIDE DEF q
  <2> QED BY <2>1, ReadyType DEF q
<1>2. q.type \in CardTypes \cup {None} /\ q.content \in Contents \cup {None}
  BY <1>1, Arguments
<1>3. CASE \E a \in {"refused", "unchanged"} : Finish(s, a)
  BY <1>3, FinishType DEF Answers
<1>4. CASE Write(s, [NoWrites EXCEPT !.cards = [d \in {c} |-> row]], <<e>>, <<>>)
  <2>1. r \in CardRow
    BY <1>1 DEF TablesOK
  <2>2. /\ content \in Contents \cup {None}
        /\ type \in CardTypes \cup {None}
    BY <1>2, <2>1 DEF CardRow
  <2>3. row \in CardRow
    <3> DEFINE revision == r.revision + 1
    <3>1. revision \in Nat
      BY <2>1 DEF CardRow
    <3>2. row = [r EXCEPT !.content = content, !.type = type, !.revision = revision]
      OBVIOUS
    <3>3. "idea" \in CardStates
      BY DEF CardStates
    <3> HIDE DEF content, type, revision, row
    <3> QED BY <2>1, <2>2, <3>1, <3>2, <3>3, RowWith
  <2>4. Ev(c, "edited") \in Event
    BY <1>1, EvType DEF EventTypes
  <2>5. e \in Event
    <3> DEFINE column == IF type = r.type THEN None ELSE type
    <3>1. column \in CardTypes \cup {None}
      BY <2>2
    <3> HIDE DEF column
    <3>2. [Ev(c, "edited") EXCEPT !.cardType = column] \in Event
      BY <2>4, <3>1, EventColumn
    <3> QED BY <3>2 DEF column
  <2> HIDE DEF e, row
  <2>6. <<e>> \in Seq(Event) /\ <<>> \in Seq(Event)
    BY <2>5
  <2>7. Rows(NoRows, Cards, [Branches -> BranchRow])
    BY DEF Rows, NoRows
  <2> QED BY <1>1, <1>4, <2>3, <2>6, <2>7, CardWriteType
<1> QED BY <1>3, <1>4 DEF ExecEdit, EditedRow, EditedContent, EditedType

\* move.
LEMMA MoveType ==
  ASSUME TypeOK, NEW s \in Sessions, ExecMove(s)
  PROVE  TypeOK'
<1> DEFINE q == txn[s].call
           c == txn[s].card
           r == cards[c]
           declares == q.type # None /\ r.type = None
           type == IF declares THEN q.type ELSE r.type
           revision == IF declares THEN r.revision + 1 ELSE r.revision
           row == [r EXCEPT !.state = q.to, !.type = type, !.revision = revision]
           B == BranchOpened(c, q.branch)
           log == BranchLog(c, q.branch)
           cardType == IF declares THEN q.type ELSE None
           note == q.noBranch \/ q.notLanded
           e == [Ev(c, "moved") EXCEPT
                   !.to = q.to, !.key = q.key, !.cardType = cardType,
                   !.note = note, !.linksNote = q.noLinks]
<1>1. /\ txn[s].phase # "idle" /\ q \in Calls /\ c \in Cards /\ TablesOK
      /\ q.cmd = "move"
  <2>1. Ready(s, {"move"})
    BY DEF ExecMove
  <2> HIDE DEF q
  <2> QED BY <2>1, ReadyType DEF q
<1>2. /\ q.branch \in Branches \cup {None} /\ q.to \in CardStates
      /\ q.type \in CardTypes \cup {None} /\ q.key \in Keys \cup {None}
      /\ q.noLinks \in BOOLEAN
  BY <1>1, Arguments, CallKinds
<1>3. CASE Finish(s, "refused")
  BY <1>3, FinishType DEF Answers
<1>4. CASE Write(s, [NoWrites EXCEPT !.cards = [d \in {c} |-> row], !.branches = B],
                 log, <<e>>)
  <2>1. r \in CardRow
    BY <1>1 DEF TablesOK
  <2>2. /\ type \in CardTypes \cup {None} /\ revision \in Nat
        /\ cardType \in CardTypes \cup {None}
    BY <1>2, <2>1 DEF CardRow
  <2>3. row \in CardRow
    <3>1. r.content \in Contents \cup {None}
      BY <2>1 DEF CardRow
    <3> HIDE DEF type, revision
    <3> QED BY <1>2, <2>1, <2>2, <3>1, RowWith
  <2>4. Rows(B, Cards, [Branches -> BranchRow]) /\ log \in Seq(Event)
    BY <1>1, <1>2, BranchOpenedType
  <2>5. Ev(c, "moved") \in Event
    BY <1>1, EvType DEF EventTypes
  <2>6. note \in BOOLEAN
    OBVIOUS
  <2>7. e \in Event
    <3> DEFINE linksNote == q.noLinks
    <3>1. linksNote \in BOOLEAN
      BY <1>2
    <3>2. e = [Ev(c, "moved") EXCEPT
                 !.to = q.to, !.key = q.key, !.cardType = cardType,
                 !.note = note, !.linksNote = linksNote]
      OBVIOUS
    <3>3. /\ q.to \in CardStates \cup {None} /\ q.key \in Keys \cup {None}
          /\ cardType \in CardTypes \cup {None}
      BY <1>2, <2>2
    <3> HIDE DEF note, linksNote, cardType, e, q
    <3> DEFINE e1 == [Ev(c, "moved") EXCEPT !.to = q.to]
               e2 == [e1 EXCEPT !.key = q.key]
               e3 == [e2 EXCEPT !.cardType = cardType]
               e4 == [e3 EXCEPT !.note = note]
               e5 == [e4 EXCEPT !.linksNote = linksNote]
    <3>4. e = e5
      BY <3>2
    <3>5. e1 \in Event
      BY <2>5, <3>3, EventColumn
    <3> HIDE DEF e1
    <3>6. e2 \in Event
      BY <3>3, <3>5, EventColumn
    <3> HIDE DEF e2
    <3>7. e3 \in Event
      BY <3>3, <3>6, EventColumn
    <3> HIDE DEF e3
    <3>8. e4 \in Event
      BY <2>6, <3>7, EventColumn
    <3> HIDE DEF e4
    <3>9. e5 \in Event
      BY <3>1, <3>8, EventColumn
    <3> QED BY <3>4, <3>9
  <2> HIDE DEF e, row, B, log
  <2>8. <<e>> \in Seq(Event)
    BY <2>7
  <2> QED BY <1>1, <1>4, <2>3, <2>4, <2>8, CardWriteType
<1> QED BY <1>3, <1>4 DEF ExecMove, MoveRow, DeclaresType

\* archive and note.
LEMMA ArchiveNoteType ==
  ASSUME TypeOK, NEW s \in Sessions, ExecArchive(s) \/ ExecNote(s)
  PROVE  TypeOK'
<1> DEFINE c == txn[s].card
           r == cards[c]
           row == [r EXCEPT !.archived = TRUE]
           e == [Ev(c, "noted") EXCEPT !.key = txn[s].call.key]
<1>1. /\ txn[s].phase # "idle" /\ txn[s].call \in Calls /\ c \in Cards /\ TablesOK
      /\ txn[s].call.cmd \in {"archive", "note"}
  BY ReadyType DEF ExecArchive, ExecNote
<1>2. CASE Finish(s, "refused")
  BY <1>2, FinishType DEF Answers
<1>3. Ev(c, "archived") \in Event /\ Ev(c, "noted") \in Event
  BY <1>1, EvType DEF EventTypes
<1>4. <<>> \in Seq(Event)
  OBVIOUS
<1>5. CASE Write(s, [NoWrites EXCEPT !.cards = [d \in {c} |-> row]],
                 <<Ev(c, "archived")>>, <<>>)
  <2>1. row \in CardRow
    <3>1. r \in CardRow
      BY <1>1 DEF TablesOK
    <3>2. /\ r.content \in Contents \cup {None} /\ r.type \in CardTypes \cup {None}
          /\ r.state \in CardStates /\ r.revision \in Nat
      BY <3>1 DEF CardRow
    <3> QED BY <3>1, <3>2, RowWith
  <2>2. <<Ev(c, "archived")>> \in Seq(Event)
    BY <1>3
  <2>3. Rows(NoRows, Cards, [Branches -> BranchRow])
    BY DEF Rows, NoRows
  <2> HIDE DEF row
  <2> QED BY <1>1, <1>4, <1>5, <2>1, <2>2, <2>3, CardWriteType
<1>6. CASE Write(s, NoWrites, <<e>>, <<>>)
  <2>1. txn[s].call.key \in Keys \cup {None}
    BY <1>1, CallKinds
  <2>2. e \in Event
    BY <1>3, <2>1 DEF Event
  <2>3. <<e>> \in Seq(Event)
    <3> HIDE DEF e
    <3> QED BY <2>2
  <2> HIDE DEF e
  <2> QED BY <1>1, <1>4, <1>6, <2>3, AtRest, WriteType
<1> QED BY <1>2, <1>5, <1>6 DEF ExecArchive, ExecNote

\* land.
LEMMA LandType ==
  ASSUME TypeOK, NEW s \in Sessions, ExecLand(s)
  PROVE  TypeOK'
<1> DEFINE q == txn[s].call
           c == txn[s].card
           r == cards[c]
           moves == r.state # q.to
           row == [r EXCEPT !.state = q.to]
           landed == [state |-> "landed", sha |-> q.sha]
           B == [d \in {c} |-> [branches[c] EXCEPT ![q.branch] = landed]]
           e == [Ev(c, "landed") EXCEPT !.ref = q.branch, !.sha = q.sha,
                                        !.key = IF moves THEN None ELSE q.key]
           m == [Ev(c, "moved") EXCEPT !.to = q.to, !.key = q.key,
                                       !.note = q.notLanded]
           log == <<e>> \o (IF moves THEN <<m>> ELSE <<>>)
<1>1. /\ txn[s].phase # "idle" /\ q \in Calls /\ c \in Cards /\ TablesOK
      /\ q.cmd = "land"
  <2>1. Ready(s, {"land"})
    BY DEF ExecLand
  <2> HIDE DEF q
  <2> QED BY <2>1, ReadyType DEF q
<1>2. /\ q.branch \in Branches /\ q.sha \in Seq(Nat) /\ q.to \in CardStates
      /\ q.notLanded \in BOOLEAN /\ q.key \in Keys \cup {None}
  BY <1>1, Arguments, CallKinds
<1>3. CASE \E a \in {"refused", "unchanged"} : Finish(s, a)
  BY <1>3, FinishType DEF Answers
<1>4. CASE Write(s, [NoWrites EXCEPT !.cards = [d \in {c} |-> row], !.branches = B],
                 log, <<>>)
  <2>1. r \in CardRow /\ branches[c] \in [Branches -> BranchRow]
    BY <1>1 DEF TablesOK
  <2>2. row \in CardRow
    <3>1. /\ r.content \in Contents \cup {None} /\ r.type \in CardTypes \cup {None}
          /\ r.revision \in Nat
      BY <2>1 DEF CardRow
    <3> QED BY <1>2, <2>1, <3>1, RowWith
  <2>3. Rows(B, Cards, [Branches -> BranchRow])
    <3>1. landed \in BranchRow
      BY <1>2 DEF BranchRow
    <3> HIDE DEF landed
    <3>2. [branches[c] EXCEPT ![q.branch] = landed] \in [Branches -> BranchRow]
      BY <1>2, <2>1, <3>1
    <3> QED BY <1>1, <3>2 DEF Rows
  <2>4. Ev(c, "landed") \in Event /\ Ev(c, "moved") \in Event
    BY <1>1, EvType DEF EventTypes
  <2>5. e \in Event
    <3> DEFINE key == IF moves THEN None ELSE q.key
    <3>1. key \in Keys \cup {None}
      BY <1>2
    <3> HIDE DEF key, moves, q
    <3> DEFINE e1 == [Ev(c, "landed") EXCEPT !.ref = q.branch]
               e2 == [e1 EXCEPT !.sha = q.sha]
               e3 == [e2 EXCEPT !.key = key]
    <3>2. e = e3
      BY DEF key
    <3>3. e1 \in Event
      BY <1>2, <2>4, EventColumn
    <3> HIDE DEF e1
    <3>4. e2 \in Event
      BY <1>2, <3>3, EventColumn
    <3> HIDE DEF e2
    <3>5. e3 \in Event
      BY <3>1, <3>4, EventColumn
    <3> QED BY <3>2, <3>5
  <2>6. m \in Event
    <3> DEFINE note == q.notLanded
    <3>1. note \in BOOLEAN
      BY <1>2
    <3> HIDE DEF note, q
    <3> DEFINE e1 == [Ev(c, "moved") EXCEPT !.to = q.to]
               e2 == [e1 EXCEPT !.key = q.key]
               e3 == [e2 EXCEPT !.note = note]
    <3>2. m = e3
      BY DEF note, q
    <3>3. e1 \in Event
      BY <1>2, <2>4, EventColumn
    <3> HIDE DEF e1
    <3>4. e2 \in Event
      BY <1>2, <3>3, EventColumn
    <3> HIDE DEF e2
    <3>5. e3 \in Event
      BY <3>1, <3>4, EventColumn
    <3> QED BY <3>2, <3>5
  <2> HIDE DEF e, m, row, B, moves
  <2>7. log \in Seq(Event) /\ <<>> \in Seq(Event)
    BY <2>5, <2>6
  <2> HIDE DEF log
  <2> QED BY <1>1, <1>4, <2>2, <2>3, <2>7, CardWriteType
<1> QED BY <1>3, <1>4 DEF ExecLand, LandLog

\* attach and detach of a branch or another attachment.
LEMMA AttachDetachType ==
  ASSUME TypeOK, NEW s \in Sessions, ExecAttach(s) \/ ExecDetach(s)
  PROVE  TypeOK'
<1> DEFINE q == txn[s].call
           c == txn[s].card
           gone == [d \in {c} |-> [branches[c] EXCEPT ![q.target] = NoBranch]]
           more == [d \in {c} |-> refs[c] \cup {q.target}]
           less == [d \in {c} |-> refs[c] \ {q.target}]
           a == [Ev(c, "attached") EXCEPT !.ref = q.target, !.key = q.key]
           b == [Ev(c, "detached") EXCEPT !.ref = q.target]
<1>1. /\ txn[s].phase # "idle" /\ q \in Calls /\ c \in Cards /\ TablesOK
      /\ q.cmd \in {"attach_branch", "attach_ref", "detach_branch", "detach_ref"}
      /\ ExecAttach(s) => q.cmd \in {"attach_branch", "attach_ref"}
      /\ ExecDetach(s) => q.cmd \in {"detach_branch", "detach_ref"}
  <2>1. /\ ExecAttach(s) => Ready(s, {"attach_branch", "attach_ref"})
        /\ ExecDetach(s) => Ready(s, {"detach_branch", "detach_ref"})
    BY DEF ExecAttach, ExecDetach
  <2>2. Ready(s, {"attach_branch", "attach_ref", "detach_branch", "detach_ref"})
    BY <2>1 DEF Ready
  <2> QED BY <2>1, <2>2, ReadyType DEF Ready
<1>2. /\ q.cmd \in {"attach_branch", "detach_branch"} => q.target \in Branches
      /\ q.cmd \in {"attach_ref", "detach_ref"} => q.target \in Refs
      /\ q.key \in Keys \cup {None}
  BY <1>1, Arguments, CallKinds
<1>3. /\ branches[c] \in [Branches -> BranchRow] /\ refs[c] \in SUBSET Refs
      /\ NoBranch \in BranchRow
  BY <1>1 DEF TablesOK, NoBranch, BranchRow
<1>4. /\ q.cmd = "attach_branch" =>
            Rows(BranchOpened(c, q.target), Cards, [Branches -> BranchRow])
      /\ q.cmd = "detach_branch" => Rows(gone, Cards, [Branches -> BranchRow])
      /\ q.cmd = "attach_ref" => Rows(more, Cards, SUBSET Refs)
      /\ Rows(less, Cards, SUBSET Refs)
  <2>1. q.cmd = "attach_branch" =>
            Rows(BranchOpened(c, q.target), Cards, [Branches -> BranchRow])
    BY <1>1, <1>2, BranchOpenedType
  <2>2. q.cmd = "detach_branch" => Rows(gone, Cards, [Branches -> BranchRow])
    <3>1. q.cmd = "detach_branch" =>
            [branches[c] EXCEPT ![q.target] = NoBranch] \in [Branches -> BranchRow]
      BY <1>2, <1>3
    <3> QED BY <1>1, <3>1 DEF Rows
  <2>3. q.cmd = "attach_ref" => Rows(more, Cards, SUBSET Refs)
    BY <1>1, <1>2, <1>3 DEF Rows
  <2>4. Rows(less, Cards, SUBSET Refs)
    BY <1>1, <1>3 DEF Rows
  <2> QED BY <2>1, <2>2, <2>3, <2>4
<1>5. <<a>> \in Seq(Event) /\ <<b>> \in Seq(Event) /\ <<>> \in Seq(Event)
  <2>1. Ev(c, "attached") \in Event /\ Ev(c, "detached") \in Event
    BY <1>1, EvType DEF EventTypes
  <2>2. q.target \in Branches \cup Refs
    BY <1>1, <1>2
  <2> DEFINE a1 == [Ev(c, "attached") EXCEPT !.ref = q.target]
             a2 == [a1 EXCEPT !.key = q.key]
             b1 == [Ev(c, "detached") EXCEPT !.ref = q.target]
  <2>3. a = a2 /\ b = b1
    OBVIOUS
  <2> HIDE DEF q, a, b
  <2>4. a1 \in Event /\ b1 \in Event
    BY <2>1, <2>2, EventColumn
  <2> HIDE DEF a1
  <2>5. a2 \in Event
    BY <1>2, <2>4, EventColumn
  <2> HIDE DEF a2, b1
  <2> QED BY <2>3, <2>4, <2>5
<1>6. CASE \E answer \in {"refused", "unchanged"} : Finish(s, answer)
  BY <1>6, FinishType DEF Answers
<1>7. CASE q.cmd = "attach_branch"
           /\ Write(s, [NoWrites EXCEPT !.branches = BranchOpened(c, q.target)],
                    <<a>>, <<>>)
  <2> DEFINE x == [NoWrites EXCEPT !.branches = BranchOpened(c, q.target)]
  <2>1. WritesOK(x)
    BY <1>4, <1>7, AtRest, WrittenRows
  <2> HIDE DEF x, a
  <2>2. Write(s, x, <<a>>, <<>>)
    BY <1>7 DEF x
  <2> QED BY <1>1, <1>5, <2>1, <2>2, WriteType
<1>8. CASE q.cmd = "attach_ref"
           /\ Write(s, [NoWrites EXCEPT !.refs = more], <<a>>, <<>>)
  <2> DEFINE x == [NoWrites EXCEPT !.refs = more]
  <2> HIDE DEF more
  <2>1. WritesOK(x)
    BY <1>4, <1>8, AtRest, WrittenRows
  <2> HIDE DEF x, a
  <2>2. Write(s, x, <<a>>, <<>>)
    BY <1>8 DEF x
  <2> QED BY <1>1, <1>5, <2>1, <2>2, WriteType
<1>9. CASE q.cmd = "detach_branch"
           /\ Write(s, [NoWrites EXCEPT !.branches = gone], <<b>>, <<>>)
  <2> DEFINE x == [NoWrites EXCEPT !.branches = gone]
  <2> HIDE DEF gone
  <2>1. WritesOK(x)
    BY <1>4, <1>9, AtRest, WrittenRows
  <2> HIDE DEF x, b
  <2>2. Write(s, x, <<b>>, <<>>)
    BY <1>9 DEF x
  <2> QED BY <1>1, <1>5, <2>1, <2>2, WriteType
<1>10. CASE Write(s, [NoWrites EXCEPT !.refs = less], <<b>>, <<>>)
  <2> DEFINE x == [NoWrites EXCEPT !.refs = less]
  <2> HIDE DEF less
  <2>1. WritesOK(x)
    BY <1>4, AtRest, WrittenRows
  <2> HIDE DEF x, b
  <2>2. Write(s, x, <<b>>, <<>>)
    BY <1>10 DEF x
  <2> QED BY <1>1, <1>5, <2>1, <2>2, WriteType
<1> QED BY <1>1, <1>6, <1>7, <1>8, <1>9, <1>10 DEF ExecAttach, ExecDetach

\* The two events of a relation are events.
LEMMA RelationLogType ==
  ASSUME NEW type \in {"linked", "unlinked"}, NEW k \in LinkKeys, NEW origin,
         NEW key \in Keys \cup {None}
  PROVE  RelationLog(type, k, origin, key) \in Seq(Event)
<1> DEFINE key1 == IF k[1] = origin THEN key ELSE None
           key2 == IF k[2] = origin THEN key ELSE None
           e == [Ev(k[1], type) EXCEPT !.other = k[2], !.link = k[3],
                                       !.dir = "out", !.key = key1]
           f == [Ev(k[2], type) EXCEPT !.other = k[1], !.link = k[3],
                                       !.dir = "in", !.key = key2]
<1>1. k[1] \in Cards /\ k[2] \in Cards /\ k[3] \in LinkTypes
  BY DEF LinkKeys
<1>2. Ev(k[1], type) \in Event /\ Ev(k[2], type) \in Event
  BY <1>1, EvType DEF EventTypes
<1>3. key1 \in Keys \cup {None} /\ key2 \in Keys \cup {None}
  OBVIOUS
<1> HIDE DEF key1, key2
<1> DEFINE e1 == [Ev(k[1], type) EXCEPT !.other = k[2]]
           e2 == [e1 EXCEPT !.link = k[3]]
           e3 == [e2 EXCEPT !.dir = "out"]
           f1 == [Ev(k[2], type) EXCEPT !.other = k[1]]
           f2 == [f1 EXCEPT !.link = k[3]]
           f3 == [f2 EXCEPT !.dir = "in"]
<1>a. e = [e3 EXCEPT !.key = key1] /\ f = [f3 EXCEPT !.key = key2]
  OBVIOUS
<1>b. e1 \in Event /\ f1 \in Event
  BY <1>1, <1>2, EventColumn
<1> HIDE DEF e, f, e1, f1
<1>c. e2 \in Event /\ f2 \in Event
  BY <1>1, <1>b, EventColumn
<1> HIDE DEF e2, f2
<1>d. e3 \in Event /\ f3 \in Event
  BY <1>c, EventColumn
<1> HIDE DEF e3, f3
<1>4. e \in Event
  BY <1>3, <1>a, <1>d, EventColumn
<1>5. f \in Event
  BY <1>3, <1>a, <1>d, EventColumn
<1>6. RelationLog(type, k, origin, key) = <<e, f>>
  BY DEF RelationLog, key1, key2, e, f
<1> QED BY <1>4, <1>5, <1>6

\* Rows written over rows are rows.
LEMMA MergedType ==
  ASSUME NEW K, NEW V, NEW new, Rows(new, K, V), NEW rows, Rows(rows, K, V)
  PROVE  Rows(Merged(new, rows), K, V)
<1>1. DOMAIN Merged(new, rows) = DOMAIN new \cup DOMAIN rows
  BY DEF Merged
<1>2. DOMAIN new \cup DOMAIN rows \subseteq K
  BY DEF Rows
<1>3. \A k \in DOMAIN new \cup DOMAIN rows :
         (IF k \in DOMAIN new THEN new[k] ELSE rows[k]) \in V
  BY DEF Rows
<1>4. Merged(new, rows) \in [DOMAIN new \cup DOMAIN rows -> V]
  BY <1>3 DEF Merged
<1> QED BY <1>1, <1>2, <1>4 DEF Rows

\* The call of a session that executes a relation command names a row.
LEMMA RelationKey ==
  ASSUME TypeOK, NEW s \in Sessions, Ready(s, RelationCommands)
  PROVE  LET q == txn[s].call
             k == LinkKey(q.card, q.other, q.rel)
         IN  /\ q \in Calls
             /\ Writable(k, TRUE)
             /\ q.cmd \in {"attach_card", "detach_card"} => Writable(k, FALSE)
             /\ k \in LinkKeys
<1> DEFINE q == txn[s].call
           k == LinkKey(q.card, q.other, q.rel)
<1>1. q \in Calls /\ q.cmd \in RelationCommands
  BY ReadyType
<1>2. /\ q.card \in Cards /\ q.other \in Cards /\ q.card # q.other
      /\ q.rel \in RelationNames
      /\ q.cmd \in {"attach_card", "detach_card"} => q.rel = "relates_to"
  BY <1>1, Arguments, CallKinds DEF RelationCommands
<1> HIDE DEF q
<1>3. Writable(k, TRUE)
  BY <1>2, LinkKeyWritable
<1>4. q.cmd \in {"attach_card", "detach_card"} => Writable(k, FALSE)
  BY <1>2, LinkKeyWritable
<1>5. k \in LinkKeys
  BY <1>3 DEF Writable
<1> QED BY <1>1, <1>3, <1>4, <1>5 DEF q

\* link and unlink, attach and detach of a card.
LEMMA LinkUnlinkType ==
  ASSUME TypeOK, NEW s \in Sessions, ExecLink(s) \/ ExecUnlink(s)
  PROVE  TypeOK'
<1> DEFINE q == txn[s].call
           k == LinkKey(q.card, q.other, q.rel)
           declared == q.cmd = "link"
           new == LinkWritten(links, k, declared)
           gone == Unlinked(links, k)
           linked == RelationLog("linked", k, q.card, q.key)
           unlinked == RelationLog("unlinked", k, q.card, None)
<1>1. /\ Ready(s, RelationCommands)
      /\ ExecLink(s) => q.cmd \in {"link", "attach_card"}
  BY DEF ExecLink, ExecUnlink, Ready, RelationCommands
<1>2. /\ q \in Calls /\ k \in LinkKeys /\ Writable(k, TRUE)
      /\ q.cmd \in {"attach_card", "detach_card"} => Writable(k, FALSE)
  BY <1>1, RelationKey
<1>3. links \in LinkTable /\ txn[s].phase # "idle"
  BY <1>1 DEF TypeOK, TablesOK, Ready
<1>4. linked \in Seq(Event) /\ unlinked \in Seq(Event) /\ <<>> \in Seq(Event)
  BY <1>2, CallKinds, RelationLogType
<1>5. CASE \E answer \in {"refused", "unchanged"} : Finish(s, answer)
  BY <1>5, FinishType DEF Answers
<1>6. CASE ExecLink(s) /\ Write(s, [NoWrites EXCEPT !.links = new], linked, <<>>)
  <2>1. declared \in BOOLEAN
    OBVIOUS
  <2>2. Writable(k, declared)
    <3>1. declared = TRUE \/ declared = FALSE
      OBVIOUS
    <3>2. ~declared => q.cmd \in {"attach_card", "detach_card"}
      BY <1>1, <1>6
    <3> HIDE DEF k
    <3> QED BY <1>2, <3>2 DEF Writable
  <2> HIDE DEF declared, k
  <2>3. Rows(new, LinkKeys, LinkStatus)
    BY <1>3, <2>1, <2>2, WrittenTable DEF Rows
  <2> DEFINE x == [NoWrites EXCEPT !.links = new]
  <2> HIDE DEF new, linked
  <2>4. WritesOK(x)
    BY <2>3, AtRest, WrittenRows
  <2> HIDE DEF x
  <2>5. Write(s, x, linked, <<>>)
    BY <1>6 DEF x
  <2> QED BY <1>3, <1>4, <2>4, <2>5, WriteType
<1>7. CASE Write(s, [NoWrites EXCEPT !.links = gone], unlinked, <<>>)
  <2> HIDE DEF k
  <2>1. Rows(gone, LinkKeys, LinkStatus)
    BY <1>2 DEF Unlinked, LinkStatus, Rows
  <2> DEFINE x == [NoWrites EXCEPT !.links = gone]
  <2> HIDE DEF gone, unlinked
  <2>2. WritesOK(x)
    BY <2>1, AtRest, WrittenRows
  <2> HIDE DEF x
  <2>3. Write(s, x, unlinked, <<>>)
    BY <1>7 DEF x
  <2> QED BY <1>3, <1>4, <2>2, <2>3, WriteType
<1> QED BY <1>5, <1>6, <1>7 DEF ExecLink, ExecUnlink

\* Taking a lock.
LEMMA OwnerTaken ==
  ASSUME TypeOK, NEW s \in Sessions, NEW l
  PROVE  [owner EXCEPT ![l] = s] \in [Locks -> Sessions \cup {None}]
  BY DEF TypeOK

\* A session that works on its items has one, of the kind of its command.
LEMMA ItemType ==
  ASSUME TypeOK, NEW s \in Sessions, txn[s].phase = "items"
  PROVE  /\ TablesOK /\ WritesOK(w[s]) /\ txn[s].call \in Calls
         /\ txn[s].call.cmd = "release" => Head(txn[s].items) \in Cards
         /\ txn[s].call.cmd # "release" =>
               /\ txn[s].card \in Cards
               /\ Head(txn[s].items) \in LinkItem
               /\ Declares(txn[s].call)
<1>1. TxnOK(txn[s]) /\ TablesOK /\ WritesOK(w[s])
  BY DEF TypeOK
<1>2. txn[s].call \in Calls /\ txn[s].items # <<>>
  BY <1>1 DEF TxnOK
<1>3. txn[s].call.cmd # "none"
  BY <1>2, CallKinds
<1>4. CASE txn[s].call.cmd = "release"
  BY <1>1, <1>2, <1>4 DEF TxnOK
<1>5. CASE txn[s].call.cmd # "release"
  <2>1. /\ txn[s].items \in Seq(LinkItem) /\ txn[s].card \in Cards
        /\ Declares(txn[s].call)
    BY <1>1, <1>2, <1>3, <1>5 DEF TxnOK
  <2> QED BY <1>1, <1>2, <1>5, <2>1
<1> QED BY <1>1, <1>2, <1>4, <1>5

\* One declared relation.
LEMMA DeclareItemType ==
  ASSUME TypeOK, NEW s \in Sessions, DeclareItem(s)
  PROVE  TypeOK'
<1> DEFINE item == Head(txn[s].items)
           c == txn[s].card
           k == LinkKey(c, item.other, item.rel)
           seen == Overlay(w[s].links, links)
           new == LinkWritten(seen, k, TRUE)
           lock == CardLock(item.other)
<1>1. txn[s].phase = "items" /\ txn[s].call.cmd # "release"
  BY DEF DeclareItem
<1>2. /\ TablesOK /\ WritesOK(w[s]) /\ c \in Cards /\ item \in LinkItem
  BY <1>1, ItemType
<1>3. CASE Finish(s, "refused")
  BY <1>3, FinishType DEF Answers
<1>4. CASE owner' = [owner EXCEPT ![lock] = s] /\ NextItem(s, w[s], <<>>)
  <2>1. owner' \in [Locks -> Sessions \cup {None}]
    BY <1>4, OwnerTaken
  <2>2. <<>> \in Seq(Event)
    OBVIOUS
  <2> QED BY <1>1, <1>2, <1>4, <2>1, <2>2, NextItemType
<1>5. CASE /\ item.other # c
           /\ owner' = [owner EXCEPT ![lock] = s]
           /\ NextItem(s, [w[s] EXCEPT !.links = Merged(new, @)],
                       RelationLog("linked", k, c, None))
  <2>1. owner' \in [Locks -> Sessions \cup {None}]
    BY <1>5, OwnerTaken
  <2>2. item.other \in Cards /\ item.rel \in RelationNames
    BY <1>2 DEF LinkItem
  <2> HIDE DEF item, c
  <2>3. Writable(k, TRUE)
    BY <1>2, <1>5, <2>2, LinkKeyWritable
  <2> HIDE DEF k
  <2>4. k \in LinkKeys
    BY <2>3 DEF Writable
  <2>5. Rows(w[s].links, LinkKeys, LinkStatus) /\ links \in LinkTable
    BY <1>2 DEF WritesOK, TablesOK
  <2>6. seen \in LinkTable
    BY <2>5, OverlayType DEF Rows
  <2> HIDE DEF seen
  <2>7. Rows(new, LinkKeys, LinkStatus)
    BY <2>3, <2>6, WrittenTable DEF Rows
  <2> DEFINE merged == Merged(new, w[s].links)
             x == [w[s] EXCEPT !.links = merged]
             log == RelationLog("linked", k, c, None)
  <2> HIDE DEF new
  <2>8. Rows(merged, LinkKeys, LinkStatus)
    BY <2>5, <2>7, MergedType
  <2>9. NextItem(s, x, log)
    BY <1>5
  <2>10. log \in Seq(Event)
    BY <2>4, RelationLogType
  <2> HIDE DEF merged, log
  <2>11. WritesOK(x)
    BY <1>2, <2>8, WrittenRows
  <2> HIDE DEF x
  <2> QED BY <1>1, <2>1, <2>9, <2>10, <2>11, NextItemType
<1> QED BY <1>3, <1>4, <1>5 DEF DeclareItem

\* A release, and one card of it.
LEMMA ReleaseType ==
  ASSUME TypeOK, NEW s \in Sessions, ExecRelease(s) \/ ReleaseItem(s)
  PROVE  TypeOK'
<1>1. CASE ExecRelease(s)
  <2> DEFINE v == txn[s].call.version
             x == [NoWrites EXCEPT !.version = v]
  <2>1. /\ txn[s].phase # "idle" /\ txn[s].call \in Calls
        /\ txn[s].call.cmd = "release"
    BY <1>1, ReadyType DEF ExecRelease
  <2>2. v \in Versions
    BY <2>1, Arguments
  <2> HIDE DEF v
  <2>3. WritesOK(x)
    BY <2>2, AtRest, WrittenRows
  <2>4. Write(s, x, <<>>, <<>>) /\ <<>> \in Seq(Event)
    BY <1>1 DEF ExecRelease, v
  <2> HIDE DEF x
  <2> QED BY <2>1, <2>3, <2>4, WriteType
<1>2. CASE ReleaseItem(s)
  <2> DEFINE c == Head(txn[s].items)
             r == cards[c]
             done == txn[s].policy = "record_and_move_done" /\ r.state = "waiting"
             version == txn[s].call.version
             finished == [d \in {c} |-> [r EXCEPT !.state = "done"]]
             C == IF done THEN Merged(finished, w[s].cards) ELSE w[s].cards
             e == [Ev(c, "released") EXCEPT !.version = version]
             m == [Ev(c, "moved") EXCEPT !.to = "done"]
             log == <<e>> \o (IF done THEN <<m>> ELSE <<>>)
             x == [w[s] EXCEPT !.cards = C]
  <2>1. /\ txn[s].phase = "items" /\ txn[s].call.cmd = "release"
        /\ \/ NextItem(s, w[s], <<>>)
           \/ NextItem(s, x, log)
        /\ owner' \in {owner, [owner EXCEPT ![CardLock(c)] = s]}
    BY <1>2 DEF ReleaseItem
  <2>2. TablesOK /\ WritesOK(w[s]) /\ txn[s].call \in Calls /\ c \in Cards
    BY <2>1, ItemType
  <2>3. owner' \in [Locks -> Sessions \cup {None}]
    <3>1. owner \in [Locks -> Sessions \cup {None}]
      BY DEF TypeOK
    <3> QED BY <2>1, <3>1, OwnerTaken
  <2>4. <<>> \in Seq(Event)
    OBVIOUS
  <2>5. version \in Versions
    BY <2>1, <2>2, Arguments
  <2>6. log \in Seq(Event)
    <3>1. Ev(c, "released") \in Event /\ Ev(c, "moved") \in Event
      BY <2>2, EvType DEF EventTypes
    <3> HIDE DEF version, c
    <3>2. e \in Event
      BY <2>5, <3>1, EventColumn
    <3>3. "done" \in CardStates
      BY DEF CardStates
    <3>4. m \in Event
      BY <3>1, <3>3, EventColumn
    <3> HIDE DEF e, m, done
    <3> QED BY <3>2, <3>4
  <2>7. Rows(C, Cards, CardRow)
    <3>1. r \in CardRow
      BY <2>2 DEF TablesOK
    <3>2. /\ r.content \in Contents \cup {None} /\ r.type \in CardTypes \cup {None}
          /\ r.revision \in Nat /\ "done" \in CardStates
      BY <3>1 DEF CardRow, CardStates
    <3>3. [r EXCEPT !.state = "done"] \in CardRow
      BY <3>1, <3>2, RowWith
    <3>4. Rows(finished, Cards, CardRow)
      BY <2>2, <3>3 DEF Rows
    <3>5. Rows(w[s].cards, Cards, CardRow)
      BY <2>2 DEF WritesOK
    <3> HIDE DEF finished, done
    <3>6. Rows(Merged(finished, w[s].cards), Cards, CardRow)
      BY <3>4, <3>5, MergedType
    <3> QED BY <3>5, <3>6
  <2> HIDE DEF C, log
  <2>8. WritesOK(x)
    BY <2>2, <2>7, WrittenRows
  <2> HIDE DEF x
  <2> QED BY <2>1, <2>2, <2>3, <2>4, <2>6, <2>8, NextItemType
<1> QED BY <1>1, <1>2

\* A commit: rows over tables are tables.
LEMMA CommitType ==
  ASSUME TypeOK, NEW s \in Sessions, Commit(s)
  PROVE  TypeOK'
<1>1. WritesOK(w[s]) /\ TablesOK
  BY DEF TypeOK
<1>2. cards' \in [Cards -> CardRow]
  <2>1. Rows(w[s].cards, Cards, CardRow) /\ cards \in [Cards -> CardRow]
    BY <1>1 DEF WritesOK, TablesOK
  <2> QED BY <2>1 DEF Commit, Overlay, Rows
<1>3. branches' \in [Cards -> [Branches -> BranchRow]]
  <2>1. /\ Rows(w[s].branches, Cards, [Branches -> BranchRow])
        /\ branches \in [Cards -> [Branches -> BranchRow]]
    BY <1>1 DEF WritesOK, TablesOK
  <2> QED BY <2>1 DEF Commit, Overlay, Rows
<1>4. refs' \in [Cards -> SUBSET Refs]
  <2>1. Rows(w[s].refs, Cards, SUBSET Refs) /\ refs \in [Cards -> SUBSET Refs]
    BY <1>1 DEF WritesOK, TablesOK
  <2> QED BY <2>1 DEF Commit, Overlay, Rows
<1>5. links' \in LinkTable
  <2>1. Rows(w[s].links, LinkKeys, LinkStatus) /\ links \in LinkTable
    BY <1>1 DEF WritesOK, TablesOK
  <2> QED BY <2>1, OverlayType DEF Commit, Rows
<1>6. events' \in SUBSET Event /\ IsFiniteSet(events')
  BY <1>1, FS_Union DEF Commit, WritesOK, TablesOK
<1>7. releases' \in SUBSET Versions
  BY <1>1 DEF Commit, WritesOK, TablesOK
<1>8. TablesOK'
  BY <1>2, <1>3, <1>4, <1>5, <1>6, <1>7 DEF TablesOK
<1> QED BY <1>8, EndType DEF Commit, Answers

\* A lock taken.
LEMMA TakeLockType ==
  ASSUME TypeOK, NEW s \in Sessions, TakeLock(s)
  PROVE  TypeOK'
<1> DEFINE t == [txn[s] EXCEPT !.locks = Tail(txn[s].locks)]
<1>1. TxnOK(txn[s]) /\ WritesOK(w[s]) /\ txn[s].locks # <<>>
  BY DEF TypeOK, TakeLock
<1>2. TxnOK(t)
  <2>1. Tail(txn[s].locks) \in Seq(Locks)
    BY <1>1 DEF TxnOK, Txn
  <2> DEFINE rest == Tail(txn[s].locks)
  <2> HIDE DEF rest
  <2>2. [txn[s] EXCEPT !.locks = rest] \in Txn
    BY <1>1, <2>1 DEF TxnOK, Txn, rest
  <2> QED BY <1>1, <2>2 DEF TxnOK, Txn, rest
<1>3. txn' = [txn EXCEPT ![s] = t] /\ w' = [w EXCEPT ![s] = w[s]]
  BY DEF TakeLock, TypeOK
<1>4. owner' \in [Locks -> Sessions \cup {None}]
  BY OwnerTaken DEF TakeLock
<1>5. TablesOK' /\ CallersOK' /\ UNCHANGED outside
  BY TablesKeep, CallersKeep DEF TakeLock
<1> HIDE DEF t
<1> QED BY <1>1, <1>2, <1>3, <1>4, <1>5, SessionStep

\* What a caller read before.
LEMMA SeenType ==
  ASSUME TablesOK, NEW q
  PROVE  Seen(q) \in [Cards -> Nat] \cup {<<>>}
<1>1. [c \in Cards |-> cards[c].revision] \in [Cards -> Nat]
  BY DEF TablesOK, CardRow
<1>2. ASSUME NEW c \in Cards
      PROVE  LandingSeq(c) \in Nat
  <2> DEFINE F == {f \in events : f.card = c /\ f.type = "landed"}
             g == [e \in F |-> e.seq]
             S == {e.seq : e \in F}
  <2>1. IsFiniteSet(F) /\ \A e \in F : e.seq \in Nat
    BY FS_Subset DEF TablesOK, Event
  <2>2. IsFiniteSet({g[e] : e \in F})
    <3>1. DOMAIN g = F
      OBVIOUS
    <3> HIDE DEF g, F
    <3> QED BY <2>1, <3>1, FiniteImage
  <2>3. S = {g[e] : e \in F} /\ S \in SUBSET Nat
    BY <2>1
  <2> HIDE DEF F, g, S
  <2>4. IsFiniteSet(S \cup {0})
    BY <2>2, <2>3, FS_AddElement
  <2>5. Max(S \cup {0}) \in S \cup {0}
    <3>1. S \cup {0} \in SUBSET Nat /\ S \cup {0} # {}
      BY <2>3
    <3> QED BY <2>4, <3>1, MaxIsMember
  <2>6. Max(S \cup {0}) \in Nat
    BY <2>3, <2>5
  <2> QED BY <2>6 DEF LandingSeq, S, F
<1>3. [c \in Cards |-> LandingSeq(c)] \in [Cards -> Nat]
  BY <1>2
<1> QED BY <1>1, <1>3 DEF Seen

\* A call begun.
LEMMA BeginType ==
  ASSUME TypeOK, NEW s \in Sessions, Begin(s)
  PROVE  TypeOK'
<1>1. PICK q \in Calls, c \in Cards \cup {0} :
        /\ calls < MaxCalls
        /\ Target(q, c)
        /\ calls' = calls + 1
        /\ issued' = [k \in Keys |-> IF k = q.key THEN q ELSE issued[k]]
        /\ \/ /\ EarlyAnswer(q) # "none"
              /\ Answered(q, c, EarlyAnswer(q))
              /\ UNCHANGED txn
           \/ /\ txn' = [txn EXCEPT ![s] =
                    [phase |-> "locking", call |-> q, card |-> c,
                     locks |-> LocksOf(q), items |-> ItemsOf(q),
                     tail |-> <<>>, seen |-> Seen(q),
                     policy |-> IF q.cmd = "release" THEN policy ELSE "record"]]
              /\ UNCHANGED retried
        /\ UNCHANGED <<tables, outside, owner, w>>
  BY DEF Begin
<1> DEFINE t == [phase |-> "locking", call |-> q, card |-> c,
                 locks |-> LocksOf(q), items |-> ItemsOf(q),
                 tail |-> <<>>, seen |-> Seen(q),
                 policy |-> IF q.cmd = "release" THEN policy ELSE "record"]
<1>2. TablesOK /\ TxnOK(txn[s]) /\ WritesOK(w[s]) /\ CallersOK
      /\ policy \in {"record", "record_and_move_done"}
  BY DEF TypeOK
<1>3. q.key \in Keys \cup {None} /\ q.cmd # "none"
  BY CallKinds
<1>4. EarlyAnswer(q) \in {"replayed", "refused", "none"}
  BY DEF EarlyAnswer
<1>5. CallersOK'
  <2>1. retried' \in SUBSET (Keys \X Answers)
    <3>1. CASE UNCHANGED retried
      BY <1>2, <3>1 DEF CallersOK
    <3>2. CASE EarlyAnswer(q) # "none" /\ Answered(q, c, EarlyAnswer(q))
      <4>1. EarlyAnswer(q) \in Answers
        BY <1>4, <3>2 DEF Answers
      <4> QED BY <1>2, <1>3, <3>2, <4>1, AnsweredType DEF CallersOK
    <3> QED BY <1>1, <3>1, <3>2
  <2>2. issued' \in [Keys -> Calls \cup {NoCall}]
    BY <1>1, <1>2 DEF CallersOK
  <2>3. calls' \in 0..MaxCalls
    BY <1>1, <1>2, BoardAssumption DEF CallersOK
  <2> QED BY <2>1, <2>2, <2>3 DEF CallersOK
<1>6. TxnOK(t)
  <2>1. LocksOf(q) \in Seq(Locks) /\ Seen(q) \in [Cards -> Nat] \cup {<<>>}
    BY <1>2, LocksOfType, SeenType
  <2>2. /\ q.cmd = "release" => ItemsOf(q) \in Seq(Cards)
        /\ q.cmd # "release" => ItemsOf(q) \in Seq(LinkItem)
    BY Arguments DEF ItemsOf, Declares
  <2>0. ItemsOf(q) # <<>> => q.cmd = "release" \/ Declares(q)
    BY DEF ItemsOf
  <2>3. q.cmd # "release" => c \in Cards
    BY <1>1, CallKinds DEF Target
  <2>4. t \in Txn
    BY <1>2, <2>1, <2>2 DEF Txn
  <2> QED BY <1>3, <2>0, <2>2, <2>3, <2>4 DEF TxnOK
<1>7. /\ owner' \in [Locks -> Sessions \cup {None}]
      /\ UNCHANGED outside /\ TablesOK'
      /\ w' = [w EXCEPT ![s] = w[s]]
  BY <1>1, TablesKeep DEF TypeOK
<1>8. txn' = [txn EXCEPT ![s] = t] \/ txn' = [txn EXCEPT ![s] = txn[s]]
  BY <1>1 DEF TypeOK
<1> HIDE DEF t
<1> QED BY <1>2, <1>5, <1>6, <1>7, <1>8, SessionStep

\* The board at the start.
LEMMA InitType == Init => TypeOK
<1> SUFFICES ASSUME Init PROVE TypeOK
  OBVIOUS
<1>1. ASSUME NEW c \in Cards
      PROVE  FirstNumber(c) \in Nat
  <2>1. IsFiniteSet({d \in OpenCards : d <= c})
    BY BoardAssumption, FS_Subset
  <2> QED BY <2>1, FS_CardinalityType DEF FirstNumber
<1>2. (CHOOSE x \in CardTypes : TRUE) \in CardTypes
      /\ (CHOOSE x \in Contents : TRUE) \in Contents
  BY BoardAssumption
<1>3. cards \in [Cards -> CardRow]
  <2>1. NoCard \in CardRow
    BY DEF NoCard, CardRow, CardStates
  <2>2. ASSUME NEW c \in Cards
        PROVE  [number |-> FirstNumber(c), state |-> "idea",
                type |-> IF c \in LegacyCards THEN None ELSE CHOOSE x \in CardTypes : TRUE,
                content |-> CHOOSE x \in Contents : TRUE,
                revision |-> 1, archived |-> FALSE, key |-> None, loop |-> None] \in CardRow
    <3> DEFINE type == IF c \in LegacyCards THEN None ELSE CHOOSE x \in CardTypes : TRUE
               content == CHOOSE x \in Contents : TRUE
    <3>1. type \in CardTypes \cup {None} /\ content \in Contents
      BY <1>2
    <3> HIDE DEF type, content
    <3>2. [number |-> FirstNumber(c), state |-> "idea", type |-> type,
           content |-> content, revision |-> 1, archived |-> FALSE,
           key |-> None, loop |-> None] \in CardRow
      BY <1>1, <3>1 DEF CardRow, CardStates
    <3> QED BY <3>2 DEF type, content
  <2> QED BY <2>1, <2>2 DEF Init
<1>4. events \in SUBSET Event /\ IsFiniteSet(events)
  <2> DEFINE first(c) == [Ev(c, "created") EXCEPT !.seq = 1, !.to = "idea",
                                                  !.linksNote = c \notin LegacyCards]
             g == [c \in OpenCards |-> first(c)]
  <2>1. ASSUME NEW c \in OpenCards
        PROVE  first(c) \in Event
    <3> DEFINE note == c \notin LegacyCards
    <3>1. Ev(c, "created") \in Event
      BY BoardAssumption, EvType DEF EventTypes
    <3>2. note \in BOOLEAN /\ "idea" \in CardStates
      BY DEF CardStates
    <3> HIDE DEF note
    <3>3. [Ev(c, "created") EXCEPT !.seq = 1, !.to = "idea", !.linksNote = note] \in Event
      BY <3>1, <3>2 DEF Event
    <3> QED BY <3>3 DEF note
  <2>2. IsFiniteSet(OpenCards)
    BY BoardAssumption, FS_Subset
  <2>3. events = {g[c] : c \in OpenCards} /\ DOMAIN g = OpenCards
    BY DEF Init
  <2>4. events \in SUBSET Event
    BY <2>1, <2>3
  <2> HIDE DEF g
  <2> QED BY <2>2, <2>3, <2>4, FiniteImage
<1>5. TablesOK
  <2>1. /\ branches = [c \in Cards |-> [b \in Branches |-> NoBranch]]
        /\ refs = [c \in Cards |-> {}]
        /\ links = [k \in LinkKeys |-> "none"]
        /\ releases = {}
    BY DEF Init
  <2>2. NoBranch \in BranchRow
    BY DEF NoBranch, BranchRow
  <2>3. links \in LinkTable
    BY <2>1 DEF LinkTable, LinkStatus
  <2> QED BY <1>3, <1>4, <2>1, <2>2, <2>3 DEF TablesOK
<1>6. CallersOK
  <2>1. issued = [k \in Keys |-> NoCall] /\ calls = 0 /\ retried = {}
    BY DEF Init
  <2>2. MaxCalls \in Nat
    BY BoardAssumption
  <2> QED BY <2>1, <2>2 DEF CallersOK
<1>7. \A s \in Sessions : TxnOK(txn[s]) /\ WritesOK(w[s])
  BY AtRest DEF Init
<1>8. /\ policy \in {"record", "record_and_move_done"}
      /\ loops \in [Loops -> {"open", "closed"}]
      /\ owner \in [Locks -> Sessions \cup {None}]
      /\ txn = [s \in Sessions |-> txn[s]]
      /\ w = [s \in Sessions |-> w[s]]
  BY DEF Init
<1> QED BY <1>5, <1>6, <1>7, <1>8 DEF TypeOK

\* The policy, the loops and a step that changes nothing.
LEMMA OutsideType ==
  ASSUME TypeOK,
         \/ \E p \in {"record", "record_and_move_done"} : Configure(p)
         \/ \E l \in Loops : CloseLoop(l)
         \/ UNCHANGED vars
  PROVE  TypeOK'
<1>1. /\ UNCHANGED <<tables, owner, txn, w, issued, retried>>
      /\ policy' \in {"record", "record_and_move_done"}
      /\ loops' \in [Loops -> {"open", "closed"}]
  BY DEF Configure, CloseLoop, vars, outside, callers, TypeOK
<1>2. calls' \in 0..MaxCalls
  BY BoardAssumption DEF Configure, CloseLoop, vars, callers, TypeOK, CallersOK
<1>3. TablesOK' /\ CallersOK'
  BY <1>1, <1>2, TablesKeep DEF CallersOK, TypeOK
<1>4. \A s \in Sessions : TxnOK(txn[s])' /\ WritesOK(w[s])'
  BY <1>1 DEF TypeOK, TxnOK, WritesOK
<1> QED BY <1>1, <1>3, <1>4 DEF TypeOK

\* The type invariant holds of every board, whatever the number of cards,
\* sessions and calls.
THEOREM TypeCorrect == Spec => []TypeOK
<1>1. ASSUME TypeOK, [Next]_vars
      PROVE  TypeOK'
  <2>1. ASSUME NEW s \in Sessions, Begin(s) PROVE TypeOK'
    BY <1>1, <2>1, BeginType
  <2>2. ASSUME NEW s \in Sessions, TakeLock(s) PROVE TypeOK'
    BY <1>1, <2>2, TakeLockType
  <2>3. ASSUME NEW s \in Sessions, Exec(s) PROVE TypeOK'
    BY <1>1, <2>3, CreateType, EditType, MoveType, ArchiveNoteType, LandType,
       AttachDetachType, LinkUnlinkType, ReleaseType DEF Exec
  <2>4. ASSUME NEW s \in Sessions, DeclareItem(s) \/ ReleaseItem(s) PROVE TypeOK'
    BY <1>1, <2>4, DeclareItemType, ReleaseType
  <2>5. ASSUME NEW s \in Sessions, Commit(s) PROVE TypeOK'
    BY <1>1, <2>5, CommitType
  <2>6. ASSUME NEW s \in Sessions, UniqueViolation(s) \/ DeadlockAbort(s) PROVE TypeOK'
    BY <1>1, <2>6, FinishType DEF UniqueViolation, DeadlockAbort, Answers
  <2>7. CASE \/ \E p \in {"record", "record_and_move_done"} : Configure(p)
             \/ \E l \in Loops : CloseLoop(l)
             \/ UNCHANGED vars
    BY <1>1, <2>7, OutsideType
  <2> QED BY <1>1, <2>1, <2>2, <2>3, <2>4, <2>5, <2>6, <2>7 DEF Next, Step, Done
<1> QED BY <1>1, InitType, PTL DEF Spec
=============================================================================
