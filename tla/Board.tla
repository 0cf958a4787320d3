-------------------------------- MODULE Board --------------------------------
(***************************************************************************)
(* The project board: cards, their event streams, branches, attachments,   *)
(* relations and releases, as the SQL functions of the migrations write    *)
(* them.                                                                   *)
(*                                                                         *)
(* A call runs as one database transaction of a session, in READ COMMITTED:*)
(*   Begin      the reads made before any lock (idempotency key, ...);     *)
(*   TakeLock   one advisory lock or row lock, waiting for its owner;      *)
(*   Exec...    the checks and the writes, seen only by the session;       *)
(*   ...Item    one declared relation, or one card of a release, with the  *)
(*              row lock it takes;                                         *)
(*   Commit     the writes become visible and the locks are released.      *)
(* Refusals, unique indexes and deadlocks end the call without a trace.    *)
(***************************************************************************)
EXTENDS Integers, Sequences, FiniteSets, FiniteSetsExt, CardLinks

CONSTANTS
    Sessions,      \* database sessions serving callers
    Keys,          \* idempotency keys
    Branches,      \* {repo, branch} pairs
    Refs,          \* attachments of the other kinds
    Shas,          \* commit ids as callers write them: sequences of digits
    Versions,      \* release versions
    Loops,         \* open loops that may be promoted
    Contents,      \* title, body and severity of a card
    CardTypes,     \* story, bug, task, spike
    None,          \* an argument or column that is null
    OpenCards,     \* the cards already on the board at the start
    LegacyCards,   \* those of them written before types and relations
    Commands,      \* the commands the sessions issue
    TargetStates,  \* the states callers ask for
    Relations,     \* the relations callers name
    LinkLists,     \* the lists of relations callers declare
    Batches,       \* the card lists a release observer passes
    MaxCalls       \* bound on the calls of a behaviour

CardStates == {"idea", "active", "waiting", "done", "parked"}

LinkItem == [other : Cards, rel : RelationNames]

ASSUME BoardAssumption ==
    /\ IsFiniteSet(Cards)
    /\ OpenCards \subseteq Cards
    /\ LegacyCards \subseteq OpenCards
    /\ TargetStates \subseteq CardStates
    /\ Relations \subseteq RelationNames
    /\ LinkLists \subseteq Seq(LinkItem)
    /\ Batches \subseteq Seq(Cards)
    /\ Shas \subseteq Seq(Nat)
    /\ None \notin Keys \cup Branches \cup Refs \cup Versions \cup Loops
                   \cup Contents \cup CardTypes \cup Cards \cup Sessions
    /\ Branches \cap Refs = {}
    /\ MaxCalls \in Nat
    /\ Contents # {} /\ CardTypes # {}

VARIABLES
    cards, branches, refs, links, events,  \* the committed tables
    releases, policy, loops,
    owner,                                 \* who holds each lock
    txn,                                   \* the call each session runs
    w,                                     \* what it wrote and not committed
    issued, calls, retried                 \* the callers

tables  == <<cards, branches, refs, links, events, releases>>
outside == <<policy, loops>>
callers == <<issued, calls, retried>>
vars    == <<tables, outside, owner, txn, w, callers>>

-----------------------------------------------------------------------------
(* Rows. *)

NoCard == [number |-> 0, state |-> "idea", type |-> None, content |-> None,
           revision |-> 0, archived |-> FALSE, key |-> None, loop |-> None]

CardRow == [number : Nat, state : CardStates, type : CardTypes \cup {None},
            content : Contents \cup {None}, revision : Nat, archived : BOOLEAN,
            key : Keys \cup {None}, loop : Loops \cup {None}]

BranchRow == [state : {"none", "open", "landed"}, sha : Seq(Nat)]

NoBranch == [state |-> "none", sha |-> <<>>]
OpenBranch == [state |-> "open", sha |-> <<>>]

EventTypes == {"created", "moved", "edited", "archived", "noted", "attached",
               "detached", "landed", "released", "linked", "unlinked"}

\* One row of card_events; the columns a type does not use are null.
Event == [card : Cards, seq : Nat, type : EventTypes, key : Keys \cup {None},
          to : CardStates \cup {None}, cardType : CardTypes \cup {None},
          ref : Branches \cup Refs \cup {None}, sha : Seq(Nat),
          note : BOOLEAN, linksNote : BOOLEAN, other : Cards \cup {None},
          link : LinkTypes \cup {None}, dir : {"in", "out", None},
          version : Versions \cup {None}]

Ev(c, type) ==
    [card |-> c, seq |-> 0, type |-> type, key |-> None, to |-> None,
     cardType |-> None, ref |-> None, sha |-> <<>>, note |-> FALSE,
     linksNote |-> FALSE, other |-> None, link |-> None, dir |-> None,
     version |-> None]

Exists(c) == cards[c].number # 0

OpenBranches(c) == {b \in Branches : branches[c][b].state = "open"}

Seqs(E, c) == {e.seq : e \in {f \in E : f.card = c}}

LastSeq(E, c) == Max(Seqs(E, c) \cup {0})

\* The latest landing of a card, 0 when it never landed.
LandingSeq(c) ==
    Max({e.seq : e \in {f \in events : f.card = c /\ f.type = "landed"}} \cup {0})

KeyUsed(c, k) == \E e \in events : e.card = c /\ e.key = k

\* max(seq) + 1 for each row of a log, in order, after the rows of E.
Stamp(E, log) ==
    E \cup {[log[i] EXCEPT !.seq =
                LastSeq(E, log[i].card)
                + Cardinality({j \in 1..i : log[j].card = log[i].card})]
            : i \in DOMAIN log}

LinksAssessed(c) ==
    \/ \E e \in events : e.card = c /\ e.linksNote
    \/ EverDeclared(links, c)

-----------------------------------------------------------------------------
(* Calls. The combinations of arguments are the ones that pass the checks  *)
(* a command makes before it reads anything.                               *)

CreateCalls ==
    {q \in [cmd : {"create", "promote"}, key : Keys \cup {None}, card : {0},
            to : TargetStates, branch : Branches \cup {None},
            links : LinkLists \cup {<<>>}, loop : Loops \cup {None},
            type : CardTypes, content : Contents] :
        /\ q.branch # None => q.to = "active"
        /\ q.cmd = "promote" => q.loop # None}

MoveCalls ==
    {q \in [cmd : {"move"}, key : Keys \cup {None}, card : Cards,
            to : TargetStates, branch : Branches \cup {None},
            noBranch : BOOLEAN, notLanded : BOOLEAN,
            links : LinkLists \cup {<<>>}, noLinks : BOOLEAN,
            type : CardTypes \cup {None}] :
        /\ ~(q.branch # None /\ q.noBranch)
        /\ q.branch # None \/ q.noBranch => q.to = "active"
        /\ ~(q.links # <<>> /\ q.noLinks)
        /\ q.links # <<>> \/ q.noLinks => q.to = "active"}

LandCalls ==
    [cmd : {"land"}, key : Keys \cup {None}, card : Cards, branch : Branches,
     sha : Shas, to : TargetStates, notLanded : BOOLEAN]

EditCalls ==
    [cmd : {"edit"}, key : {None}, card : Cards, content : Contents \cup {None},
     type : CardTypes \cup {None}, guarded : BOOLEAN]

ArchiveCalls == [cmd : {"archive"}, key : {None}, card : Cards]

NoteCalls == [cmd : {"note"}, key : Keys \cup {None}, card : Cards]

AttachCalls ==
    [cmd : {"attach_branch"}, key : Keys \cup {None}, card : Cards, target : Branches]
    \cup [cmd : {"attach_ref"}, key : Keys \cup {None}, card : Cards, target : Refs]
    \cup [cmd : {"detach_branch"}, key : {None}, card : Cards, target : Branches]
    \cup [cmd : {"detach_ref"}, key : {None}, card : Cards, target : Refs]

LinkCalls ==
    {q \in [cmd : {"link"}, key : Keys \cup {None}, card : Cards, other : Cards,
            rel : Relations]
           \cup [cmd : {"unlink"}, key : {None}, card : Cards, other : Cards,
                 rel : Relations]
           \cup [cmd : {"attach_card"}, key : Keys \cup {None}, card : Cards,
                 other : Cards, rel : {"relates_to"}]
           \cup [cmd : {"detach_card"}, key : {None}, card : Cards,
                 other : Cards, rel : {"relates_to"}] :
        q.card # q.other}

ReleaseCalls ==
    [cmd : {"release"}, key : {None}, card : {0}, version : Versions,
     batch : Batches, checked : BOOLEAN]

Calls ==
    {q \in CreateCalls \cup MoveCalls \cup LandCalls \cup EditCalls
           \cup ArchiveCalls \cup NoteCalls \cup AttachCalls \cup LinkCalls
           \cup ReleaseCalls : q.cmd \in Commands}

NoCall == [cmd |-> "none", key |-> None]

Declares(q) == q.cmd \in {"create", "promote", "move"} /\ q.links # <<>>

RelationCommands == {"link", "unlink", "attach_card", "detach_card"}

-----------------------------------------------------------------------------
(* Locks. *)

LinksLock == <<"links", 0>>          \* private.card_links_lock
ScopeLock == <<"scope", 0>>          \* pg_advisory_xact_lock(hashtext(scope))
CardLock(c) == <<"card", c>>         \* select ... for update
VersionLock(v) == <<"version", v>>   \* the row upserted in scope_releases

Locks == {LinksLock, ScopeLock} \cup {CardLock(c) : c \in Cards}
         \cup {VersionLock(v) : v \in Versions}

\* Mutant: link checks and writes without the links lock.
TakesLinksLockToDeclare(q) == Declares(q)

TakesLinksLock(q) == Declares(q) \/ q.cmd \in RelationCommands

\* The row of the card, or of both cards in id order; attach takes its own
\* card's first.
RowLocks(q) ==
    IF q.cmd = "attach_card" THEN <<CardLock(q.card), CardLock(q.other)>>
    ELSE IF q.cmd \in RelationCommands
    THEN <<CardLock(Lesser(q.card, q.other)), CardLock(Greater(q.card, q.other))>>
    ELSE <<CardLock(q.card)>>

FirstLock(q) == IF TakesLinksLock(q) THEN <<LinksLock>> ELSE <<>>

\* Mutants: attach takes no row lock; create does not queue on its scope; the
\* links lock comes last.
LocksOfReaders(q) ==
    FirstLock(q) \o (IF q.cmd \in {"create", "promote"} THEN <<ScopeLock>>
                     ELSE IF q.cmd = "release" THEN <<VersionLock(q.version)>>
                     ELSE IF q.cmd \in {"attach_branch", "attach_ref"} THEN <<>>
                     ELSE RowLocks(q))

LocksOfUnscoped(q) ==
    FirstLock(q) \o (IF q.cmd \in {"create", "promote"} THEN <<>>
                     ELSE IF q.cmd = "release" THEN <<VersionLock(q.version)>>
                     ELSE RowLocks(q))

LocksOfRowsFirst(q) ==
    (IF q.cmd \in {"create", "promote"} THEN <<ScopeLock>>
     ELSE IF q.cmd = "release" THEN <<VersionLock(q.version)>>
     ELSE RowLocks(q)) \o FirstLock(q)

\* The locks a call takes before it writes, in the order of the code.  The
\* rows of declared relations and of a release come later, one by one.
LocksOf(q) ==
    FirstLock(q) \o (IF q.cmd \in {"create", "promote"} THEN <<ScopeLock>>
                     ELSE IF q.cmd = "release" THEN <<VersionLock(q.version)>>
                     ELSE RowLocks(q))

\* Mutant: create drops the relations it was given.
ItemsOfMoves(q) == IF Declares(q) /\ q.cmd = "move" THEN q.links
                   ELSE IF q.cmd = "release" THEN q.batch
                   ELSE <<>>

ItemsOf(q) == IF Declares(q) THEN q.links
              ELSE IF q.cmd = "release" THEN q.batch
              ELSE <<>>

Free(l, s) == owner[l] \in {None, s}

-----------------------------------------------------------------------------
(* The life of a call. *)

NoWrites == [cards |-> NoRows, branches |-> NoRows, refs |-> NoRows,
             links |-> NoRows, events |-> {}, version |-> None]

Idle == [phase |-> "idle", call |-> NoCall, card |-> 0, locks |-> <<>>,
         items |-> <<>>, tail |-> <<>>, seen |-> <<>>, policy |-> "record"]

\* Mutant: a null key is looked for like any other.
NullKeyOnRecord(q, c) ==
    \/ q.cmd \in {"create", "promote"} /\ \E d \in Cards : cards[d].key = q.key
    \/ q.cmd \notin {"create", "promote"} /\ KeyUsed(c, q.key)

\* Whether a call's key already had its effect.
KeyOnRecord(q, c) ==
    /\ q.key # None
    /\ \/ q.cmd \in {"create", "promote"} /\ \E d \in Cards : cards[d].key = q.key
       \/ q.cmd \notin {"create", "promote"} /\ KeyUsed(c, q.key)

\* What a keyed call is answered when its key had its effect already.
Answered(q, c, answer) ==
    retried' = IF KeyOnRecord(q, c) THEN retried \cup {<<q.key, answer>>}
               ELSE retried

\* The end of a transaction: the locks go, and what it wrote with them
\* unless Commit published it.
End(s, answer) ==
    /\ txn' = [txn EXCEPT ![s] = Idle]
    /\ w' = [w EXCEPT ![s] = NoWrites]
    /\ owner' = [l \in Locks |-> IF owner[l] = s THEN None ELSE owner[l]]
    /\ Answered(txn[s].call, txn[s].card, answer)
    /\ UNCHANGED <<issued, calls, outside>>

\* A refusal, or a call that changes nothing.
Finish(s, answer) == End(s, answer) /\ UNCHANGED tables

\* The commands that look for their key before they take a lock.
KeyCheckedFirst == {"move", "land", "note", "link"}

\* The answers given before any lock is taken.
EarlyAnswer(q) ==
    CASE q.cmd \in KeyCheckedFirst /\ KeyOnRecord(q, q.card) -> "replayed"
      [] q.cmd = "detach_card"
           /\ ~Live(links, RelatesTo(q.card, q.other))       -> "refused"
      [] q.cmd = "promote" /\ loops[q.loop] # "open"         -> "refused"
      [] OTHER                                               -> "none"

\* The card a call is about; a create gets an id nobody has.
Target(q, c) ==
    IF q.cmd \in {"create", "promote"}
    THEN /\ c \in Cards
         /\ ~Exists(c)
         /\ \A t \in Sessions : txn[t].card # c
    ELSE c = q.card

\* What the caller read before: the revision an edit names, the landings a
\* release observer checked.
Seen(q) ==
    IF q.cmd = "edit" THEN [c \in Cards |-> cards[c].revision]
    ELSE IF q.cmd = "release" THEN [c \in Cards |-> LandingSeq(c)]
    ELSE <<>>

\* A caller uses a key for one call, and again only to retry that call.
Begin(s) ==
    \E q \in Calls, c \in Cards \cup {0} :
        /\ txn[s] = Idle
        /\ calls < MaxCalls
        /\ q.key # None => issued[q.key] \in {NoCall, q}
        /\ Target(q, c)
        /\ q.card # 0 => Exists(q.card)
        /\ q.cmd \in RelationCommands => Exists(q.other)
        /\ calls' = calls + 1
        /\ issued' = [k \in Keys |-> IF k = q.key THEN q ELSE issued[k]]
        /\ \/ /\ EarlyAnswer(q) # "none"
              /\ Answered(q, c, EarlyAnswer(q))
              /\ UNCHANGED txn
           \/ /\ EarlyAnswer(q) = "none"
              /\ txn' = [txn EXCEPT ![s] =
                    [phase |-> "locking", call |-> q, card |-> c,
                     locks |-> LocksOf(q), items |-> ItemsOf(q),
                     tail |-> <<>>, seen |-> Seen(q),
                     policy |-> IF q.cmd = "release" THEN policy ELSE "record"]]
              /\ UNCHANGED retried
        /\ UNCHANGED <<tables, outside, owner, w>>

TakeLock(s) ==
    /\ txn[s].phase = "locking"
    /\ txn[s].locks # <<>>
    /\ Free(Head(txn[s].locks), s)
    /\ owner' = [owner EXCEPT ![Head(txn[s].locks)] = s]
    /\ txn' = [txn EXCEPT ![s].locks = Tail(@)]
    /\ UNCHANGED <<tables, outside, w, callers>>

Ready(s, cmds) ==
    /\ txn[s].phase = "locking"
    /\ txn[s].locks = <<>>
    /\ txn[s].call.cmd \in cmds

\* The writes of a command: rows, the events it logs at once, and the events
\* it logs after its declared relations.
Write(s, rows, log, tail) ==
    LET rest == txn[s].items
        all  == log \o IF rest = <<>> THEN tail ELSE <<>>
    IN  /\ w' = [w EXCEPT ![s] =
                    [rows EXCEPT !.events = Stamp(events, all) \ events]]
        /\ txn' = [txn EXCEPT ![s].phase = IF rest = <<>> THEN "commit" ELSE "items",
                              ![s].tail = tail]
        /\ UNCHANGED <<tables, outside, owner, callers>>

-----------------------------------------------------------------------------
(* Cards: create, promote, edit, move, archive, note. *)

NextNumber == Max({cards[c].number : c \in Cards}) + 1

CreateReplayed(q) == KeyOnRecord(q, 0)

CreateRefused(q) ==
    q.loop # None /\ \E d \in Cards : cards[d].loop = q.loop

\* The row of the branch a card works in, and the event if it was not open.
BranchOpened(c, b) ==
    IF b = None THEN NoRows ELSE [d \in {c} |-> [branches[c] EXCEPT ![b] = OpenBranch]]

\* Mutant: a landed branch is reopened without an event.
BranchLogFirst(c, b) ==
    IF b = None \/ (b # None /\ branches[c][b].state # "none") THEN <<>>
    ELSE <<[Ev(c, "attached") EXCEPT !.ref = b]>>

BranchLog(c, b) ==
    IF b = None \/ (b # None /\ branches[c][b].state = "open") THEN <<>>
    ELSE <<[Ev(c, "attached") EXCEPT !.ref = b]>>

\* The row a create inserts.
NewRow(q) ==
    [number |-> NextNumber, state |-> q.to, type |-> q.type, content |-> q.content,
     revision |-> 1, archived |-> FALSE, key |-> q.key, loop |-> q.loop]

ExecCreate(s) ==
    LET q == txn[s].call
        c == txn[s].card
    IN  /\ Ready(s, {"create", "promote"})
        /\ \/ CreateReplayed(q) /\ Finish(s, "replayed")
           \/ ~CreateReplayed(q) /\ CreateRefused(q) /\ Finish(s, "refused")
           \/ /\ ~CreateReplayed(q)
              /\ ~CreateRefused(q)
              /\ Write(s,
                   [NoWrites EXCEPT
                     !.cards = [d \in {c} |-> NewRow(q)],
                     !.branches = BranchOpened(c, q.branch)],
                   <<[Ev(c, "created") EXCEPT
                        !.to = q.to,
                        !.note = q.to = "active" /\ q.branch = None,
                        !.linksNote = q.links = <<>>]>>
                     \o BranchLog(c, q.branch),
                   <<>>)

\* The columns an edit names.
EditedContent(q, r) == IF q.content = None THEN r.content ELSE q.content
EditedType(q, r) == IF q.type = None THEN r.type ELSE q.type

EditedRow(q, r) ==
    [r EXCEPT !.content = EditedContent(q, r), !.type = EditedType(q, r),
              !.revision = r.revision + 1]

\* A guarded edit names the revision its caller read.
EditRefused(q, r, read) == r.archived \/ (q.guarded /\ read # r.revision)

EditSame(q, r) == EditedContent(q, r) = r.content /\ EditedType(q, r) = r.type

ExecEdit(s) ==
    LET q == txn[s].call
        c == txn[s].card
        r == cards[c]
        refused == EditRefused(q, r, txn[s].seen[c])
    IN  /\ Ready(s, {"edit"})
        /\ \/ refused /\ Finish(s, "refused")
           \/ ~refused /\ EditSame(q, r) /\ Finish(s, "unchanged")
           \/ /\ ~refused
              /\ ~EditSame(q, r)
              /\ Write(s,
                   [NoWrites EXCEPT !.cards = [d \in {c} |-> EditedRow(q, r)]],
                   <<[Ev(c, "edited") EXCEPT
                        !.cardType = IF EditedType(q, r) = r.type THEN None
                                     ELSE EditedType(q, r)]>>,
                   <<>>)

\* Mutant: one open branch is not enough.
LeavesSeveralOpen(r, open) == r.state = "active" /\ Cardinality(open) > 1

\* Leaving active with a branch open needs the caller to say it did not land.
LeavesOpen(r, open) == r.state = "active" /\ open # {}

\* Mutant: a landed branch counts as one to work in.
NoBranchAtAll(q, c) ==
    /\ q.to = "active"
    /\ q.branch = None
    /\ ~q.noBranch
    /\ \A b \in Branches : branches[c][b].state = "none"

\* Work enters active with a branch to do it in, or the reason it has none.
NoWorkBranch(q, c) ==
    /\ q.to = "active"
    /\ q.branch = None
    /\ ~q.noBranch
    /\ OpenBranches(c) = {}

MoveRefused(q, c) ==
    LET r == cards[c]
        enters == q.to = "active"
    IN  \/ r.archived
        \/ r.state = q.to
        \/ q.type # None /\ r.type # None /\ q.type # r.type
        \/ enters /\ r.type = None /\ q.type = None
        \/ NoWorkBranch(q, c)
        \/ enters /\ q.links = <<>> /\ ~q.noLinks /\ ~LinksAssessed(c)
        \/ q.notLanded # LeavesOpen(r, OpenBranches(c))

DeclaresType(q, r) == q.type # None /\ r.type = None

\* Mutant: declaring the type does not count as a change of content.
MoveRowSameRevision(q, r) ==
    [r EXCEPT !.state = q.to, !.type = IF DeclaresType(q, r) THEN q.type ELSE r.type]

MoveRow(q, r) ==
    [r EXCEPT !.state = q.to,
              !.type = IF DeclaresType(q, r) THEN q.type ELSE r.type,
              !.revision = IF DeclaresType(q, r) THEN r.revision + 1 ELSE r.revision]

ExecMove(s) ==
    LET q == txn[s].call
        c == txn[s].card
        r == cards[c]
    IN  /\ Ready(s, {"move"})
        /\ \/ MoveRefused(q, c) /\ Finish(s, "refused")
           \/ /\ ~MoveRefused(q, c)
              /\ Write(s,
                   [NoWrites EXCEPT
                     !.cards = [d \in {c} |-> MoveRow(q, r)],
                     !.branches = BranchOpened(c, q.branch)],
                   BranchLog(c, q.branch),
                   <<[Ev(c, "moved") EXCEPT
                        !.to = q.to, !.key = q.key,
                        !.cardType = IF DeclaresType(q, r) THEN q.type ELSE None,
                        !.note = q.noBranch \/ q.notLanded,
                        !.linksNote = q.noLinks]>>)

ExecArchive(s) ==
    LET c == txn[s].card
        r == cards[c]
    IN  /\ Ready(s, {"archive"})
        /\ \/ r.archived /\ Finish(s, "refused")
           \/ /\ ~r.archived
              /\ Write(s,
                   [NoWrites EXCEPT
                     !.cards = [d \in {c} |-> [r EXCEPT !.archived = TRUE]]],
                   <<Ev(c, "archived")>>, <<>>)

\* Mutant: archived_at is not read.
NoteAnyway(s) ==
    /\ Ready(s, {"note"})
    /\ Write(s, NoWrites,
             <<[Ev(txn[s].card, "noted") EXCEPT !.key = txn[s].call.key]>>, <<>>)

ExecNote(s) ==
    LET c == txn[s].card
    IN  /\ Ready(s, {"note"})
        /\ \/ cards[c].archived /\ Finish(s, "refused")
           \/ /\ ~cards[c].archived
              /\ Write(s, NoWrites,
                       <<[Ev(c, "noted") EXCEPT !.key = txn[s].call.key]>>, <<>>)

-----------------------------------------------------------------------------
(* Branches and attachments: land, attach, detach. *)

\* A short and a full id of one commit.
SameSha(a, b) == \/ Len(a) <= Len(b) /\ SubSeq(b, 1, Len(a)) = a
                 \/ Len(b) <= Len(a) /\ SubSeq(a, 1, Len(b)) = b

\* Mutant: a short id and its full one are two commits.
LandingOnRecordExactly(c, b, sha) ==
    /\ branches[c][b].state # "none"
    /\ \E e \in events : /\ e.card = c /\ e.type = "landed"
                         /\ e.ref = b /\ e.sha = sha

\* The landing is already on record, as the latest of the branch or an
\* earlier one.
LandingOnRecord(c, b, sha) ==
    /\ branches[c][b].state # "none"
    /\ \E e \in events : /\ e.card = c /\ e.type = "landed"
                         /\ e.ref = b /\ SameSha(e.sha, sha)

LandRefused(q, c) ==
    LET r == cards[c]
        others == OpenBranches(c) \ {q.branch}
    IN  q.notLanded # (r.state # q.to /\ LeavesOpen(r, others))

\* Mutant: the landing moves the card and logs no move.
LandLogOnly(q, c) ==
    <<[Ev(c, "landed") EXCEPT !.ref = q.branch, !.sha = q.sha, !.key = q.key]>>

\* The landing, and the move it made; the key goes on the last of the two.
LandLog(q, c) ==
    LET moves == cards[c].state # q.to
    IN  <<[Ev(c, "landed") EXCEPT !.ref = q.branch, !.sha = q.sha,
                                  !.key = IF moves THEN None ELSE q.key]>>
        \o (IF moves
            THEN <<[Ev(c, "moved") EXCEPT !.to = q.to, !.key = q.key,
                                          !.note = q.notLanded]>>
            ELSE <<>>)

ExecLand(s) ==
    LET q == txn[s].call
        c == txn[s].card
        r == cards[c]
        stands == LandingOnRecord(c, q.branch, q.sha)
    IN  /\ Ready(s, {"land"})
        /\ \/ r.archived /\ Finish(s, "refused")
           \/ ~r.archived /\ stands /\ Finish(s, "unchanged")
           \/ ~r.archived /\ ~stands /\ LandRefused(q, c) /\ Finish(s, "refused")
           \/ /\ ~r.archived
              /\ ~stands
              /\ ~LandRefused(q, c)
              /\ Write(s,
                   [NoWrites EXCEPT
                     !.cards = [d \in {c} |-> [r EXCEPT !.state = q.to]],
                     !.branches = [d \in {c} |->
                        [branches[c] EXCEPT ![q.branch] =
                            [state |-> "landed", sha |-> q.sha]]]],
                   LandLog(q, c), <<>>)

ExecAttach(s) ==
    LET q == txn[s].call
        c == txn[s].card
        attached == IF q.cmd = "attach_branch" THEN branches[c][q.target].state # "none"
                    ELSE q.target \in refs[c]
    IN  /\ Ready(s, {"attach_branch", "attach_ref"})
        /\ \/ cards[c].archived /\ Finish(s, "refused")
           \/ ~cards[c].archived /\ attached /\ Finish(s, "unchanged")
           \/ /\ ~cards[c].archived
              /\ ~attached
              /\ Write(s,
                   IF q.cmd = "attach_branch"
                   THEN [NoWrites EXCEPT !.branches = BranchOpened(c, q.target)]
                   ELSE [NoWrites EXCEPT !.refs = [d \in {c} |-> refs[c] \cup {q.target}]],
                   <<[Ev(c, "attached") EXCEPT !.ref = q.target, !.key = q.key]>>,
                   <<>>)

ExecDetach(s) ==
    LET q == txn[s].call
        c == txn[s].card
        attached == IF q.cmd = "detach_branch" THEN branches[c][q.target].state # "none"
                    ELSE q.target \in refs[c]
    IN  /\ Ready(s, {"detach_branch", "detach_ref"})
        /\ \/ (cards[c].archived \/ ~attached) /\ Finish(s, "refused")
           \/ /\ ~cards[c].archived
              /\ attached
              /\ Write(s,
                   IF q.cmd = "detach_branch"
                   THEN [NoWrites EXCEPT !.branches = [d \in {c} |->
                            [branches[c] EXCEPT ![q.target] = NoBranch]]]
                   ELSE [NoWrites EXCEPT !.refs = [d \in {c} |-> refs[c] \ {q.target}]],
                   <<[Ev(c, "detached") EXCEPT !.ref = q.target]>>,
                   <<>>)

-----------------------------------------------------------------------------
(* Relations: link, unlink, attach and detach of a card, declared lists. *)

\* Mutant: the other card's stream is told of the new relation only.
RelationLogNewOnly(type, k, origin, key) ==
    <<[Ev(k[1], type) EXCEPT !.other = k[2], !.link = k[3], !.dir = "out",
                             !.key = IF k[1] = origin THEN key ELSE None]>>
    \o (IF type = "linked"
        THEN <<[Ev(k[2], type) EXCEPT !.other = k[1], !.link = k[3], !.dir = "in",
                                      !.key = IF k[2] = origin THEN key ELSE None]>>
        ELSE <<>>)

\* The two rows card_link_write and card_unlink add, one per card; the key
\* goes on the row of the card the call is about.
RelationLog(type, k, origin, key) ==
    <<[Ev(k[1], type) EXCEPT !.other = k[2], !.link = k[3], !.dir = "out",
                             !.key = IF k[1] = origin THEN key ELSE None],
      [Ev(k[2], type) EXCEPT !.other = k[1], !.link = k[3], !.dir = "in",
                             !.key = IF k[2] = origin THEN key ELSE None]>>

\* link, and attach with kind card: the first reads no archived_at.
ExecLink(s) ==
    LET q == txn[s].call
        k == LinkKey(q.card, q.other, q.rel)
        declared == q.cmd = "link"
        archived == ~declared /\ cards[q.card].archived
        refused == archived \/ (declared /\ LinkRefused(links, k))
        stands == LinkStands(links, k, declared)
    IN  /\ Ready(s, {"link", "attach_card"})
        /\ \/ refused /\ Finish(s, "refused")
           \/ ~refused /\ stands /\ Finish(s, "unchanged")
           \/ /\ ~refused
              /\ ~stands
              /\ Write(s,
                   [NoWrites EXCEPT !.links = LinkWritten(links, k, declared)],
                   RelationLog("linked", k, q.card, q.key), <<>>)

ExecUnlink(s) ==
    LET q == txn[s].call
        k == LinkKey(q.card, q.other, q.rel)
    IN  /\ Ready(s, {"unlink", "detach_card"})
        /\ \/ ~Live(links, k) /\ Finish(s, "refused")
           \/ /\ Live(links, k)
              /\ Write(s,
                   [NoWrites EXCEPT !.links = Unlinked(links, k)],
                   RelationLog("unlinked", k, q.card, None), <<>>)

\* Mutant: an item that changes nothing is looked at again.
NextItemAgain(s, rows, log) ==
    LET rest == IF log = <<>> THEN txn[s].items ELSE Tail(txn[s].items)
    IN  /\ w' = [w EXCEPT ![s] =
                    [rows EXCEPT !.events = Stamp(events \cup @, log) \ events]]
        /\ txn' = [txn EXCEPT ![s].items = rest,
                              ![s].phase = IF rest = <<>> THEN "commit" ELSE "items"]
        /\ UNCHANGED <<tables, outside, callers>>

\* The rest of a call once one of its items is done.
NextItem(s, rows, log) ==
    LET rest == Tail(txn[s].items)
        all  == log \o IF rest = <<>> THEN txn[s].tail ELSE <<>>
    IN  /\ w' = [w EXCEPT ![s] =
                    [rows EXCEPT !.events = Stamp(events \cup @, all) \ events]]
        /\ txn' = [txn EXCEPT ![s].items = rest,
                              ![s].phase = IF rest = <<>> THEN "commit" ELSE "items"]
        /\ UNCHANGED <<tables, outside, callers>>

\* One relation of card_links_declare.  It sees the relations the call has
\* written so far; a refusal undoes the card, the branch and the move too.
DeclareItem(s) ==
    LET item == Head(txn[s].items)
        c == txn[s].card
        k == LinkKey(c, item.other, item.rel)
        seen == Overlay(w[s].links, links)
        unknown == item.other = c \/ ~Exists(item.other)
        refused == LinkRefused(seen, k)
        stands == LinkStands(seen, k, TRUE)
        lock == CardLock(item.other)
    IN  /\ txn[s].phase = "items"
        /\ txn[s].call.cmd # "release"
        /\ \/ unknown /\ Finish(s, "refused")
           \/ /\ ~unknown
              /\ Free(lock, s)
              /\ \/ refused /\ Finish(s, "refused")
                 \/ /\ ~refused
                    /\ owner' = [owner EXCEPT ![lock] = s]
                    /\ \/ stands /\ NextItem(s, w[s], <<>>)
                       \/ /\ ~stands
                          /\ NextItem(s,
                               [w[s] EXCEPT !.links =
                                  Merged(LinkWritten(seen, k, TRUE), @)],
                               RelationLog("linked", k, c, None))

-----------------------------------------------------------------------------
(* Releases. *)

ExecRelease(s) ==
    /\ Ready(s, {"release"})
    /\ Write(s, [NoWrites EXCEPT !.version = txn[s].call.version], <<>>, <<>>)

\* Mutant: the checked landings are not compared.
SkipsReleased(s, c) ==
    \E e \in events \cup w[s].events :
        e.card = c /\ e.type = "released" /\ e.version = txn[s].call.version

\* A card landed again since the observer checked it, or is already released
\* in this version.
ReleaseSkips(s, c) ==
    LET q == txn[s].call
    IN  \/ q.checked /\ LandingSeq(c) # txn[s].seen[c]
        \/ \E e \in events \cup w[s].events :
              e.card = c /\ e.type = "released" /\ e.version = q.version

\* One card of release_record.
ReleaseItem(s) ==
    LET c == Head(txn[s].items)
        r == cards[c]
        absent == ~Exists(c) \/ r.archived
        done == txn[s].policy = "record_and_move_done" /\ r.state = "waiting"
        version == txn[s].call.version
    IN  /\ txn[s].phase = "items"
        /\ txn[s].call.cmd = "release"
        /\ \/ absent /\ NextItem(s, w[s], <<>>) /\ UNCHANGED owner
           \/ /\ ~absent
              /\ Free(CardLock(c), s)
              /\ owner' = [owner EXCEPT ![CardLock(c)] = s]
              /\ \/ ReleaseSkips(s, c) /\ NextItem(s, w[s], <<>>)
                 \/ /\ ~ReleaseSkips(s, c)
                    /\ NextItem(s,
                         [w[s] EXCEPT !.cards =
                            IF done
                            THEN Merged([d \in {c} |-> [r EXCEPT !.state = "done"]], @)
                            ELSE @],
                         <<[Ev(c, "released") EXCEPT !.version = version]>>
                           \o (IF done THEN <<[Ev(c, "moved") EXCEPT !.to = "done"]>>
                               ELSE <<>>))

-----------------------------------------------------------------------------
(* The end of a call. *)

\* The unique indexes of the events: (card, seq), (card, key) and, for a
\* release, (card, version); of the cards: number, key and origin loop; of the
\* relations: one live parent of a card.
SeqClash(s) ==
    \E e \in w[s].events, f \in events : e.card = f.card /\ e.seq = f.seq

\* Mutant: no unique index on (card, key).
NoKeyIndex(s) == FALSE

KeyClash(s) ==
    \E e \in w[s].events, f \in events :
        e.card = f.card /\ e.key # None /\ e.key = f.key

ReleaseClash(s) ==
    \E e \in w[s].events, f \in events :
        /\ e.card = f.card /\ e.type = "released" /\ f.type = "released"
        /\ e.version = f.version

ParentClash(s) == ~OneParent(Overlay(w[s].links, links))

RowClash(s) ==
    \E c \in DOMAIN w[s].cards, d \in Cards :
        LET r == w[s].cards[c]
            o == cards[d]
        IN  /\ c # d
            /\ \/ r.number = o.number
               \/ r.key # None /\ r.key = o.key
               \/ r.loop # None /\ r.loop = o.loop

\* What the locks and the checks of a command should leave to no index.
Clash(s) == SeqClash(s) \/ RowClash(s) \/ ReleaseClash(s) \/ ParentClash(s)

Commit(s) ==
    /\ txn[s].phase = "commit"
    /\ ~Clash(s) /\ ~KeyClash(s)
    /\ End(s, "ok")
    /\ cards' = Overlay(w[s].cards, cards)
    /\ branches' = Overlay(w[s].branches, branches)
    /\ refs' = Overlay(w[s].refs, refs)
    /\ links' = Overlay(w[s].links, links)
    /\ events' = events \cup w[s].events
    /\ releases' = releases \cup ({w[s].version} \ {None})

\* A unique index refuses a row: the transaction fails.
UniqueViolation(s) ==
    /\ txn[s].phase = "commit"
    /\ Clash(s) \/ KeyClash(s)
    /\ Finish(s, "error")

\* The lock a session is waiting to take.
Wanted(s) ==
    IF txn[s].phase = "locking" /\ txn[s].locks # <<>> THEN {Head(txn[s].locks)}
    ELSE IF txn[s].phase = "items"
    THEN IF txn[s].call.cmd = "release" THEN {CardLock(Head(txn[s].items))}
         ELSE {CardLock(Head(txn[s].items).other)}
    ELSE {}

\* A set of sessions that wait for one another.
WaitCycle(D) ==
    \A s \in D : \E l \in Wanted(s) : owner[l] \in D \ {s}

\* The database finds a cycle of waits and rolls one of its members back.
DeadlockAbort(s) ==
    /\ \E D \in SUBSET Sessions :
          /\ s \in D
          /\ WaitCycle(D)
          /\ \A E \in SUBSET D : E # {} /\ WaitCycle(E) => E = D
    /\ Finish(s, "error")

-----------------------------------------------------------------------------
(* What happens around the board. *)

\* release_configure: an admin sets what a release does to waiting cards; one
\* of the calls that MaxCalls bounds.
Configure(p) ==
    /\ "release" \in Commands
    /\ calls < MaxCalls
    /\ policy # p
    /\ policy' = p
    /\ calls' = calls + 1
    /\ UNCHANGED <<tables, loops, owner, txn, w, issued, retried>>

\* A loop is closed elsewhere in the memory.
CloseLoop(l) ==
    /\ loops[l] = "open"
    /\ loops' = [loops EXCEPT ![l] = "closed"]
    /\ UNCHANGED <<tables, policy, owner, txn, w, callers>>

-----------------------------------------------------------------------------

\* The number of a card opened before the behaviour starts: its rank.
FirstNumber(c) == Cardinality({d \in OpenCards : d <= c})

Init ==
    /\ cards = [c \in Cards |->
          IF c \notin OpenCards THEN NoCard
          ELSE [number |-> FirstNumber(c), state |-> "idea",
                type |-> IF c \in LegacyCards THEN None ELSE CHOOSE t \in CardTypes : TRUE,
                content |-> CHOOSE x \in Contents : TRUE,
                revision |-> 1, archived |-> FALSE, key |-> None, loop |-> None]]
    /\ events = {[Ev(c, "created") EXCEPT !.seq = 1, !.to = "idea",
                                          !.linksNote = c \notin LegacyCards]
                 : c \in OpenCards}
    /\ branches = [c \in Cards |-> [b \in Branches |-> NoBranch]]
    /\ refs = [c \in Cards |-> {}]
    /\ links = [k \in LinkKeys |-> "none"]
    /\ releases = {}
    /\ policy = "record"
    /\ loops = [l \in Loops |-> "open"]
    /\ owner = [l \in Locks |-> None]
    /\ txn = [s \in Sessions |-> Idle]
    /\ w = [s \in Sessions |-> NoWrites]
    /\ issued = [k \in Keys |-> NoCall]
    /\ calls = 0
    /\ retried = {}

Exec(s) ==
    \/ ExecCreate(s) \/ ExecEdit(s) \/ ExecMove(s) \/ ExecArchive(s)
    \/ ExecNote(s) \/ ExecLand(s) \/ ExecAttach(s) \/ ExecDetach(s)
    \/ ExecLink(s) \/ ExecUnlink(s) \/ ExecRelease(s)

\* What a session does with a call it has begun.
Step(s) ==
    \/ TakeLock(s) \/ Exec(s) \/ DeclareItem(s) \/ ReleaseItem(s)
    \/ Commit(s) \/ UniqueViolation(s) \/ DeadlockAbort(s)

\* Every call was made and answered, or the bounded board has no id left.
Done ==
    /\ calls = MaxCalls \/ \A c \in Cards : Exists(c)
    /\ \A s \in Sessions : txn[s] = Idle
    /\ UNCHANGED vars

Next ==
    \/ \E s \in Sessions : Begin(s) \/ Step(s)
    \/ \E p \in {"record", "record_and_move_done"} : Configure(p)
    \/ \E l \in Loops : CloseLoop(l)
    \/ Done

Spec == Init /\ [][Next]_vars

\* The database runs every session and breaks every deadlock.
FairSpec == Spec /\ \A s \in Sessions : WF_vars(Step(s))

-----------------------------------------------------------------------------
(* Type invariant. *)

Rows(f, K, V) == DOMAIN f \subseteq K /\ f \in [DOMAIN f -> V]

Answers == {"ok", "unchanged", "refused", "replayed", "error"}

Txn == [phase : {"idle", "locking", "items", "commit"},
        call : Calls \cup {NoCall}, card : Cards \cup {0}, locks : Seq(Locks),
        items : Seq(LinkItem) \cup Seq(Cards), tail : Seq(Event),
        seen : [Cards -> Nat] \cup {<<>>},
        policy : {"record", "record_and_move_done"}]

\* A running call has its card and its items, one left at least while it
\* works on them.
TxnOK(t) ==
    /\ t \in Txn
    /\ t.phase # "idle" => t.call \in Calls
    /\ t.call.cmd \notin {"none", "release"} =>
          t.card \in Cards /\ t.items \in Seq(LinkItem)
    /\ t.call.cmd = "release" => t.items \in Seq(Cards)
    /\ t.items # <<>> => t.call.cmd = "release" \/ Declares(t.call)
    /\ t.phase = "items" => t.items # <<>>

WritesOK(x) ==
    /\ x = [cards |-> x.cards, branches |-> x.branches, refs |-> x.refs,
            links |-> x.links, events |-> x.events, version |-> x.version]
    /\ Rows(x.cards, Cards, CardRow)
    /\ Rows(x.branches, Cards, [Branches -> BranchRow])
    /\ Rows(x.refs, Cards, SUBSET Refs)
    /\ Rows(x.links, LinkKeys, LinkStatus)
    /\ x.events \in SUBSET Event /\ IsFiniteSet(x.events)
    /\ x.version \in Versions \cup {None}

TablesOK ==
    /\ cards \in [Cards -> CardRow]
    /\ branches \in [Cards -> [Branches -> BranchRow]]
    /\ refs \in [Cards -> SUBSET Refs]
    /\ links \in LinkTable
    /\ events \in SUBSET Event /\ IsFiniteSet(events)
    /\ releases \in SUBSET Versions

CallersOK ==
    /\ issued \in [Keys -> Calls \cup {NoCall}]
    /\ calls \in 0..MaxCalls
    /\ retried \in SUBSET (Keys \X Answers)

\* The tables, the locks and the sessions hold values of their kinds.
TypeOK ==
    /\ TablesOK
    /\ policy \in {"record", "record_and_move_done"}
    /\ loops \in [Loops -> {"open", "closed"}]
    /\ owner \in [Locks -> Sessions \cup {None}]
    /\ txn = [s \in Sessions |-> txn[s]]
    /\ w = [s \in Sessions |-> w[s]]
    /\ \A s \in Sessions : TxnOK(txn[s]) /\ WritesOK(w[s])
    /\ CallersOK

-----------------------------------------------------------------------------
(* The history agrees with the tables. *)

\* The last event of a set, or none.
Latest(E) == {e \in E : \A f \in E : f.seq <= e.seq}

\* A card stands where the last move, landing or release in its stream put it.
StateFollowsHistory ==
    \A c \in Cards : Exists(c) =>
        LET moves == {e \in events : e.card = c /\ e.type \in {"created", "moved"}}
        IN  {e.to : e \in Latest(moves)} = {cards[c].state}

\* The revision counts the changes of content in the stream (edits, and the
\* moves that declared a type): no two writers share a revision.
RevisionCountsChanges ==
    \A c \in Cards : Exists(c) =>
        cards[c].revision = 1 + Cardinality({e \in events :
            e.card = c /\ (e.type = "edited" \/ e.cardType # None)})

\* A branch of a card is open, landed as a commit or gone as the last event
\* that names it says.
BranchFollowsHistory ==
    \A c \in Cards, b \in Branches :
        LET last == Latest({e \in events : e.card = c /\ e.ref = b})
        IN  {CASE e.type = "attached" -> OpenBranch
               [] e.type = "detached" -> NoBranch
               [] OTHER -> [state |-> "landed", sha |-> e.sha] : e \in last}
            = IF last = {} THEN {} ELSE {branches[c][b]}

\* Whatever the calls and their order, the row of a card and its branches are
\* what its stream of events says: a change of one is never lost or doubled
\* in the other.
CardFollowsHistory ==
    /\ StateFollowsHistory
    /\ RevisionCountsChanges
    /\ BranchFollowsHistory

\* One landing of a branch is recorded once, under a short or a full sha,
\* unless the branch was detached in between.
LandingRecordedOnce ==
    \A e, f \in events :
        /\ e.type = "landed" /\ f.type = "landed"
        /\ e.card = f.card /\ e.ref = f.ref /\ e.seq < f.seq
        /\ SameSha(e.sha, f.sha)
        => \E g \in events : /\ g.card = e.card /\ g.ref = e.ref
                             /\ g.type = "detached"
                             /\ e.seq < g.seq /\ g.seq < f.seq

\* Work leaves active with no branch open, or with a note saying why one is:
\* no branch is attached between the check and the move.
LeavingAccounted ==
    \A c \in Cards :
       cards[c].state = "active" /\ cards'[c].state # "active" =>
          \/ \A b \in Branches : branches'[c][b].state # "open"
          \/ \E e \in events' \ events :
                e.card = c /\ e.type = "moved" /\ e.note

\* No step takes a card out of active otherwise, whoever moves it.
LeavesActiveAccounted == [][LeavingAccounted]_vars

\* Work enters active with a branch open or with a note saying why it has
\* none, whatever is detached meanwhile; a landing that leaves the card in
\* active names its branch itself.
EnteringAccounted ==
    \A c \in Cards :
       cards[c].state # "active" /\ cards'[c].state = "active" =>
          \/ \E b \in Branches : branches'[c][b].state = "open"
          \/ \E e \in events' \ events :
                e.card = c /\ (e.note \/ e.type = "landed")

\* No step brings a card into active otherwise, whoever moves it.
EntersActiveAccounted == [][EnteringAccounted]_vars

\* The locks and the checks of a command keep it from writing a row another
\* committed: no sequence number, card number, creation key, promoted loop,
\* release of a version or second parent clashes, and the unique indexes only
\* ever catch a repeated key of an event.
LocksPreventClashes == \A s \in Sessions : ~Clash(s)

\* A key has its effect on a card once, however the retries race, and a call
\* that comes after that effect is never told that it had one of its own.
KeyAppliedOnce ==
    /\ \A e, f \in events : e.card = f.card /\ e.key # None /\ e.key = f.key => e = f
    /\ \A x \in retried : x[2] # "ok"

\* The rows of the cards, branches and attachments among those written.
WroteRows(x, C, B, R) == x.cards = C /\ x.branches = B /\ x.refs = R

\* The rows x a call on a card wrote are those it would write now, and nothing
\* that is there now would stop it.
CardAsIfAlone(s, x) ==
    LET q == txn[s].call
        c == txn[s].card
        r == cards[c]
        Only(row) == [d \in {c} |-> row]
    IN  /\ q.cmd \in {"create", "promote"} =>
              /\ ~CreateReplayed(q) /\ ~CreateRefused(q)
              /\ WroteRows(x, Only(NewRow(q)), BranchOpened(c, q.branch), NoRows)
        /\ q.cmd = "edit" =>
              /\ ~EditRefused(q, r, txn[s].seen[c]) /\ ~EditSame(q, r)
              /\ WroteRows(x, Only(EditedRow(q, r)), NoRows, NoRows)
        /\ q.cmd = "move" =>
              /\ ~MoveRefused(q, c)
              /\ WroteRows(x, Only(MoveRow(q, r)), BranchOpened(c, q.branch), NoRows)
        /\ q.cmd = "archive" =>
              /\ ~r.archived
              /\ WroteRows(x, Only([r EXCEPT !.archived = TRUE]), NoRows, NoRows)
        /\ q.cmd = "note" => ~r.archived /\ WroteRows(x, NoRows, NoRows, NoRows)

\* The same of a landing, an attachment and its end.
BranchAsIfAlone(s, x) ==
    LET q == txn[s].call
        c == txn[s].card
        r == cards[c]
        Only(row) == [d \in {c} |-> row]
        there == branches[c][q.target].state # "none"
    IN  /\ q.cmd = "land" =>
              /\ ~r.archived /\ ~LandingOnRecord(c, q.branch, q.sha)
              /\ ~LandRefused(q, c)
              /\ WroteRows(x, Only([r EXCEPT !.state = q.to]),
                           Only([branches[c] EXCEPT ![q.branch] =
                                    [state |-> "landed", sha |-> q.sha]]), NoRows)
        /\ q.cmd = "attach_branch" =>
              /\ ~r.archived /\ ~there
              /\ WroteRows(x, NoRows, BranchOpened(c, q.target), NoRows)
        /\ q.cmd = "attach_ref" =>
              /\ ~r.archived /\ q.target \notin refs[c]
              /\ WroteRows(x, NoRows, NoRows, Only(refs[c] \cup {q.target}))
        /\ q.cmd = "detach_branch" =>
              /\ ~r.archived /\ there
              /\ WroteRows(x, NoRows, Only([branches[c] EXCEPT ![q.target] = NoBranch]), NoRows)
        /\ q.cmd = "detach_ref" =>
              /\ ~r.archived /\ q.target \in refs[c]
              /\ WroteRows(x, NoRows, NoRows, Only(refs[c] \ {q.target}))

\* The same of one relation, and of every card a release moved.
OthersAsIfAlone(s, x) ==
    LET q == txn[s].call
        k == LinkKey(q.card, q.other, q.rel)
        declared == q.cmd = "link"
    IN  /\ q.cmd \in RelationCommands => WroteRows(x, NoRows, NoRows, NoRows)
        /\ q.cmd \in {"link", "attach_card"} =>
              /\ declared => ~LinkRefused(links, k)
              /\ ~declared => ~cards[q.card].archived
              /\ ~LinkStands(links, k, declared)
              /\ x.links = LinkWritten(links, k, declared)
        /\ q.cmd \in {"unlink", "detach_card"} =>
              Live(links, k) /\ x.links = Unlinked(links, k)
        /\ q.cmd = "release" =>
              /\ x.branches = NoRows /\ x.refs = NoRows
              /\ \A d \in DOMAIN x.cards :
                    /\ cards[d].state = "waiting" /\ ~cards[d].archived
                    /\ x.cards[d] = [cards[d] EXCEPT !.state = "done"]

\* A call takes effect as if it ran alone, at the moment it commits: whatever
\* it read and checked step by step, and whoever worked in between, its key is
\* new, its checks would pass now and it would write the same rows.  What it is
\* answered before any lock is not among them (the loop of a promotion may be
\* closed in between), nor are the relations declared with a card: LinkInv is
\* about those.
CommitsAsIfAlone ==
    \A s \in Sessions : txn[s].phase = "commit" /\ ~KeyClash(s) =>
        /\ ~KeyOnRecord(txn[s].call, txn[s].card)
        /\ CardAsIfAlone(s, w[s])
        /\ BranchAsIfAlone(s, w[s])
        /\ OthersAsIfAlone(s, w[s])

\* Once archived, a card keeps its row, branches and attachments, and only
\* relations still reach its stream.
KeepsArchived ==
    \A c \in Cards : cards[c].archived =>
       /\ cards'[c] = cards[c]
       /\ branches'[c] = branches[c]
       /\ refs'[c] = refs[c]
       /\ \A e \in events' \ events :
             e.card = c => e.type \in {"linked", "unlinked"}

\* No step of any command changes an archived card otherwise.
ArchivedKeepsContent == [][KeepsArchived]_vars

\* A card opened by create or promote has answered for its relations when it
\* appears on the board: a refused relation leaves no card behind.
AssessedWhenOpened ==
    \A c \in Cards : ~Exists(c) /\ Exists(c)' => LinksAssessed(c)'

\* No step brings a card onto the board otherwise.
AssessedAtBirth == [][AssessedWhenOpened]_vars

-----------------------------------------------------------------------------
(* Releases. *)

\* A release that names the landings its observer checked marks no card that
\* has landed again since, up to the moment it commits.
ReleaseCarriesCheckedLanding ==
    \A s \in Sessions : \A e \in w[s].events :
        e.type = "released" /\ txn[s].call.checked =>
            LandingSeq(e.card) = txn[s].seen[e.card]

-----------------------------------------------------------------------------
(* Relations. *)

\* No card ever sits above itself through parents, blockers and dependencies.
NoCardAboveItself == Acyclic(links)

\* No card ever has two live parents.
OneParentEach == OneParent(links)

\* An untyped relation never stands beside a declared one of the same pair.
UntypedYieldsToTyped == UntypedAlone(links)

\* A session that writes relations holds the links lock from its first check
\* to its end, and what it sees keeps the rules of the table.
LinkInv ==
    /\ Sound(links)
    /\ \A s \in Sessions :
          /\ w[s].links # NoRows => owner[LinksLock] = s
          /\ TakesLinksLock(txn[s].call) =>
                \/ owner[LinksLock] = s
                \/ txn[s].phase = "locking" /\ txn[s].locks = LocksOf(txn[s].call)
          /\ Sound(Overlay(w[s].links, links))

\* The stream of each card of a pair tells the same story of their relations,
\* and its last word is whether the relation stands.
LinksFollowHistory ==
    \A k \in LinkKeys :
        LET Of(c, o, d) == {e \in events : /\ e.card = c /\ e.other = o
                                           /\ e.link = k[3] /\ e.dir = d}
            out == Of(k[1], k[2], "out")
            in == Of(k[2], k[1], "in")
            last == {e.type : e \in Latest(out)}
        IN  /\ \A t \in {"linked", "unlinked"} :
                  Cardinality({e \in out : e.type = t})
                    = Cardinality({e \in in : e.type = t})
            /\ last = {e.type : e \in Latest(in)}
            /\ links[k] = "none" => last = {}
            /\ Live(links, k) => last = {"linked"}
            /\ links[k] = "was_declared" => last = {"unlinked"}

\* Commands that relate cards from both sides queue on the links lock: they
\* never wait for one another in a circle.  Only a release, which takes the
\* rows of its cards without that lock, can close one.
RelationCommandsDoNotDeadlock ==
    \A D \in SUBSET Sessions : D # {} /\ WaitCycle(D) =>
        \E s \in D : txn[s].call.cmd = "release"

-----------------------------------------------------------------------------
(* Answers. *)

\* Every call a session begins is answered.
EveryCallAnswered == \A s \in Sessions : txn[s] # Idle ~> txn[s] = Idle

\* What the documentation says of a card that stated its relations once: it is
\* not asked again.
StaysAssessed ==
    [][\A c \in Cards : LinksAssessed(c) => LinksAssessed(c)']_vars
=============================================================================
