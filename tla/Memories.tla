------------------------------ MODULE Memories ------------------------------
(***************************************************************************)
(* The memories of one owner and the rules promoted from them: what the    *)
(* memory tools (remember, share, move, forget, close_loop), promote_rule, *)
(* the rules page and the rules incubator do to them, request by request   *)
(* and await by await.  A request loads a memory, decides on what it       *)
(* loaded and writes the memory back later, whatever happened meanwhile.   *)
(* The update that supersedes a memory fires a trigger, so it is two steps *)
(* with its row locks between them.                                        *)
(*                                                                         *)
(* Abstracted: texts and vectors, so whether two memories are near, equal  *)
(* or restate each other is open; scopes, to shared or not; the graph,     *)
(* audit and usage rows, which no operation here reads back.               *)
(***************************************************************************)
EXTENDS Integers, FiniteSets

CONSTANTS
    MaxMemories,  \* bound: memories ever written
    MaxRules,     \* bound: rows of rule_candidates
    Corpora,      \* the memories there at the start, sequences of writes
    Writes,       \* what a remember may bring
    Sessions,     \* transport sessions a write is stamped with
    Workers,      \* requests that run at the same time
    Commands,     \* the operations of a run
    MaxCalls,     \* bound: operations begun
    None

VARIABLES
    memories,  \* public.memories; ids are in the order of created_at
    rules,     \* public.rule_candidates
    carrying,  \* supersessions under way, not committed, by their memory
    cards,     \* open loops a card was promoted from
    req,       \* what each request has read and will write
    calls      \* operations begun so far

Ids == 1..MaxMemories
RuleIds == 1..MaxRules

\* The kinds the code tells apart: a durable one whose authoritative memories
\* are protected, one without protection, and the open loops.
Kinds == {"decision", "episode", "task"}

\* provenanceRank: watcher or bootstrap, agent in the conversation, human.
Ranks == 0..2

Write == [kind : Kinds, rank : Ranks, session : Sessions \cup {None}]

Row == [kind : Kinds, rank : Ranks, session : Sessions \cup {None},
        retired : BOOLEAN, successor : Ids \cup {None}, shared : BOOLEAN]

RuleStatus == {"pending", "snoozed", "promoted", "dismissed", "revoked"}
RuleRow == [memory : Ids, status : RuleStatus]

\* What an update that supersedes has written and what its trigger has read:
\* the memory's rule, the successor's, and whether the first is to move.
Carry == [row : Row, rule : SUBSET RuleIds, found : SUBSET RuleIds, moves : BOOLEAN]

Fresh(a) == [kind |-> a.kind, rank |-> a.rank, session |-> a.session,
             retired |-> FALSE, successor |-> None, shared |-> FALSE]

Idle == [op |-> None, step |-> None, m |-> None, snap |-> None,
         to |-> None, todo |-> {}, new |-> None, rule |-> None]

Held == [op : {"share", "forget", "close", "remember", "promote_rule", "review_rules", "incubate",
               None},
         step : {"save", "carry", "insert", "target", "existing", "upsert", "enqueue", "distil", None},
         m : Ids \cup {None}, snap : Row \cup {None}, to : Ids \cup {None},
         todo : SUBSET Ids, new : Write \cup {None}, rule : RuleIds \cup {None}]

Written == {m \in Ids : memories[m] # None}
Live == {m \in Written : ~memories[m].retired}

ASSUME SizesAreNatural == MaxMemories \in Nat /\ MaxRules \in Nat /\ MaxCalls \in Nat
ASSUME CorporaFit == /\ \A c \in Corpora : /\ DOMAIN c \subseteq Ids
                                            /\ \A m \in DOMAIN c : c[m] \in Write
                     /\ Writes \subseteq Write
ASSUME NoneIsNothing == /\ None \notin Ids /\ None \notin Sessions /\ None \notin Kinds
                        /\ None \notin Row /\ None \notin RuleRow /\ None \notin Write
                        /\ None \notin Carry
                        /\ None \notin {"save", "carry", "insert", "target", "existing", "upsert",
                                       "enqueue", "distil"}

\* A corpus, and possibly one rule row on its first memory; the other states
\* of a rule come from these.
MemoriesInit ==
    /\ \E c \in Corpora :
         memories = [m \in Ids |-> IF m \in DOMAIN c THEN Fresh(c[m]) ELSE None]
    /\ \E first \in {None} \cup {[memory |-> m, status |-> s] :
                                   m \in {1} \cap Live,
                                   s \in {"snoozed", "promoted", "dismissed"}} :
         rules = [i \in RuleIds |-> IF i = 1 THEN first ELSE None]
    /\ carrying = [m \in Ids |-> None]
    /\ cards = {}
    /\ req = [w \in Workers |-> Idle]
    /\ calls = 0

-----------------------------------------------------------------------------
(* Rules follow the memory they were promoted from *)

RulesOn(m) == {i \in RuleIds : rules[i] # None /\ rules[i].memory = m}
PromotedRules == {i \in RuleIds : rules[i] # None /\ rules[i].status = "promoted"}

Carrying == {m \in Ids : carrying[m] # None}

\* Mutant: the trigger locks the rule it moves, not the successor's.
OwnRuleLocked == UNION {carrying[m].rule : m \in Carrying}

\* The row locks of the updates under way: the memory, for update; then, when
\* it has a rule, that rule, its successor and the successor's rule.
LockedBy(m) == {m} \cup {s \in {carrying[m].row.successor} : carrying[m].rule # {}}
LockedMemories == UNION {LockedBy(m) : m \in Carrying}
LockedRules == UNION {carrying[m].rule \cup carrying[m].found : m \in Carrying}

\* carry_rule_to_successor looks for a rule unless the memory is an open loop.
RuleToCarry(m) == IF memories[m].kind = "task" THEN {} ELSE RulesOn(m) \cap PromotedRules

\* Mutant: whatever rule the successor has gives way.
RuleMovesAnyway(m, s) == RuleToCarry(m) # {} /\ s \in Live

\* What the trigger decides on what it read: a live successor, and no rule of
\* its own but an unreviewed proposal.
RuleMoves(m, s) ==
    /\ RuleToCarry(m) # {}
    /\ s \in Live
    /\ \A i \in RulesOn(s) : rules[i].status \in {"pending", "snoozed"}

\* The trigger fires after update of superseded_by, when it was null and is set.
Supersedes(m, row) == memories[m].successor = None /\ row.successor # None

\* Any other update of one memory; it waits for the row.
UpdateMemory(m, row) ==
    /\ m \notin LockedMemories
    /\ ~Supersedes(m, row)
    /\ memories' = [memories EXCEPT ![m] = row]
    /\ UNCHANGED <<rules, carrying>>

\* The update that supersedes, and its trigger as far as it reads and locks:
\* what it found cannot change before the commit, but where it found no rule
\* of the successor, one may still be inserted.
Supersede(m, row) ==
    LET s == row.successor
        rule == RuleToCarry(m)
    IN /\ m \notin LockedMemories
       /\ Supersedes(m, row)
       /\ rule # {} => s \notin LockedMemories
       /\ carrying' = [carrying EXCEPT ![m] =
                         [row |-> row, rule |-> rule, moves |-> RuleMoves(m, s),
                          found |-> IF rule # {} /\ s \in Live THEN RulesOn(s) ELSE {}]]
       /\ UNCHANGED <<memories, rules>>

\* The proposal found gives way and the rule moves; with a rule that came to
\* the successor meanwhile it fails on unique (memory_id).
CarryRule(c) ==
    [i \in RuleIds |->
        IF i \in c.rule THEN [rules[i] EXCEPT !.memory = c.row.successor]
        ELSE IF i \in c.found THEN None ELSE rules[i]]

CommitSupersede(m) ==
    LET c == carrying[m] IN
    /\ m \in Carrying
    /\ c.moves => RulesOn(c.row.successor) \subseteq c.found
    /\ memories' = [memories EXCEPT ![m] = c.row]
    /\ rules' = IF c.moves THEN CarryRule(c) ELSE rules
    /\ carrying' = [carrying EXCEPT ![m] = None]

\* An update that fails, for the constraint, a deadlock or a lost connection,
\* leaves nothing behind.
RollBack(m) == carrying' = [carrying EXCEPT ![m] = None]

-----------------------------------------------------------------------------
(* The memory tools *)

Begin(w, op) ==
    /\ op \in Commands
    /\ req[w] = Idle
    /\ calls < MaxCalls
    /\ calls' = calls + 1

Done(w) == req' = [req EXCEPT ![w] = Idle]

\* What the aggregate makes of the row it was loaded from.
Invalidated(row) == [row EXCEPT !.retired = TRUE]
Superseded(row, s) == [row EXCEPT !.retired = TRUE, !.successor = s]
Shared(row) == [row EXCEPT !.shared = TRUE]

\* share, move_memories, forget and close_loop load one live memory; an
\* invalidated one is refused, and only an open loop is closed.
LoadFragment(w) ==
    \E op \in {"share", "forget", "close"}, m \in Live :
        /\ Begin(w, op)
        /\ op = "close" => memories[m].kind = "task"
        /\ req' = [req EXCEPT ![w] =
                     [Idle EXCEPT !.op = op, !.step = "save", !.m = m,
                        !.snap = IF op = "share" THEN Shared(memories[m])
                                 ELSE Invalidated(memories[m])]]
        /\ UNCHANGED <<memories, rules, carrying, cards>>

\* repository.update: the lifecycle columns as loaded and changed, with no
\* condition on the row they replace.
Stored(row, snap) ==
    [row EXCEPT !.retired = snap.retired, !.successor = snap.successor,
                !.shared = snap.shared]

\* A writer goes on to its next target.
Saved(w) ==
    req' = [req EXCEPT ![w] =
              IF req[w].todo = {} THEN Idle
              ELSE [@ EXCEPT !.step = "target", !.m = None, !.snap = None]]

Save(w) ==
    LET m == req[w].m
        row == Stored(memories[m], req[w].snap)
    IN /\ req[w].step = "save"
       /\ \/ UpdateMemory(m, row) /\ Saved(w)
          \/ Supersede(m, row) /\ req' = [req EXCEPT ![w].step = "carry"]
       /\ UNCHANGED <<cards, calls>>

CommitSave(w) ==
    /\ req[w].step = "carry"
    /\ CommitSupersede(req[w].m)
    /\ Saved(w)
    /\ UNCHANGED <<cards, calls>>

\* sameSessionRefinementPair: two authoritative memories of one session; that
\* their texts are near enough is the caller's to choose.
SameSession(a, b) ==
    /\ a.rank > 0 /\ b.rank > 0
    /\ a.session # None /\ a.session = b.session

\* remember defers to an authoritative memory that covers it, or is absorbed
\* by a near memory.  The two probes are one step here: the coverage probe
\* may find nothing near at any time, so what changes between them is covered
\* by that choice.  Bound: a writer declares at most one target.
Absorbs(a, near, exact) ==
    exact \/ (a.rank = 0 /\ memories[near].rank > 0)

Declared(a, targets) == IF a.rank = 0 THEN {} ELSE targets

Probe(w) ==
    \E a \in Writes, targets \in SUBSET Written :
        /\ Begin(w, "remember")
        /\ Cardinality(targets) <= 1
        /\ \/ \E near \in Live, exact \in BOOLEAN :
                /\ Absorbs(a, near, exact)
                /\ LET left == Declared(a, targets) \ {near}
                   IN req' = [req EXCEPT ![w] =
                                IF left = {} THEN Idle
                                ELSE [Idle EXCEPT !.op = "remember", !.step = "target",
                                        !.to = near, !.todo = left]]
           \/ \E refined \in {{}} \cup {{n} : n \in {n \in Live : SameSession(a, memories[n])}} :
                req' = [req EXCEPT ![w] =
                          [Idle EXCEPT !.op = "remember", !.step = "insert", !.new = a,
                             !.todo = Declared(a, targets) \cup refined]]
        /\ UNCHANGED <<memories, rules, carrying, cards>>

\* The row is stored; the graph may still refuse a mention or a link, which
\* ends the request before it retires anything.
Insert(w) ==
    /\ req[w].step = "insert"
    /\ \E m \in Ids :
         /\ Written = 1..(m - 1)
         /\ memories' = [memories EXCEPT ![m] = Fresh(req[w].new)]
         /\ \/ Done(w)
            \/ /\ req[w].todo # {}
               /\ req' = [req EXCEPT ![w] = [@ EXCEPT !.step = "target", !.to = m, !.new = None]]
    /\ UNCHANGED <<rules, carrying, cards, calls>>

\* supersedeTargets: a target that is retired or the successor itself is
\* skipped, the others are loaded and superseded one by one.
LoadTarget(w) ==
    /\ req[w].step = "target"
    /\ \E t \in req[w].todo :
         LET left == req[w].todo \ {t} IN
         IF t \in Live \ {req[w].to}
         THEN req' = [req EXCEPT ![w] =
                        [@ EXCEPT !.step = "save", !.m = t, !.todo = left,
                                  !.snap = Superseded(memories[t], req[w].to)]]
         ELSE req' = [req EXCEPT ![w] =
                        IF left = {} THEN Idle ELSE [@ EXCEPT !.todo = left]]
    /\ UNCHANGED <<memories, rules, carrying, cards, calls>>

\* A request whose read or write fails, or whose process ends, goes no
\* further, and its update under way is rolled back; a writer that hears of a
\* failed update goes on to its next target.
Fails(w) ==
    /\ req[w] # Idle
    /\ \/ Done(w)
       \/ req[w].step \in {"save", "carry"} /\ Saved(w)
    /\ IF req[w].step = "carry" THEN RollBack(req[w].m) ELSE UNCHANGED carrying
    /\ UNCHANGED <<memories, rules, cards, calls>>

\* The board promotes an open loop to a card.
PromoteLoop ==
    /\ "promote_loop" \in Commands
    /\ calls < MaxCalls
    /\ \E m \in Live \ cards :
         /\ memories[m].kind = "task"
         /\ cards' = cards \cup {m}
    /\ calls' = calls + 1
    /\ UNCHANGED <<memories, rules, req, carrying>>

-----------------------------------------------------------------------------
(* Rules: promotion, review, and the incubator *)

\* The row of m, new or not, is promoted; like every change of a rule below,
\* it waits for a row that a trigger has locked.
Promoted(m) ==
    IF RulesOn(m) # {}
    THEN /\ RulesOn(m) \cap LockedRules = {}
         /\ rules' = [i \in RuleIds |->
                        IF i \in RulesOn(m) THEN [rules[i] EXCEPT !.status = "promoted"]
                        ELSE rules[i]]
    ELSE \E i \in RuleIds :
           /\ rules[i] = None
           /\ rules' = [rules EXCEPT ![i] = [memory |-> m, status |-> "promoted"]]

\* promote_rule reads the memory, then its candidacy (a dismissed one needs
\* force), asks the model for a text, and upserts whatever is there by then.
PromoteOnDemand(w) ==
    \E m \in Live :
        /\ Begin(w, "promote_rule")
        /\ req' = [req EXCEPT ![w] = [Idle EXCEPT !.op = "promote_rule",
                                        !.step = "existing", !.m = m]]
        /\ UNCHANGED <<memories, rules, carrying, cards>>

\* The dashboard's own promotion is one transaction of the same statements.
PromoteMemoryToRule(w) ==
    \E m \in Live :
        /\ Begin(w, "review_rules")
        /\ req' = [req EXCEPT ![w] = [Idle EXCEPT !.op = "review_rules",
                                        !.step = "existing", !.m = m]]
        /\ UNCHANGED <<memories, rules, carrying, cards>>

ReadCandidacy(w) ==
    /\ req[w].step = "existing"
    /\ \/ req' = [req EXCEPT ![w] = [@ EXCEPT !.step = "upsert"]]
       \/ /\ \E i \in RulesOn(req[w].m) : rules[i].status = "dismissed"
          /\ Done(w)
    /\ UNCHANGED <<memories, rules, carrying, cards, calls>>

UpsertRule(w) ==
    /\ req[w].step = "upsert"
    /\ Promoted(req[w].m)
    /\ Done(w)
    /\ UNCHANGED <<memories, carrying, cards, calls>>

\* The rules page: one conditional update each.
ResolveRuleCandidate(i, status) ==
    /\ rules[i].status = "pending"
    /\ status \in {"promoted", "dismissed", "snoozed"}
    /\ rules' = [rules EXCEPT ![i].status = status]

RevokeRuleCandidate(i) ==
    /\ rules[i].status = "promoted"
    /\ rules' = [rules EXCEPT ![i].status = "revoked"]

DeleteRuleCandidate(i) ==
    /\ rules[i].status = "dismissed"
    /\ rules' = [rules EXCEPT ![i] = None]

ReviewRule ==
    /\ "review_rules" \in Commands
    /\ calls < MaxCalls
    /\ calls' = calls + 1
    /\ \E i \in RuleIds :
         /\ rules[i] # None /\ i \notin LockedRules
         /\ \/ \E s \in RuleStatus : ResolveRuleCandidate(i, s)
            \/ RevokeRuleCandidate(i)
            \/ DeleteRuleCandidate(i)
    /\ UNCHANGED <<memories, carrying, cards, req>>

\* The incubator wakes expired snoozes and reads who earned a candidacy.
DetectRules(w) ==
    \E woken \in {{}, {i \in RuleIds : rules[i] # None /\ rules[i].status = "snoozed"}},
       m \in {m \in Live : memories[m].kind = "decision" /\ RulesOn(m) = {}} :
        /\ Begin(w, "incubate")
        /\ woken \cap LockedRules = {}
        /\ rules' = [i \in RuleIds |-> IF i \in woken THEN [rules[i] EXCEPT !.status = "pending"]
                                       ELSE rules[i]]
        /\ req' = [req EXCEPT ![w] = [Idle EXCEPT !.op = "incubate", !.step = "enqueue", !.m = m]]
        /\ UNCHANGED <<memories, carrying, cards>>

\* Insert, unless another run was first; then this run owns the draft.
InsertCandidate(w) ==
    /\ req[w].step = "enqueue"
    /\ IF RulesOn(req[w].m) # {}
       THEN Done(w) /\ rules' = rules
       ELSE \E i \in RuleIds :
              /\ rules[i] = None
              /\ rules' = [rules EXCEPT ![i] = [memory |-> req[w].m, status |-> "pending"]]
              /\ req' = [req EXCEPT ![w] = [@ EXCEPT !.step = "distil", !.rule = i]]
    /\ UNCHANGED <<memories, carrying, cards, calls>>

\* The draft is saved, or the candidacy dismissed, in the row of that id,
\* whatever its status is by then; a row that is gone is not brought back.
Distil(w) ==
    /\ req[w].step = "distil"
    /\ LET i == req[w].rule IN
       \/ rules' = rules
       \/ /\ rules[i] # None /\ i \notin LockedRules
          /\ rules' = [rules EXCEPT ![i].status = "dismissed"]
    /\ Done(w)
    /\ UNCHANGED <<memories, carrying, cards, calls>>

Request(w) ==
    \/ LoadFragment(w) \/ Save(w) \/ CommitSave(w)
    \/ Probe(w) \/ Insert(w) \/ LoadTarget(w)
    \/ PromoteOnDemand(w) \/ PromoteMemoryToRule(w) \/ ReadCandidacy(w) \/ UpsertRule(w)
    \/ DetectRules(w) \/ InsertCandidate(w) \/ Distil(w)
    \/ Fails(w)

MemoriesNext ==
    \/ \E w \in Workers : Request(w)
    \/ PromoteLoop \/ ReviewRule

memoryVars == <<memories, rules, carrying, cards, req, calls>>

MemoriesTypeOK ==
    /\ memories \in [Ids -> Row \cup {None}]
    /\ rules \in [RuleIds -> RuleRow \cup {None}]
    /\ carrying \in [Ids -> Carry \cup {None}]
    /\ cards \subseteq Ids
    /\ req \in [Workers -> Held]
    /\ calls \in 0..MaxCalls
=============================================================================
