------------------------------- MODULE Hygiene -------------------------------
(***************************************************************************)
(* The upkeep of one owner's memories: the scanner that judges neighbours  *)
(* and retires or parks one of them, its passes over history and over the  *)
(* review queue, its audit of kinds, and the people and agents that settle *)
(* the queue, restore memories and challenge them.  All of them work on    *)
(* the tables of Memories at once, holding what they read across awaits.   *)
(*                                                                         *)
(* Abstracted: verdicts are open, and so is whether a pair is near, a      *)
(* near-verbatim restatement or of two projects.  A run that fails or is   *)
(* killed is one that takes no further step.                               *)
(***************************************************************************)
EXTENDS Memories

CONSTANTS
    Reviewers,  \* requests of people and agents at the queue
    Jobs        \* runs of the scanner

VARIABLES
    queue,  \* public.memory_review_queue, by what a row disputes
    rev,    \* what each reviewer's request has read and will write
    job     \* what each run of the scanner has read and will write

\* A row disputes a pair of memories, or one memory alone.
Pairs == {{a, b} : a, b \in Ids} \ {{a} : a \in Ids}
Singles == {{a} : a \in Ids}
Keys == Pairs \cup Singles

\* A settled row remembers who settled it: "kept" and "retired" by a person
\* or their agent, "swept" by the scanner.
RowStatus == {"none", "pending", "kept", "retired", "swept"}
ByPerson == {"kept", "retired"}

\* A side of a pair as a run read it: its id and its kind at that time.
Sides == [id : Ids, kind : Kinds]

Reviews == [op : {"resolve", "review", "bulk", "restore", "challenge", None},
            step : {"retire", "carry", "finish", "next", "revive", "open", None},
            keys : SUBSET Keys, key : Keys \cup {None},
            policy : {"newest_wins", "oldest_wins", "keep_both", None},
            win : Ids \cup {None}, lose : Ids \cup {None}]

Runs == [op : {"scan", "scan_one", "retro", "offer", "sweep", "audit", None},
         step : {"subject", "queue", "compare", "retire", "carry", "enqueue", "load",
                 "dismiss", "rekind", None},
         subjects : SUBSET Sides, subject : Sides \cup {None}, near : SUBSET Sides,
         seen : SUBSET Ids, judged : SUBSET Pairs, gone : SUBSET Ids,
         win : Ids \cup {None}, lose : Ids \cup {None},
         keys : SUBSET Keys, key : Keys \cup {None}, known : SUBSET Pairs]

NoReview == [op |-> None, step |-> None, keys |-> {}, key |-> None, policy |-> None,
             win |-> None, lose |-> None]

NoJob == [op |-> None, step |-> None, subjects |-> {}, subject |-> None, near |-> {},
          seen |-> {}, judged |-> {}, gone |-> {}, win |-> None, lose |-> None,
          keys |-> {}, key |-> None, known |-> {}]

ASSUME NoneIsNoStep == None \notin {"retire", "finish", "next", "revive", "open", "subject",
                                  "queue", "compare", "load", "dismiss", "rekind"}

vars == <<memoryVars, queue, rev, job>>

\* At most one row on the first pair, from an earlier day.
Init ==
    /\ MemoriesInit
    /\ \E s \in {"none", "pending", "kept"} :
         queue = [k \in Keys |-> IF k = {1, 2} /\ k \subseteq Live THEN s ELSE "none"]
    /\ rev = [r \in Reviewers |-> NoReview]
    /\ job = [j \in Jobs |-> NoJob]

Pending == {k \in Keys : queue[k] = "pending"}

Starts(op) ==
    /\ op \in Commands
    /\ calls < MaxCalls
    /\ calls' = calls + 1

-----------------------------------------------------------------------------
(* The decision: decideAction and what may stand in its way *)

Relations == {"complementary", "duplicate", "a_supersedes_b", "b_supersedes_a", "contradiction"}

Skip == [kind |-> "skip", win |-> None, lose |-> None]
Queue == [kind |-> "queue", win |-> None, lose |-> None]
Retire(w, l) == [kind |-> "retire", win |-> w.id, lose |-> l.id]

Side(m) == [id |-> m, kind |-> memories[m].kind]
RankOf(s) == memories[s.id].rank

\* Mutant: no kind is protected.
Unprotected(s) == FALSE

ProtectedLoser(s) == RankOf(s) > 0 /\ s.kind = "decision"

Newer(a, b) == IF a.id > b.id THEN a ELSE b
Higher(a, b) == IF RankOf(a) > RankOf(b) THEN a ELSE b
Other(a, b, w) == IF w = a THEN b ELSE a

\* sure: the confidence reaches the threshold of the relation.
DecideAction(relation, sure, a, b) ==
    LET oneProvisional == RankOf(a) # RankOf(b) /\ (RankOf(a) = 0 \/ RankOf(b) = 0)
        bothProvisional == RankOf(a) = 0 /\ RankOf(b) = 0
        twin == IF RankOf(a) # RankOf(b) THEN Higher(a, b) ELSE Newer(a, b)
        winner == CASE relation = "duplicate" -> twin
                    [] relation = "a_supersedes_b" -> a
                    [] OTHER -> b
    IN CASE relation = "complementary" -> Skip
         [] relation # "complementary" /\ oneProvisional ->
              Retire(Higher(a, b), Other(a, b, Higher(a, b)))
         [] relation # "complementary" /\ bothProvisional ->
              Retire(Newer(a, b), Other(a, b, Newer(a, b)))
         [] OTHER ->
              IF relation = "contradiction" \/ ~sure \/ ProtectedLoser(Other(a, b, winner))
              THEN Queue
              ELSE Retire(winner, Other(a, b, winner))

\* queueInstead, and protectPromotedLoop with its look at the cards.
QueueInstead(action) == IF action.kind = "retire" THEN Queue ELSE action
ProtectPromotedLoop(action) ==
    IF action.lose \in cards THEN QueueInstead(action) ELSE action

\* What one comparison may come to.  Skip stands for the pairs of two
\* projects; a near-verbatim pair of one session is collapsed unjudged.
Collapses(a, b) ==
    IF SameSession(memories[a.id], memories[b.id])
    THEN {Retire(Newer(a, b), Other(a, b, Newer(a, b)))} ELSE {}

Judged(op, a, b) ==
    LET decided == {DecideAction(rel, sure, a, b) : rel \in Relations, sure \in BOOLEAN}
    IN CASE op = "offer" -> {Queue}
         [] op = "retro" -> {QueueInstead(action) : action \in decided}
         [] OTHER -> {ProtectPromotedLoop(action) : action \in decided}

Outcomes(op, a, b) == {Skip} \cup Collapses(a, b) \cup Judged(op, a, b)

-----------------------------------------------------------------------------
(* scan, scanOne and retroScan: the walk over pairs *)

\* Where a run goes when it is done with a candidate or a subject.
Onward(w) ==
    LET left == {s \in w.subjects : s.id \notin w.gone}
        calm == [w EXCEPT !.win = None, !.lose = None]
    IN IF w.near # {} THEN [calm EXCEPT !.step = "compare"]
       ELSE IF left # {} THEN [calm EXCEPT !.step = "subject", !.subject = None,
                                           !.subjects = left, !.seen = {}]
       ELSE NoJob

\* The scan takes the newest, the pass over history a page of the oldest
\* after its cursor, a write its own memory.
Page(op, a, b) ==
    CASE op = "scan" -> {m \in Live : m >= a}
      [] op = "scan_one" -> Live \cap {a}
      [] OTHER -> {m \in Live : a <= m /\ m <= b}

StartScan(j) ==
    \E op \in {"scan", "scan_one", "retro", "offer"}, a, b \in Ids :
        LET page == Page(op, a, b) IN
        /\ Starts(op)
        /\ job[j] = NoJob
        /\ page # {}
        /\ job' = [job EXCEPT ![j] =
                     [NoJob EXCEPT !.op = op, !.step = "subject",
                        !.subjects = {Side(m) : m \in page},
                        !.known = {k \in Pairs : queue[k] # "none"}]]
        /\ UNCHANGED <<memories, rules, carrying, cards, req, queue, rev>>

\* find_review_candidates: live neighbours of the subject, itself retired or not.
ReadCandidates(j) ==
    LET w == job[j] IN
    /\ w.step = "subject"
    /\ \E s \in w.subjects :
         /\ \A t \in w.subjects : IF w.op = "scan" THEN t.id <= s.id ELSE t.id >= s.id
         /\ \E near \in SUBSET (Live \ {s.id}) :
              LET next == [w EXCEPT !.subject = s, !.subjects = w.subjects \ {s},
                                    !.near = {Side(m) : m \in near}]
              IN job' = [job EXCEPT ![j] = IF near = {} THEN Onward(next)
                                           ELSE [next EXCEPT !.step = "queue"]]
    /\ UNCHANGED <<memoryVars, queue, rev>>

\* Mutant: only the rows that name the memory first are found.
RowsNamedFirst(m) == {n \in Ids : m < n /\ queue[{m, n}] # "none"}

\* The other sides of every pair of m that ever reached the queue.
AdjudicatedCounterparts(m) == {n \in Ids \ {m} : queue[{m, n}] # "none"}

ReadAdjudicated(j) ==
    /\ job[j].step = "queue"
    /\ job' = [job EXCEPT ![j].step = "compare",
                          ![j].seen = AdjudicatedCounterparts(job[j].subject.id)]
    /\ UNCHANGED <<memoryVars, queue, rev>>

\* One candidate, in the order of similarity, which may be any: skipped when
\* it is gone, judged or adjudicated, else judged.  The judge reads nothing
\* and the cards are read right after it, so both are this step.
Compare(j) ==
    LET w == job[j] IN
    /\ w.step = "compare"
    /\ \E c \in w.near :
         LET pair == {w.subject.id, c.id}
             next == [w EXCEPT !.near = @ \ {c}, !.judged = @ \cup {pair}]
         IN IF c.id \in w.gone \cup w.seen \/ pair \in w.judged
            THEN job' = [job EXCEPT ![j] = Onward(next)]
            ELSE \E action \in Outcomes(w.op, w.subject, c) :
                   job' = [job EXCEPT ![j] =
                     CASE action.kind = "skip" -> Onward(next)
                       [] action.kind = "queue" ->
                            [next EXCEPT !.step = "enqueue", !.key = pair]
                       [] OTHER ->
                            [next EXCEPT !.step = "retire", !.win = action.win,
                                         !.lose = action.lose]]
    /\ UNCHANGED <<memoryVars, queue, rev>>

\* A run goes on without the memory it retired.
Retired(w) ==
    Onward([w EXCEPT !.gone = w.gone \cup {w.lose},
                     !.near = IF w.lose = w.subject.id THEN {} ELSE w.near])

\* #supersede: whatever the row holds by now.
RetireLoser(j) ==
    LET w == job[j]
        row == Superseded(memories[w.lose], w.win)
    IN /\ w.step = "retire"
       /\ \/ UpdateMemory(w.lose, row) /\ job' = [job EXCEPT ![j] = Retired(w)]
          \/ Supersede(w.lose, row) /\ job' = [job EXCEPT ![j].step = "carry"]
       /\ UNCHANGED <<cards, req, calls, queue, rev>>

CommitRetire(j) ==
    /\ job[j].step = "carry"
    /\ CommitSupersede(job[j].lose)
    /\ job' = [job EXCEPT ![j] = Retired(@)]
    /\ UNCHANGED <<cards, req, calls, queue, rev>>

\* An update that fails ends the run.
RetireFails(j) ==
    /\ job[j].step = "carry"
    /\ RollBack(job[j].lose)
    /\ job' = [job EXCEPT ![j] = NoJob]
    /\ UNCHANGED <<memories, rules, cards, req, calls, queue, rev>>

\* #enqueue and #offer leave a pair that is on the queue as it is.
Enqueue(j) ==
    LET w == job[j] IN
    /\ w.step = "enqueue"
    /\ queue' = [queue EXCEPT ![w.key] = IF @ = "none" THEN "pending" ELSE @]
    /\ job' = [job EXCEPT ![j] = Onward([w EXCEPT !.key = None])]
    /\ UNCHANGED <<memoryVars, rev>>

-----------------------------------------------------------------------------
(* readjudicatePending and auditKinds *)

\* For one owner a row without a second memory is skipped; the nightly sweep
\* names no owner and skips none.
StartSweep(j) ==
    \E rows \in {Pending, Pending \cap Pairs} :
        /\ Starts("sweep")
        /\ job[j] = NoJob
        /\ rows # {}
        /\ job' = [job EXCEPT ![j] = [NoJob EXCEPT !.op = "sweep", !.step = "load", !.keys = rows]]
        /\ UNCHANGED <<memories, rules, carrying, cards, req, queue, rev>>

SweptOnward(w) == IF w.keys = {} THEN NoJob ELSE [w EXCEPT !.step = "load", !.key = None]

\* A row without two live memories is stale; a live pair may turn out to be
\* of two projects, or no conflict to the judge of today.
Stale(k) == k \notin Pairs \/ ~(k \subseteq Live)

LoadPending(j) ==
    LET w == job[j] IN
    /\ w.step = "load"
    /\ \E k \in w.keys :
         LET left == [w EXCEPT !.keys = @ \ {k}] IN
         job' \in {[job EXCEPT ![j] = [left EXCEPT !.step = "dismiss", !.key = k]]}
                  \cup (IF Stale(k) THEN {} ELSE {[job EXCEPT ![j] = SweptOnward(left)]})
    /\ UNCHANGED <<memoryVars, queue, rev>>

\* Mutant: the row is dismissed whatever became of it.
DismissAnyway(k) == [queue EXCEPT ![k] = "swept"]

DismissKeepBoth(k) == [queue EXCEPT ![k] = IF @ = "pending" THEN "swept" ELSE @]

Dismiss(j) ==
    /\ job[j].step = "dismiss"
    /\ queue' = DismissKeepBoth(job[j].key)
    /\ job' = [job EXCEPT ![j] = SweptOnward(@)]
    /\ UNCHANGED <<memoryVars, rev>>

\* The suspects the judge will confirm, of the durable kinds.
StartAudit(j) ==
    \E notes \in SUBSET {m \in Live : memories[m].kind = "decision"} :
        /\ Starts("audit")
        /\ job[j] = NoJob
        /\ notes # {}
        /\ job' = [job EXCEPT ![j] = [NoJob EXCEPT !.op = "audit", !.step = "rekind",
                                                   !.subjects = {Side(m) : m \in notes}]]
        /\ UNCHANGED <<memories, rules, carrying, cards, req, queue, rev>>

\* Mutant: a kind that the table does not know.
ChangeNote == "note"

Demoted == "episode"

Rekind(j) ==
    /\ job[j].step = "rekind"
    /\ \E s \in job[j].subjects :
         LET left == job[j].subjects \ {s} IN
         /\ \A t \in left : t.id < s.id
         /\ s.id \notin LockedMemories
         /\ memories' = [memories EXCEPT ![s.id].kind = Demoted]
         /\ job' = [job EXCEPT ![j] = IF left = {} THEN NoJob ELSE [@ EXCEPT !.subjects = left]]
    /\ UNCHANGED <<rules, carrying, cards, req, calls, queue, rev>>

-----------------------------------------------------------------------------
(* People and their agents: the queue, restore_memory, challenge *)

\* What a decision does to a row: the side it retires, for the other or for
\* nothing, or none.
Decisions(k) ==
    {[win |-> None, lose |-> None]}
    \cup {[win |-> w, lose |-> l] : w \in k \cup {None}, l \in k}

\* resolve_conflict refuses a retirement of one side of a pair, and has
\* nothing to supersede a single one by; the review page, of pairs only, may
\* forget a side.
Allowed(op, k, d) ==
    /\ d.lose # None => d.win # d.lose
    /\ op = "resolve" /\ k \in Pairs => (d.lose = None <=> d.win = None)
    /\ op = "review" => k \in Pairs

Resolve(r) ==
    \E op \in {"resolve", "review"}, k \in Pending : \E d \in Decisions(k) :
        /\ Starts(op)
        /\ rev[r] = NoReview
        /\ Allowed(op, k, d)
        /\ rev' = [rev EXCEPT ![r] =
                     [NoReview EXCEPT !.op = op, !.key = k, !.win = d.win, !.lose = d.lose,
                        !.step = IF d.lose = None THEN "finish" ELSE "retire"]]
        /\ UNCHANGED <<memories, rules, carrying, cards, req, queue, job>>

\* resolveByPolicy reads the pending rows once; a policy that picks a winner
\* passes over the single ones.
ResolveByPolicy(r) ==
    \E policy \in {"newest_wins", "oldest_wins", "keep_both"} :
        LET rows == IF policy = "keep_both" THEN Pending ELSE Pending \cap Pairs IN
        /\ Starts("bulk")
        /\ rev[r] = NoReview
        /\ rows # {}
        /\ rev' = [rev EXCEPT ![r] = [NoReview EXCEPT !.op = "bulk", !.step = "next",
                                        !.keys = rows, !.policy = policy]]
        /\ UNCHANGED <<memories, rules, carrying, cards, req, queue, job>>

ReviewedOnward(v) ==
    IF v.keys = {} THEN NoReview
    ELSE [v EXCEPT !.step = "next", !.key = None, !.win = None, !.lose = None]

\* A single row goes through resolveOne and its check of the status; a pair
\* is settled as it was listed.
NextOfBulk(r) ==
    LET v == rev[r] IN
    /\ v.step = "next"
    /\ \E k \in v.keys :
         LET left == [v EXCEPT !.keys = @ \ {k}, !.key = k]
             new == CHOOSE a \in k : \A b \in k : b <= a
             old == CHOOSE a \in k : \A b \in k : a <= b
         IN rev' = [rev EXCEPT ![r] =
              IF k \in Singles /\ k \notin Pending THEN ReviewedOnward(left)
              ELSE CASE v.policy = "newest_wins" ->
                     [left EXCEPT !.step = "retire", !.win = new, !.lose = old]
                [] v.policy = "oldest_wins" ->
                     [left EXCEPT !.step = "retire", !.win = old, !.lose = new]
                [] OTHER -> [left EXCEPT !.step = "finish"]]
    /\ UNCHANGED <<memoryVars, queue, job>>

\* #supersede and #invalidate touch a live memory only; the review page stops
\* when there was none.
RetireSide(r) ==
    LET v == rev[r]
        row == Superseded(memories[v.lose], v.win)
    IN /\ v.step = "retire"
       /\ \/ /\ v.lose \in Live
             /\ UpdateMemory(v.lose, row)
             /\ rev' = [rev EXCEPT ![r].step = "finish"]
          \/ /\ v.lose \in Live
             /\ Supersede(v.lose, row)
             /\ rev' = [rev EXCEPT ![r].step = "carry"]
          \/ /\ v.lose \notin Live
             /\ rev' = [rev EXCEPT ![r] = IF v.op = "review" THEN NoReview
                                          ELSE [v EXCEPT !.step = "finish"]]
             /\ UNCHANGED <<memories, rules, carrying>>
       /\ UNCHANGED <<cards, req, calls, queue, job>>

CommitSide(r) ==
    /\ rev[r].step = "carry"
    /\ CommitSupersede(rev[r].lose)
    /\ rev' = [rev EXCEPT ![r].step = "finish"]
    /\ UNCHANGED <<cards, req, calls, queue, job>>

\* The review page stops at an update that failed; the others do not read the
\* error and settle the row.
SideFails(r) ==
    LET v == rev[r] IN
    /\ v.step \in {"retire", "carry"}
    /\ IF v.step = "carry" THEN RollBack(v.lose) ELSE UNCHANGED carrying
    /\ rev' = [rev EXCEPT ![r] = IF v.op = "review" THEN NoReview
                                 ELSE [v EXCEPT !.step = "finish"]]
    /\ UNCHANGED <<memories, rules, cards, req, calls, queue, job>>

\* #finish: by the id of the row alone.
Finish(r) ==
    LET v == rev[r] IN
    /\ v.step = "finish"
    /\ queue' = [queue EXCEPT ![v.key] = IF v.lose = None THEN "kept" ELSE "retired"]
    /\ rev' = [rev EXCEPT ![r] = ReviewedOnward(v)]
    /\ UNCHANGED <<memoryVars, job>>

\* restoreMemory loads an invalidated memory and clears its marks.
LoadRetired(r) ==
    \E m \in Written \ Live :
        /\ Starts("restore")
        /\ rev[r] = NoReview
        /\ rev' = [rev EXCEPT ![r] = [NoReview EXCEPT !.op = "restore", !.step = "revive", !.win = m]]
        /\ UNCHANGED <<memories, rules, carrying, cards, req, queue, job>>

Revive(r) ==
    LET m == rev[r].win IN
    /\ rev[r].step = "revive"
    /\ m \notin LockedMemories
    /\ memories' = [memories EXCEPT ![m].retired = FALSE, ![m].successor = None]
    /\ rev' = [rev EXCEPT ![r] = NoReview]
    /\ UNCHANGED <<rules, carrying, cards, req, calls, queue, job>>

\* challenge finds a live memory without an open challenge, and inserts one
\* unless the index of open challenges has one by then.  Bound: one dispute
\* of a memory alone, so that a row is known by its memory.
Challenge(r) ==
    \E m \in Live :
        /\ Starts("challenge")
        /\ rev[r] = NoReview
        /\ queue[{m}] = "none"
        /\ rev' = [rev EXCEPT ![r] = [NoReview EXCEPT !.op = "challenge", !.step = "open", !.key = {m}]]
        /\ UNCHANGED <<memories, rules, carrying, cards, req, queue, job>>

OpenDispute(r) ==
    /\ rev[r].step = "open"
    /\ queue' = [queue EXCEPT ![rev[r].key] = IF @ = "none" THEN "pending" ELSE @]
    /\ rev' = [rev EXCEPT ![r] = NoReview]
    /\ UNCHANGED <<memoryVars, job>>

-----------------------------------------------------------------------------
Scanner(j) ==
    \/ StartScan(j) \/ ReadCandidates(j) \/ ReadAdjudicated(j) \/ Compare(j)
    \/ RetireLoser(j) \/ CommitRetire(j) \/ RetireFails(j) \/ Enqueue(j)
    \/ StartSweep(j) \/ LoadPending(j) \/ Dismiss(j)
    \/ StartAudit(j) \/ Rekind(j)

Reviewer(r) ==
    \/ Resolve(r) \/ ResolveByPolicy(r) \/ NextOfBulk(r)
    \/ RetireSide(r) \/ CommitSide(r) \/ SideFails(r) \/ Finish(r)
    \/ LoadRetired(r) \/ Revive(r) \/ Challenge(r) \/ OpenDispute(r)

Next ==
    \/ MemoriesNext /\ UNCHANGED <<queue, rev, job>>
    \/ \E j \in Jobs : Scanner(j)
    \/ \E r \in Reviewers : Reviewer(r)

Spec == Init /\ [][Next]_vars

-----------------------------------------------------------------------------
(* What must hold *)

\* Every table, request and run keeps its kind of value.
TypeOK ==
    /\ MemoriesTypeOK
    /\ queue \in [Keys -> RowStatus]
    /\ rev \in [Reviewers -> Reviews]
    /\ job \in [Jobs -> Runs]

\* #apply, decideAction: a run of the scanner is about to retire an authoritative
\* memory only for another authoritative one; one of a protected kind, or any
\* memory in a pass over history, only for a newer write of its own session.
\* The kinds the decision used were read earlier, and auditKinds changes them.
ScannerRespectsAuthority ==
    \A j \in Jobs : job[j].step \in {"retire", "carry"} =>
        LET w == memories[job[j].win]
            l == memories[job[j].lose]
        IN /\ l.rank > 0 => w.rank > 0
           /\ \/ l.rank > 0 /\ l.kind = "decision"
              \/ job[j].op \in {"retro", "offer"}
              => SameSession(w, l) /\ job[j].win > job[j].lose

\* #adjudicatedCounterparts: a pair that was on the queue when a run began,
\* pending or settled, is never decided by that run, from whichever side it
\* comes to it and whoever works on the queue meanwhile.
ScansHonourQueue ==
    \A j \in Jobs : job[j].step \in {"retire", "carry"} =>
        {job[j].win, job[j].lose} \notin job[j].known

DecisionsStand == \A k \in Keys : queue[k] \in ByPerson => queue'[k] \in ByPerson

\* #dismissKeepBoth, #enqueue: what a person decided of a row is neither
\* overwritten nor reopened by the runs of the scanner that listed it before.
PersonsDecisionStands == [][DecisionsStand]_vars

RulesStayOrMove ==
    memories' # memories =>
        /\ PromotedRules' = PromotedRules
        /\ \A i \in PromotedRules :
             LET m == rules[i].memory
                 n == rules'[i].memory
             IN n = m \/ (memories'[m].successor = n /\ ~memories'[n].retired)

\* carry_rule_to_successor: when a memory changes, by whatever request or run,
\* no promoted rule is lost, doubled or demoted; it stays, or it moves to the
\* live memory that superseded its own.
RulesFollowMemories == [][RulesStayOrMove]_vars

SettledRulesStay ==
    memories' # memories =>
        \A i \in RuleIds : rules[i] # None /\ rules[i].status \in {"dismissed", "revoked"}
                           => rules'[i] = rules[i]

\* carry_rule_to_successor: what a person decided against a rule outlasts every
\* change of the memories.  The trigger deletes the successor's proposal on
\* what it read of it; a decision on that proposal waits for the carry, and
\* finds it gone, or comes first, and then the carry leaves it alone.
SettledRulesSurvive == [][SettledRulesStay]_vars

\* challenge: a dispute of one memory stays open until a person or an agent
\* settles it through resolve_conflict.
ChallengesWaitForAPerson ==
    \A k \in Singles : queue[k] # "swept"
=============================================================================
