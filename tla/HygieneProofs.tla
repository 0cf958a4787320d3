---------------------------- MODULE HygieneProofs ----------------------------
(***************************************************************************)
(* Proofs about Hygiene, for any corpus, any number of requests, reviewers *)
(* and runs, and any number of calls.                                      *)
(***************************************************************************)
EXTENDS Hygiene, TLAPS

(* The invariant.  What an actor holds is stated of its record, a table of
   memories M and a queue Q, so that the same formula speaks of either end of
   a step. *)

HeldOK(q, M) ==
    /\ q.step \in {"save", "carry"} => /\ q.m \in Ids /\ M[q.m] # None
                                       /\ q.snap \in Row
                                       /\ q.todo # {} => q.to \in Ids
    /\ q.step = "target" => q.to \in Ids
    /\ q.step = "insert" => q.new \in Write
    /\ q.step \in {"existing", "upsert", "enqueue"} => q.m \in Ids
    /\ q.step = "distil" => q.rule \in RuleIds

ReviewOK(v, M) ==
    /\ v.step \in {"retire", "carry"} => v.lose \in Ids
    /\ v.step \in {"retire", "carry", "finish", "open"} => v.key \in Keys
    /\ v.step = "revive" => v.win \in Ids /\ M[v.win] # None

\* The kind a run read may be out of date in one direction only.
SideOK(s, M) == M[s.id] # None /\ (M[s.id].kind = "decision" => s.kind = "decision")

Walking == {"queue", "compare", "retire", "carry", "enqueue"}

RetireOK(w, M) ==
    /\ w.win \in Ids /\ M[w.win] # None
    /\ w.lose \in Ids /\ M[w.lose] # None
    /\ {w.win, w.lose} \notin w.known
    /\ M[w.lose].rank > 0 => M[w.win].rank > 0
    /\ \/ M[w.lose].rank > 0 /\ M[w.lose].kind = "decision"
       \/ w.op \in {"retro", "offer"}
       => SameSession(M[w.win], M[w.lose]) /\ w.win > w.lose

RunOK(w, M, Q) ==
    /\ \A s \in w.subjects \cup w.near : SideOK(s, M)
    /\ w.step \in Walking => /\ w.subject \in Sides /\ SideOK(w.subject, M)
                             /\ \A c \in w.near : c.id # w.subject.id
    /\ \A k \in w.known : Q[k] # "none"
    /\ w.step \in Walking \ {"queue"} =>
          \A n \in Ids : {w.subject.id, n} \in w.known => n \in w.seen
    /\ w.step \in {"retire", "carry"} => RetireOK(w, M)
    /\ w.step \in {"enqueue", "dismiss"} => w.key \in Keys

RulesApart ==
    \A i, k \in RuleIds :
        rules[i] # None /\ rules[k] # None /\ rules[i].memory = rules[k].memory => i = k

\* An update under way and what its trigger read are as they were: the rule
\* is promoted and on its memory, and where it is to move, the successor is
\* live and the proposal found there unreviewed.
CarryFits(c, m, M, R) ==
    /\ M[m] # None
    /\ c.row.rank = M[m].rank /\ c.row.session = M[m].session /\ c.row.kind = M[m].kind
    /\ \A i \in c.rule : R[i] # None /\ R[i].memory = m /\ R[i].status = "promoted"
    /\ \A i \in c.found : R[i] # None /\ R[i].memory = c.row.successor
    /\ c.found # {} => c.rule # {}
    /\ c.moves => /\ c.rule # {}
                  /\ c.row.successor \in Ids /\ M[c.row.successor] # None
                  /\ ~M[c.row.successor].retired
                  /\ \A i \in c.found : R[i].status \in {"pending", "snoozed"}

CarriesOK == \A m \in Carrying : CarryFits(carrying[m], m, memories, rules)

\* No two of them hold one memory.
CarriesApart == \A m, n \in Carrying : m # n => LockedBy(m) \cap LockedBy(n) = {}

HygieneInv ==
    /\ TypeOK
    /\ RulesApart
    /\ CarriesOK
    /\ CarriesApart
    /\ \A w \in Workers : HeldOK(req[w], memories)
    /\ \A r \in Reviewers : ReviewOK(rev[r], memories)
    /\ \A j \in Jobs : RunOK(job[j], memories, queue)

(* What every step does to the tables. *)

Evolves ==
    \A m \in Ids : memories[m] # None =>
        /\ memories'[m] # None
        /\ memories'[m].rank = memories[m].rank
        /\ memories'[m].session = memories[m].session
        /\ memories'[m].kind \in {memories[m].kind, "episode"}

Grows == \A k \in Keys : queue[k] # "none" => queue'[k] # "none"

ChangeOK ==
    /\ memories' \in [Ids -> Row \cup {None}]
    /\ rules' \in [RuleIds -> RuleRow \cup {None}]
    /\ carrying' \in [Ids -> Carry \cup {None}]
    /\ RulesApart'
    /\ CarriesOK'
    /\ CarriesApart'
    /\ Evolves
    /\ RulesStayOrMove
    /\ SettledRulesStay

TablesOK ==
    /\ ChangeOK
    /\ cards' \subseteq Ids
    /\ calls' \in 0..MaxCalls
    /\ queue' \in [Keys -> RowStatus]
    /\ Grows
    /\ DecisionsStand

RequestsOK ==
    /\ req' \in [Workers -> Held]
    /\ \A w \in Workers : HeldOK(req'[w], memories')

ReviewsOK ==
    /\ rev' \in [Reviewers -> Reviews]
    /\ \A r \in Reviewers : ReviewOK(rev'[r], memories')

RunsOK ==
    /\ job' \in [Jobs -> Runs]
    /\ \A j \in Jobs : RunOK(job'[j], memories', queue')

-----------------------------------------------------------------------------
(* Frames *)

\* Updates under way of which some go on, over memories and rules that do not
\* change where they hold them, stay right.
LEMMA CarriesStay ==
    ASSUME HygieneInv, NEW K \in SUBSET Carrying,
           \A n \in Ids : carrying'[n] = IF n \in K THEN carrying[n] ELSE None,
           \A n \in K : /\ \A x \in LockedBy(n) : memories[x] # None => memories'[x] = memories[x]
                        /\ \A i \in carrying[n].rule \cup carrying[n].found : rules'[i] = rules[i]
    PROVE  CarriesOK' /\ CarriesApart'
<1>1. /\ \A n \in Carrying : n \in Ids /\ CarryFits(carrying[n], n, memories, rules)
      /\ \A m, n \in Carrying : m # n => LockedBy(m) \cap LockedBy(n) = {}
  BY DEF HygieneInv, CarriesOK, CarriesApart, Carrying
<1>2. Carrying' = K
  BY <1>1 DEF Carrying
<1>3. \A n \in K : carrying'[n] = carrying[n] /\ n \in Carrying /\ n \in LockedBy(n)
  BY <1>1 DEF LockedBy
<1>4. ASSUME NEW n \in K
      PROVE  CarryFits(carrying[n], n, memories', rules')
  <2> DEFINE c == carrying[n]
             s == c.row.successor
  <2>1. CarryFits(c, n, memories, rules)
    BY <1>1
  <2>2. memories'[n] = memories[n]
    BY <1>3, <2>1 DEF CarryFits
  <2>3. c.moves => memories'[s] = memories[s]
    <3>1. c.moves => s \in LockedBy(n) /\ memories[s] # None
      BY <2>1 DEF LockedBy, CarryFits
    <3> QED BY <3>1
  <2>4. \A i \in c.rule \cup c.found : rules'[i] = rules[i]
    OBVIOUS
  <2> HIDE DEF c
  <2>5. CarryFits(c, n, memories', rules')
    BY <2>1, <2>2, <2>3, <2>4 DEF CarryFits
  <2> QED BY <2>5 DEF c
<1>5. CarriesOK'
  BY <1>2, <1>3, <1>4 DEF CarriesOK
<1>6. \A n \in K : LockedBy(n)' = LockedBy(n)
  BY <1>3 DEF LockedBy
<1>7. CarriesApart'
  BY <1>1, <1>2, <1>3, <1>6 DEF CarriesApart
<1> QED BY <1>5, <1>7

\* Updates under way while others change only what these do not hold.
LEMMA CarriesKept ==
    ASSUME HygieneInv, UNCHANGED carrying,
           \A x \in LockedMemories : memories[x] # None => memories'[x] = memories[x],
           \A i \in LockedRules : rules[i] # None => rules'[i] = rules[i]
    PROVE  carrying' \in [Ids -> Carry \cup {None}] /\ CarriesOK' /\ CarriesApart'
<1>1. carrying' \in [Ids -> Carry \cup {None}]
  BY DEF HygieneInv, TypeOK, MemoriesTypeOK
<1>2. \A n \in Ids : carrying'[n] = IF n \in Carrying THEN carrying[n] ELSE None
  BY DEF Carrying
<1>3. ASSUME NEW n \in Carrying
      PROVE  /\ \A x \in LockedBy(n) : memories[x] # None => memories'[x] = memories[x]
             /\ \A i \in carrying[n].rule \cup carrying[n].found : rules'[i] = rules[i]
  <2>1. LockedBy(n) \subseteq LockedMemories
    BY DEF LockedMemories
  <2>2. carrying[n].rule \cup carrying[n].found \subseteq LockedRules
    BY DEF LockedRules
  <2>3. \A i \in carrying[n].rule \cup carrying[n].found : rules[i] # None
    BY DEF HygieneInv, CarriesOK, CarryFits
  <2> QED BY <2>1, <2>2, <2>3
<1> QED BY <1>1, <1>2, <1>3, CarriesStay

\* A step that leaves the tables alone keeps what is asked of them.
LEMMA TablesKept ==
    ASSUME HygieneInv, UNCHANGED <<memories, rules, carrying, cards, queue>>,
           calls' \in 0..MaxCalls
    PROVE  TablesOK
<1>1. carrying' \in [Ids -> Carry \cup {None}] /\ CarriesOK' /\ CarriesApart'
  BY CarriesKept
<1> QED BY <1>1 DEF HygieneInv, TypeOK, MemoriesTypeOK, TablesOK, ChangeOK, RulesApart,
         Evolves, Grows, RulesStayOrMove, SettledRulesStay, DecisionsStand

\* What a change of memories, rules or updates under way comes to.
LEMMA TablesChanged ==
    ASSUME HygieneInv, UNCHANGED <<cards, calls, queue>>, ChangeOK
    PROVE  TablesOK /\ Evolves
  BY DEF TablesOK, ChangeOK, HygieneInv, TypeOK, MemoriesTypeOK, Grows, DecisionsStand

\* The counter of calls stays within its bound.
LEMMA CallsCounted ==
    ASSUME HygieneInv, calls < MaxCalls, calls' = calls + 1
    PROVE  calls' \in 0..MaxCalls
  BY SizesAreNatural DEF HygieneInv, TypeOK, MemoriesTypeOK

\* What a request holds stays right as the memories evolve.
LEMMA HeldStays ==
    ASSUME Evolves, NEW q, HeldOK(q, memories)
    PROVE  HeldOK(q, memories')
  BY DEF HeldOK, Evolves

\* What a reviewer holds stays right as the memories evolve.
LEMMA ReviewStays ==
    ASSUME Evolves, NEW v, ReviewOK(v, memories)
    PROVE  ReviewOK(v, memories')
  BY DEF ReviewOK, Evolves

\* A memory that was no decision never becomes one.
LEMMA SideStays ==
    ASSUME Evolves, NEW s, s.id \in Ids, SideOK(s, memories)
    PROVE  SideOK(s, memories')
  BY DEF SideOK, Evolves

\* What a run is about to retire stays right: ranks and sessions do not change.
LEMMA RetireStays ==
    ASSUME Evolves, NEW w, RetireOK(w, memories)
    PROVE  RetireOK(w, memories')
  BY DEF RetireOK, Evolves, SameSession

\* What a run of the scanner holds stays right as the tables evolve.
LEMMA RunStays ==
    ASSUME Evolves, Grows, NEW w \in Runs, RunOK(w, memories, queue)
    PROVE  RunOK(w, memories', queue')
<1>1. \A s \in w.subjects \cup w.near : s.id \in Ids
  BY DEF Runs, Sides
<1>2. \A s \in w.subjects \cup w.near : SideOK(s, memories')
  BY <1>1, SideStays DEF RunOK
<1>3. w.step \in Walking => /\ w.subject \in Sides /\ SideOK(w.subject, memories')
                            /\ \A c \in w.near : c.id # w.subject.id
  BY SideStays DEF RunOK, Sides
<1>4. \A k \in w.known : queue'[k] # "none"
  BY DEF RunOK, Grows, Runs, Keys
<1>5. w.step \in {"retire", "carry"} => RetireOK(w, memories')
  BY RetireStays DEF RunOK
<1> QED BY <1>2, <1>3, <1>4, <1>5 DEF RunOK

\* The other actors are not disturbed.
LEMMA RequestsKept ==
    ASSUME HygieneInv, Evolves, UNCHANGED req
    PROVE  RequestsOK
  BY HeldStays DEF HygieneInv, TypeOK, MemoriesTypeOK, RequestsOK

\* Reviewers that do not move are not disturbed.
LEMMA ReviewsKept ==
    ASSUME HygieneInv, Evolves, UNCHANGED rev
    PROVE  ReviewsOK
  BY ReviewStays DEF HygieneInv, TypeOK, ReviewsOK

\* Runs that do not move are not disturbed.
LEMMA RunsKept ==
    ASSUME HygieneInv, Evolves, Grows, UNCHANGED job
    PROVE  RunsOK
<1>1. \A j \in Jobs : job[j] \in Runs /\ RunOK(job[j], memories, queue)
  BY DEF HygieneInv, TypeOK
<1>2. \A j \in Jobs : RunOK(job[j], memories', queue')
  BY <1>1, RunStays
<1> QED BY <1>1, <1>2 DEF RunsOK, HygieneInv, TypeOK

\* An actor that takes a right record, beside others that stay.
LEMMA RequestTaken ==
    ASSUME HygieneInv, Evolves, NEW w \in Workers
    PROVE  \A q : /\ q \in Held
                  /\ HeldOK(q, memories')
                  /\ req' = [req EXCEPT ![w] = q]
                  => RequestsOK
  BY HeldStays DEF HygieneInv, TypeOK, MemoriesTypeOK, RequestsOK

\* A reviewer takes a right record, beside others that stay.
LEMMA ReviewTaken ==
    ASSUME HygieneInv, Evolves, NEW r \in Reviewers
    PROVE  \A v : /\ v \in Reviews
                  /\ ReviewOK(v, memories')
                  /\ rev' = [rev EXCEPT ![r] = v]
                  => ReviewsOK
  BY ReviewStays DEF HygieneInv, TypeOK, ReviewsOK

\* A run takes a right record, beside others that stay.
LEMMA RunTaken ==
    ASSUME HygieneInv, Evolves, Grows, NEW j \in Jobs
    PROVE  \A w : /\ w \in Runs
                  /\ RunOK(w, memories', queue')
                  /\ job' = [job EXCEPT ![j] = w]
                  => RunsOK
<1>1. \A i \in Jobs : job[i] \in Runs /\ RunOK(job[i], memories, queue)
  BY DEF HygieneInv, TypeOK
<1>2. \A i \in Jobs : RunOK(job[i], memories', queue')
  BY <1>1, RunStays
<1> QED BY <1>1, <1>2 DEF RunsOK, HygieneInv, TypeOK

\* The records at rest are right whatever the tables hold.
LEMMA RestIsRight ==
    /\ Idle \in Held /\ NoReview \in Reviews /\ NoJob \in Runs
    /\ \A M : HeldOK(Idle, M) /\ ReviewOK(NoReview, M)
    /\ \A M, Q : RunOK(NoJob, M, Q)
<1>1. Idle \in Held /\ NoReview \in Reviews /\ NoJob \in Runs
  BY DEF Idle, Held, NoReview, Reviews, NoJob, Runs
<1>2. \A M : HeldOK(Idle, M)
  BY NoneIsNothing DEF HeldOK, Idle
<1>3. \A M : ReviewOK(NoReview, M)
  BY NoneIsNoStep, NoneIsNothing DEF ReviewOK, NoReview
<1>4. \A M, Q : RunOK(NoJob, M, Q)
  BY NoneIsNoStep, NoneIsNothing DEF RunOK, NoJob, Walking
<1> QED BY <1>1, <1>2, <1>3, <1>4

-----------------------------------------------------------------------------
(* The tables *)

\* One update of one memory that supersedes nothing.
LEMMA UpdateSound ==
    ASSUME HygieneInv, NEW m \in Ids, memories[m] # None, NEW row \in Row,
           row.rank = memories[m].rank, row.session = memories[m].session,
           row.kind \in {memories[m].kind, "episode"},
           m \notin LockedMemories, memories' = [memories EXCEPT ![m] = row],
           UNCHANGED <<rules, carrying>>
    PROVE  ChangeOK
<1>1. /\ memories \in [Ids -> Row \cup {None}]
      /\ rules \in [RuleIds -> RuleRow \cup {None}]
      /\ RulesApart
  BY DEF HygieneInv, TypeOK, MemoriesTypeOK
<1>2. memories' \in [Ids -> Row \cup {None}]
  BY <1>1
<1>3. Evolves
  BY <1>1, NoneIsNothing DEF Evolves
<1>4. carrying' \in [Ids -> Carry \cup {None}] /\ CarriesOK' /\ CarriesApart'
  <2>1. \A x \in LockedMemories : memories[x] # None => memories'[x] = memories[x]
    BY <1>1
  <2> QED BY <2>1, CarriesKept
<1>5. rules' \in [RuleIds -> RuleRow \cup {None}] /\ RulesApart'
  BY <1>1 DEF RulesApart
<1>6. RulesStayOrMove /\ SettledRulesStay
  BY DEF RulesStayOrMove, SettledRulesStay, PromotedRules
<1> QED BY <1>2, <1>3, <1>4, <1>5, <1>6 DEF ChangeOK

\* An update that supersedes, as far as its trigger reads.
LEMMA SupersedeSound ==
    ASSUME HygieneInv, NEW m \in Ids, memories[m] # None, NEW row \in Row,
           row.rank = memories[m].rank, row.session = memories[m].session,
           row.kind = memories[m].kind,
           Supersede(m, row)
    PROVE  ChangeOK
<1> DEFINE s == row.successor
           rule == RuleToCarry(m)
           found == IF rule # {} /\ s \in Live THEN RulesOn(s) ELSE {}
           c == [row |-> row, rule |-> rule, moves |-> RuleMoves(m, s), found |-> found]
<1>1. /\ memories \in [Ids -> Row \cup {None}]
      /\ rules \in [RuleIds -> RuleRow \cup {None}]
      /\ carrying \in [Ids -> Carry \cup {None}]
      /\ RulesApart /\ CarriesOK /\ CarriesApart
  BY DEF HygieneInv, TypeOK, MemoriesTypeOK
<1>2. /\ m \notin LockedMemories /\ s # None
      /\ rule # {} => s \notin LockedMemories
      /\ carrying' = [carrying EXCEPT ![m] = c]
      /\ UNCHANGED <<memories, rules>>
  BY DEF Supersede, Supersedes
<1>3. rule \in SUBSET RuleIds /\ found \in SUBSET RuleIds
  BY DEF RuleToCarry, RulesOn
<1>4. RuleMoves(m, s) \in BOOLEAN
  BY DEF RuleMoves
<1>5. CarryFits(c, m, memories, rules)
  <2>1. \A i \in rule : rules[i] # None /\ rules[i].memory = m /\ rules[i].status = "promoted"
    BY DEF RuleToCarry, RulesOn, PromotedRules
  <2>2. \A i \in found : i \in RulesOn(s) /\ rules[i] # None /\ rules[i].memory = s
    BY DEF RulesOn
  <2>3. found # {} => rule # {}
    OBVIOUS
  <2>4. RuleMoves(m, s) => /\ rule # {}
                           /\ s \in Ids /\ memories[s] # None /\ ~memories[s].retired
                           /\ \A i \in found : rules[i].status \in {"pending", "snoozed"}
    BY DEF RuleMoves, Live, Written
  <2>5. c.row = row /\ c.rule = rule /\ c.found = found /\ c.moves = RuleMoves(m, s)
    OBVIOUS
  <2> HIDE DEF c, rule, found
  <2> QED BY <2>1, <2>2, <2>3, <2>4, <2>5 DEF CarryFits
<1>6. c \in Carry
  <2> HIDE DEF rule, found
  <2> QED BY <1>3, <1>4 DEF Carry
<1>7. c # None
  BY <1>6, NoneIsNothing
<1>8. c.row.successor = s /\ c.rule = rule
  OBVIOUS
<1> HIDE DEF c, rule, found
<1>9. carrying' \in [Ids -> Carry \cup {None}]
  BY <1>1, <1>2, <1>6
<1>10. /\ Carrying' = Carrying \cup {m}
       /\ carrying'[m] = c
       /\ \A n \in Carrying : n # m /\ carrying'[n] = carrying[n]
  <2>1. m \notin Carrying
    BY <1>2 DEF LockedMemories, LockedBy
  <2>2. carrying'[m] = c /\ \A n \in Ids \ {m} : carrying'[n] = carrying[n]
    BY <1>1, <1>2
  <2> QED BY <1>7, <2>1, <2>2 DEF Carrying
<1>11. CarriesOK'
  BY <1>1, <1>2, <1>5, <1>10 DEF CarriesOK
<1>12. CarriesApart'
  <2>1. \A n \in Carrying : LockedBy(n)' = LockedBy(n) /\ LockedBy(n) \subseteq LockedMemories
    BY <1>10 DEF LockedBy, LockedMemories
  <2>2. LockedBy(m)' \cap LockedMemories = {}
    BY <1>2, <1>8, <1>10 DEF LockedBy
  <2>3. \A n \in Carrying : LockedBy(m)' \cap LockedBy(n) = {}
    BY <2>1, <2>2
  <2> HIDE DEF LockedBy
  <2>4. SUFFICES ASSUME NEW a \in Carrying', NEW b \in Carrying', a # b
                 PROVE  LockedBy(a)' \cap LockedBy(b)' = {}
    BY DEF CarriesApart
  <2>5. CASE a \in Carrying /\ b \in Carrying
    BY <1>1, <2>1, <2>4, <2>5 DEF CarriesApart
  <2>6. CASE a = m /\ b \in Carrying
    BY <2>1, <2>3, <2>6
  <2>7. CASE a \in Carrying /\ b = m
    BY <2>1, <2>3, <2>7
  <2> QED BY <1>10, <2>4, <2>5, <2>6, <2>7
<1>13. Evolves /\ RulesStayOrMove /\ SettledRulesStay /\ RulesApart'
  BY <1>1, <1>2 DEF Evolves, RulesStayOrMove, SettledRulesStay, RulesApart
<1> QED BY <1>1, <1>2, <1>9, <1>11, <1>12, <1>13 DEF ChangeOK

\* An update that fails leaves the others as they are.
LEMMA RollBackSound ==
    ASSUME HygieneInv, NEW m \in Ids, RollBack(m), UNCHANGED <<memories, rules>>
    PROVE  ChangeOK
<1>1. carrying \in [Ids -> Carry \cup {None}]
  BY DEF HygieneInv, TypeOK, MemoriesTypeOK
<1>2. /\ carrying' \in [Ids -> Carry \cup {None}]
      /\ \A n \in Ids : carrying'[n] = IF n \in Carrying \ {m} THEN carrying[n] ELSE None
  BY <1>1 DEF RollBack, Carrying
<1>3. CarriesOK' /\ CarriesApart'
  BY <1>2, CarriesStay
<1> QED BY <1>2, <1>3 DEF ChangeOK, HygieneInv, TypeOK, MemoriesTypeOK, RulesApart, Evolves,
         RulesStayOrMove, SettledRulesStay

\* The commit: the proposal read as unreviewed is unreviewed still, no other
\* rule is on the successor, and the successor is live.
LEMMA CommitSound ==
    ASSUME HygieneInv, NEW m \in Ids, CommitSupersede(m)
    PROVE  ChangeOK
<1> DEFINE c == carrying[m]
           t == c.row.successor
<1>1. /\ memories \in [Ids -> Row \cup {None}]
      /\ rules \in [RuleIds -> RuleRow \cup {None}]
      /\ carrying \in [Ids -> Carry \cup {None}]
      /\ RulesApart /\ CarriesOK /\ CarriesApart
  BY DEF HygieneInv, TypeOK, MemoriesTypeOK
<1>2. /\ m \in Carrying
      /\ c.moves => RulesOn(t) \subseteq c.found
      /\ memories' = [memories EXCEPT ![m] = c.row]
      /\ rules' = IF c.moves THEN CarryRule(c) ELSE rules
      /\ carrying' = [carrying EXCEPT ![m] = None]
  BY DEF CommitSupersede
<1>3. c \in Carry /\ CarryFits(c, m, memories, rules)
  BY <1>1, <1>2 DEF Carrying, CarriesOK
<1>4. c.row \in Row /\ c.rule \in SUBSET RuleIds /\ c.found \in SUBSET RuleIds /\ memories[m] # None
  BY <1>3 DEF Carry, CarryFits
<1>5. \A i \in RuleIds :
         rules'[i] = IF c.moves /\ i \in c.rule THEN [rules[i] EXCEPT !.memory = t]
                     ELSE IF c.moves /\ i \in c.found THEN None ELSE rules[i]
  BY <1>2 DEF CarryRule
<1>6. \A i \in c.rule : /\ i \in RuleIds /\ rules[i] \in RuleRow
                        /\ rules[i] # None /\ rules[i].memory = m /\ rules[i].status = "promoted"
  BY <1>1, <1>3, <1>4 DEF CarryFits
<1>7. c.moves => \A i \in c.found : rules[i].status \in {"pending", "snoozed"}
  BY <1>3 DEF CarryFits
<1>8. c.moves => t \in Ids /\ memories[t] # None /\ ~memories[t].retired
  BY <1>3 DEF CarryFits
<1>9. c.moves => \A i \in c.rule : /\ rules'[i] \in RuleRow
                                   /\ rules'[i].memory = t
                                   /\ rules'[i].status = "promoted"
  <2> SUFFICES ASSUME c.moves, NEW i \in c.rule
               PROVE  rules'[i] \in RuleRow /\ rules'[i].memory = t /\ rules'[i].status = "promoted"
    OBVIOUS
  <2>1. rules'[i] = [rules[i] EXCEPT !.memory = t]
    BY <1>5, <1>6
  <2>2. rules[i] \in RuleRow /\ rules[i].status = "promoted" /\ t \in Ids
    BY <1>6, <1>8
  <2> HIDE DEF t
  <2> QED BY <2>1, <2>2 DEF RuleRow
<1>10. memories' \in [Ids -> Row \cup {None}]
  BY <1>1, <1>2, <1>4
<1>11. Evolves
  BY <1>1, <1>2, <1>3, <1>4, NoneIsNothing DEF Evolves, CarryFits
<1>12. rules' \in [RuleIds -> RuleRow \cup {None}]
  <2>1. \A i \in RuleIds : rules'[i] \in RuleRow \cup {None}
    BY <1>1, <1>5, <1>9
  <2>2. rules' = [i \in RuleIds |-> rules'[i]]
    BY <1>1, <1>2 DEF CarryRule
  <2> QED BY <2>1, <2>2
<1>13. RulesApart'
  <2> SUFFICES ASSUME NEW i \in RuleIds, NEW k \in RuleIds,
                      rules'[i] # None, rules'[k] # None,
                      rules'[i].memory = rules'[k].memory
               PROVE  i = k
    BY DEF RulesApart
  <2>1. CASE ~c.moves
    BY <1>1, <1>2, <2>1 DEF RulesApart
  <2>2. CASE c.moves /\ i \in c.rule /\ k \in c.rule
    BY <1>1, <1>6, <2>2 DEF RulesApart
  <2>3. CASE c.moves /\ i \in c.rule /\ k \notin c.rule
    BY <1>2, <1>5, <1>9, <2>3 DEF RulesOn
  <2>4. CASE c.moves /\ i \notin c.rule /\ k \in c.rule
    BY <1>2, <1>5, <1>9, <2>4 DEF RulesOn
  <2>5. CASE c.moves /\ i \notin c.rule /\ k \notin c.rule
    BY <1>1, <1>5, <2>5 DEF RulesApart
  <2> QED BY <2>1, <2>2, <2>3, <2>4, <2>5
<1>14. carrying' \in [Ids -> Carry \cup {None}] /\ CarriesOK' /\ CarriesApart'
  <2>1. /\ carrying' \in [Ids -> Carry \cup {None}]
        /\ \A n \in Ids : carrying'[n] = IF n \in Carrying \ {m} THEN carrying[n] ELSE None
    BY <1>1, <1>2 DEF Carrying
  <2>2. ASSUME NEW n \in Carrying \ {m}
        PROVE  /\ \A x \in LockedBy(n) : memories'[x] = memories[x]
               /\ \A i \in carrying[n].rule \cup carrying[n].found : rules'[i] = rules[i]
    <3> DEFINE d == carrying[n]
               u == d.row.successor
    <3>1. /\ LockedBy(m) \cap LockedBy(n) = {}
          /\ CarryFits(d, n, memories, rules) /\ d \in Carry
      BY <1>1, <1>2 DEF CarriesApart, CarriesOK, Carrying
    <3>2. m \in LockedBy(m) /\ n \in LockedBy(n)
      BY DEF LockedBy
    <3>3. c.moves => t \in LockedBy(m)
      BY <1>3 DEF LockedBy, CarryFits
    <3>4. d.found # {} => u \in LockedBy(n)
      BY <3>1 DEF LockedBy, CarryFits
    <3>5. \A x \in LockedBy(n) : memories'[x] = memories[x]
      BY <1>1, <1>2, <3>1, <3>2
    <3>6. \A i \in d.rule \cup d.found : i \in RuleIds /\ rules[i].memory \in LockedBy(n)
      BY <3>1, <3>2, <3>4 DEF CarryFits, Carry
    <3>7. \A i \in c.rule : rules[i].memory \in LockedBy(m)
      BY <1>6, <3>2
    <3>8. c.moves => \A i \in c.found : rules[i].memory \in LockedBy(m)
      BY <1>3, <3>3 DEF CarryFits
    <3> HIDE DEF d, c
    <3>9. \A i \in d.rule \cup d.found : rules'[i] = rules[i]
      BY <1>5, <3>1, <3>6, <3>7, <3>8
    <3> QED BY <3>5, <3>9 DEF d
  <2>3. CarriesOK' /\ CarriesApart'
    BY <2>1, <2>2, CarriesStay
  <2> QED BY <2>1, <2>3
<1>15. PromotedRules' = PromotedRules
  <2>1. ASSUME NEW i \in RuleIds
        PROVE  (rules'[i] # None /\ rules'[i].status = "promoted") <=> i \in PromotedRules
    <3>1. CASE c.moves /\ i \in c.rule
      BY <1>1, <1>6, <1>9, <3>1, NoneIsNothing DEF PromotedRules
    <3>2. CASE c.moves /\ i \notin c.rule /\ i \in c.found
      BY <1>5, <1>7, <3>2 DEF PromotedRules
    <3>3. CASE ~c.moves \/ (i \notin c.rule /\ i \notin c.found)
      BY <1>5, <3>3 DEF PromotedRules
    <3> QED BY <3>1, <3>2, <3>3
  <2> QED BY <2>1 DEF PromotedRules
<1>16. RulesStayOrMove
  <2>1. ASSUME NEW i \in PromotedRules
        PROVE  \/ rules'[i].memory = rules[i].memory
               \/ /\ memories'[rules[i].memory].successor = rules'[i].memory
                  /\ ~memories'[rules'[i].memory].retired
    <3>1. CASE c.moves /\ i \in c.rule
      <4>1. rules[i].memory = m /\ rules'[i].memory = t
        BY <1>6, <1>9, <3>1
      <4>2. CASE t = m
        BY <4>1, <4>2
      <4>3. CASE t # m
        <5>1. memories'[m].successor = t
          BY <1>1, <1>2
        <5>2. ~memories'[t].retired
          BY <1>1, <1>2, <1>8, <3>1, <4>3
        <5> QED BY <4>1, <5>1, <5>2
      <4> QED BY <4>2, <4>3
    <3>2. CASE ~(c.moves /\ i \in c.rule)
      <4>1. i \in RuleIds /\ rules[i].status = "promoted"
        BY DEF PromotedRules
      <4>2. ~(c.moves /\ i \in c.found)
        BY <1>7, <4>1
      <4> QED BY <1>5, <3>2, <4>1, <4>2
    <3> QED BY <3>1, <3>2
  <2> QED BY <1>15, <2>1 DEF RulesStayOrMove
<1>17. SettledRulesStay
  <2> SUFFICES ASSUME NEW i \in RuleIds, rules[i] # None,
                      rules[i].status \in {"dismissed", "revoked"}
               PROVE  rules'[i] = rules[i]
    BY DEF SettledRulesStay
  <2>1. i \notin c.rule /\ ~(c.moves /\ i \in c.found)
    BY <1>6, <1>7
  <2> QED BY <1>5, <2>1
<1> QED BY <1>10, <1>11, <1>12, <1>13, <1>14, <1>16, <1>17 DEF ChangeOK

\* One statement of a request, a run or a reviewer on one memory.
LEMMA WriteSound ==
    ASSUME HygieneInv, NEW m \in Ids, memories[m] # None, NEW row \in Row,
           row.rank = memories[m].rank, row.session = memories[m].session,
           row.kind = memories[m].kind,
           UpdateMemory(m, row) \/ Supersede(m, row)
    PROVE  ChangeOK
  BY UpdateSound, SupersedeSound DEF UpdateMemory

\* A step that changes rules one row at a time, and no memory.
LEMMA RuleSet ==
    ASSUME HygieneInv, UNCHANGED <<memories, carrying, cards, queue>>, calls' \in 0..MaxCalls,
           NEW i \in RuleIds, rules[i] = None \/ i \notin LockedRules,
           \E x \in RuleRow \cup {None} :
              /\ rules' = [rules EXCEPT ![i] = x]
              /\ \/ x = None
                 \/ rules[i] # None /\ x.memory = rules[i].memory
                 \/ RulesOn(x.memory) = {}
    PROVE  TablesOK
<1>1. rules \in [RuleIds -> RuleRow \cup {None}] /\ RulesApart
  BY DEF HygieneInv, TypeOK, MemoriesTypeOK
<1>2. PICK x \in RuleRow \cup {None} :
              /\ rules' = [rules EXCEPT ![i] = x]
              /\ \/ x = None
                 \/ rules[i] # None /\ x.memory = rules[i].memory
                 \/ RulesOn(x.memory) = {}
  OBVIOUS
<1>3. rules' \in [RuleIds -> RuleRow \cup {None}]
  BY <1>1, <1>2
<1>4. RulesApart'
  <2> SUFFICES ASSUME NEW a \in RuleIds, NEW b \in RuleIds,
                      rules'[a] # None, rules'[b] # None,
                      rules'[a].memory = rules'[b].memory
               PROVE  a = b
    BY DEF RulesApart
  <2>1. CASE a # i /\ b # i
    BY <1>1, <1>2, <2>1 DEF RulesApart
  <2>2. CASE a = i /\ b # i
    BY <1>1, <1>2, <2>2 DEF RulesApart, RulesOn
  <2>3. CASE a # i /\ b = i
    BY <1>1, <1>2, <2>3 DEF RulesApart, RulesOn
  <2> QED BY <2>1, <2>2, <2>3
<1>5. carrying' \in [Ids -> Carry \cup {None}] /\ CarriesOK' /\ CarriesApart'
  <2>1. \A k \in LockedRules : rules[k] # None => rules'[k] = rules[k]
    <3>1. LockedRules \subseteq RuleIds
      BY DEF LockedRules, Carrying, Carry, HygieneInv, TypeOK, MemoriesTypeOK
    <3> QED BY <1>1, <1>2, <3>1
  <2> QED BY <2>1, CarriesKept
<1> QED BY <1>3, <1>4, <1>5 DEF TablesOK, ChangeOK, HygieneInv, TypeOK, MemoriesTypeOK, Evolves, Grows,
           RulesStayOrMove, SettledRulesStay, DecisionsStand

\* A step that changes the status of rules, and no memory.
LEMMA StatusSet ==
    ASSUME HygieneInv, UNCHANGED <<memories, carrying, cards, queue>>, calls' \in 0..MaxCalls,
           NEW S \in SUBSET RuleIds, \A i \in S : rules[i] # None,
           S \cap LockedRules = {},
           NEW status \in RuleStatus,
           rules' = [i \in RuleIds |-> IF i \in S THEN [rules[i] EXCEPT !.status = status]
                                       ELSE rules[i]]
    PROVE  TablesOK
<1>1. rules \in [RuleIds -> RuleRow \cup {None}] /\ RulesApart
  BY DEF HygieneInv, TypeOK, MemoriesTypeOK
<1>2. \A i \in S : rules[i] \in RuleRow
  BY <1>1
<1>3. \A i \in S : rules'[i] \in RuleRow /\ rules'[i].memory = rules[i].memory
  BY <1>2 DEF RuleRow
<1>4. rules' \in [RuleIds -> RuleRow \cup {None}]
  BY <1>1, <1>3
<1>5. RulesApart'
  BY <1>1, <1>3 DEF RulesApart
<1>6. carrying' \in [Ids -> Carry \cup {None}] /\ CarriesOK' /\ CarriesApart'
  <2>1. LockedRules \subseteq RuleIds
    BY DEF LockedRules, Carrying, Carry, HygieneInv, TypeOK, MemoriesTypeOK
  <2>2. \A k \in LockedRules : rules'[k] = rules[k]
    BY <2>1
  <2> QED BY <2>2, CarriesKept
<1> QED BY <1>4, <1>5, <1>6 DEF TablesOK, ChangeOK, HygieneInv, TypeOK, MemoriesTypeOK, Evolves, Grows,
           RulesStayOrMove, SettledRulesStay, DecisionsStand

\* One row of the queue changes, and no memory: it does not go, and what a
\* person decided stays a person's.
LEMMA QueueSet ==
    ASSUME HygieneInv, UNCHANGED memoryVars, NEW k \in Keys, NEW s \in RowStatus,
           queue' = [queue EXCEPT ![k] = s],
           s = "none" => queue[k] = "none",
           queue[k] \in ByPerson => s \in ByPerson
    PROVE  TablesOK
<1>1. UNCHANGED <<memories, rules, carrying, cards, calls>>
  BY DEF memoryVars
<1>2. carrying' \in [Ids -> Carry \cup {None}] /\ CarriesOK' /\ CarriesApart'
  BY <1>1, CarriesKept
<1> QED BY <1>1, <1>2 DEF TablesOK, ChangeOK, HygieneInv, TypeOK, MemoriesTypeOK, Evolves, Grows,
         RulesApart, RulesStayOrMove, SettledRulesStay, DecisionsStand

-----------------------------------------------------------------------------
(* The requests of Memories *)

\* What the aggregate makes of a row is a row of the same kind and author.
LEMMA RowsMade ==
    ASSUME NEW row \in Row, NEW snap \in Row, NEW t \in Ids \cup {None}
    PROVE  /\ Invalidated(row) \in Row /\ Shared(row) \in Row /\ Superseded(row, t) \in Row
           /\ Stored(row, snap) \in Row
           /\ \A x \in {Superseded(row, t), Stored(row, snap)} :
                 x.rank = row.rank /\ x.session = row.session /\ x.kind = row.kind
  BY DEF Row, Invalidated, Shared, Superseded, Stored

\* What a write stores is a row.
LEMMA FreshIsRow ==
    ASSUME NEW a \in Write
    PROVE  Fresh(a) \in Row
  BY DEF Write, Row, Fresh

\* A live memory is there.
LEMMA LiveIsThere ==
    ASSUME HygieneInv, NEW m \in Live
    PROVE  m \in Ids /\ memories[m] # None /\ memories[m] \in Row
  BY DEF HygieneInv, TypeOK, MemoriesTypeOK, Live, Written

\* A request that ends leaves nothing to get right.
LEMMA RequestEnds ==
    ASSUME HygieneInv, Evolves, NEW w \in Workers, Done(w)
    PROVE  RequestsOK
  BY RequestTaken, RestIsRight DEF Done

\* A tool loads the memory it will write back.
LEMMA LoadFragmentStep ==
    ASSUME HygieneInv, UNCHANGED <<queue, rev, job>>, NEW w \in Workers, LoadFragment(w)
    PROVE  TablesOK /\ RequestsOK
<1>1. PICK op \in {"share", "forget", "close"}, m \in Live :
        /\ Begin(w, op)
        /\ req' = [req EXCEPT ![w] =
                     [Idle EXCEPT !.op = op, !.step = "save", !.m = m,
                        !.snap = IF op = "share" THEN Shared(memories[m])
                                 ELSE Invalidated(memories[m])]]
        /\ UNCHANGED <<memories, rules, carrying, cards>>
  BY DEF LoadFragment
<1>2. TablesOK
  BY <1>1, TablesKept, CallsCounted DEF Begin
<1>3. m \in Ids /\ memories[m] # None /\ memories[m] \in Row
  BY LiveIsThere
<1>4. PICK snap \in Row :
        snap = IF op = "share" THEN Shared(memories[m]) ELSE Invalidated(memories[m])
  BY <1>3, RowsMade
<1>5. \A y \in Row :
        LET q == [Idle EXCEPT !.op = op, !.step = "save", !.m = m, !.snap = y]
        IN q \in Held /\ HeldOK(q, memories)
  BY <1>3 DEF Idle, Held, HeldOK
<1>6. \A y \in Row :
        req' = [req EXCEPT ![w] = [Idle EXCEPT !.op = op, !.step = "save", !.m = m, !.snap = y]]
          => RequestsOK
  BY <1>1, <1>2, <1>5, RequestTaken DEF TablesOK, ChangeOK
<1> QED BY <1>1, <1>2, <1>4, <1>6

\* A writer that saved goes on to its next target, or ends.
LEMMA SavedRight ==
    ASSUME HygieneInv, Evolves, NEW w \in Workers, req[w].step \in {"save", "carry"}, Saved(w)
    PROVE  RequestsOK
<1> DEFINE q == req[w]
           x == [q EXCEPT !.step = "target", !.m = None, !.snap = None]
<1>1. q \in Held /\ q.step \in {"save", "carry"} /\ HeldOK(q, memories)
  BY DEF HygieneInv, TypeOK, MemoriesTypeOK
<1>2. CASE q.todo = {}
  BY <1>2, RequestEnds DEF Saved, Done
<1>3. CASE q.todo # {}
  <2>1. req' = [req EXCEPT ![w] = x]
    BY <1>3 DEF Saved
  <2>2. x \in Held
    BY <1>1 DEF Held
  <2>3. x.step = "target" /\ x.to \in Ids
    BY <1>1, <1>3 DEF HeldOK, Held
  <2>4. HeldOK(x, memories')
    BY <2>3 DEF HeldOK
  <2> HIDE DEF x
  <2> QED BY <2>1, <2>2, <2>4, RequestTaken
<1> QED BY <1>2, <1>3

\* The memory is written back as it was loaded and changed.
LEMMA SaveStep ==
    ASSUME HygieneInv, UNCHANGED <<queue, rev, job>>, NEW w \in Workers, Save(w)
    PROVE  TablesOK /\ RequestsOK
<1> DEFINE q == req[w]
           row == Stored(memories[q.m], q.snap)
<1>1. /\ q \in Held /\ q.step = "save" /\ HeldOK(q, memories)
      /\ UpdateMemory(q.m, row) \/ Supersede(q.m, row)
      /\ UNCHANGED <<cards, calls>>
  BY DEF HygieneInv, TypeOK, MemoriesTypeOK, Save
<1>2. q.m \in Ids /\ memories[q.m] # None /\ memories[q.m] \in Row /\ q.snap \in Row
  BY <1>1 DEF HeldOK, HygieneInv, TypeOK, MemoriesTypeOK
<1>3. /\ row \in Row /\ row.rank = memories[q.m].rank
      /\ row.session = memories[q.m].session /\ row.kind = memories[q.m].kind
  BY <1>2, RowsMade
<1>4. ChangeOK
  <2> HIDE DEF row
  <2> QED BY <1>1, <1>2, <1>3, WriteSound
<1>5. TablesOK /\ Evolves
  BY <1>1, <1>4, TablesChanged
<1>6. CASE Saved(w)
  BY <1>1, <1>5, <1>6, SavedRight
<1>7. CASE req' = [req EXCEPT ![w].step = "carry"]
  <2> DEFINE x == [q EXCEPT !.step = "carry"]
  <2>1. x \in Held /\ x.step = "carry" /\ x.m = q.m /\ x.snap = q.snap /\ x.todo = q.todo /\ x.to = q.to
    BY <1>1 DEF Held
  <2>2. HeldOK(q, memories')
    BY <1>1, <1>5, HeldStays
  <2>3. req' = [req EXCEPT ![w] = x]
    BY <1>7
  <2> HIDE DEF x
  <2>4. HeldOK(x, memories')
    BY <1>1, <2>1, <2>2 DEF HeldOK
  <2> QED BY <1>5, <2>1, <2>3, <2>4, RequestTaken
<1> QED BY <1>5, <1>6, <1>7 DEF Save

\* The supersession of a writer is committed.
LEMMA CommitSaveStep ==
    ASSUME HygieneInv, UNCHANGED <<queue, rev, job>>, NEW w \in Workers, CommitSave(w)
    PROVE  TablesOK /\ RequestsOK
<1>1. req[w].step = "carry" /\ CommitSupersede(req[w].m) /\ Saved(w) /\ UNCHANGED <<cards, calls>>
  BY DEF CommitSave
<1>2. req[w].m \in Ids
  BY <1>1 DEF HygieneInv, HeldOK
<1>3. TablesOK /\ Evolves
  BY <1>1, <1>2, CommitSound, TablesChanged
<1> QED BY <1>1, <1>3, SavedRight

\* A remember is absorbed, or will be stored.
LEMMA ProbeStep ==
    ASSUME HygieneInv, UNCHANGED <<queue, rev, job>>, NEW w \in Workers, Probe(w)
    PROVE  TablesOK /\ RequestsOK
<1>1. PICK a \in Writes, targets \in SUBSET Written :
        /\ Begin(w, "remember")
        /\ \/ \E near \in Live, exact \in BOOLEAN :
                LET left == Declared(a, targets) \ {near}
                IN req' = [req EXCEPT ![w] =
                             IF left = {} THEN Idle
                             ELSE [Idle EXCEPT !.op = "remember", !.step = "target",
                                     !.to = near, !.todo = left]]
           \/ \E refined \in {{}} \cup {{n} : n \in {n \in Live : SameSession(a, memories[n])}} :
                req' = [req EXCEPT ![w] =
                          [Idle EXCEPT !.op = "remember", !.step = "insert", !.new = a,
                             !.todo = Declared(a, targets) \cup refined]]
        /\ UNCHANGED <<memories, rules, carrying, cards>>
  BY DEF Probe
<1>2. TablesOK
  BY <1>1, TablesKept, CallsCounted DEF Begin
<1>3. Evolves
  BY <1>2 DEF TablesOK, ChangeOK
<1>4. a \in Write
  BY CorporaFit
<1>5. targets \in SUBSET Ids /\ Declared(a, targets) \in SUBSET Ids
  BY DEF Written, Declared
<1>6. ASSUME NEW near \in Live, NEW left \in SUBSET Ids,
             req' = [req EXCEPT ![w] =
                       [Idle EXCEPT !.op = "remember", !.step = "target",
                                    !.to = near, !.todo = left]]
      PROVE  RequestsOK
  <2> DEFINE x == [Idle EXCEPT !.op = "remember", !.step = "target",
                               !.to = near, !.todo = left]
  <2>1. x \in Held /\ HeldOK(x, memories')
    BY LiveIsThere DEF Idle, Held, HeldOK
  <2> HIDE DEF x
  <2> QED BY <1>3, <1>6, <2>1, RequestTaken DEF x
<1>7. ASSUME NEW todo \in SUBSET Ids,
             req' = [req EXCEPT ![w] =
                       [Idle EXCEPT !.op = "remember", !.step = "insert", !.new = a,
                                    !.todo = todo]]
      PROVE  RequestsOK
  <2> DEFINE x == [Idle EXCEPT !.op = "remember", !.step = "insert", !.new = a, !.todo = todo]
  <2>1. x \in Held /\ HeldOK(x, memories')
    BY <1>4 DEF Idle, Held, HeldOK
  <2> HIDE DEF x
  <2> QED BY <1>3, <1>7, <2>1, RequestTaken DEF x
<1>8. CASE \E near \in Live, exact \in BOOLEAN :
                LET left == Declared(a, targets) \ {near}
                IN req' = [req EXCEPT ![w] =
                             IF left = {} THEN Idle
                             ELSE [Idle EXCEPT !.op = "remember", !.step = "target",
                                     !.to = near, !.todo = left]]
  <2>1. PICK near \in Live :
           req' = [req EXCEPT ![w] =
                     IF Declared(a, targets) \ {near} = {} THEN Idle
                     ELSE [Idle EXCEPT !.op = "remember", !.step = "target",
                             !.to = near, !.todo = Declared(a, targets) \ {near}]]
    BY <1>8
  <2>2. CASE Declared(a, targets) \ {near} = {}
    BY <1>2, <1>3, <2>1, <2>2, RequestEnds DEF Done
  <2>3. CASE Declared(a, targets) \ {near} # {}
    <3>1. Declared(a, targets) \ {near} \in SUBSET Ids
      BY <1>5
    <3> QED BY <1>2, <1>6, <2>1, <2>3, <3>1
  <2> QED BY <2>2, <2>3
<1>9. CASE \E refined \in {{}} \cup {{n} : n \in {n \in Live : SameSession(a, memories[n])}} :
                req' = [req EXCEPT ![w] =
                          [Idle EXCEPT !.op = "remember", !.step = "insert", !.new = a,
                             !.todo = Declared(a, targets) \cup refined]]
  <2>1. PICK refined \in SUBSET Live :
                req' = [req EXCEPT ![w] =
                          [Idle EXCEPT !.op = "remember", !.step = "insert", !.new = a,
                             !.todo = Declared(a, targets) \cup refined]]
    BY <1>9
  <2>2. Declared(a, targets) \cup refined \in SUBSET Ids
    BY <1>5 DEF Live, Written
  <2> QED BY <1>2, <1>7, <2>1, <2>2
<1> QED BY <1>1, <1>8, <1>9

\* The new memory is stored.
LEMMA InsertStep ==
    ASSUME HygieneInv, UNCHANGED <<queue, rev, job>>, NEW w \in Workers, Insert(w)
    PROVE  TablesOK /\ RequestsOK
<1> DEFINE q == req[w]
<1>1. q \in Held /\ q.step = "insert" /\ q.new \in Write
  BY DEF HygieneInv, TypeOK, MemoriesTypeOK, Insert, HeldOK
<1>2. PICK m \in Ids :
         /\ Written = 1..(m - 1)
         /\ memories' = [memories EXCEPT ![m] = Fresh(q.new)]
         /\ \/ Done(w)
            \/ /\ q.todo # {}
               /\ req' = [req EXCEPT ![w] = [q EXCEPT !.step = "target", !.to = m, !.new = None]]
  BY DEF Insert
<1>3. m \notin Written
  BY <1>2 DEF Ids
<1>4. memories \in [Ids -> Row \cup {None}] /\ memories[m] = None
  BY <1>3 DEF Written, HygieneInv, TypeOK, MemoriesTypeOK
<1>5. Fresh(q.new) \in Row
  BY <1>1, FreshIsRow
<1>6. memories' \in [Ids -> Row \cup {None}] /\ Evolves
  BY <1>2, <1>4, <1>5 DEF Evolves
<1>7. UNCHANGED <<rules, carrying, cards, calls, queue>>
  BY DEF Insert
<1>8. carrying' \in [Ids -> Carry \cup {None}] /\ CarriesOK' /\ CarriesApart'
  <2>1. \A x \in LockedMemories : memories[x] # None => memories'[x] = memories[x]
    BY <1>2, <1>4
  <2> QED BY <1>7, <2>1, CarriesKept
<1>9. TablesOK
  <2>1. RulesStayOrMove /\ SettledRulesStay
    BY <1>7 DEF RulesStayOrMove, SettledRulesStay, PromotedRules
  <2> QED BY <1>6, <1>7, <1>8, <2>1 DEF TablesOK, ChangeOK, HygieneInv, TypeOK, MemoriesTypeOK,
          RulesApart, Grows, DecisionsStand
<1>10. CASE Done(w)
  BY <1>6, <1>9, <1>10, RequestEnds
<1>11. CASE req' = [req EXCEPT ![w] = [q EXCEPT !.step = "target", !.to = m, !.new = None]]
  <2> DEFINE x == [q EXCEPT !.step = "target", !.to = m, !.new = None]
  <2>1. x \in Held /\ x.step = "target" /\ x.to = m
    BY <1>1 DEF Held
  <2>2. HeldOK(x, memories')
    BY <2>1 DEF HeldOK
  <2> HIDE DEF x
  <2> QED BY <1>6, <1>9, <1>11, <2>1, <2>2, RequestTaken DEF x
<1> QED BY <1>2, <1>10, <1>11

\* A memory the write supersedes is loaded, or skipped.
LEMMA LoadTargetStep ==
    ASSUME HygieneInv, UNCHANGED <<queue, rev, job>>, NEW w \in Workers, LoadTarget(w)
    PROVE  TablesOK /\ RequestsOK
<1> DEFINE q == req[w]
<1>1. q \in Held /\ q.step = "target" /\ q.to \in Ids
  BY DEF HygieneInv, TypeOK, MemoriesTypeOK, LoadTarget, HeldOK
<1>2. UNCHANGED <<memories, rules, carrying, cards, calls>>
  BY DEF LoadTarget
<1>3. TablesOK
  BY <1>2, TablesKept DEF HygieneInv, TypeOK, MemoriesTypeOK
<1>4. Evolves
  BY <1>3 DEF TablesOK, ChangeOK
<1>5. PICK t \in q.todo :
         IF t \in Live \ {q.to}
         THEN req' = [req EXCEPT ![w] =
                        [q EXCEPT !.step = "save", !.m = t, !.todo = q.todo \ {t},
                                  !.snap = Superseded(memories[t], q.to)]]
         ELSE req' = [req EXCEPT ![w] =
                        IF q.todo \ {t} = {} THEN Idle ELSE [q EXCEPT !.todo = q.todo \ {t}]]
  BY DEF LoadTarget
<1>6. CASE t \in Live \ {q.to}
  <2> DEFINE snap == Superseded(memories[t], q.to)
             x == [q EXCEPT !.step = "save", !.m = t, !.todo = q.todo \ {t}, !.snap = snap]
  <2>1. t \in Ids /\ memories[t] # None /\ memories[t] \in Row
    BY <1>6, LiveIsThere
  <2>2. snap \in Row
    BY <1>1, <2>1, RowsMade
  <2> HIDE DEF snap
  <2>3. x \in Held
    BY <1>1, <2>1, <2>2 DEF Held
  <2>4. x.m = t /\ x.snap = snap /\ x.to = q.to /\ x.step = "save"
    BY <1>1 DEF Held
  <2>5. HeldOK(x, memories')
    BY <1>1, <1>2, <2>1, <2>2, <2>4 DEF HeldOK
  <2>6. req' = [req EXCEPT ![w] = x]
    BY <1>5, <1>6 DEF snap
  <2> HIDE DEF x
  <2> QED BY <1>3, <1>4, <2>3, <2>5, <2>6, RequestTaken
<1>7. CASE t \notin Live \ {q.to}
  <2>1. CASE q.todo \ {t} = {}
    BY <1>3, <1>4, <1>5, <1>7, <2>1, RequestEnds DEF Done
  <2>2. CASE q.todo \ {t} # {}
    <3> DEFINE x == [q EXCEPT !.todo = q.todo \ {t}]
    <3>1. x \in Held /\ x.step = "target" /\ x.to = q.to
      BY <1>1 DEF Held
    <3>2. HeldOK(x, memories')
      BY <1>1, <3>1 DEF HeldOK
    <3>3. req' = [req EXCEPT ![w] = x]
      BY <1>5, <1>7, <2>2
    <3> HIDE DEF x
    <3> QED BY <1>3, <1>4, <3>1, <3>2, <3>3, RequestTaken
  <2> QED BY <2>1, <2>2
<1> QED BY <1>6, <1>7

\* A request that fails goes no further.
LEMMA FailsStep ==
    ASSUME HygieneInv, UNCHANGED <<queue, rev, job>>, NEW w \in Workers, Fails(w)
    PROVE  TablesOK /\ RequestsOK
<1>1. /\ UNCHANGED <<memories, rules, cards, calls>>
      /\ Done(w) \/ (req[w].step \in {"save", "carry"} /\ Saved(w))
  BY DEF Fails
<1>2. TablesOK /\ Evolves
  <2>1. CASE req[w].step = "carry"
    <3>1. req[w].m \in Ids /\ RollBack(req[w].m)
      BY <2>1 DEF HygieneInv, HeldOK, Fails
    <3> QED BY <1>1, <3>1, RollBackSound, TablesChanged
  <2>2. CASE req[w].step # "carry"
    <3>1. UNCHANGED carrying
      BY <2>2 DEF Fails
    <3>2. TablesOK
      BY <1>1, <3>1, TablesKept DEF HygieneInv, TypeOK, MemoriesTypeOK
    <3> QED BY <3>2 DEF TablesOK, ChangeOK
  <2> QED BY <2>1, <2>2
<1> QED BY <1>1, <1>2, RequestEnds, SavedRight

\* The row of a live or a retired memory, new or not, is promoted.
LEMMA PromotedStep ==
    ASSUME HygieneInv, UNCHANGED <<memories, carrying, cards, queue>>, calls' \in 0..MaxCalls,
           NEW m \in Ids, Promoted(m)
    PROVE  TablesOK
<1>1. CASE RulesOn(m) # {}
  <2>1. RulesOn(m) \in SUBSET RuleIds /\ \A i \in RulesOn(m) : rules[i] # None
    BY DEF RulesOn
  <2>2. /\ RulesOn(m) \cap LockedRules = {}
        /\ rules' = [i \in RuleIds |-> IF i \in RulesOn(m)
                                      THEN [rules[i] EXCEPT !.status = "promoted"] ELSE rules[i]]
    BY <1>1 DEF Promoted
  <2>3. "promoted" \in RuleStatus
    BY DEF RuleStatus
  <2> QED BY <2>1, <2>2, <2>3, StatusSet
<1>2. CASE RulesOn(m) = {}
  <2>1. PICK i \in RuleIds : /\ rules[i] = None
                             /\ rules' = [rules EXCEPT ![i] = [memory |-> m, status |-> "promoted"]]
    BY <1>2 DEF Promoted
  <2>2. [memory |-> m, status |-> "promoted"] \in RuleRow
    BY DEF RuleRow, RuleStatus
  <2> DEFINE x == [memory |-> m, status |-> "promoted"]
  <2>3. x.memory = m /\ rules' = [rules EXCEPT ![i] = x]
    BY <2>1
  <2>4. x \in RuleRow
    BY <2>2
  <2> HIDE DEF x
  <2> QED BY <1>2, <2>1, <2>3, <2>4, RuleSet
<1> QED BY <1>1, <1>2

\* promote_rule reads a live memory.
LEMMA PromoteOnDemandStep ==
    ASSUME HygieneInv, UNCHANGED <<queue, rev, job>>, NEW w \in Workers, PromoteOnDemand(w)
    PROVE  TablesOK /\ RequestsOK
<1>1. PICK m \in Live :
        /\ Begin(w, "promote_rule")
        /\ req' = [req EXCEPT ![w] = [Idle EXCEPT !.op = "promote_rule",
                                        !.step = "existing", !.m = m]]
        /\ UNCHANGED <<memories, rules, carrying, cards>>
  BY DEF PromoteOnDemand
<1>2. TablesOK
  BY <1>1, TablesKept, CallsCounted DEF Begin
<1> DEFINE x == [Idle EXCEPT !.op = "promote_rule", !.step = "existing", !.m = m]
<1>3. x \in Held /\ HeldOK(x, memories')
  BY LiveIsThere DEF Idle, Held, HeldOK
<1> HIDE DEF x
<1> QED BY <1>1, <1>2, <1>3, RequestTaken DEF x, TablesOK, ChangeOK

\* The dashboard's promotion reads one too.
LEMMA PromoteMemoryToRuleStep ==
    ASSUME HygieneInv, UNCHANGED <<queue, rev, job>>, NEW w \in Workers, PromoteMemoryToRule(w)
    PROVE  TablesOK /\ RequestsOK
<1>1. PICK m \in Live :
        /\ Begin(w, "review_rules")
        /\ req' = [req EXCEPT ![w] = [Idle EXCEPT !.op = "review_rules",
                                        !.step = "existing", !.m = m]]
        /\ UNCHANGED <<memories, rules, carrying, cards>>
  BY DEF PromoteMemoryToRule
<1>2. TablesOK
  BY <1>1, TablesKept, CallsCounted DEF Begin
<1> DEFINE x == [Idle EXCEPT !.op = "review_rules", !.step = "existing", !.m = m]
<1>3. x \in Held /\ HeldOK(x, memories')
  BY LiveIsThere DEF Idle, Held, HeldOK
<1> HIDE DEF x
<1> QED BY <1>1, <1>2, <1>3, RequestTaken DEF x, TablesOK, ChangeOK

\* promote_rule reads the candidacy of its memory.
LEMMA ReadCandidacyStep ==
    ASSUME HygieneInv, UNCHANGED <<queue, rev, job>>, NEW w \in Workers, ReadCandidacy(w)
    PROVE  TablesOK /\ RequestsOK
<1>1. TablesOK
  BY TablesKept DEF ReadCandidacy, HygieneInv, TypeOK, MemoriesTypeOK
<1>2. CASE Done(w)
  BY <1>1, <1>2, RequestEnds DEF TablesOK, ChangeOK
<1>3. CASE req' = [req EXCEPT ![w] = [@ EXCEPT !.step = "upsert"]]
  <2> DEFINE x == [req[w] EXCEPT !.step = "upsert"]
  <2>1. req[w] \in Held /\ req[w].m \in Ids
    BY DEF HygieneInv, TypeOK, MemoriesTypeOK, ReadCandidacy, HeldOK
  <2>2. x \in Held /\ x.step = "upsert" /\ x.m \in Ids
    BY <2>1 DEF Held
  <2>3. HeldOK(x, memories')
    BY <2>2 DEF HeldOK
  <2>4. req' = [req EXCEPT ![w] = x]
    BY <1>3
  <2> HIDE DEF x
  <2> QED BY <1>1, <2>2, <2>3, <2>4, RequestTaken DEF TablesOK, ChangeOK
<1> QED BY <1>2, <1>3 DEF ReadCandidacy

\* promote_rule upserts the rule.
LEMMA UpsertRuleStep ==
    ASSUME HygieneInv, UNCHANGED <<queue, rev, job>>, NEW w \in Workers, UpsertRule(w)
    PROVE  TablesOK /\ RequestsOK
<1>1. req[w].m \in Ids
  BY DEF HygieneInv, TypeOK, MemoriesTypeOK, UpsertRule, HeldOK
<1>2. TablesOK
  BY <1>1, PromotedStep DEF UpsertRule, HygieneInv, TypeOK, MemoriesTypeOK
<1> QED BY <1>2, RequestEnds DEF UpsertRule, TablesOK, ChangeOK

\* The incubator wakes snoozed rows and picks a memory.
LEMMA DetectRulesStep ==
    ASSUME HygieneInv, UNCHANGED <<queue, rev, job>>, NEW w \in Workers, DetectRules(w)
    PROVE  TablesOK /\ RequestsOK
<1>1. PICK woken \in {{}, {i \in RuleIds : rules[i] # None /\ rules[i].status = "snoozed"}},
           m \in {m \in Live : memories[m].kind = "decision" /\ RulesOn(m) = {}} :
        /\ Begin(w, "incubate")
        /\ woken \cap LockedRules = {}
        /\ rules' = [i \in RuleIds |-> IF i \in woken THEN [rules[i] EXCEPT !.status = "pending"]
                                       ELSE rules[i]]
        /\ req' = [req EXCEPT ![w] = [Idle EXCEPT !.op = "incubate", !.step = "enqueue", !.m = m]]
        /\ UNCHANGED <<memories, carrying, cards>>
  BY DEF DetectRules
<1>2. woken \in SUBSET RuleIds /\ \A i \in woken : rules[i] # None
  OBVIOUS
<1>3. calls' \in 0..MaxCalls /\ "pending" \in RuleStatus
  BY <1>1, CallsCounted DEF Begin, RuleStatus
<1>4. TablesOK
  BY <1>1, <1>2, <1>3, StatusSet
<1> DEFINE x == [Idle EXCEPT !.op = "incubate", !.step = "enqueue", !.m = m]
<1>5. x \in Held /\ HeldOK(x, memories')
  BY LiveIsThere DEF Idle, Held, HeldOK
<1> HIDE DEF x
<1> QED BY <1>1, <1>4, <1>5, RequestTaken DEF x, TablesOK, ChangeOK

\* The incubator inserts a candidacy where there is none.
LEMMA InsertCandidateStep ==
    ASSUME HygieneInv, UNCHANGED <<queue, rev, job>>, NEW w \in Workers, InsertCandidate(w)
    PROVE  TablesOK /\ RequestsOK
<1> DEFINE q == req[w]
<1>1. q \in Held /\ q.m \in Ids
  BY DEF HygieneInv, TypeOK, MemoriesTypeOK, InsertCandidate, HeldOK
<1>2. CASE RulesOn(q.m) # {}
  <2>1. TablesOK
    BY <1>2, TablesKept DEF InsertCandidate, HygieneInv, TypeOK, MemoriesTypeOK
  <2> QED BY <1>2, <2>1, RequestEnds DEF InsertCandidate, TablesOK, ChangeOK
<1>3. CASE RulesOn(q.m) = {}
  <2>1. PICK i \in RuleIds :
          /\ rules[i] = None
          /\ rules' = [rules EXCEPT ![i] = [memory |-> q.m, status |-> "pending"]]
          /\ req' = [req EXCEPT ![w] = [q EXCEPT !.step = "distil", !.rule = i]]
    BY <1>3 DEF InsertCandidate
  <2>2. [memory |-> q.m, status |-> "pending"] \in RuleRow
    BY <1>1 DEF RuleRow, RuleStatus
  <2>3. UNCHANGED <<memories, carrying, cards, queue>> /\ calls' \in 0..MaxCalls
    BY DEF InsertCandidate, HygieneInv, TypeOK, MemoriesTypeOK
  <2>4. TablesOK
    <3> DEFINE y == [memory |-> q.m, status |-> "pending"]
    <3>1. y.memory = q.m /\ y \in RuleRow /\ rules' = [rules EXCEPT ![i] = y]
      BY <2>1, <2>2
    <3> HIDE DEF y
    <3> QED BY <1>3, <2>1, <2>3, <3>1, RuleSet
  <2> DEFINE x == [q EXCEPT !.step = "distil", !.rule = i]
  <2>5. x \in Held /\ x.step = "distil" /\ x.rule = i
    BY <1>1 DEF Held
  <2>6. HeldOK(x, memories')
    BY <2>5 DEF HeldOK
  <2> HIDE DEF x
  <2> QED BY <2>1, <2>4, <2>5, <2>6, RequestTaken DEF x, TablesOK, ChangeOK
<1> QED BY <1>2, <1>3

\* One rule takes another status.
LEMMA OneStatusSet ==
    ASSUME HygieneInv, UNCHANGED <<memories, carrying, cards, queue>>, calls' \in 0..MaxCalls,
           NEW i \in RuleIds, rules[i] # None, i \notin LockedRules,
           NEW status \in RuleStatus,
           rules' = [rules EXCEPT ![i].status = status]
    PROVE  TablesOK
<1> DEFINE x == [rules[i] EXCEPT !.status = status]
<1>1. rules[i] \in RuleRow
  BY DEF HygieneInv, TypeOK, MemoriesTypeOK
<1>2. x \in RuleRow /\ x.memory = rules[i].memory
  BY <1>1 DEF RuleRow
<1>3. rules' = [rules EXCEPT ![i] = x]
  OBVIOUS
<1> HIDE DEF x
<1> QED BY <1>2, <1>3, RuleSet

\* The incubator keeps or dismisses the row of its draft.
LEMMA DistilStep ==
    ASSUME HygieneInv, UNCHANGED <<queue, rev, job>>, NEW w \in Workers, Distil(w)
    PROVE  TablesOK /\ RequestsOK
<1>1. req[w].rule \in RuleIds
  BY DEF HygieneInv, TypeOK, MemoriesTypeOK, Distil, HeldOK
<1>2. UNCHANGED <<memories, carrying, cards, queue>> /\ calls' \in 0..MaxCalls
  BY DEF Distil, HygieneInv, TypeOK, MemoriesTypeOK
<1>3. CASE rules' = rules
  <2>1. TablesOK
    BY <1>2, <1>3, TablesKept
  <2> QED BY <2>1, RequestEnds DEF Distil, TablesOK, ChangeOK
<1>4. CASE /\ rules[req[w].rule] # None /\ req[w].rule \notin LockedRules
           /\ rules' = [rules EXCEPT ![req[w].rule].status = "dismissed"]
  <2>1. "dismissed" \in RuleStatus
    BY DEF RuleStatus
  <2>2. TablesOK
    BY <1>1, <1>2, <1>4, <2>1, OneStatusSet
  <2> QED BY <2>2, RequestEnds DEF Distil, TablesOK, ChangeOK
<1> QED BY <1>3, <1>4 DEF Distil

\* The rules page changes one row.
LEMMA ReviewRuleStep ==
    ASSUME HygieneInv, UNCHANGED <<queue, rev, job>>, ReviewRule
    PROVE  TablesOK /\ RequestsOK
<1>1. UNCHANGED <<memories, carrying, cards, queue, req>> /\ calls' \in 0..MaxCalls
  BY CallsCounted DEF ReviewRule
<1>2. PICK i \in RuleIds :
         /\ rules[i] # None /\ i \notin LockedRules
         /\ \/ \E s \in RuleStatus : ResolveRuleCandidate(i, s)
            \/ RevokeRuleCandidate(i)
            \/ DeleteRuleCandidate(i)
  BY DEF ReviewRule
<1>3. CASE \/ \E s \in RuleStatus : ResolveRuleCandidate(i, s)
           \/ RevokeRuleCandidate(i)
  <2>1. PICK s \in RuleStatus : rules' = [rules EXCEPT ![i].status = s]
    BY <1>3 DEF ResolveRuleCandidate, RevokeRuleCandidate, RuleStatus
  <2>2. TablesOK
    BY <1>1, <1>2, <2>1, OneStatusSet
  <2> QED BY <1>1, <2>2, RequestsKept DEF TablesOK, ChangeOK
<1>4. CASE DeleteRuleCandidate(i)
  <2>1. TablesOK
    BY <1>1, <1>2, <1>4, RuleSet DEF DeleteRuleCandidate
  <2> QED BY <1>1, <2>1, RequestsKept DEF TablesOK, ChangeOK
<1> QED BY <1>2, <1>3, <1>4

\* A loop becomes a card.
LEMMA PromoteLoopStep ==
    ASSUME HygieneInv, UNCHANGED <<queue, rev, job>>, PromoteLoop
    PROVE  TablesOK /\ RequestsOK
<1>1. calls' \in 0..MaxCalls
  BY CallsCounted DEF PromoteLoop
<1>2. cards' \subseteq Ids
  BY DEF PromoteLoop, Live, Written, HygieneInv, TypeOK, MemoriesTypeOK
<1>3. UNCHANGED <<memories, rules, carrying, req, queue>>
  BY DEF PromoteLoop
<1>4. carrying' \in [Ids -> Carry \cup {None}] /\ CarriesOK' /\ CarriesApart'
  BY <1>3, CarriesKept
<1>5. TablesOK
  BY <1>1, <1>2, <1>3, <1>4 DEF TablesOK, ChangeOK, HygieneInv, TypeOK, MemoriesTypeOK, RulesApart,
     Evolves, Grows, RulesStayOrMove, SettledRulesStay, DecisionsStand
<1> QED BY <1>3, <1>5, RequestsKept DEF TablesOK, ChangeOK

\* Every step of Memories.
LEMMA MemoriesStep ==
    ASSUME HygieneInv, UNCHANGED <<queue, rev, job>>, MemoriesNext
    PROVE  TablesOK /\ RequestsOK
<1>1. ASSUME NEW w \in Workers, Request(w)
      PROVE  TablesOK /\ RequestsOK
  BY <1>1, LoadFragmentStep, SaveStep, CommitSaveStep, ProbeStep, InsertStep, LoadTargetStep, FailsStep,
     PromoteOnDemandStep, PromoteMemoryToRuleStep, ReadCandidacyStep, UpsertRuleStep, DetectRulesStep,
     InsertCandidateStep, DistilStep DEF Request
<1> QED BY <1>1, ReviewRuleStep, PromoteLoopStep DEF MemoriesNext

-----------------------------------------------------------------------------
(* The scanner's decision *)

\* The newer, the higher and the other side are sides of the pair.
LEMMA PickedSide ==
    ASSUME NEW a \in Sides, NEW b \in Sides, a.id # b.id
    PROVE  /\ Newer(a, b) \in {a, b}
           /\ Higher(a, b) \in {a, b}
           /\ \A w \in {a, b} : /\ Other(a, b, w) \in {a, b}
                                /\ Other(a, b, w) # w
                                /\ {w.id, Other(a, b, w).id} = {a.id, b.id}
                                /\ w.id # Other(a, b, w).id
           /\ Newer(a, b).id > Other(a, b, Newer(a, b)).id
  BY DEF Newer, Higher, Other, Sides, Ids

\* What the session rule retires is the older of two authoritative writes.
LEMMA CollapseSound ==
    ASSUME HygieneInv, NEW a \in Sides, NEW b \in Sides, a.id # b.id,
           NEW act \in Collapses(a, b)
    PROVE  /\ act.win \in Ids /\ act.lose \in Ids
           /\ {act.win, act.lose} = {a.id, b.id}
           /\ SameSession(memories[act.win], memories[act.lose])
           /\ act.win > act.lose
<1>1. /\ SameSession(memories[a.id], memories[b.id])
      /\ act = Retire(Newer(a, b), Other(a, b, Newer(a, b)))
  BY DEF Collapses
<1> DEFINE w == Newer(a, b)
           l == Other(a, b, w)
<1>2. /\ w \in {a, b} /\ l \in {a, b} /\ w # l /\ {w.id, l.id} = {a.id, b.id} /\ w.id > l.id
  BY PickedSide
<1>3. act.win = w.id /\ act.lose = l.id
  BY <1>1 DEF Retire
<1>4. SameSession(memories[w.id], memories[l.id])
  BY <1>1, <1>2 DEF SameSession
<1>5. w.id \in Ids /\ l.id \in Ids
  BY <1>2 DEF Sides
<1> QED BY <1>2, <1>3, <1>4, <1>5

\* What the judge's verdict retires is provisional, or is an authoritative
\* memory of an unprotected kind that an authoritative one replaces.
LEMMA DecisionSound ==
    ASSUME HygieneInv, NEW a \in Sides, NEW b \in Sides, a.id # b.id,
           SideOK(a, memories), SideOK(b, memories),
           NEW relation, NEW sure \in BOOLEAN,
           DecideAction(relation, sure, a, b).kind = "retire"
    PROVE  LET act == DecideAction(relation, sure, a, b) IN
           /\ act.win \in Ids /\ act.lose \in Ids
           /\ {act.win, act.lose} = {a.id, b.id}
           /\ memories[act.lose].rank > 0 =>
                 memories[act.win].rank > 0 /\ memories[act.lose].kind # "decision"
<1> DEFINE act == DecideAction(relation, sure, a, b)
           oneProvisional == RankOf(a) # RankOf(b) /\ (RankOf(a) = 0 \/ RankOf(b) = 0)
           bothProvisional == RankOf(a) = 0 /\ RankOf(b) = 0
           twin == IF RankOf(a) # RankOf(b) THEN Higher(a, b) ELSE Newer(a, b)
           winner == CASE relation = "duplicate" -> twin
                       [] relation = "a_supersedes_b" -> a
                       [] OTHER -> b
<1>1. a.id \in Ids /\ b.id \in Ids /\ RankOf(a) \in 0..2 /\ RankOf(b) \in 0..2
  BY DEF Sides, SideOK, RankOf, HygieneInv, TypeOK, MemoriesTypeOK, Row, Ranks
<1>2. \A w \in {a, b}, l \in {a, b} :
        /\ Retire(w, l).win = w.id /\ Retire(w, l).lose = l.id
        /\ memories[w.id].rank = RankOf(w) /\ memories[l.id].rank = RankOf(l)
        /\ memories[l.id].kind = "decision" => l.kind = "decision"
  BY DEF Retire, RankOf, SideOK
<1>3. Skip.kind # "retire" /\ Queue.kind # "retire"
  BY DEF Skip, Queue
<1>4. relation # "complementary"
  BY <1>3 DEF DecideAction
<1>5. CASE oneProvisional
  <2> DEFINE w == Higher(a, b)
             l == Other(a, b, w)
  <2>1. act = Retire(w, l)
    BY <1>4, <1>5 DEF DecideAction
  <2>2. w \in {a, b} /\ l \in {a, b} /\ {w.id, l.id} = {a.id, b.id}
    BY PickedSide
  <2>3. RankOf(l) = 0
    BY <1>1, <1>5 DEF Higher, Other
  <2>4. act.win = w.id /\ act.lose = l.id /\ memories[l.id].rank = 0
    BY <1>2, <2>1, <2>2, <2>3
  <2>5. w.id \in Ids /\ l.id \in Ids
    BY <1>1, <2>2
  <2> HIDE DEF act, w, l
  <2> QED BY <2>2, <2>4, <2>5 DEF act
<1>6. CASE ~oneProvisional /\ bothProvisional
  <2> DEFINE w == Newer(a, b)
             l == Other(a, b, w)
  <2>1. act = Retire(w, l)
    BY <1>4, <1>6 DEF DecideAction
  <2>2. w \in {a, b} /\ l \in {a, b} /\ {w.id, l.id} = {a.id, b.id}
    BY PickedSide
  <2>3. RankOf(l) = 0
    BY <1>6, <2>2
  <2>4. act.win = w.id /\ act.lose = l.id /\ memories[l.id].rank = 0
    BY <1>2, <2>1, <2>2, <2>3
  <2>5. w.id \in Ids /\ l.id \in Ids
    BY <1>1, <2>2
  <2> HIDE DEF act, w, l
  <2> QED BY <2>2, <2>4, <2>5 DEF act
<1>7. CASE ~oneProvisional /\ ~bothProvisional
  <2> DEFINE w == winner
             l == Other(a, b, w)
  <2>1. act = IF relation = "contradiction" \/ ~sure \/ ProtectedLoser(l)
              THEN Queue ELSE Retire(w, l)
    BY <1>4, <1>7 DEF DecideAction
  <2>2. act = Retire(w, l) /\ ~ProtectedLoser(l)
    BY <1>3, <2>1
  <2>3. w \in {a, b}
    BY PickedSide
  <2> HIDE DEF winner, twin
  <2>4. l \in {a, b} /\ {w.id, l.id} = {a.id, b.id}
    BY <2>3, PickedSide
  <2>5. RankOf(w) > 0 /\ RankOf(l) > 0
    BY <1>1, <1>7, <2>3, <2>4
  <2>6. l.kind # "decision"
    BY <2>2, <2>5 DEF ProtectedLoser
  <2>7. /\ act.win = w.id /\ act.lose = l.id
        /\ memories[w.id].rank > 0 /\ memories[l.id].kind # "decision"
    BY <1>2, <2>2, <2>3, <2>4, <2>5, <2>6
  <2>8. w.id \in Ids /\ l.id \in Ids
    BY <1>1, <2>3, <2>4
  <2> HIDE DEF act, w, l
  <2> QED BY <2>4, <2>7, <2>8 DEF act
<1> QED BY <1>5, <1>6, <1>7

\* Whatever a comparison comes to, it retires one side for the other, by the
\* session rule or by a verdict that may.
LEMMA OutcomeSound ==
    ASSUME HygieneInv, NEW a \in Sides, NEW b \in Sides, a.id # b.id,
           SideOK(a, memories), SideOK(b, memories), NEW op,
           NEW act \in Outcomes(op, a, b), act.kind = "retire"
    PROVE  /\ act.win \in Ids /\ act.lose \in Ids
           /\ {act.win, act.lose} = {a.id, b.id}
           /\ memories[act.lose].rank > 0 => memories[act.win].rank > 0
           /\ \/ memories[act.lose].rank > 0 /\ memories[act.lose].kind = "decision"
              \/ op \in {"retro", "offer"}
              => SameSession(memories[act.win], memories[act.lose]) /\ act.win > act.lose
<1>1. CASE act \in Collapses(a, b)
  <2>1. SameSession(memories[act.win], memories[act.lose]) => memories[act.win].rank > 0
    BY DEF SameSession
  <2> QED BY <1>1, <2>1, CollapseSound
<1>2. CASE act \in Judged(op, a, b)
  <2>1. op # "offer"
    BY <1>2 DEF Judged, Queue
  <2>2. op # "retro"
    BY <1>2 DEF Judged, QueueInstead, Queue
  <2>3. PICK relation \in Relations, sure \in BOOLEAN :
           act = ProtectPromotedLoop(DecideAction(relation, sure, a, b))
    BY <1>2, <2>1, <2>2 DEF Judged
  <2>4. act = DecideAction(relation, sure, a, b)
    BY <2>3 DEF ProtectPromotedLoop, QueueInstead, Queue
  <2>5. DecideAction(relation, sure, a, b).kind = "retire"
    BY <2>4
  <2>6. /\ act.win \in Ids /\ act.lose \in Ids
        /\ {act.win, act.lose} = {a.id, b.id}
        /\ memories[act.lose].rank > 0 =>
              memories[act.win].rank > 0 /\ memories[act.lose].kind # "decision"
    BY <2>4, <2>5, DecisionSound
  <2> QED BY <2>1, <2>2, <2>6
<1>3. CASE act = Skip
  BY <1>3 DEF Skip
<1> QED BY <1>1, <1>2, <1>3 DEF Outcomes

\* A comparison comes to one of three things.
LEMMA OutcomeKinds ==
    ASSUME NEW a, NEW b, NEW op, NEW act \in Outcomes(op, a, b)
    PROVE  act.kind \in {"skip", "queue", "retire"}
<1>1. ASSUME NEW relation, NEW sure
      PROVE  DecideAction(relation, sure, a, b).kind \in {"skip", "queue", "retire"}
  BY DEF DecideAction, Skip, Queue, Retire
<1>2. \A x : x.kind \in {"skip", "queue", "retire"} =>
        /\ QueueInstead(x).kind \in {"skip", "queue", "retire"}
        /\ ProtectPromotedLoop(x).kind \in {"skip", "queue", "retire"}
  BY DEF QueueInstead, ProtectPromotedLoop, Queue
<1>3. Skip.kind = "skip" /\ Queue.kind = "queue"
  BY DEF Skip, Queue
<1>4. CASE act \in Collapses(a, b)
  BY <1>4 DEF Collapses, Retire
<1>5. CASE act \in Judged(op, a, b)
  BY <1>1, <1>2, <1>3, <1>5 DEF Judged
<1> QED BY <1>3, <1>4, <1>5 DEF Outcomes

-----------------------------------------------------------------------------
(* The runs of the scanner *)

\* A run that is done with a candidate goes on to the next, to the next
\* subject, or ends.
LEMMA OnwardRight ==
    ASSUME NEW M, NEW Q, NEW w \in Runs,
           \A s \in w.subjects \cup w.near : SideOK(s, M),
           \A k \in w.known : Q[k] # "none",
           w.near # {} =>
              /\ w.subject \in Sides /\ SideOK(w.subject, M)
              /\ \A c \in w.near : c.id # w.subject.id
              /\ \A n \in Ids : {w.subject.id, n} \in w.known => n \in w.seen
    PROVE  Onward(w) \in Runs /\ RunOK(Onward(w), M, Q)
<1> DEFINE left == {s \in w.subjects : s.id \notin w.gone}
           x == [w EXCEPT !.win = None, !.lose = None, !.step = "compare"]
           y == [w EXCEPT !.win = None, !.lose = None, !.step = "subject", !.subject = None,
                          !.subjects = left, !.seen = {}]
<1>1. CASE w.near # {}
  <2>1. Onward(w) = x
    BY <1>1 DEF Onward, Runs
  <2>2. /\ x \in Runs /\ x.step = "compare" /\ x.subjects = w.subjects /\ x.near = w.near
        /\ x.subject = w.subject /\ x.known = w.known /\ x.seen = w.seen
    BY DEF Runs
  <2> HIDE DEF x
  <2>3. RunOK(x, M, Q)
    BY <1>1, <2>2 DEF RunOK, Walking
  <2> QED BY <2>1, <2>2, <2>3
<1>2. CASE w.near = {} /\ left # {}
  <2>1. Onward(w) = y
    BY <1>2 DEF Onward, Runs
  <2>2. /\ y \in Runs /\ y.step = "subject" /\ y.subjects \subseteq w.subjects
        /\ y.near = {} /\ y.known = w.known
    BY <1>2 DEF Runs
  <2> HIDE DEF y
  <2>3. RunOK(y, M, Q)
    BY <2>2 DEF RunOK, Walking
  <2> QED BY <2>1, <2>2, <2>3
<1>3. CASE w.near = {} /\ left = {}
  <2>1. Onward(w) = NoJob
    BY <1>3 DEF Onward
  <2> QED BY <2>1, RestIsRight
<1> QED BY <1>1, <1>2, <1>3

\* A side as it is read now.
LEMMA SideRead ==
    ASSUME HygieneInv, NEW m \in Live
    PROVE  Side(m) \in Sides /\ SideOK(Side(m), memories) /\ Side(m).id = m
  BY LiveIsThere DEF Side, Sides, SideOK, Row

\* A run starts from a page of live memories.
LEMMA StartScanStep ==
    ASSUME HygieneInv, NEW j \in Jobs, StartScan(j)
    PROVE  TablesOK /\ RunsOK /\ UNCHANGED <<req, rev>>
<1>1. PICK op \in {"scan", "scan_one", "retro", "offer"}, a \in Ids, b \in Ids :
        /\ Starts(op)
        /\ job' = [job EXCEPT ![j] =
                     [NoJob EXCEPT !.op = op, !.step = "subject",
                        !.subjects = {Side(m) : m \in Page(op, a, b)},
                        !.known = {k \in Pairs : queue[k] # "none"}]]
        /\ UNCHANGED <<memories, rules, carrying, cards, req, queue, rev>>
  BY DEF StartScan
<1>2. TablesOK
  BY <1>1, TablesKept, CallsCounted DEF Starts
<1> DEFINE S == {Side(m) : m \in Page(op, a, b)}
           K == {k \in Pairs : queue[k] # "none"}
           x == [NoJob EXCEPT !.op = op, !.step = "subject", !.subjects = S, !.known = K]
<1>3. Page(op, a, b) \subseteq Live
  BY DEF Page
<1>4. \A s \in S : s \in Sides /\ SideOK(s, memories)
  BY <1>3, SideRead
<1>5. S \in SUBSET Sides /\ K \in SUBSET Pairs /\ \A k \in K : queue[k] # "none"
  BY <1>4
<1> HIDE DEF S, K
<1>6. x \in Runs /\ x.step = "subject" /\ x.subjects = S /\ x.near = {} /\ x.known = K
  BY <1>5 DEF NoJob, Runs
<1> HIDE DEF x
<1>7. RunOK(x, memories', queue')
  BY <1>1, <1>4, <1>5, <1>6 DEF RunOK, Walking
<1>8. job' = [job EXCEPT ![j] = x]
  BY <1>1 DEF x, S, K
<1> QED BY <1>1, <1>2, <1>6, <1>7, <1>8, RunTaken DEF TablesOK, ChangeOK

\* A run reads the neighbours of its next subject.
LEMMA ReadCandidatesStep ==
    ASSUME HygieneInv, NEW j \in Jobs, ReadCandidates(j)
    PROVE  TablesOK /\ RunsOK /\ UNCHANGED <<req, rev>>
<1> DEFINE w == job[j]
<1>1. w \in Runs /\ w.step = "subject" /\ RunOK(w, memories, queue)
  BY DEF HygieneInv, TypeOK, ReadCandidates
<1>2. UNCHANGED <<memories, rules, carrying, cards, req, calls, queue, rev>>
  BY DEF ReadCandidates, memoryVars
<1>3. TablesOK
  BY <1>2, TablesKept DEF HygieneInv, TypeOK, MemoriesTypeOK
<1>3a. PICK s \in w.subjects : \E near \in SUBSET (Live \ {s.id}) :
        job' = [job EXCEPT ![j] =
                  LET y == [w EXCEPT !.subject = s, !.subjects = w.subjects \ {s},
                                     !.near = {Side(m) : m \in near}]
                  IN IF near = {} THEN Onward(y) ELSE [y EXCEPT !.step = "queue"]]
  BY Zenon DEF ReadCandidates
<1>4. PICK near \in SUBSET (Live \ {s.id}) :
        job' = [job EXCEPT ![j] =
                  LET y == [w EXCEPT !.subject = s, !.subjects = w.subjects \ {s},
                                     !.near = {Side(m) : m \in near}]
                  IN IF near = {} THEN Onward(y) ELSE [y EXCEPT !.step = "queue"]]
  BY Zenon, <1>3a
<1> DEFINE N == {Side(m) : m \in near}
           y == [w EXCEPT !.subject = s, !.subjects = w.subjects \ {s}, !.near = N]
           z == [y EXCEPT !.step = "queue"]
<1>5. \A c \in N : c \in Sides /\ SideOK(c, memories) /\ c.id # s.id
  BY SideRead
<1>6. N \in SUBSET Sides /\ (near = {} => N = {})
  BY <1>5
<1> HIDE DEF N
<1>7. s \in Sides /\ SideOK(s, memories)
  BY <1>1 DEF Runs, RunOK
<1>8. /\ y \in Runs /\ y.subject = s /\ y.subjects \subseteq w.subjects /\ y.near = N
      /\ y.known = w.known
  BY <1>1, <1>6, <1>7 DEF Runs
<1>9. /\ \A t \in y.subjects \cup y.near : SideOK(t, memories)
      /\ \A k \in y.known : queue[k] # "none"
  BY <1>1, <1>5, <1>8 DEF RunOK
<1>10. CASE near = {}
  <2>1. Onward(y) \in Runs /\ RunOK(Onward(y), memories, queue)
    BY <1>6, <1>8, <1>9, <1>10, OnwardRight
  <2>2. job' = [job EXCEPT ![j] = Onward(y)]
    BY <1>4, <1>10 DEF N
  <2> HIDE DEF y
  <2> QED BY <1>2, <1>3, <2>1, <2>2, RunTaken DEF TablesOK, ChangeOK
<1>11. CASE near # {}
  <2>1. /\ z \in Runs /\ z.step = "queue" /\ z.subject = s /\ z.subjects = y.subjects
        /\ z.near = N /\ z.known = y.known
    BY <1>8 DEF Runs
  <2>2. job' = [job EXCEPT ![j] = z]
    BY <1>4, <1>11 DEF N
  <2> HIDE DEF y, z
  <2>3. RunOK(z, memories, queue)
    BY <1>5, <1>7, <1>8, <1>9, <2>1 DEF RunOK, Walking
  <2> QED BY <1>2, <1>3, <2>1, <2>2, <2>3, RunTaken DEF TablesOK, ChangeOK
<1> QED BY <1>10, <1>11

\* A run reads which of them reached the queue before.
LEMMA ReadAdjudicatedStep ==
    ASSUME HygieneInv, NEW j \in Jobs, ReadAdjudicated(j)
    PROVE  TablesOK /\ RunsOK /\ UNCHANGED <<req, rev>>
<1> DEFINE w == job[j]
           seen == AdjudicatedCounterparts(w.subject.id)
           x == [w EXCEPT !.step = "compare", !.seen = seen]
<1>1. w \in Runs /\ w.step = "queue" /\ RunOK(w, memories, queue)
  BY DEF HygieneInv, TypeOK, ReadAdjudicated
<1>2. UNCHANGED <<memories, rules, carrying, cards, req, calls, queue, rev>>
  BY DEF ReadAdjudicated, memoryVars
<1>3. TablesOK
  BY <1>2, TablesKept DEF HygieneInv, TypeOK, MemoriesTypeOK
<1>4. w.subject \in Sides
  BY <1>1 DEF RunOK, Walking
<1>5. \A n \in Ids : {w.subject.id, n} \in w.known => n \in seen
  <2> SUFFICES ASSUME NEW n \in Ids, {w.subject.id, n} \in w.known
               PROVE  n \in seen
    OBVIOUS
  <2>1. queue[{w.subject.id, n}] # "none"
    BY <1>1 DEF RunOK
  <2>2. {w.subject.id, n} \in Pairs
    BY <1>1 DEF Runs
  <2>3. n # w.subject.id
    BY <2>2 DEF Pairs
  <2> QED BY <2>1, <2>3 DEF AdjudicatedCounterparts
<1>6. seen \in SUBSET Ids
  BY DEF AdjudicatedCounterparts
<1> HIDE DEF seen
<1>7. /\ x \in Runs /\ x.step = "compare" /\ x.seen = seen /\ x.subject = w.subject
      /\ x.subjects = w.subjects /\ x.near = w.near /\ x.known = w.known
  BY <1>1, <1>6 DEF Runs
<1>8. job' = [job EXCEPT ![j] = x]
  BY <1>1 DEF ReadAdjudicated, seen, HygieneInv, TypeOK, Runs
<1> HIDE DEF x
<1>9. RunOK(x, memories, queue)
  BY <1>1, <1>5, <1>7 DEF RunOK, Walking
<1> QED BY <1>2, <1>3, <1>7, <1>8, <1>9, RunTaken DEF TablesOK, ChangeOK

\* A comparison leaves a run that may retire only what the decision allows,
\* and never a pair that was on the queue when the run began.
LEMMA CompareStep ==
    ASSUME HygieneInv, NEW j \in Jobs, Compare(j)
    PROVE  TablesOK /\ RunsOK /\ UNCHANGED <<req, rev>>
<1> DEFINE w == job[j]
<1>1. w \in Runs /\ w.step = "compare" /\ RunOK(w, memories, queue)
  BY DEF HygieneInv, TypeOK, Compare
<1>2. UNCHANGED <<memories, rules, carrying, cards, req, calls, queue, rev>>
  BY DEF Compare, memoryVars
<1>3. TablesOK
  BY <1>2, TablesKept DEF HygieneInv, TypeOK, MemoriesTypeOK
<1>4. PICK c \in w.near :
        LET pair == {w.subject.id, c.id}
            next == [w EXCEPT !.near = w.near \ {c}, !.judged = w.judged \cup {pair}]
        IN IF c.id \in w.gone \cup w.seen \/ pair \in w.judged
           THEN job' = [job EXCEPT ![j] = Onward(next)]
           ELSE \E action \in Outcomes(w.op, w.subject, c) :
                  job' = [job EXCEPT ![j] =
                    CASE action.kind = "skip" -> Onward(next)
                      [] action.kind = "queue" ->
                           [next EXCEPT !.step = "enqueue", !.key = pair]
                      [] OTHER ->
                           [next EXCEPT !.step = "retire", !.win = action.win,
                                        !.lose = action.lose]]
  BY Zenon DEF Compare
<1> DEFINE a == w.subject
           pair == {a.id, c.id}
           next == [w EXCEPT !.near = w.near \ {c}, !.judged = w.judged \cup {pair}]
<1>5. /\ a \in Sides /\ SideOK(a, memories) /\ c \in Sides /\ SideOK(c, memories)
      /\ c.id # a.id
      /\ \A d \in w.near : d.id # a.id
      /\ \A n \in Ids : {a.id, n} \in w.known => n \in w.seen
      /\ \A s \in w.subjects \cup w.near : SideOK(s, memories)
      /\ \A k \in w.known : queue[k] # "none"
  BY <1>1 DEF RunOK, Walking, Runs
<1>6. a.id \in Ids /\ c.id \in Ids
  BY <1>5 DEF Sides
<1>7. pair \in Pairs /\ pair \in Keys
  BY <1>5, <1>6 DEF Pairs, Keys
<1>8. /\ next \in Runs /\ next.subject = a /\ next.subjects = w.subjects
      /\ next.near \subseteq w.near /\ next.known = w.known /\ next.seen = w.seen
      /\ next.op = w.op
  BY <1>1, <1>7 DEF Runs
<1>9. /\ \A s \in next.subjects \cup next.near : SideOK(s, memories)
      /\ \A k \in next.known : queue[k] # "none"
      /\ next.subject \in Sides /\ SideOK(next.subject, memories)
      /\ \A d \in next.near : d.id # next.subject.id
      /\ \A n \in Ids : {next.subject.id, n} \in next.known => n \in next.seen
  BY <1>5, <1>8
<1>10. Onward(next) \in Runs /\ RunOK(Onward(next), memories, queue)
  BY <1>8, <1>9, OnwardRight
<1>11. CASE job' = [job EXCEPT ![j] = Onward(next)]
  BY <1>2, <1>3, <1>10, <1>11, RunTaken DEF TablesOK, ChangeOK
<1>12. ASSUME c.id \notin w.seen,
              NEW action \in Outcomes(w.op, a, c),
              job' = [job EXCEPT ![j] =
                    CASE action.kind = "skip" -> Onward(next)
                      [] action.kind = "queue" ->
                           [next EXCEPT !.step = "enqueue", !.key = pair]
                      [] OTHER ->
                           [next EXCEPT !.step = "retire", !.win = action.win,
                                        !.lose = action.lose]]
       PROVE  TablesOK /\ RunsOK
  <2> HIDE DEF next
  <2>1. action.kind \in {"skip", "queue", "retire"}
    BY <1>12, OutcomeKinds
  <2>2. CASE action.kind = "skip"
    BY <1>11, <1>12, <2>2
  <2>3. CASE action.kind = "queue"
    <3> DEFINE x == [next EXCEPT !.step = "enqueue", !.key = pair]
    <3>1. /\ x \in Runs /\ x.step = "enqueue" /\ x.key = pair /\ x.subject = next.subject
          /\ x.subjects = next.subjects /\ x.near = next.near /\ x.known = next.known
          /\ x.seen = next.seen
      BY <1>7, <1>8 DEF Runs
    <3>2. job' = [job EXCEPT ![j] = x]
      BY <1>12, <2>3
    <3> HIDE DEF x
    <3>3. RunOK(x, memories, queue)
      BY <1>7, <1>9, <3>1 DEF RunOK, Walking
    <3> QED BY <1>2, <1>3, <3>1, <3>2, <3>3, RunTaken DEF TablesOK, ChangeOK
  <2>4. CASE action.kind = "retire"
    <3> DEFINE x == [next EXCEPT !.step = "retire", !.win = action.win, !.lose = action.lose]
    <3>1. /\ action.win \in Ids /\ action.lose \in Ids
          /\ {action.win, action.lose} = {a.id, c.id}
          /\ memories[action.lose].rank > 0 => memories[action.win].rank > 0
          /\ \/ memories[action.lose].rank > 0 /\ memories[action.lose].kind = "decision"
             \/ w.op \in {"retro", "offer"}
             => /\ SameSession(memories[action.win], memories[action.lose])
                /\ action.win > action.lose
      BY <1>5, <1>12, <2>4, OutcomeSound
    <3>2. /\ x \in Runs /\ x.step = "retire" /\ x.win = action.win /\ x.lose = action.lose
          /\ x.subject = next.subject /\ x.subjects = next.subjects /\ x.near = next.near
          /\ x.known = next.known /\ x.seen = next.seen /\ x.op = w.op
      BY <1>8, <3>1 DEF Runs
    <3>3. job' = [job EXCEPT ![j] = x]
      BY <1>12, <2>4
    <3> HIDE DEF x
    <3>4. pair \notin w.known
      BY <1>5, <1>6, <1>12
    <3>5. memories[action.win] # None /\ memories[action.lose] # None
      BY <1>5, <3>1 DEF SideOK
    <3>6. RetireOK(x, memories)
      BY <1>8, <3>1, <3>2, <3>4, <3>5 DEF RetireOK
    <3>7. RunOK(x, memories, queue)
      BY <1>9, <3>2, <3>6 DEF RunOK, Walking
    <3> QED BY <1>2, <1>3, <3>2, <3>3, <3>7, RunTaken DEF TablesOK, ChangeOK
  <2> QED BY <2>1, <2>2, <2>3, <2>4
<1>13. TablesOK /\ RunsOK
  BY <1>4, <1>11, <1>12
<1> QED BY <1>2, <1>13

\* A run goes on without the memory it retired.
LEMMA RetiredRight ==
    ASSUME HygieneInv, Evolves, Grows, NEW j \in Jobs, job[j].step \in {"retire", "carry"},
           job' = [job EXCEPT ![j] = Retired(job[j])]
    PROVE  RunsOK
<1> DEFINE w == job[j]
           near == IF w.lose = w.subject.id THEN {} ELSE w.near
           x == [w EXCEPT !.gone = w.gone \cup {w.lose}, !.near = near]
<1>1. w \in Runs /\ w.step \in {"retire", "carry"} /\ RunOK(w, memories, queue)
  BY DEF HygieneInv, TypeOK
<1>2. w.lose \in Ids
  BY <1>1 DEF RunOK, RetireOK
<1>3. RunOK(w, memories', queue')
  BY <1>1, RunStays
<1>4. near \subseteq w.near
  OBVIOUS
<1> HIDE DEF near
<1>5. /\ x \in Runs /\ x.subject = w.subject /\ x.subjects = w.subjects /\ x.near = near
      /\ x.known = w.known /\ x.seen = w.seen
  BY <1>1, <1>2, <1>4 DEF Runs
<1>6. job' = [job EXCEPT ![j] = Onward(x)]
  BY DEF Retired, near
<1> HIDE DEF x
<1>7. Onward(x) \in Runs /\ RunOK(Onward(x), memories', queue')
  <2>1. /\ \A s \in x.subjects \cup x.near : SideOK(s, memories')
        /\ \A k \in x.known : queue'[k] # "none"
        /\ x.subject \in Sides /\ SideOK(x.subject, memories')
        /\ \A c \in x.near : c.id # x.subject.id
        /\ \A n \in Ids : {x.subject.id, n} \in x.known => n \in x.seen
    BY <1>1, <1>3, <1>4, <1>5 DEF RunOK, Walking
  <2> QED BY <1>5, <2>1, OnwardRight
<1> QED BY <1>6, <1>7, RunTaken

\* A retirement by the scanner, at once or as far as the trigger reads.
LEMMA RetireLoserStep ==
    ASSUME HygieneInv, NEW j \in Jobs, RetireLoser(j)
    PROVE  TablesOK /\ RunsOK /\ UNCHANGED <<req, rev>>
<1> DEFINE w == job[j]
           row == Superseded(memories[w.lose], w.win)
           x == [w EXCEPT !.step = "carry"]
<1>1. w \in Runs /\ w.step = "retire" /\ RunOK(w, memories, queue)
  BY DEF HygieneInv, TypeOK, RetireLoser
<1>2. /\ UNCHANGED <<cards, req, calls, queue, rev>>
      /\ UpdateMemory(w.lose, row) \/ Supersede(w.lose, row)
  BY DEF RetireLoser
<1>3. w.win \in Ids /\ w.lose \in Ids /\ memories[w.lose] # None
  BY <1>1 DEF RunOK, RetireOK
<1>4. memories[w.lose] \in Row
  BY <1>3 DEF HygieneInv, TypeOK, MemoriesTypeOK
<1>5. /\ row \in Row /\ row.rank = memories[w.lose].rank
      /\ row.session = memories[w.lose].session /\ row.kind = memories[w.lose].kind
  BY <1>3, <1>4, RowsMade
<1>6. ChangeOK
  <2> HIDE DEF row
  <2> QED BY <1>2, <1>3, <1>5, WriteSound
<1>7. TablesOK /\ Evolves /\ Grows
  BY <1>2, <1>6, TablesChanged DEF TablesOK
<1>8. CASE job' = [job EXCEPT ![j] = Retired(w)]
  BY <1>1, <1>2, <1>7, <1>8, RetiredRight
<1>9. CASE job' = [job EXCEPT ![j].step = "carry"]
  <2>1. RunOK(w, memories', queue')
    BY <1>1, <1>7, RunStays
  <2>2. /\ x \in Runs /\ x.step = "carry" /\ x.subject = w.subject /\ x.subjects = w.subjects
        /\ x.near = w.near /\ x.known = w.known /\ x.seen = w.seen
        /\ x.win = w.win /\ x.lose = w.lose /\ x.op = w.op
    BY <1>1 DEF Runs
  <2>3. job' = [job EXCEPT ![j] = x]
    BY <1>9
  <2> HIDE DEF x
  <2>4. RunOK(x, memories', queue')
    BY <1>1, <2>1, <2>2 DEF RunOK, RetireOK, Walking
  <2> QED BY <1>2, <1>7, <2>2, <2>3, <2>4, RunTaken
<1> QED BY <1>8, <1>9 DEF RetireLoser

\* The retirement is committed.
LEMMA CommitRetireStep ==
    ASSUME HygieneInv, NEW j \in Jobs, CommitRetire(j)
    PROVE  TablesOK /\ RunsOK /\ UNCHANGED <<req, rev>>
<1>1. /\ job[j].step = "carry" /\ CommitSupersede(job[j].lose)
      /\ job' = [job EXCEPT ![j] = Retired(job[j])]
      /\ UNCHANGED <<cards, req, calls, queue, rev>>
  BY DEF CommitRetire
<1>2. job[j].lose \in Ids
  BY <1>1 DEF HygieneInv, RunOK, RetireOK
<1>3. TablesOK /\ Evolves /\ Grows
  BY <1>1, <1>2, CommitSound, TablesChanged DEF TablesOK
<1> QED BY <1>1, <1>3, RetiredRight

\* The retirement fails, and with it the run.
LEMMA RetireFailsStep ==
    ASSUME HygieneInv, NEW j \in Jobs, RetireFails(j)
    PROVE  TablesOK /\ RunsOK /\ UNCHANGED <<req, rev>>
<1>1. /\ job[j].step = "carry" /\ RollBack(job[j].lose)
      /\ job' = [job EXCEPT ![j] = NoJob]
      /\ UNCHANGED <<memories, rules, cards, req, calls, queue, rev>>
  BY DEF RetireFails
<1>2. job[j].lose \in Ids
  BY <1>1 DEF HygieneInv, RunOK, RetireOK
<1>3. TablesOK /\ Evolves /\ Grows
  BY <1>1, <1>2, RollBackSound, TablesChanged DEF TablesOK
<1> QED BY <1>1, <1>3, RestIsRight, RunTaken

\* A pair put on the queue; one that is there already stays as it is.
LEMMA EnqueueStep ==
    ASSUME HygieneInv, NEW j \in Jobs, Enqueue(j)
    PROVE  TablesOK /\ RunsOK /\ UNCHANGED <<req, rev>>
<1> DEFINE w == job[j]
           x == [w EXCEPT !.key = None]
           s == IF queue[w.key] = "none" THEN "pending" ELSE queue[w.key]
<1>1. w \in Runs /\ w.step = "enqueue" /\ RunOK(w, memories, queue)
  BY DEF HygieneInv, TypeOK, Enqueue
<1>2. UNCHANGED memoryVars /\ UNCHANGED <<memories, req, rev>>
  BY DEF Enqueue, memoryVars
<1>3. w.key \in Keys /\ queue[w.key] \in RowStatus
  BY <1>1 DEF RunOK, HygieneInv, TypeOK
<1>4. /\ queue' = [queue EXCEPT ![w.key] = s] /\ s \in RowStatus /\ s # "none"
      /\ queue[w.key] \in ByPerson => s \in ByPerson
  BY <1>3 DEF Enqueue, RowStatus, ByPerson
<1>5. TablesOK
  <2> HIDE DEF s, w
  <2> QED BY <1>2, <1>3, <1>4, QueueSet
<1>6. RunOK(w, memories', queue')
  BY <1>1, <1>5, RunStays DEF TablesOK, ChangeOK
<1>7. /\ x \in Runs /\ x.subject = w.subject /\ x.subjects = w.subjects /\ x.near = w.near
      /\ x.known = w.known /\ x.seen = w.seen
  BY <1>1 DEF Runs
<1>8. job' = [job EXCEPT ![j] = Onward(x)]
  BY DEF Enqueue
<1> HIDE DEF x
<1>9. Onward(x) \in Runs /\ RunOK(Onward(x), memories', queue')
  <2>1. /\ \A t \in x.subjects \cup x.near : SideOK(t, memories')
        /\ \A k \in x.known : queue'[k] # "none"
        /\ x.subject \in Sides /\ SideOK(x.subject, memories')
        /\ \A c \in x.near : c.id # x.subject.id
        /\ \A n \in Ids : {x.subject.id, n} \in x.known => n \in x.seen
    BY <1>1, <1>6, <1>7 DEF RunOK, Walking
  <2> QED BY <1>7, <2>1, OnwardRight
<1> QED BY <1>2, <1>5, <1>8, <1>9, RunTaken DEF TablesOK, ChangeOK

\* A sweep lists the pending rows.
LEMMA StartSweepStep ==
    ASSUME HygieneInv, NEW j \in Jobs, StartSweep(j)
    PROVE  TablesOK /\ RunsOK /\ UNCHANGED <<req, rev>>
<1>1. PICK rows \in {Pending, Pending \cap Pairs} :
        /\ Starts("sweep")
        /\ job' = [job EXCEPT ![j] = [NoJob EXCEPT !.op = "sweep", !.step = "load", !.keys = rows]]
        /\ UNCHANGED <<memories, rules, carrying, cards, req, queue, rev>>
  BY DEF StartSweep
<1>2. TablesOK
  BY <1>1, TablesKept, CallsCounted DEF Starts
<1> DEFINE x == [NoJob EXCEPT !.op = "sweep", !.step = "load", !.keys = rows]
<1>3. rows \in SUBSET Keys
  BY DEF Pending
<1>4. /\ x \in Runs /\ x.step = "load" /\ x.subjects = {} /\ x.near = {} /\ x.known = {}
  BY <1>3 DEF NoJob, Runs
<1> HIDE DEF x
<1>5. RunOK(x, memories', queue')
  BY <1>4 DEF RunOK, Walking
<1>6. job' = [job EXCEPT ![j] = x]
  BY <1>1 DEF x
<1> QED BY <1>1, <1>2, <1>4, <1>5, <1>6, RunTaken DEF TablesOK, ChangeOK

\* A run at the queue holds no side that could go stale beyond what RunOK says.
LEMMA SweptRight ==
    ASSUME NEW M, NEW Q, NEW w \in Runs,
           \A s \in w.subjects \cup w.near : SideOK(s, M),
           \A k \in w.known : Q[k] # "none"
    PROVE  SweptOnward(w) \in Runs /\ RunOK(SweptOnward(w), M, Q)
<1> DEFINE x == [w EXCEPT !.step = "load", !.key = None]
<1>1. CASE w.keys = {}
  BY <1>1, RestIsRight DEF SweptOnward
<1>2. CASE w.keys # {}
  <2>1. /\ x \in Runs /\ x.step = "load" /\ x.subjects = w.subjects /\ x.near = w.near
        /\ x.known = w.known
    BY DEF Runs
  <2>2. SweptOnward(w) = x
    BY <1>2 DEF SweptOnward
  <2> HIDE DEF x
  <2>3. RunOK(x, M, Q)
    BY <2>1 DEF RunOK, Walking
  <2> QED BY <2>1, <2>2, <2>3
<1> QED BY <1>1, <1>2

\* A sweep picks a row and judges it again.
LEMMA LoadPendingStep ==
    ASSUME HygieneInv, NEW j \in Jobs, LoadPending(j)
    PROVE  TablesOK /\ RunsOK /\ UNCHANGED <<req, rev>>
<1> DEFINE w == job[j]
<1>1. w \in Runs /\ w.step = "load" /\ RunOK(w, memories, queue)
  BY DEF HygieneInv, TypeOK, LoadPending
<1>2. UNCHANGED <<memories, rules, carrying, cards, req, calls, queue, rev>>
  BY DEF LoadPending, memoryVars
<1>3. TablesOK
  BY <1>2, TablesKept DEF HygieneInv, TypeOK, MemoriesTypeOK
<1>4. PICK k \in w.keys :
        \/ job' = [job EXCEPT ![j] =
                     [[w EXCEPT !.keys = w.keys \ {k}] EXCEPT !.step = "dismiss", !.key = k]]
        \/ job' = [job EXCEPT ![j] = SweptOnward([w EXCEPT !.keys = w.keys \ {k}])]
  BY DEF LoadPending
<1> DEFINE y == [w EXCEPT !.keys = w.keys \ {k}]
           x == [y EXCEPT !.step = "dismiss", !.key = k]
<1>5. k \in Keys
  BY <1>1 DEF Runs
<1>6. /\ y \in Runs /\ y.subjects = w.subjects /\ y.near = w.near /\ y.known = w.known
  BY <1>1 DEF Runs
<1> HIDE DEF y
<1>7. /\ x \in Runs /\ x.step = "dismiss" /\ x.key = k /\ x.subjects = w.subjects
      /\ x.near = w.near /\ x.known = w.known
  BY <1>5, <1>6 DEF Runs
<1> HIDE DEF x
<1>8. RunOK(x, memories, queue)
  BY <1>1, <1>5, <1>7 DEF RunOK, Walking
<1>9. SweptOnward(y) \in Runs /\ RunOK(SweptOnward(y), memories, queue)
  BY <1>1, <1>6, SweptRight DEF RunOK
<1>10. CASE job' = [job EXCEPT ![j] = x]
  BY <1>2, <1>3, <1>7, <1>8, <1>10, RunTaken DEF TablesOK, ChangeOK
<1>11. CASE job' = [job EXCEPT ![j] = SweptOnward(y)]
  BY <1>2, <1>3, <1>9, <1>11, RunTaken DEF TablesOK, ChangeOK
<1> QED BY <1>2, <1>4, <1>10, <1>11 DEF x, y

\* The dismissal changes a pending row only.
LEMMA DismissStep ==
    ASSUME HygieneInv, NEW j \in Jobs, Dismiss(j)
    PROVE  TablesOK /\ RunsOK /\ UNCHANGED <<req, rev>>
<1> DEFINE w == job[j]
           s == IF queue[w.key] = "pending" THEN "swept" ELSE queue[w.key]
<1>1. w \in Runs /\ w.step = "dismiss" /\ RunOK(w, memories, queue)
  BY DEF HygieneInv, TypeOK, Dismiss
<1>2. UNCHANGED memoryVars /\ UNCHANGED <<memories, req, rev>>
  BY DEF Dismiss, memoryVars
<1>3. w.key \in Keys /\ queue[w.key] \in RowStatus
  BY <1>1 DEF RunOK, HygieneInv, TypeOK
<1>4. /\ queue' = [queue EXCEPT ![w.key] = s] /\ s \in RowStatus
      /\ s = "none" => queue[w.key] = "none"
      /\ queue[w.key] \in ByPerson => s \in ByPerson
  BY <1>3 DEF Dismiss, DismissKeepBoth, RowStatus, ByPerson
<1>5. TablesOK
  <2> HIDE DEF s, w
  <2> QED BY <1>2, <1>3, <1>4, QueueSet
<1>6. RunOK(w, memories', queue')
  BY <1>1, <1>5, RunStays DEF TablesOK, ChangeOK
<1>7. SweptOnward(w) \in Runs /\ RunOK(SweptOnward(w), memories', queue')
  BY <1>1, <1>6, SweptRight DEF RunOK
<1>8. job' = [job EXCEPT ![j] = SweptOnward(w)]
  BY DEF Dismiss
<1> QED BY <1>2, <1>5, <1>7, <1>8, RunTaken DEF TablesOK, ChangeOK

\* An audit lists the decisions that are none.
LEMMA StartAuditStep ==
    ASSUME HygieneInv, NEW j \in Jobs, StartAudit(j)
    PROVE  TablesOK /\ RunsOK /\ UNCHANGED <<req, rev>>
<1>1. PICK notes \in SUBSET Live :
        /\ Starts("audit")
        /\ job' = [job EXCEPT ![j] = [NoJob EXCEPT !.op = "audit", !.step = "rekind",
                                                   !.subjects = {Side(m) : m \in notes}]]
        /\ UNCHANGED <<memories, rules, carrying, cards, req, queue, rev>>
  BY DEF StartAudit
<1>2. TablesOK
  BY <1>1, TablesKept, CallsCounted DEF Starts
<1> DEFINE S == {Side(m) : m \in notes}
           x == [NoJob EXCEPT !.op = "audit", !.step = "rekind", !.subjects = S]
<1>3. \A s \in S : s \in Sides /\ SideOK(s, memories)
  BY SideRead
<1>4. S \in SUBSET Sides
  BY <1>3
<1> HIDE DEF S
<1>5. x \in Runs /\ x.step = "rekind" /\ x.subjects = S /\ x.near = {} /\ x.known = {}
  BY <1>4 DEF NoJob, Runs
<1> HIDE DEF x
<1>6. RunOK(x, memories', queue')
  BY <1>1, <1>3, <1>5 DEF RunOK, Walking
<1>7. job' = [job EXCEPT ![j] = x]
  BY <1>1 DEF x, S
<1> QED BY <1>1, <1>2, <1>5, <1>6, <1>7, RunTaken DEF TablesOK, ChangeOK

\* The audit takes a decision for an episode, and nothing else changes.
LEMMA RekindStep ==
    ASSUME HygieneInv, NEW j \in Jobs, Rekind(j)
    PROVE  TablesOK /\ RunsOK /\ UNCHANGED <<req, rev>>
<1> DEFINE w == job[j]
<1>1. w \in Runs /\ w.step = "rekind" /\ RunOK(w, memories, queue)
  BY DEF HygieneInv, TypeOK, Rekind
<1>2. UNCHANGED <<rules, carrying, cards, req, calls, queue, rev>>
  BY DEF Rekind
<1>3. PICK s \in w.subjects :
        /\ s.id \notin LockedMemories
        /\ memories' = [memories EXCEPT ![s.id].kind = "episode"]
        /\ job' = [job EXCEPT ![j] = IF w.subjects \ {s} = {} THEN NoJob
                                     ELSE [w EXCEPT !.subjects = w.subjects \ {s}]]
  BY DEF Rekind, Demoted
<1>4. s.id \in Ids /\ memories[s.id] # None
  BY <1>1 DEF Runs, Sides, RunOK, SideOK
<1> DEFINE row == [memories[s.id] EXCEPT !.kind = "episode"]
<1>5. memories[s.id] \in Row /\ memories \in [Ids -> Row \cup {None}]
  BY <1>4 DEF HygieneInv, TypeOK, MemoriesTypeOK
<1>6. /\ row \in Row /\ row.kind = "episode" /\ row.rank = memories[s.id].rank
      /\ row.session = memories[s.id].session /\ row.retired = memories[s.id].retired
      /\ row.successor = memories[s.id].successor
  BY <1>5 DEF Row, Kinds
<1>7. memories' = [memories EXCEPT ![s.id] = row]
  BY <1>3
<1> HIDE DEF row
<1>8. s.id \notin LockedMemories
  BY <1>3
<1>9. ChangeOK
  BY <1>2, <1>4, <1>6, <1>7, <1>8, UpdateSound
<1>10. TablesOK
  BY <1>2, <1>9, TablesChanged
<1>11. RunOK(w, memories', queue')
  BY <1>1, <1>10, RunStays DEF TablesOK, ChangeOK
<1> DEFINE x == [w EXCEPT !.subjects = w.subjects \ {s}]
<1>12. /\ x \in Runs /\ x.step = "rekind" /\ x.subjects \subseteq w.subjects
       /\ x.near = w.near /\ x.known = w.known
  BY <1>1 DEF Runs
<1>13. CASE w.subjects \ {s} = {}
  BY <1>2, <1>3, <1>10, <1>13, RestIsRight, RunTaken DEF TablesOK, ChangeOK
<1>14. CASE w.subjects \ {s} # {}
  <2>1. job' = [job EXCEPT ![j] = x]
    BY <1>3, <1>14
  <2> HIDE DEF x
  <2>2. RunOK(x, memories', queue')
    BY <1>11, <1>12 DEF RunOK, Walking
  <2> QED BY <1>2, <1>10, <1>12, <2>1, <2>2, RunTaken DEF TablesOK, ChangeOK
<1> QED BY <1>13, <1>14

\* Every step of the scanner.
LEMMA ScannerStep ==
    ASSUME HygieneInv, NEW j \in Jobs, Scanner(j)
    PROVE  TablesOK /\ RunsOK /\ UNCHANGED <<req, rev>>
  BY StartScanStep, ReadCandidatesStep, ReadAdjudicatedStep, CompareStep, RetireLoserStep,
     CommitRetireStep, RetireFailsStep, EnqueueStep, StartSweepStep, LoadPendingStep, DismissStep, StartAuditStep, RekindStep
     DEF Scanner

-----------------------------------------------------------------------------
(* The reviewers *)

\* A person or an agent decides a row.
LEMMA ResolveStep ==
    ASSUME HygieneInv, NEW r \in Reviewers, Resolve(r)
    PROVE  TablesOK /\ ReviewsOK /\ UNCHANGED <<req, job>>
<1>1. PICK op \in {"resolve", "review"}, k \in Pending : \E d \in Decisions(k) :
        /\ Starts(op)
        /\ rev' = [rev EXCEPT ![r] =
                     [NoReview EXCEPT !.op = op, !.key = k, !.win = d.win, !.lose = d.lose,
                        !.step = IF d.lose = None THEN "finish" ELSE "retire"]]
        /\ UNCHANGED <<memories, rules, carrying, cards, req, queue, job>>
  BY DEF Resolve
<1>2. PICK d \in Decisions(k) :
        /\ Starts(op)
        /\ rev' = [rev EXCEPT ![r] =
                     [NoReview EXCEPT !.op = op, !.key = k, !.win = d.win, !.lose = d.lose,
                        !.step = IF d.lose = None THEN "finish" ELSE "retire"]]
        /\ UNCHANGED <<memories, rules, carrying, cards, req, queue, job>>
  BY <1>1
<1>3. TablesOK
  BY <1>2, TablesKept, CallsCounted DEF Starts
<1>4. k \in Keys /\ k \subseteq Ids
  BY DEF Pending, Keys, Pairs, Singles
<1>5. d.win \in Ids \cup {None} /\ d.lose \in Ids \cup {None}
  BY <1>4 DEF Decisions
<1> DEFINE step == IF d.lose = None THEN "finish" ELSE "retire"
           x == [NoReview EXCEPT !.op = op, !.key = k, !.win = d.win, !.lose = d.lose,
                                 !.step = step]
<1>6. step \in {"finish", "retire"} /\ (step = "retire" => d.lose \in Ids)
  BY <1>5
<1>7. rev' = [rev EXCEPT ![r] = x]
  BY <1>2
<1> HIDE DEF step
<1>8. x \in Reviews /\ x.step = step /\ x.key = k /\ x.lose = d.lose
  BY <1>4, <1>5, <1>6 DEF NoReview, Reviews
<1> HIDE DEF x
<1>9. ReviewOK(x, memories')
  BY <1>4, <1>6, <1>8 DEF ReviewOK
<1> QED BY <1>2, <1>3, <1>7, <1>8, <1>9, ReviewTaken DEF TablesOK, ChangeOK

\* A person settles the queue by a policy.
LEMMA ResolveByPolicyStep ==
    ASSUME HygieneInv, NEW r \in Reviewers, ResolveByPolicy(r)
    PROVE  TablesOK /\ ReviewsOK /\ UNCHANGED <<req, job>>
<1>1. PICK policy \in {"newest_wins", "oldest_wins", "keep_both"} :
        /\ Starts("bulk")
        /\ rev' = [rev EXCEPT ![r] =
                     [NoReview EXCEPT !.op = "bulk", !.step = "next",
                        !.keys = IF policy = "keep_both" THEN Pending ELSE Pending \cap Pairs,
                        !.policy = policy]]
        /\ UNCHANGED <<memories, rules, carrying, cards, req, queue, job>>
  BY DEF ResolveByPolicy
<1>2. TablesOK
  BY <1>1, TablesKept, CallsCounted DEF Starts
<1> DEFINE rows == IF policy = "keep_both" THEN Pending ELSE Pending \cap Pairs
           x == [NoReview EXCEPT !.op = "bulk", !.step = "next", !.keys = rows, !.policy = policy]
<1>3. rows \in SUBSET Keys
  BY DEF Pending
<1>4. rev' = [rev EXCEPT ![r] = x]
  BY <1>1
<1> HIDE DEF rows
<1>5. x \in Reviews /\ x.step = "next"
  BY <1>3 DEF NoReview, Reviews
<1> HIDE DEF x
<1>6. ReviewOK(x, memories')
  BY <1>5 DEF ReviewOK
<1> QED BY <1>1, <1>2, <1>4, <1>5, <1>6, ReviewTaken DEF TablesOK, ChangeOK

\* A review goes on to its next row, or ends.
LEMMA ReviewedRight ==
    ASSUME NEW M, NEW v \in Reviews
    PROVE  ReviewedOnward(v) \in Reviews /\ ReviewOK(ReviewedOnward(v), M)
<1> DEFINE x == [v EXCEPT !.step = "next", !.key = None, !.win = None, !.lose = None]
<1>1. CASE v.keys = {}
  BY <1>1, RestIsRight DEF ReviewedOnward
<1>2. CASE v.keys # {}
  <2>1. x \in Reviews /\ x.step = "next"
    BY DEF Reviews
  <2>2. ReviewedOnward(v) = x
    BY <1>2 DEF ReviewedOnward
  <2> HIDE DEF x
  <2>3. ReviewOK(x, M)
    BY <2>1 DEF ReviewOK
  <2> QED BY <2>1, <2>2, <2>3
<1> QED BY <1>1, <1>2

\* The newer and the older side of a row are memories of it.
LEMMA EndsOfRow ==
    ASSUME NEW k \in Keys
    PROVE  /\ (CHOOSE a \in k : \A b \in k : b <= a) \in Ids
           /\ (CHOOSE a \in k : \A b \in k : a <= b) \in Ids
<1>1. PICK a \in Ids, b \in Ids : k = {a, b}
  BY DEF Keys, Pairs, Singles
<1>2. a \in Int /\ b \in Int
  BY DEF Ids
<1>3. \E c \in k : \A d \in k : d <= c
  BY <1>1, <1>2
<1>4. \E c \in k : \A d \in k : c <= d
  BY <1>1, <1>2
<1>5. k \subseteq Ids
  BY <1>1
<1> QED BY <1>3, <1>4, <1>5

\* The policy comes to its next row.
LEMMA NextOfBulkStep ==
    ASSUME HygieneInv, NEW r \in Reviewers, NextOfBulk(r)
    PROVE  TablesOK /\ ReviewsOK /\ UNCHANGED <<req, job>>
<1> DEFINE v == rev[r]
<1>1. v \in Reviews /\ v.step = "next"
  BY DEF HygieneInv, TypeOK, NextOfBulk
<1>2. UNCHANGED <<memories, rules, carrying, cards, req, calls, queue, job>>
  BY DEF NextOfBulk, memoryVars
<1>3. TablesOK
  BY <1>2, TablesKept DEF HygieneInv, TypeOK, MemoriesTypeOK
<1>4. PICK k \in v.keys :
         LET left == [v EXCEPT !.keys = v.keys \ {k}, !.key = k]
             new == CHOOSE a \in k : \A b \in k : b <= a
             old == CHOOSE a \in k : \A b \in k : a <= b
         IN rev' = [rev EXCEPT ![r] =
              IF k \in Singles /\ k \notin Pending THEN ReviewedOnward(left)
              ELSE CASE v.policy = "newest_wins" ->
                     [left EXCEPT !.step = "retire", !.win = new, !.lose = old]
                [] v.policy = "oldest_wins" ->
                     [left EXCEPT !.step = "retire", !.win = old, !.lose = new]
                [] OTHER -> [left EXCEPT !.step = "finish"]]
  BY Zenon DEF NextOfBulk
<1> DEFINE left == [v EXCEPT !.keys = v.keys \ {k}, !.key = k]
           new == CHOOSE a \in k : \A b \in k : b <= a
           old == CHOOSE a \in k : \A b \in k : a <= b
           retires(w, l) == [left EXCEPT !.step = "retire", !.win = w, !.lose = l]
           keeps == [left EXCEPT !.step = "finish"]
<1>5. k \in Keys
  BY <1>1 DEF Reviews
<1>6. new \in Ids /\ old \in Ids
  BY <1>5, EndsOfRow
<1>7. left \in Reviews /\ left.key = k
  BY <1>1, <1>5 DEF Reviews
<1>8. \/ rev' = [rev EXCEPT ![r] = ReviewedOnward(left)]
      \/ rev' = [rev EXCEPT ![r] = retires(new, old)]
      \/ rev' = [rev EXCEPT ![r] = retires(old, new)]
      \/ rev' = [rev EXCEPT ![r] = keeps]
  <2>1. rev' = [rev EXCEPT ![r] =
              IF k \in Singles /\ k \notin Pending THEN ReviewedOnward(left)
              ELSE CASE v.policy = "newest_wins" -> retires(new, old)
                [] v.policy = "oldest_wins" -> retires(old, new)
                [] OTHER -> keeps]
    BY Zenon, <1>4
  <2> HIDE DEF new, old, left, retires, keeps
  <2> DEFINE skips == k \in Singles /\ k \notin Pending
  <2>2. CASE skips
    BY <2>1, <2>2
  <2>3. CASE ~skips /\ v.policy = "newest_wins"
    BY <2>1, <2>3
  <2>4. CASE ~skips /\ v.policy = "oldest_wins"
    BY <2>1, <2>4
  <2>5. CASE ~skips /\ v.policy \notin {"newest_wins", "oldest_wins"}
    BY <2>1, <2>5
  <2> QED BY <2>2, <2>3, <2>4, <2>5
<1> HIDE DEF new, old, left
<1>9. \A w, l \in Ids : /\ retires(w, l) \in Reviews
                        /\ retires(w, l).step = "retire" /\ retires(w, l).lose = l
                        /\ retires(w, l).key = k
  BY <1>7 DEF Reviews
<1>10. keeps \in Reviews /\ keeps.step = "finish" /\ keeps.key = k
  BY <1>7 DEF Reviews
<1> HIDE DEF retires, keeps
<1>11. \A w, l \in Ids : ReviewOK(retires(w, l), memories')
  BY <1>5, <1>9 DEF ReviewOK
<1>12. ReviewOK(keeps, memories')
  BY <1>5, <1>10 DEF ReviewOK
<1>13. ReviewedOnward(left) \in Reviews /\ ReviewOK(ReviewedOnward(left), memories')
  BY <1>7, ReviewedRight
<1>14. CASE rev' = [rev EXCEPT ![r] = ReviewedOnward(left)]
  BY <1>2, <1>3, <1>13, <1>14, ReviewTaken DEF TablesOK, ChangeOK
<1>15. CASE rev' = [rev EXCEPT ![r] = retires(new, old)]
  BY <1>2, <1>3, <1>6, <1>9, <1>11, <1>15, ReviewTaken DEF TablesOK, ChangeOK
<1>16. CASE rev' = [rev EXCEPT ![r] = retires(old, new)]
  BY <1>2, <1>3, <1>6, <1>9, <1>11, <1>16, ReviewTaken DEF TablesOK, ChangeOK
<1>17. CASE rev' = [rev EXCEPT ![r] = keeps]
  BY <1>2, <1>3, <1>10, <1>12, <1>17, ReviewTaken DEF TablesOK, ChangeOK
<1> QED BY <1>2, <1>3, <1>8, <1>14, <1>15, <1>16, <1>17

\* A reviewer whose update is done, or failed and was not looked at, comes to
\* the row.
LEMMA SideRight ==
    ASSUME HygieneInv, Evolves, NEW r \in Reviewers, rev[r].step \in {"retire", "carry"}
    PROVE  /\ rev' = [rev EXCEPT ![r].step = "finish"] => ReviewsOK
           /\ rev' = [rev EXCEPT ![r].step = "carry"] => ReviewsOK
           /\ rev' = [rev EXCEPT ![r] = NoReview] => ReviewsOK
<1> DEFINE v == rev[r]
           x == [v EXCEPT !.step = "finish"]
           y == [v EXCEPT !.step = "carry"]
<1>1. v \in Reviews /\ v.lose \in Ids /\ v.key \in Keys
  BY DEF HygieneInv, TypeOK, ReviewOK
<1>2. x \in Reviews /\ x.step = "finish" /\ x.key = v.key
  BY <1>1 DEF Reviews
<1>3. y \in Reviews /\ y.step = "carry" /\ y.key = v.key /\ y.lose = v.lose
  BY <1>1 DEF Reviews
<1>4. /\ rev' = [rev EXCEPT ![r].step = "finish"] => rev' = [rev EXCEPT ![r] = x]
      /\ rev' = [rev EXCEPT ![r].step = "carry"] => rev' = [rev EXCEPT ![r] = y]
  OBVIOUS
<1> HIDE DEF x, y
<1>5. ReviewOK(x, memories') /\ ReviewOK(y, memories')
  BY <1>1, <1>2, <1>3 DEF ReviewOK
<1> QED BY <1>2, <1>3, <1>4, <1>5, RestIsRight, ReviewTaken

\* A retirement by a person, of a memory that is still live.
LEMMA RetireSideStep ==
    ASSUME HygieneInv, NEW r \in Reviewers, RetireSide(r)
    PROVE  TablesOK /\ ReviewsOK /\ UNCHANGED <<req, job>>
<1> DEFINE v == rev[r]
           row == Superseded(memories[v.lose], v.win)
<1>1. v \in Reviews /\ v.step = "retire" /\ ReviewOK(v, memories)
  BY DEF HygieneInv, TypeOK, RetireSide
<1>2. UNCHANGED <<cards, req, calls, queue, job>>
  BY DEF RetireSide
<1>3. ASSUME v.lose \in Live, UpdateMemory(v.lose, row) \/ Supersede(v.lose, row)
      PROVE  ChangeOK
  <2>1. v.lose \in Ids /\ memories[v.lose] # None /\ memories[v.lose] \in Row
    BY <1>3, LiveIsThere
  <2>2. v.win \in Ids \cup {None}
    BY <1>1 DEF Reviews
  <2>3. /\ row \in Row /\ row.rank = memories[v.lose].rank
        /\ row.session = memories[v.lose].session /\ row.kind = memories[v.lose].kind
    BY <2>1, <2>2, RowsMade
  <2> HIDE DEF row
  <2> QED BY <1>3, <2>1, <2>3, WriteSound
<1>4. ASSUME UNCHANGED <<memories, rules, carrying>>
      PROVE  ChangeOK
  <2>1. TablesOK
    BY <1>2, <1>4, TablesKept DEF HygieneInv, TypeOK, MemoriesTypeOK
  <2> QED BY <2>1 DEF TablesOK
<1>5. TablesOK /\ Evolves
  <2>1. ChangeOK
    BY <1>3, <1>4 DEF RetireSide
  <2> QED BY <1>2, <2>1, TablesChanged
<1>6. \/ rev' = [rev EXCEPT ![r].step = "finish"]
      \/ rev' = [rev EXCEPT ![r].step = "carry"]
      \/ rev' = [rev EXCEPT ![r] = NoReview]
  BY DEF RetireSide
<1> QED BY <1>1, <1>2, <1>5, <1>6, SideRight

\* The retirement is committed.
LEMMA CommitSideStep ==
    ASSUME HygieneInv, NEW r \in Reviewers, CommitSide(r)
    PROVE  TablesOK /\ ReviewsOK /\ UNCHANGED <<req, job>>
<1>1. /\ rev[r].step = "carry" /\ CommitSupersede(rev[r].lose)
      /\ rev' = [rev EXCEPT ![r].step = "finish"]
      /\ UNCHANGED <<cards, req, calls, queue, job>>
  BY DEF CommitSide
<1>2. rev[r].lose \in Ids
  BY <1>1 DEF HygieneInv, ReviewOK
<1>3. TablesOK /\ Evolves
  BY <1>1, <1>2, CommitSound, TablesChanged
<1> QED BY <1>1, <1>3, SideRight

\* The retirement fails, and the row may be settled all the same.
LEMMA SideFailsStep ==
    ASSUME HygieneInv, NEW r \in Reviewers, SideFails(r)
    PROVE  TablesOK /\ ReviewsOK /\ UNCHANGED <<req, job>>
<1>1. /\ rev[r].step \in {"retire", "carry"}
      /\ \/ rev' = [rev EXCEPT ![r].step = "finish"]
         \/ rev' = [rev EXCEPT ![r] = NoReview]
      /\ UNCHANGED <<memories, rules, cards, req, calls, queue, job>>
  BY DEF SideFails
<1>2. rev[r].lose \in Ids
  BY <1>1 DEF HygieneInv, ReviewOK
<1>3. ChangeOK
  <2>1. CASE RollBack(rev[r].lose)
    BY <1>1, <1>2, <2>1, RollBackSound
  <2>2. CASE UNCHANGED carrying
    <3>1. TablesOK
      BY <1>1, <2>2, TablesKept DEF HygieneInv, TypeOK, MemoriesTypeOK
    <3> QED BY <3>1 DEF TablesOK
  <2> QED BY <2>1, <2>2 DEF SideFails
<1>4. TablesOK /\ Evolves
  BY <1>1, <1>3, TablesChanged
<1> QED BY <1>1, <1>4, SideRight

\* The row is settled by a person.
LEMMA FinishStep ==
    ASSUME HygieneInv, NEW r \in Reviewers, Finish(r)
    PROVE  TablesOK /\ ReviewsOK /\ UNCHANGED <<req, job>>
<1> DEFINE v == rev[r]
           s == IF v.lose = None THEN "kept" ELSE "retired"
<1>1. v \in Reviews /\ v.step = "finish" /\ ReviewOK(v, memories)
  BY DEF HygieneInv, TypeOK, Finish
<1>2. UNCHANGED memoryVars /\ UNCHANGED <<memories, req, job>>
  BY DEF Finish, memoryVars
<1>3. v.key \in Keys
  BY <1>1 DEF ReviewOK
<1>4. queue' = [queue EXCEPT ![v.key] = s] /\ s \in RowStatus /\ s # "none" /\ s \in ByPerson
  BY DEF Finish, RowStatus, ByPerson
<1>5. TablesOK
  <2> HIDE DEF s, v
  <2> QED BY <1>2, <1>3, <1>4, QueueSet
<1>6. ReviewedOnward(v) \in Reviews /\ ReviewOK(ReviewedOnward(v), memories')
  BY <1>1, ReviewedRight
<1>7. rev' = [rev EXCEPT ![r] = ReviewedOnward(v)]
  BY DEF Finish
<1> QED BY <1>2, <1>5, <1>6, <1>7, ReviewTaken DEF TablesOK, ChangeOK

\* A person restores a retired memory.
LEMMA LoadRetiredStep ==
    ASSUME HygieneInv, NEW r \in Reviewers, LoadRetired(r)
    PROVE  TablesOK /\ ReviewsOK /\ UNCHANGED <<req, job>>
<1>1. PICK m \in Written \ Live :
        /\ Starts("restore")
        /\ rev' = [rev EXCEPT ![r] =
                     [NoReview EXCEPT !.op = "restore", !.step = "revive", !.win = m]]
        /\ UNCHANGED <<memories, rules, carrying, cards, req, queue, job>>
  BY DEF LoadRetired
<1>2. TablesOK
  BY <1>1, TablesKept, CallsCounted DEF Starts
<1>3. m \in Ids /\ memories[m] # None
  BY DEF Written
<1> DEFINE x == [NoReview EXCEPT !.op = "restore", !.step = "revive", !.win = m]
<1>4. x \in Reviews /\ x.step = "revive" /\ x.win = m
  BY <1>3 DEF NoReview, Reviews
<1> HIDE DEF x
<1>5. ReviewOK(x, memories')
  BY <1>1, <1>3, <1>4 DEF ReviewOK
<1>6. rev' = [rev EXCEPT ![r] = x]
  BY <1>1 DEF x
<1> QED BY <1>1, <1>2, <1>4, <1>5, <1>6, ReviewTaken DEF TablesOK, ChangeOK

\* A restored memory is live again, and its rule stays where it is.
LEMMA ReviveStep ==
    ASSUME HygieneInv, NEW r \in Reviewers, Revive(r)
    PROVE  TablesOK /\ ReviewsOK /\ UNCHANGED <<req, job>>
<1> DEFINE m == rev[r].win
           row == [memories[m] EXCEPT !.retired = FALSE, !.successor = None]
<1>1. m \in Ids /\ memories[m] # None
  BY DEF HygieneInv, Revive, ReviewOK
<1>2. UNCHANGED <<rules, carrying, cards, req, calls, queue, job>> /\ rev' = [rev EXCEPT ![r] = NoReview]
  BY DEF Revive
<1>3. memories[m] \in Row /\ memories \in [Ids -> Row \cup {None}]
  BY <1>1 DEF HygieneInv, TypeOK, MemoriesTypeOK
<1>4. /\ row \in Row /\ row.rank = memories[m].rank /\ row.session = memories[m].session
      /\ row.kind = memories[m].kind
  BY <1>3 DEF Row
<1>5. memories' = [memories EXCEPT ![m] = row]
  BY <1>1, <1>3 DEF Revive
<1> HIDE DEF m, row
<1>6. m \notin LockedMemories
  BY DEF Revive, m
<1>7. ChangeOK
  BY <1>1, <1>2, <1>4, <1>5, <1>6, UpdateSound
<1>8. TablesOK
  BY <1>2, <1>7, TablesChanged
<1> QED BY <1>2, <1>8, RestIsRight, ReviewTaken DEF TablesOK, ChangeOK

\* An agent challenges a live memory.
LEMMA ChallengeStep ==
    ASSUME HygieneInv, NEW r \in Reviewers, Challenge(r)
    PROVE  TablesOK /\ ReviewsOK /\ UNCHANGED <<req, job>>
<1>1. PICK m \in Live :
        /\ Starts("challenge")
        /\ rev' = [rev EXCEPT ![r] =
                     [NoReview EXCEPT !.op = "challenge", !.step = "open", !.key = {m}]]
        /\ UNCHANGED <<memories, rules, carrying, cards, req, queue, job>>
  BY DEF Challenge
<1>2. TablesOK
  BY <1>1, TablesKept, CallsCounted DEF Starts
<1>3. {m} \in Keys
  BY LiveIsThere DEF Keys, Singles
<1> DEFINE x == [NoReview EXCEPT !.op = "challenge", !.step = "open", !.key = {m}]
<1>4. x \in Reviews /\ x.step = "open" /\ x.key = {m}
  BY <1>3 DEF NoReview, Reviews
<1> HIDE DEF x
<1>5. ReviewOK(x, memories')
  BY <1>3, <1>4 DEF ReviewOK
<1>6. rev' = [rev EXCEPT ![r] = x]
  BY <1>1 DEF x
<1> QED BY <1>1, <1>2, <1>4, <1>5, <1>6, ReviewTaken DEF TablesOK, ChangeOK

\* The dispute is opened, unless there is one.
LEMMA OpenDisputeStep ==
    ASSUME HygieneInv, NEW r \in Reviewers, OpenDispute(r)
    PROVE  TablesOK /\ ReviewsOK /\ UNCHANGED <<req, job>>
<1> DEFINE k == rev[r].key
           s == IF queue[k] = "none" THEN "pending" ELSE queue[k]
<1>1. k \in Keys /\ queue[k] \in RowStatus
  BY DEF HygieneInv, TypeOK, OpenDispute, ReviewOK
<1>2. UNCHANGED memoryVars /\ UNCHANGED <<req, job>> /\ rev' = [rev EXCEPT ![r] = NoReview]
  BY DEF OpenDispute, memoryVars
<1>3. /\ queue' = [queue EXCEPT ![k] = s] /\ s \in RowStatus /\ s # "none"
      /\ queue[k] \in ByPerson => s \in ByPerson
  BY <1>1 DEF OpenDispute, RowStatus, ByPerson
<1>4. TablesOK
  <2> HIDE DEF s, k
  <2> QED BY <1>1, <1>2, <1>3, QueueSet
<1> QED BY <1>2, <1>4, RestIsRight, ReviewTaken DEF TablesOK, ChangeOK

\* Every step of a reviewer.
LEMMA ReviewerStep ==
    ASSUME HygieneInv, NEW r \in Reviewers, Reviewer(r)
    PROVE  TablesOK /\ ReviewsOK /\ UNCHANGED <<req, job>>
  BY ResolveStep, ResolveByPolicyStep, NextOfBulkStep, RetireSideStep, CommitSideStep,
     SideFailsStep, FinishStep,
     LoadRetiredStep, ReviveStep, ChallengeStep, OpenDisputeStep DEF Reviewer

-----------------------------------------------------------------------------
(* The theorems *)

\* The corpora, the rule and the queue row a run starts with are right.
LEMMA InitRight ==
    ASSUME Init
    PROVE  HygieneInv
<1>1. memories \in [Ids -> Row \cup {None}]
  <2>1. PICK c \in Corpora :
           memories = [m \in Ids |-> IF m \in DOMAIN c THEN Fresh(c[m]) ELSE None]
    BY DEF Init, MemoriesInit
  <2>2. \A m \in DOMAIN c : Fresh(c[m]) \in Row
    BY CorporaFit, FreshIsRow
  <2> QED BY <2>1, <2>2
<1>2. PICK first \in {None} \cup {[memory |-> m, status |-> s] :
                                    m \in {1} \cap Live,
                                    s \in {"snoozed", "promoted", "dismissed"}} :
        rules = [i \in RuleIds |-> IF i = 1 THEN first ELSE None]
  BY DEF Init, MemoriesInit
<1>3. first \in RuleRow \cup {None}
  BY DEF RuleRow, RuleStatus, Live, Written
<1>4. rules \in [RuleIds -> RuleRow \cup {None}] /\ RulesApart
  BY <1>2, <1>3 DEF RulesApart
<1>5. /\ queue \in [Keys -> RowStatus]
      /\ carrying \in [Ids -> Carry \cup {None}] /\ Carrying = {}
  BY DEF Init, MemoriesInit, RowStatus, Carrying
<1>6. /\ cards \subseteq Ids /\ calls \in 0..MaxCalls
      /\ req = [w \in Workers |-> Idle]
      /\ rev = [r \in Reviewers |-> NoReview]
      /\ job = [j \in Jobs |-> NoJob]
  BY SizesAreNatural DEF Init, MemoriesInit
<1>7. TypeOK
  BY <1>1, <1>4, <1>5, <1>6, RestIsRight DEF TypeOK, MemoriesTypeOK
<1> QED BY <1>4, <1>5, <1>6, <1>7, RestIsRight DEF HygieneInv, CarriesOK, CarriesApart

\* Every step keeps the invariant and does to the tables what it may.
LEMMA StepRight ==
    ASSUME HygieneInv, [Next]_vars
    PROVE  HygieneInv' /\ TablesOK
<1>1. ASSUME TablesOK, RequestsOK, ReviewsOK, RunsOK
      PROVE  HygieneInv'
  <2>1. TypeOK'
    BY <1>1 DEF TypeOK, MemoriesTypeOK, TablesOK, ChangeOK, RequestsOK, ReviewsOK, RunsOK
  <2> QED BY <1>1, <2>1 DEF HygieneInv, TablesOK, ChangeOK, RequestsOK, ReviewsOK, RunsOK
<1>2. CASE MemoriesNext /\ UNCHANGED <<queue, rev, job>>
  <2>1. TablesOK /\ RequestsOK
    BY <1>2, MemoriesStep
  <2>2. Evolves /\ Grows
    BY <2>1 DEF TablesOK, ChangeOK
  <2>3. ReviewsOK /\ RunsOK
    BY <1>2, <2>2, ReviewsKept, RunsKept
  <2> QED BY <1>1, <2>1, <2>3
<1>3. ASSUME NEW j \in Jobs, Scanner(j)
      PROVE  HygieneInv' /\ TablesOK
  <2>1. TablesOK /\ RunsOK /\ UNCHANGED <<req, rev>>
    BY <1>3, ScannerStep
  <2>2. Evolves /\ Grows
    BY <2>1 DEF TablesOK, ChangeOK
  <2>3. RequestsOK /\ ReviewsOK
    BY <2>1, <2>2, RequestsKept, ReviewsKept
  <2> QED BY <1>1, <2>1, <2>3
<1>4. ASSUME NEW r \in Reviewers, Reviewer(r)
      PROVE  HygieneInv' /\ TablesOK
  <2>1. TablesOK /\ ReviewsOK /\ UNCHANGED <<req, job>>
    BY <1>4, ReviewerStep
  <2>2. Evolves /\ Grows
    BY <2>1 DEF TablesOK, ChangeOK
  <2>3. RequestsOK /\ RunsOK
    BY <2>1, <2>2, RequestsKept, RunsKept
  <2> QED BY <1>1, <2>1, <2>3
<1>5. CASE UNCHANGED vars
  <2>1. UNCHANGED <<memories, rules, carrying, cards, req, calls, queue, rev, job>>
    BY <1>5 DEF vars, memoryVars
  <2>2. TablesOK
    BY <2>1, TablesKept DEF HygieneInv, TypeOK, MemoriesTypeOK
  <2>3. Evolves /\ Grows
    BY <2>2 DEF TablesOK, ChangeOK
  <2>4. RequestsOK /\ ReviewsOK /\ RunsOK
    BY <2>1, <2>3, RequestsKept, ReviewsKept, RunsKept
  <2> QED BY <1>1, <2>2, <2>4
<1> QED BY <1>2, <1>3, <1>4, <1>5 DEF Next

\* The invariant holds in every state the requests, the runs of the scanner
\* and the reviewers can reach together.
THEOREM HygieneInvariant == Spec => []HygieneInv
<1>1. Init => HygieneInv
  BY InitRight
<1>2. HygieneInv /\ [Next]_vars => HygieneInv'
  BY StepRight
<1> QED BY <1>1, <1>2, PTL DEF Spec

\* Every table, request and run keeps its kind of value, the kinds auditKinds
\* writes included.
THEOREM HygieneTypes == Spec => []TypeOK
<1>1. HygieneInv => TypeOK
  BY DEF HygieneInv
<1> QED BY <1>1, HygieneInvariant, PTL

\* decideAction and the session rule keep to the provenance of the memories
\* when the retirement happens, though the kinds were read before.
THEOREM AuthorityRespected == Spec => []ScannerRespectsAuthority
<1>1. HygieneInv => ScannerRespectsAuthority
  BY DEF HygieneInv, RunOK, RetireOK, ScannerRespectsAuthority
<1> QED BY <1>1, HygieneInvariant, PTL

\* A run never decides a pair that was on the queue when it began.
THEOREM QueueHonoured == Spec => []ScansHonourQueue
<1>1. HygieneInv => ScansHonourQueue
  BY DEF HygieneInv, RunOK, RetireOK, ScansHonourQueue
<1> QED BY <1>1, HygieneInvariant, PTL

\* What a person decided of a row of the queue stays decided by a person.
THEOREM DecisionsStandForGood == Spec => PersonsDecisionStands
<1>1. HygieneInv /\ [Next]_vars => [DecisionsStand]_vars
  BY StepRight DEF TablesOK, ChangeOK
<1> QED BY <1>1, HygieneInvariant, PTL DEF Spec, PersonsDecisionStands

\* carry_rule_to_successor loses, doubles and demotes no promoted rule,
\* whatever request or run retires the memory.
THEOREM RulesCarried == Spec => RulesFollowMemories
<1>1. HygieneInv /\ [Next]_vars => [RulesStayOrMove]_vars
  BY StepRight DEF TablesOK, ChangeOK
<1> QED BY <1>1, HygieneInvariant, PTL DEF Spec, RulesFollowMemories

\* What a person decided against a rule outlasts every carry, whatever was
\* proposed, promoted or dismissed between its reading and its writing.
THEOREM RulesOutlastCarries == Spec => SettledRulesSurvive
<1>1. HygieneInv /\ [Next]_vars => [SettledRulesStay]_vars
  BY StepRight DEF TablesOK, ChangeOK
<1> QED BY <1>1, HygieneInvariant, PTL DEF Spec, SettledRulesSurvive
=============================================================================
