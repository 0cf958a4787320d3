----------------------------- MODULE WorkClaims -----------------------------
(***************************************************************************)
(* Claims on background work that is paid for: an owner's hygiene scan or  *)
(* benchmark.  The server claims the owner's key in a table all instances  *)
(* share, hands the work to the jobs function with the claim's token, and  *)
(* a worker confirms the claim before it spends anything and releases it   *)
(* when the work ends.  Requests end early or freeze, hand-offs fail or    *)
(* come late, deliveries repeat, answers are lost, workers die or run out  *)
(* of time; a hold that nobody ends runs out.                              *)
(*                                                                         *)
(* Time is counted down: one Tick takes one unit from every limit that     *)
(* runs, so that only the order of the limits matters.  A limit of n stops *)
(* at the n-th tick.                                                       *)
(***************************************************************************)
EXTENDS Naturals

CONSTANTS
    Keys,        \* claimed work of an owner: <work>#<owner>
    Benchmarks,  \* the keys whose request works on between claim and hand-off
    Tokens,      \* the claims requests may take; bound: each is taken once
    Workers,     \* invocations of the jobs function that run at once
    None,
    Ttl,           \* how long a claim holds while its work waits
    Lease,         \* how long it holds once confirmed
    Evidence,      \* how long its record outlives the hold
    RequestLimit,  \* how long a request may run
    EventAge,      \* how long an event may wait to be delivered
    JobTimeout     \* how long a job may run

Limits == <<Ttl, Lease, Evidence, RequestLimit, EventAge, JobTimeout>>

\* The lease outlives a job, and a record outlives the wait for its job.
ASSUME ClaimsAssumption ==
    /\ Benchmarks \subseteq Keys
    /\ None \notin Keys \cup Tokens
    /\ \A i \in 1..6 : Limits[i] \in Nat \ {0}
    /\ JobTimeout <= Lease
    /\ RequestLimit + EventAge + JobTimeout <= Ttl + Evidence

VARIABLES
    items,     \* the record of each key in the table
    requests,  \* the request that took each claim
    queue,     \* how long the event of each claim may still be delivered
    jobs,      \* what each worker does
    latest,    \* history: the last claim taken on a key
    confirmed, \* history: the claims that were confirmed
    begun      \* history: the claims whose work was begun

vars == <<items, requests, queue, jobs, latest, confirmed, begun>>

Item == [token : Tokens \cup {None}, left : Nat,
         state : {"absent", "queued", "running", "released"}]

Request == [phase : {"none", "open", "frozen", "handed", "late", "ended"},
            key : Keys \cup {None}, left : Nat]

Job == [phase : {"idle", "confirming", "working", "releasing"},
        token : Tokens \cup {None}, left : Nat]

Absent == [token |-> None, state |-> "absent", left |-> 0]
NoRequest == [phase |-> "none", key |-> None, left |-> 0]
Idle == [phase |-> "idle", token |-> None, left |-> 0]

KeyOf(t) == requests[t].key

\* A claim holds through the second heldUntil names, one past its length.
HeldFor(t, state, length) ==
    [token |-> t, state |-> state, left |-> length + 1 + Evidence]

Queued(t) == HeldFor(t, "queued", Ttl)

\* Mutant: the confirmation does not extend the hold.
RunningAsHeld(t) == [items[KeyOf(t)] EXCEPT !.state = "running"]

Running(t) == HeldFor(t, "running", Lease)

\* Mutant: a hold does not run out.
ClaimableWhenEnded(k) == items[k].state \in {"absent", "released"}

Claimable(k) ==
    \/ items[k].state \in {"absent", "released"}
    \/ items[k].left <= Evidence

\* Mutant: the confirmation compares the token alone.
MayRunAgain(t) == items[KeyOf(t)].token = t

MayRun(t) == items[KeyOf(t)].token = t /\ items[KeyOf(t)].state = "queued"

\* The table after a release with a claim's token.
Released(t) ==
    IF items[KeyOf(t)].token = t
    THEN [items EXCEPT ![KeyOf(t)].state = "released"]
    ELSE items

\* A request that is over, or whose work is no longer its own.
Closed(t, phase) ==
    [requests EXCEPT ![t] = [phase |-> phase, key |-> KeyOf(t), left |-> 0]]

\* Mutant: the record is given no longer than its hold.
OutdatedWithHold(k) == items[k].state # "absent" /\ items[k].left <= Evidence

\* The table may drop a record from then on.
Outdated(k) == items[k].state # "absent" /\ items[k].left = 0

Init ==
    /\ items = [k \in Keys |-> Absent]
    /\ requests = [t \in Tokens |-> NoRequest]
    /\ queue = [t \in Tokens |-> 0]
    /\ jobs = [v \in Workers |-> Idle]
    /\ latest = [k \in Keys |-> None]
    /\ confirmed = {}
    /\ begun = {}

-----------------------------------------------------------------------------
(* The server.  A claim that is refused changes nothing. *)

Take(t, k) ==
    /\ requests[t].phase = "none"
    /\ Claimable(k)
    /\ items' = [items EXCEPT ![k] = Queued(t)]
    /\ latest' = [latest EXCEPT ![k] = t]
    /\ UNCHANGED <<queue, jobs, confirmed, begun>>

Claim(t, k) ==
    /\ Take(t, k)
    /\ requests' = [requests EXCEPT ![t] =
                      [phase |-> "open", key |-> k, left |-> RequestLimit]]

\* The record is written and the answer is lost: nobody knows the token.
ClaimLost(t, k) ==
    /\ Take(t, k)
    /\ requests' = [requests EXCEPT ![t] =
                      [phase |-> "ended", key |-> k, left |-> 0]]

\* The event is in the jobs function's queue; late, when the instance had
\* answered and froze before the hand-off was through.
HandOff(t) ==
    /\ requests[t].phase \in {"open", "frozen"}
    /\ requests' = Closed(t, IF requests[t].phase = "open"
                             THEN "handed" ELSE "late")
    /\ queue' = [queue EXCEPT ![t] = EventAge]
    /\ UNCHANGED <<items, jobs, latest, confirmed, begun>>

\* The request fails between its claim and the hand-off, and cleans up.
GiveUp(t) ==
    /\ requests[t].phase = "open"
    /\ KeyOf(t) \in Benchmarks
    /\ items' = Released(t)
    /\ requests' = Closed(t, "ended")
    /\ UNCHANGED <<queue, jobs, latest, confirmed, begun>>

\* The hand-off fails and is only logged, or the instance is gone: nothing
\* was queued and the claim stays.
RequestLost(t) ==
    /\ requests[t].phase \in {"open", "frozen"}
    /\ requests' = Closed(t, "ended")
    /\ UNCHANGED <<items, queue, jobs, latest, confirmed, begun>>

-----------------------------------------------------------------------------
(* The jobs function. *)

\* An event is delivered at least once: it may stay to be delivered again.
Deliver(v, t) ==
    /\ jobs[v].phase = "idle"
    /\ queue[t] > 0
    /\ jobs' = [jobs EXCEPT ![v] =
                  [phase |-> "confirming", token |-> t, left |-> JobTimeout]]
    /\ queue' \in {queue, [queue EXCEPT ![t] = 0]}
    /\ UNCHANGED <<items, requests, latest, confirmed, begun>>

ConfirmWritten(v) ==
    /\ jobs[v].phase = "confirming"
    /\ MayRun(jobs[v].token)
    /\ items' = [items EXCEPT ![KeyOf(jobs[v].token)] = Running(jobs[v].token)]
    /\ confirmed' = confirmed \cup {jobs[v].token}
    /\ UNCHANGED <<requests, queue, latest>>

Confirm(v) ==
    /\ ConfirmWritten(v)
    /\ jobs' = [jobs EXCEPT ![v].phase = "working"]
    /\ begun' = begun \cup {jobs[v].token}

\* The write is made and its answer is lost: the job ends without its work.
ConfirmLost(v) ==
    /\ ConfirmWritten(v)
    /\ jobs' = [jobs EXCEPT ![v] = Idle]
    /\ UNCHANGED begun

Skip(v) ==
    /\ jobs[v].phase = "confirming"
    /\ ~MayRun(jobs[v].token)
    /\ jobs' = [jobs EXCEPT ![v] = Idle]
    /\ UNCHANGED <<items, requests, queue, latest, confirmed, begun>>

\* The work ends, well or badly; the release comes next.
WorkEnds(v) ==
    /\ jobs[v].phase = "working"
    /\ jobs' = [jobs EXCEPT ![v].phase = "releasing"]
    /\ UNCHANGED <<items, requests, queue, latest, confirmed, begun>>

Release(v) ==
    /\ jobs[v].phase = "releasing"
    /\ items' = Released(jobs[v].token)
    /\ jobs' = [jobs EXCEPT ![v] = Idle]
    /\ UNCHANGED <<requests, queue, latest, confirmed, begun>>

\* The worker dies, or the table does not answer it.
Die(v) ==
    /\ jobs[v].phase # "idle"
    /\ jobs' = [jobs EXCEPT ![v] = Idle]
    /\ UNCHANGED <<items, requests, queue, latest, confirmed, begun>>

-----------------------------------------------------------------------------
(* Time. *)

Drop(k) ==
    /\ Outdated(k)
    /\ items' = [items EXCEPT ![k] = Absent]
    /\ UNCHANGED <<requests, queue, jobs, latest, confirmed, begun>>

Less(n) == IF n > 0 THEN n - 1 ELSE 0

\* A request at its limit is answered and its instance freezes.
RequestTicks(r) ==
    [r EXCEPT !.left = Less(@),
              !.phase = IF @ = "open" /\ r.left <= 1 THEN "frozen" ELSE @]

\* A job at its limit is killed.
JobTicks(j) == IF j.left <= 1 THEN Idle ELSE [j EXCEPT !.left = @ - 1]

Tick ==
    /\ items' = [k \in Keys |-> [items[k] EXCEPT !.left = Less(@)]]
    /\ requests' = [t \in Tokens |-> RequestTicks(requests[t])]
    /\ queue' = [t \in Tokens |-> Less(queue[t])]
    /\ jobs' = [v \in Workers |-> JobTicks(jobs[v])]
    /\ UNCHANGED <<latest, confirmed, begun>>

Next ==
    \/ \E t \in Tokens, k \in Keys : Claim(t, k) \/ ClaimLost(t, k)
    \/ \E t \in Tokens : HandOff(t) \/ GiveUp(t) \/ RequestLost(t)
    \/ \E v \in Workers, t \in Tokens : Deliver(v, t)
    \/ \E v \in Workers :
          \/ Confirm(v) \/ ConfirmLost(v) \/ Skip(v)
          \/ WorkEnds(v) \/ Release(v) \/ Die(v)
    \/ \E k \in Keys : Drop(k)
    \/ Tick

Spec == Init /\ [][Next]_vars

\* Time passes.  Nothing else is certain: requests and workers may be lost.
FairSpec == Spec /\ WF_vars(Tick)

-----------------------------------------------------------------------------
(* Properties. *)

TypeOK ==
    /\ items \in [Keys -> Item]
    /\ requests \in [Tokens -> Request]
    /\ queue \in [Tokens -> Nat]
    /\ jobs \in [Workers -> Job]
    /\ latest \in [Keys -> Tokens \cup {None}]
    /\ confirmed \subseteq Tokens
    /\ begun \subseteq confirmed

\* Only a claim that was taken has a key, an event, a job or a history.
ClaimTaken(t) ==
    /\ requests[t].phase = "none" <=> KeyOf(t) = None
    /\ queue[t] > 0 => requests[t].phase \in {"handed", "late"}
    /\ t \in confirmed => requests[t].phase \in {"handed", "late"}

JobTaken(j) ==
    j.phase # "idle" =>
        /\ j.token \in Tokens
        /\ j.left \in 1..JobTimeout
        /\ requests[j.token].phase \in {"handed", "late"}
        /\ j.phase # "confirming" => j.token \in begun

\* A record in the table is that of the key's latest claim, and a claim once
\* confirmed does not wait again.
RecordIsLatest(k) ==
    LET i == items[k] IN
    /\ i.state = "absent" <=> i.token = None
    /\ i.state # "absent" =>
          /\ i.token = latest[k]
          /\ KeyOf(i.token) = k
          /\ i.state = "queued" => i.token \notin confirmed

\* Work that runs has a hold that outlasts the time it is given.
HoldOutlives(j) ==
    j.phase = "working" =>
        LET i == items[KeyOf(j.token)] IN
        /\ i.token = j.token
        /\ i.state = "running"
        /\ i.left >= Evidence + j.left

\* No two workers have begun the work of one claim or work on one key.
OneAtATime ==
    \A u, v \in Workers :
        LET Past(p) == jobs[u].phase \in p /\ jobs[v].phase \in p /\ u # v IN
        /\ Past({"working", "releasing"}) => jobs[u].token # jobs[v].token
        /\ Past({"working"}) => KeyOf(jobs[u].token) # KeyOf(jobs[v].token)

\* The claim waits in its record for at least another n.
Waits(t, n) == MayRun(t) /\ items[KeyOf(t)].left >= n

Unconfirmed(t) == latest[KeyOf(t)] = t /\ t \notin confirmed

\* A claim that is handed over in time finds its record, however long its
\* request, its event and its job take from where they are.
RecordOutlivesWait(t) ==
    /\ requests[t].phase = "open" =>
          /\ requests[t].left > 0
          /\ Unconfirmed(t) => Waits(t, requests[t].left + EventAge + JobTimeout)
    /\ requests[t].phase = "handed" /\ Unconfirmed(t) =>
          /\ queue[t] > 0 => Waits(t, queue[t] + JobTimeout)
          /\ \A v \in Workers :
                jobs[v].phase = "confirming" /\ jobs[v].token = t
                    => Waits(t, jobs[v].left)

ClaimInv ==
    /\ TypeOK
    /\ \A t \in Tokens : ClaimTaken(t)
    /\ \A v \in Workers : JobTaken(jobs[v])
    /\ \A k \in Keys : RecordIsLatest(k)
    /\ \A v \in Workers : HoldOutlives(jobs[v])
    /\ OneAtATime
    /\ \A t \in Tokens : RecordOutlivesWait(t)

\* A job that is turned away is obsolete: its claim was confirmed before, a
\* newer claim has the key, or it was handed over after its request had been
\* answered.  However long it waited, it finds the record that tells it.
SkippedOnlyIfObsolete ==
    \A v \in Workers :
        LET t == jobs[v].token IN
        jobs[v].phase = "confirming" /\ ~MayRun(t) =>
            \/ t \in confirmed
            \/ latest[KeyOf(t)] # t
            \/ requests[t].phase = "late"

\* No claim blocks its key for good, whatever became of its work.
KeysComeFree == \A k \in Keys : []<>Claimable(k)

Ledger == INSTANCE ClaimLedger WITH
    keyOf <- [t \in Tokens |-> KeyOf(t)],
    running <- {jobs[v].token : v \in {u \in Workers : jobs[u].phase = "working"}}

\* Through every loss and repetition, a key's work runs alone, and once for
\* each claim, which is then the latest.
KeepsLedger == Ledger!LedgerSpec
=============================================================================
