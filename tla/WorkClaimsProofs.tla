-------------------------- MODULE WorkClaimsProofs --------------------------
(***************************************************************************)
(* Proofs about WorkClaims, for any keys, claims and workers and any       *)
(* limits in the order the deployment gives them.  The argument is         *)
(* ClaimInv: a claim waits in its record longer than its request, its      *)
(* event and its job may take together, and work that runs is held longer  *)
(* than it may run, so that a record out of hold has no work behind it.    *)
(***************************************************************************)
EXTENDS WorkClaims, TLAPS

LEMMA LimitTypes ==
  /\ Ttl \in Nat \ {0} /\ Lease \in Nat \ {0} /\ Evidence \in Nat \ {0}
  /\ RequestLimit \in Nat \ {0} /\ EventAge \in Nat \ {0}
  /\ JobTimeout \in Nat \ {0}
  /\ JobTimeout <= Lease
  /\ RequestLimit + EventAge + JobTimeout <= Ttl + Evidence
  /\ None \notin Keys /\ None \notin Tokens
<1>1. /\ Limits[1] = Ttl /\ Limits[2] = Lease /\ Limits[3] = Evidence
      /\ Limits[4] = RequestLimit /\ Limits[5] = EventAge
      /\ Limits[6] = JobTimeout
  BY DEF Limits
<1> QED BY <1>1, ClaimsAssumption

LEMMA InitInv == Init => ClaimInv
<1> SUFFICES ASSUME Init PROVE ClaimInv
  OBVIOUS
<1> USE LimitTypes DEF Init, Absent, NoRequest, Idle
<1>1. TypeOK
  BY DEF TypeOK, Item, Request, Job
<1>2. /\ \A t \in Tokens : ClaimTaken(t) /\ RecordOutlivesWait(t)
      /\ \A v \in Workers : JobTaken(jobs[v]) /\ HoldOutlives(jobs[v])
  BY DEF ClaimTaken, RecordOutlivesWait, JobTaken, HoldOutlives, KeyOf
<1>3. \A k \in Keys : RecordIsLatest(k)
  BY DEF RecordIsLatest
<1>4. OneAtATime
  BY DEF OneAtATime
<1> QED BY <1>1, <1>2, <1>3, <1>4 DEF ClaimInv

\* A claim that was taken has a key.
LEMMA KeyTypes ==
  ASSUME ClaimInv
  PROVE  /\ \A t \in Tokens : requests[t].phase # "none" => KeyOf(t) \in Keys
         /\ \A v \in Workers : jobs[v].phase # "idle" =>
               jobs[v].token \in Tokens /\ KeyOf(jobs[v].token) \in Keys
         /\ \A k \in Keys : items[k].state # "absent" => items[k].token \in Tokens
<1>1. \A t \in Tokens : requests[t].phase # "none" => KeyOf(t) \in Keys
  BY DEF ClaimInv, ClaimTaken, TypeOK, Request, KeyOf
<1>2. \A v \in Workers : jobs[v].phase # "idle" =>
        jobs[v].token \in Tokens /\ KeyOf(jobs[v].token) \in Keys
  BY <1>1 DEF ClaimInv, JobTaken
<1>3. \A k \in Keys : items[k].state # "absent" => items[k].token \in Tokens
  BY DEF ClaimInv, RecordIsLatest, TypeOK, Item
<1> QED BY <1>1, <1>2, <1>3

\* A key a new claim may take has no work running.
LEMMA ClaimableIsQuiet ==
  ASSUME ClaimInv, NEW k \in Keys, Claimable(k), NEW v \in Workers,
         jobs[v].phase = "working"
  PROVE  KeyOf(jobs[v].token) # k
<1>1. jobs[v].left \in Nat /\ jobs[v].left > 0 /\ items[k].left \in Nat
  BY DEF ClaimInv, TypeOK, Job, Item, JobTaken
<1>2. KeyOf(jobs[v].token) = k =>
        items[k].state = "running" /\ items[k].left >= Evidence + jobs[v].left
  BY DEF ClaimInv, HoldOutlives
<1> QED BY <1>1, <1>2, LimitTypes DEF Claimable

\* A claim that may run has no work running on its key.
LEMMA QueuedIsQuiet ==
  ASSUME ClaimInv, NEW t, MayRun(t), NEW v \in Workers,
         jobs[v].phase = "working"
  PROVE  KeyOf(jobs[v].token) # KeyOf(t)
<1>1. KeyOf(jobs[v].token) = KeyOf(t) => items[KeyOf(t)].state = "running"
  BY DEF ClaimInv, HoldOutlives
<1> QED BY <1>1 DEF MayRun

\* A claim is taken, and its request is open or gone.
LEMMA TakeKeeps ==
  ASSUME ClaimInv, NEW t \in Tokens, NEW k \in Keys,
         Claim(t, k) \/ ClaimLost(t, k)
  PROVE  ClaimInv'
<1> DEFINE R == {[phase |-> "open", key |-> k, left |-> RequestLimit],
                 [phase |-> "ended", key |-> k, left |-> 0]}
<1>1. PICK r \in R : requests' = [requests EXCEPT ![t] = r]
  BY DEF Claim, ClaimLost
<1>2. /\ requests[t].phase = "none"
      /\ Claimable(k)
      /\ items' = [items EXCEPT ![k] = Queued(t)]
      /\ latest' = [latest EXCEPT ![k] = t]
      /\ UNCHANGED <<queue, jobs, confirmed, begun>>
  BY DEF Claim, ClaimLost, Take
<1>3. Queued(t) = [token |-> t, state |-> "queued", left |-> Ttl + 1 + Evidence]
  BY DEF Queued, HeldFor
<1>4. TypeOK
  BY DEF ClaimInv
<1>5. TypeOK'
  BY <1>1, <1>2, <1>3, <1>4, LimitTypes DEF TypeOK, Item, Request
<1>6. t \notin confirmed /\ queue[t] = 0 /\ KeyOf(t) = None
  BY <1>2, <1>4 DEF ClaimInv, ClaimTaken, TypeOK
<1>7. /\ KeyOf(t)' = k
      /\ \A s \in Tokens \ {t} : requests'[s] = requests[s] /\ KeyOf(s)' = KeyOf(s)
  BY <1>1, <1>4 DEF TypeOK, KeyOf
<1>8. \A v \in Workers : jobs[v].phase # "idle" => jobs[v].token \in Tokens \ {t}
  BY <1>2 DEF ClaimInv, JobTaken
<1>9. /\ items'[k] = Queued(t) /\ latest'[k] = t
      /\ \A j \in Keys \ {k} : items'[j] = items[j] /\ latest'[j] = latest[j]
  BY <1>2, <1>4 DEF TypeOK
<1>10. ASSUME NEW s \in Tokens
       PROVE  ClaimTaken(s)'
  <2>1. CASE s = t
    BY <2>1, <1>1, <1>2, <1>4, <1>6, <1>7, LimitTypes DEF ClaimTaken, TypeOK
  <2>2. CASE s # t
    BY <2>2, <1>2, <1>7 DEF ClaimInv, ClaimTaken
  <2> QED BY <2>1, <2>2
<1>11. ASSUME NEW v \in Workers
       PROVE  JobTaken(jobs[v])'
  BY <1>2, <1>7, <1>8 DEF ClaimInv, JobTaken
<1>12. ASSUME NEW j \in Keys
       PROVE  RecordIsLatest(j)'
  <2>1. CASE j = k
    BY <2>1, <1>2, <1>3, <1>6, <1>7, <1>9, LimitTypes DEF RecordIsLatest
  <2>2. CASE j # k
    <3>1. items[j].state # "absent" => items[j].token \in Tokens \ {t}
      BY <1>6, KeyTypes, LimitTypes DEF ClaimInv, RecordIsLatest
    <3> QED BY <2>2, <3>1, <1>2, <1>7, <1>9 DEF ClaimInv, RecordIsLatest
  <2> QED BY <2>1, <2>2
<1>13. ASSUME NEW v \in Workers, jobs[v].phase = "working"
       PROVE  /\ KeyOf(jobs[v].token)' = KeyOf(jobs[v].token)
              /\ items'[KeyOf(jobs[v].token)] = items[KeyOf(jobs[v].token)]
  <2>1. KeyOf(jobs[v].token) \in Keys \ {k}
    BY <1>2, <1>13, ClaimableIsQuiet, KeyTypes
  <2> QED BY <2>1, <1>2, <1>7, <1>8, <1>9, <1>13 DEF KeyOf
<1>14. ASSUME NEW v \in Workers
       PROVE  HoldOutlives(jobs[v])'
  BY <1>2, <1>13 DEF ClaimInv, HoldOutlives
<1>15. OneAtATime'
  BY <1>2, <1>13 DEF ClaimInv, OneAtATime
<1>16. ASSUME NEW s \in Tokens
       PROVE  RecordOutlivesWait(s)'
  <2>1. CASE s = t
    <3>1. requests'[s] = r
      BY <2>1, <1>1, <1>4 DEF TypeOK
    <3> QED BY <2>1, <3>1, <1>3, <1>7, <1>9, LimitTypes
            DEF RecordOutlivesWait, Waits, MayRun
  <2>2. CASE s # t
    <3>1. requests[s].phase # "none" /\ Unconfirmed(s)' =>
            KeyOf(s) \in Keys \ {k} /\ Unconfirmed(s)
      BY <2>2, <1>2, <1>7, <1>9, KeyTypes DEF Unconfirmed
    <3>2. \A n : KeyOf(s) \in Keys \ {k} /\ Waits(s, n) => Waits(s, n)'
      BY <2>2, <1>7, <1>9 DEF Waits, MayRun
    <3> QED BY <2>2, <3>1, <3>2, <1>2, <1>7 DEF ClaimInv, RecordOutlivesWait
  <2> QED BY <2>1, <2>2
<1> QED BY <1>5, <1>10, <1>11, <1>12, <1>14, <1>15, <1>16 DEF ClaimInv

\* A request leaves its phase, and the table is as it was, or its own record
\* is ended.
LEMMA RequestKeeps ==
  ASSUME ClaimInv, NEW t \in Tokens, HandOff(t) \/ GiveUp(t) \/ RequestLost(t)
  PROVE  ClaimInv'
<1>1. PICK phase \in {"handed", "late", "ended"} : requests' = Closed(t, phase)
  BY DEF HandOff, GiveUp, RequestLost
<1>2. /\ requests[t].phase \in {"open", "frozen"}
      /\ UNCHANGED <<jobs, latest, confirmed, begun>>
  BY DEF HandOff, GiveUp, RequestLost
<1>3. TypeOK
  BY DEF ClaimInv
<1>4. KeyOf(t) \in Keys
  BY <1>2, KeyTypes
<1>5. /\ requests'[t] = [phase |-> phase, key |-> KeyOf(t), left |-> 0]
      /\ \A s \in Tokens \ {t} : requests'[s] = requests[s]
      /\ \A s \in Tokens : KeyOf(s)' = KeyOf(s)
  BY <1>1, <1>3 DEF TypeOK, KeyOf, Closed
<1>6. t \notin confirmed /\ queue[t] = 0
  BY <1>2, <1>3 DEF ClaimInv, ClaimTaken, TypeOK
<1>7. /\ queue' \in [Tokens -> Nat]
      /\ \A s \in Tokens \ {t} : queue'[s] = queue[s]
      /\ queue'[t] > 0 => phase \in {"handed", "late"}
      /\ phase = "handed" => requests[t].phase = "open" /\ queue'[t] = EventAge
  <2>1. CASE HandOff(t)
    <3>1. phase \in {"handed", "late"}
          /\ (phase = "handed" => requests[t].phase = "open")
      BY <2>1, <1>1, <1>3, <1>5 DEF HandOff, Closed, TypeOK
    <3> QED BY <2>1, <3>1, <1>3, LimitTypes DEF HandOff, TypeOK
  <2>2. CASE GiveUp(t) \/ RequestLost(t)
    <3>1. phase = "ended" /\ queue' = queue
      BY <2>2, <1>1, <1>3, <1>5 DEF GiveUp, RequestLost, Closed, TypeOK
    <3> QED BY <3>1, <1>3, <1>6 DEF TypeOK
  <2> QED BY <2>1, <2>2
<1>8. \/ items' = items
      \/ /\ items[KeyOf(t)].token = t
         /\ items' = [items EXCEPT ![KeyOf(t)].state = "released"]
         /\ phase = "ended"
  <2>1. CASE HandOff(t) \/ RequestLost(t)
    BY <2>1 DEF HandOff, RequestLost
  <2>2. CASE GiveUp(t)
    <3>1. phase = "ended"
      BY <2>2, <1>1, <1>3, <1>5 DEF GiveUp, Closed, TypeOK
    <3> QED BY <2>2, <3>1 DEF GiveUp, Released
  <2> QED BY <2>1, <2>2
<1>9. TypeOK'
  <2>1. requests' \in [Tokens -> Request]
    <3>1. [phase |-> phase, key |-> KeyOf(t), left |-> 0] \in Request
      BY <1>4 DEF Request
    <3> QED BY <3>1, <1>1, <1>3 DEF TypeOK, Closed
  <2>2. items' \in [Keys -> Item]
    <3>1. [items[KeyOf(t)] EXCEPT !.state = "released"] \in Item
      BY <1>3, <1>4 DEF TypeOK, Item
    <3> QED BY <3>1, <1>3, <1>8 DEF TypeOK
  <2> QED BY <2>1, <2>2, <1>2, <1>3, <1>7 DEF TypeOK
<1>10. /\ items'[KeyOf(t)].token = items[KeyOf(t)].token
       /\ items'[KeyOf(t)].left = items[KeyOf(t)].left
       /\ items'[KeyOf(t)].state \in {items[KeyOf(t)].state, "released"}
       /\ items'[KeyOf(t)].state # items[KeyOf(t)].state =>
             items[KeyOf(t)].token = t /\ phase = "ended"
       /\ \A k \in Keys \ {KeyOf(t)} : items'[k] = items[k]
  BY <1>3, <1>4, <1>8 DEF TypeOK, Item
<1>11. ASSUME NEW s \in Tokens
       PROVE  ClaimTaken(s)'
  <2>1. CASE s = t
    BY <2>1, <1>2, <1>4, <1>5, <1>6, <1>7, LimitTypes DEF ClaimTaken
  <2>2. CASE s # t
    BY <2>2, <1>2, <1>5, <1>7 DEF ClaimInv, ClaimTaken
  <2> QED BY <2>1, <2>2
<1>12. \A v \in Workers : jobs[v].phase # "idle" => jobs[v].token \in Tokens \ {t}
  BY <1>2 DEF ClaimInv, JobTaken
<1>13. ASSUME NEW v \in Workers
       PROVE  JobTaken(jobs[v])'
  BY <1>2, <1>5, <1>12 DEF ClaimInv, JobTaken
<1>14. ASSUME NEW k \in Keys
       PROVE  RecordIsLatest(k)'
  <2>1. items'[k].token = items[k].token
        /\ items'[k].state \in {items[k].state, "released"}
        /\ (items'[k].state # items[k].state => items[k].token = t)
    BY <1>10
  <2>2. items[k].state = "absent" <=> items[k].token = None
    BY DEF ClaimInv, RecordIsLatest
  <2>3. items[k].state # "absent" => items[k].token \in Tokens
    BY KeyTypes
  <2> QED BY <2>1, <2>2, <2>3, <1>2, <1>5, LimitTypes DEF ClaimInv, RecordIsLatest
<1>15. ASSUME NEW v \in Workers
       PROVE  HoldOutlives(jobs[v])'
  <2> SUFFICES ASSUME jobs[v].phase = "working"
               PROVE  HoldOutlives(jobs[v])'
    BY <1>2 DEF HoldOutlives
  <2>1. jobs[v].token \in Tokens \ {t} /\ KeyOf(jobs[v].token) \in Keys
    BY <1>12, KeyTypes
  <2>2. items[KeyOf(jobs[v].token)].token = jobs[v].token
    BY DEF ClaimInv, HoldOutlives
  <2>3. items'[KeyOf(jobs[v].token)] = items[KeyOf(jobs[v].token)]
    <3>1. CASE KeyOf(jobs[v].token) = KeyOf(t)
      BY <3>1, <2>1, <2>2, <1>8
    <3>2. CASE KeyOf(jobs[v].token) # KeyOf(t)
      BY <3>2, <2>1, <1>10
    <3> QED BY <3>1, <3>2
  <2>4. KeyOf(jobs[v].token)' = KeyOf(jobs[v].token)
    BY <2>1, <1>2, <1>5 DEF KeyOf
  <2> QED BY <2>3, <2>4, <1>2 DEF ClaimInv, HoldOutlives
<1>16. OneAtATime'
  <2>1. \A v \in Workers : jobs[v].phase = "working" =>
          KeyOf(jobs[v].token)' = KeyOf(jobs[v].token)
    BY <1>2, <1>5, <1>12 DEF KeyOf
  <2> QED BY <2>1, <1>2 DEF ClaimInv, OneAtATime
<1>17. ASSUME NEW s \in Tokens
       PROVE  RecordOutlivesWait(s)'
  <2>1. CASE s = t
    <3>1. Unconfirmed(t)' => Unconfirmed(t)
      BY <1>2, <1>5 DEF Unconfirmed
    <3>2. \A v \in Workers : ~(jobs[v].phase = "confirming" /\ jobs[v].token = t)
      BY <1>12
    <3>3. CASE phase = "handed"
      <4>1. items' = items
        BY <3>3, <1>8
      <4>2. \A n : Waits(t, n) => Waits(t, n)'
        BY <4>1, <1>5 DEF Waits, MayRun
      <4>3. Unconfirmed(t) => Waits(t, EventAge + JobTimeout)
        <5>1. Unconfirmed(t) => Waits(t, requests[t].left + EventAge + JobTimeout)
          BY <3>3, <1>7 DEF ClaimInv, RecordOutlivesWait
        <5>2. requests[t].left \in Nat /\ items[KeyOf(t)].left \in Nat
          BY <1>3, <1>4 DEF TypeOK, Request, Item
        <5> QED BY <5>1, <5>2, LimitTypes DEF Waits
      <4> QED BY <2>1, <3>1, <3>2, <3>3, <4>2, <4>3, <1>2, <1>5, <1>7
              DEF RecordOutlivesWait
    <3>4. CASE phase # "handed"
      BY <2>1, <3>4, <1>5 DEF RecordOutlivesWait
    <3> QED BY <3>3, <3>4
  <2>2. CASE s # t
    <3>1. Unconfirmed(s)' => Unconfirmed(s)
      BY <1>2, <1>5 DEF Unconfirmed
    <3>2. \A n : requests[s].phase # "none" /\ Waits(s, n) => Waits(s, n)'
      <4>1. requests[s].phase # "none" /\ items[KeyOf(s)].token = s =>
              KeyOf(s) \in Keys /\ items'[KeyOf(s)] = items[KeyOf(s)]
        BY <2>2, <1>8, <1>10, KeyTypes
      <4> QED BY <4>1, <1>5 DEF Waits, MayRun
    <3> QED BY <2>2, <3>1, <3>2, <1>2, <1>5, <1>7 DEF ClaimInv, RecordOutlivesWait
  <2> QED BY <2>1, <2>2
<1> QED BY <1>9, <1>11, <1>13, <1>14, <1>15, <1>16, <1>17 DEF ClaimInv

\* A worker takes up an event.
LEMMA DeliverKeeps ==
  ASSUME ClaimInv, NEW u \in Workers, NEW t \in Tokens, Deliver(u, t)
  PROVE  ClaimInv'
<1> DEFINE J == [phase |-> "confirming", token |-> t, left |-> JobTimeout]
<1>1. /\ queue[t] > 0
      /\ jobs' = [jobs EXCEPT ![u] = J]
      /\ queue' \in {queue, [queue EXCEPT ![t] = 0]}
      /\ UNCHANGED <<items, requests, latest, confirmed, begun>>
  BY DEF Deliver
<1>2. TypeOK
  BY DEF ClaimInv
<1>3. TypeOK'
  BY <1>1, <1>2, LimitTypes DEF TypeOK, Job
<1>4. /\ jobs'[u] = J
      /\ \A v \in Workers \ {u} : jobs'[v] = jobs[v]
  BY <1>1, <1>2 DEF TypeOK
<1>5. \A s \in Tokens : queue'[s] \in {queue[s], 0}
  BY <1>1, <1>2 DEF TypeOK
<1>7. ASSUME NEW s \in Tokens
      PROVE  ClaimTaken(s)'
  BY <1>1, <1>5 DEF ClaimInv, ClaimTaken, KeyOf
<1>8. ASSUME NEW v \in Workers
      PROVE  JobTaken(jobs[v])' /\ HoldOutlives(jobs[v])'
  <2>1. CASE v = u
    <3>1. requests[t].phase \in {"handed", "late"}
      BY <1>1 DEF ClaimInv, ClaimTaken
    <3> QED BY <2>1, <3>1, <1>1, <1>4, LimitTypes DEF JobTaken, HoldOutlives
  <2>2. CASE v # u
    BY <2>2, <1>1, <1>4 DEF ClaimInv, JobTaken, HoldOutlives, KeyOf
  <2> QED BY <2>1, <2>2
<1>9. ASSUME NEW k \in Keys
      PROVE  RecordIsLatest(k)'
  BY <1>1 DEF ClaimInv, RecordIsLatest, KeyOf
<1>10. OneAtATime'
  BY <1>1, <1>4 DEF ClaimInv, OneAtATime, KeyOf
<1>11. ASSUME NEW s \in Tokens
       PROVE  RecordOutlivesWait(s)'
  <2>1. /\ Unconfirmed(s)' <=> Unconfirmed(s)
        /\ \A n : Waits(s, n)' <=> Waits(s, n)
    BY <1>1 DEF Unconfirmed, Waits, MayRun, KeyOf
  <2>2. queue[s] \in Nat /\ queue[t] \in Nat
    BY <1>2 DEF TypeOK
  <2>3. requests[t].phase = "handed" /\ Unconfirmed(t) => Waits(t, JobTimeout)
    <3>1. requests[t].phase = "handed" /\ Unconfirmed(t) =>
            Waits(t, queue[t] + JobTimeout)
      BY <1>1 DEF ClaimInv, RecordOutlivesWait
    <3>2. requests[t].phase = "handed" => items[KeyOf(t)].left \in Nat
      BY <1>2, KeyTypes DEF TypeOK, Item
    <3> QED BY <2>2, <3>1, <3>2, LimitTypes DEF Waits
  <2>4. queue'[s] > 0 => queue'[s] = queue[s]
    BY <1>5
  <2>5. requests[s].phase = "handed" /\ Unconfirmed(s) =>
          \A v \in Workers : jobs'[v].phase = "confirming" /\ jobs'[v].token = s
                               => Waits(s, jobs'[v].left)
    BY <2>3, <1>4 DEF ClaimInv, RecordOutlivesWait
  <2> QED BY <2>1, <2>4, <2>5, <1>1 DEF ClaimInv, RecordOutlivesWait
<1> QED BY <1>3, <1>7, <1>8, <1>9, <1>10, <1>11 DEF ClaimInv

\* A worker goes on to the release or stops, and changes no record.
LEMMA WorkerKeeps ==
  ASSUME ClaimInv, NEW u \in Workers, Skip(u) \/ WorkEnds(u) \/ Die(u)
  PROVE  ClaimInv'
<1>1. /\ UNCHANGED <<items, requests, queue, latest, confirmed, begun>>
      /\ \/ jobs' = [jobs EXCEPT ![u] = Idle]
         \/ /\ jobs[u].phase = "working"
            /\ jobs' = [jobs EXCEPT ![u].phase = "releasing"]
      /\ jobs[u].phase # "idle"
  BY DEF Skip, WorkEnds, Die
<1>2. TypeOK
  BY DEF ClaimInv
<1>3. TypeOK'
  BY <1>1, <1>2, LimitTypes DEF TypeOK, Job, Idle
<1>4. /\ jobs'[u].phase \in {"idle", "releasing"}
      /\ jobs'[u].phase = "releasing" =>
            /\ jobs[u].phase = "working"
            /\ jobs'[u].token = jobs[u].token /\ jobs'[u].left = jobs[u].left
      /\ \A v \in Workers \ {u} : jobs'[v] = jobs[v]
  BY <1>1, <1>2 DEF TypeOK, Idle, Job
<1>5. ASSUME NEW s \in Tokens
      PROVE  ClaimTaken(s)'
  BY <1>1 DEF ClaimInv, ClaimTaken, KeyOf
<1>6. ASSUME NEW v \in Workers
      PROVE  JobTaken(jobs[v])' /\ HoldOutlives(jobs[v])'
  BY <1>1, <1>4 DEF ClaimInv, JobTaken, HoldOutlives, KeyOf
<1>7. ASSUME NEW k \in Keys
      PROVE  RecordIsLatest(k)'
  BY <1>1 DEF ClaimInv, RecordIsLatest, KeyOf
<1>8. OneAtATime'
  BY <1>1, <1>4 DEF ClaimInv, OneAtATime, KeyOf
<1>9. ASSUME NEW s \in Tokens
      PROVE  RecordOutlivesWait(s)'
  <2>1. /\ Unconfirmed(s)' <=> Unconfirmed(s)
        /\ \A n : Waits(s, n)' <=> Waits(s, n)
    BY <1>1 DEF Unconfirmed, Waits, MayRun, KeyOf
  <2> QED BY <2>1, <1>1, <1>4 DEF ClaimInv, RecordOutlivesWait
<1> QED BY <1>3, <1>5, <1>6, <1>7, <1>8, <1>9 DEF ClaimInv

\* A confirmation turns the claim's own record from waiting to running.
LEMMA ConfirmKeeps ==
  ASSUME ClaimInv, NEW u \in Workers, Confirm(u) \/ ConfirmLost(u)
  PROVE  ClaimInv'
<1> DEFINE t == jobs[u].token
           k == KeyOf(jobs[u].token)
<1>1. /\ jobs[u].phase = "confirming"
      /\ MayRun(t)
      /\ items' = [items EXCEPT ![k] = Running(t)]
      /\ confirmed' = confirmed \cup {t}
      /\ UNCHANGED <<requests, queue, latest>>
  BY DEF Confirm, ConfirmLost, ConfirmWritten
<1>2. \/ /\ jobs' = [jobs EXCEPT ![u].phase = "working"]
         /\ begun' = begun \cup {t}
      \/ /\ jobs' = [jobs EXCEPT ![u] = Idle]
         /\ begun' = begun
  BY DEF Confirm, ConfirmLost
<1>3. TypeOK
  BY DEF ClaimInv
<1>4. /\ t \in Tokens /\ k \in Keys
      /\ jobs[u].left \in Nat /\ jobs[u].left > 0
      /\ requests[t].phase \in {"handed", "late"}
  BY <1>1, <1>3, KeyTypes DEF ClaimInv, JobTaken, TypeOK, Job
<1>5. Running(t) = [token |-> t, state |-> "running", left |-> Lease + 1 + Evidence]
  BY DEF Running, HeldFor
<1>6. /\ items'[k] = Running(t)
      /\ \A j \in Keys \ {k} : items'[j] = items[j]
      /\ \A s : KeyOf(s)' = requests[s].key
  BY <1>1, <1>3, <1>4 DEF TypeOK, KeyOf
<1>7. TypeOK'
  <2>1. items' \in [Keys -> Item]
    BY <1>1, <1>3, <1>4, <1>5, LimitTypes DEF TypeOK, Item
  <2>2. jobs' \in [Workers -> Job]
    <3>1. [jobs[u] EXCEPT !.phase = "working"] \in Job /\ Idle \in Job
      BY <1>3 DEF TypeOK, Job, Idle
    <3> QED BY <3>1, <1>2, <1>3 DEF TypeOK
  <2>3. begun' \subseteq confirmed' /\ confirmed' \subseteq Tokens
    BY <1>1, <1>2, <1>3, <1>4 DEF TypeOK
  <2> QED BY <2>1, <2>2, <2>3, <1>1, <1>3 DEF TypeOK
<1>8. /\ jobs'[u].phase \in {"working", "idle"}
      /\ jobs'[u].phase = "working" =>
            /\ jobs'[u].token = t /\ jobs'[u].left = jobs[u].left
            /\ t \in begun'
      /\ \A v \in Workers \ {u} : jobs'[v] = jobs[v]
      /\ begun \subseteq begun'
  BY <1>2, <1>3 DEF TypeOK, Idle, Job
<1>9. \A v \in Workers : jobs[v].phase = "working" =>
         /\ KeyOf(jobs[v].token) \in Keys \ {k}
         /\ jobs[v].left \in Nat
  BY <1>1, <1>3, QueuedIsQuiet, KeyTypes DEF TypeOK, Job
<1>10. ASSUME NEW s \in Tokens
       PROVE  ClaimTaken(s)'
  BY <1>1, <1>4 DEF ClaimInv, ClaimTaken, KeyOf
<1>11. ASSUME NEW v \in Workers
       PROVE  JobTaken(jobs[v])'
  BY <1>1, <1>4, <1>8 DEF ClaimInv, JobTaken, Idle
<1>12. ASSUME NEW j \in Keys
       PROVE  RecordIsLatest(j)'
  <2>1. CASE j = k
    <3>1. items[k].token = t /\ items[k].state = "queued"
      BY <1>1 DEF MayRun
    <3>2. latest[k] = t
      BY <3>1, <1>4 DEF ClaimInv, RecordIsLatest
    <3> QED BY <2>1, <3>2, <1>1, <1>4, <1>5, <1>6, LimitTypes
            DEF RecordIsLatest, KeyOf
  <2>2. CASE j # k
    <3>1. items[j].state # "absent" => items[j].token # t
      BY <2>2 DEF ClaimInv, RecordIsLatest
    <3> QED BY <2>2, <3>1, <1>1, <1>6 DEF ClaimInv, RecordIsLatest, KeyOf
  <2> QED BY <2>1, <2>2
<1>13. ASSUME NEW v \in Workers
       PROVE  HoldOutlives(jobs[v])'
  <2>1. CASE v = u
    <3>1. jobs[u].left <= JobTimeout
      BY <1>1, LimitTypes DEF ClaimInv, JobTaken
    <3> QED BY <2>1, <3>1, <1>4, <1>5, <1>6, <1>8, LimitTypes
            DEF HoldOutlives, KeyOf
  <2>2. CASE v # u
    BY <2>2, <1>6, <1>8, <1>9 DEF ClaimInv, HoldOutlives, KeyOf
  <2> QED BY <2>1, <2>2
<1>14. OneAtATime'
  <2>1. t \notin confirmed
    BY <1>1, <1>4 DEF ClaimInv, RecordIsLatest, MayRun
  <2>2. \A v \in Workers : jobs[v].phase \in {"working", "releasing"} =>
          jobs[v].token # t
    BY <2>1, <1>3 DEF ClaimInv, JobTaken, TypeOK
  <2> QED BY <2>2, <1>6, <1>8, <1>9 DEF ClaimInv, OneAtATime, KeyOf
<1>15. ASSUME NEW s \in Tokens
       PROVE  RecordOutlivesWait(s)'
  <2>1. CASE s = t
    BY <2>1, <1>1, <1>4 DEF RecordOutlivesWait, Unconfirmed
  <2>2. CASE s # t
    <3>1. Unconfirmed(s)' => Unconfirmed(s)
      BY <1>1 DEF Unconfirmed, KeyOf
    <3>2. \A n : requests[s].phase # "none" /\ Waits(s, n) => Waits(s, n)'
      <4>1. requests[s].phase # "none" /\ items[KeyOf(s)].token = s =>
              KeyOf(s) \in Keys /\ items'[KeyOf(s)] = items[KeyOf(s)]
        BY <2>2, <1>1, <1>6, KeyTypes DEF MayRun
      <4> QED BY <4>1, <1>1 DEF Waits, MayRun, KeyOf
    <3> QED BY <2>2, <3>1, <3>2, <1>1, <1>8 DEF ClaimInv, RecordOutlivesWait
  <2> QED BY <2>1, <2>2
<1> QED BY <1>7, <1>10, <1>11, <1>12, <1>13, <1>14, <1>15 DEF ClaimInv

\* A release ends the record of a claim that was confirmed, if it still is
\* the key's record.
LEMMA ReleaseKeeps ==
  ASSUME ClaimInv, NEW u \in Workers, Release(u)
  PROVE  ClaimInv'
<1> DEFINE t == jobs[u].token
           k == KeyOf(jobs[u].token)
<1>1. /\ jobs[u].phase = "releasing"
      /\ items' = Released(t)
      /\ jobs' = [jobs EXCEPT ![u] = Idle]
      /\ UNCHANGED <<requests, queue, latest, confirmed, begun>>
  BY DEF Release
<1>2. TypeOK
  BY DEF ClaimInv
<1>3. /\ t \in Tokens /\ k \in Keys
      /\ requests[t].phase \in {"handed", "late"}
      /\ t \in confirmed
  BY <1>1, <1>2, KeyTypes DEF ClaimInv, JobTaken, TypeOK
<1>4. \/ items' = items
      \/ items[k].token = t /\ items' = [items EXCEPT ![k].state = "released"]
  BY <1>1 DEF Released
<1>5. /\ items'[k].token = items[k].token
      /\ items'[k].left = items[k].left
      /\ items'[k].state \in {items[k].state, "released"}
      /\ items'[k].state # items[k].state => items[k].token = t
      /\ \A j \in Keys \ {k} : items'[j] = items[j]
  BY <1>2, <1>3, <1>4 DEF TypeOK, Item
<1>6. TypeOK'
  <2>1. items' \in [Keys -> Item]
    <3>1. [items[k] EXCEPT !.state = "released"] \in Item
      BY <1>2, <1>3 DEF TypeOK, Item
    <3> QED BY <3>1, <1>2, <1>4 DEF TypeOK
  <2>2. jobs' \in [Workers -> Job]
    BY <1>1, <1>2 DEF TypeOK, Job, Idle
  <2> QED BY <2>1, <2>2, <1>1, <1>2 DEF TypeOK
<1>7. /\ jobs'[u] = Idle
      /\ \A v \in Workers \ {u} : jobs'[v] = jobs[v]
  BY <1>1, <1>2 DEF TypeOK
<1>8. ASSUME NEW s \in Tokens
      PROVE  ClaimTaken(s)'
  BY <1>1 DEF ClaimInv, ClaimTaken, KeyOf
<1>9. ASSUME NEW v \in Workers
      PROVE  JobTaken(jobs[v])'
  BY <1>1, <1>7 DEF ClaimInv, JobTaken, Idle
<1>10. ASSUME NEW j \in Keys
       PROVE  RecordIsLatest(j)'
  <2>1. /\ items'[j].token = items[j].token
        /\ items'[j].state \in {items[j].state, "released"}
        /\ items'[j].state # items[j].state => items[j].token = t
    BY <1>5
  <2>2. items[j].state = "absent" <=> items[j].token = None
    BY DEF ClaimInv, RecordIsLatest
  <2> QED BY <2>1, <2>2, <1>1, <1>3, LimitTypes DEF ClaimInv, RecordIsLatest, KeyOf
<1>11. ASSUME NEW v \in Workers, jobs'[v].phase = "working"
       PROVE  /\ v # u /\ jobs[v].phase = "working"
              /\ items'[KeyOf(jobs[v].token)] = items[KeyOf(jobs[v].token)]
  <2>1. v # u /\ jobs[v].phase = "working"
    BY <1>7, <1>11 DEF Idle
  <2>2. jobs[v].token # t
    BY <2>1, <1>1, <1>3 DEF ClaimInv, OneAtATime
  <2>3. items[KeyOf(jobs[v].token)].token = jobs[v].token
        /\ KeyOf(jobs[v].token) \in Keys
    BY <2>1, KeyTypes DEF ClaimInv, HoldOutlives
  <2> QED BY <2>1, <2>2, <2>3, <1>4, <1>5
<1>12. ASSUME NEW v \in Workers
       PROVE  HoldOutlives(jobs[v])'
  <2> SUFFICES ASSUME jobs'[v].phase = "working"
               PROVE  HoldOutlives(jobs[v])'
    BY DEF HoldOutlives
  <2>1. jobs'[v] = jobs[v] /\ jobs[v].phase = "working"
        /\ items'[KeyOf(jobs[v].token)] = items[KeyOf(jobs[v].token)]
    BY <1>7, <1>11
  <2> QED BY <2>1, <1>1 DEF ClaimInv, HoldOutlives, KeyOf
<1>13. OneAtATime'
  BY <1>1, <1>7 DEF ClaimInv, OneAtATime, KeyOf, Idle
<1>14. ASSUME NEW s \in Tokens
       PROVE  RecordOutlivesWait(s)'
  <2>1. CASE s = t
    BY <2>1, <1>1, <1>3 DEF RecordOutlivesWait, Unconfirmed
  <2>2. CASE s # t
    <3>1. Unconfirmed(s)' => Unconfirmed(s)
      BY <1>1 DEF Unconfirmed, KeyOf
    <3>2. \A n : requests[s].phase # "none" /\ Waits(s, n) => Waits(s, n)'
      <4>1. requests[s].phase # "none" /\ items[KeyOf(s)].token = s =>
              KeyOf(s) \in Keys /\ items'[KeyOf(s)] = items[KeyOf(s)]
        BY <2>2, <1>4, <1>5, KeyTypes
      <4> QED BY <4>1, <1>1 DEF Waits, MayRun, KeyOf
    <3> QED BY <2>2, <3>1, <3>2, <1>1, <1>7 DEF ClaimInv, RecordOutlivesWait, Idle
  <2> QED BY <2>1, <2>2
<1> QED BY <1>6, <1>8, <1>9, <1>10, <1>12, <1>13, <1>14 DEF ClaimInv

\* A record that is out of time belongs to nobody who still waits or works.
LEMMA DropKeeps ==
  ASSUME ClaimInv, NEW k \in Keys, Drop(k)
  PROVE  ClaimInv'
<1>1. /\ items[k].left = 0
      /\ items' = [items EXCEPT ![k] = Absent]
      /\ UNCHANGED <<requests, queue, jobs, latest, confirmed, begun>>
  BY DEF Drop, Outdated
<1>2. TypeOK
  BY DEF ClaimInv
<1>3. TypeOK'
  BY <1>1, <1>2 DEF TypeOK, Item, Absent
<1>4. /\ items'[k] = Absent
      /\ \A j \in Keys \ {k} : items'[j] = items[j]
  BY <1>1, <1>2 DEF TypeOK
<1>5. ASSUME NEW s \in Tokens
      PROVE  ClaimTaken(s)'
  BY <1>1 DEF ClaimInv, ClaimTaken, KeyOf
<1>6. ASSUME NEW v \in Workers
      PROVE  JobTaken(jobs[v])'
  BY <1>1 DEF ClaimInv, JobTaken
<1>7. ASSUME NEW j \in Keys
      PROVE  RecordIsLatest(j)'
  BY <1>1, <1>4 DEF ClaimInv, RecordIsLatest, KeyOf, Absent
<1>8. ASSUME NEW v \in Workers
      PROVE  HoldOutlives(jobs[v])'
  <2> SUFFICES ASSUME jobs[v].phase = "working"
               PROVE  HoldOutlives(jobs[v])'
    BY <1>1 DEF HoldOutlives
  <2>1. jobs[v].left > 0 /\ jobs[v].left \in Nat /\ KeyOf(jobs[v].token) \in Keys
    BY <1>2, LimitTypes, KeyTypes DEF ClaimInv, JobTaken, TypeOK, Job
  <2>2. KeyOf(jobs[v].token) # k
    BY <2>1, <1>1, LimitTypes DEF ClaimInv, HoldOutlives
  <2> QED BY <2>1, <2>2, <1>1, <1>4 DEF ClaimInv, HoldOutlives, KeyOf
<1>9. OneAtATime'
  BY <1>1 DEF ClaimInv, OneAtATime, KeyOf
<1>10. ASSUME NEW s \in Tokens
       PROVE  RecordOutlivesWait(s)'
  <2>1. Unconfirmed(s)' <=> Unconfirmed(s)
    BY <1>1 DEF Unconfirmed, KeyOf
  <2>2. \A n \in Nat \ {0} :
          requests[s].phase # "none" /\ Waits(s, n) => Waits(s, n)'
    <3>1. \A n \in Nat \ {0} : Waits(s, n) => KeyOf(s) # k
      BY <1>1 DEF Waits
    <3> QED BY <3>1, <1>1, <1>4, KeyTypes DEF Waits, MayRun, KeyOf
  <2>3. /\ requests[s].left \in Nat /\ queue[s] \in Nat
        /\ \A v \in Workers : jobs[v].phase = "confirming" =>
              jobs[v].left \in Nat \ {0}
    BY <1>2, LimitTypes DEF ClaimInv, JobTaken, TypeOK, Request
  <2>4. /\ requests[s].left + EventAge + JobTimeout \in Nat \ {0}
        /\ queue[s] + JobTimeout \in Nat \ {0}
    BY <2>3, LimitTypes
  <2> QED BY <2>1, <2>2, <2>3, <2>4, <1>1 DEF ClaimInv, RecordOutlivesWait
<1> QED BY <1>3, <1>5, <1>6, <1>7, <1>8, <1>9, <1>10 DEF ClaimInv

\* Time passes for the records no faster than for those who rely on them.
LEMMA TickKeeps ==
  ASSUME ClaimInv, Tick
  PROVE  ClaimInv'
<1>1. /\ items' = [k \in Keys |-> [items[k] EXCEPT !.left = Less(@)]]
      /\ requests' = [t \in Tokens |-> RequestTicks(requests[t])]
      /\ queue' = [t \in Tokens |-> Less(queue[t])]
      /\ jobs' = [v \in Workers |-> JobTicks(jobs[v])]
      /\ UNCHANGED <<latest, confirmed, begun>>
  BY DEF Tick
<1>2. TypeOK
  BY DEF ClaimInv
<1>3. \A n \in Nat : /\ Less(n) \in Nat /\ Less(n) <= n /\ Less(n) >= n - 1
                     /\ Less(n) > 0 => n > 0 /\ Less(n) = n - 1
  BY DEF Less
<1>4. ASSUME NEW k \in Keys
      PROVE  /\ items'[k] \in Item
             /\ items'[k].token = items[k].token
             /\ items'[k].state = items[k].state
             /\ items'[k].left = Less(items[k].left)
  <2>1. items[k] \in Item
    BY <1>2 DEF TypeOK
  <2> QED BY <2>1, <1>1, <1>3 DEF Item
<1>5. ASSUME NEW t \in Tokens
      PROVE  /\ requests'[t] \in Request
             /\ KeyOf(t)' = KeyOf(t)
             /\ requests'[t].left = Less(requests[t].left)
             /\ \/ requests'[t].phase = requests[t].phase
                \/ requests[t].phase = "open" /\ requests'[t].phase = "frozen"
             /\ requests'[t].phase = "open" => requests[t].left > 1
  <2>1. requests[t] \in Request /\ requests[t].left \in Nat
    BY <1>2 DEF TypeOK, Request
  <2>2. requests'[t] = RequestTicks(requests[t])
    BY <1>1
  <2>3. requests'[t] = [phase |-> IF requests[t].phase = "open" /\ requests[t].left <= 1
                                  THEN "frozen" ELSE requests[t].phase,
                        key |-> requests[t].key,
                        left |-> Less(requests[t].left)]
    BY <2>1, <2>2 DEF Request, RequestTicks
  <2> QED BY <2>1, <2>3, <1>3 DEF Request, KeyOf
<1>6. ASSUME NEW v \in Workers
      PROVE  /\ jobs'[v] \in Job
             /\ \/ jobs'[v] = Idle
                \/ /\ jobs[v].left > 1
                   /\ jobs'[v].phase = jobs[v].phase
                   /\ jobs'[v].token = jobs[v].token
                   /\ jobs'[v].left = jobs[v].left - 1
  <2>1. jobs[v] \in Job /\ jobs[v].left \in Nat
    BY <1>2 DEF TypeOK, Job
  <2>2. jobs'[v] = JobTicks(jobs[v])
    BY <1>1
  <2>3. CASE jobs[v].left <= 1
    BY <2>2, <2>3 DEF JobTicks, Idle, Job
  <2>4. CASE jobs[v].left > 1
    <3>1. jobs'[v] = [jobs[v] EXCEPT !.left = @ - 1]
      BY <2>1, <2>2, <2>4 DEF JobTicks
    <3> QED BY <2>1, <2>4, <3>1 DEF Job
  <2> QED BY <2>1, <2>3, <2>4
<1>7. \A t \in Tokens : queue'[t] = Less(queue[t]) /\ queue[t] \in Nat
  BY <1>1, <1>2 DEF TypeOK
<1>8. TypeOK'
  <2>1. items' \in [Keys -> Item] /\ requests' \in [Tokens -> Request]
        /\ jobs' \in [Workers -> Job]
    BY <1>1, <1>4, <1>5, <1>6
  <2>2. queue' \in [Tokens -> Nat]
    BY <1>1, <1>3, <1>7
  <2> QED BY <2>1, <2>2, <1>1, <1>2 DEF TypeOK
<1>9. ASSUME NEW s \in Tokens
      PROVE  ClaimTaken(s)'
  <2>1. queue'[s] > 0 => queue[s] > 0
    BY <1>3, <1>7
  <2>2. ClaimTaken(s)
    BY DEF ClaimInv
  <2> QED BY <2>1, <2>2, <1>1, <1>5 DEF ClaimTaken
<1>10. ASSUME NEW v \in Workers
       PROVE  JobTaken(jobs[v])'
  <2>1. CASE jobs'[v] = Idle
    BY <2>1 DEF JobTaken, Idle
  <2>2. CASE jobs'[v] # Idle
    <3>1. JobTaken(jobs[v])
      BY DEF ClaimInv
    <3> QED BY <2>2, <3>1, <1>1, <1>5, <1>6, LimitTypes DEF JobTaken
  <2> QED BY <2>1, <2>2
<1>11. ASSUME NEW k \in Keys
       PROVE  RecordIsLatest(k)'
  <2>1. items[k].state # "absent" => items[k].token \in Tokens
    BY KeyTypes
  <2>2. RecordIsLatest(k)
    BY DEF ClaimInv
  <2> QED BY <2>1, <2>2, <1>1, <1>4, <1>5 DEF RecordIsLatest
<1>12. ASSUME NEW v \in Workers, jobs'[v].phase # "idle"
       PROVE  /\ jobs[v].phase = jobs'[v].phase /\ jobs'[v].token = jobs[v].token
              /\ jobs'[v].left = jobs[v].left - 1 /\ jobs[v].left \in Nat
              /\ jobs[v].left > 1
              /\ jobs[v].token \in Tokens /\ KeyOf(jobs[v].token) \in Keys
              /\ KeyOf(jobs[v].token)' = KeyOf(jobs[v].token)
  <2>1. jobs'[v] # Idle
    BY <1>12 DEF Idle
  <2>2. jobs[v].phase # "idle" /\ jobs[v].left \in Nat
    BY <2>1, <1>2, <1>6, <1>12 DEF TypeOK, Job
  <2>3. jobs[v].token \in Tokens /\ KeyOf(jobs[v].token) \in Keys
    BY <2>2, KeyTypes
  <2>4. /\ jobs'[v].phase = jobs[v].phase /\ jobs'[v].token = jobs[v].token
        /\ jobs'[v].left = jobs[v].left - 1 /\ jobs[v].left > 1
    BY <2>1, <1>6
  <2>5. KeyOf(jobs[v].token)' = KeyOf(jobs[v].token)
    BY <2>3, <2>4, <1>5 DEF KeyOf
  <2> QED BY <2>2, <2>3, <2>4, <2>5
<1>13. ASSUME NEW v \in Workers
       PROVE  HoldOutlives(jobs[v])'
  <2> SUFFICES ASSUME jobs'[v].phase = "working"
               PROVE  HoldOutlives(jobs[v])'
    BY DEF HoldOutlives
  <2> DEFINE k == KeyOf(jobs[v].token)
  <2>1. k \in Keys /\ items[k].left \in Nat
    BY <1>2, <1>12 DEF TypeOK, Item
  <2>2. items[k].token = jobs[v].token /\ items[k].state = "running"
        /\ items[k].left >= Evidence + jobs[v].left
    BY <1>12 DEF ClaimInv, HoldOutlives
  <2>3. items'[k].left >= Evidence + jobs'[v].left
    BY <2>1, <2>2, <1>3, <1>4, <1>12, LimitTypes
  <2> QED BY <2>1, <2>2, <2>3, <1>4, <1>12 DEF HoldOutlives
<1>14. OneAtATime'
  BY <1>12 DEF ClaimInv, OneAtATime
<1>15. ASSUME NEW s \in Tokens
       PROVE  RecordOutlivesWait(s)'
  <2>1. Unconfirmed(s)' <=> Unconfirmed(s)
    BY <1>1, <1>5 DEF Unconfirmed
  <2>2. ASSUME NEW n \in Nat, NEW m \in Nat, m >= n + 1,
               requests[s].phase # "none", Waits(s, m)
        PROVE  MayRun(s)' /\ items'[KeyOf(s)'].left >= n
    <3>1. KeyOf(s) \in Keys /\ KeyOf(s)' = KeyOf(s)
      BY <2>2, <1>5, KeyTypes
    <3>2. items[KeyOf(s)].left \in Nat
      BY <3>1, <1>2 DEF TypeOK, Item
    <3>3. items[KeyOf(s)].left >= n + 1
      BY <2>2, <3>2 DEF Waits
    <3>4. items'[KeyOf(s)].left >= n
      BY <3>1, <3>2, <3>3, <1>3, <1>4
    <3>5. items'[KeyOf(s)].token = s /\ items'[KeyOf(s)].state = "queued"
      BY <2>2, <3>1, <1>4 DEF Waits, MayRun
    <3> QED BY <3>1, <3>4, <3>5 DEF MayRun
  <2>3. RecordOutlivesWait(s)
    BY DEF ClaimInv
  <2>4. requests[s].left \in Nat /\ queue[s] \in Nat
    BY <1>2 DEF TypeOK, Request
  <2>5. ASSUME requests'[s].phase = "open"
        PROVE  /\ requests'[s].left > 0
               /\ Unconfirmed(s)' =>
                     Waits(s, requests[s].left + EventAge + JobTimeout)'
    <3> DEFINE n == requests'[s].left + EventAge + JobTimeout
               m == requests[s].left + EventAge + JobTimeout
    <3>1. requests[s].phase = "open" /\ requests'[s].left > 0
          /\ requests'[s].left = requests[s].left - 1
      BY <2>4, <2>5, <1>3, <1>5
    <3>2. n \in Nat /\ m \in Nat /\ m >= n + 1
      BY <2>4, <3>1, LimitTypes
    <3>3. Unconfirmed(s) => Waits(s, m)
      BY <2>3, <3>1 DEF RecordOutlivesWait
    <3>4. Unconfirmed(s) => MayRun(s)' /\ items'[KeyOf(s)'].left >= n
      BY <2>2, <3>1, <3>2, <3>3
    <3> QED BY <2>1, <3>1, <3>4 DEF Waits
  <2>6. ASSUME requests'[s].phase = "handed", Unconfirmed(s)', queue'[s] > 0
        PROVE  Waits(s, queue[s] + JobTimeout)'
    <3> DEFINE n == queue'[s] + JobTimeout
               m == queue[s] + JobTimeout
    <3>1. requests[s].phase = "handed" /\ queue[s] > 0 /\ queue'[s] = queue[s] - 1
      BY <2>4, <2>6, <1>3, <1>5, <1>7
    <3>2. n \in Nat /\ m \in Nat /\ m >= n + 1
      BY <2>4, <3>1, LimitTypes
    <3>3. Waits(s, m)
      BY <2>1, <2>3, <2>6, <3>1 DEF RecordOutlivesWait
    <3>4. MayRun(s)' /\ items'[KeyOf(s)'].left >= n
      BY <2>2, <3>1, <3>2, <3>3
    <3> QED BY <3>4 DEF Waits
  <2>7. ASSUME NEW v \in Workers, requests'[s].phase = "handed", Unconfirmed(s)',
               jobs'[v].phase = "confirming", jobs'[v].token = s
        PROVE  Waits(s, jobs[v].left)'
    <3> DEFINE n == jobs'[v].left
               m == jobs[v].left
    <3>1. requests[s].phase = "handed"
      BY <2>7, <1>5
    <3>2. /\ n \in Nat /\ m \in Nat /\ m >= n + 1
          /\ jobs[v].phase = "confirming" /\ jobs[v].token = s
      BY <2>7, <1>12
    <3>3. Waits(s, m)
      BY <2>1, <2>3, <2>7, <3>1, <3>2 DEF RecordOutlivesWait
    <3>4. MayRun(s)' /\ items'[KeyOf(s)'].left >= n
      BY <2>2, <3>1, <3>2, <3>3
    <3> QED BY <3>4 DEF Waits
  <2> QED BY <2>5, <2>6, <2>7 DEF RecordOutlivesWait
<1> QED BY <1>8, <1>9, <1>10, <1>11, <1>13, <1>14, <1>15 DEF ClaimInv

\* One step keeps the invariant.
LEMMA StepKeeps == ClaimInv /\ [Next]_vars => ClaimInv'
<1> SUFFICES ASSUME ClaimInv, [Next]_vars PROVE ClaimInv'
  OBVIOUS
<1>1. ASSUME NEW t \in Tokens, NEW k \in Keys, Claim(t, k) \/ ClaimLost(t, k)
      PROVE  ClaimInv'
  BY <1>1, TakeKeeps
<1>2. ASSUME NEW t \in Tokens, HandOff(t) \/ GiveUp(t) \/ RequestLost(t)
      PROVE  ClaimInv'
  BY <1>2, RequestKeeps
<1>3. ASSUME NEW v \in Workers, NEW t \in Tokens, Deliver(v, t)
      PROVE  ClaimInv'
  BY <1>3, DeliverKeeps
<1>4. ASSUME NEW v \in Workers, Confirm(v) \/ ConfirmLost(v)
      PROVE  ClaimInv'
  BY <1>4, ConfirmKeeps
<1>5. ASSUME NEW v \in Workers, Skip(v) \/ WorkEnds(v) \/ Die(v)
      PROVE  ClaimInv'
  BY <1>5, WorkerKeeps
<1>6. ASSUME NEW v \in Workers, Release(v)
      PROVE  ClaimInv'
  BY <1>6, ReleaseKeeps
<1>7. ASSUME NEW k \in Keys, Drop(k)
      PROVE  ClaimInv'
  BY <1>7, DropKeeps
<1>8. CASE Tick
  BY <1>8, TickKeeps
<1>9. CASE UNCHANGED vars
  BY <1>9 DEF vars, ClaimInv, TypeOK, ClaimTaken, JobTaken, RecordIsLatest,
              HoldOutlives, OneAtATime, RecordOutlivesWait, Unconfirmed, Waits,
              MayRun, KeyOf
<1> QED BY <1>1, <1>2, <1>3, <1>4, <1>5, <1>6, <1>7, <1>8, <1>9 DEF Next

\* However requests, events and workers are lost or repeated, the records of
\* the table, the events and the jobs fit together: the inductive invariant.
THEOREM ClaimCorrect == Spec => []ClaimInv
<1>1. Init => ClaimInv
  BY InitInv
<1>2. ClaimInv /\ [Next]_vars => ClaimInv'
  BY StepKeeps
<1> QED BY <1>1, <1>2, PTL DEF Spec

\* A job that DynamoDbWorkClaims.confirm turns away was confirmed before, was
\* overtaken by a newer claim, or was handed over too late.
THEOREM ObsoleteOnly == Spec => []SkippedOnlyIfObsolete
<1>1. ClaimInv => SkippedOnlyIfObsolete
  <2> SUFFICES ASSUME ClaimInv, NEW v \in Workers,
                      jobs[v].phase = "confirming", ~MayRun(jobs[v].token),
                      jobs[v].token \notin confirmed,
                      latest[KeyOf(jobs[v].token)] = jobs[v].token
               PROVE  requests[jobs[v].token].phase = "late"
    BY DEF SkippedOnlyIfObsolete
  <2>1. /\ jobs[v].token \in Tokens
        /\ requests[jobs[v].token].phase \in {"handed", "late"}
    BY DEF ClaimInv, JobTaken
  <2>2. requests[jobs[v].token].phase = "handed" => Waits(jobs[v].token, jobs[v].left)
    BY <2>1 DEF ClaimInv, RecordOutlivesWait, Unconfirmed
  <2> QED BY <2>1, <2>2 DEF Waits
<1> QED BY <1>1, ClaimCorrect, PTL

-----------------------------------------------------------------------------
(* The claims keep their ledger. *)

\* What the ledger sees of the jobs and requests.
Work == {jobs[v].token : v \in {u \in Workers : jobs[u].phase = "working"}}
Claimed == [t \in Tokens |-> KeyOf(t)]

LEMMA WorkOf ==
  \A t : t \in Work <=> \E v \in Workers : jobs[v].phase = "working" /\ jobs[v].token = t
  BY DEF Work

\* The token of a job that works is one the ledger knows.
LEMMA WorkIsBegun ==
  ASSUME ClaimInv
  PROVE  Work \subseteq begun /\ begun \subseteq Tokens
  BY DEF Work, ClaimInv, JobTaken, TypeOK

LEMMA InitKeepsLedger == Init => Ledger!LedgerInit
<1> SUFFICES ASSUME Init PROVE Ledger!LedgerInit
  OBVIOUS
<1>1. [t \in Tokens |-> KeyOf(t)] = [t \in Tokens |-> None]
  BY DEF Init, KeyOf, NoRequest
<1>2. {jobs[v].token : v \in {u \in Workers : jobs[u].phase = "working"}} = {}
  BY DEF Init, Idle
<1> QED BY <1>1, <1>2 DEF Ledger!LedgerInit, Init

LEMMA TakeIsGrant ==
  ASSUME ClaimInv, NEW t \in Tokens, NEW k \in Keys,
         Claim(t, k) \/ ClaimLost(t, k)
  PROVE  Ledger!Grant(t, k)
<1>1. /\ requests[t].phase = "none"
      /\ Claimable(k)
      /\ latest' = [latest EXCEPT ![k] = t]
      /\ UNCHANGED <<jobs, begun>>
      /\ \E r : r.key = k /\ requests' = [requests EXCEPT ![t] = r]
  BY DEF Claim, ClaimLost, Take
<1>2. requests \in [Tokens -> Request]
  BY DEF ClaimInv, TypeOK
<1>3. Claimed[t] = None
  BY <1>1 DEF ClaimInv, ClaimTaken, Claimed
<1>4. Claimed' = [Claimed EXCEPT ![t] = k]
  BY <1>1, <1>2 DEF Claimed, KeyOf
<1>5. ASSUME NEW r \in Work
      PROVE  Claimed[r] # k
  <2>1. PICK v \in Workers : jobs[v].phase = "working" /\ jobs[v].token = r
    BY <1>5, WorkOf
  <2>2. r \in Tokens /\ KeyOf(r) # k
    BY <2>1, <1>1, ClaimableIsQuiet DEF ClaimInv, JobTaken
  <2> QED BY <2>2 DEF Claimed
<1>6. Work' = Work
  BY <1>1 DEF Work
<1> QED BY <1>1, <1>3, <1>4, <1>5, <1>6
        DEF Ledger!Grant, Ledger!Quiet, Claimed, Work

LEMMA ConfirmIsBegin ==
  ASSUME ClaimInv, NEW u \in Workers, Confirm(u), NEW t, t = jobs[u].token
  PROVE  Ledger!Begin(t)
<1>1. /\ jobs[u].phase = "confirming"
      /\ MayRun(t)
      /\ jobs' = [jobs EXCEPT ![u].phase = "working"]
      /\ begun' = begun \cup {t}
      /\ UNCHANGED <<requests, latest>>
  BY DEF Confirm, ConfirmWritten
<1>2. jobs \in [Workers -> Job] /\ begun \subseteq confirmed
  BY DEF ClaimInv, TypeOK
<1>3. t \in Tokens /\ KeyOf(t) \in Keys
  BY <1>1, KeyTypes
<1>4. items[KeyOf(t)].token = t /\ items[KeyOf(t)].state = "queued"
  BY <1>1 DEF MayRun
<1>5. latest[KeyOf(t)] = t /\ t \notin begun
  BY <1>2, <1>3, <1>4 DEF ClaimInv, RecordIsLatest
<1>6. Claimed[t] = KeyOf(t) /\ Claimed[t] # None
  BY <1>3, LimitTypes DEF Claimed
<1>7. ASSUME NEW r \in Work
      PROVE  Claimed[r] # KeyOf(t)
  <2>1. PICK v \in Workers : jobs[v].phase = "working" /\ jobs[v].token = r
    BY <1>7, WorkOf
  <2>2. r \in Tokens /\ KeyOf(r) # KeyOf(t)
    BY <2>1, <1>1, QueuedIsQuiet DEF ClaimInv, JobTaken
  <2> QED BY <2>2 DEF Claimed
<1>8. Work' = Work \cup {t}
  <2>1. /\ jobs'[u].phase = "working" /\ jobs'[u].token = t
        /\ \A v \in Workers \ {u} : jobs'[v] = jobs[v]
    BY <1>1, <1>2 DEF Job
  <2> QED BY <2>1, <1>1 DEF Work
<1>9. Claimed' = Claimed
  BY <1>1 DEF Claimed, KeyOf
<1> QED BY <1>1, <1>5, <1>6, <1>7, <1>8, <1>9
        DEF Ledger!Begin, Ledger!Quiet, Claimed, Work

\* A step that begins no work and takes no claim may only end work.
LEMMA OtherIsEnd ==
  ASSUME UNCHANGED <<Claimed, latest, begun>>, Work' \subseteq Work,
         Work \subseteq Tokens
  PROVE  \E T \in SUBSET Tokens : Ledger!End(T)
<1>1. PICK T \in SUBSET Tokens : T \subseteq Work /\ Work' = Work \ T
  <2>1. /\ Work \ Work' \in SUBSET Tokens /\ Work \ Work' \subseteq Work
        /\ Work' = Work \ (Work \ Work')
    OBVIOUS
  <2> QED BY <2>1
<1>2. Ledger!End(T)
  BY <1>1 DEF Ledger!End, Work, Claimed
<1> QED BY <1>1, <1>2

LEMMA OthersOnlyEnd ==
  ASSUME ClaimInv,
         \/ \E t \in Tokens : HandOff(t) \/ GiveUp(t) \/ RequestLost(t)
         \/ \E v \in Workers, t \in Tokens : Deliver(v, t)
         \/ \E v \in Workers :
               ConfirmLost(v) \/ Skip(v) \/ WorkEnds(v) \/ Release(v) \/ Die(v)
         \/ \E k \in Keys : Drop(k)
         \/ Tick
  PROVE  UNCHANGED <<Claimed, latest, begun>> /\ Work' \subseteq Work
<1>1. requests \in [Tokens -> Request] /\ jobs \in [Workers -> Job]
  BY DEF ClaimInv, TypeOK
<1>2. CASE \E t \in Tokens : HandOff(t) \/ GiveUp(t) \/ RequestLost(t)
  <2>1. UNCHANGED <<jobs, latest, begun>>
    BY <1>2 DEF HandOff, GiveUp, RequestLost
  <2>2. \E t \in Tokens, phase \in {"handed", "late", "ended"} :
          requests' = Closed(t, phase)
    BY <1>2 DEF HandOff, GiveUp, RequestLost
  <2>3. Claimed' = Claimed
    BY <2>2, <1>1 DEF Claimed, Closed, KeyOf
  <2> QED BY <2>1, <2>3 DEF Work
<1>3. CASE \E v \in Workers, t \in Tokens : Deliver(v, t)
  <2>1. UNCHANGED <<requests, latest, begun>>
    BY <1>3 DEF Deliver
  <2>2. \A v \in Workers : jobs'[v].phase = "working" => jobs'[v] = jobs[v]
    BY <1>1, <1>3 DEF Deliver
  <2> QED BY <2>1, <2>2 DEF Work, Claimed, KeyOf
<1>4. CASE \E v \in Workers :
              ConfirmLost(v) \/ Skip(v) \/ WorkEnds(v) \/ Release(v) \/ Die(v)
  <2>1. UNCHANGED <<requests, latest, begun>>
    BY <1>4 DEF ConfirmLost, ConfirmWritten, Skip, WorkEnds, Release, Die
  <2>2. \E v \in Workers : jobs' \in {[jobs EXCEPT ![v] = Idle],
                                      [jobs EXCEPT ![v].phase = "releasing"]}
    BY <1>4 DEF ConfirmLost, Skip, WorkEnds, Release, Die
  <2>3. \A v \in Workers : jobs'[v].phase = "working" => jobs'[v] = jobs[v]
    BY <1>1, <2>2 DEF Idle, Job
  <2> QED BY <2>1, <2>3 DEF Work, Claimed, KeyOf
<1>5. CASE \E k \in Keys : Drop(k)
  BY <1>5 DEF Drop, Work, Claimed, KeyOf
<1>6. CASE Tick
  <2>1. /\ requests' = [t \in Tokens |-> RequestTicks(requests[t])]
        /\ jobs' = [v \in Workers |-> JobTicks(jobs[v])]
        /\ UNCHANGED <<latest, begun>>
    BY <1>6 DEF Tick
  <2>2. \A t \in Tokens : requests'[t].key = requests[t].key
    BY <2>1, <1>1 DEF RequestTicks, Request
  <2>3. \A v \in Workers : jobs'[v].phase = "working" =>
          jobs[v].phase = "working" /\ jobs'[v].token = jobs[v].token
    BY <2>1, <1>1 DEF JobTicks, Idle, Job
  <2> QED BY <2>1, <2>2, <2>3 DEF Work, Claimed, KeyOf
<1> QED BY <1>2, <1>3, <1>4, <1>5, <1>6

\* Work on a key runs alone, for the latest claim, and once for each claim:
\* DynamoDbWorkClaims, the server's hand-off and underClaim implement
\* ClaimLedger.
THEOREM ClaimsKeepLedger == Spec => KeepsLedger
<1>1. Init => Ledger!LedgerInit
  BY InitKeepsLedger
<1>2. ClaimInv /\ [Next]_vars => [Ledger!LedgerNext]_(Ledger!ledgerVars)
  <2> SUFFICES ASSUME ClaimInv, [Next]_vars
               PROVE  [Ledger!LedgerNext]_(Ledger!ledgerVars)
    OBVIOUS
  <2>1. ASSUME NEW t \in Tokens, NEW k \in Keys, Claim(t, k) \/ ClaimLost(t, k)
        PROVE  Ledger!LedgerNext
    BY <2>1, TakeIsGrant DEF Ledger!LedgerNext
  <2>2. ASSUME NEW v \in Workers, Confirm(v)
        PROVE  Ledger!LedgerNext
    <3>1. PICK t \in Tokens : t = jobs[v].token
      BY <2>2, KeyTypes DEF Confirm, ConfirmWritten
    <3>2. Ledger!Begin(t)
      BY <2>2, <3>1, ConfirmIsBegin
    <3> QED BY <3>2 DEF Ledger!LedgerNext
  <2>3. ASSUME \/ \E t \in Tokens : HandOff(t) \/ GiveUp(t) \/ RequestLost(t)
               \/ \E v \in Workers, t \in Tokens : Deliver(v, t)
               \/ \E v \in Workers :
                     \/ ConfirmLost(v) \/ Skip(v) \/ WorkEnds(v)
                     \/ Release(v) \/ Die(v)
               \/ \E k \in Keys : Drop(k)
               \/ Tick
        PROVE  Ledger!LedgerNext
    <3>1. UNCHANGED <<Claimed, latest, begun>> /\ Work' \subseteq Work
      BY <2>3, OthersOnlyEnd
    <3> QED BY <3>1, WorkIsBegun, OtherIsEnd DEF Ledger!LedgerNext
  <2>4. CASE UNCHANGED vars
    BY <2>4 DEF vars, Ledger!ledgerVars, KeyOf
  <2> QED BY <2>1, <2>2, <2>3, <2>4 DEF Next
<1> QED BY <1>1, <1>2, ClaimCorrect, PTL DEF Spec, KeepsLedger, Ledger!LedgerSpec
=============================================================================
