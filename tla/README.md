# A TLA+ model of zero-memory

zero-memory keeps what coding agents learn (memories), the work they do (a
project board) and the rules that follow from it, for people and teams. This
directory holds TLA+ modules that model the parts of it that are hard to
test, TLC configurations that check them on small instances, and TLAPS proofs
of what matters most. `PROJECT.json` lists the components, the runs, the
source lines each definition models, the hazards, the findings and the theorems.

## The system

| Component | State it keeps | Operations | What is hard | Correct when |
|---|---|---|---|---|
| Board commands (SQL functions) | cards, branches, attachments, an event stream per card | create, promote a loop, edit, move, archive, note, land, attach, detach | sessions interleave in READ COMMITTED; row and advisory locks taken one by one; idempotency keys read before the lock; refusals after writes | row and stream agree, no change is lost, rules on entering and leaving `active` hold at commit, a key acts once |
| Card relations | one row per (card, card, type), declared or not, live or retired | link, unlink, declared by create and move, attached and detached | a rule about a graph checked by two writers at once; both ends logged | no circle, one parent, untyped yields to typed, both streams tell the same story |
| Releases | a policy, versions, `released` events | configure, candidates, record | the observer reads, checks git, then writes; cards land meanwhile | a release marks only landings its observer checked, once per version |
| Ingest service | one ledger row per chunk, the memories | ingest one chunk | the sender times out and retries while the first request runs; failures after the claim | a chunk's memories are written once; a failed chunk can be sent again |
| Transcript watcher | offset file; buffer and queue in memory | scan, read, sweep, send, stop | crash and stop between reading and sending; a torn file; overlap | a line that was read is held until acknowledged |
| Ingest hook | one offset file for all transcripts | one run per hook call | load, await, save back | no offset lost, no line skipped |
| OAuth grants | authorizations, consents, codes, grants with a generation, the sessions marked as an agent's | authorize, read, decide, redeem, refresh, revoke | concurrent refreshes, the race window, a store call failing between the mint and the code, revocation in five statements | one pair per generation, a replay ends the grant, what a client holds is within a withdrawal's reach |
| Memory lifecycle | memories with kind, provenance, validity, successor | remember, share, move, forget, close a loop | a request loads, decides and writes back later; supersession declared and inferred | a provisional write retires nothing |
| Hygiene | the review queue; runs of the scanner | scan, retro pass, sweep, audit; resolve, bulk, restore, challenge | long runs act on what they read: neighbours, kinds, queue, cards | authority is respected, the queue is honoured, a person's decision stands |
| Rules | rule rows, one per memory | propose, distil, promote, dismiss, snooze, revoke, delete, carry | a trigger reads and moves rules in separate statements while reviews and promotions write the same rows | a promoted rule is on a memory or its live successor; a person's decision on a rule is not overridden |
| Scopes, membership | members, invitations, consents | invite, accept, leave | access checked in several places | nobody reads beyond a scope |
| Budgets, metering | spend per window | check, record | check, then spend | the allowance is respected up to the calls in flight |
| Work claims | one record per owner and kind of work, in a shared table | claim, hand off, confirm, release; a hold that runs out | the claim travels with a job that is delivered late, twice or never, to a worker that may die | a key's work runs alone and once per claim; no key stays blocked |
| Translation worker | translation status per memory | classify, translate | pages read earlier | no finished translation undone |
| MCP sessions | open sessions | open, touch, evict | the cap | the least recently used goes first |

The watcher calls the ingest service over HTTP; the service writes memories.
The landing and release checks of the watcher, the tools of the MCP server and
the dashboard all call the board's SQL functions, each call one transaction.
Promotion reads a memory (a loop) and writes a card. Retrieval, embedding,
prompts, parsers, rendering, the web application, infrastructure and the
plumbing packages carry no control that these properties are about and are
not modelled.

## The modules

| Module | Models | From |
|---|---|---|
| `CardLinks` | the table of relations and the pure operators on it: normalisation, what is above what, what a write refuses, what it writes and retires | `card_links.sql`, `card_link_declaration.sql` |
| `Board` | cards, streams, branches, attachments, relations and releases as transactions of concurrent sessions | the SQL functions of the board's migrations, each in its latest version |
| `IngestLedger` | `IngestService.ingest`, one action per await, over `ingest_log` | `ingest.service.ts`, `ingest-log.repository.ts` |
| `Ingest` | the watcher, composed with `IngestLedger` | `watcher.ts`, `chunker.ts`, `offset-state.ts`, `state-file.ts`, `ingest-client.ts` |
| `GrantLedger` | what the authorization server promises about a grant: opened once, one generation at a time, ended for good, and no pair handed out that is not its own | abstract |
| `AgentGrants` | the authorization server, one action per await of a request, with Auth's sessions; shown to implement `GrantLedger` | `handlers.ts`, `supabase-oauth-store.ts`, `supabase-auth-gateway.ts`, `agent_grants.sql` |
| `Memories` | memories and rules: the memory tools, promotion and the incubator, await by await, and the trigger that carries rules | `memory.service.ts`, `memory.repository.ts`, `rule-candidate-detector.ts`, `rule_carry_in_sync.sql` |
| `Hygiene` | the scanner and the people at the review queue, over the tables of `Memories` | `hygiene-scanner.ts`, `hygiene-decision.ts`, `hygiene-resolver.ts`, `review-actions.ts` |
| `ClaimLedger` | what a claim on paid work promises: granted while none of its key's work runs, begun once, and only by the latest claim | abstract |
| `WorkClaims` | the claims, the requests that take them, the jobs function's queue and its workers, with their limits of time; shown to implement `ClaimLedger` | `work-claims.dynamodb.ts`, `lambda.jobs.ts`, `mcp-server.ts`, `logger/src/index.ts`, `lambda.ts`, `server.stack.ts` |
| `MCBoard`, `MCIngest`, `MCAgentGrants`, `MCHygiene` | the small instances (`WorkClaims` needs no module for its) | |
| `CardLinksProofs`, `BoardProofs`, `BoardLocksProofs`, `BoardHistoryProofs`, `IngestProofs`, `AgentGrantsProofs`, `HygieneProofs`, `WorkClaimsProofs` | the theorems | |

### How a board call is modelled

A call is a record of the arguments that pass the checks made before anything
is read. `Begin` makes the reads that come before any lock (the idempotency key
of move, land, note and link; the loop of a promotion; the relation of a
detach). `TakeLock` takes one lock of `LocksOf`, in the order of the code, and
waits for its owner. `ExecMove`, `ExecLand`, ... make the checks and the writes
of the function; the writes go to `w[s]`, which only the session sees. The
relations of a create or move, and the cards of a release, are steps of their
own (`DeclareItem`, `ReleaseItem`), because each takes another row lock.
`Commit` publishes the writes, `UniqueViolation` ends a call that a unique
index stops, and `DeadlockAbort` is the database's deadlock detector: those
three and the locks are Postgres, modelled from how the functions rely on them.
A refusal after writes (`raise exception` ZM001) drops them, as the code's
rollback does.

Data is abstracted to what the rules tell apart: the title, body and severity
of a card are one value, a reason is whether there is one, a commit id is a
sequence of digits so that short and full ids can be compared by prefix, and a
board is one scope. Row-level security is outside the model: every caller may
write. `issued` and `retried` record what callers did with a key.

### How ingest is modelled

A line is a complete line of the transcript, a chunk the set of its lines, and
its hash is itself; sizes count lines instead of characters. Noise lines hold no
text. A scan is two steps, because the process may be stopped after it looked at
the size of the file. `dropped` is history: what was in memory when a process
ended. `Fault` counts the failures of the network, the model, the database and
the service itself; each await of the service can fail, and a client can stop
waiting at any time while its request goes on.

### How the authorization server is modelled

A request is a record of what its handler holds between two awaits; `pc` names
the call it will make next, and each call of the store or of Auth is one action.
A refresh token is its grant and generation, because the signature admits no
other; a client presents any token it was ever answered (`RefreshGrant`), so
late, repeated and copied tokens are all there. Auth is external: it opens
sessions, refreshes those it still knows, may be unreachable at any call, and
ends sessions when a person gives a second factor or changes credentials. It may
also refuse to refresh a session that lives on, for a limit on the rate or a token
already used: the gateway takes every 4xx for the session's end, and so does
`RefreshSession`. A store call inside a `try` block throws into `Undo`, which may fail in turn; any
request may die (`Crash`). Expiry, the closing of the race window and the
housekeeping are actions of their own.

`revoke_connected_agent` is a transaction of five statements at READ COMMITTED, and
each is an action (`WithdrawConsent` to `WithdrawCodes`): it sees what was committed
before it began, and what it writes is kept in the request (`writes`) and published
by the last. Whoever would write a row it has written waits (`ConsentFree`, `GrantsFree`,
`SessionsFree`, `RecordsFree`); a row inserted after its statement looked is missed, as
in the database. `Crash` undoes it.

`answers`, `clicked`, `of`, `first` and `astray` are auxiliary: what left the server, what
persons approved, where a grant came from, and which sessions got away from their
records: those Auth refused though they live, and those recorded after a withdrawal
deleted the sessions and before it deleted the records.

### How memories and their upkeep are modelled

Three kinds of process work on the same two tables: requests (`req`), reviewers
(`rev`) and runs of the scanner (`job`). Each holds exactly what the code holds
across its awaits: the aggregate a request will write back whole (`snap`), the
subjects of a page with the kind they had (`Sides`), the neighbours, the
counterparts found on the queue, the pairs judged and the losers of this run. A
model's verdict is open, and so is how near two texts are; what the code does
with a verdict (`DecideAction`, `ProtectPromotedLoop`, `Collapses`) is the
function it is.

An update that sets `superseded_by` fires the trigger that carries a rule, which reads,
locks and writes in statements of its own. So it is two steps: `Supersede` is the update
with what its trigger reads (`carrying`), and `CommitSupersede` moves the rule on that
and commits. In between the rows it read are locked (`LockedBy`, `LockedRules`) and whoever
would write them waits, but a rule may still be inserted for a successor that had
none; then the commit is not possible, for `unique (memory_id)`, and the update is rolled
back (`RollBack`), as it is for a deadlock or a lost connection. What follows is the caller's:
a remember logs it and goes on with its next target, another request, a run of the
scanner and the review page stop, and the resolver's tools settle the row as if
the update had been made (`Fails`, `RetireFails`, `SideFails`). A run or request that fails
otherwise, or whose process ends, takes no further step: nothing here is resumed. Times of creation are the order of ids.

### How work claims are modelled

`scan_hygiene` and `benchmark_memory` claim the owner's key (`Claim`), hand the work
to the jobs function with the claim's token (`HandOff`) and answer; the benchmark works
on in between, and cleans up when that fails (`GiveUp`). A claim that is refused
changes nothing and is no action. `Deliver` starts a worker, `Confirm` and `Skip` are
the two answers of `confirm`, `WorkEnds` and `Release` the two ends of `underClaim`.
An event may be delivered again as long as it is young enough, because Lambda promises
at-least-once delivery of asynchronous events, although the deployment sets no retries;
two workers run at a time, although it reserves one: what the claims promise
does not need either setting.

Faults are actions: an answer of the table that is lost (`ClaimLost`, `ConfirmLost`),
a hand-off that fails and is only logged (`RequestLost`), one that completes after the
instance had answered and frozen (`HandOff` of a frozen request), a worker that dies
(`Die`). `ConfirmLost` also stands for the client's own retry of that write: it finds
the claim `running` and is told no, so the claim is used up without its work. The code
prefers that to work done twice.

Time is counted down. One `Tick` takes a unit from everything that runs out: the
hold and the record of each claim (`left` counts both; the hold is over when no more
than `Evidence` is left), a request, an event, a job. `Ttl`, `Lease`, `Evidence`,
`RequestLimit`, `EventAge` and `JobTimeout` stand for 30 minutes, 20 minutes, 2 hours,
60 seconds, 1 hour and 15 minutes, set in four files; `ClaimsAssumption` is the relation
between them that the comments there rely on. One clock is assumed for the server
and its workers. `latest`, `confirmed` and `begun` are history.

## Runs

All bounds are CONSTANTS of the cfg files; `MaxCalls`, `MaxLines`, `MaxStops` and
`MaxFaults` cap what would be unbounded; a change
of the release policy counts as a call.

| Run | Instance | Shows |
|---|---|---|
| `board_work` | one legacy card, two sessions, one key, one branch, a commit by its short and its full id and another one, one version, 3 calls of edit, move, land, archive, note, attach, detach, release | row, revision and branches are what the stream says (`CardFollowsHistory`); sequence numbers never collide (`LocksPreventClashes`); `KeyAppliedOnce`; `LandingRecordedOnce`, `ReleaseCarriesCheckedLanding`; entering and leaving `active` is accounted for at commit; an archived card keeps its content; a call takes effect as if it ran alone at its commit (`CommitsAsIfAlone`) |
| `board_links` | three cards, three relations, 3 calls | `NoCardAboveItself`, `LinkInv` (which holds one parent each and that untyped yields to typed), `LinksFollowHistory` |
| `board_create` | two free ids, one loop, one key, one attachment, lists of relations some of which are refused, 3 calls | numbers, keys and loops are taken once; `AssessedAtBirth`; the types the proofs start from |
| `board_declare` | two cards, moves with relations, attachments, a release over both in descending order, 2 calls, weak fairness | only a release can close a circle of waits; `EveryCallAnswered` |
| `agent_grants` | one person, one client, two return addresses, two authorizations and grants, three sessions, two requests at a time, one rotation, one change of credentials, 2 events (a failure, expiry, second factor, changed credentials, refused refresh or withdrawal each; a withdrawal takes its five statements among the steps of the other request) | `OnePairPerGeneration`, `OneGrantPerAuthorization`, `WithdrawnMeansOut`, `NoStraySession`, `ConsentRestsOnClick`, and the refinement `KeepsLedger` |
| `hygiene` | three corpora of two memories and one more written, two rule rows, any 2 of 19 operations begun, each in as many steps as it has, a supersession in two | `ScannerRespectsAuthority`, `ScansHonourQueue`, `PersonsDecisionStands`, `RulesFollowMemories`, `SettledRulesSurvive` |
| `work_claims` | a scan and a benchmark of one owner, two claims, two workers, hold and lease 2, evidence 4, request 1, event age 3, job 2, weak fairness of time | `ClaimInv`, `SkippedOnlyIfObsolete`, `KeysComeFree`, and the refinement `KeepsLedger` |
| `ingest_watch` | 3 lines, one of them noise, cut at 2 with overlap 1, two concurrent requests, 2 faults, 1 end of the process | `ReadIsHeld`, `EveryChunkIsNews`, `StoredOnce`, the invariants the proofs use, and `EveryLineSettled` |

Why the bounds are enough for the cases to happen: two sessions are what a race
of one row or one lock needs, and three calls are a race after or before a
third, deciding call (archive, detach, landing); a circle needs three cards to
be more than a direct one; a short and a full id of one commit and a second
commit are every case of the comparison; two claims are a stale one and the one that replaced it, and the limits
of `work_claims` make every one of them run out before another somewhere, with
`ClaimsAssumption` met exactly; an overlap needs a cut at two lines; a
retry beside a running request needs two requests, one timeout and one failure;
a refresh that loses needs two requests on one grant, and losing what it minted
needs a session that ended, which is one event, with a second for a failure;
hazards of hygiene are one run or review that read something and one operation
that changes it, and three memories let a pair share a neighbour. In `hygiene`
a memory carries at most one dispute of its own, so that a row is known by its
memory, and a write declares at most one target.
Each property has a mutant of the code's definition in `PROJECT.json` that
violates it on the same instance. What the bounds leave out is covered by
the proofs where they exist.

Sessions are interchangeable, so the safety runs use symmetry over them; the
liveness runs do not.

### What the code does and a document says otherwise

| Run | Result |
|---|---|
| `board_assessed` | reviving a retired declared relation by an attachment forgets that the card was assessed |
| `ingest_restart` | a chunk whose last flush fails while stopping is not read again: the offset was saved when it was read |
| `ingest_duplicate` | a duplicate answer for a request that later fails loses the chunk |
| `hygiene_challenge` | the nightly sweep takes the challenge of a single memory for a pair that lost a side, and dismisses it |

Seen while modelling, in the modules' behaviours but without a run of their own:

* A promotion reads that its loop is open before it takes a lock; a loop closed
  between that and the commit is promoted all the same. `CommitsAsIfAlone` leaves
  this read out.
* Relations still reach an archived card; `ArchivedKeepsContent` says what does hold.
* A retry that runs beside its first call is refused, or stopped by the unique
  index, instead of given the first result; `KeyAppliedOnce` says what does hold.
* `openGrant` ends the client's earlier grants and then inserts: two approvals of
  one client at once leave two live grants.
* A withdrawal during an approval is undone by the `upsertConsent` that ends it;
  the session it ended stays ended.
* Auth answers a refresh with a 4xx other than for an ended session (too many
  requests, a token already used): `refreshSession` reports it as ended
  (`supabase-auth-gateway.ts:198-209`), `renewSession` opens another session and forgets the
  record of the first, and a withdrawal no longer ends the session the client holds.
* A session recorded between the two deletes of `revoke_connected_agent`
  (`agent_grants.sql:197-210`) loses its record and stays alive, although the function's
  comment says it ends "every session minted for it". `WithdrawnMeansOut` excepts these
  two (`astray`) and says that there is no third.
* `renewSession` compares the credentials and then mints: a password changed in
  between leaves the agent a session under the new one. `advanceGrant` throwing
  after a mint leaves that session alive without a grant.
* `share` and `move_memories` write back every lifecycle column they loaded, so a
  memory retired meanwhile comes back to life.
* A rule row inserted for the successor between the trigger's look and its move makes
  the whole supersession fail on `unique (memory_id)`. `resolve_conflict` and the bulk
  policies do not read that error (`hygiene-resolver.ts:766-798`) and settle the row as
  `supersede` or `invalidate` although nothing was retired.
* A memory promoted to a rule after the trigger found none keeps its rule when it is
  superseded: the rule stays on the retired memory.
* Two resolutions of one conflict with opposite winners retire both memories.
* A scan that asked the queue before a conflict was settled as `keep_both` may still
  retire one side after it; `ScansHonourQueue` covers what was queued when it began.
* The collapse of two writes of one session does not look for a card promoted
  from the loser, as the judged path does.
* The incubator's draft and dismissal write by the id of the row alone, so they
  overturn a promotion made while the model was asked.
* A provisional memory absorbs an authoritative write of the same text.

### Fairness

`WorkClaims`' `FairSpec` has weak fairness on `Tick` alone: time passes. Requests, deliveries,
workers and the table's expiry may all stop, and a key still comes free, because a hold
is compared with the clock by whoever claims next.

`Board`'s `FairSpec` has weak fairness on each session's `Step`: Postgres runs every
backend, gives a free lock to a waiter and breaks deadlocks. `Begin` has none: nobody
must call. With two sessions a waiter is not overtaken for ever, as calls are
bounded.

`Ingest`'s `FairSpec` has weak fairness on `Scan`, `Read` and `SweepIdle` (interval timers
of a running process), on `Send` (the drain loop) and on each request's service and
answer (the service runs, and the client hears what is sent or times out). There is
none on `Write`, `SetConsent`, `Stop`, `Exit`, `Crash` and `Start`, nor on `TimedOut`. Failures
are bounded, so that a retry eventually meets a working service: the code backs
off and retries for ever and promises no more than that. A claim left by a request
that died counts as settled for the watcher, since it is acknowledged as a duplicate:
`EveryLineSettled` is about the watcher, not about the memories.

## Proofs

The theorems hold for every value of the constants that the assumptions allow:
`CardsAssumption` (cards are positive integers, standing for the order of ids),
`BoardAssumption` (finitely many cards; the sets of arguments have their types;
`None` is none of them; a name is not both a branch and another attachment, since the
attachments of a card are keyed by kind and name), `LedgerAssumption` and `WatcherAssumption` (the chunks
are the nonempty sets of lines; the overlap is smaller than a chunk, as the
chunker's constructor clamps it).

* **Relations.** `Sound` is the conjunction of `Acyclic`, `OneParent` and
  `UntypedAlone`. `LinkWriteSound` and `UnlinkSound` show that the pure write keeps
  it, given the checks `LinkRefused` and `LinkStands`; the argument for circles is that a
  path through the new relation would have been a path the check looks for.
  That is not enough for the system: the check reads the committed table and the
  write lands later. `LinkInv` adds the reason it is enough: whoever writes relations
  has held the links lock since before its first check, so that the table it
  merges into at commit is the one it checked. `LinksHeldAndSound` proves `LinkInv`,
  one lemma per action, and `RelationsKeepTheirRules` follows.
* **Types.** `TypeCorrect` proves `TypeOK` of `Board`. It needs the shape of a running
  call in `TxnOK` (which items it has, and that there is one left while it works on
  them), or the steps on items would not be defined.
* **Locks.** `LockInv` says of each session which prefix of `LocksOf` its call holds: none
  at rest, all before it writes anything. A call that is no release takes a single lock
  before it writes, or the links lock first; and it goes through items only with the
  links lock. So whoever waits while it holds something holds the links lock, and a
  circle has two such sessions: `NoCircleOfCommands`.
* **History.** Stream, row and locks are one argument. `CardFollowsHistory` is about
  committed tables, but what a call publishes was decided when it wrote, so the
  invariant is about what each session *has written and will still tell* (`Telling`,
  which counts the move that is logged after the declared relations). `SessionInv` says
  the session owns (`Owns`: holds the row lock of, or holds the scope and is opening)
  every card it has written a column of or tells of, and lists what it owes for them:
  `RowsHeld` (not archived, identity kept), `KeysHeld` (its key is on one event),
  `ActiveHeld`, `StateHeld`, `RevisionHeld`, `BranchHeld` (each column is what the
  stream will say once the events are in it), `LandHeld` and `ReleaseHeld` (no landing or
  version twice, and the landing the observer checked), `BirthHeld` (a card that is being
  opened answers for its relations, now or after its items). Three facts carry it.
  A call that writes establishes it (`Planned`, one lemma per command, where the guards
  of the code are used). No step of another session touches it (`OthersStand`: whatever
  `s` writes, it owns, and nobody else owns that, which is `LockInv`). A commit
  turns it into the same statement about the tables (`Publishes`). `BoardHolds` is the
  result; `HistoryTold`, `LandingsRecordedOnce`, `KeysAppliedOnce`, `ReleasesCarryCheckedLanding`
  and `IndexesNeverRefuse` (each unique index but that of an event's key is never
  reached) are read off it, and so are the four action properties `ArchivedKept`,
  `ActiveLeftAccounted`, `ActiveEnteredAccounted` and `BornAssessed`, since the tables
  change only at a commit.
* **As if alone.** A call reads, waits, checks and writes in steps of its own, and
  others commit in between. `CommitsAsIfAlone` says that this does not show: when a call
  commits, its key is new, its checks would pass on the tables as they are then, and it
  would write the same rows. `AloneInv` says it from the write on, and that the call owns
  both cards of every relation it wrote. What the checks of a call look at is what it
  owns (`Owns` again, for the rows, branches, attachments, streams and relations of its
  cards) or is kept still by the scope lock (numbers, keys, loops) or the links lock, and
  a step of another session `Spares` all of that; so `Undisturbed` holds of it and
  `AloneKept` carries the statement over. `ExecAlone` establishes it, one case per
  command. Not covered are the reads before any lock (only `promote` has one that matters,
  see above) and the list of relations declared with a card, of which `LinkInv` says that
  it sees the table it commits on.
* **The relations' streams.** A relation is told on two streams, and
  a call may write several before it commits, so row by row is not enough.
  `LinkTold` says of each session and each relation that it has told both cards the
  same change once, or neither (`KeyTold`), and that a call that goes through its declared
  items has only linked, or retired untyped rows in favour of declared ones, which the
  code logs on neither side. With the links lock, held from the
  check to the commit, the table a commit merges into is the one the change was
  computed from; `KeyFollows` of each relation is kept by adding one event to the
  end of both streams (`OneMoreTold`), and `RelationsTold` is `LinksFollowHistory`.
* **Grants.** `WithdrawnMeansOut` is about pairs already in a client's hands; to keep
  it, every session that may still reach one must be known to be findable.
  `GrantInv` says so: the sessions of each grant, of each answer and of each
  approval past its mint are `Covered` (opened for that person and client, and
  recorded as an agent's if alive), and a grant whose code was sent and that is
  live, or has a live first session, has its consent. What makes it inductive is
  that the tables only move forward (`Stable`: an opened grant keeps its person,
  client and first session and never lowers its generation, a covered session
  stays covered, an authorization keeps its client and address), so that a
  handler step has only its own request to answer for (`OneMoves`, `NoneMoves`).
  A withdrawal publishes at its end what each of its statements saw, so between them
  it must be known what its commit will do. `WithdrawalInv` says so: once it has ended
  the grants, every live grant whose code was sent is among them (locked, so that no
  refresh moves one to another session); once it has ended the sessions, every live session
  of these grants and of their answers that has not got away is among those it will
  end (`Reached`); and a record it deletes is of such a session, or of one
  that got away (`astray`). `KeptInv` says that only opened sessions are recorded, so
  that a record's person and client never change. `GrantInvariant` proves the three
  together; a session enters `astray` at two actions only, and none leaves it.
  `WithdrawalShutsOut`, `RefreshesAgree` and `GrantTypes` follow; `ServerKeepsLedger`
  maps each step to one of `GrantLedger` or to a stutter.
  Three more invariants rest on it. `ClickInv`: whoever is past the check for a remembered
  consent rests on a click, which no later step takes back. `DecisionInv`: the
  conditional update that decides an authorization lets one request through, so a
  request between its decision and its grant is alone with its authorization, and
  the grant it opens is the only one (`OneGrantPerAuthorization`). `StrayInv`: while
  nothing has failed, a live session stands behind a grant or is carried (`Carries`) by the request
  that opened it and will install or end it. That a refresh which advances the grant
  does not orphan the session it replaces needs `RenewOK`: as long as its generation is
  still the grant's, the session it read is still the grant's, and it minted a new one
  only after that had ended. `LosersCleanUp` is the case where no request runs.
* **Hygiene.** `ScannerRespectsAuthority` is about rows as they are when a run is
  about to write, and a decision taken on rows read before. `HygieneInv` says of
  every request, review and run that what it read still holds as far as it relies on
  it; `SideOK`, for instance, that a kind it read may be out of date in one direction
  only. `TablesOK` says how the tables may change in any step (`Evolves`: a memory
  never changes rank or session, and its kind only to `episode`; `Grows`: a pair that
  reached the queue stays there; decisions stand; rules
  stay or move). A carry is decided in one step and done in a later one, so `CarriesOK` says
  of each that what it read is still so, because the rows are locked and everyone
  who writes them waits (`CarryFits`), and `CarriesApart` that no two lock one
  memory: a commit then moves the rule it found, which is still promoted, onto a
  memory still live, and deletes nothing but a proposal still open. `RulesOutlastCarries` and
  `RulesCarried` follow. Every action is shown to be such a change, and whatever the others
  hold survives it. The theorems on the queue, on persons and on rules are parts
  of the same lemma.
* **Claims.** Neither half of the promise is inductive alone. That no two workers work
  on one key needs that a hold outlasts the work it covers (`HoldOutlives`: the record
  of a working job is its own, is running and has at least the job's time left
  beyond the evidence), so that no one else can claim the key meanwhile. That a job
  is not turned away wrongly needs that the record outlasts the wait
  (`RecordOutlivesWait`: as long as the claim is the key's latest and unconfirmed, its
  record is `queued` and lives through what is left of the request, the event and the
  job). `ClaimCorrect` proves both with the types and the history, for any limits that
  `ClaimsAssumption` admits; `ObsoleteOnly` and `ClaimsKeepLedger` follow from it, the
  latter with one step per action, most of them stutters of the ledger.
* **The ledger.** `StoredOnce` is not inductive: it needs that a worker's row is
  claimed, that a row that may be claimed has nothing stored, and that a request
  before or in its storing has stored nothing. `LedgerInv` is that, and `LedgerCorrect`
  proves it for arbitrary senders; `ChunkStoredOnce` follows.
* **The watcher.** `ReadIsHeld` is not inductive: an idle sweep drops a buffer without
  new text, which is harmless only because that text has left in a chunk
  (`StaleIsSent`); an acknowledgement removes the head of the queue, which must be
  what was acknowledged (`AnswersTheOldest`); a chunk is news only if fresh text in
  the buffer is (`FreshIsNews`). `IngestCorrect` proves the conjunction `WatcherInv` with
  `LedgerInv` for the composition; `NoLineLost`, `SentAgainStoredOnce` and
  `OverlapNeverAlone` follow.

The assumptions of the other modules are as weak: `GrantAssumption` (bounds are
numbers, `None` is nobody), `SizesAreNatural`, `CorporaFit`, `NoneIsNothing`, and
`ClaimsAssumption` (limits are positive; a job fits in its lease; request, event age and
job fit in hold and evidence).

Only model-checked: liveness (`EveryCallAnswered`, `EveryLineSettled`, `KeysComeFree`), since fairness is
out of the prover's reach, and the runs that expect a violation, which need one
behaviour and have it. Every other property of the passing runs is a theorem or
a conjunct of one.

## Plan

1. *Done*: `CardLinks`, `Board`, `IngestLedger`, `Ingest`, `AgentGrants` with `GrantLedger`,
   `Memories` and `Hygiene`, `WorkClaims` with `ClaimLedger`, with the runs and theorems
   above.
2. The translation worker: rows classified from a page read earlier, while a job of
   one memory translates.
3. `IngestHook`: the hook as a second sender to the ledger, with the shared offset
   file and the torn last line.
4. The detectors over memories that are left (loop closure, reflection, stale
   suspects) and the merging of two memories.
5. Budgets and metering; the sessions of the MCP server; several scopes.
6. An atomic "store once" that `IngestLedger` implements, as `GrantLedger` is for
   `AgentGrants`.
7. Proofs: every safety property of the passing runs has its theorem. Left are the
   refinement of item 6, and the invariants of whatever items 2 to 5 add.

## Not modelled

Row-level security and several scopes (every caller of the model may write one
board); the validation of arguments that fails before anything is read; wording
and JSON of answers; what extraction finds in a chunk; wall-clock times (idle
time, backoff and timeouts are choices, except in `WorkClaims`); a transcript that shrinks or is
rewritten; several transcripts at once, which share only the queue and the offset
file. Of the authorization server: registration of clients, scopes (a constant
there), signatures and the contents of tokens. Of memories: texts, vectors,
entities, links, scopes beyond shared or not, recall, and memories of several
owners. Of background work: the claims a long-lived server keeps in its process
(one map, no await between look and write), the jobs that run without a claim, and
the interval timers. The detectors named in the plan, merging, and promotion texts, pins and
the rule gate. Most of the repository's lines are outside all of this:
presentation, tool schemas, prompts, parsers, generated types and queries, which
have no state whose steps could interleave; the modules cover the parts that do,
up to those the plan names. The components listed as not modelled in `PROJECT.json` give their reason
there.
