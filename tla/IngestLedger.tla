---------------------------- MODULE IngestLedger ----------------------------
(***************************************************************************)
(* The ingest service: one row of ingest_log per chunk, claimed before any *)
(* work, so that a chunk sent again is a no-op.                            *)
(*                                                                         *)
(* A request is one call of IngestService.ingest; its phases are the       *)
(* awaits of that method.  Requests of one chunk interleave: a client that *)
(* gave up waiting sends the chunk again while the first request still     *)
(* runs.  A chunk stands for its own hash.                                 *)
(***************************************************************************)
EXTENDS Naturals

CONSTANTS
    Chunks,     \* transcript chunks, by content
    Requests,   \* concurrent requests the service runs
    NoChunk,    \* the chunk of no request
    None,       \* no answer, no request
    MaxFaults   \* bound on the failures of a behaviour

ASSUME LedgerAssumption == NoChunk \notin Chunks /\ MaxFaults \in Nat

VARIABLES
    ledger,     \* the row of each chunk in ingest_log
    call,       \* the request each slot runs
    stored,     \* how often the memories of a chunk were written
    faults      \* failures so far

ledgerVars == <<ledger, call, stored, faults>>

RowStates == {"absent", "claimed", "processed"}

Phases == {"idle", "claiming", "extracting", "releasing", "storing",
           "marking", "answered"}

NoCall == [phase |-> "idle", chunk |-> NoChunk, answer |-> None]

\* The request holds the claim of its chunk.
Working(r) == call[r].phase \in {"extracting", "releasing", "storing", "marking"}

\* A service, a database or a model fails.
Fault == faults < MaxFaults /\ faults' = faults + 1

Goes(r, phase) == call' = [call EXCEPT ![r].phase = phase]

Answer(r, answer) ==
    call' = [call EXCEPT ![r].phase = "answered", ![r].answer = answer]

-----------------------------------------------------------------------------

Arrive(r, h) ==
    /\ call[r] = NoCall
    /\ call' = [call EXCEPT ![r] =
                   [phase |-> "claiming", chunk |-> h, answer |-> None]]
    /\ UNCHANGED <<ledger, stored, faults>>

\* Mutant: the row is read, and written by whoever found none.
ClaimsAgain(r) ==
    /\ call[r].phase = "claiming"
    /\ ledger[call[r].chunk] # "processed"
    /\ ledger' = [ledger EXCEPT ![call[r].chunk] = "claimed"]
    /\ Goes(r, "extracting")
    /\ UNCHANGED <<stored, faults>>

\* insertIfAbsent: the insert that conflicts writes nothing.
Claim(r) ==
    /\ call[r].phase = "claiming"
    /\ \/ /\ ledger[call[r].chunk] = "absent"
          /\ ledger' = [ledger EXCEPT ![call[r].chunk] = "claimed"]
          /\ Goes(r, "extracting")
       \/ /\ ledger[call[r].chunk] # "absent"
          /\ Answer(r, "duplicate")
          /\ UNCHANGED ledger
    /\ UNCHANGED <<stored, faults>>

\* The insert is refused, or done and its answer lost.
ClaimFails(r) ==
    /\ call[r].phase = "claiming"
    /\ Fault
    /\ \/ UNCHANGED ledger
       \/ /\ ledger[call[r].chunk] = "absent"
          /\ ledger' = [ledger EXCEPT ![call[r].chunk] = "claimed"]
    /\ Answer(r, "error")
    /\ UNCHANGED stored

\* The model answers, or the chunk is one that needs no extraction.
Extract(r) ==
    /\ call[r].phase = "extracting"
    /\ Goes(r, "storing")
    /\ UNCHANGED <<ledger, stored, faults>>

\* The allowance is exhausted or the extractor throws.
ExtractFails(r) ==
    /\ call[r].phase = "extracting"
    /\ Fault
    /\ Goes(r, "releasing")
    /\ UNCHANGED <<ledger, stored>>

\* The row is deleted by its hash; when that fails it is only logged.
Release(r) ==
    /\ call[r].phase = "releasing"
    /\ \/ ledger' = [ledger EXCEPT ![call[r].chunk] = "absent"] /\ UNCHANGED faults
       \/ Fault /\ UNCHANGED ledger
    /\ Answer(r, "error")
    /\ UNCHANGED stored

\* The accepted candidates are remembered, one by one; a candidate the memory
\* refuses is noted and skipped.
Store(r) ==
    /\ call[r].phase = "storing"
    /\ \/ stored' = [stored EXCEPT ![call[r].chunk] = @ + 1] /\ UNCHANGED faults
       \/ Fault /\ UNCHANGED stored
    /\ Goes(r, "marking")
    /\ UNCHANGED ledger

\* markProcessed, best effort.
Mark(r) ==
    /\ call[r].phase = "marking"
    /\ \/ ledger' = [ledger EXCEPT ![call[r].chunk] = "processed"] /\ UNCHANGED faults
       \/ Fault /\ UNCHANGED ledger
    /\ Answer(r, "ok")
    /\ UNCHANGED stored

\* Mutant: whatever ends a request gives its claim back.
AbandonReleases(r) ==
    /\ call[r].phase \notin {"idle", "answered"}
    /\ Fault
    /\ ledger' = [ledger EXCEPT ![call[r].chunk] = "absent"]
    /\ Answer(r, "error")
    /\ UNCHANGED stored

\* The service stops, or throws where nothing is caught: the claim stays.
Abandon(r) ==
    /\ call[r].phase \notin {"idle", "answered"}
    /\ Fault
    /\ Answer(r, "error")
    /\ UNCHANGED <<ledger, stored>>

\* The answer leaves; whether a client still waits for it is the client's.
Collect(r) ==
    /\ call[r].phase = "answered"
    /\ call' = [call EXCEPT ![r] = NoCall]
    /\ UNCHANGED <<ledger, stored, faults>>

-----------------------------------------------------------------------------

LedgerInit ==
    /\ ledger = [h \in Chunks |-> "absent"]
    /\ call = [r \in Requests |-> NoCall]
    /\ stored = [h \in Chunks |-> 0]
    /\ faults = 0

\* What a request does once it arrived.
Serve(r) ==
    \/ Claim(r) \/ ClaimFails(r) \/ Extract(r) \/ ExtractFails(r)
    \/ Release(r) \/ Store(r) \/ Mark(r) \/ Abandon(r)

LedgerNext ==
    \E r \in Requests : (\E h \in Chunks : Arrive(r, h)) \/ Serve(r) \/ Collect(r)

LedgerSpec == LedgerInit /\ [][LedgerNext]_ledgerVars

-----------------------------------------------------------------------------

Answers == {"ok", "duplicate", "error", None}

\* The rows, the requests and the counters hold values of their kinds.
LedgerTypeOK ==
    /\ ledger \in [Chunks -> RowStates]
    /\ call \in [Requests -> [phase : Phases, chunk : Chunks \cup {NoChunk},
                              answer : Answers]]
    /\ \A r \in Requests : call[r].phase # "idle" => call[r].chunk \in Chunks
    /\ stored \in [Chunks -> Nat]
    /\ faults \in 0..MaxFaults

\* Two requests never work on one chunk at once, however its sender retries.
OneWorkerPerChunk ==
    \A q, r \in Requests :
        Working(q) /\ Working(r) /\ call[q].chunk = call[r].chunk => q = r

\* The memories of a chunk are written once, whatever is retried, released,
\* claimed again or answered too late.
StoredOnce == \A h \in Chunks : stored[h] <= 1

\* Why: a worker's row is claimed and stays so, nothing is stored under a row
\* that may be claimed, and what was stored is never released.
LedgerInv ==
    /\ LedgerTypeOK
    /\ OneWorkerPerChunk
    /\ StoredOnce
    /\ \A h \in Chunks : ledger[h] = "absent" => stored[h] = 0
    /\ \A r \in Requests :
          /\ Working(r) => ledger[call[r].chunk] = "claimed"
          /\ call[r].phase \in {"extracting", "releasing", "storing"} =>
                stored[call[r].chunk] = 0
=============================================================================
