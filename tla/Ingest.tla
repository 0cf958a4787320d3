------------------------------- MODULE Ingest -------------------------------
(***************************************************************************)
(* The transcript watcher and the ingest service it feeds.                 *)
(*                                                                         *)
(* The watcher tails a transcript: it reads the lines after the persisted  *)
(* offset, buffers them, cuts the buffer into chunks and sends the chunks, *)
(* oldest first, until the service acknowledges each.  Buffer and queue    *)
(* live in memory; the offset lives in a file.  A line is one complete     *)
(* line of the transcript; a chunk is the set of the lines in it, which    *)
(* are sent in order; sizes are counted in lines.                          *)
(***************************************************************************)
EXTENDS Integers, Sequences, FiniteSets, IngestLedger

CONSTANTS
    MaxLines,   \* bound on the lines of the transcript
    Noise,      \* lines without a user's or an assistant's text
    MaxChunk,   \* chunkChars: the buffer is cut at this size
    Overlap,    \* overlapChars: what a cut carries into the next chunk
    MaxStops    \* bound on the ends of the watcher's process

Lines == 1..MaxLines

ASSUME WatcherAssumption ==
    /\ MaxLines \in Nat
    /\ Noise \subseteq Lines
    /\ MaxChunk \in Nat \ {0}
    /\ Overlap \in 0 .. MaxChunk - 1
    /\ MaxStops \in Nat
    /\ Chunks = (SUBSET Lines) \ {{}}
    /\ None \notin Requests

VARIABLES
    file,       \* complete lines in the transcript
    consent,    \* whether the project's transcripts may be sent
    offset,     \* lines the offset file says are read
    found,      \* lines a running scan found in the file; offset when none runs
    buf,        \* the conversation's buffer
    queue,      \* #sendQueue
    sending,    \* #sending: a drain of the queue runs
    inflight,   \* the request the drain waits for
    mode,       \* what the process is doing about stopping
    stops,      \* ends of the process so far
    acked,      \* history: chunks acknowledged
    skipped,    \* history: lines read without consent
    dropped     \* history: lines that were in memory when a process ended

watcher == <<offset, found, buf, queue, sending, inflight, mode, stops>>
history == <<acked, skipped, dropped>>
vars == <<ledgerVars, file, consent, watcher, history>>

NoBuffer == [text |-> {}, fresh |-> FALSE]

Queued == UNION {queue[i] : i \in DOMAIN queue}

Held == buf.text \cup Queued

Acked == UNION acked

-----------------------------------------------------------------------------
(* The chunker. *)

\* The last lines of a chunk, when they are not all of it.
Tail_(text) ==
    IF Cardinality(text) <= Overlap THEN {}
    ELSE {n \in text : Cardinality({m \in text : m > n}) < Overlap}

Flushed(text, reseed) ==
    IF reseed THEN [text |-> Tail_(text), fresh |-> FALSE] ELSE NoBuffer

\* append: buffers the new lines and cuts a chunk when the cap is hit.
Append_(new) ==
    LET text == buf.text \cup new
        full == Cardinality(text) >= MaxChunk
    IN  /\ buf' = IF full THEN Flushed(text, TRUE)
                  ELSE [text |-> text, fresh |-> TRUE]
        /\ queue' = IF full THEN Append(queue, text) ELSE queue

-----------------------------------------------------------------------------
(* The transcript and its project. *)

Write ==
    /\ file < MaxLines
    /\ file' = file + 1
    /\ UNCHANGED <<ledgerVars, consent, watcher, history>>

SetConsent ==
    /\ consent' = ~consent
    /\ UNCHANGED <<ledgerVars, file, watcher, history>>

-----------------------------------------------------------------------------
(* The watcher. *)

\* scan, as far as the size of the file: one scan at a time, and none once the
\* watcher stops.
Scan ==
    /\ mode = "run"
    /\ found = offset
    /\ found' = file
    /\ UNCHANGED <<ledgerVars, file, consent, offset, buf, queue, sending,
                   inflight, mode, stops, history>>

\* readNewBytes: the offset is saved, then the lines are buffered, unless
\* they hold no text or the project is not consented.  A scan that began
\* before the watcher stopped goes on.
Read ==
    LET new == (offset + 1 .. found) \ Noise
    IN  /\ mode # "down"
        /\ offset < found
        /\ offset' = found
        /\ \/ /\ new # {} /\ consent
              /\ Append_(new)
              /\ UNCHANGED skipped
           \/ /\ new = {} \/ ~consent
              /\ skipped' = skipped \cup new
              /\ UNCHANGED <<buf, queue>>
        /\ UNCHANGED <<ledgerVars, file, consent, found, sending, inflight, mode,
                       stops, acked, dropped>>

\* Mutant: an idle buffer is dropped, new text or not.
DropIdle ==
    /\ mode = "run"
    /\ buf # NoBuffer
    /\ buf' = NoBuffer
    /\ UNCHANGED <<ledgerVars, file, consent, offset, found, queue, sending,
                   inflight, mode, stops, history>>

\* Mutant: whatever an idle buffer holds is sent.
SweepStale ==
    /\ mode = "run"
    /\ buf # NoBuffer
    /\ buf' = NoBuffer
    /\ queue' = Append(queue, buf.text)
    /\ UNCHANGED <<ledgerVars, file, consent, offset, found, sending, inflight,
                   mode, stops, history>>

\* sweepIdle: a buffer that sat idle is cut; carried-over text alone is
\* dropped.
SweepIdle ==
    /\ mode = "run"
    /\ buf # NoBuffer
    /\ buf' = NoBuffer
    /\ queue' = IF buf.fresh THEN Append(queue, buf.text) ELSE queue
    /\ UNCHANGED <<ledgerVars, file, consent, offset, found, sending, inflight,
                   mode, stops, history>>

\* Mutant: a drain sends one chunk and keeps the flag of a running one.
SendFirst(r) ==
    /\ mode # "down"
    /\ ~sending
    /\ queue # <<>>
    /\ Arrive(r, Head(queue))
    /\ inflight' = r
    /\ sending' = TRUE
    /\ UNCHANGED <<file, consent, offset, found, buf, queue, mode, stops, history>>

\* drainQueue: the oldest chunk is sent and stays in the queue.
Send(r) ==
    /\ mode # "down"
    /\ inflight = None
    /\ queue # <<>>
    /\ Arrive(r, Head(queue))
    /\ inflight' = r
    /\ sending' = TRUE
    /\ UNCHANGED <<file, consent, offset, found, buf, queue, mode, stops, history>>

\* The service took the chunk, or says it has it.
Acknowledged(r) ==
    /\ inflight = r
    /\ call[r].answer \in {"ok", "duplicate"}
    /\ Collect(r)
    /\ inflight' = None
    /\ queue' = Tail(queue)
    /\ sending' = (Tail(queue) # <<>>)
    /\ mode' = IF mode = "drain" /\ Tail(queue) = <<>> THEN "exit" ELSE mode
    /\ acked' = acked \cup {Head(queue)}
    /\ UNCHANGED <<file, consent, offset, found, buf, stops, skipped, dropped>>

\* Mutant: a chunk that failed is not tried again.
GiveUp ==
    /\ inflight' = None
    /\ queue' = Tail(queue)
    /\ sending' = (mode = "run")
    /\ mode' = IF mode = "drain" THEN "exit" ELSE mode
    /\ UNCHANGED <<file, consent, offset, found, buf, stops, history>>

\* The chunk stays first in the queue.  A running watcher backs off and
\* sends it again; a stopping one leaves the loop.
SendFailed ==
    /\ inflight' = None
    /\ sending' = (mode = "run")
    /\ mode' = IF mode = "drain" THEN "exit" ELSE mode
    /\ UNCHANGED <<file, consent, offset, found, buf, queue, stops, history>>

Refused(r) ==
    /\ inflight = r
    /\ call[r].answer = "error"
    /\ Collect(r)
    /\ SendFailed

\* The client stops waiting; the request goes on.
TimedOut(r) ==
    /\ inflight = r
    /\ Fault
    /\ UNCHANGED <<ledger, call, stored>>
    /\ SendFailed

\* An answer nobody waits for.
TooLate(r) ==
    /\ inflight # r
    /\ Collect(r)
    /\ UNCHANGED <<file, consent, watcher, history>>

\* stop: the buffer is cut and the queue drained, except that a drain already
\* running is not waited for.
Stop ==
    /\ mode = "run"
    /\ stops < MaxStops
    /\ buf' = NoBuffer
    /\ queue' = IF buf.fresh THEN Append(queue, buf.text) ELSE queue
    /\ mode' = IF sending \/ queue' = <<>> THEN "exit" ELSE "drain"
    /\ UNCHANGED <<ledgerVars, file, consent, offset, found, sending, inflight,
                   stops, history>>

\* The memory of the process goes; kept is what its offset file reads as.
Gone(kept) ==
    /\ offset' = kept
    /\ found' = kept
    /\ mode' = "down"
    /\ stops' = stops + 1
    /\ buf' = NoBuffer
    /\ queue' = <<>>
    /\ sending' = FALSE
    /\ inflight' = None
    /\ dropped' = dropped \cup Held
    /\ UNCHANGED <<ledgerVars, file, consent, acked, skipped>>

Exit ==
    /\ mode = "exit"
    /\ Gone(offset)

\* A crash can tear the offset file, which then reads as empty.
Crash ==
    /\ mode # "down"
    /\ stops < MaxStops
    /\ \E kept \in {offset, 0} : Gone(kept)

Start ==
    /\ mode = "down"
    /\ mode' = "run"
    /\ UNCHANGED <<ledgerVars, file, consent, offset, found, buf, queue, sending,
                   inflight, stops, history>>

-----------------------------------------------------------------------------

Init ==
    /\ LedgerInit
    /\ file = 0
    /\ consent = TRUE
    /\ offset = 0
    /\ found = 0
    /\ buf = NoBuffer
    /\ queue = <<>>
    /\ sending = FALSE
    /\ inflight = None
    /\ mode = "run"
    /\ stops = 0
    /\ acked = {}
    /\ skipped = {}
    /\ dropped = {}

Respond(r) == Acknowledged(r) \/ Refused(r) \/ TooLate(r)

Service(r) == Serve(r) /\ UNCHANGED <<file, consent, watcher, history>>

Next ==
    \/ Write \/ SetConsent \/ Scan \/ Read \/ SweepIdle
    \/ Stop \/ Exit \/ Crash \/ Start
    \/ \E r \in Requests : Send(r) \/ Respond(r) \/ TimedOut(r) \/ Service(r)

Spec == Init /\ [][Next]_vars

\* Timers fire, the drain goes on and the service answers.
FairSpec ==
    /\ Spec
    /\ WF_vars(Scan) /\ WF_vars(Read) /\ WF_vars(SweepIdle)
    /\ WF_vars(\E r \in Requests : Send(r))
    /\ \A r \in Requests : WF_vars(Respond(r)) /\ WF_vars(Service(r))

-----------------------------------------------------------------------------

\* The watcher's state holds values of its kinds.
WatcherTypeOK ==
    /\ file \in 0..MaxLines
    /\ consent \in BOOLEAN
    /\ offset \in 0..file
    /\ found \in offset..file
    /\ buf \in [text : SUBSET Lines, fresh : BOOLEAN]
    /\ queue \in Seq(Chunks)
    /\ sending \in BOOLEAN
    /\ inflight \in Requests \cup {None}
    /\ mode \in {"run", "drain", "exit", "down"}
    /\ stops \in 0 .. MaxStops
    /\ mode \in {"drain", "exit"} => stops < MaxStops
    /\ acked \in SUBSET Chunks
    /\ skipped \in SUBSET Lines
    /\ dropped \in SUBSET Lines

\* Every line of text the offset has passed is acknowledged, still in memory,
\* read without consent, or was in memory when a process ended: chunking,
\* overlap, idle flushes, failures and retries lose none.
ReadIsHeld == (1..offset) \ Noise \subseteq Acked \cup Held \cup skipped \cup dropped

\* A buffer without new text holds only lines that left in a chunk, so that
\* dropping it loses nothing.
StaleIsSent == ~buf.fresh => buf.text \subseteq Acked \cup Queued

\* The request the drain waits for carries the oldest chunk, so that an
\* acknowledgement removes the chunk it is about.
AnswersTheOldest ==
    inflight # None =>
        /\ queue # <<>>
        /\ call[inflight].phase # "idle"
        /\ call[inflight].chunk = Head(queue)

\* Every chunk has text its predecessors had not: overlap is never sent alone.
EveryChunkIsNews ==
    \A i \in DOMAIN queue : \E n \in queue[i] : \A j \in 1 .. i-1 : n \notin queue[j]

\* New text is text no queued chunk has, and nothing past the offset is held.
FreshIsNews ==
    /\ buf.fresh => \E n \in buf.text : n \notin Queued
    /\ Held \subseteq 1..offset

\* Together they are inductive.
WatcherInv ==
    /\ WatcherTypeOK
    /\ ReadIsHeld
    /\ StaleIsSent
    /\ AnswersTheOldest
    /\ EveryChunkIsNews
    /\ FreshIsNews

\* Every line the watcher could read is dealt with while it runs.
EveryLineSettled ==
    \A n \in Lines \ Noise :
        (n <= file) ~> (n \in Acked \cup skipped \cup dropped \/ mode # "run")

\* What watcher.ts says of a flush that fails while the watcher stops: the
\* chunk not acknowledged is read again on the next run, so that the offset
\* the process leaves is still before its lines.
UnackedIsReadAgain ==
    [][mode = "drain" /\ mode' = "exit" =>
          \A n \in Queued' \ Acked' : n > offset']_vars

\* What ingest.service.ts says of a released claim: the client will retry the
\* chunk.
ReleasedIsRetried == \A h \in acked : ledger[h] # "absent"
=============================================================================
