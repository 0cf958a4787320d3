---------------------------- MODULE IngestProofs ----------------------------
(***************************************************************************)
(* The ledger admits one worker per chunk, and a chunk's memories once; the*)
(* watcher loses no line but by ending, and never sends overlap alone,     *)
(* whatever the service does.                                              *)
(***************************************************************************)
EXTENDS Ingest, TLAPS

-----------------------------------------------------------------------------
(* The ledger. *)

\* What the phases of the working requests say of the ledger.
ClaimsOnRecord ==
    /\ \A h \in Chunks : ledger[h] = "absent" => stored[h] = 0
    /\ \A r \in Requests :
          /\ Working(r) => ledger[call[r].chunk] = "claimed"
          /\ call[r].phase \in {"extracting", "releasing", "storing"} =>
                stored[call[r].chunk] = 0

Calls == [phase : Phases, chunk : Chunks \cup {NoChunk}, answer : Answers]

\* The phase of one request changes, and nothing else of it.
Moved(r, phase) ==
    /\ call' \in [Requests -> Calls]
    /\ call'[r].phase = phase
    /\ call'[r].chunk = call[r].chunk
    /\ \A q \in Requests \ {r} : call'[q] = call[q]

\* Going on to another phase moves one request.
LEMMA GoesMoves ==
    ASSUME LedgerTypeOK, NEW r \in Requests, NEW phase \in Phases, Goes(r, phase)
    PROVE  Moved(r, phase)
<1>1. call \in [Requests -> Calls]
  BY DEF LedgerTypeOK, Calls
<1>2. call' = [call EXCEPT ![r] = [call[r] EXCEPT !.phase = phase]]
  BY DEF Goes
<1>3. [call[r] EXCEPT !.phase = phase] \in Calls
  BY <1>1 DEF Calls
<1>. QED
  BY <1>1, <1>2, <1>3 DEF Moved, Calls

\* So does answering.
LEMMA AnswerMoves ==
    ASSUME LedgerTypeOK, NEW r \in Requests, NEW answer \in Answers,
           Answer(r, answer)
    PROVE  Moved(r, "answered")
<1>. DEFINE moved == [call EXCEPT ![r] = [call[r] EXCEPT !.phase = "answered"]]
<1>1. call \in [Requests -> Calls]
  BY DEF LedgerTypeOK, Calls
<1>2. moved \in [Requests -> Calls]
  <2>1. [call[r] EXCEPT !.phase = "answered"] \in Calls
    BY <1>1 DEF Calls, Phases
  <2>. QED
    BY <1>1, <2>1
<1>3. call' = [moved EXCEPT ![r] = [moved[r] EXCEPT !.answer = answer]]
  BY DEF Answer
<1>4. /\ moved[r].phase = "answered"
      /\ moved[r].chunk = call[r].chunk
      /\ \A q \in Requests \ {r} : moved[q] = call[q]
  BY <1>1 DEF Calls
<1>. HIDE DEF moved
<1>5. [moved[r] EXCEPT !.answer = answer] \in Calls
  BY <1>2 DEF Calls
<1>. QED
  BY <1>2, <1>3, <1>4, <1>5 DEF Moved, Calls

\* Every step of a request keeps the kinds of the service's state.
LEMMA StepKeepsTypes ==
    ASSUME LedgerTypeOK, NEW r \in Requests,
           (\E h \in Chunks : Arrive(r, h)) \/ Serve(r) \/ Collect(r)
    PROVE  LedgerTypeOK'
<1>. USE LedgerAssumption DEF LedgerTypeOK, RowStates, Calls
<1>1. CASE \E h \in Chunks : Arrive(r, h)
  BY <1>1 DEF Arrive, NoCall, Phases, Answers
<1>2. CASE Claim(r)
  <2>1. Moved(r, "extracting") \/ Moved(r, "answered")
    BY <1>2, GoesMoves, AnswerMoves DEF Claim, Phases, Answers
  <2>. QED
    BY <1>2, <2>1 DEF Claim, Moved
<1>3. CASE ClaimFails(r)
  <2>1. Moved(r, "answered")
    BY <1>3, AnswerMoves DEF ClaimFails, Answers
  <2>. QED
    BY <1>3, <2>1 DEF ClaimFails, Moved, Fault
<1>4. CASE Extract(r) \/ ExtractFails(r)
  <2>1. Moved(r, "storing") \/ Moved(r, "releasing")
    BY <1>4, GoesMoves DEF Extract, ExtractFails, Phases
  <2>. QED
    BY <1>4, <2>1 DEF Extract, ExtractFails, Moved, Fault
<1>5. CASE Release(r)
  <2>1. Moved(r, "answered")
    BY <1>5, AnswerMoves DEF Release, Answers
  <2>. QED
    BY <1>5, <2>1 DEF Release, Moved, Fault
<1>6. CASE Store(r)
  <2>1. Moved(r, "marking")
    BY <1>6, GoesMoves DEF Store, Phases
  <2>. QED
    BY <1>6, <2>1 DEF Store, Moved, Fault
<1>7. CASE Mark(r)
  <2>1. Moved(r, "answered")
    BY <1>7, AnswerMoves DEF Mark, Answers
  <2>. QED
    BY <1>7, <2>1 DEF Mark, Moved, Fault
<1>8. CASE Abandon(r)
  <2>1. Moved(r, "answered")
    BY <1>8, AnswerMoves DEF Abandon, Answers
  <2>. QED
    BY <1>8, <2>1 DEF Abandon, Moved, Fault
<1>9. CASE Collect(r)
  BY <1>9 DEF Collect, NoCall, Phases, Answers
<1>. QED
  BY <1>1, <1>2, <1>3, <1>4, <1>5, <1>6, <1>7, <1>8, <1>9 DEF Serve

\* Every step of a request keeps the whole invariant.
LEMMA StepKeepsLedgerInv ==
    ASSUME LedgerInv, NEW r \in Requests,
           (\E h \in Chunks : Arrive(r, h)) \/ Serve(r) \/ Collect(r)
    PROVE  LedgerInv'
<1>1. LedgerTypeOK'
  BY StepKeepsTypes DEF LedgerInv
<1>2. (OneWorkerPerChunk /\ StoredOnce /\ ClaimsOnRecord)'
  <2>. USE LedgerAssumption
       DEF LedgerInv, LedgerTypeOK, OneWorkerPerChunk, StoredOnce, ClaimsOnRecord,
           Working, RowStates, Phases
  <2>1. CASE \E h \in Chunks : Arrive(r, h)
    BY <2>1 DEF Arrive, NoCall
  <2>2. CASE Claim(r)
    BY <2>2 DEF Claim, Goes, Answer
  <2>3. CASE ClaimFails(r)
    BY <2>3 DEF ClaimFails, Answer, Fault
  <2>4. CASE Extract(r) \/ ExtractFails(r)
    BY <2>4 DEF Extract, ExtractFails, Goes, Fault
  <2>5. CASE Release(r)
    BY <2>5 DEF Release, Answer, Fault
  <2>6. CASE Store(r)
    BY <2>6 DEF Store, Goes, Fault
  <2>7. CASE Mark(r)
    BY <2>7 DEF Mark, Answer, Fault
  <2>8. CASE Abandon(r) \/ Collect(r)
    BY <2>8 DEF Abandon, Collect, Answer, Fault, NoCall
  <2>. QED
    BY <2>1, <2>2, <2>3, <2>4, <2>5, <2>6, <2>7, <2>8 DEF Serve
<1>. QED
  BY <1>1, <1>2 DEF LedgerInv, ClaimsOnRecord

\* What a request does after its arrival leaves its chunk alone, and it stays
\* a request until its answer is collected.
LEMMA ServeMoves ==
    ASSUME LedgerTypeOK, NEW r \in Requests, Serve(r)
    PROVE  \E phase \in Phases \ {"idle"} : Moved(r, phase)
<1>1. \/ \E phase \in {"extracting", "storing", "releasing", "marking"} : Goes(r, phase)
      \/ \E answer \in Answers : Answer(r, answer)
  BY DEF Serve, Claim, ClaimFails, Extract, ExtractFails, Release, Store, Mark,
         Abandon, Answers
<1>. QED
  BY <1>1, GoesMoves, AnswerMoves DEF Phases

\* The invariant holds at the start.
LEMMA LedgerInvInit == LedgerInit => LedgerInv
BY LedgerAssumption
DEF LedgerInit, LedgerInv, LedgerTypeOK, OneWorkerPerChunk, StoredOnce, Working,
    RowStates, Phases, Answers, NoCall

\* For any chunks, any number of concurrent requests and any failures of the
\* model, the database or the service: a chunk has at most one worker, a
\* worker's row stays claimed, and nothing stored is ever released.
THEOREM LedgerCorrect == LedgerSpec => []LedgerInv
<1>1. LedgerInv /\ [LedgerNext]_ledgerVars => LedgerInv'
  <2>. SUFFICES ASSUME LedgerInv, [LedgerNext]_ledgerVars PROVE LedgerInv'
    OBVIOUS
  <2>1. CASE LedgerNext
    BY <2>1, StepKeepsLedgerInv DEF LedgerNext
  <2>2. CASE UNCHANGED ledgerVars
    BY <2>2 DEF ledgerVars, LedgerInv, LedgerTypeOK, OneWorkerPerChunk,
                StoredOnce, Working
  <2>. QED
    BY <2>1, <2>2
<1>. QED
  BY <1>1, LedgerInvInit, PTL DEF LedgerSpec

\* The memories of a chunk are written at most once.
THEOREM ChunkStoredOnce == LedgerSpec => []StoredOnce
BY LedgerCorrect, PTL DEF LedgerInv

-----------------------------------------------------------------------------
(* The watcher. *)

\* The lines of a queue of chunks.
LinesOf(q) == UNION {q[i] : i \in DOMAIN q}

\* A chunk put last adds its lines to the queue's.
LEMMA AppendAddsLines ==
    ASSUME NEW S, NEW q \in Seq(S), NEW e \in S
    PROVE  /\ Append(q, e) \in Seq(S) /\ Append(q, e) # <<>>
           /\ LinesOf(Append(q, e)) = LinesOf(q) \cup e
           /\ q # <<>> => Head(Append(q, e)) = Head(q)
<1>1. /\ Append(q, e) \in Seq(S) /\ Append(q, e) # <<>>
      /\ DOMAIN q = 1 .. Len(q) /\ DOMAIN Append(q, e) = 1 .. Len(q) + 1
      /\ \A i \in 1 .. Len(q) : Append(q, e)[i] = q[i]
      /\ Append(q, e)[Len(q) + 1] = e
      /\ Len(q) \in Nat
  OBVIOUS
<1>2. q # <<>> => Head(Append(q, e)) = Head(q)
  OBVIOUS
<1>3. ASSUME NEW n \in LinesOf(Append(q, e)) PROVE n \in LinesOf(q) \cup e
  BY <1>1, <1>3 DEF LinesOf
<1>4. ASSUME NEW n \in LinesOf(q) \cup e PROVE n \in LinesOf(Append(q, e))
  BY <1>1, <1>4 DEF LinesOf
<1>. QED
  BY <1>1, <1>2, <1>3, <1>4

\* The first chunk taken off leaves the lines of the others.
LEMMA TailDropsHead ==
    ASSUME NEW S, NEW q \in Seq(S), q # <<>>
    PROVE  /\ Tail(q) \in Seq(S) /\ Head(q) \in S
           /\ LinesOf(q) = Head(q) \cup LinesOf(Tail(q))
<1>1. /\ Tail(q) \in Seq(S) /\ Head(q) \in S /\ Len(q) \in Nat \ {0}
      /\ DOMAIN q = 1 .. Len(q) /\ DOMAIN Tail(q) = 1 .. Len(q) - 1
      /\ \A i \in 1 .. Len(q) - 1 : Tail(q)[i] = q[i+1]
      /\ Head(q) = q[1]
  OBVIOUS
<1>2. ASSUME NEW n \in LinesOf(q) PROVE n \in Head(q) \cup LinesOf(Tail(q))
  <2>1. PICK i \in 1 .. Len(q) : n \in q[i]
    BY <1>1, <1>2 DEF LinesOf
  <2>2. CASE i = 1
    BY <1>1, <2>1, <2>2
  <2>3. CASE i # 1
    <3>1. i - 1 \in DOMAIN Tail(q) /\ n \in Tail(q)[i - 1]
      BY <1>1, <2>1, <2>3
    <3>. QED
      BY <3>1 DEF LinesOf
  <2>. QED
    BY <2>2, <2>3
<1>3. ASSUME NEW n \in Head(q) \cup LinesOf(Tail(q)) PROVE n \in LinesOf(q)
  <2>1. CASE n \in Head(q)
    BY <1>1, <2>1 DEF LinesOf
  <2>2. CASE n \in LinesOf(Tail(q))
    <3>1. PICK i \in 1 .. Len(q) - 1 : n \in Tail(q)[i]
      BY <1>1, <2>2 DEF LinesOf
    <3>2. i + 1 \in DOMAIN q /\ n \in q[i + 1]
      BY <1>1, <3>1
    <3>. QED
      BY <3>2 DEF LinesOf
  <2>. QED
    BY <1>3, <2>1, <2>2
<1>. QED
  BY <1>1, <1>2, <1>3

\* Every chunk of a queue has a line its predecessors have not.
News(q) == \A i \in DOMAIN q : \E n \in q[i] : \A j \in 1 .. i-1 : n \notin q[j]

\* A chunk with a line the queue has not may join it.
LEMMA NewsJoins ==
    ASSUME NEW S, NEW q \in Seq(S), NEW e \in S, News(q),
           NEW n \in e, n \notin LinesOf(q)
    PROVE  News(Append(q, e))
<1>1. /\ DOMAIN q = 1 .. Len(q) /\ DOMAIN Append(q, e) = 1 .. Len(q) + 1
      /\ \A i \in 1 .. Len(q) : Append(q, e)[i] = q[i]
      /\ Append(q, e)[Len(q) + 1] = e
      /\ Len(q) \in Nat
  OBVIOUS
<1>2. \A j \in 1 .. Len(q) : n \notin q[j]
  BY <1>1 DEF LinesOf
<1>. SUFFICES ASSUME NEW i \in 1 .. Len(q) + 1
              PROVE  \E m \in Append(q, e)[i] :
                        \A j \in 1 .. i-1 : m \notin Append(q, e)[j]
  BY <1>1 DEF News
<1>3. CASE i = Len(q) + 1
  BY <1>1, <1>2, <1>3
<1>4. CASE i \in 1 .. Len(q)
  <2>1. PICK m \in q[i] : \A j \in 1 .. i-1 : m \notin q[j]
    BY <1>1, <1>4 DEF News
  <2>2. \A j \in 1 .. i-1 : Append(q, e)[j] = q[j]
    BY <1>1, <1>4
  <2>. QED
    BY <1>1, <1>4, <2>1, <2>2
<1>. QED
  BY <1>1, <1>3, <1>4

\* The first chunk may leave.
LEMMA NewsLeaves ==
    ASSUME NEW S, NEW q \in Seq(S), q # <<>>, News(q)
    PROVE  News(Tail(q))
<1>1. /\ Len(q) \in Nat \ {0}
      /\ DOMAIN q = 1 .. Len(q) /\ DOMAIN Tail(q) = 1 .. Len(q) - 1
      /\ \A i \in 1 .. Len(q) - 1 : Tail(q)[i] = q[i+1]
  OBVIOUS
<1>. SUFFICES ASSUME NEW i \in 1 .. Len(q) - 1
              PROVE  \E m \in Tail(q)[i] :
                        \A j \in 1 .. i-1 : m \notin Tail(q)[j]
  BY <1>1 DEF News
<1>2. PICK m \in q[i+1] : \A j \in 1 .. i : m \notin q[j]
  BY <1>1 DEF News
<1>3. \A j \in 1 .. i-1 : Tail(q)[j] = q[j+1] /\ j + 1 \in 1 .. i
  BY <1>1
<1>. QED
  BY <1>1, <1>2, <1>3

-----------------------------------------------------------------------------

\* The watcher's invariant in terms of what its steps change.
Body ==
    /\ ReadIsHeld /\ StaleIsSent /\ News(queue) /\ FreshIsNews

\* The body of the invariant is that of WatcherInv.
LEMMA InvParts == WatcherInv <=> WatcherTypeOK /\ AnswersTheOldest /\ Body
BY DEF WatcherInv, Body, News, EveryChunkIsNews

\* A buffer with new text is a chunk that may join the queue.
LEMMA FreshIsAChunk ==
    ASSUME WatcherInv, buf.fresh
    PROVE  /\ buf.text \in Chunks
           /\ Append(queue, buf.text) \in Seq(Chunks)
           /\ Append(queue, buf.text) # <<>>
           /\ LinesOf(Append(queue, buf.text)) = Held
           /\ queue # <<>> => Head(Append(queue, buf.text)) = Head(queue)
           /\ News(Append(queue, buf.text))
<1>1. PICK n \in buf.text : n \notin LinesOf(queue)
  BY DEF WatcherInv, FreshIsNews, Queued, LinesOf
<1>2. buf.text \in Chunks /\ queue \in Seq(Chunks)
  BY <1>1, WatcherAssumption DEF WatcherInv, WatcherTypeOK
<1>3. News(queue)
  BY InvParts DEF Body
<1>. QED
  BY <1>1, <1>2, <1>3, AppendAddsLines, NewsJoins DEF Held, Queued, LinesOf

\* Cutting the buffer, as an idle sweep and a stop do, keeps the invariant
\* of what is held.
LEMMA CutKeepsBody ==
    ASSUME WatcherInv, buf' = NoBuffer,
           queue' = IF buf.fresh THEN Append(queue, buf.text) ELSE queue,
           UNCHANGED <<offset, acked, skipped, dropped>>
    PROVE  Body' /\ queue' \in Seq(Chunks) /\ buf' \in [text : SUBSET Lines, fresh : BOOLEAN]
           /\ (queue # <<>> => queue' # <<>> /\ Head(queue') = Head(queue))
<1>1. /\ buf'.text = {} /\ buf'.fresh = FALSE
      /\ buf' \in [text : SUBSET Lines, fresh : BOOLEAN]
  BY DEF NoBuffer
<1>2. buf.fresh \in BOOLEAN /\ queue \in Seq(Chunks)
  BY DEF WatcherInv, WatcherTypeOK
<1>3. CASE buf.fresh
  <2>1. /\ queue' \in Seq(Chunks) /\ queue' # <<>> /\ News(queue')
        /\ (queue # <<>> => Head(queue') = Head(queue))
        /\ LinesOf(queue') = Held
    BY <1>3, FreshIsAChunk
  <2>2. Queued' = Held /\ Held' = Held /\ Acked' = Acked
    BY <1>1, <2>1 DEF Queued, LinesOf, Held, Acked
  <2>. QED
    BY <1>1, <2>1, <2>2
    DEF Body, WatcherInv, ReadIsHeld, StaleIsSent, FreshIsNews, News
<1>4. CASE ~buf.fresh
  <2>1. Queued' = Queued /\ Held' = Queued /\ Acked' = Acked
    BY <1>1, <1>4 DEF Queued, Held, Acked
  <2>2. buf.text \subseteq Acked \cup Queued
    BY <1>4 DEF WatcherInv, StaleIsSent
  <2>3. Held \subseteq Acked \cup Queued /\ Queued \subseteq Held
    BY <2>2 DEF Held
  <2>4. News(queue') /\ queue' = queue
    BY <1>4, InvParts DEF Body
  <2>. QED
    BY <1>1, <1>2, <1>4, <2>1, <2>2, <2>3, <2>4
    DEF Body, WatcherInv, ReadIsHeld, StaleIsSent, FreshIsNews
<1>. QED
  BY <1>2, <1>3, <1>4

\* Buffering new lines keeps it too.
LEMMA ReadKeepsBody ==
    ASSUME WatcherInv, Read
    PROVE  /\ Body' /\ queue' \in Seq(Chunks)
           /\ buf' \in [text : SUBSET Lines, fresh : BOOLEAN]
           /\ skipped' \in SUBSET Lines
           /\ (queue # <<>> => queue' # <<>> /\ Head(queue') = Head(queue))
<1>. DEFINE new == (offset + 1 .. found) \ Noise
            text == buf.text \cup new
<1>1. /\ offset \in Nat /\ found \in Nat /\ file \in Nat
      /\ offset < found /\ found <= MaxLines /\ offset' = found
      /\ buf.text \subseteq Lines /\ queue \in Seq(Chunks)
      /\ skipped \subseteq Lines
  BY WatcherAssumption DEF WatcherInv, WatcherTypeOK, Read
<1>2. new \subseteq Lines /\ 1..found = (1..offset) \cup (offset + 1 .. found)
  BY <1>1, WatcherAssumption DEF Lines
<1>3. Acked' = Acked /\ dropped' = dropped
  BY DEF Read, Acked
<1>4. Held \subseteq 1..offset /\ 1..offset \subseteq 1..found
  BY <1>1 DEF WatcherInv, FreshIsNews
<1>5. News(queue)
  BY InvParts DEF Body
<1>6. CASE new # {} /\ consent /\ Append_(new) /\ UNCHANGED skipped
  <2>1. PICK n \in new : n \notin Queued
    BY <1>1, <1>4, <1>6 DEF Held
  <2>2. text \in Chunks /\ n \in text
    BY <1>1, <1>2, <2>1, WatcherAssumption
  <2>3. Held \cup new = text \cup Queued
    BY DEF Held
  <2>4. text \cup Queued \subseteq 1..found
    <3>1. new \subseteq 1..found
      BY <1>1
    <3>. QED
      BY <1>4, <3>1 DEF Held
  <2>5. (1..found) \ Noise \subseteq Acked \cup text \cup Queued \cup skipped \cup dropped
    BY <1>2 DEF WatcherInv, ReadIsHeld, Held
  <2>6. CASE Cardinality(text) >= MaxChunk
    <3>1. queue' = Append(queue, text) /\ buf' = Flushed(text, TRUE)
      BY <1>6, <2>6 DEF Append_
    <3>2. /\ buf'.text = Tail_(text) /\ buf'.fresh = FALSE
          /\ buf' \in [text : SUBSET Lines, fresh : BOOLEAN]
          /\ Tail_(text) \subseteq text
      BY <1>1, <1>2, <3>1 DEF Flushed, Tail_
    <3>3. /\ queue' \in Seq(Chunks) /\ queue' # <<>>
          /\ LinesOf(queue') = Queued \cup text
          /\ queue # <<>> => Head(queue') = Head(queue)
      BY <1>1, <2>2, <3>1, AppendAddsLines DEF Queued, LinesOf
    <3>4. News(queue')
      BY <1>1, <1>5, <2>1, <2>2, <3>1, NewsJoins DEF Queued, LinesOf
    <3>5. Queued' = Queued \cup text /\ Held' = Queued \cup text
      BY <3>2, <3>3 DEF Held, Queued, LinesOf
    <3>6. ReadIsHeld'
      BY <1>1, <1>3, <1>6, <2>5, <3>5 DEF ReadIsHeld
    <3>7. StaleIsSent' /\ FreshIsNews'
      BY <1>1, <1>3, <2>4, <3>2, <3>5 DEF StaleIsSent, FreshIsNews
    <3>. QED
      BY <1>1, <1>6, <3>2, <3>3, <3>4, <3>6, <3>7 DEF Body, News
  <2>7. CASE ~(Cardinality(text) >= MaxChunk)
    <3>1. queue' = queue /\ buf' = [text |-> text, fresh |-> TRUE]
      BY <1>6, <2>7 DEF Append_
    <3>2. Queued' = Queued /\ Held' = text \cup Queued /\ buf'.text = text /\ buf'.fresh
      BY <3>1 DEF Queued, Held
    <3>3. ReadIsHeld'
      BY <1>1, <1>3, <1>6, <2>5, <3>2 DEF ReadIsHeld
    <3>4. StaleIsSent' /\ FreshIsNews'
      BY <1>1, <2>1, <2>2, <2>4, <3>2 DEF StaleIsSent, FreshIsNews
    <3>5. buf' \in [text : SUBSET Lines, fresh : BOOLEAN]
      BY <1>1, <1>2, <3>1
    <3>. QED
      BY <1>1, <1>5, <1>6, <3>1, <3>3, <3>4, <3>5 DEF Body, News
  <2>. QED
    BY <2>6, <2>7
<1>7. CASE skipped' = skipped \cup new /\ UNCHANGED <<buf, queue>>
  <2>1. Queued' = Queued /\ Held' = Held
    BY <1>7 DEF Queued, Held
  <2>2. ReadIsHeld'
    BY <1>1, <1>2, <1>3, <1>7, <2>1 DEF WatcherInv, ReadIsHeld
  <2>3. StaleIsSent' /\ FreshIsNews'
    BY <1>1, <1>3, <1>4, <1>7, <2>1 DEF WatcherInv, StaleIsSent, FreshIsNews
  <2>. QED
    BY <1>1, <1>2, <1>5, <1>7, <2>2, <2>3 DEF Body, News, WatcherInv, WatcherTypeOK
<1>. QED
  BY <1>6, <1>7 DEF Read

-----------------------------------------------------------------------------

\* A step that leaves the buffer, the queue, the offset and the history alone
\* leaves what the invariant says of them alone.
LEMMA SameKeepsBody ==
    ASSUME WatcherInv, UNCHANGED <<offset, buf, queue, acked, skipped, dropped>>
    PROVE  Body'
BY DEF WatcherInv, Body, ReadIsHeld, StaleIsSent, FreshIsNews, EveryChunkIsNews,
       News, Held, Queued, Acked

\* The end of a process empties the buffer and the queue.
LEMMA GoneKeepsBody ==
    ASSUME WatcherInv, NEW kept \in {offset, 0}, Gone(kept)
    PROVE  Body' /\ queue' \in Seq(Chunks)
           /\ buf' \in [text : SUBSET Lines, fresh : BOOLEAN]
           /\ dropped' \in SUBSET Lines /\ offset' \in 0..file
<1>1. /\ buf'.text = {} /\ buf'.fresh = FALSE /\ queue' = <<>>
      /\ buf' \in [text : SUBSET Lines, fresh : BOOLEAN]
      /\ dropped' = dropped \cup Held /\ Acked' = Acked /\ skipped' = skipped
      /\ offset' = kept
  BY DEF Gone, NoBuffer, Acked
<1>2. Queued' = {} /\ Held' = {}
  BY <1>1 DEF Queued, Held
<1>3. /\ offset \in Nat /\ file \in Nat /\ offset <= file /\ file <= MaxLines
      /\ dropped \in SUBSET Lines
      /\ Held \subseteq 1..offset
  BY WatcherAssumption DEF WatcherInv, WatcherTypeOK, FreshIsNews
<1>4. 1..offset' \subseteq 1..offset /\ offset' \in 0..file /\ 1..offset \subseteq Lines
  BY <1>1, <1>3, WatcherAssumption DEF Lines
<1>5. ReadIsHeld'
  BY <1>1, <1>2, <1>4 DEF WatcherInv, ReadIsHeld
<1>6. StaleIsSent' /\ FreshIsNews' /\ News(queue')
  BY <1>1, <1>2 DEF StaleIsSent, FreshIsNews, News
<1>7. queue' \in Seq(Chunks)
  BY <1>1
<1>8. dropped' \in SUBSET Lines
  <2>1. Held \subseteq Lines
    BY <1>3, <1>4, Zenon
  <2>. QED
    BY <1>1, <1>3, <2>1
<1>9. Body'
  BY <1>5, <1>6 DEF Body, News
<1>. QED
  BY <1>1, <1>4, <1>7, <1>8, <1>9

\* An acknowledgement moves the lines of the first chunk to the acknowledged.
LEMMA AcknowledgedKeepsBody ==
    ASSUME WatcherInv, NEW r \in Requests, Acknowledged(r)
    PROVE  Body' /\ queue' \in Seq(Chunks) /\ acked' \in SUBSET Chunks
<1>1. /\ queue \in Seq(Chunks) /\ queue # <<>> /\ queue' = Tail(queue)
      /\ acked' = acked \cup {Head(queue)} /\ acked \in SUBSET Chunks
      /\ UNCHANGED <<offset, buf, skipped, dropped>>
  BY WatcherAssumption DEF WatcherInv, WatcherTypeOK, AnswersTheOldest, Acknowledged
<1>2. /\ queue' \in Seq(Chunks) /\ Head(queue) \in Chunks
      /\ LinesOf(queue) = Head(queue) \cup LinesOf(queue')
  BY <1>1, TailDropsHead
<1>3. News(queue')
  BY <1>1, NewsLeaves, InvParts DEF Body
<1>4. Acked' = Acked \cup Head(queue)
  BY <1>1 DEF Acked
<1>5. /\ Acked' \cup Queued' = Acked \cup Queued
      /\ Queued' \subseteq Queued /\ Held' \subseteq Held
      /\ Acked' \cup Held' = Acked \cup Held
  BY <1>1, <1>2, <1>4 DEF Queued, LinesOf, Held
<1>6. ReadIsHeld' /\ StaleIsSent' /\ FreshIsNews'
  BY <1>1, <1>5 DEF WatcherInv, ReadIsHeld, StaleIsSent, FreshIsNews
<1>. QED
  BY <1>1, <1>2, <1>3, <1>6 DEF Body, News

\* Every step of the watcher and of the service keeps the watcher's invariant.
LEMMA NextKeepsWatcherInv ==
    ASSUME WatcherInv, LedgerInv, Next
    PROVE  WatcherInv'
<1>. USE WatcherAssumption DEF WatcherTypeOK, AnswersTheOldest
<1>0. WatcherTypeOK /\ AnswersTheOldest /\ LedgerTypeOK
  BY DEF WatcherInv, LedgerInv
<1>. SUFFICES WatcherTypeOK' /\ AnswersTheOldest' /\ Body'
  BY DEF WatcherInv, Body, News, EveryChunkIsNews
<1>1. CASE Write \/ SetConsent \/ Scan \/ Start
  <2>1. Body'
    BY <1>1, SameKeepsBody DEF Write, SetConsent, Scan, Start, watcher, history
  <2>2. AnswersTheOldest'
    BY <1>0, <1>1 DEF Write, SetConsent, Scan, Start, watcher, history, ledgerVars
  <2>3. CASE Write
    BY <1>0, <2>1, <2>2, <2>3 DEF Write, watcher, history
  <2>4. CASE SetConsent
    BY <1>0, <2>1, <2>2, <2>4 DEF SetConsent, watcher, history
  <2>5. CASE Scan
    BY <1>0, <2>1, <2>2, <2>5 DEF Scan, history
  <2>6. CASE Start
    BY <1>0, <2>1, <2>2, <2>6 DEF Start, history
  <2>. QED
    BY <1>1, <2>3, <2>4, <2>5, <2>6
<1>2. CASE Read
  BY <1>0, <1>2, ReadKeepsBody DEF Read, ledgerVars
<1>3. CASE SweepIdle
  <2>1. UNCHANGED <<offset, acked, skipped, dropped>>
    BY <1>3 DEF SweepIdle, history
  <2>. QED
    BY <1>0, <1>3, <2>1, CutKeepsBody DEF SweepIdle, history, ledgerVars
<1>4. CASE Stop
  <2>1. UNCHANGED <<offset, acked, skipped, dropped>>
    BY <1>4 DEF Stop, history
  <2>. QED
    BY <1>0, <1>4, <2>1, CutKeepsBody DEF Stop, history, ledgerVars
<1>5. CASE Exit \/ Crash
  <2>1. PICK kept \in {offset, 0} : Gone(kept)
    BY <1>5 DEF Exit, Crash
  <2>2. Body' /\ queue' \in Seq(Chunks)
        /\ buf' \in [text : SUBSET Lines, fresh : BOOLEAN]
        /\ dropped' \in SUBSET Lines /\ offset' \in 0..file
    BY <2>1, GoneKeepsBody
  <2>3. AnswersTheOldest'
    BY <2>1 DEF Gone
  <2>4. stops' \in 0 .. MaxStops
    BY <1>0, <1>5, <2>1 DEF Exit, Crash, Gone
  <2>5. file' = file /\ found' = offset'
    BY <2>1 DEF Gone
  <2>6. found' \in offset' .. file'
    BY <1>0, <2>2, <2>5
  <2>. QED
    BY <1>0, <2>1, <2>2, <2>3, <2>4, <2>5, <2>6 DEF Gone
<1>6. ASSUME NEW r \in Requests, Send(r) PROVE WatcherTypeOK' /\ AnswersTheOldest' /\ Body'
  <2>1. Body'
    BY <1>6, SameKeepsBody DEF Send, history
  <2>2. call'[r].phase # "idle" /\ call'[r].chunk = Head(queue)
    BY <1>0, <1>6 DEF Send, Arrive, LedgerTypeOK
  <2>. QED
    BY <1>0, <1>6, <2>1, <2>2 DEF Send, history
<1>7. ASSUME NEW r \in Requests, Acknowledged(r)
      PROVE  WatcherTypeOK' /\ AnswersTheOldest' /\ Body'
  BY <1>0, <1>7, AcknowledgedKeepsBody DEF Acknowledged
<1>8. ASSUME NEW r \in Requests, Refused(r) \/ TimedOut(r)
      PROVE  WatcherTypeOK' /\ AnswersTheOldest' /\ Body'
  <2>1. SendFailed
    BY <1>8 DEF Refused, TimedOut
  <2>2. Body'
    BY <2>1, SameKeepsBody DEF SendFailed, history
  <2>. QED
    BY <1>0, <2>1, <2>2 DEF SendFailed, history
<1>9. ASSUME NEW r \in Requests, TooLate(r)
      PROVE  WatcherTypeOK' /\ AnswersTheOldest' /\ Body'
  <2>1. Body'
    BY <1>9, SameKeepsBody DEF TooLate, watcher, history
  <2>2. \A q \in Requests \ {r} : call'[q] = call[q]
    BY <1>0, <1>9 DEF TooLate, Collect, LedgerTypeOK
  <2>. QED
    BY <1>0, <1>9, <2>1, <2>2 DEF TooLate, watcher, history
<1>10. ASSUME NEW r \in Requests, Service(r)
       PROVE  WatcherTypeOK' /\ AnswersTheOldest' /\ Body'
  <2>1. Body'
    BY <1>10, SameKeepsBody DEF Service, watcher, history
  <2>2. PICK phase \in Phases \ {"idle"} : Moved(r, phase)
    BY <1>0, <1>10, ServeMoves DEF Service
  <2>3. \A q \in Requests : /\ call'[q].chunk = call[q].chunk
                            /\ call[q].phase # "idle" => call'[q].phase # "idle"
    BY <2>2 DEF Moved
  <2>4. AnswersTheOldest'
    <3>1. inflight' = inflight /\ queue' = queue
      BY <1>10 DEF Service, watcher
    <3>2. inflight # None => inflight \in Requests
      BY <1>0
    <3>3. inflight # None =>
             /\ queue # <<>> /\ call[inflight].phase # "idle"
             /\ call[inflight].chunk = Head(queue)
      BY <1>0, Zenon
    <3>. HIDE DEF WatcherTypeOK
    <3>4. inflight # None =>
             /\ queue' # <<>> /\ call'[inflight].phase # "idle"
             /\ call'[inflight].chunk = Head(queue')
      BY <2>3, <3>1, <3>2, <3>3
    <3>. QED
      BY <3>1, <3>4
  <2>5. WatcherTypeOK'
    BY <1>0, <1>10 DEF Service, watcher, history
  <2>. QED
    BY <2>1, <2>4, <2>5
<1>. QED
  BY <1>1, <1>2, <1>3, <1>4, <1>5, <1>6, <1>7, <1>8, <1>9, <1>10 DEF Next, Respond

\* So does every step for the service's.
LEMMA NextKeepsLedgerInv ==
    ASSUME WatcherInv, LedgerInv, Next
    PROVE  LedgerInv'
<1>1. CASE \/ Write \/ SetConsent \/ Scan \/ Read \/ SweepIdle
           \/ Stop \/ Exit \/ Crash \/ Start
  <2>1. UNCHANGED <<ledger, call, stored, faults>>
    BY <1>1 DEF Write, SetConsent, Scan, Read, SweepIdle, Stop, Exit, Crash,
                Start, Gone, ledgerVars
  <2>. QED
    BY <2>1 DEF LedgerInv, LedgerTypeOK, OneWorkerPerChunk, StoredOnce, Working
<1>2. ASSUME NEW r \in Requests, Send(r) PROVE LedgerInv'
  <2>1. Head(queue) \in Chunks /\ Arrive(r, Head(queue))
    BY <1>2 DEF Send, WatcherInv, WatcherTypeOK
  <2>. QED
    BY <2>1, StepKeepsLedgerInv
<1>3. ASSUME NEW r \in Requests, Respond(r) \/ Service(r) PROVE LedgerInv'
  BY <1>3, StepKeepsLedgerInv
  DEF Respond, Acknowledged, Refused, TooLate, Service
<1>4. ASSUME NEW r \in Requests, TimedOut(r) PROVE LedgerInv'
  <2>1. UNCHANGED <<ledger, call, stored>> /\ faults' \in 0..MaxFaults
    BY <1>4, LedgerAssumption DEF TimedOut, Fault, LedgerInv, LedgerTypeOK
  <2>. QED
    BY <2>1 DEF LedgerInv, LedgerTypeOK, OneWorkerPerChunk, StoredOnce, Working
<1>. QED
  BY <1>1, <1>2, <1>3, <1>4 DEF Next

\* For any transcript, any chunk size and overlap below it, any consent, any
\* failures, retries, stops, crashes and torn offset files: the watcher's and
\* the service's invariants hold together.
THEOREM IngestCorrect == Spec => [](WatcherInv /\ LedgerInv)
<1>1. Init => WatcherInv /\ LedgerInv
  <2>. SUFFICES ASSUME Init PROVE WatcherInv /\ LedgerInv
    OBVIOUS
  <2>1. LedgerInv
    BY LedgerInvInit DEF Init
  <2>2. Queued = {} /\ Held = {}
    BY DEF Init, NoBuffer, Queued, Held
  <2>3. WatcherTypeOK
    <3>1. NoBuffer \in [text : SUBSET Lines, fresh : BOOLEAN] /\ <<>> \in Seq(Chunks)
      BY DEF NoBuffer
    <3>2. consent \in BOOLEAN /\ sending \in BOOLEAN
      BY Zenon DEF Init
    <3>3. /\ file \in 0..MaxLines /\ offset \in 0..file /\ found \in offset..file
          /\ stops \in 0 .. MaxStops
      BY WatcherAssumption DEF Init
    <3>4. /\ buf \in [text : SUBSET Lines, fresh : BOOLEAN] /\ queue \in Seq(Chunks)
          /\ inflight \in Requests \cup {None}
          /\ mode \in {"run", "drain", "exit", "down"} /\ mode \notin {"drain", "exit"}
          /\ acked \in SUBSET Chunks
          /\ skipped \in SUBSET Lines
          /\ dropped \in SUBSET Lines
      BY <3>1 DEF Init
    <3>. QED
      BY <3>2, <3>3, <3>4 DEF WatcherTypeOK
  <2>4. ReadIsHeld /\ StaleIsSent /\ AnswersTheOldest /\ EveryChunkIsNews /\ FreshIsNews
    BY <2>2 DEF Init, NoBuffer, ReadIsHeld, StaleIsSent, AnswersTheOldest,
                EveryChunkIsNews, FreshIsNews
  <2>. QED
    BY <2>1, <2>3, <2>4 DEF WatcherInv
<1>2. WatcherInv /\ LedgerInv /\ [Next]_vars => (WatcherInv /\ LedgerInv)'
  <2>. SUFFICES ASSUME WatcherInv, LedgerInv, [Next]_vars
                PROVE  (WatcherInv /\ LedgerInv)'
    OBVIOUS
  <2>1. CASE Next
    BY <2>1, NextKeepsWatcherInv, NextKeepsLedgerInv
  <2>2. CASE UNCHANGED vars
    <3>1. LedgerInv'
      BY <2>2 DEF vars, ledgerVars, LedgerInv, LedgerTypeOK, OneWorkerPerChunk,
                  StoredOnce, Working
    <3>2. Body'
      BY <2>2, SameKeepsBody DEF vars, watcher, history
    <3>3. WatcherTypeOK' /\ AnswersTheOldest'
      BY <2>2 DEF vars, ledgerVars, watcher, history, WatcherInv, WatcherTypeOK,
                  AnswersTheOldest
    <3>. QED
      BY <3>1, <3>2, <3>3 DEF WatcherInv, Body, News, EveryChunkIsNews
  <2>. QED
    BY <2>1, <2>2
<1>. QED
  BY <1>1, <1>2, PTL DEF Spec

\* Between the offset and an acknowledgement no line is lost while the process
\* lives.
THEOREM NoLineLost == Spec => []ReadIsHeld
BY IngestCorrect, PTL DEF WatcherInv

\* A chunk's memories are written once, however the watcher repeats it.
THEOREM SentAgainStoredOnce == Spec => []StoredOnce
BY IngestCorrect, PTL DEF LedgerInv

\* Carried-over text is never sent as a chunk of its own.
THEOREM OverlapNeverAlone == Spec => []EveryChunkIsNews
BY IngestCorrect, PTL DEF WatcherInv
=============================================================================
