-------------------------- MODULE ConcurrentExtract --------------------------
(***************************************************************************)
(* ExtractTendersWithMultipleSessions of src/scraper/extract/concurrent.go *)
(* goroutine by goroutine: a producer enqueues the rows of active.csv, the *)
(* workers establish sessions (a limiter bounds how many at a time) and    *)
(* extract tenders, a writer appends the results to tender.jsonl.  The     *)
(* shared counter remainingJobs cancels the context when it drops to zero. *)
(*                                                                         *)
(* The portal is external: a session or an extraction succeeds, fails or   *)
(* (the extraction) panics.  Rows of fewer than seven columns are ignored  *)
(* by the count and by the producer alike and are left out.                *)
(***************************************************************************)
EXTENDS Integers, Sequences, FiniteSets

CONSTANTS
  NumRows,            \* totalJobs
  Blank,              \* counted rows with an empty serial or link
  MaxWorkers,         \* ce.maxWorkers
  JobsPerWorker,      \* 3 in the code
  ResultsPerWorker,   \* 50 in the code
  MaxSessionParallel, \* utils.MaxSessionParallel
  WorkerAttempts,     \* maxWorkerAttempts
  SessionRetries,     \* maxRetries
  MaxPanics,          \* bound: extractions that panic
  MaxWriteErrors      \* bound: results the writer fails to write

Smaller(a, b) == IF a < b THEN a ELSE b

Rows       == 1..NumRows
Workers    == 1..Smaller(NumRows, MaxWorkers)
JobsCap    == Smaller(NumRows, MaxWorkers * JobsPerWorker)
ResultsCap == Smaller(NumRows, MaxWorkers * ResultsPerWorker)
NoRow      == 0

ASSUME ExtractAssumption ==
  /\ {NumRows, MaxWorkers, JobsPerWorker, ResultsPerWorker, MaxSessionParallel,
      WorkerAttempts, SessionRetries} \subseteq Nat \ {0}
  /\ {MaxPanics, MaxWriteErrors} \subseteq Nat
  /\ Blank \subseteq Rows

VARIABLES
  row,        \* the row the producer is at
  producer,   \* "add", "send" or "closed", which also closes jobs
  jobs,       \* the channel of inputs
  remaining,  \* remainingJobs
  cancelled,  \* ctx is done
  pc,         \* where each worker is
  attempt,    \* its attempt at a session, 1..WorkerAttempts
  retry,      \* its retry within the attempt, 1..SessionRetries
  held,       \* the row it extracts
  results,    \* the channel of tender data
  main,       \* "workers" (wg.Wait), "writer" (results closed) or "returned"
  writer,     \* "on" or "done"
  written,    \* rows in tender.jsonl
  unwritten,  \* rows the writer failed to write
  logged,     \* rows in the failed tenders log
  panicked    \* rows whose extraction panicked

producerVars == <<row, producer>>
sessionVars  == <<attempt, retry>>
outcomes     == <<written, unwritten, logged, panicked>>
vars == <<producerVars, jobs, remaining, cancelled, pc, sessionVars, held, results, main, writer,
          outcomes>>

PCs == {"start", "limit", "retry", "visit", "check", "select", "extract", "send", "count", "gone"}

TypeOK ==
  /\ row \in 1..(NumRows + 1)
  /\ producer \in {"add", "send", "closed"}
  /\ jobs \in Seq(Rows) /\ Len(jobs) <= JobsCap
  /\ remaining \in Nat
  /\ cancelled \in BOOLEAN
  /\ pc \in [Workers -> PCs]
  /\ attempt \in [Workers -> 1..WorkerAttempts]
  /\ retry \in [Workers -> 1..SessionRetries]
  /\ held \in [Workers -> Rows \cup {NoRow}]
  /\ \A w \in Workers : held[w] # NoRow <=> pc[w] \in {"extract", "send", "count"}
  /\ results \in Seq(Rows) /\ Len(results) <= ResultsCap
  /\ main \in {"workers", "writer", "returned"}
  /\ writer \in {"on", "done"}
  /\ written \subseteq Rows
  /\ unwritten \subseteq Rows
  /\ logged \subseteq Rows
  /\ panicked \subseteq Rows

Init ==
  /\ row = 1 /\ producer = "add"
  /\ jobs = <<>>
  /\ remaining = 0 /\ cancelled = FALSE
  /\ pc = [w \in Workers |-> "start"]
  /\ attempt = [w \in Workers |-> 1]
  /\ retry = [w \in Workers |-> 1]
  /\ held = [w \in Workers |-> NoRow]
  /\ results = <<>>
  /\ main = "workers" /\ writer = "on"
  /\ written = {} /\ unwritten = {} /\ logged = {} /\ panicked = {}

Go(w, from, to) == pc[w] = from /\ pc' = [pc EXCEPT ![w] = to]

-----------------------------------------------------------------------------
(* The producer.                                                           *)
(*                                                                         *)
(* A definition named X_Slip is a plausible mistake in X; no action uses   *)
(* it, it is there to show which property would notice.                    *)

skipBlank ==
  /\ producer = "add"
  /\ row \in Blank
  /\ row' = row + 1
  /\ UNCHANGED <<producer, jobs, remaining, cancelled, pc, sessionVars, held, results, main,
                 writer, outcomes>>

addJob ==
  /\ producer = "add"
  /\ row \in Rows \ Blank
  /\ remaining' = remaining + 1
  /\ producer' = "send"
  /\ UNCHANGED <<row, jobs, cancelled, pc, sessionVars, held, results, main, writer, outcomes>>

sendJob ==
  /\ producer = "send"
  /\ Len(jobs) < JobsCap
  /\ jobs' = Append(jobs, row)
  /\ row' = row + 1
  /\ producer' = "add"
  /\ UNCHANGED <<remaining, cancelled, pc, sessionVars, held, results, main, writer, outcomes>>

closeJobs_NotClosed ==
  /\ producer = "add"
  /\ row > NumRows
  /\ UNCHANGED vars

closeJobs ==
  /\ producer = "add"
  /\ row > NumRows
  /\ producer' = "closed"
  /\ cancelled' = (cancelled \/ Blank = Rows)
  /\ UNCHANGED <<row, jobs, remaining, pc, sessionVars, held, results, main, writer, outcomes>>

-----------------------------------------------------------------------------
(* A worker establishes its session.  The session itself does not look at  *)
(* the context.                                                            *)

startWorker(w) ==
  /\ Go(w, "start", IF cancelled THEN "gone" ELSE "limit")
  /\ UNCHANGED <<producerVars, jobs, remaining, cancelled, sessionVars, held, results, main,
                 writer, outcomes>>

Establishing == {w \in Workers : pc[w] \in {"retry", "visit"}}

acquire(w) ==
  /\ Cardinality(Establishing) < MaxSessionParallel
  /\ Go(w, "limit", "retry")
  /\ retry' = [retry EXCEPT ![w] = 1]
  /\ UNCHANGED <<producerVars, jobs, remaining, cancelled, attempt, held, results, main, writer,
                 outcomes>>

checkContext(w) ==
  /\ Go(w, "retry", IF cancelled THEN "gone" ELSE "visit")
  /\ UNCHANGED <<producerVars, jobs, remaining, cancelled, sessionVars, held, results, main,
                 writer, outcomes>>

sessionOk(w) ==
  /\ Go(w, "visit", "check")
  /\ UNCHANGED <<producerVars, jobs, remaining, cancelled, sessionVars, held, results, main,
                 writer, outcomes>>

retrySession_OneMore(w) ==
  /\ retry[w] <= SessionRetries
  /\ Go(w, "visit", "retry")
  /\ retry' = [retry EXCEPT ![w] = @ + 1]
  /\ UNCHANGED <<producerVars, jobs, remaining, cancelled, attempt, held, results, main, writer,
                 outcomes>>

retrySession(w) ==
  /\ retry[w] < SessionRetries
  /\ Go(w, "visit", "retry")
  /\ retry' = [retry EXCEPT ![w] = @ + 1]
  /\ UNCHANGED <<producerVars, jobs, remaining, cancelled, attempt, held, results, main, writer,
                 outcomes>>

retryWorker(w) ==
  /\ retry[w] = SessionRetries
  /\ attempt[w] < WorkerAttempts
  /\ Go(w, "visit", "limit")
  /\ attempt' = [attempt EXCEPT ![w] = @ + 1]
  /\ UNCHANGED <<producerVars, jobs, remaining, cancelled, retry, held, results, main, writer,
                 outcomes>>

giveUp(w) ==
  /\ retry[w] = SessionRetries
  /\ attempt[w] = WorkerAttempts
  /\ Go(w, "visit", "gone")
  /\ UNCHANGED <<producerVars, jobs, remaining, cancelled, sessionVars, held, results, main,
                 writer, outcomes>>

checkRemaining(w) ==
  /\ Go(w, "check", IF remaining = 0 THEN "gone" ELSE "select")
  /\ UNCHANGED <<producerVars, jobs, remaining, cancelled, sessionVars, held, results, main,
                 writer, outcomes>>

-----------------------------------------------------------------------------
(* workerProcess.  Its select may take a job although the context is done. *)

takeJob_NotRemoved(w) ==
  /\ jobs # <<>>
  /\ Go(w, "select", "extract")
  /\ held' = [held EXCEPT ![w] = Head(jobs)]
  /\ UNCHANGED <<producerVars, jobs, remaining, cancelled, sessionVars, results, main, writer,
                 outcomes>>

takeJob(w) ==
  /\ jobs # <<>>
  /\ Go(w, "select", "extract")
  /\ held' = [held EXCEPT ![w] = Head(jobs)]
  /\ jobs' = Tail(jobs)
  /\ UNCHANGED <<producerVars, remaining, cancelled, sessionVars, results, main, writer, outcomes>>

stopWorker(w) ==
  /\ cancelled \/ (producer = "closed" /\ jobs = <<>>)
  /\ Go(w, "select", "gone")
  /\ UNCHANGED <<producerVars, jobs, remaining, cancelled, sessionVars, held, results, main,
                 writer, outcomes>>

extractOk(w) ==
  /\ Go(w, "extract", "send")
  /\ UNCHANGED <<producerVars, jobs, remaining, cancelled, sessionVars, held, results, main,
                 writer, outcomes>>

extractFails(w) ==
  /\ Go(w, "extract", "count")
  /\ logged' = logged \cup {held[w]}
  /\ UNCHANGED <<producerVars, jobs, remaining, cancelled, sessionVars, held, results, main,
                 writer, written, unwritten, panicked>>

(* recover: the worker ends; nothing is logged, the counter is not touched.*)
extractPanics(w) ==
  /\ Cardinality(panicked) < MaxPanics
  /\ Go(w, "extract", "gone")
  /\ panicked' = panicked \cup {held[w]}
  /\ held' = [held EXCEPT ![w] = NoRow]
  /\ UNCHANGED <<producerVars, jobs, remaining, cancelled, sessionVars, results, main, writer,
                 written, unwritten, logged>>

sendResult(w) ==
  /\ Len(results) < ResultsCap
  /\ Go(w, "send", "count")
  /\ results' = Append(results, held[w])
  /\ UNCHANGED <<producerVars, jobs, remaining, cancelled, sessionVars, held, main, writer,
                 outcomes>>

countDown_OnlyOk(w) ==
  /\ Go(w, "count", "select")
  /\ remaining' = IF held[w] \in logged THEN remaining ELSE remaining - 1
  /\ cancelled' = (cancelled \/ remaining' = 0)
  /\ held' = [held EXCEPT ![w] = NoRow]
  /\ UNCHANGED <<producerVars, jobs, sessionVars, results, main, writer, outcomes>>

countDown(w) ==
  /\ Go(w, "count", "select")
  /\ remaining' = remaining - 1
  /\ cancelled' = (cancelled \/ remaining' = 0)
  /\ held' = [held EXCEPT ![w] = NoRow]
  /\ UNCHANGED <<producerVars, jobs, sessionVars, results, main, writer, outcomes>>

-----------------------------------------------------------------------------
(* The writer, and the function itself.                                    *)

write ==
  /\ writer = "on" /\ results # <<>>
  /\ results' = Tail(results)
  /\ \/ written' = written \cup {Head(results)} /\ UNCHANGED unwritten
     \/ /\ Cardinality(unwritten) < MaxWriteErrors
        /\ unwritten' = unwritten \cup {Head(results)}
        /\ UNCHANGED written
  /\ UNCHANGED <<producerVars, jobs, remaining, cancelled, pc, sessionVars, held, main, writer,
                 logged, panicked>>

writerEnds ==
  /\ writer = "on" /\ results = <<>> /\ main = "writer"
  /\ writer' = "done"
  /\ UNCHANGED <<producerVars, jobs, remaining, cancelled, pc, sessionVars, held, results, main,
                 outcomes>>

(* wg.Wait, cancel, close(results).                                        *)
WorkersDone == \A w \in Workers : pc[w] = "gone"

closeResults ==
  /\ main = "workers"
  /\ WorkersDone
  /\ cancelled' = TRUE
  /\ main' = "writer"
  /\ UNCHANGED <<producerVars, jobs, remaining, pc, sessionVars, held, results, writer, outcomes>>

Drained == writer = "done"

return ==
  /\ main = "writer"
  /\ Drained
  /\ main' = "returned"
  /\ UNCHANGED <<producerVars, jobs, remaining, cancelled, pc, sessionVars, held, results, writer,
                 outcomes>>

-----------------------------------------------------------------------------
produce == skipBlank \/ addJob \/ sendJob \/ closeJobs

worker(w) ==
  \/ startWorker(w) \/ acquire(w) \/ checkContext(w) \/ sessionOk(w)
  \/ retrySession(w) \/ retryWorker(w) \/ giveUp(w) \/ checkRemaining(w)
  \/ takeJob(w) \/ stopWorker(w)
  \/ extractOk(w) \/ extractFails(w) \/ extractPanics(w)
  \/ sendResult(w) \/ countDown(w)

Next ==
  \/ produce
  \/ \E w \in Workers : worker(w)
  \/ write \/ writerEnds
  \/ closeResults \/ return

Spec == Init /\ [][Next]_vars

(* Every goroutine that can run is scheduled, the channel initLimiter      *)
(* serves its waiters in order, and sessions and extractions end: their    *)
(* requests have timeouts.                                                 *)
FairSpec ==
  /\ Spec
  /\ WF_vars(produce)
  /\ \A w \in Workers : SF_vars(worker(w))
  /\ WF_vars(write \/ writerEnds)
  /\ WF_vars(closeResults \/ return)

-----------------------------------------------------------------------------
(* Properties.                                                             *)

Elements(s) == {s[i] : i \in 1..Len(s)}
Busy == {w \in Workers : held[w] # NoRow}
Unsaved == {w \in Busy : pc[w] # "count"}

(* RefinesLedger: a row is taken by one worker and ends once, in the       *)
(* output, in the failed log or forgotten by an error or a panic, and when *)
(* the function returns no worker has one and the writer none unwritten.   *)
Ledger == INSTANCE ExtractLedger WITH
  Inputs   <- Rows \ Blank,
  queued   <- Elements(jobs),
  inHand   <- {held[w] : w \in Unsaved} \cup Elements(results),
  lost     <- unwritten \cup panicked,
  returned <- main = "returned"

RefinesLedger == Ledger!Spec

(* CounterExact: remainingJobs counts the inputs announced and not yet     *)
(* finished; an input that panicked is counted for ever.                   *)
CounterExact ==
  remaining = Len(jobs) + Cardinality(Busy) + Cardinality(panicked)
              + (IF producer = "send" THEN 1 ELSE 0)

(* EveryRunReturns: the function returns, whatever sessions, extractions   *)
(* and writes fail, even if no worker is left to empty the channel.        *)
EveryRunReturns == <>(main = "returned")

(* CancelMeansDone: "All jobs completed, canceling workers..."             *)
(* (concurrent.go:297): when the workers cancel the context, every input   *)
(* has been processed.                                                     *)
CancelMeansDone ==
  cancelled /\ main = "workers" => Rows \ Blank \subseteq Elements(results) \cup written \cup logged
=============================================================================
