---------------------------- MODULE DownloadBatch ----------------------------
(***************************************************************************)
(* DownloadDocuments (src/cli/commands/document_download.go) and RunBatch  *)
(* with RetryProcessTender (src/cli/commands/retryBatches.go): a batch     *)
(* runs ProcessTender for each tender in a goroutine of its own, as many   *)
(* at a time as the semaphore admits, each with its retries; the tenders   *)
(* that failed make up the next batch.                                     *)
(*                                                                         *)
(* ProcessTender is TenderDocs' subject; here a run succeeds, fails, or    *)
(* hangs in a download (stall of TenderDocs) and keeps its slot.              *)
(* The wait before a retry is left out: it only takes time.                *)
(***************************************************************************)
EXTENDS Integers, FiniteSets

CONSTANTS
  Tenders,            \* what getTendersWithCorrigendums returned, by tender id
  NoTender,
  MaxDownloadWorkers, \* capacity of sem
  Attempts,           \* attempts of RetryProcessTender
  MaxBatches          \* maxBatches

ASSUME BatchAssumption ==
  /\ NoTender \notin Tenders
  /\ IsFiniteSet(Tenders)
  /\ {MaxDownloadWorkers, Attempts, MaxBatches} \subseteq Nat \ {0}

Slots == 1..MaxDownloadWorkers

VARIABLES
  main,      \* "launch", "wait" or "returned"
  batch,     \* the number of the batch
  current,   \* the tenders of the batch
  toLaunch,  \* those the loop of RunBatch has not reached
  running,   \* the tender of the goroutine in each slot of the semaphore
  attempt,   \* its attempt, counted from 1
  stuck,     \* the slots whose run of ProcessTender hangs
  failed,    \* the list of this batch
  lastFailed,\* Failed of the last element of batchFailures
  succeeded  \* history: tenders with a successful run

slotVars == <<running, attempt, stuck>>
batchVars == <<main, batch, current, toLaunch, slotVars, failed, lastFailed, succeeded>>

BatchTypeOK ==
  /\ main \in {"launch", "wait", "returned"}
  /\ batch \in 1..MaxBatches
  /\ current \subseteq Tenders
  /\ toLaunch \subseteq current
  /\ running \in [Slots -> current \cup {NoTender}]
  /\ attempt \in [Slots -> 1..Attempts]
  /\ stuck \subseteq Slots
  /\ failed \subseteq current
  /\ lastFailed \subseteq Tenders
  /\ succeeded \subseteq Tenders

BatchInit ==
  /\ main = "launch" /\ batch = 1
  /\ current = Tenders /\ toLaunch = Tenders
  /\ running = [s \in Slots |-> NoTender]
  /\ attempt = [s \in Slots |-> 1]
  /\ stuck = {}
  /\ failed = {} /\ lastFailed = {}
  /\ succeeded = {}

-----------------------------------------------------------------------------
(* A definition named X_Slip is a plausible mistake in X; no action uses   *)
(* it, it is there to show which property would notice.                    *)

(* The loop of RunBatch takes a slot and starts a goroutine.               *)
launch(t, s) ==
  /\ main = "launch"
  /\ t \in toLaunch
  /\ running[s] = NoTender
  /\ toLaunch' = toLaunch \ {t}
  /\ running' = [running EXCEPT ![s] = t]
  /\ attempt' = [attempt EXCEPT ![s] = 1]
  /\ UNCHANGED <<main, batch, current, stuck, failed, lastFailed, succeeded>>

launched ==
  /\ main = "launch" /\ toLaunch = {}
  /\ main' = "wait"
  /\ UNCHANGED <<batch, current, toLaunch, slotVars, failed, lastFailed, succeeded>>

Going(s) == running[s] # NoTender /\ s \notin stuck

Release_Never(s) == running' = running

Release(s) == running' = [running EXCEPT ![s] = NoTender]

(* A download stalls: it has no timeout, and no context ends it.           *)
hang(s) ==
  /\ Going(s)
  /\ stuck' = stuck \cup {s}
  /\ UNCHANGED <<main, batch, current, toLaunch, running, attempt, failed, lastFailed, succeeded>>

(* ProcessTender returned nil.                                             *)
succeed(s) ==
  /\ Going(s)
  /\ succeeded' = succeeded \cup {running[s]}
  /\ Release(s)
  /\ UNCHANGED <<main, batch, current, toLaunch, attempt, stuck, failed, lastFailed>>

(* It failed, and has attempts left.                                       *)
retry(s) ==
  /\ Going(s)
  /\ attempt[s] < Attempts
  /\ attempt' = [attempt EXCEPT ![s] = @ + 1]
  /\ UNCHANGED <<main, batch, current, toLaunch, running, stuck, failed, lastFailed, succeeded>>

(* It failed for good.                                                     *)
fail_Unlisted(s) ==
  /\ Going(s)
  /\ attempt[s] = Attempts
  /\ Release(s)
  /\ UNCHANGED <<main, batch, current, toLaunch, attempt, stuck, failed, lastFailed, succeeded>>

fail(s) ==
  /\ Going(s)
  /\ attempt[s] = Attempts
  /\ failed' = failed \cup {running[s]}
  /\ Release(s)
  /\ UNCHANGED <<main, batch, current, toLaunch, attempt, stuck, lastFailed, succeeded>>

(* wg.Wait.                                                                *)
BatchDone == main = "wait" /\ \A s \in Slots : running[s] = NoTender

NextTenders == failed

nextBatch ==
  /\ BatchDone
  /\ failed # {} /\ batch < MaxBatches
  /\ batch' = batch + 1
  /\ current' = NextTenders
  /\ toLaunch' = NextTenders
  /\ failed' = {}
  /\ lastFailed' = failed
  /\ main' = "launch"
  /\ UNCHANGED <<slotVars, succeeded>>

return ==
  /\ BatchDone
  /\ failed = {} \/ batch = MaxBatches
  /\ lastFailed' = failed
  /\ main' = "returned"
  /\ UNCHANGED <<batch, current, toLaunch, slotVars, failed, succeeded>>

-----------------------------------------------------------------------------
loop ==
  \/ \E t \in Tenders, s \in Slots : launch(t, s)
  \/ launched \/ nextBatch \/ return

goroutine(s) == succeed(s) \/ retry(s) \/ fail(s)

BatchNext == loop \/ \E s \in Slots : goroutine(s) \/ hang(s)

BatchSpec == BatchInit /\ [][BatchNext]_batchVars

(* Every goroutine is scheduled; a run that does not hang returns.         *)
FairBatchSpec == BatchSpec /\ WF_batchVars(loop) /\ \A s \in Slots : WF_batchVars(goroutine(s))

-----------------------------------------------------------------------------
(* Properties.                                                             *)

(* BatchExact: a batch that has nothing left to launch or to wait for has  *)
(* listed as failed exactly its tenders that have not succeeded, and the   *)
(* final summary counts exactly the tenders that never succeeded.          *)
BatchExact ==
  /\ main # "returned" /\ toLaunch = {} /\ (\A s \in Slots : running[s] = NoTender) =>
       failed = current \ succeeded
  /\ main = "returned" => lastFailed = Tenders \ succeeded

(* EveryCallReturns: DownloadDocuments returns, unless a run hangs.  Then  *)
(* it waits for ever, but the tenders that are left still get their runs,  *)
(* as long as the semaphore has a slot that is not lost.                   *)
OthersDone == toLaunch = {} /\ \A s \in Slots \ stuck : running[s] = NoTender

EveryCallReturns ==
  <>(\/ main = "returned"
     \/ stuck # {} /\ OthersDone
     \/ stuck = Slots)
=============================================================================
