---------------------------- MODULE JobPipeline ----------------------------
(***************************************************************************)
(* The job pipeline of the HTTP service (src/http): an HTTP request        *)
(* inserts a job row and an outbox row in one transaction, the outbox      *)
(* publisher copies outbox rows to RabbitMQ queues, and a pool of workers  *)
(* consumes "jobs.go", claims the job in Postgres, runs ProcessTender and  *)
(* hands the job over to the Python stage through a second outbox row.     *)
(*                                                                         *)
(* Postgres statements and transactions are atomic.  RabbitMQ is external: *)
(* a queue is a bag of messages, an unacknowledged message returns to the  *)
(* queue when its connection goes.  One process runs at a time, as in      *)
(* docker-compose.yml; it may crash or be shut down between any two steps. *)
(***************************************************************************)
EXTENDS Integers, Sequences, FiniteSets

CONSTANTS
  Jobs,         \* the jobs clients submit
  Workers,      \* the goroutines of startGoWorkerConsumer (workerConcurrency)
  NoJob,        \* what an idle worker works on
  MaxAttempts,  \* maxAttempts of worker_consumer.go
  BatchLimit,   \* the LIMIT of the outbox query
  MaxRestarts,  \* bound: crashes and shutdowns of the process
  MaxFaults,    \* bound: injected faults
  FaultKinds    \* the kinds of fault that may be injected

AllFaults ==
  { "publish_error",   \* Publish returns an error, nothing is sent
    "publish_lost",    \* Publish returns nil, the broker never gets the message
    "publisher_lost",  \* the publisher's connection closes
    "consumer_lost",   \* the consumer's connection closes
    "mark_error",      \* the UPDATE that marks a row sent fails
    "claim_error",     \* the claiming UPDATE fails and has no effect
    "claim_lost",      \* it takes effect but its reply is lost
    "tx_error",        \* the result transaction is rolled back
    "commit_lost",     \* it commits but the reply is lost
    "select_error",    \* the SELECT of the attempts fails
    "update_error" }   \* the UPDATE that marks a job failed fails

(* The faults that no retry of the service gets over.  A restart may.      *)
Lossy == AllFaults \ {"publish_error", "mark_error", "claim_error", "select_error"}

ASSUME PipelineAssumption ==
  /\ NoJob \notin Jobs
  /\ MaxAttempts \in Nat \ {0}
  /\ BatchLimit \in Nat \ {0}
  /\ MaxRestarts \in Nat
  /\ MaxFaults \in Nat
  /\ FaultKinds \subseteq AllFaults
  /\ IsFiniteSet(Workers)

VARIABLES
  status,     \* jobs.status, "none" before the row exists
  attempts,   \* jobs.attempts
  outbox,     \* the outbox table in id order
  batch,      \* rows of the publisher's SELECT it has not handled yet
  marking,    \* row it published and has not marked yet, 0 if none
  goQueue,    \* ready messages of queue jobs.go, per job
  pyQueue,    \* messages of queue jobs.python, per job
  pc,         \* where each worker is in processDeliveryWithRetry
  job,        \* the job of the message it holds
  cur,        \* curAttempts of processGoMessage
  live,       \* its message is unacknowledged on an open channel
  proc,       \* the process: "up", "stopping" (ctx cancelled) or "down"
  publisher,  \* the publisher's connection is open
  consumer,   \* the consumer's connection is open
  restarts,
  faults      \* how many faults were injected, and whether one was Lossy

dbVars     == <<status, attempts, outbox>>
pubVars    == <<batch, marking>>
workerVars == <<pc, job, cur, live>>
procVars   == <<proc, publisher, consumer, restarts>>
vars == <<dbVars, pubVars, goQueue, pyQueue, workerVars, procVars, faults>>

Statuses == {"none", "pending", "running_go", "pending_python", "failed"}
Dests    == {"jobs.go", "jobs.python"}
Rows     == [job : Jobs, dest : Dests, sent : BOOLEAN]
FaultLog == [count : 0..MaxFaults, lossy : BOOLEAN]
PCs      == {"idle", "claim", "run", "commitOk", "commitErr", "decide", "markFailed", "ack"}

TypeOK ==
  /\ status \in [Jobs -> Statuses]
  /\ attempts \in [Jobs -> Nat]
  /\ outbox \in Seq(Rows)
  /\ batch \subseteq 1..Len(outbox)
  /\ marking \in 0..Len(outbox)
  /\ goQueue \in [Jobs -> Nat]
  /\ pyQueue \in [Jobs -> Nat]
  /\ pc \in [Workers -> PCs]
  /\ job \in [Workers -> Jobs \cup {NoJob}]
  /\ \A w \in Workers : pc[w] # "idle" => job[w] \in Jobs
  /\ cur \in [Workers -> Nat]
  /\ live \in [Workers -> BOOLEAN]
  /\ proc \in {"up", "stopping", "down"}
  /\ publisher \in BOOLEAN
  /\ consumer \in BOOLEAN
  /\ restarts \in 0..MaxRestarts
  /\ faults \in FaultLog

Init ==
  /\ status = [j \in Jobs |-> "none"]
  /\ attempts = [j \in Jobs |-> 0]
  /\ outbox = <<>>
  /\ batch = {}
  /\ marking = 0
  /\ goQueue = [j \in Jobs |-> 0]
  /\ pyQueue = [j \in Jobs |-> 0]
  /\ pc = [w \in Workers |-> "idle"]
  /\ job = [w \in Workers |-> NoJob]
  /\ cur = [w \in Workers |-> 0]
  /\ live = [w \in Workers |-> FALSE]
  /\ proc = "up"
  /\ publisher = TRUE
  /\ consumer = TRUE
  /\ restarts = 0
  /\ faults = [count |-> 0, lossy |-> FALSE]

-----------------------------------------------------------------------------
(* A definition named X_Slip is a plausible mistake in X; no action uses   *)
(* it, it is there to show which property would notice.                    *)
(*                                                                         *)
(* How a database call under the process context ends: normally, or with   *)
(* an error, either injected or because the context has been cancelled.    *)

Fault(kind) ==
  /\ kind \in FaultKinds
  /\ faults.count < MaxFaults
  /\ faults' = [count |-> faults.count + 1, lossy |-> faults.lossy \/ kind \in Lossy]

DbWorks == proc = "up" /\ UNCHANGED faults

DbFails(kind) ==
  \/ proc = "stopping" /\ UNCHANGED faults
  \/ proc = "up" /\ Fault(kind)

Row(j, dest) == [job |-> j, dest |-> dest, sent |-> FALSE]
Unsent == {i \in 1..Len(outbox) : ~outbox[i].sent}

-----------------------------------------------------------------------------
(* The HTTP handler.  A failed transaction changes nothing.  The request's *)
(* own context is used, so it also succeeds while the process stops.       *)

createJobAndEnqueue(j) ==
  /\ proc # "down"
  /\ status[j] = "none"
  /\ status' = [status EXCEPT ![j] = "pending"]
  /\ outbox' = Append(outbox, Row(j, "jobs.go"))
  /\ UNCHANGED <<attempts, pubVars, goQueue, pyQueue, workerVars, procVars, faults>>

-----------------------------------------------------------------------------
(* The outbox publisher: a batch is the BatchLimit oldest unsent rows, each *)
(* published and then marked.  The column outbox.attempts is never read and *)
(* is left out.                                                             *)

selectBatch ==
  /\ proc = "up"
  /\ batch = {} /\ marking = 0
  /\ Unsent # {}
  /\ batch' = {i \in Unsent : Cardinality({k \in Unsent : k <= i}) <= BatchLimit}
  /\ UNCHANGED <<dbVars, marking, goQueue, pyQueue, workerVars, procVars, faults>>

Lowest(S) == CHOOSE i \in S : \A k \in S : i <= k

Send(row) ==
  /\ goQueue' = IF row.dest = "jobs.go"
                THEN [goQueue EXCEPT ![row.job] = @ + 1] ELSE goQueue
  /\ pyQueue' = IF row.dest = "jobs.python"
                THEN [pyQueue EXCEPT ![row.job] = @ + 1] ELSE pyQueue

publishRow ==
  /\ proc # "down"
  /\ batch # {} /\ marking = 0
  /\ batch' = batch \ {Lowest(batch)}
  /\ \/ /\ publisher
        /\ marking' = Lowest(batch)
        /\ Send(outbox[Lowest(batch)])
        /\ UNCHANGED faults
     \/ /\ publisher
        /\ marking' = Lowest(batch)
        /\ Fault("publish_lost")
        /\ UNCHANGED <<goQueue, pyQueue>>
     \/ /\ \/ ~publisher /\ UNCHANGED faults
           \/ publisher /\ Fault("publish_error")
        /\ UNCHANGED <<marking, goQueue, pyQueue>>
  /\ UNCHANGED <<dbVars, workerVars, procVars>>

markSent ==
  /\ marking # 0
  /\ marking' = 0
  /\ \/ DbWorks /\ outbox' = [outbox EXCEPT ![marking].sent = TRUE]
     \/ DbFails("mark_error") /\ UNCHANGED outbox
  /\ UNCHANGED <<status, attempts, batch, goQueue, pyQueue, workerVars, procVars>>

-----------------------------------------------------------------------------
(* A worker.  It holds one message at a time.                              *)

receive(w, j) ==
  /\ proc # "down" /\ consumer
  /\ pc[w] = "idle"
  /\ goQueue[j] > 0
  /\ goQueue' = [goQueue EXCEPT ![j] = @ - 1]
  /\ pc' = [pc EXCEPT ![w] = "claim"]
  /\ job' = [job EXCEPT ![w] = j]
  /\ live' = [live EXCEPT ![w] = TRUE]
  /\ UNCHANGED <<dbVars, pubVars, pyQueue, cur, procVars, faults>>

(* UPDATE jobs SET status='running_go', attempts=attempts+1                *)
(* WHERE id=$1 AND status='pending'                                        *)
TakeJob_NoGuard(j) ==
  /\ status' = [status EXCEPT ![j] = "running_go"]
  /\ attempts' = [attempts EXCEPT ![j] = @ + 1]

TakeJob(j) ==
  /\ status[j] = "pending"
  /\ status' = [status EXCEPT ![j] = "running_go"]
  /\ attempts' = [attempts EXCEPT ![j] = @ + 1]

claim(w) ==
  /\ pc[w] = "claim"
  /\ TakeJob(job[w])
  /\ \/ /\ DbWorks
        /\ cur' = [cur EXCEPT ![w] = attempts[job[w]] + 1]
        /\ pc' = [pc EXCEPT ![w] = "run"]
     \/ /\ Fault("claim_lost")
        /\ UNCHANGED cur
        /\ pc' = [pc EXCEPT ![w] = "decide"]
  /\ UNCHANGED <<outbox, pubVars, goQueue, pyQueue, job, live, procVars>>

(* No row: the job is not pending, the message is acknowledged.            *)
skipClaimed(w) ==
  /\ pc[w] = "claim"
  /\ DbWorks
  /\ status[job[w]] # "pending"
  /\ pc' = [pc EXCEPT ![w] = "ack"]
  /\ UNCHANGED <<dbVars, pubVars, goQueue, pyQueue, job, cur, live, procVars>>

claimFails_Acks(w) ==
  /\ pc[w] = "claim"
  /\ DbFails("claim_error")
  /\ pc' = [pc EXCEPT ![w] = "ack"]
  /\ UNCHANGED <<dbVars, pubVars, goQueue, pyQueue, job, cur, live, procVars>>

claimFails(w) ==
  /\ pc[w] = "claim"
  /\ DbFails("claim_error")
  /\ pc' = [pc EXCEPT ![w] = "decide"]
  /\ UNCHANGED <<dbVars, pubVars, goQueue, pyQueue, job, cur, live, procVars>>

(* commands.ProcessTender returns, with an error or without.               *)
runTender(w) ==
  /\ pc[w] = "run"
  /\ \E result \in {"commitOk", "commitErr"} : pc' = [pc EXCEPT ![w] = result]
  /\ UNCHANGED <<dbVars, pubVars, goQueue, pyQueue, job, cur, live, procVars, faults>>

(* The result transaction: the job goes to the Python stage, with its      *)
(* outbox row.  processGoMessage returns ProcessTender's error after it.   *)
HandOver_NoRow(j) ==
  /\ status' = [status EXCEPT ![j] = "pending_python"]
  /\ UNCHANGED outbox

HandOver(j) ==
  /\ status' = [status EXCEPT ![j] = "pending_python"]
  /\ outbox' = Append(outbox, Row(j, "jobs.python"))

commitHandOff(w) ==
  /\ \/ pc[w] = "commitOk"
     \/ pc[w] = "commitErr" /\ cur[w] < MaxAttempts
  /\ HandOver(job[w])
  /\ \/ /\ DbWorks
        /\ pc' = [pc EXCEPT ![w] = IF pc[w] = "commitOk" THEN "ack" ELSE "decide"]
     \/ /\ Fault("commit_lost")
        /\ pc' = [pc EXCEPT ![w] = "decide"]
  /\ UNCHANGED <<attempts, pubVars, goQueue, pyQueue, job, cur, live, procVars>>

commitFailed(w) ==
  /\ pc[w] = "commitErr" /\ cur[w] >= MaxAttempts
  /\ DbWorks
  /\ status' = [status EXCEPT ![job[w]] = "failed"]
  /\ pc' = [pc EXCEPT ![w] = "decide"]
  /\ UNCHANGED <<attempts, outbox, pubVars, goQueue, pyQueue, job, cur, live, procVars>>

txFails(w) ==
  /\ pc[w] \in {"commitOk", "commitErr"}
  /\ DbFails("tx_error")
  /\ pc' = [pc EXCEPT ![w] = "decide"]
  /\ UNCHANGED <<dbVars, pubVars, goQueue, pyQueue, job, cur, live, procVars>>

(* An error came back: read the attempts, then mark the job failed and     *)
(* acknowledge, or nack with requeue.                                      *)
Exhausted_Early(j) == attempts[j] >= MaxAttempts - 1

Exhausted(j) == attempts[j] >= MaxAttempts

giveUp(w) ==
  /\ pc[w] = "decide"
  /\ DbWorks
  /\ Exhausted(job[w])
  /\ pc' = [pc EXCEPT ![w] = "markFailed"]
  /\ UNCHANGED <<dbVars, pubVars, goQueue, pyQueue, job, cur, live, procVars>>

Free_KeepsPc(w) ==
  /\ job' = [job EXCEPT ![w] = NoJob]
  /\ cur' = [cur EXCEPT ![w] = 0]
  /\ live' = [live EXCEPT ![w] = FALSE]
  /\ UNCHANGED pc

Free(w) ==
  /\ pc' = [pc EXCEPT ![w] = "idle"]
  /\ job' = [job EXCEPT ![w] = NoJob]
  /\ cur' = [cur EXCEPT ![w] = 0]
  /\ live' = [live EXCEPT ![w] = FALSE]

Return_Dropped(w) == goQueue' = goQueue

Return(w) ==
  goQueue' = IF live[w] THEN [goQueue EXCEPT ![job[w]] = @ + 1] ELSE goQueue

nackRequeue(w) ==
  /\ pc[w] = "decide"
  /\ \/ DbWorks /\ ~Exhausted(job[w])
     \/ DbFails("select_error")
  /\ Return(w)
  /\ Free(w)
  /\ UNCHANGED <<dbVars, pubVars, pyQueue, procVars>>

(* UPDATE jobs SET status='failed' WHERE id=$2; its error is ignored.      *)
markFailed(w) ==
  /\ pc[w] = "markFailed"
  /\ \/ DbWorks /\ status' = [status EXCEPT ![job[w]] = "failed"]
     \/ DbFails("update_error") /\ UNCHANGED status
  /\ pc' = [pc EXCEPT ![w] = "ack"]
  /\ UNCHANGED <<attempts, outbox, pubVars, goQueue, pyQueue, job, cur, live, procVars>>

ack(w) ==
  /\ pc[w] = "ack"
  /\ Free(w)
  /\ UNCHANGED <<dbVars, pubVars, goQueue, pyQueue, procVars, faults>>

-----------------------------------------------------------------------------
(* Connections and the process.                                            *)

(* What the broker has once it takes the unacknowledged messages back.     *)
Requeued ==
  [j \in Jobs |-> goQueue[j] + Cardinality({w \in Workers : live[w] /\ job[w] = j})]

(* No code reconnects: only a restart opens a connection again.            *)
losePublisher ==
  /\ proc # "down" /\ publisher
  /\ Fault("publisher_lost")
  /\ publisher' = FALSE
  /\ UNCHANGED <<dbVars, pubVars, goQueue, pyQueue, workerVars, proc, consumer, restarts>>

loseConsumer ==
  /\ proc # "down" /\ consumer
  /\ Fault("consumer_lost")
  /\ consumer' = FALSE
  /\ goQueue' = Requeued
  /\ live' = [w \in Workers |-> FALSE]
  /\ UNCHANGED <<dbVars, pubVars, pyQueue, pc, job, cur, proc, publisher, restarts>>

(* A signal cancels the context; workers go on until main returns.         *)
shutdown ==
  /\ proc = "up" /\ restarts < MaxRestarts
  /\ proc' = "stopping"
  /\ UNCHANGED <<dbVars, pubVars, goQueue, pyQueue, workerVars, publisher, consumer, restarts, faults>>

ProcessEnds ==
  /\ proc' = "down"
  /\ goQueue' = Requeued
  /\ pc' = [w \in Workers |-> "idle"]
  /\ job' = [w \in Workers |-> NoJob]
  /\ cur' = [w \in Workers |-> 0]
  /\ live' = [w \in Workers |-> FALSE]
  /\ batch' = {}
  /\ marking' = 0
  /\ publisher' = FALSE
  /\ consumer' = FALSE
  /\ UNCHANGED <<dbVars, pyQueue, restarts, faults>>

crash == proc = "up" /\ restarts < MaxRestarts /\ ProcessEnds

exit == proc = "stopping" /\ ProcessEnds

Reset_Unfinished ==
  status' = [j \in Jobs |-> IF status[j] \in {"running_go", "pending_python"}
                            THEN "pending" ELSE status[j]]

Reset ==
  status' = [j \in Jobs |-> IF status[j] = "running_go" THEN "pending" ELSE status[j]]

(* main: reset the jobs left in running_go, then connect and serve.        *)
start ==
  /\ proc = "down"
  /\ restarts < MaxRestarts
  /\ Reset
  /\ proc' = "up"
  /\ publisher' = TRUE
  /\ consumer' = TRUE
  /\ restarts' = restarts + 1
  /\ UNCHANGED <<attempts, outbox, pubVars, goQueue, pyQueue, workerVars, faults>>

-----------------------------------------------------------------------------
publisherStep == selectBatch \/ publishRow \/ markSent

workerStep(w) ==
  \/ \E j \in Jobs : receive(w, j)
  \/ claim(w) \/ skipClaimed(w) \/ claimFails(w)
  \/ runTender(w)
  \/ commitHandOff(w) \/ commitFailed(w) \/ txFails(w)
  \/ giveUp(w) \/ nackRequeue(w) \/ markFailed(w) \/ ack(w)

Next ==
  \/ \E j \in Jobs : createJobAndEnqueue(j)
  \/ publisherStep
  \/ \E w \in Workers : workerStep(w)
  \/ losePublisher \/ loseConsumer
  \/ shutdown \/ crash \/ exit \/ start

Spec == Init /\ [][Next]_vars

(* The publisher's ticker keeps firing, a worker goroutine is scheduled, a *)
(* shutdown completes and the operator starts the service again            *)
(* (docker-compose.yml sets no restart policy).  Nothing else must happen: *)
(* ProcessTender need not return, since the context of the job never       *)
(* reaches the download of a file (downloader.go:16), which has no timeout *)
(* of its own.                                                             *)
Fairness ==
  /\ WF_vars(publisherStep)
  /\ \A w \in Workers : WF_vars(pc[w] # "run" /\ workerStep(w))
  /\ WF_vars(exit)
  /\ WF_vars(start)

FairSpec == Spec /\ Fairness

(* The service on a day when no download hangs.                            *)
PromptSpec == FairSpec /\ \A w \in Workers : WF_vars(runTender(w))

-----------------------------------------------------------------------------
(* Properties.                                                             *)

Working(w) == pc[w] \in {"run", "commitOk", "commitErr"}

HandedOff(j) == \E i \in 1..Len(outbox) : outbox[i].job = j /\ outbox[i].dest = "jobs.python"

(* ClaimExclusive: the claiming UPDATE lets one worker at a time work on a *)
(* job, however often its message was published or redelivered, and the    *)
(* attempts a worker remembers (curAttempts) are those in the database.    *)
ClaimExclusive ==
  \A w \in Workers : Working(w) =>
    /\ cur[w] = attempts[job[w]]
    /\ \A v \in Workers : Working(v) /\ job[v] = job[w] => v = w

(* HandOffOnce: whatever is retried, redelivered or recovered, a job gets  *)
(* at most one outbox row per stage, so one job never enters the Python    *)
(* stage through two rows.                                                 *)
HandOffOnce ==
  \A i, k \in 1..Len(outbox) :
    outbox[i].job = outbox[k].job /\ outbox[i].dest = outbox[k].dest => i = k

(* HandOffRecorded: the status and the outbox agree.  A job waits for the  *)
(* Python stage exactly when its row is there, except that giving a job up *)
(* may overwrite the status after the row was written.                     *)
HandOffRecorded ==
  \A j \in Jobs :
    /\ status[j] = "pending_python" => HandedOff(j)
    /\ HandedOff(j) => status[j] \in {"pending_python", "failed"}

(* NoLostJob: unless a fault of the kind Lossy struck, a pending job with  *)
(* attempts left has a way to be claimed (an unsent row, a ready message,  *)
(* or a worker that will claim it or return its message), and a running    *)
(* job is being worked on by a worker whose death gives its message back,  *)
(* or it has a message for the restart that resets it.                     *)
Claimable(j) ==
  \/ goQueue[j] > 0
  \/ \E w \in Workers : live[w] /\ job[w] = j /\ pc[w] \in {"claim", "decide"}

NoLostJob ==
  ~faults.lossy =>
    \A j \in Jobs :
      /\ status[j] = "pending" /\ attempts[j] < MaxAttempts =>
           \/ \E i \in Unsent : outbox[i].job = j /\ outbox[i].dest = "jobs.go"
           \/ Claimable(j)
      /\ status[j] = "running_go" =>
           \/ \E w \in Workers : Working(w) /\ job[w] = j /\ (live[w] \/ goQueue[j] > 0)
           \/ proc # "up" /\ Claimable(j)

(* RefinesLifecycle: every step is a step of the job's lifecycle or leaves *)
(* its status, attempts and hand-over alone.                               *)
Lifecycle == INSTANCE JobLifecycle WITH handedOff <- [j \in Jobs |-> HandedOff(j)]

RefinesLifecycle == Lifecycle!Spec

(* EveryJobSettles: unless a fault of the kind Lossy strikes, every        *)
(* submitted job leaves the Go stage, and stays out: it fails, or it is    *)
(* handed over and announced to jobs.python.  A run of ProcessTender that  *)
(* hangs keeps its own job and no other, as long as one worker is left.    *)
Settled(j) ==
  \/ status[j] = "failed"
  \/ status[j] = "pending_python" /\ pyQueue[j] > 0

Hanging(j) == \E w \in Workers : pc[w] = "run" /\ job[w] = j

EveryJobSettles ==
  <>[](\/ \A j \in Jobs : status[j] = "none" \/ Settled(j) \/ Hanging(j)
       \/ \A w \in Workers : pc[w] = "run"
       \/ faults.lossy)

(* NoStuckRun: "If the process crashed previously while a job was in       *)
(* `running_go`, it would otherwise remain stuck forever. Reset them back  *)
(* to `pending`." (main.go:215): no job stays in running_go for ever.      *)
NoStuckRun == \A j \in Jobs : status[j] = "running_go" ~> status[j] # "running_go"
=============================================================================
