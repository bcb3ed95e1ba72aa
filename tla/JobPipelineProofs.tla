-------------------------- MODULE JobPipelineProofs --------------------------
(***************************************************************************)
(* Theorems about JobPipeline for any jobs, workers, bounds and faults.    *)
(***************************************************************************)
EXTENDS JobPipeline, FiniteSetTheorems, WellFoundedInduction, TLAPS

(* The inductive invariant.  The safety properties are not inductive by    *)
(* themselves: that two workers cannot hold one job needs that a job being *)
(* worked on is not pending, and that a job is handed over once needs that *)
(* a handed-over job is never pending again.                               *)
WorkInv ==
  \A w \in Workers : Working(w) =>
    /\ status[job[w]] \in {"running_go", "failed"}
    /\ ~HandedOff(job[w])

RowInv == \A i \in 1..Len(outbox) : status[outbox[i].job] # "none"

AttemptInv ==
  /\ \A w \in Workers : pc[w] = "markFailed" => attempts[job[w]] >= MaxAttempts
  /\ \A j \in Jobs : status[j] = "none" => attempts[j] = 0

DownInv == proc = "down" => \A w \in Workers : pc[w] = "idle"

Inv ==
  /\ TypeOK
  /\ WorkInv
  /\ ClaimExclusive
  /\ RowInv
  /\ HandOffOnce
  /\ HandOffRecorded
  /\ AttemptInv
  /\ DownInv

-----------------------------------------------------------------------------
(* The outbox table grows at the end: old rows keep their place.           *)
LEMMA AppendRow ==
  ASSUME outbox \in Seq(Rows), NEW r \in Rows, outbox' = Append(outbox, r)
  PROVE  /\ outbox' \in Seq(Rows)
         /\ Len(outbox') = Len(outbox) + 1
         /\ outbox'[Len(outbox) + 1] = r
         /\ \A i \in 1..Len(outbox) : outbox'[i] = outbox[i]
  OBVIOUS

(* Marking a row sent keeps every row's job and destination.               *)
LEMMA MarkRow ==
  ASSUME outbox \in Seq(Rows), marking \in 1..Len(outbox),
         outbox' = [outbox EXCEPT ![marking].sent = TRUE]
  PROVE  /\ outbox' \in Seq(Rows)
         /\ Len(outbox') = Len(outbox)
         /\ \A i \in 1..Len(outbox) :
              outbox'[i].job = outbox[i].job /\ outbox'[i].dest = outbox[i].dest
<1>1. outbox[marking] \in Rows
  OBVIOUS
<1>2. [outbox[marking] EXCEPT !.sent = TRUE] \in Rows
  BY <1>1 DEF Rows
<1>3. outbox' = [outbox EXCEPT ![marking] = [outbox[marking] EXCEPT !.sent = TRUE]]
  OBVIOUS
<1>4. outbox' \in Seq(Rows) /\ Len(outbox') = Len(outbox)
  BY <1>2, <1>3
<1>5. ASSUME NEW i \in 1..Len(outbox)
      PROVE  outbox'[i].job = outbox[i].job /\ outbox'[i].dest = outbox[i].dest
  BY <1>1, <1>3 DEF Rows
<1>6. QED
  BY <1>4, <1>5

(* The broker counts the messages it takes back.                           *)
LEMMA RequeuedType ==
  ASSUME TypeOK PROVE Requeued \in [Jobs -> Nat]
<1> DEFINE held(j) == {w \in Workers : live[w] /\ job[w] = j}
<1>1. ASSUME NEW j \in Jobs PROVE Cardinality(held(j)) \in Nat
  <2>1. held(j) \subseteq Workers
    OBVIOUS
  <2>2. IsFiniteSet(held(j))
    BY <2>1, PipelineAssumption, FS_Subset
  <2>3. QED
    BY <2>2, FS_CardinalityType
<1>2. goQueue \in [Jobs -> Nat]
  BY DEF TypeOK
<1>3. Requeued = [j \in Jobs |-> goQueue[j] + Cardinality(held(j))]
  BY DEF Requeued
<1>4. ASSUME NEW j \in Jobs PROVE goQueue[j] + Cardinality(held(j)) \in Nat
  <2> HIDE DEF held
  <2>1. QED
    BY <1>1, <1>2
<1> HIDE DEF held
<1>5. QED
  BY <1>3, <1>4

(* The lowest row of a batch is one of its rows.                           *)
LEMMA LowestIn ==
  ASSUME NEW S \in SUBSET Nat, S # {} PROVE Lowest(S) \in S
<1>1. PICK i \in S : \A k \in S : <<k, i>> \notin OpToRel(<, Nat)
  BY WFMin, NatLessThanWellFounded
<1>2. ASSUME NEW k \in S PROVE i <= k
  <2>1. k \in Nat /\ i \in Nat
    OBVIOUS
  <2>2. <<k, i>> \in Nat \X Nat /\ <<k, i>>[1] = k /\ <<k, i>>[2] = i
    BY <2>1
  <2>3. k < i => <<k, i>> \in OpToRel(<, Nat)
    BY <2>2, Zenon DEF OpToRel
  <2>4. ~(k < i)
    BY <1>1, <2>3, Zenon
  <2>5. QED
    BY <2>1, <2>4
<1>3. QED
  BY <1>2 DEF Lowest

-----------------------------------------------------------------------------
(* The fault budget is respected.                                          *)
LEMMA FaultType ==
  ASSUME faults \in FaultLog
  PROVE  /\ \A kind \in AllFaults : Fault(kind) => faults' \in FaultLog
         /\ DbWorks => faults' \in FaultLog
         /\ \A kind \in AllFaults : DbFails(kind) => faults' \in FaultLog
<1>1. MaxFaults \in Nat
  BY PipelineAssumption
<1>2. faults.count \in 0..MaxFaults /\ faults.lossy \in BOOLEAN
  BY DEF FaultLog
<1>3. ASSUME NEW kind \in AllFaults, Fault(kind) PROVE faults' \in FaultLog
  <2>1. faults.count + 1 \in 0..MaxFaults
    BY <1>1, <1>2, <1>3 DEF Fault
  <2>2. (faults.lossy \/ kind \in Lossy) \in BOOLEAN
    OBVIOUS
  <2>3. QED
    BY <1>3, <2>1, <2>2 DEF Fault, FaultLog
<1>4. QED
  BY <1>3 DEF DbWorks, DbFails

(* The initial state has the right types, and every step keeps them.       *)
LEMMA TypeInit == Init => TypeOK
<1>1. SUFFICES ASSUME Init PROVE TypeOK
  OBVIOUS
<1>2. QED
  BY <1>1, PipelineAssumption DEF Init, TypeOK, Statuses, PCs, FaultLog

(* Every step keeps the types: the inductive half of TypeInvariant.        *)
LEMMA TypeStep == TypeOK /\ [Next]_vars => TypeOK'
<1> SUFFICES ASSUME TypeOK, [Next]_vars PROVE TypeOK'
  OBVIOUS
<1> USE DEF TypeOK, dbVars, pubVars, workerVars, procVars
<1>1. ASSUME NEW j \in Jobs, createJobAndEnqueue(j) PROVE TypeOK'
  <2>1. Row(j, "jobs.go") \in Rows
    BY DEF Row, Rows, Dests
  <2>2. outbox' \in Seq(Rows) /\ Len(outbox') = Len(outbox) + 1
    BY <1>1, <2>1, AppendRow DEF createJobAndEnqueue
  <2>3. QED
    BY <1>1, <2>2 DEF createJobAndEnqueue, Statuses
<1>2. CASE selectBatch
  BY <1>2 DEF selectBatch, Unsent
<1>3. CASE publishRow
  <2>1. Lowest(batch) \in 1..Len(outbox) /\ outbox[Lowest(batch)] \in Rows
    <3>1. Len(outbox) \in Nat
      OBVIOUS
    <3>2. batch \in SUBSET Nat /\ batch # {}
      BY <1>3, <3>1 DEF publishRow
    <3>3. Lowest(batch) \in batch
      BY <3>2, LowestIn
    <3>4. Lowest(batch) \in 1..Len(outbox)
      BY <3>3
    <3>5. QED
      BY <3>4
  <2>2. \A row \in Rows : Send(row) => goQueue' \in [Jobs -> Nat] /\ pyQueue' \in [Jobs -> Nat]
    BY DEF Send, Rows
  <2>3. goQueue' \in [Jobs -> Nat] /\ pyQueue' \in [Jobs -> Nat]
    BY <1>3, <2>1, <2>2 DEF publishRow
  <2>4. marking' \in 0..Len(outbox) /\ batch' \subseteq 1..Len(outbox)
    <3>1. marking' = Lowest(batch) \/ marking' = marking
      BY <1>3 DEF publishRow
    <3>2. batch' \subseteq batch
      BY <1>3 DEF publishRow
    <3>3. Lowest(batch) \in 0..Len(outbox)
      BY <2>1
    <3>4. QED
      BY <3>1, <3>2, <3>3
  <2>5. faults' \in FaultLog
    BY <1>3, FaultType DEF publishRow, AllFaults
  <2>6. UNCHANGED <<dbVars, workerVars, procVars>>
    BY <1>3 DEF publishRow
  <2>7. QED
    BY <2>3, <2>4, <2>5, <2>6
<1>4. CASE markSent
  <2>1. outbox' \in Seq(Rows) /\ Len(outbox') = Len(outbox)
    BY <1>4, MarkRow DEF markSent
  <2>2. faults' \in FaultLog
    BY <1>4, FaultType DEF markSent, AllFaults
  <2>3. QED
    BY <1>4, <2>1, <2>2 DEF markSent
<1>5. ASSUME NEW w \in Workers, workerStep(w) PROVE TypeOK'
  <2> USE DEF PCs, Statuses
  <2>1. ASSUME NEW j \in Jobs, receive(w, j) PROVE TypeOK'
    BY <2>1 DEF receive
  <2>2. CASE claim(w)
    <3>1. job[w] \in Jobs
      BY <2>2 DEF claim
    <3>2. faults' \in FaultLog
      BY <2>2, FaultType DEF claim, AllFaults
    <3>3. status' \in [Jobs -> Statuses] /\ attempts' \in [Jobs -> Nat]
      BY <2>2, <3>1 DEF claim, TakeJob
    <3>4. cur' \in [Workers -> Nat] /\ pc' \in [Workers -> PCs]
      <4>1. attempts[job[w]] + 1 \in Nat
        BY <3>1
      <4>2. cur' = [cur EXCEPT ![w] = attempts[job[w]] + 1] \/ cur' = cur
        BY <2>2 DEF claim
      <4>3. pc' = [pc EXCEPT ![w] = "run"] \/ pc' = [pc EXCEPT ![w] = "decide"]
        BY <2>2 DEF claim
      <4>4. QED
        BY <4>1, <4>2, <4>3
    <3>5. \A v \in Workers : pc'[v] # "idle" => job'[v] \in Jobs
      BY <2>2, <3>1 DEF claim
    <3>6. QED
      BY <2>2, <3>2, <3>3, <3>4, <3>5 DEF claim
  <2>3. CASE skipClaimed(w)
    BY <2>3 DEF skipClaimed, DbWorks
  <2>4. CASE claimFails(w)
    BY <2>4, FaultType DEF claimFails, AllFaults
  <2>5. CASE runTender(w)
    BY <2>5 DEF runTender
  <2>6. CASE commitHandOff(w)
    <3>1. job[w] \in Jobs
      BY <2>6 DEF commitHandOff
    <3>2. Row(job[w], "jobs.python") \in Rows
      BY <3>1 DEF Row, Rows, Dests
    <3>3. outbox' \in Seq(Rows) /\ Len(outbox') = Len(outbox) + 1
      BY <2>6, <3>2, AppendRow DEF commitHandOff, HandOver
    <3>4. faults' \in FaultLog
      BY <2>6, FaultType DEF commitHandOff, AllFaults
    <3>5. status' \in [Jobs -> Statuses]
      BY <2>6, <3>1 DEF commitHandOff, HandOver
    <3>6. /\ pc' \in [Workers -> PCs]
          /\ \A v \in Workers : pc'[v] # "idle" => job'[v] \in Jobs
      BY <2>6, <3>1 DEF commitHandOff
    <3>7. batch' \subseteq 1..Len(outbox') /\ marking' \in 0..Len(outbox')
      BY <2>6, <3>3 DEF commitHandOff
    <3>8. QED
      BY <2>6, <3>3, <3>4, <3>5, <3>6, <3>7 DEF commitHandOff
  <2>7. CASE commitFailed(w)
    BY <2>7 DEF commitFailed, DbWorks
  <2>8. CASE txFails(w)
    BY <2>8, FaultType DEF txFails, AllFaults
  <2>9. CASE giveUp(w)
    BY <2>9 DEF giveUp, DbWorks
  <2>10. CASE nackRequeue(w)
    BY <2>10, FaultType DEF nackRequeue, Return, Free, AllFaults
  <2>11. CASE markFailed(w)
    BY <2>11, FaultType DEF markFailed, AllFaults
  <2>12. CASE ack(w)
    BY <2>12 DEF ack, Free
  <2>13. QED
    BY <1>5, <2>1, <2>2, <2>3, <2>4, <2>5, <2>6, <2>7, <2>8, <2>9, <2>10, <2>11, <2>12
    DEF workerStep
<1>6. CASE losePublisher
  BY <1>6, FaultType DEF losePublisher, AllFaults
<1>7. CASE loseConsumer
  <2>1. goQueue' \in [Jobs -> Nat]
    BY <1>7, RequeuedType DEF loseConsumer
  <2>2. faults' \in FaultLog
    BY <1>7, FaultType DEF loseConsumer, AllFaults
  <2>3. live' \in [Workers -> BOOLEAN]
    BY <1>7 DEF loseConsumer
  <2>4. QED
    BY <1>7, <2>1, <2>2, <2>3 DEF loseConsumer
<1>8. CASE shutdown
  BY <1>8 DEF shutdown
<1>9. ASSUME ProcessEnds PROVE TypeOK'
  <2>1. goQueue' \in [Jobs -> Nat]
    BY <1>9, RequeuedType DEF ProcessEnds
  <2>2. /\ pc' \in [Workers -> PCs]
        /\ job' \in [Workers -> Jobs \cup {NoJob}]
        /\ cur' \in [Workers -> Nat]
        /\ live' \in [Workers -> BOOLEAN]
    BY <1>9 DEF ProcessEnds, PCs
  <2>3. \A w \in Workers : pc'[w] = "idle"
    BY <1>9 DEF ProcessEnds
  <2>4. batch' \subseteq 1..Len(outbox') /\ marking' \in 0..Len(outbox')
    BY <1>9 DEF ProcessEnds
  <2>5. QED
    BY <1>9, <2>1, <2>2, <2>3, <2>4 DEF ProcessEnds
<1>10. CASE start
  BY <1>10, PipelineAssumption DEF start, Reset, Statuses
<1>11. CASE UNCHANGED vars
  BY <1>11 DEF vars
<1>12. QED
  BY <1>1, <1>2, <1>3, <1>4, <1>5, <1>6, <1>7, <1>8, <1>9, <1>10, <1>11
  DEF Next, publisherStep, crash, exit

(* TypeInvariant: every variable keeps its type; in particular a worker    *)
(* that is not idle always holds the message of a job.                     *)
THEOREM TypeInvariant == Spec => []TypeOK
<1>1. QED
  BY TypeInit, TypeStep, PTL DEF Spec

-----------------------------------------------------------------------------
(* The inductive invariant.                                                *)

(* The outbox keeps its rows, apart from their sent flags.                 *)
SameRows ==
  /\ Len(outbox') = Len(outbox)
  /\ \A i \in 1..Len(outbox) :
       outbox'[i].job = outbox[i].job /\ outbox'[i].dest = outbox[i].dest

(* No worker starts working on a job, and one about to mark its job failed *)
(* has read enough attempts.                                               *)
NoNewWork ==
  \A v \in Workers :
    /\ Working(v)' => Working(v) /\ cur'[v] = cur[v] /\ job'[v] = job[v]
    /\ pc'[v] = "markFailed" => attempts[job'[v]] >= MaxAttempts

(* Keeping its rows, the outbox keeps what was handed over, and stays      *)
(* without duplicates.                                                     *)
LEMMA SameRowsKeep ==
  ASSUME TypeOK, SameRows
  PROVE  /\ \A j \in Jobs : HandedOff(j)' <=> HandedOff(j)
         /\ HandOffOnce => HandOffOnce'
<1>1. \A j \in Jobs : HandedOff(j)' <=> HandedOff(j)
  BY DEF SameRows, HandedOff
<1>2. HandOffOnce => HandOffOnce'
  BY DEF SameRows, HandOffOnce
<1>3. QED
  BY <1>1, <1>2

(* A new row hands its job over if it is for the Python stage.             *)
LEMMA NewRow ==
  ASSUME TypeOK, NEW h \in Jobs, NEW d \in Dests, outbox' = Append(outbox, Row(h, d))
  PROVE  /\ Len(outbox') = Len(outbox) + 1
         /\ outbox'[Len(outbox) + 1].job = h /\ outbox'[Len(outbox) + 1].dest = d
         /\ \A i \in 1..Len(outbox) : outbox'[i] = outbox[i] /\ i \in 1..Len(outbox')
         /\ \A i \in 1..Len(outbox') : i = Len(outbox) + 1 \/ i \in 1..Len(outbox)
         /\ Len(outbox) + 1 \in 1..Len(outbox')
         /\ \A k \in Jobs :
              HandedOff(k)' <=> HandedOff(k) \/ (k = h /\ d = "jobs.python")
<1> DEFINE n == Len(outbox) + 1
<1>1. Row(h, d) \in Rows
  BY DEF Row, Rows
<1>2. /\ Len(outbox') = n
      /\ outbox'[n] = Row(h, d)
      /\ \A i \in 1..Len(outbox) : outbox'[i] = outbox[i]
  BY <1>1, AppendRow DEF TypeOK
<1>3. outbox'[n].job = h /\ outbox'[n].dest = d
  BY <1>2 DEF Row
<1>4. /\ \A i \in 1..Len(outbox') : i = n \/ i \in 1..Len(outbox)
      /\ \A i \in 1..Len(outbox) : i \in 1..Len(outbox')
      /\ n \in 1..Len(outbox')
  <2>1. Len(outbox) \in Nat
    BY DEF TypeOK
  <2>2. QED
    BY <1>2, <2>1
<1>5. ASSUME NEW k \in Jobs, HandedOff(k)' PROVE HandedOff(k) \/ (k = h /\ d = "jobs.python")
  BY <1>5, <1>2, <1>3, <1>4 DEF HandedOff
<1>6. ASSUME NEW k \in Jobs, HandedOff(k) \/ (k = h /\ d = "jobs.python") PROVE HandedOff(k)'
  BY <1>6, <1>2, <1>3, <1>4 DEF HandedOff
<1>7. QED
  BY <1>2, <1>3, <1>4, <1>5, <1>6

(* A step that changes neither statuses nor attempts nor rows, and starts  *)
(* no work, keeps the invariant.                                           *)
LEMMA QuietStep ==
  ASSUME Inv, TypeOK', SameRows, NoNewWork, UNCHANGED <<status, attempts>>, DownInv'
  PROVE  Inv'
<1> USE DEF Inv
<1>1. \A j \in Jobs : HandedOff(j)' <=> HandedOff(j)
  BY SameRowsKeep
<1>2. \A w \in Workers : Working(w) => job[w] \in Jobs
  BY DEF TypeOK, Working
<1>3. WorkInv'
  BY <1>1, <1>2, Zenon DEF WorkInv, NoNewWork
<1>4. ClaimExclusive'
  BY Zenon DEF ClaimExclusive, NoNewWork
<1>5. RowInv'
  BY DEF RowInv, SameRows
<1>6. HandOffOnce'
  BY SameRowsKeep
<1>7. HandOffRecorded'
  BY <1>1 DEF HandOffRecorded
<1>8. AttemptInv'
  BY DEF AttemptInv, NoNewWork
<1>9. QED
  BY <1>3, <1>4, <1>5, <1>6, <1>7, <1>8

(* A step that leaves the outbox alone leaves its rows alone.              *)
LEMMA OutboxKept ==
  ASSUME TypeOK, UNCHANGED outbox PROVE SameRows
  BY DEF SameRows

(* The inductive invariant holds initially.                                *)
LEMMA InvInit == Init => Inv
<1>1. SUFFICES ASSUME Init PROVE Inv
  OBVIOUS
<1>2. TypeOK
  BY <1>1, TypeInit
<1>3. outbox = <<>> /\ 1..Len(outbox) = {}
  BY <1>1 DEF Init
<1>4. \A w \in Workers : pc[w] = "idle"
  BY <1>1 DEF Init
<1>5. RowInv /\ HandOffOnce /\ \A j \in Jobs : ~HandedOff(j)
  BY <1>3 DEF RowInv, HandOffOnce, HandedOff
<1>6. WorkInv /\ ClaimExclusive /\ DownInv
  BY <1>4 DEF WorkInv, ClaimExclusive, DownInv, Working
<1>7. HandOffRecorded /\ AttemptInv
  BY <1>1, <1>4, <1>5 DEF HandOffRecorded, AttemptInv, Init
<1>8. QED
  BY <1>2, <1>5, <1>6, <1>7 DEF Inv

(* The steps of the client and of the publisher keep the invariant.        *)
LEMMA CreateStep ==
  ASSUME Inv, TypeOK', NEW j \in Jobs, createJobAndEnqueue(j) PROVE Inv'
<1> DEFINE n == Len(outbox) + 1
<1> USE DEF Inv
<1>1. /\ status[j] = "none"
      /\ status' = [status EXCEPT ![j] = "pending"]
      /\ UNCHANGED <<attempts, pc, job, cur, live, proc>>
  BY DEF createJobAndEnqueue, workerVars, procVars
<1>2. "jobs.go" \in Dests /\ outbox' = Append(outbox, Row(j, "jobs.go"))
  BY DEF createJobAndEnqueue, Dests
<1>3. \A i \in 1..Len(outbox) : outbox'[i] = outbox[i]
  BY <1>2, NewRow
<1>4. outbox'[n].job = j /\ outbox'[n].dest = "jobs.go"
  BY <1>2, NewRow
<1>5. \A i \in 1..Len(outbox') : i = n \/ i \in 1..Len(outbox)
  BY <1>2, NewRow
<1>6. \A i \in 1..Len(outbox) : outbox[i].job \in Jobs /\ outbox[i].job # j
  <2>1. \A i \in 1..Len(outbox) : outbox[i] \in Rows
    BY DEF TypeOK
  <2>2. QED
    BY <1>1, <2>1 DEF RowInv, Rows
<1>7. \A k \in Jobs : HandedOff(k)' <=> HandedOff(k)
  BY <1>2, NewRow
<1>8. \A w \in Workers : Working(w) => job[w] \in Jobs /\ job[w] # j
  BY <1>1 DEF TypeOK, Working, WorkInv
<1>9. WorkInv' /\ ClaimExclusive'
  BY <1>1, <1>7, <1>8 DEF WorkInv, ClaimExclusive, Working, TypeOK
<1>10. RowInv'
  <2>1. \A k \in Jobs : status'[k] = (IF k = j THEN "pending" ELSE status[k])
    BY <1>1 DEF TypeOK
  <2>2. \A i \in 1..Len(outbox) : status'[outbox'[i].job] # "none"
    BY <1>3, <1>6, <2>1 DEF RowInv
  <2>3. status'[outbox'[n].job] # "none"
    BY <1>4, <2>1
  <2>4. QED
    BY <1>5, <2>2, <2>3 DEF RowInv
<1>11. HandOffOnce'
  BY <1>3, <1>4, <1>5, <1>6 DEF HandOffOnce
<1>12. HandOffRecorded'
  BY <1>1, <1>7 DEF HandOffRecorded, TypeOK
<1>13. AttemptInv' /\ DownInv'
  BY <1>1 DEF AttemptInv, DownInv, TypeOK
<1>14. QED
  BY <1>9, <1>10, <1>11, <1>12, <1>13

(* The publisher changes the sent flags of rows only.                      *)
LEMMA PublisherStep ==
  ASSUME Inv, TypeOK', publisherStep PROVE Inv'
<1>1. UNCHANGED <<status, attempts, pc, job, cur, live, proc>>
  BY DEF publisherStep, selectBatch, publishRow, markSent, dbVars, workerVars, procVars
<1>2. SameRows
  <2>1. CASE markSent
    BY <2>1, MarkRow, OutboxKept DEF markSent, SameRows, Inv, TypeOK
  <2>2. CASE selectBatch \/ publishRow
    BY <2>2, OutboxKept DEF selectBatch, publishRow, dbVars, Inv
  <2>3. QED
    BY <2>1, <2>2 DEF publisherStep
<1>3. NoNewWork
  BY <1>1 DEF NoNewWork, Working, Inv, AttemptInv
<1>4. DownInv'
  BY <1>1 DEF DownInv, Inv
<1>5. QED
  BY <1>1, <1>2, <1>3, <1>4, QuietStep

(* The steps of a worker that touch no job.                                *)
QuietWorkerStep(w) ==
  \/ \E j \in Jobs : receive(w, j)
  \/ skipClaimed(w) \/ claimFails(w) \/ runTender(w) \/ txFails(w)
  \/ giveUp(w) \/ nackRequeue(w) \/ ack(w)

(* These steps start no work and keep the invariant.                       *)
LEMMA QuietWorker ==
  ASSUME Inv, TypeOK', NEW w \in Workers, QuietWorkerStep(w) PROVE Inv'
<1> USE DEF dbVars, pubVars, procVars
<1>1. UNCHANGED <<status, attempts, outbox>>
  BY DEF QuietWorkerStep, receive, skipClaimed, claimFails, runTender, txFails, giveUp,
         nackRequeue, ack
<1>2. /\ proc' = proc
      /\ proc # "down"
  <2>1. proc' = proc
    BY DEF QuietWorkerStep, receive, skipClaimed, claimFails, runTender, txFails, giveUp,
           nackRequeue, ack
  <2>2. pc[w] # "idle" \/ proc # "down"
    BY DEF QuietWorkerStep, receive, skipClaimed, claimFails, runTender, txFails, giveUp,
           nackRequeue, ack
  <2>3. QED
    BY <2>1, <2>2 DEF Inv, DownInv
<1>3. \A v \in Workers \ {w} : pc'[v] = pc[v] /\ job'[v] = job[v] /\ cur'[v] = cur[v]
  BY DEF QuietWorkerStep, receive, skipClaimed, claimFails, runTender, txFails, giveUp,
         nackRequeue, ack, Free, Inv, TypeOK
<1>4. Working(w)' => Working(w) /\ cur'[w] = cur[w] /\ job'[w] = job[w]
  BY DEF QuietWorkerStep, receive, skipClaimed, claimFails, runTender, txFails, giveUp,
         nackRequeue, ack, Free, Working, Inv, TypeOK
<1>5. pc'[w] = "markFailed" => attempts[job'[w]] >= MaxAttempts
  BY DEF QuietWorkerStep, receive, skipClaimed, claimFails, runTender, txFails, giveUp,
         nackRequeue, ack, Free, Exhausted, Inv, TypeOK
<1>6. NoNewWork
  BY <1>3, <1>4, <1>5 DEF NoNewWork, Working, Inv, AttemptInv
<1>7. DownInv'
  BY <1>2 DEF DownInv
<1>8. QED
  BY <1>1, <1>6, <1>7, QuietStep, OutboxKept DEF Inv

(* The worker that claims a job is the only one working on it.             *)
LEMMA ClaimStep ==
  ASSUME Inv, TypeOK', NEW w \in Workers, claim(w) PROVE Inv'
<1> USE DEF Inv
<1>1. /\ pc[w] = "claim"
      /\ status[job[w]] = "pending"
      /\ status' = [status EXCEPT ![job[w]] = "running_go"]
      /\ attempts' = [attempts EXCEPT ![job[w]] = @ + 1]
      /\ job' = job /\ proc' = proc /\ outbox' = outbox
  BY DEF claim, TakeJob, procVars
<1>2. job[w] \in Jobs
  BY <1>1 DEF TypeOK
<1>3. \A k \in Jobs : HandedOff(k)' <=> HandedOff(k)
  BY <1>1 DEF HandedOff
<1>4. ~HandedOff(job[w])
  BY <1>1, <1>2 DEF HandOffRecorded
<1>5. \A v \in Workers : Working(v) => v # w /\ job[v] \in Jobs /\ job[v] # job[w]
  BY <1>1 DEF TypeOK, Working, WorkInv
<1>6. \A v \in Workers \ {w} : pc'[v] = pc[v] /\ cur'[v] = cur[v]
  BY DEF claim, TypeOK
<1>7. pc'[w] = "run" => cur'[w] = attempts'[job[w]]
  BY <1>1, <1>2 DEF claim, TypeOK
<1>8. pc'[w] \in {"run", "decide"}
  BY DEF claim, TypeOK
<1>9. WorkInv'
  BY <1>1, <1>2, <1>3, <1>4, <1>5, <1>6, <1>8 DEF WorkInv, Working, TypeOK
<1>10. ClaimExclusive'
  <2>1. \A v \in Workers : Working(v)' /\ v # w =>
          Working(v) /\ job[v] \in Jobs /\ job[v] # job[w]
    BY <1>5, <1>6 DEF Working
  <2>2. \A j \in Jobs : j # job[w] => attempts'[j] = attempts[j]
    BY <1>1 DEF TypeOK
  <2>3. \A v \in Workers : Working(v)' /\ v # w => cur'[v] = attempts'[job'[v]]
    BY <1>1, <1>6, <2>1, <2>2 DEF ClaimExclusive
  <2>4. Working(w)' => cur'[w] = attempts'[job'[w]]
    BY <1>1, <1>7, <1>8 DEF Working
  <2>5. ASSUME NEW u \in Workers, NEW v \in Workers,
               Working(u)', Working(v)', job'[v] = job'[u]
        PROVE  v = u
    BY <1>1, <2>1, <2>5 DEF ClaimExclusive
  <2>6. QED
    BY <2>3, <2>4, <2>5 DEF ClaimExclusive
<1>11. RowInv' /\ HandOffOnce'
  BY <1>1, <1>2 DEF RowInv, HandOffOnce, TypeOK
<1>12. HandOffRecorded'
  BY <1>1, <1>2, <1>3, <1>4 DEF HandOffRecorded, TypeOK
<1>13. AttemptInv'
  <2>a. /\ status \in [Jobs -> Statuses]
        /\ attempts \in [Jobs -> Nat]
    BY DEF TypeOK
  <2>b. \A j \in Jobs : j # job[w] => attempts'[j] = attempts[j] /\ status'[j] = status[j]
    BY ONLY <1>1, <2>a
  <2>c. attempts'[job[w]] = attempts[job[w]] + 1 /\ status'[job[w]] = "running_go"
    BY ONLY <1>1, <1>2, <2>a
  <2>d. \A j \in Jobs : attempts[j] \in Nat
    BY ONLY <2>a
  <2>1. ASSUME NEW j \in Jobs
        PROVE  /\ attempts'[j] >= attempts[j]
               /\ status'[j] = "none" => status[j] = "none" /\ attempts'[j] = attempts[j]
    <3>1. CASE j = job[w]
      BY ONLY <3>1, <2>c, <2>d, <1>2
    <3>2. CASE j # job[w]
      BY ONLY <3>2, <2>b, <2>d
    <3>3. QED
      BY <3>1, <3>2
  <2>2. \A v \in Workers : pc'[v] = "markFailed" => pc[v] = "markFailed" /\ job[v] \in Jobs
    BY <1>6, <1>8 DEF TypeOK
  <2>3. MaxAttempts \in Nat /\ \A j \in Jobs : attempts[j] \in Nat /\ attempts'[j] \in Nat
    BY PipelineAssumption DEF TypeOK
  <2>4. QED
    BY <1>1, <2>1, <2>2, <2>3 DEF AttemptInv
<1>14. DownInv'
  BY <1>1 DEF DownInv
<1>15. QED
  BY <1>9, <1>10, <1>11, <1>12, <1>13, <1>14

(* Handing a job over: nobody else works on it, and it had no row.         *)
LEMMA HandOffStep ==
  ASSUME Inv, TypeOK', NEW w \in Workers, commitHandOff(w) PROVE Inv'
<1> DEFINE n == Len(outbox) + 1
           h == job[w]
<1> USE DEF Inv
<1>1. /\ Working(w)
      /\ status' = [status EXCEPT ![h] = "pending_python"]
      /\ outbox' = Append(outbox, Row(h, "jobs.python"))
      /\ UNCHANGED <<attempts, job, cur, proc>>
  BY DEF commitHandOff, HandOver, Working, procVars
<1>2. h \in Jobs /\ ~HandedOff(h) /\ status[h] # "none"
  BY <1>1 DEF TypeOK, Working, WorkInv
<1>3. "jobs.python" \in Dests
  BY DEF Dests
<1>4. \A i \in 1..Len(outbox) : outbox'[i] = outbox[i]
  BY <1>1, <1>2, <1>3, NewRow
<1>5. outbox'[n].job = h /\ outbox'[n].dest = "jobs.python"
  BY <1>1, <1>2, <1>3, NewRow
<1>6. \A i \in 1..Len(outbox') : i = n \/ i \in 1..Len(outbox)
  BY <1>1, <1>2, <1>3, NewRow
<1>7. \A k \in Jobs : HandedOff(k)' <=> HandedOff(k) \/ k = h
  BY <1>1, <1>2, <1>3, NewRow
<1>8. \A k \in Jobs : status'[k] = (IF k = h THEN "pending_python" ELSE status[k])
  BY <1>1 DEF TypeOK
<1>9. /\ \A v \in Workers \ {w} : pc'[v] = pc[v]
      /\ pc'[w] \in {"ack", "decide"}
  BY DEF commitHandOff, TypeOK
<1>10. \A v \in Workers : Working(v)' => Working(v) /\ job[v] \in Jobs /\ job[v] # h
  BY <1>1, <1>9 DEF ClaimExclusive, Working, TypeOK
<1>11. WorkInv'
  <2>1. \A v \in Workers : Working(v)' => status'[job[v]] \in {"running_go", "failed"}
    BY <1>8, <1>10 DEF WorkInv
  <2>2. \A v \in Workers : Working(v)' => ~HandedOff(job[v])'
    BY <1>1, <1>7, <1>10 DEF WorkInv
  <2>3. QED
    BY <1>1, <2>1, <2>2 DEF WorkInv
<1>12. ClaimExclusive'
  BY <1>1, <1>10 DEF ClaimExclusive
<1>13. RowInv'
  <2>1. \A i \in 1..Len(outbox) : outbox[i].job \in Jobs
    <3>1. \A i \in 1..Len(outbox) : outbox[i] \in Rows
      BY DEF TypeOK
    <3>2. QED
      BY <3>1 DEF Rows
  <2>2. \A i \in 1..Len(outbox) : status'[outbox'[i].job] # "none"
    BY <1>4, <1>8, <2>1 DEF RowInv
  <2>3. status'[outbox'[n].job] # "none"
    BY <1>2, <1>5, <1>8
  <2>4. QED
    BY <1>6, <2>2, <2>3 DEF RowInv
<1>14. HandOffOnce'
  <2>1. \A i \in 1..Len(outbox) : outbox[i].job = h => outbox[i].dest # "jobs.python"
    BY <1>2 DEF HandedOff
  <2>2. \A i, k \in 1..Len(outbox) :
          outbox[i].job = outbox[k].job /\ outbox[i].dest = outbox[k].dest => i = k
    BY DEF HandOffOnce
  <2>3. \A i \in 1..Len(outbox) :
          ~(outbox'[i].job = outbox'[n].job /\ outbox'[i].dest = outbox'[n].dest)
    BY ONLY <1>4, <1>5, <2>1
  <2>4. \A i, k \in 1..Len(outbox') :
          outbox'[i].job = outbox'[k].job /\ outbox'[i].dest = outbox'[k].dest => i = k
    BY ONLY <1>4, <1>6, <2>2, <2>3
  <2>5. QED
    BY ONLY <2>4 DEF HandOffOnce
<1>15. HandOffRecorded'
  <2>1. ASSUME NEW k \in Jobs
        PROVE  /\ status'[k] = "pending_python" => HandedOff(k)'
               /\ HandedOff(k)' => status'[k] \in {"pending_python", "failed"}
    <3>1. /\ status[k] = "pending_python" => HandedOff(k)
          /\ HandedOff(k) => status[k] \in {"pending_python", "failed"}
      BY DEF HandOffRecorded
    <3>2. CASE k = h
      BY ONLY <3>2, <1>7, <1>8, h \in Jobs, <1>2
    <3>3. CASE k # h
      BY ONLY <3>1, <3>3, <1>7, <1>8, k \in Jobs
    <3>4. QED
      BY <3>2, <3>3
  <2>2. QED
    BY <2>1 DEF HandOffRecorded
<1>16. AttemptInv'
  <2>1. \A v \in Workers : pc'[v] = "markFailed" => pc[v] = "markFailed"
    BY ONLY <1>9
  <2>2. \A j \in Jobs : status'[j] = "none" => status[j] = "none"
    BY ONLY <1>8
  <2>3. QED
    BY <1>1, <2>1, <2>2 DEF AttemptInv
<1>17. DownInv'
  <2>1. proc # "down"
    BY <1>1 DEF DownInv, Working
  <2>2. proc' = proc
    BY DEF commitHandOff, procVars
  <2>3. QED
    BY ONLY <2>1, <2>2 DEF DownInv
<1>18. QED
  BY <1>11, <1>12, <1>13, <1>14, <1>15, <1>16, <1>17

(* Marking a job failed, in the result transaction or when giving it up.   *)
LEMMA FailStep ==
  ASSUME Inv, TypeOK', NEW w \in Workers, commitFailed(w) \/ markFailed(w) PROVE Inv'
<1> USE DEF Inv
<1>1. /\ UNCHANGED <<attempts, outbox, job, cur, proc>>
      /\ status' = status \/ status' = [status EXCEPT ![job[w]] = "failed"]
      /\ pc[w] \in {"commitErr", "markFailed"}
  BY DEF commitFailed, markFailed, procVars
<1>2. /\ \A v \in Workers \ {w} : pc'[v] = pc[v]
      /\ pc'[w] \in {"decide", "ack"}
  BY DEF commitFailed, markFailed, TypeOK
<1>3. job[w] \in Jobs /\ attempts[job[w]] >= MaxAttempts
  BY DEF commitFailed, markFailed, TypeOK, AttemptInv, ClaimExclusive, Working
<1>4. status[job[w]] # "none"
  <2>1. MaxAttempts \in Nat \ {0}
    BY PipelineAssumption
  <2>2. QED
    BY <1>3, <2>1 DEF AttemptInv
<1>5. \A v \in Workers : Working(v)' => Working(v)
  BY <1>2 DEF Working
<1>6. \A k \in Jobs : HandedOff(k)' <=> HandedOff(k)
  BY <1>1 DEF HandedOff
<1>7. \A k \in Jobs : status'[k] = status[k] \/ (k = job[w] /\ status'[k] = "failed")
  BY <1>1 DEF TypeOK
<1>8. WorkInv'
  <2>1. \A v \in Workers : Working(v)' => job[v] \in Jobs
    BY <1>5 DEF TypeOK, Working
  <2>2. QED
    BY <1>1, <1>5, <1>6, <1>7, <2>1 DEF WorkInv
<1>9. ClaimExclusive'
  BY <1>1, <1>5 DEF ClaimExclusive
<1>10. RowInv' /\ HandOffOnce'
  <2>1. \A i \in 1..Len(outbox) : outbox[i].job \in Jobs
    <3>1. \A i \in 1..Len(outbox) : outbox[i] \in Rows
      BY DEF TypeOK
    <3>2. QED
      BY <3>1 DEF Rows
  <2>2. QED
    BY <1>1, <1>4, <1>7, <2>1 DEF RowInv, HandOffOnce
<1>11. HandOffRecorded'
  BY <1>6, <1>7 DEF HandOffRecorded
<1>12. AttemptInv'
  BY <1>1, <1>2, <1>4, <1>7 DEF AttemptInv
<1>13. DownInv'
  BY <1>1, <1>2 DEF DownInv
<1>14. QED
  BY <1>8, <1>9, <1>10, <1>11, <1>12, <1>13

(* Losing a connection, stopping and ending: no job changes.               *)
LEMMA EnvironmentStep ==
  ASSUME Inv, TypeOK', losePublisher \/ loseConsumer \/ shutdown \/ ProcessEnds \/ UNCHANGED vars
  PROVE  Inv'
<1>1. UNCHANGED <<status, attempts, outbox>>
  BY DEF losePublisher, loseConsumer, shutdown, ProcessEnds, vars, dbVars
<1>2. \/ UNCHANGED <<pc, job, cur>> /\ (proc' = "down" => proc = "down")
      \/ \A w \in Workers : pc'[w] = "idle"
  BY DEF losePublisher, loseConsumer, shutdown, ProcessEnds, vars, workerVars, procVars
<1>3. NoNewWork
  BY <1>1, <1>2 DEF NoNewWork, Working, Inv, AttemptInv
<1>4. DownInv'
  BY <1>2 DEF DownInv, Inv
<1>5. QED
  BY <1>1, <1>3, <1>4, QuietStep, OutboxKept DEF Inv

(* The reset of main finds no worker at work.                              *)
LEMMA StartStep ==
  ASSUME Inv, TypeOK', start PROVE Inv'
<1> USE DEF Inv
<1>1. /\ UNCHANGED <<attempts, outbox, pc, job, cur>>
      /\ proc = "down" /\ proc' = "up"
      /\ status' = [j \in Jobs |-> IF status[j] = "running_go" THEN "pending" ELSE status[j]]
  BY DEF start, Reset, workerVars
<1>2. \A w \in Workers : pc'[w] = "idle"
  BY <1>1 DEF DownInv
<1>3. \A j \in Jobs : HandedOff(j)' <=> HandedOff(j)
  BY <1>1 DEF HandedOff
<1>4. WorkInv' /\ ClaimExclusive' /\ DownInv'
  BY <1>2 DEF WorkInv, ClaimExclusive, DownInv, Working
<1>5. \A i \in 1..Len(outbox) : outbox[i].job \in Jobs
  <2>1. \A i \in 1..Len(outbox) : outbox[i] \in Rows
    BY DEF TypeOK
  <2>2. QED
    BY <2>1 DEF Rows
<1>6. RowInv' /\ HandOffOnce'
  BY <1>1, <1>5 DEF RowInv, HandOffOnce
<1>7. HandOffRecorded'
  BY <1>1, <1>3 DEF HandOffRecorded
<1>8. AttemptInv'
  BY <1>1, <1>2 DEF AttemptInv
<1>9. QED
  BY <1>4, <1>6, <1>7, <1>8

(* Every step keeps the inductive invariant.                               *)
LEMMA InvStep == Inv /\ [Next]_vars => Inv'
<1> SUFFICES ASSUME Inv, [Next]_vars PROVE Inv'
  OBVIOUS
<1>1. TypeOK'
  BY TypeStep DEF Inv
<1>2. ASSUME NEW j \in Jobs, createJobAndEnqueue(j) PROVE Inv'
  BY <1>1, <1>2, CreateStep
<1>3. CASE publisherStep
  BY <1>1, <1>3, PublisherStep
<1>4. ASSUME NEW w \in Workers, workerStep(w) PROVE Inv'
  <2>1. CASE QuietWorkerStep(w)
    BY <1>1, <2>1, QuietWorker
  <2>2. CASE claim(w)
    BY <1>1, <2>2, ClaimStep
  <2>3. CASE commitHandOff(w)
    BY <1>1, <2>3, HandOffStep
  <2>4. CASE commitFailed(w) \/ markFailed(w)
    BY <1>1, <2>4, FailStep
  <2>5. QED
    BY <1>4, <2>1, <2>2, <2>3, <2>4 DEF workerStep, QuietWorkerStep
<1>5. CASE losePublisher \/ loseConsumer \/ shutdown \/ crash \/ exit \/ UNCHANGED vars
  BY <1>1, <1>5, EnvironmentStep DEF crash, exit
<1>6. CASE start
  BY <1>1, <1>6, StartStep
<1>7. QED
  BY <1>2, <1>3, <1>4, <1>5, <1>6 DEF Next

(* The inductive invariant holds in every reachable state.                 *)
THEOREM InductiveInvariant == Spec => []Inv
<1>1. QED
  BY InvInit, InvStep, PTL DEF Spec

(* ClaimExclusiveAlways: no two workers ever work on one job, whatever     *)
(* messages are duplicated, connections lost and processes restarted.      *)
THEOREM ClaimExclusiveAlways == Spec => []ClaimExclusive
<1>1. Inv => ClaimExclusive
  BY DEF Inv
<1>2. QED
  BY <1>1, InductiveInvariant, PTL

(* HandOffOnceAlways: a job has at most one outbox row per stage.          *)
THEOREM HandOffOnceAlways == Spec => []HandOffOnce
<1>1. Inv => HandOffOnce
  BY DEF Inv
<1>2. QED
  BY <1>1, InductiveInvariant, PTL

(* HandOffRecordedAlways: jobs and outbox rows agree in every state.       *)
THEOREM HandOffRecordedAlways == Spec => []HandOffRecorded
<1>1. Inv => HandOffRecorded
  BY DEF Inv
<1>2. QED
  BY <1>1, InductiveInvariant, PTL

-----------------------------------------------------------------------------
(* No job is lost.  What makes NoLostJob inductive: without a lossy fault  *)
(* every message in hand goes back to the broker when its worker dies, and *)
(* the row that is about to be marked sent is not needed any more, as its  *)
(* message is in the queue or in a worker's hand.                          *)

Queued(j) ==
  \E i \in Unsent : i # marking /\ outbox[i].job = j /\ outbox[i].dest = "jobs.go"

WorkedOn(j) == \E w \in Workers : Working(w) /\ job[w] = j /\ live[w]

Kept ==
  /\ \A w \in Workers : pc[w] # "idle" => live[w]
  /\ \A j \in Jobs :
       /\ status[j] = "pending" /\ attempts[j] < MaxAttempts => Queued(j) \/ Claimable(j)
       /\ status[j] = "running_go" => WorkedOn(j) \/ (proc # "up" /\ Claimable(j))

LossInv == ~faults.lossy => Kept

(* A lossy fault is remembered.                                            *)
LEMMA LossyFault ==
  ASSUME NEW kind \in Lossy, Fault(kind) PROVE faults'.lossy
  BY DEF Fault

LEMMA LossyStays ==
  ASSUME [Next]_vars, faults.lossy PROVE faults'.lossy
<1>1. ASSUME NEW kind, Fault(kind) PROVE faults'.lossy
  BY <1>1 DEF Fault
<1>2. ASSUME UNCHANGED faults PROVE faults'.lossy
  BY <1>2
<1>3. ASSUME Next PROVE UNCHANGED faults \/ \E kind \in AllFaults : Fault(kind)
  <2>1. ASSUME NEW w \in Workers, workerStep(w)
        PROVE  UNCHANGED faults \/ \E kind \in AllFaults : Fault(kind)
    BY <2>1 DEF workerStep, receive, claim, skipClaimed, claimFails, runTender, commitHandOff,
                commitFailed, txFails, giveUp, nackRequeue, markFailed, ack, DbWorks, DbFails,
                AllFaults
  <2>2. CASE \E j \in Jobs : createJobAndEnqueue(j)
    BY <2>2 DEF createJobAndEnqueue
  <2>3. CASE publisherStep
    BY <2>3 DEF publisherStep, selectBatch, publishRow, markSent, DbWorks, DbFails, AllFaults
  <2>4. CASE losePublisher \/ loseConsumer \/ shutdown \/ crash \/ exit \/ start
    BY <2>4 DEF losePublisher, loseConsumer, shutdown, crash, exit, start, ProcessEnds, AllFaults
  <2> QED
    BY <1>3, <2>1, <2>2, <2>3, <2>4 DEF Next
<1>4. UNCHANGED vars => UNCHANGED faults
  BY DEF vars
<1> QED
  BY <1>1, <1>2, <1>3, <1>4

(* A worker's step leaves the other workers and the publisher alone, and   *)
(* takes no message from the queue but the one it receives.                *)
LEMMA WorkerFrame ==
  ASSUME TypeOK, NEW w \in Workers, workerStep(w)
  PROVE  /\ \A v \in Workers \ {w} :
              pc'[v] = pc[v] /\ job'[v] = job[v] /\ live'[v] = live[v]
         /\ UNCHANGED <<marking, proc>>
         /\ \A j \in Jobs : receive(w, j) \/ goQueue'[j] >= goQueue[j]
         /\ \A j \in Jobs : status'[j] = status[j] \/ claim(w) \/ status'[j] \in {"pending_python", "failed"}
         /\ \A j \in Jobs : attempts'[j] >= attempts[j]
<1>1. /\ \A v \in Workers \ {w} : pc'[v] = pc[v] /\ job'[v] = job[v] /\ live'[v] = live[v]
      /\ UNCHANGED <<marking, proc>>
  BY DEF workerStep, receive, claim, skipClaimed, claimFails, runTender, commitHandOff,
         commitFailed, txFails, giveUp, nackRequeue, markFailed, ack, Free, TypeOK, pubVars, procVars
<1>2. ASSUME NEW j \in Jobs PROVE receive(w, j) \/ goQueue'[j] >= goQueue[j]
  <2>1. ASSUME NEW k \in Jobs, receive(w, k) PROVE receive(w, j) \/ goQueue'[j] >= goQueue[j]
    <3>1. CASE k # j
      BY <2>1, <3>1 DEF receive, TypeOK
    <3>2. CASE k = j
      BY <2>1, <3>2
    <3>3. QED
      BY <3>1, <3>2
  <2>2. CASE nackRequeue(w)
    BY <2>2 DEF nackRequeue, Return, TypeOK
  <2>3. CASE goQueue' = goQueue
    BY <2>3 DEF TypeOK
  <2>4. QED
    BY <2>1, <2>2, <2>3 DEF workerStep, claim, skipClaimed, claimFails, runTender, commitHandOff,
       commitFailed, txFails, giveUp, markFailed, ack
<1>3. ASSUME NEW j \in Jobs
      PROVE  status'[j] = status[j] \/ claim(w) \/ status'[j] \in {"pending_python", "failed"}
  BY DEF workerStep, receive, skipClaimed, claimFails, runTender, commitHandOff, HandOver,
         commitFailed, txFails, giveUp, nackRequeue, markFailed, ack, TypeOK, dbVars
<1>4. ASSUME NEW j \in Jobs PROVE attempts'[j] >= attempts[j]
  <2>1. CASE claim(w)
    BY <2>1 DEF claim, TakeJob, TypeOK
  <2>2. CASE ~claim(w)
    BY <2>2 DEF workerStep, receive, skipClaimed, claimFails, runTender, commitHandOff, HandOver,
       commitFailed, txFails, giveUp, nackRequeue, markFailed, ack, TypeOK, dbVars
  <2>3. QED
    BY <2>1, <2>2
<1>5. QED
  BY <1>1, <1>2, <1>3, <1>4

(* A claimable job stays so until a worker with its message claims it,     *)
(* finds it claimed, or gives it up.                                       *)
LEMMA ClaimableKept ==
  ASSUME TypeOK, NEW w \in Workers, workerStep(w), NEW j \in Jobs, Claimable(j),
         \A v \in Workers : pc[v] # "idle" => live[v],
         job[w] = j => ~claim(w) /\ ~skipClaimed(w) /\ ~giveUp(w)
  PROVE  Claimable(j)'
<1>1. CASE \E k \in Jobs : receive(w, k)
  <2>1. PICK k \in Jobs : receive(w, k)
    BY <1>1
  <2>2. /\ pc'[w] = "claim" /\ job'[w] = k /\ live'[w] /\ pc[w] = "idle"
        /\ goQueue' = [goQueue EXCEPT ![k] = @ - 1]
    BY <2>1 DEF receive, TypeOK
  <2>3. CASE k = j
    BY <2>2, <2>3 DEF Claimable
  <2>4. CASE k # j
    <3>1. goQueue'[j] = goQueue[j]
      BY <2>2, <2>4 DEF TypeOK
    <3>2. \A v \in Workers : pc[v] \in {"claim", "decide"} =>
            pc'[v] = pc[v] /\ job'[v] = job[v] /\ live'[v] = live[v]
      BY <2>2, WorkerFrame
    <3>3. QED
      BY <3>1, <3>2 DEF Claimable
  <2>5. QED
    BY <2>3, <2>4
<1>2. CASE \A k \in Jobs : ~receive(w, k)
  <2>1. goQueue'[j] >= goQueue[j] /\ goQueue'[j] \in Int /\ goQueue[j] \in Int
    <3>1. goQueue'[j] \in Int
      <4>1. CASE nackRequeue(w)
        BY <4>1 DEF nackRequeue, Return, TypeOK
      <4>2. CASE goQueue' = goQueue
        BY <4>2 DEF TypeOK
      <4>3. QED
        BY <1>2, <4>1, <4>2 DEF workerStep, claim, skipClaimed, claimFails, runTender,
           commitHandOff, commitFailed, txFails, giveUp, markFailed, ack
    <3>2. QED
      BY <1>2, <3>1, WorkerFrame DEF TypeOK
  <2>2. CASE goQueue[j] > 0
    <3>1. goQueue'[j] > 0
      BY <2>1, <2>2
    <3>2. QED
      BY <3>1 DEF Claimable
  <2>3. CASE ~(goQueue[j] > 0)
    <3>1. PICK v \in Workers : live[v] /\ job[v] = j /\ pc[v] \in {"claim", "decide"}
      BY <2>3 DEF Claimable
    <3>2. CASE v # w
      BY <3>1, <3>2, WorkerFrame DEF Claimable
    <3>3. CASE v = w
      <4>1. claimFails(w) \/ nackRequeue(w)
        BY <1>2, <3>1, <3>3 DEF workerStep, runTender, commitHandOff, commitFailed, txFails,
           markFailed, ack
      <4>2. CASE claimFails(w)
        <5>1. pc'[w] = "decide" /\ job'[w] = j /\ live'[w] = live[w]
          BY <3>1, <3>3, <4>2 DEF claimFails, TypeOK
        <5>2. QED
          BY <3>1, <3>3, <5>1 DEF Claimable
      <4>3. CASE nackRequeue(w)
        <5>1. goQueue' = [goQueue EXCEPT ![j] = goQueue[j] + 1]
          BY <3>1, <3>3, <4>3 DEF nackRequeue, Return
        <5>2. goQueue'[j] > 0
          BY <5>1 DEF TypeOK
        <5>3. QED
          BY <5>2 DEF Claimable
      <4>4. QED
        BY <4>1, <4>2, <4>3
    <3>4. QED
      BY <3>2, <3>3
  <2>4. QED
    BY <2>2, <2>3
<1>3. QED
  BY <1>1, <1>2

(* A worker's step loses no job.                                           *)
LEMMA WorkerLosesNone ==
  ASSUME Inv, Kept, NEW w \in Workers, workerStep(w), ~faults'.lossy
  PROVE  Kept'
<1>0. TypeOK /\ TypeOK'
  <2>1. [Next]_vars
    BY DEF Next
  <2>2. QED
    BY <2>1, TypeStep DEF Inv
<1>1. ~Fault("claim_lost") /\ ~Fault("tx_error")
  BY LossyFault DEF Lossy, AllFaults
<1>2. \A v \in Workers : pc'[v] # "idle" => live'[v]
  <2>1. \A v \in Workers : pc[v] # "idle" => live[v]
    BY DEF Kept
  <2>2. pc'[w] # "idle" => live'[w]
    <3>1. CASE \E k \in Jobs : receive(w, k)
      BY <1>0, <3>1 DEF receive, TypeOK
    <3>2. CASE nackRequeue(w) \/ ack(w)
      BY <1>0, <3>2 DEF nackRequeue, ack, Free, TypeOK
    <3>3. CASE ~((\E k \in Jobs : receive(w, k)) \/ nackRequeue(w) \/ ack(w))
      <4>1. live' = live /\ pc[w] # "idle"
        BY <3>3 DEF workerStep, claim, skipClaimed, claimFails, runTender, commitHandOff,
           commitFailed, txFails, giveUp, markFailed
      <4>2. QED
        BY <2>1, <4>1
    <3>4. QED
      BY <3>1, <3>2, <3>3
  <2>3. ASSUME NEW v \in Workers, v # w, pc'[v] # "idle" PROVE live'[v]
    BY <1>0, <2>1, <2>3, WorkerFrame
  <2>4. QED
    BY <2>2, <2>3
<1>3. ASSUME NEW j \in Jobs, status'[j] = "pending", attempts'[j] < MaxAttempts
      PROVE  Queued(j)' \/ Claimable(j)'
  <2>1. status[j] = "pending" /\ (claim(w) => job[w] # j)
    <3>1. CASE claim(w)
      BY <1>0, <1>3, <3>1 DEF claim, TakeJob, TypeOK
    <3>2. CASE ~claim(w)
      BY <1>0, <1>3, <3>2, WorkerFrame
    <3>3. QED
      BY <3>1, <3>2
  <2>2. attempts[j] < MaxAttempts
    <3>1. attempts'[j] >= attempts[j] /\ attempts[j] \in Nat /\ attempts'[j] \in Nat
      BY <1>0, WorkerFrame DEF TypeOK
    <3>2. MaxAttempts \in Nat
      BY PipelineAssumption
    <3>3. QED
      BY <1>3, <3>1, <3>2
  <2>3. Queued(j) \/ Claimable(j)
    BY <2>1, <2>2 DEF Kept
  <2>4. CASE Queued(j)
    <3>1. PICK i \in Unsent : i # marking /\ outbox[i].job = j /\ outbox[i].dest = "jobs.go"
      BY <2>4 DEF Queued
    <3>2. i \in 1..Len(outbox) /\ ~outbox[i].sent
      BY <3>1 DEF Unsent
    <3>3. CASE ~commitHandOff(w)
      <4>1. outbox' = outbox
        BY <3>3 DEF workerStep, receive, claim, skipClaimed, claimFails, runTender, commitFailed,
           txFails, giveUp, nackRequeue, markFailed, ack, dbVars
      <4>2. marking' = marking
        BY <1>0, WorkerFrame
      <4>3. QED
        BY <3>1, <3>2, <4>1, <4>2 DEF Queued, Unsent
    <3>4. CASE commitHandOff(w)
      <4>1. job[w] \in Jobs /\ outbox' = Append(outbox, Row(job[w], "jobs.python"))
        BY <1>0, <3>4 DEF commitHandOff, HandOver, TypeOK
      <4>2. outbox'[i] = outbox[i] /\ i \in 1..Len(outbox')
        BY <1>0, <3>2, <4>1, NewRow DEF Dests
      <4>3. marking' = marking
        BY <1>0, WorkerFrame
      <4>4. QED
        BY <3>1, <3>2, <4>2, <4>3 DEF Queued, Unsent
    <3>5. QED
      BY <3>3, <3>4
  <2>5. CASE Claimable(j)
    <3>1. ~(job[w] = j /\ skipClaimed(w))
      BY <2>1 DEF skipClaimed
    <3>2. ~(job[w] = j /\ giveUp(w))
      <4>1. attempts[j] \in Nat /\ MaxAttempts \in Nat
        BY <1>0, PipelineAssumption DEF TypeOK
      <4>2. QED
        BY <2>2, <4>1 DEF giveUp, Exhausted
    <3>3. \A v \in Workers : pc[v] # "idle" => live[v]
      BY DEF Kept
    <3>4. Claimable(j)'
      BY <1>0, <2>1, <2>5, <3>1, <3>2, <3>3, ClaimableKept
    <3>5. QED
      BY <3>4
  <2>6. QED
    BY <2>3, <2>4, <2>5
<1>4. ASSUME NEW j \in Jobs, status'[j] = "running_go"
      PROVE  WorkedOn(j)' \/ (proc' # "up" /\ Claimable(j)')
  <2>0. \A v \in Workers : pc[v] # "idle" => live[v]
    BY DEF Kept
  <2>1. CASE claim(w) /\ job[w] = j
    <3>1. pc'[w] = "run" /\ job'[w] = j /\ live'[w]
      BY <1>0, <1>1, <2>0, <2>1 DEF claim, TypeOK
    <3>2. QED
      BY <3>1 DEF WorkedOn, Working
  <2>2. CASE ~(claim(w) /\ job[w] = j)
    <3>1. status[j] = "running_go"
      <4>1. CASE claim(w)
        BY <1>0, <1>4, <2>2, <4>1 DEF claim, TakeJob, TypeOK
      <4>2. CASE ~claim(w)
        BY <1>0, <1>4, <4>2, WorkerFrame
      <4>3. QED
        BY <4>1, <4>2
    <3>2. CASE WorkedOn(j)
      <4>1. PICK v \in Workers : Working(v) /\ job[v] = j /\ live[v]
        BY <3>2 DEF WorkedOn
      <4>2. CASE v # w
        BY <1>0, <4>1, <4>2, WorkerFrame DEF WorkedOn, Working
      <4>3. CASE v = w
        <5>1. runTender(w) \/ txFails(w) \/ commitHandOff(w) \/ commitFailed(w)
          BY <4>1, <4>3 DEF Working, workerStep, receive, claim, skipClaimed, claimFails, giveUp,
             nackRequeue, markFailed, ack
        <5>2. ~commitHandOff(w) /\ ~commitFailed(w)
          BY <1>0, <1>4, <4>1, <4>3 DEF commitHandOff, HandOver, commitFailed, TypeOK
        <5>3. CASE runTender(w)
          <6>1. Working(w)' /\ job'[w] = j /\ live'[w] = live[w]
            BY <1>0, <4>1, <4>3, <5>3 DEF runTender, Working, TypeOK
          <6>2. QED
            BY <4>1, <4>3, <6>1 DEF WorkedOn
        <5>4. CASE txFails(w)
          <6>1. proc' # "up"
            BY <1>1, <5>4 DEF txFails, DbFails, procVars
          <6>2. pc'[w] = "decide" /\ job'[w] = j /\ live'[w] = live[w]
            BY <1>0, <4>1, <4>3, <5>4 DEF txFails, TypeOK
          <6>3. Claimable(j)'
            BY <4>1, <4>3, <6>2 DEF Claimable
          <6>4. QED
            BY <6>1, <6>3
        <5>5. QED
          BY <5>1, <5>2, <5>3, <5>4
      <4>4. QED
        BY <4>2, <4>3
    <3>3. CASE ~WorkedOn(j)
      <4>1. proc # "up" /\ Claimable(j)
        BY <3>1, <3>3 DEF Kept
      <4>2. ~skipClaimed(w) /\ ~giveUp(w)
        BY <4>1 DEF skipClaimed, giveUp, DbWorks
      <4>3. Claimable(j)'
        BY <1>0, <2>0, <2>2, <4>1, <4>2, ClaimableKept
      <4>4. proc' # "up"
        BY <1>0, <4>1, WorkerFrame
      <4>5. QED
        BY <4>3, <4>4
    <3>4. QED
      BY <3>2, <3>3
  <2>3. QED
    BY <2>1, <2>2
<1>5. QED
  BY <1>2, <1>3, <1>4 DEF Kept

(* Nor does the HTTP handler.                                              *)
LEMMA CreateLosesNone ==
  ASSUME Inv, Kept, NEW h \in Jobs, createJobAndEnqueue(h)
  PROVE  Kept'
<1> DEFINE n == Len(outbox) + 1
<1>0. TypeOK
  BY DEF Inv
<1>1. /\ UNCHANGED <<attempts, marking, goQueue, pc, job, live, proc>>
      /\ status' = [status EXCEPT ![h] = "pending"]
      /\ outbox' = Append(outbox, Row(h, "jobs.go"))
  BY DEF createJobAndEnqueue, pubVars, workerVars, procVars
<1>2. /\ Row(h, "jobs.go") \in Rows /\ "jobs.go" \in Dests
      /\ Row(h, "jobs.go").sent = FALSE
  BY DEF Row, Rows, Dests
<1>3. /\ outbox'[n] = Row(h, "jobs.go") /\ n \in 1..Len(outbox') /\ n # marking
      /\ \A i \in 1..Len(outbox) : outbox'[i] = outbox[i] /\ i \in 1..Len(outbox')
  <2>1. Len(outbox) \in Nat /\ marking \in 0..Len(outbox)
    BY <1>0 DEF TypeOK
  <2>2. n # marking
    BY <2>1
  <2>3. QED
    BY <1>0, <1>1, <1>2, <2>2, NewRow, AppendRow DEF TypeOK
<1>4. Queued(h)'
  <2>1. outbox'[n].job = h /\ outbox'[n].dest = "jobs.go" /\ ~outbox'[n].sent
    BY <1>2, <1>3 DEF Row
  <2>2. n \in Unsent'
    BY <1>3, <2>1 DEF Unsent
  <2>3. n # marking'
    BY <1>1, <1>3
  <2>4. QED
    BY <2>1, <2>2, <2>3, Zenon DEF Queued
<1>5. \A j \in Jobs : Queued(j) => Queued(j)'
  BY <1>1, <1>3 DEF Queued, Unsent
<1>6. \A j \in Jobs : /\ Claimable(j) => Claimable(j)'
                      /\ WorkedOn(j) => WorkedOn(j)'
  BY <1>1 DEF Claimable, WorkedOn, Working
<1>7. \A j \in Jobs : j # h => status'[j] = status[j]
  BY <1>0, <1>1 DEF TypeOK
<1>8. status'[h] = "pending"
  BY <1>0, <1>1 DEF TypeOK
<1>9. QED
  BY <1>1, <1>4, <1>5, <1>6, <1>7, <1>8 DEF Kept

(* Nor the publisher: a row it publishes is a message before it is marked. *)
LEMMA PublisherLosesNone ==
  ASSUME Inv, Kept, publisherStep, ~faults'.lossy
  PROVE  Kept'
<1>0. TypeOK /\ TypeOK'
  <2>1. [Next]_vars
    BY DEF Next
  <2>2. QED
    BY <2>1, TypeStep DEF Inv
<1>1. ~Fault("publish_lost")
  BY LossyFault DEF Lossy, AllFaults
<1>2. UNCHANGED <<status, attempts, pc, job, live, proc>>
  BY DEF publisherStep, selectBatch, publishRow, markSent, dbVars, workerVars, procVars
<1>3. ASSUME \A j \in Jobs : goQueue'[j] >= goQueue[j],
             \A j \in Jobs : Queued(j) => Queued(j)' \/ goQueue'[j] > 0
      PROVE  Kept'
  <2>1. \A j \in Jobs : goQueue[j] \in Nat /\ goQueue'[j] \in Nat
    BY <1>0 DEF TypeOK
  <2>2. \A j \in Jobs : goQueue[j] > 0 => goQueue'[j] > 0
    BY <1>3, <2>1
  <2>3. \A j \in Jobs : /\ Claimable(j) => Claimable(j)'
                        /\ WorkedOn(j) => WorkedOn(j)'
    BY <1>2, <2>2 DEF Claimable, WorkedOn, Working
  <2>4. \A j \in Jobs : Queued(j) => Queued(j)' \/ Claimable(j)'
    BY <1>3 DEF Claimable
  <2>5. QED
    BY <1>2, <2>3, <2>4 DEF Kept
<1>4. CASE selectBatch
  <2>1. UNCHANGED <<outbox, marking, goQueue>>
    BY <1>4 DEF selectBatch, dbVars
  <2>2. \A j \in Jobs : goQueue'[j] >= goQueue[j]
    BY <1>0, <2>1 DEF TypeOK
  <2>3. \A j \in Jobs : Queued(j) => Queued(j)'
    BY <2>1 DEF Queued, Unsent
  <2>4. QED
    BY <1>3, <2>2, <2>3
<1>5. CASE publishRow
  <2>1. PICK r : r = Lowest(batch)
    OBVIOUS
  <2>2. r \in 1..Len(outbox) /\ outbox[r] \in Rows
    <3>1. batch \in SUBSET Nat /\ batch # {} /\ batch \subseteq 1..Len(outbox)
      <4>1. Len(outbox) \in Nat
        BY <1>0 DEF TypeOK
      <4>2. QED
        BY <1>0, <1>5, <4>1 DEF TypeOK, publishRow
    <3>2. r \in batch
      BY <2>1, <3>1, LowestIn
    <3>3. QED
      BY <1>0, <3>1, <3>2 DEF TypeOK
  <2>3. UNCHANGED outbox
    BY <1>5 DEF publishRow, dbVars
  <2>4. CASE marking' = r /\ Send(outbox[r])
    <3>1. PICK h \in Jobs : h = outbox[r].job
      BY <2>2 DEF Rows
    <3>6. goQueue \in [Jobs -> Nat]
      BY <1>0 DEF TypeOK
    <3>7. goQueue' = IF outbox[r].dest = "jobs.go" THEN [goQueue EXCEPT ![h] = @ + 1] ELSE goQueue
      BY <2>4, <3>1 DEF Send
    <3>2. \A j \in Jobs : goQueue'[j] >= goQueue[j]
      BY <3>6, <3>7
    <3>3. outbox[r].dest = "jobs.go" => goQueue'[h] > 0
      BY <3>6, <3>7
    <3>4. \A j \in Jobs : Queued(j) => Queued(j)' \/ goQueue'[j] > 0
      <4>1. SUFFICES ASSUME NEW j \in Jobs, Queued(j) PROVE Queued(j)' \/ goQueue'[j] > 0
        OBVIOUS
      <4>2. PICK i \in Unsent : outbox[i].job = j /\ outbox[i].dest = "jobs.go"
        BY <4>1 DEF Queued
      <4>3. CASE i = r
        BY <3>1, <3>3, <4>2, <4>3
      <4>4. CASE i # r
        BY <2>3, <2>4, <4>2, <4>4 DEF Queued, Unsent
      <4>5. QED
        BY <4>3, <4>4
    <3>5. QED
      BY <1>3, <3>2, <3>4
  <2>5. CASE UNCHANGED <<marking, goQueue>>
    <3>1. \A j \in Jobs : goQueue'[j] >= goQueue[j]
      BY <1>0, <2>5 DEF TypeOK
    <3>2. \A j \in Jobs : Queued(j) => Queued(j)'
      BY <2>3, <2>5 DEF Queued, Unsent
    <3>3. QED
      BY <1>3, <3>1, <3>2
  <2>6. QED
    BY <1>1, <1>5, <2>1, <2>4, <2>5 DEF publishRow
<1>6. CASE markSent
  <2>1. /\ UNCHANGED goQueue /\ marking' = 0 /\ marking \in 1..Len(outbox)
        /\ \/ outbox' = [outbox EXCEPT ![marking].sent = TRUE]
           \/ outbox' = outbox
    <3>1. marking \in 1..Len(outbox)
      <4>1. Len(outbox) \in Nat /\ marking \in 0..Len(outbox) /\ marking # 0
        BY <1>0, <1>6 DEF TypeOK, markSent
      <4>2. QED
        BY <4>1
    <3>2. QED
      BY <1>6, <3>1 DEF markSent
  <2>2. Len(outbox') = Len(outbox) /\ \A i \in 1..Len(outbox) : i # marking => outbox'[i] = outbox[i]
    <3>1. outbox \in Seq(Rows)
      BY <1>0 DEF TypeOK
    <3>2. QED
      BY <2>1, <3>1
  <2>3. \A j \in Jobs : goQueue'[j] >= goQueue[j]
    BY <1>0, <2>1 DEF TypeOK
  <2>4. ASSUME NEW j \in Jobs, Queued(j) PROVE Queued(j)'
    <3>1. PICK i \in Unsent : i # marking /\ outbox[i].job = j /\ outbox[i].dest = "jobs.go"
      BY <2>4 DEF Queued
    <3>2. i \in 1..Len(outbox) /\ ~outbox[i].sent /\ i # 0
      BY <3>1 DEF Unsent
    <3>3. outbox'[i] = outbox[i] /\ i \in 1..Len(outbox')
      BY <2>2, <3>1, <3>2
    <3>4. i \in Unsent' /\ i # marking'
      BY <2>1, <3>2, <3>3 DEF Unsent
    <3>5. QED
      BY <3>1, <3>3, <3>4, Zenon DEF Queued
  <2>5. QED
    BY <1>3, <2>3, <2>4
<1>7. QED
  BY <1>4, <1>5, <1>6 DEF publisherStep

(* The broker takes back what the process had in hand when it ends.        *)
LEMMA TakenBack ==
  ASSUME TypeOK, NEW j \in Jobs,
         goQueue[j] > 0 \/ \E w \in Workers : live[w] /\ job[w] = j
  PROVE  Requeued[j] > 0
<1> DEFINE held == {w \in Workers : live[w] /\ job[w] = j}
<1>1. IsFiniteSet(held)
  <2>1. held \subseteq Workers
    OBVIOUS
  <2>2. QED
    BY <2>1, PipelineAssumption, FS_Subset
<1>2. Cardinality(held) \in Nat /\ (held # {} => Cardinality(held) # 0)
  BY <1>1, FS_CardinalityType, FS_EmptySet
<1>3. Requeued[j] = goQueue[j] + Cardinality(held)
  BY DEF Requeued
<1>4. goQueue[j] \in Nat /\ (goQueue[j] > 0 \/ held # {})
  BY DEF TypeOK
<1> HIDE DEF held
<1>5. QED
  BY <1>2, <1>3, <1>4

(* So nothing is lost when the process ends, or when it is told to stop.   *)
LEMMA EnvironmentLosesNone ==
  ASSUME Inv, Kept, ~faults'.lossy,
         losePublisher \/ loseConsumer \/ shutdown \/ ProcessEnds \/ UNCHANGED vars
  PROVE  Kept'
<1>0. TypeOK
  BY DEF Inv
<1>1. ~losePublisher /\ ~loseConsumer
  BY LossyFault DEF losePublisher, loseConsumer, Lossy, AllFaults
<1>2. CASE shutdown \/ UNCHANGED vars
  <2>1. /\ UNCHANGED <<status, attempts, outbox, marking, goQueue, pc, job, live>>
        /\ proc' # "up" \/ proc' = proc
    BY <1>2 DEF shutdown, vars, dbVars, pubVars, workerVars, procVars
  <2>2. QED
    BY <2>1 DEF Kept, Queued, Unsent, Claimable, WorkedOn, Working
<1>3. CASE ProcessEnds
  <2>1. /\ UNCHANGED <<status, attempts, outbox>> /\ marking' = 0 /\ goQueue' = Requeued
        /\ proc' = "down" /\ \A w \in Workers : pc'[w] = "idle"
    BY <1>3 DEF ProcessEnds, dbVars
  <2>2. \A j \in Jobs : Claimable(j) \/ WorkedOn(j) => Claimable(j)'
    <3>1. SUFFICES ASSUME NEW j \in Jobs, Claimable(j) \/ WorkedOn(j) PROVE goQueue'[j] > 0
      BY DEF Claimable
    <3>2. goQueue[j] > 0 \/ \E w \in Workers : live[w] /\ job[w] = j
      BY <3>1 DEF Claimable, WorkedOn
    <3>3. QED
      BY <1>0, <2>1, <3>2, TakenBack
  <2>3. \A j \in Jobs : Queued(j) => Queued(j)'
    <3>1. \A i \in 1..Len(outbox) : i # 0
      OBVIOUS
    <3>2. QED
      BY <2>1, <3>1 DEF Queued, Unsent
  <2>4. QED
    BY <2>1, <2>2, <2>3 DEF Kept
<1>4. QED
  BY <1>1, <1>2, <1>3

(* What the reset at start-up makes pending has a message.                 *)
LEMMA StartLosesNone ==
  ASSUME Inv, Kept, start
  PROVE  Kept'
<1>1. /\ UNCHANGED <<attempts, outbox, marking, goQueue, pc, job, live>> /\ proc = "down"
      /\ status' = [j \in Jobs |-> IF status[j] = "running_go" THEN "pending" ELSE status[j]]
  BY DEF start, Reset, pubVars, workerVars
<1>2. \A w \in Workers : pc[w] = "idle"
  BY <1>1 DEF Inv, DownInv
<1>3. \A j \in Jobs : ~WorkedOn(j)
  BY <1>2 DEF WorkedOn, Working
<1>4. \A j \in Jobs : status[j] = "running_go" => Claimable(j)
  BY <1>3 DEF Kept
<1>5. \A j \in Jobs : /\ Queued(j) => Queued(j)'
                      /\ Claimable(j) => Claimable(j)'
  BY <1>1 DEF Queued, Unsent, Claimable
<1>6. \A j \in Jobs : /\ status'[j] = "pending" => status[j] \in {"pending", "running_go"}
                      /\ status'[j] # "running_go"
  BY <1>1
<1>7. QED
  BY <1>1, <1>2, <1>4, <1>5, <1>6 DEF Kept

(* The three together: LossInv is inductive, given Inv.                    *)
LEMMA LossStep == Inv /\ LossInv /\ [Next]_vars => LossInv'
<1> SUFFICES ASSUME Inv, LossInv, [Next]_vars, ~faults'.lossy PROVE Kept'
  BY DEF LossInv
<1>1. Kept
  BY LossyStays DEF LossInv
<1>2. ASSUME NEW j \in Jobs, createJobAndEnqueue(j) PROVE Kept'
  BY <1>1, <1>2, CreateLosesNone
<1>3. CASE publisherStep
  BY <1>1, <1>3, PublisherLosesNone
<1>4. ASSUME NEW w \in Workers, workerStep(w) PROVE Kept'
  BY <1>1, <1>4, WorkerLosesNone
<1>5. CASE losePublisher \/ loseConsumer \/ shutdown \/ crash \/ exit \/ UNCHANGED vars
  BY <1>1, <1>5, EnvironmentLosesNone DEF crash, exit
<1>6. CASE start
  BY <1>1, <1>6, StartLosesNone
<1>7. QED
  BY <1>2, <1>3, <1>4, <1>5, <1>6 DEF Next

LEMMA LossInit == Init => LossInv
<1> SUFFICES ASSUME Init PROVE Kept
  BY DEF LossInv
<1>1. /\ \A w \in Workers : pc[w] = "idle"
      /\ \A j \in Jobs : status[j] = "none"
  BY DEF Init
<1>2. QED
  BY <1>1 DEF Kept

(* NoLostJobAlways: unless a lossy fault struck, a pending job with attempts *)
(* left has an unsent row, a message, or a worker that will claim it or    *)
(* return its message, and a running one has a worker with its message or  *)
(* waits, with a message, for the restart: for any number of jobs, workers *)
(* and attempts, however often the process crashes or is stopped.          *)
THEOREM NoLostJobAlways == Spec => []NoLostJob
<1>1. Spec => []LossInv
  BY LossInit, LossStep, InductiveInvariant, PTL DEF Spec
<1>2. LossInv => NoLostJob
  <2>1. SUFFICES ASSUME Kept PROVE NoLostJob
    BY DEF LossInv, NoLostJob
  <2>2. ASSUME NEW j \in Jobs
        PROVE  /\ status[j] = "pending" /\ attempts[j] < MaxAttempts =>
                    \/ \E i \in Unsent : outbox[i].job = j /\ outbox[i].dest = "jobs.go"
                    \/ Claimable(j)
               /\ status[j] = "running_go" =>
                    \/ \E w \in Workers : Working(w) /\ job[w] = j /\ (live[w] \/ goQueue[j] > 0)
                    \/ proc # "up" /\ Claimable(j)
    BY <2>1 DEF Kept, Queued, WorkedOn
  <2>3. QED
    BY <2>2 DEF NoLostJob
<1>3. QED
  BY <1>1, <1>2, PTL

-----------------------------------------------------------------------------
(* JobPipeline implements JobLifecycle.                                    *)

(* Equivalent hand-overs are equal functions.                              *)
LEMMA SameHandOffs ==
  ASSUME \A j \in Jobs : HandedOff(j)' <=> HandedOff(j)
  PROVE  [j \in Jobs |-> HandedOff(j)]' = [j \in Jobs |-> HandedOff(j)]
<1>1. \A j \in Jobs : HandedOff(j) \in BOOLEAN /\ HandedOff(j)' \in BOOLEAN
  BY DEF HandedOff
<1>2. \A j \in Jobs : HandedOff(j)' = HandedOff(j)
  BY <1>1
<1>3. QED
  BY <1>2, Zenon

(* A step that keeps statuses, attempts and hand-overs stutters.           *)
LEMMA LifecycleStutter ==
  ASSUME UNCHANGED <<status, attempts>>, \A j \in Jobs : HandedOff(j)' <=> HandedOff(j)
  PROVE  UNCHANGED Lifecycle!vars
<1>1. [j \in Jobs |-> HandedOff(j)]' = [j \in Jobs |-> HandedOff(j)]
  BY SameHandOffs
<1>2. QED
  BY <1>1 DEF Lifecycle!vars

(* The initial states map to initial states.                               *)
LEMMA LifecycleInit == Init => Lifecycle!Init
<1>1. SUFFICES ASSUME Init PROVE Lifecycle!Init
  OBVIOUS
<1>2. outbox = <<>> /\ 1..Len(outbox) = {}
  BY <1>1 DEF Init
<1>3. \A j \in Jobs : HandedOff(j) = FALSE
  BY <1>2 DEF HandedOff
<1>4. [j \in Jobs |-> HandedOff(j)] = [j \in Jobs |-> FALSE]
  BY <1>3
<1>5. QED
  BY <1>1, <1>4 DEF Init, Lifecycle!Init

(* Every step maps to a step of the lifecycle or a stutter.                *)
LEMMA LifecycleStep ==
  ASSUME Inv, Inv', [Next]_vars PROVE [Lifecycle!Next]_(Lifecycle!vars)
<1> USE DEF Inv
<1>1. ASSUME NEW j \in Jobs, createJobAndEnqueue(j) PROVE Lifecycle!Submit(j)
  <2>1. "jobs.go" \in Dests /\ outbox' = Append(outbox, Row(j, "jobs.go"))
    BY <1>1 DEF createJobAndEnqueue, Dests
  <2>2. \A k \in Jobs : HandedOff(k)' <=> HandedOff(k)
    BY <2>1, NewRow
  <2>3. [k \in Jobs |-> HandedOff(k)]' = [k \in Jobs |-> HandedOff(k)]
    BY <2>2, SameHandOffs
  <2>4. QED
    BY <1>1, <2>3 DEF createJobAndEnqueue, Lifecycle!Submit
<1>2. ASSUME UNCHANGED <<status, attempts>>, SameRows PROVE UNCHANGED Lifecycle!vars
  BY <1>2, SameRowsKeep, LifecycleStutter
<1>3. CASE publisherStep
  <2>1. UNCHANGED <<status, attempts>>
    BY <1>3 DEF publisherStep, selectBatch, publishRow, markSent, dbVars
  <2>2. SameRows
    <3>1. CASE markSent
      BY <3>1, MarkRow, OutboxKept DEF markSent, SameRows, TypeOK
    <3>2. CASE selectBatch \/ publishRow
      BY <3>2, OutboxKept DEF selectBatch, publishRow, dbVars
    <3>3. QED
      BY <1>3, <3>1, <3>2 DEF publisherStep
  <2>3. QED
    BY <1>2, <2>1, <2>2
<1>4. ASSUME NEW w \in Workers, QuietWorkerStep(w) PROVE UNCHANGED Lifecycle!vars
  <2>1. UNCHANGED <<status, attempts, outbox>>
    BY <1>4 DEF QuietWorkerStep, receive, skipClaimed, claimFails, runTender, txFails, giveUp,
                nackRequeue, ack, dbVars
  <2>2. QED
    BY <1>2, <2>1, OutboxKept
<1>5. ASSUME NEW w \in Workers, claim(w) PROVE \E j \in Jobs : Lifecycle!Attempt(j)
  <2>1. job[w] \in Jobs /\ UNCHANGED outbox /\ TakeJob(job[w])
    BY <1>5 DEF claim, TypeOK
  <2>2. [k \in Jobs |-> HandedOff(k)]' = [k \in Jobs |-> HandedOff(k)]
    BY <2>1 DEF HandedOff
  <2>3. Lifecycle!Attempt(job[w])
    BY <2>1, <2>2 DEF TakeJob, Lifecycle!Attempt
  <2>4. QED
    BY <2>1, <2>3
<1>6. ASSUME NEW w \in Workers, commitHandOff(w) PROVE \E j \in Jobs : Lifecycle!HandOff(j)
  <2>1. /\ job[w] \in Jobs
        /\ status[job[w]] \in {"running_go", "failed"}
        /\ ~HandedOff(job[w])
    BY <1>6 DEF commitHandOff, TypeOK, WorkInv, Working
  <2>2. /\ "jobs.python" \in Dests
        /\ outbox' = Append(outbox, Row(job[w], "jobs.python"))
        /\ status' = [status EXCEPT ![job[w]] = "pending_python"]
        /\ UNCHANGED attempts
    BY <1>6 DEF commitHandOff, HandOver, Dests
  <2>3. \A k \in Jobs : HandedOff(k)' <=> HandedOff(k) \/ k = job[w]
    BY <2>1, <2>2, NewRow
  <2>4. [k \in Jobs |-> HandedOff(k)]' = [[k \in Jobs |-> HandedOff(k)] EXCEPT ![job[w]] = TRUE]
    <3> DEFINE old == [k \in Jobs |-> HandedOff(k)]
    <3>1. \A k \in Jobs : HandedOff(k) \in BOOLEAN /\ HandedOff(k)' \in BOOLEAN
      BY DEF HandedOff
    <3>2. \A k \in Jobs : HandedOff(k)' = IF k = job[w] THEN TRUE ELSE HandedOff(k)
      BY <2>3, <3>1
    <3>3. QED
      BY <3>2, Zenon
  <2>5. ~[k \in Jobs |-> HandedOff(k)][job[w]]
    BY <2>1
  <2>6. Lifecycle!HandOff(job[w])
    BY <2>1, <2>2, <2>4, <2>5 DEF Lifecycle!HandOff
  <2>7. QED
    BY <2>1, <2>6
<1>7. ASSUME NEW w \in Workers, commitFailed(w) \/ markFailed(w)
      PROVE  (\E j \in Jobs : Lifecycle!Fail(j)) \/ UNCHANGED Lifecycle!vars
  <2>1. /\ job[w] \in Jobs
        /\ attempts[job[w]] >= MaxAttempts
        /\ UNCHANGED <<attempts, outbox>>
        /\ status' = status \/ status' = [status EXCEPT ![job[w]] = "failed"]
    BY <1>7 DEF commitFailed, markFailed, TypeOK, AttemptInv, ClaimExclusive, Working
  <2>2. status[job[w]] # "none"
    <3>1. MaxAttempts \in Nat \ {0}
      BY PipelineAssumption
    <3>2. QED
      BY <2>1, <3>1 DEF AttemptInv
  <2>3. [k \in Jobs |-> HandedOff(k)]' = [k \in Jobs |-> HandedOff(k)]
    BY <2>1 DEF HandedOff
  <2>4. CASE status' = status
    BY <1>2, <2>1, <2>4, OutboxKept
  <2>5. CASE status' = [status EXCEPT ![job[w]] = "failed"]
    <3>1. Lifecycle!Fail(job[w])
      BY <2>1, <2>2, <2>3, <2>5 DEF Lifecycle!Fail
    <3>2. QED
      BY <2>1, <3>1
  <2>6. QED
    BY <2>1, <2>4, <2>5
<1>8. CASE losePublisher \/ loseConsumer \/ shutdown \/ crash \/ exit \/ UNCHANGED vars
  <2>1. UNCHANGED <<status, attempts, outbox>>
    BY <1>8 DEF losePublisher, loseConsumer, shutdown, crash, exit, ProcessEnds, vars, dbVars
  <2>2. QED
    BY <1>2, <2>1, OutboxKept
<1>9. ASSUME start PROVE Lifecycle!Reset
  <2>1. Reset /\ UNCHANGED <<attempts, outbox>>
    BY <1>9 DEF start
  <2>2. [k \in Jobs |-> HandedOff(k)]' = [k \in Jobs |-> HandedOff(k)]
    BY <2>1 DEF HandedOff
  <2>3. QED
    BY <2>1, <2>2 DEF Reset, Lifecycle!Reset
<1>10. ASSUME NEW w \in Workers, workerStep(w)
       PROVE  Lifecycle!Next \/ UNCHANGED Lifecycle!vars
  <2>1. CASE QuietWorkerStep(w)
    BY <1>4, <2>1
  <2>2. CASE claim(w)
    BY <1>5, <2>2 DEF Lifecycle!Next
  <2>3. CASE commitHandOff(w)
    BY <1>6, <2>3 DEF Lifecycle!Next
  <2>4. CASE commitFailed(w) \/ markFailed(w)
    BY <1>7, <2>4 DEF Lifecycle!Next
  <2>5. QED
    BY <1>10, <2>1, <2>2, <2>3, <2>4 DEF workerStep, QuietWorkerStep
<1>11. QED
  BY <1>1, <1>3, <1>8, <1>9, <1>10 DEF Next, Lifecycle!Next

(* Refinement: whatever messages, connections and processes do, each job   *)
(* follows the lifecycle: attempts only from pending, at most one hand-    *)
(* over, no attempt after it, failure only after MaxAttempts attempts.     *)
THEOREM Refinement == Spec => RefinesLifecycle
<1>1. Inv /\ Inv' /\ [Next]_vars => [Lifecycle!Next]_(Lifecycle!vars)
  BY LifecycleStep
<1>2. QED
  BY LifecycleInit, <1>1, InductiveInvariant, PTL DEF Spec, Lifecycle!Spec, RefinesLifecycle
=============================================================================
