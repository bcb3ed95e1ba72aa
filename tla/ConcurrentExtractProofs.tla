---------------------- MODULE ConcurrentExtractProofs -----------------------
(***************************************************************************)
(* That an extraction implements its ledger, and that remainingJobs is     *)
(* exact, for any number of rows, workers, retries, panics and failing     *)
(* writes and channels of any capacity.                                    *)
(***************************************************************************)
EXTENDS ConcurrentExtract, CaptchaSession, FiniteSetTheorems, TLAPS

InHand  == {held[w] : w \in Unsaved}
Settled == written \cup logged \cup unwritten \cup panicked

OneTime(s) == \A i, k \in 1..Len(s) : s[i] = s[k] => i = k

(* A row is in one place, once, and none that the producer has not passed  *)
(* is in any: what it sends next is new.                                   *)
RowInv ==
  /\ OneTime(jobs) /\ OneTime(results)
  /\ \A v, w \in Unsaved : held[v] = held[w] => v = w
  /\ Elements(jobs) \cap (InHand \cup Elements(results) \cup Settled) = {}
  /\ InHand \cap (Elements(results) \cup Settled) = {}
  /\ Elements(results) \cap Settled = {}
  /\ Elements(jobs) \cup InHand \cup Elements(results) \cup Settled
       \subseteq {r \in Rows \ Blank : r < row}
  /\ producer = "send" => row \in Rows \ Blank

(* results is closed behind the last worker, and drained before the return.*)
PhaseInv ==
  /\ main # "workers" => WorkersDone
  /\ writer = "done" => results = <<>> /\ main # "workers"
  /\ main = "returned" => writer = "done"

Inv == TypeOK /\ RowInv /\ PhaseInv /\ CounterExact

-----------------------------------------------------------------------------
(* The channels.                                                           *)

LEMMA AppendElements ==
  ASSUME NEW s \in Seq(Rows), NEW r \in Rows
  PROVE  /\ Append(s, r) \in Seq(Rows)
         /\ Len(Append(s, r)) = Len(s) + 1
         /\ Elements(Append(s, r)) = Elements(s) \cup {r}
         /\ OneTime(s) /\ r \notin Elements(s) => OneTime(Append(s, r))
<1>1. /\ Append(s, r) \in Seq(Rows) /\ Len(Append(s, r)) = Len(s) + 1
      /\ \A i \in 1..Len(s) : Append(s, r)[i] = s[i]
      /\ Append(s, r)[Len(s) + 1] = r
      /\ Len(s) \in Nat
  OBVIOUS
<1>2. Elements(Append(s, r)) = Elements(s) \cup {r}
  <2>1. ASSUME NEW x \in Elements(Append(s, r)) PROVE x \in Elements(s) \cup {r}
    <3>1. PICK i \in 1..Len(s) + 1 : x = Append(s, r)[i]
      BY <1>1 DEF Elements
    <3>2. CASE i = Len(s) + 1
      BY <1>1, <3>1, <3>2
    <3>3. CASE i # Len(s) + 1
      BY <1>1, <3>1, <3>3 DEF Elements
    <3> QED
      BY <3>2, <3>3
  <2>2. ASSUME NEW x \in Elements(s) PROVE x \in Elements(Append(s, r))
    BY <1>1 DEF Elements
  <2>3. r \in Elements(Append(s, r))
    BY <1>1 DEF Elements
  <2> QED
    BY <2>1, <2>2, <2>3
<1>3. ASSUME OneTime(s), r \notin Elements(s) PROVE OneTime(Append(s, r))
  BY <1>1, <1>3 DEF OneTime, Elements
<1> QED
  BY <1>1, <1>2, <1>3

LEMMA TailElements ==
  ASSUME NEW s \in Seq(Rows), s # <<>>, OneTime(s)
  PROVE  /\ Tail(s) \in Seq(Rows)
         /\ Len(Tail(s)) = Len(s) - 1
         /\ Head(s) \in Elements(s)
         /\ Elements(Tail(s)) = Elements(s) \ {Head(s)}
         /\ OneTime(Tail(s))
<1>1. /\ Tail(s) \in Seq(Rows) /\ Len(Tail(s)) = Len(s) - 1
      /\ Len(s) \in Nat \ {0} /\ Head(s) = s[1]
      /\ \A i \in 1..Len(s) - 1 : Tail(s)[i] = s[i + 1]
  OBVIOUS
<1>2. Head(s) \in Elements(s)
  BY <1>1 DEF Elements
<1>3. Elements(Tail(s)) = Elements(s) \ {Head(s)}
  <2>1. ASSUME NEW x \in Elements(Tail(s)) PROVE x \in Elements(s) \ {Head(s)}
    <3>1. PICK i \in 1..Len(s) - 1 : x = s[i + 1]
      BY <1>1 DEF Elements
    <3> QED
      BY <1>1, <3>1 DEF Elements, OneTime
  <2>2. ASSUME NEW x \in Elements(s) \ {Head(s)} PROVE x \in Elements(Tail(s))
    <3>1. PICK i \in 1..Len(s) : x = s[i]
      BY DEF Elements
    <3>2. i # 1 /\ i - 1 \in 1..Len(s) - 1
      BY <1>1, <3>1, <2>2
    <3>3. x = Tail(s)[i - 1]
      BY <1>1, <3>1, <3>2
    <3> QED
      BY <1>1, <3>2, <3>3 DEF Elements
  <2> QED
    BY <2>1, <2>2
<1>4. OneTime(Tail(s))
  <2> SUFFICES ASSUME NEW i \in 1..Len(s) - 1, NEW k \in 1..Len(s) - 1,
                      Tail(s)[i] = Tail(s)[k]
               PROVE  i = k
    BY <1>1 DEF OneTime
  <2>1. s[i + 1] = s[k + 1] /\ i + 1 \in 1..Len(s) /\ k + 1 \in 1..Len(s)
    BY <1>1
  <2> QED
    BY <1>1, <2>1 DEF OneTime
<1> QED
  BY <1>1, <1>2, <1>3, <1>4

-----------------------------------------------------------------------------
(* The constants, and the finite sets remainingJobs is compared with.      *)

LEMMA Constants ==
  /\ Workers \subseteq Nat /\ IsFiniteSet(Workers)
  /\ Rows \subseteq Nat /\ IsFiniteSet(Rows) /\ NoRow \notin Rows
  /\ JobsCap \in Nat /\ ResultsCap \in Nat
  /\ NumRows \in Nat /\ Blank \subseteq Rows
<1>1. /\ NumRows \in Nat \ {0} /\ MaxWorkers \in Nat \ {0}
      /\ JobsPerWorker \in Nat \ {0} /\ ResultsPerWorker \in Nat \ {0}
      /\ Blank \subseteq Rows
  BY ExtractAssumption
<1>2. MaxWorkers * JobsPerWorker \in Nat /\ MaxWorkers * ResultsPerWorker \in Nat
  BY <1>1
<1>3. Smaller(NumRows, MaxWorkers) \in Nat /\ JobsCap \in Nat /\ ResultsCap \in Nat
  BY <1>1, <1>2 DEF Smaller, JobsCap, ResultsCap
<1>4. IsFiniteSet(Workers) /\ IsFiniteSet(Rows)
  BY <1>1, <1>3, FS_Interval DEF Workers, Rows
<1> QED
  BY <1>1, <1>3, <1>4 DEF Workers, Rows, NoRow

LEMMA Counted ==
  ASSUME TypeOK
  PROVE  /\ IsFiniteSet(Busy) /\ IsFiniteSet(panicked)
         /\ Cardinality(Busy) \in Nat /\ Cardinality(panicked) \in Nat
         /\ Len(jobs) \in Nat
<1>1. IsFiniteSet(Busy) /\ IsFiniteSet(panicked)
  BY Constants, FS_Subset DEF TypeOK, Busy
<1> QED
  BY <1>1, FS_CardinalityType DEF TypeOK

(* A worker that counts down has something to count.                       *)
LEMMA CountPositive ==
  ASSUME TypeOK, CounterExact, NEW w \in Busy
  PROVE  remaining - 1 \in Nat
<1>1. Cardinality(Busy) # 0
  BY Counted, FS_EmptySet
<1> QED
  BY <1>1, Counted DEF CounterExact, TypeOK

LEMMA HandsBusy ==
  ASSUME TypeOK, NEW w \in Workers
  PROVE  /\ w \in Busy <=> pc[w] \in {"extract", "send", "count"}
         /\ w \in Unsaved <=> pc[w] \in {"extract", "send"}
         /\ w \in Busy <=> held[w] \in Rows
  BY Constants DEF TypeOK, Busy, Unsaved

LEMMA HandsBusyNext ==
  ASSUME TypeOK', NEW w \in Workers
  PROVE  /\ w \in Busy' <=> pc'[w] \in {"extract", "send", "count"}
         /\ w \in Unsaved' <=> pc'[w] \in {"extract", "send"}
         /\ w \in Busy' <=> held'[w] \in Rows
  BY Constants DEF TypeOK, Busy, Unsaved

(* Every step keeps the types; countDown needs the counter to be exact.    *)
LEMMA TypeStep ==
  ASSUME TypeOK, CounterExact, producer = "send" => row \in Rows, [Next]_vars PROVE TypeOK'
<1> USE DEF producerVars, sessionVars, outcomes
<1>0. \A r \in Rows : r + 1 \in 1..(NumRows + 1)
  BY Constants DEF Rows
<1>1. ASSUME skipBlank PROVE TypeOK'
  <2>1. row' \in 1..(NumRows + 1)
    BY <1>0, <1>1, Constants DEF skipBlank
  <2> QED
    BY <1>1, <2>1 DEF skipBlank, TypeOK
<1>2. ASSUME addJob PROVE TypeOK'
  BY <1>2 DEF addJob, TypeOK
<1>3. ASSUME sendJob PROVE TypeOK'
  <2> row \in Rows
    BY <1>3 DEF sendJob
  <2>1. jobs' \in Seq(Rows) /\ Len(jobs') <= JobsCap
    BY <1>3, Constants, AppendElements DEF sendJob, TypeOK
  <2>2. row' \in 1..(NumRows + 1)
    BY <1>0, <1>3 DEF sendJob
  <2> QED
    BY <1>3, <2>1, <2>2 DEF sendJob, TypeOK
<1>4. ASSUME closeJobs PROVE TypeOK'
  <2>1. cancelled' \in BOOLEAN
    BY <1>4 DEF closeJobs, TypeOK
  <2> QED
    BY <1>4, <2>1 DEF closeJobs, TypeOK
<1>5. ASSUME NEW w \in Workers, worker(w) PROVE TypeOK'
  <2>1. ASSUME startWorker(w) \/ checkContext(w) \/ sessionOk(w) \/ giveUp(w)
                \/ checkRemaining(w) \/ stopWorker(w)
        PROVE  TypeOK'
    <3>1. /\ pc[w] \notin {"extract", "send", "count"}
          /\ \E p \in {"gone", "limit", "visit", "check", "select"} : pc' = [pc EXCEPT ![w] = p]
      BY <2>1 DEF startWorker, checkContext, sessionOk, giveUp, checkRemaining, stopWorker, Go
    <3>2. UNCHANGED <<producerVars, jobs, remaining, cancelled, sessionVars, held, results, main,
                      writer, outcomes>>
      BY <2>1 DEF startWorker, checkContext, sessionOk, giveUp, checkRemaining, stopWorker
    <3> QED
      BY <3>1, <3>2 DEF TypeOK, PCs
  <2>2. ASSUME acquire(w) PROVE TypeOK'
    <3>1. retry' \in [Workers -> 1..SessionRetries]
      BY <2>2, ExtractAssumption DEF acquire, TypeOK
    <3>2. /\ pc' \in [Workers -> PCs]
          /\ \A v \in Workers : held'[v] # NoRow <=> pc'[v] \in {"extract", "send", "count"}
      BY <2>2 DEF acquire, Go, TypeOK, PCs
    <3> QED
      BY <2>2, <3>1, <3>2 DEF acquire, TypeOK
  <2>3. ASSUME retrySession(w) PROVE TypeOK'
    <3>1. retry' \in [Workers -> 1..SessionRetries]
      <4>1. retry[w] \in 1..SessionRetries /\ SessionRetries \in Nat /\ retry[w] < SessionRetries
        BY <2>3, ExtractAssumption DEF retrySession, TypeOK
      <4>2. retry[w] + 1 \in 1..SessionRetries
        BY <4>1
      <4> QED
        BY <2>3, <4>2 DEF retrySession, TypeOK
    <3>2. /\ pc' \in [Workers -> PCs]
          /\ \A v \in Workers : held'[v] # NoRow <=> pc'[v] \in {"extract", "send", "count"}
      BY <2>3 DEF retrySession, Go, TypeOK, PCs
    <3> QED
      BY <2>3, <3>1, <3>2 DEF retrySession, TypeOK
  <2>4. ASSUME retryWorker(w) PROVE TypeOK'
    <3>1. attempt' \in [Workers -> 1..WorkerAttempts]
      BY <2>4, ExtractAssumption DEF retryWorker, TypeOK
    <3> QED
      BY <2>4, <3>1 DEF retryWorker, Go, TypeOK, PCs
  <2>5. ASSUME takeJob(w) PROVE TypeOK'
    <3>1. Head(jobs) \in Rows /\ Head(jobs) # NoRow
      BY <2>5, Constants DEF takeJob, TypeOK
    <3>2. jobs' \in Seq(Rows) /\ Len(jobs') <= JobsCap
      BY <2>5, Constants DEF takeJob, TypeOK
    <3>3. held' \in [Workers -> Rows \cup {NoRow}]
      BY <2>5, <3>1 DEF takeJob, TypeOK
    <3>4. \A v \in Workers : held'[v] # NoRow <=> pc'[v] \in {"extract", "send", "count"}
      BY <2>5, <3>1 DEF takeJob, Go, TypeOK
    <3>5. pc' \in [Workers -> PCs]
      BY <2>5 DEF takeJob, Go, TypeOK, PCs
    <3> QED
      BY <2>5, <3>2, <3>3, <3>4, <3>5 DEF takeJob, TypeOK
  <2>6. ASSUME extractOk(w) PROVE TypeOK'
    BY <2>6 DEF extractOk, Go, TypeOK, PCs
  <2>7. ASSUME extractFails(w) PROVE TypeOK'
    <3>1. held[w] \in Rows
      BY <2>7, HandsBusy DEF extractFails, Go
    <3> QED
      BY <2>7, <3>1 DEF extractFails, Go, TypeOK, PCs
  <2>8. ASSUME extractPanics(w) PROVE TypeOK'
    <3>1. held[w] \in Rows
      BY <2>8, HandsBusy DEF extractPanics, Go
    <3> QED
      BY <2>8, <3>1 DEF extractPanics, Go, TypeOK, PCs
  <2>9. ASSUME sendResult(w) PROVE TypeOK'
    <3>1. held[w] \in Rows
      BY <2>9, HandsBusy DEF sendResult, Go
    <3>2. results' \in Seq(Rows) /\ Len(results') <= ResultsCap
      BY <2>9, <3>1, Constants, AppendElements DEF sendResult, TypeOK
    <3> QED
      BY <2>9, <3>2 DEF sendResult, Go, TypeOK, PCs
  <2>10. ASSUME countDown(w) PROVE TypeOK'
    <3>1. remaining' \in Nat
      BY <2>10, HandsBusy, CountPositive DEF countDown, Go
    <3>2. cancelled' \in BOOLEAN
      BY <2>10 DEF countDown, TypeOK
    <3> QED
      BY <2>10, <3>1, <3>2 DEF countDown, Go, TypeOK, PCs
  <2> QED
    BY <1>5, <2>1, <2>2, <2>3, <2>4, <2>5, <2>6, <2>7, <2>8, <2>9, <2>10 DEF worker
<1>6. ASSUME write PROVE TypeOK'
  <2>1. Head(results) \in Rows
    BY <1>6 DEF write, TypeOK
  <2>2. results' \in Seq(Rows) /\ Len(results') <= ResultsCap
    BY <1>6, Constants DEF write, TypeOK
  <2> QED
    BY <1>6, <2>1, <2>2 DEF write, TypeOK
<1>7. ASSUME writerEnds \/ closeResults \/ return PROVE TypeOK'
  BY <1>7 DEF writerEnds, closeResults, return, TypeOK
<1>8. ASSUME UNCHANGED vars PROVE TypeOK'
  BY <1>8 DEF vars, TypeOK
<1> QED
  BY <1>1, <1>2, <1>3, <1>4, <1>5, <1>6, <1>7, <1>8 DEF Next, produce

-----------------------------------------------------------------------------
(* The workers' hands.                                                     *)

LEMMA HandTaken ==
  ASSUME TypeOK, TypeOK', NEW w \in Workers, NEW r \in Rows, Go(w, "select", "extract"),
         held' = [held EXCEPT ![w] = r]
  PROVE  /\ w \notin Busy /\ Busy' = Busy \cup {w}
         /\ w \notin Unsaved /\ Unsaved' = Unsaved \cup {w}
         /\ held'[w] = r /\ \A v \in Unsaved : held'[v] = held[v]
         /\ InHand' = InHand \cup {r}
<1>1. w \notin Busy /\ w \notin Unsaved
  BY HandsBusy DEF Go
<1>2. /\ held'[w] = r /\ pc'[w] = "extract"
      /\ \A v \in Workers \ {w} : held'[v] = held[v] /\ pc'[v] = pc[v]
  BY DEF TypeOK, Go
<1>3. Busy' = Busy \cup {w} /\ Unsaved' = Unsaved \cup {w}
  BY <1>2, HandsBusy, HandsBusyNext DEF Busy, Unsaved
<1>4. InHand' = InHand \cup {r}
  BY <1>1, <1>2, <1>3 DEF InHand, Unsaved, Busy
<1> QED
  BY <1>1, <1>2, <1>3, <1>4 DEF Unsaved, Busy

LEMMA HandsKept ==
  ASSUME TypeOK, TypeOK', NEW w \in Workers, NEW p, pc' = [pc EXCEPT ![w] = p], UNCHANGED held,
         pc[w] \in {"extract", "send"} <=> p \in {"extract", "send"}
  PROVE  Busy' = Busy /\ Unsaved' = Unsaved /\ InHand' = InHand
<1>1. Busy' = Busy
  BY DEF Busy
<1>2. pc'[w] = p /\ \A v \in Workers \ {w} : pc'[v] = pc[v]
  BY DEF TypeOK
<1>3. \A v \in Workers : v \in Unsaved <=> v \in Unsaved'
  BY <1>2, HandsBusy, HandsBusyNext
<1>4. Unsaved' = Unsaved
  BY <1>3 DEF Unsaved, Busy
<1> QED
  BY <1>1, <1>4 DEF InHand

(* A worker hands its row on, or drops it.                                 *)
LEMMA HandReleased ==
  ASSUME TypeOK, TypeOK', RowInv, NEW w \in Workers,
         pc[w] \in {"extract", "send"}, pc'[w] \notin {"extract", "send"},
         \A v \in Workers \ {w} : pc'[v] = pc[v],
         held' = held \/ held' = [held EXCEPT ![w] = NoRow]
  PROVE  /\ w \in Unsaved /\ Unsaved' = Unsaved \ {w}
         /\ held[w] \in Rows /\ held[w] \in InHand
         /\ \A v \in Unsaved' : held'[v] = held[v]
         /\ InHand' = InHand \ {held[w]}
<1>1. w \in Unsaved /\ held[w] \in Rows
  BY HandsBusy
<1>2. \A v \in Workers \ {w} : pc'[v] = pc[v] /\ held'[v] = held[v]
  BY DEF TypeOK
<1>3. \A v \in Workers : v \in Unsaved' <=> v \in Unsaved /\ v # w
  BY <1>2, HandsBusy, HandsBusyNext
<1>4. Unsaved' = Unsaved \ {w}
  BY <1>3 DEF Unsaved, Busy
<1>5. \A v \in Unsaved' : v \in Workers /\ held'[v] = held[v]
  BY <1>2, <1>4 DEF Unsaved, Busy
<1>6. InHand' = InHand \ {held[w]}
  BY <1>1, <1>4, <1>5 DEF InHand, RowInv
<1> QED
  BY <1>1, <1>4, <1>5, <1>6 DEF InHand

-----------------------------------------------------------------------------
(* The invariant.                                                          *)

LEMMA InitInv == Init => Inv
<1> SUFFICES ASSUME Init PROVE Inv
  OBVIOUS
<1>1. TypeOK
  <2>1. /\ row \in 1..(NumRows + 1)
        /\ jobs \in Seq(Rows) /\ Len(jobs) <= JobsCap
        /\ results \in Seq(Rows) /\ Len(results) <= ResultsCap
    BY Constants DEF Init
  <2>2. attempt \in [Workers -> 1..WorkerAttempts] /\ retry \in [Workers -> 1..SessionRetries]
    BY ExtractAssumption DEF Init
  <2>3. /\ pc \in [Workers -> PCs] /\ held \in [Workers -> Rows \cup {NoRow}]
        /\ \A w \in Workers : held[w] # NoRow <=> pc[w] \in {"extract", "send", "count"}
    BY DEF Init, PCs
  <2>4. remaining \in Nat /\ producer \in {"add", "send", "closed"}
        /\ cancelled \in BOOLEAN
    BY DEF Init
  <2> QED
    BY <2>1, <2>2, <2>3, <2>4 DEF Init, TypeOK
<1>2. Busy = {} /\ Unsaved = {} /\ InHand = {} /\ Settled = {}
  BY DEF Init, Busy, Unsaved, InHand, Settled
<1>3. jobs = <<>> /\ results = <<>> /\ Elements(jobs) = {} /\ Elements(results) = {}
  BY DEF Init, Elements
<1>4. RowInv
  BY <1>2, <1>3 DEF Init, RowInv, OneTime
<1>5. PhaseInv
  BY DEF Init, PhaseInv
<1>6. Cardinality(Busy) = 0 /\ Cardinality(panicked) = 0
  BY <1>2, FS_EmptySet DEF Init
<1>7. CounterExact
  BY <1>3, <1>6 DEF Init, CounterExact
<1> QED
  BY <1>1, <1>4, <1>5, <1>7 DEF Inv

(* A step after which every row is where it was.                           *)
LEMMA SamePlaces ==
  ASSUME RowInv, UNCHANGED <<row, jobs, results, Unsaved, InHand, Settled>>,
         \A v \in Unsaved : held'[v] = held[v],
         producer' = "send" => row \in Rows \ Blank
  PROVE  RowInv'
  BY DEF RowInv

LEMMA RowStep ==
  ASSUME Inv, TypeOK', [Next]_vars PROVE RowInv'
<1> USE DEF producerVars, sessionVars, outcomes, Settled
<1>0. TypeOK /\ RowInv
  BY DEF Inv
<1>1. ASSUME UNCHANGED held, UNCHANGED pc PROVE UNCHANGED <<Busy, Unsaved, InHand>>
  BY <1>1 DEF Busy, Unsaved, InHand
<1>2. ASSUME skipBlank PROVE RowInv'
  <2>1. UNCHANGED <<Unsaved, InHand, held, jobs, results, Settled>> /\ row' = row + 1
        /\ producer' = "add"
    BY <1>1, <1>2 DEF skipBlank
  <2>2. \A r \in Rows : r < row => r < row'
    BY <1>0, <2>1, Constants DEF TypeOK
  <2> QED
    BY <1>0, <2>1, <2>2 DEF RowInv
<1>3. ASSUME addJob \/ closeJobs PROVE RowInv'
  <2>1. UNCHANGED <<row, jobs, results, Unsaved, InHand, Settled, held>>
        /\ (producer' = "send" => row \in Rows \ Blank)
    BY <1>1, <1>3 DEF addJob, closeJobs
  <2> QED
    BY <1>0, <2>1, SamePlaces
<1>4. ASSUME sendJob PROVE RowInv'
  <2>1. /\ UNCHANGED <<Unsaved, InHand, held, results, Settled>> /\ row' = row + 1
        /\ producer' = "add" /\ jobs' = Append(jobs, row) /\ row \in Rows \ Blank
    BY <1>0, <1>1, <1>4 DEF sendJob, RowInv
  <2>2. \A r \in Rows : r < row => r < row'
    BY <1>0, <2>1, Constants DEF TypeOK
  <2>3. ~(row < row) /\ row < row'
    BY <1>0, <2>1 DEF TypeOK
  <2>4. row \notin Elements(jobs) \cup InHand \cup Elements(results) \cup Settled
    BY <1>0, <2>3 DEF RowInv
  <2>5. Elements(jobs') = Elements(jobs) \cup {row} /\ OneTime(jobs')
    BY <1>0, <2>1, <2>4, AppendElements DEF TypeOK, RowInv
  <2>6. OneTime(results')
    BY <1>0, <2>1 DEF RowInv
  <2> QED
    BY <1>0, <2>1, <2>2, <2>3, <2>4, <2>5, <2>6 DEF RowInv
<1>5. ASSUME NEW w \in Workers, worker(w) PROVE RowInv'
  <2>1. ASSUME NEW p \in PCs, pc' = [pc EXCEPT ![w] = p], UNCHANGED held,
               UNCHANGED <<row, producer, jobs, results, Settled>>,
               pc[w] \in {"extract", "send"} <=> p \in {"extract", "send"}
        PROVE  RowInv'
    <3>1. UNCHANGED <<Unsaved, InHand>>
      BY <1>0, <2>1, HandsKept
    <3> QED
      BY <1>0, <2>1, <3>1, SamePlaces DEF RowInv
  <2>2. ASSUME startWorker(w) \/ acquire(w) \/ checkContext(w) \/ sessionOk(w) \/ retrySession(w)
                \/ retryWorker(w) \/ giveUp(w) \/ checkRemaining(w) \/ stopWorker(w)
        PROVE  RowInv'
    <3>1. /\ pc[w] \notin {"extract", "send"}
          /\ \E p \in {"gone", "limit", "retry", "visit", "check", "select"} :
               pc' = [pc EXCEPT ![w] = p]
      BY <2>2 DEF startWorker, acquire, checkContext, sessionOk, retrySession, retryWorker,
                  giveUp, checkRemaining, stopWorker, Go
    <3>2. UNCHANGED <<held, row, producer, jobs, results, Settled>>
      BY <2>2 DEF startWorker, acquire, checkContext, sessionOk, retrySession, retryWorker,
                  giveUp, checkRemaining, stopWorker
    <3> QED
      BY <2>1, <3>1, <3>2 DEF PCs
  <2>3. ASSUME takeJob(w) PROVE RowInv'
    <3> DEFINE r == Head(jobs)
    <3>1. /\ r \in Rows /\ r \in Elements(jobs) /\ jobs' = Tail(jobs)
          /\ Elements(jobs') = Elements(jobs) \ {r} /\ OneTime(jobs')
      BY <1>0, <2>3, TailElements DEF takeJob, TypeOK, RowInv
    <3>2. /\ w \notin Unsaved /\ Unsaved' = Unsaved \cup {w} /\ InHand' = InHand \cup {r}
          /\ held'[w] = r /\ \A v \in Unsaved : held'[v] = held[v]
      BY <1>0, <2>3, <3>1, HandTaken DEF takeJob
    <3>3. UNCHANGED <<row, producer, results, Settled>>
      BY <2>3 DEF takeJob
    <3>4. r \notin InHand \cup Elements(results) \cup Settled
      BY <1>0, <3>1 DEF RowInv
    <3>5. \A u, v \in Unsaved' : held'[u] = held'[v] => u = v
      <4>1. \A u \in Unsaved : held'[u] # r
        BY <3>2, <3>4 DEF InHand
      <4> QED
        BY <1>0, <3>2, <4>1 DEF RowInv
    <3> QED
      BY <1>0, <3>1, <3>2, <3>3, <3>4, <3>5 DEF RowInv
  <2>4. ASSUME extractOk(w) PROVE RowInv'
    BY <2>1, <2>4 DEF extractOk, Go, PCs
  <2>5. ASSUME extractFails(w) \/ extractPanics(w) PROVE RowInv'
    <3>1. pc'[w] \notin {"extract", "send"} /\ \A v \in Workers \ {w} : pc'[v] = pc[v]
      BY <1>0, <2>5 DEF extractFails, extractPanics, Go, TypeOK
    <3>2. /\ pc[w] \in {"extract", "send"}
          /\ held' = held \/ held' = [held EXCEPT ![w] = NoRow]
          /\ UNCHANGED <<row, producer, jobs, results>>
          /\ Settled' = Settled \cup {held[w]}
      BY <2>5 DEF extractFails, extractPanics, Go
    <3>3. /\ Unsaved' = Unsaved \ {w} /\ held[w] \in InHand
          /\ \A v \in Unsaved' : held'[v] = held[v]
          /\ InHand' = InHand \ {held[w]}
      BY <1>0, <3>1, <3>2, HandReleased
    <3>4. \A u, v \in Unsaved' : held'[u] = held'[v] => u = v
      BY <1>0, <3>3 DEF RowInv
    <3> QED
      BY <1>0, <3>2, <3>3, <3>4 DEF RowInv
  <2>6. ASSUME sendResult(w) PROVE RowInv'
    <3>1. /\ pc[w] \in {"extract", "send"} /\ pc'[w] \notin {"extract", "send"}
          /\ \A v \in Workers \ {w} : pc'[v] = pc[v]
          /\ UNCHANGED <<held, row, producer, jobs, Settled>>
          /\ results' = Append(results, held[w])
      BY <1>0, <2>6 DEF sendResult, Go, TypeOK
    <3>2. /\ Unsaved' = Unsaved \ {w} /\ held[w] \in InHand /\ held[w] \in Rows
          /\ InHand' = InHand \ {held[w]}
      BY <1>0, <3>1, HandReleased
    <3>3. held[w] \notin Elements(jobs) \cup Elements(results) \cup Settled
      BY <1>0, <3>2 DEF RowInv
    <3>4. Elements(results') = Elements(results) \cup {held[w]} /\ OneTime(results')
      BY <1>0, <3>1, <3>2, <3>3, AppendElements DEF TypeOK, RowInv
    <3> QED
      BY <1>0, <3>1, <3>2, <3>3, <3>4 DEF RowInv
  <2>7. ASSUME countDown(w) PROVE RowInv'
    <3>1. /\ pc[w] = "count" /\ pc' = [pc EXCEPT ![w] = "select"]
          /\ held' = [held EXCEPT ![w] = NoRow]
          /\ UNCHANGED <<row, producer, jobs, results, Settled>>
      BY <2>7 DEF countDown, Go
    <3>2. /\ pc'[w] = "select"
          /\ \A v \in Workers \ {w} : pc'[v] = pc[v] /\ held'[v] = held[v]
      BY <1>0, <3>1 DEF TypeOK
    <3>3. w \notin Unsaved /\ \A v \in Workers : v \in Unsaved' <=> v \in Unsaved
      BY <1>0, <3>1, <3>2, HandsBusy, HandsBusyNext
    <3>4. Unsaved' = Unsaved /\ \A v \in Unsaved : v \in Workers /\ held'[v] = held[v]
      BY <3>2, <3>3 DEF Unsaved, Busy
    <3>5. InHand' = InHand
      BY <3>4 DEF InHand
    <3> QED
      BY <1>0, <3>1, <3>4, <3>5, SamePlaces DEF RowInv
  <2> QED
    BY <1>5, <2>2, <2>3, <2>4, <2>5, <2>6, <2>7 DEF worker
<1>6. ASSUME write PROVE RowInv'
  <2> DEFINE r == Head(results)
  <2>1. /\ UNCHANGED <<Unsaved, InHand, held, row, producer, jobs>>
        /\ results' = Tail(results) /\ Settled' = Settled \cup {r}
    BY <1>1, <1>6 DEF write
  <2>2. /\ r \in Elements(results) /\ Elements(results') = Elements(results) \ {r}
        /\ OneTime(results')
    BY <1>0, <1>6, <2>1, TailElements DEF write, TypeOK, RowInv
  <2> QED
    BY <1>0, <2>1, <2>2 DEF RowInv
<1>7. ASSUME writerEnds \/ closeResults \/ return \/ UNCHANGED vars PROVE RowInv'
  <2>1. UNCHANGED <<row, jobs, results, held, pc, Settled, producer>>
    BY <1>7 DEF writerEnds, closeResults, return, vars
  <2> QED
    BY <1>0, <1>1, <2>1, SamePlaces DEF RowInv
<1> QED
  BY <1>2, <1>3, <1>4, <1>5, <1>6, <1>7 DEF Next, produce

LEMMA PhaseStep ==
  ASSUME Inv, TypeOK', [Next]_vars PROVE PhaseInv'
<1>0. TypeOK /\ PhaseInv
  BY DEF Inv
<1>1. ASSUME produce PROVE PhaseInv'
  BY <1>0, <1>1 DEF produce, skipBlank, addJob, sendJob, closeJobs, PhaseInv, WorkersDone
<1>2. ASSUME NEW w \in Workers, worker(w) PROVE PhaseInv'
  <2>1. pc[w] # "gone" /\ UNCHANGED <<main, writer>>
    BY <1>2 DEF worker, startWorker, acquire, checkContext, sessionOk, retrySession, retryWorker,
                giveUp, checkRemaining, takeJob, stopWorker, extractOk, extractFails,
                extractPanics, sendResult, countDown, Go
  <2> QED
    BY <1>0, <2>1 DEF PhaseInv, WorkersDone
<1>3. ASSUME write PROVE PhaseInv'
  BY <1>0, <1>3 DEF write, PhaseInv, WorkersDone
<1>4. ASSUME writerEnds \/ closeResults \/ return PROVE PhaseInv'
  BY <1>0, <1>4 DEF writerEnds, closeResults, return, PhaseInv, WorkersDone, Drained
<1>5. ASSUME UNCHANGED vars PROVE PhaseInv'
  BY <1>0, <1>5 DEF vars, PhaseInv, WorkersDone
<1> QED
  BY <1>1, <1>2, <1>3, <1>4, <1>5 DEF Next

LEMMA CountStep ==
  ASSUME Inv, TypeOK', [Next]_vars PROVE CounterExact'
<1> USE DEF producerVars, sessionVars, outcomes
<1>0. TypeOK /\ RowInv /\ CounterExact
  BY DEF Inv
<1>1. /\ IsFiniteSet(Busy) /\ IsFiniteSet(panicked)
      /\ Cardinality(Busy) \in Nat /\ Cardinality(panicked) \in Nat
      /\ Len(jobs) \in Nat /\ remaining \in Nat
  BY <1>0, Counted DEF TypeOK
<1>2. ASSUME UNCHANGED <<remaining, Busy, panicked, jobs>>, producer' = "send" <=> producer = "send"
      PROVE  CounterExact'
  BY <1>0, <1>2 DEF CounterExact
<1>3. ASSUME skipBlank \/ closeJobs PROVE CounterExact'
  BY <1>2, <1>3 DEF skipBlank, closeJobs, Busy
<1>4. ASSUME addJob PROVE CounterExact'
  <2>1. /\ UNCHANGED <<Busy, panicked, jobs>> /\ remaining' = remaining + 1
        /\ producer = "add" /\ producer' = "send"
    BY <1>4 DEF addJob, Busy
  <2> QED
    BY <1>0, <1>1, <2>1 DEF CounterExact
<1>5. ASSUME sendJob PROVE CounterExact'
  <2>1. /\ UNCHANGED <<Busy, panicked, remaining>> /\ jobs' = Append(jobs, row)
        /\ producer = "send" /\ producer' = "add" /\ row \in Rows
    BY <1>0, <1>5 DEF sendJob, Busy, RowInv
  <2>2. Len(jobs') = Len(jobs) + 1
    BY <1>0, <2>1, AppendElements DEF TypeOK
  <2> QED
    BY <1>0, <1>1, <2>1, <2>2 DEF CounterExact
<1>6. ASSUME NEW w \in Workers, worker(w) PROVE CounterExact'
  <2>1. ASSUME UNCHANGED <<held, remaining, panicked, jobs, producer>> PROVE CounterExact'
    BY <1>2, <2>1 DEF Busy
  <2>2. ASSUME takeJob(w) PROVE CounterExact'
    <3>1. Head(jobs) \in Rows /\ jobs' = Tail(jobs) /\ Len(jobs') = Len(jobs) - 1
      BY <1>0, <2>2 DEF takeJob, TypeOK
    <3>2. w \notin Busy /\ Busy' = Busy \cup {w}
      BY <1>0, <2>2, <3>1, HandTaken DEF takeJob
    <3>3. Cardinality(Busy') = Cardinality(Busy) + 1
      BY <1>1, <3>2, FS_AddElement
    <3>4. UNCHANGED <<remaining, panicked, producer>>
      BY <2>2 DEF takeJob
    <3> QED
      BY <1>0, <1>1, <3>1, <3>3, <3>4 DEF CounterExact
  <2>3. ASSUME held' = [held EXCEPT ![w] = NoRow], w \in Busy
        PROVE  Cardinality(Busy') = Cardinality(Busy) - 1
    <3>1. \A v \in Workers : held'[v] = IF v = w THEN NoRow ELSE held[v]
      BY <1>0, <2>3 DEF TypeOK
    <3>2. Busy' = Busy \ {w}
      BY <3>1 DEF Busy
    <3> QED
      BY <1>1, <2>3, <3>2, FS_RemoveElement
  <2>4. ASSUME extractPanics(w) PROVE CounterExact'
    <3>1. /\ w \in Busy /\ w \in Unsaved /\ held' = [held EXCEPT ![w] = NoRow]
          /\ panicked' = panicked \cup {held[w]}
          /\ UNCHANGED <<remaining, jobs, producer>>
      BY <1>0, <2>4, HandsBusy DEF extractPanics, Go
    <3>2. held[w] \notin panicked
      BY <1>0, <3>1 DEF RowInv, InHand, Settled
    <3>3. Cardinality(panicked') = Cardinality(panicked) + 1
      BY <1>1, <3>1, <3>2, FS_AddElement
    <3>4. Cardinality(Busy') = Cardinality(Busy) - 1
      BY <2>3, <3>1
    <3> QED
      BY <1>0, <1>1, <3>1, <3>3, <3>4 DEF CounterExact
  <2>5. ASSUME countDown(w) PROVE CounterExact'
    <3>1. /\ w \in Busy /\ held' = [held EXCEPT ![w] = NoRow] /\ remaining' = remaining - 1
          /\ UNCHANGED <<panicked, jobs, producer>>
      BY <1>0, <2>5, HandsBusy DEF countDown, Go
    <3>2. Cardinality(Busy') = Cardinality(Busy) - 1
      BY <2>3, <3>1
    <3> QED
      BY <1>0, <1>1, <3>1, <3>2 DEF CounterExact
  <2> QED
    BY <1>6, <2>1, <2>2, <2>4, <2>5
       DEF worker, startWorker, acquire, checkContext, sessionOk, retrySession, retryWorker,
           giveUp, checkRemaining, stopWorker, extractOk, extractFails, sendResult
<1>7. ASSUME write \/ writerEnds \/ closeResults \/ return \/ UNCHANGED vars PROVE CounterExact'
  BY <1>2, <1>7 DEF write, writerEnds, closeResults, return, vars, Busy
<1> QED
  BY <1>3, <1>4, <1>5, <1>6, <1>7 DEF Next, produce

LEMMA NextInv == Inv /\ [Next]_vars => Inv'
<1> SUFFICES ASSUME Inv, [Next]_vars PROVE Inv'
  OBVIOUS
<1>1. TypeOK'
  BY TypeStep DEF Inv, RowInv
<1> QED
  BY <1>1, RowStep, PhaseStep, CountStep DEF Inv

(* The invariant, for every instance.                                      *)
THEOREM Invariance == Spec => []Inv
  BY InitInv, NextInv, PTL DEF Spec

(* The types: no queue overflows, and remainingJobs and the slots of the   *)
(* limiter stay in range.                                                  *)
THEOREM TypeOKAlways == Spec => []TypeOK
<1>1. Inv => TypeOK
  BY DEF Inv
<1> QED
  BY <1>1, Invariance, PTL

(* remainingJobs is what was announced and is not finished yet, and an     *)
(* input that panicked for ever: no interleaving loses a decrement.        *)
THEOREM CounterExactAlways == Spec => []CounterExact
<1>1. Inv => CounterExact
  BY DEF Inv
<1> QED
  BY <1>1, Invariance, PTL

-----------------------------------------------------------------------------
(* The ledger.                                                             *)

LEMMA LedgerInit == Init => Ledger!Init
<1> SUFFICES ASSUME Init PROVE Ledger!Init
  OBVIOUS
<1>1. Unsaved = {} /\ Elements(jobs) = {} /\ Elements(results) = {}
  BY DEF Init, Busy, Unsaved, Elements
<1> QED
  BY <1>1 DEF Init, Ledger!Init

(* What the mapping reads, left alone, is a stutter of the ledger.         *)
LEMMA LedgerStutter ==
  ASSUME UNCHANGED <<Elements(jobs), InHand \cup Elements(results), written, logged,
                     unwritten \cup panicked, main = "returned">>
  PROVE  UNCHANGED Ledger!vars
  BY DEF Ledger!vars, InHand

(* Its steps, in terms of the places above.                                *)
LEMMA LedgerTake ==
  ASSUME NEW r, main # "returned", main' = main, r \in Elements(jobs),
         Elements(jobs') = Elements(jobs) \ {r},
         InHand' \cup Elements(results') = (InHand \cup Elements(results)) \cup {r},
         UNCHANGED outcomes
  PROVE  Ledger!Take(r)
  BY DEF Ledger!Take, InHand, outcomes

LEMMA LedgerSettle ==
  ASSUME NEW r, main' = main, r \in InHand \cup Elements(results),
         Elements(jobs') = Elements(jobs),
         InHand' \cup Elements(results') = (InHand \cup Elements(results)) \ {r},
         \/ written' = written \cup {r} /\ UNCHANGED <<logged, unwritten, panicked>>
         \/ logged' = logged \cup {r} /\ UNCHANGED <<written, unwritten, panicked>>
         \/ unwritten' = unwritten \cup {r} /\ UNCHANGED <<written, logged, panicked>>
         \/ panicked' = panicked \cup {r} /\ UNCHANGED <<written, logged, unwritten>>
  PROVE  Ledger!Settle(r)
<1>1. \/ written' = written \cup {r} /\ logged' = logged /\ unwritten' \cup panicked' = unwritten \cup panicked
      \/ logged' = logged \cup {r} /\ written' = written /\ unwritten' \cup panicked' = unwritten \cup panicked
      \/ /\ unwritten' \cup panicked' = (unwritten \cup panicked) \cup {r}
         /\ UNCHANGED <<written, logged>>
  OBVIOUS
<1> QED
  BY <1>1 DEF Ledger!Settle, InHand

(* Every step maps to a step of the ledger or a stutter.                   *)
LEMMA LedgerStep ==
  ASSUME Inv, Inv', [Next]_vars PROVE [Ledger!Next]_(Ledger!vars)
<1> USE DEF producerVars, sessionVars, outcomes
<1>0. TypeOK /\ TypeOK' /\ RowInv /\ PhaseInv
  BY DEF Inv
<1>1. ASSUME UNCHANGED <<jobs, results, Unsaved, InHand, main, outcomes>>
      PROVE  UNCHANGED Ledger!vars
  BY <1>1, LedgerStutter
<1>2. ASSUME UNCHANGED <<jobs, results, held, pc, main, outcomes>> PROVE UNCHANGED Ledger!vars
  BY <1>1, <1>2 DEF Unsaved, Busy, InHand
<1>3. ASSUME NEW i \in Rows \ Blank, Ledger!Queue(i) \/ Ledger!Take(i) \/ Ledger!Settle(i)
      PROVE  Ledger!Next
  BY <1>3 DEF Ledger!Next
<1>4. CASE skipBlank \/ addJob \/ closeJobs
  BY <1>2, <1>4 DEF skipBlank, addJob, closeJobs
<1>5. CASE sendJob
  <2>1. /\ jobs' = Append(jobs, row) /\ row \in Rows \ Blank
        /\ UNCHANGED <<held, pc, results, main, outcomes>>
    BY <1>0, <1>5 DEF sendJob, RowInv
  <2>2. ~(row < row)
    BY <1>0 DEF TypeOK
  <2>3. row \notin Elements(jobs) \cup InHand \cup Elements(results) \cup Settled
    BY <1>0, <2>2 DEF RowInv
  <2>4. Elements(jobs') = Elements(jobs) \cup {row}
    BY <1>0, <2>1, AppendElements DEF TypeOK
  <2>5. Ledger!Queue(row)
    BY <2>1, <2>3, <2>4
       DEF Ledger!Queue, Ledger!Known, Settled, InHand, Unsaved, Busy
  <2> QED
    BY <1>3, <2>1, <2>5
<1>6. ASSUME NEW w \in Workers, worker(w) PROVE Ledger!Next \/ UNCHANGED Ledger!vars
  <2>1. ASSUME NEW p \in PCs, pc' = [pc EXCEPT ![w] = p], UNCHANGED held,
               UNCHANGED <<jobs, results, main, outcomes>>,
               pc[w] \in {"extract", "send"} <=> p \in {"extract", "send"}
        PROVE  UNCHANGED Ledger!vars
    <3>1. UNCHANGED <<Unsaved, InHand>>
      BY <1>0, <2>1, HandsKept
    <3> QED
      BY <1>1, <2>1, <3>1
  <2>2. CASE startWorker(w) \/ acquire(w) \/ checkContext(w) \/ sessionOk(w) \/ retrySession(w)
             \/ retryWorker(w) \/ giveUp(w) \/ checkRemaining(w) \/ stopWorker(w)
    <3>1. /\ pc[w] \notin {"extract", "send"}
          /\ \E p \in {"gone", "limit", "retry", "visit", "check", "select"} :
               pc' = [pc EXCEPT ![w] = p]
      BY <2>2 DEF startWorker, acquire, checkContext, sessionOk, retrySession, retryWorker,
                  giveUp, checkRemaining, stopWorker, Go
    <3>2. UNCHANGED <<held, jobs, results, main, outcomes>>
      BY <2>2 DEF startWorker, acquire, checkContext, sessionOk, retrySession, retryWorker,
                  giveUp, checkRemaining, stopWorker
    <3> QED
      BY <2>1, <3>1, <3>2 DEF PCs
  <2>3. CASE takeJob(w)
    <3>0. PICK r : r = Head(jobs)
      OBVIOUS
    <3>1. /\ r \in Elements(jobs) /\ jobs' = Tail(jobs)
          /\ Elements(jobs') = Elements(jobs) \ {r}
      BY <1>0, <2>3, <3>0, TailElements DEF takeJob, TypeOK, RowInv
    <3>2. r \in Rows \ Blank
      BY <1>0, <3>1 DEF RowInv
    <3>3. InHand' = InHand \cup {r}
      BY <1>0, <2>3, <3>0, <3>2, HandTaken DEF takeJob
    <3>4. main # "returned" /\ UNCHANGED <<results, main, outcomes>>
      BY <1>0, <2>3 DEF takeJob, Go, PhaseInv, WorkersDone
    <3>5. InHand' \cup Elements(results') = (InHand \cup Elements(results)) \cup {r}
      BY <3>3, <3>4
    <3>6. Ledger!Take(r)
      BY <3>1, <3>4, <3>5, LedgerTake
    <3> QED
      BY <1>3, <3>2, <3>6
  <2>4. CASE extractOk(w)
    BY <2>1, <2>4 DEF extractOk, Go, PCs
  <2>5. CASE extractFails(w) \/ extractPanics(w)
    <3>0. PICK r : r = held[w]
      OBVIOUS
    <3>1. /\ pc'[w] \notin {"extract", "send"} /\ pc[w] \in {"extract", "send"}
          /\ \A v \in Workers \ {w} : pc'[v] = pc[v]
      BY <1>0, <2>5 DEF extractFails, extractPanics, Go, TypeOK
    <3>2. /\ held' = held \/ held' = [held EXCEPT ![w] = NoRow]
          /\ UNCHANGED <<jobs, results, main, written>>
          /\ \/ logged' = logged \cup {r} /\ UNCHANGED <<unwritten, panicked>>
             \/ panicked' = panicked \cup {r} /\ UNCHANGED <<unwritten, logged>>
      BY <2>5, <3>0 DEF extractFails, extractPanics
    <3>3. r \in InHand /\ InHand' = InHand \ {r}
      BY <1>0, <3>0, <3>1, <3>2, HandReleased
    <3>4. r \in Rows \ Blank /\ r \notin Elements(results)
      BY <1>0, <3>3 DEF RowInv
    <3>5. InHand' \cup Elements(results') = (InHand \cup Elements(results)) \ {r}
      BY <3>2, <3>3, <3>4
    <3>6. Ledger!Settle(r)
      BY <3>2, <3>3, <3>5, LedgerSettle
    <3> QED
      BY <1>3, <3>4, <3>6
  <2>6. CASE sendResult(w)
    <3>1. /\ pc[w] \in {"extract", "send"} /\ pc'[w] \notin {"extract", "send"}
          /\ \A v \in Workers \ {w} : pc'[v] = pc[v]
          /\ UNCHANGED <<held, jobs, main, outcomes>>
          /\ results' = Append(results, held[w])
      BY <1>0, <2>6 DEF sendResult, Go, TypeOK
    <3>2. held[w] \in InHand /\ held[w] \in Rows /\ InHand' = InHand \ {held[w]}
      BY <1>0, <3>1, HandReleased
    <3>3. Elements(results') = Elements(results) \cup {held[w]}
      BY <1>0, <3>1, <3>2, AppendElements DEF TypeOK
    <3>4. InHand' \cup Elements(results') = InHand \cup Elements(results)
      BY <3>2, <3>3
    <3> QED
      BY <3>1, <3>4, LedgerStutter
  <2>7. CASE countDown(w)
    <3>1. /\ pc[w] = "count" /\ pc' = [pc EXCEPT ![w] = "select"]
          /\ held' = [held EXCEPT ![w] = NoRow]
          /\ UNCHANGED <<jobs, results, main, outcomes>>
      BY <2>7 DEF countDown, Go
    <3>2. /\ pc'[w] = "select"
          /\ \A v \in Workers \ {w} : pc'[v] = pc[v] /\ held'[v] = held[v]
      BY <1>0, <3>1 DEF TypeOK
    <3>3. w \notin Unsaved /\ \A v \in Workers : v \in Unsaved' <=> v \in Unsaved
      BY <1>0, <3>1, <3>2, HandsBusy, HandsBusyNext
    <3>4. Unsaved' = Unsaved /\ \A v \in Unsaved : v \in Workers /\ held'[v] = held[v]
      BY <3>2, <3>3 DEF Unsaved, Busy
    <3>5. InHand' = InHand
      BY <3>4 DEF InHand
    <3> QED
      BY <1>1, <3>1, <3>4, <3>5
  <2> QED
    BY <1>6, <2>2, <2>3, <2>4, <2>5, <2>6, <2>7 DEF worker
<1>7. CASE write
  <2>0. PICK r : r = Head(results)
    OBVIOUS
  <2>1. /\ UNCHANGED <<held, pc, jobs, main, logged, panicked>> /\ results' = Tail(results)
        /\ \/ written' = written \cup {r} /\ UNCHANGED unwritten
           \/ unwritten' = unwritten \cup {r} /\ UNCHANGED written
    BY <1>7, <2>0 DEF write
  <2>2. r \in Elements(results) /\ Elements(results') = Elements(results) \ {r}
    BY <1>0, <1>7, <2>0, <2>1, TailElements DEF write, TypeOK, RowInv
  <2>3. r \in Rows \ Blank /\ r \notin InHand
    BY <1>0, <2>2 DEF RowInv
  <2>4. InHand' = InHand
    BY <2>1 DEF InHand, Unsaved, Busy
  <2>5. InHand' \cup Elements(results') = (InHand \cup Elements(results)) \ {r}
    BY <2>2, <2>3, <2>4
  <2>6. Ledger!Settle(r)
    BY <2>1, <2>2, <2>5, LedgerSettle
  <2> QED
    BY <1>3, <2>3, <2>6
<1>8. CASE writerEnds \/ UNCHANGED vars
  BY <1>2, <1>8 DEF writerEnds, vars
<1>9. CASE closeResults
  <2>1. /\ UNCHANGED <<jobs, results, held, pc, outcomes>>
        /\ main # "returned" /\ main' # "returned"
    BY <1>9 DEF closeResults
  <2> QED
    BY <2>1, LedgerStutter DEF InHand, Unsaved, Busy
<1>10. CASE return
  <2>1. /\ UNCHANGED <<jobs, results, held, pc, outcomes>>
        /\ main' = "returned" /\ results = <<>> /\ \A w \in Workers : pc[w] = "gone"
    BY <1>0, <1>10 DEF return, Drained, PhaseInv, WorkersDone
  <2>2. \A w \in Workers : w \notin Unsaved
    BY <1>0, <2>1, HandsBusy
  <2>3. Unsaved = {} /\ Elements(results) = {}
    BY <2>1, <2>2 DEF Unsaved, Busy, Elements
  <2>4. Ledger!Return
    BY <2>1, <2>3 DEF Ledger!Return, Unsaved, Busy
  <2> QED
    BY <2>4 DEF Ledger!Next
<1> QED
  BY <1>4, <1>5, <1>6, <1>7, <1>8, <1>9, <1>10 DEF Next, produce

(* The extraction implements its ledger: an input is taken once and ends   *)
(* once, and the return leaves none in a worker's or the writer's hands.   *)
THEOREM Refinement == Spec => RefinesLedger
<1>1. Inv /\ Inv' /\ [Next]_vars => [Ledger!Next]_(Ledger!vars)
  BY LedgerStep
<1> QED
  BY LedgerInit, <1>1, Invariance, PTL DEF Spec, Ledger!Spec, RefinesLedger

-----------------------------------------------------------------------------
(***************************************************************************)
(* The session a worker extracts with, and those of the other flows: it is *)
(* established only when the portal has shown what the flow looks for,     *)
(* however often the caller retries.                                       *)
(***************************************************************************)

(***************************************************************************)
(* A new session has no flag set and nothing posted.                       *)
(***************************************************************************)
LEMMA SessionInitInv == SessionInit => SessionInv
  <1> SUFFICES ASSUME SessionInit PROVE SessionInv
    OBVIOUS
  <1>1. NoPage \in Page
    BY DEF Page, NoPage
  <1>2. calls \in 0 .. MaxCalls
    BY MaxCallsAssumption DEF SessionInit
  <1>3. established = FALSE /\ captchaSolved = FALSE /\ stage = "idle"
    BY DEF SessionInit
  <1>4. SessionTypeOK
    <2>1. captchaSolved \in BOOLEAN /\ established \in BOOLEAN
      BY <1>3
    <2>2. cookies \in BOOLEAN /\ passed \in BOOLEAN
      BY DEF SessionInit
    <2>3. ~ captchaSolved
      BY <1>3
    <2> QED
      BY <1>1, <1>2, <1>3, <2>1, <2>2, <2>3 DEF SessionInit, SessionTypeOK
  <1> QED
    BY <1>3, <1>4 DEF SessionInv, EstablishedIsEarned

(***************************************************************************)
(* The types, step by step.                                                *)
(***************************************************************************)
LEMMA SessionTypeStep == SessionTypeOK /\ [SessionNext]_captchaVars => SessionTypeOK'
  <1> SUFFICES ASSUME SessionTypeOK, [SessionNext]_captchaVars PROVE SessionTypeOK'
    OBVIOUS
  <1> USE MaxCallsAssumption DEF SessionTypeOK, session, CallReturns
  <1>1. CASE call
    BY <1>1 DEF call, Kinds
  <1>2. CASE answer \/ visitFails \/ postFails
    BY <1>2 DEF answer, visitFails, postFails
  <1>3. CASE handleCaptchaResponse
    <2>1. captchaSolved' \in BOOLEAN /\ established' \in BOOLEAN
      <3>1. captchaSolved' = (captchaSolved \/ assumeSuccess)
            /\ established' = (established \/ assumeSuccess)
        BY <1>3 DEF handleCaptchaResponse
      <3> QED
        BY <3>1, Zenon
    <2> QED
      BY <1>3, <2>1 DEF handleCaptchaResponse
  <1>4. CASE handleTenderStatusResponse
    BY <1>4 DEF handleTenderStatusResponse
  <1>5. CASE verifySession
    <2>1. PICK p \in Page : /\ cookies' \in BOOLEAN
                            /\ established' = (established \/ (p.table /\ cookies'))
                            /\ passed' = (passed \/ p.table)
      BY <1>5 DEF verifySession
    <2>2. established' \in BOOLEAN /\ passed' \in BOOLEAN
      BY <2>1 DEF Page
    <2> QED
      BY <1>5, <2>1, <2>2 DEF verifySession
  <1>6. CASE verifyFails \/ otherPage \/ alreadySolved
    BY <1>6 DEF verifyFails, otherPage, alreadySolved
  <1>7. CASE tableFound
    BY <1>7 DEF tableFound
  <1>8. CASE HandleDocDownloadCaptchaResponse
    <2>1. established' \in BOOLEAN /\ passed' \in BOOLEAN
      BY <1>8, Zenon DEF HandleDocDownloadCaptchaResponse
    <2> QED
      BY <1>8, <2>1 DEF HandleDocDownloadCaptchaResponse
  <1>9. CASE noImage \/ solverFails \/ submit
    BY <1>9 DEF noImage, solverFails, submit, MustSolve, MarkSolved
  <1>10. CASE ready \/ timedOut
    BY <1>10 DEF ready, timedOut
  <1>11. CASE UNCHANGED captchaVars
    BY <1>11 DEF captchaVars
  <1> QED
    BY <1>1, <1>2, <1>3, <1>4, <1>5, <1>6, <1>7, <1>8, <1>9, <1>10, <1>11 DEF SessionNext

(***************************************************************************)
(* Every step keeps SessionInv.  The step that could break it is the response     *)
(* handler of the active-tenders flow: it finds captchaSolved set.         *)
(***************************************************************************)
LEMMA SessionNextInv == SessionInv /\ [SessionNext]_captchaVars => SessionInv'
  <1> SUFFICES ASSUME SessionInv, [SessionNext]_captchaVars PROVE SessionInv'
    OBVIOUS
  <1>1. SessionTypeOK /\ SessionTypeOK'
    BY SessionTypeStep DEF SessionInv
  <1> USE <1>1 DEF SessionInv, EstablishedIsEarned, session
  <1>2. CASE call
    BY <1>2 DEF call
  <1>3. CASE answer \/ visitFails \/ postFails
    BY <1>3 DEF answer, visitFails, postFails, CallReturns
  <1>4. CASE handleCaptchaResponse
    <2>1. ~ assumeSuccess
      BY <1>4 DEF handleCaptchaResponse, assumeSuccess
    <2>2. established' = established /\ passed' = passed /\ stage' = "html"
      BY <1>4, <2>1 DEF handleCaptchaResponse, SessionTypeOK
    <2> QED
      BY <2>2
  <1>5. CASE handleTenderStatusResponse
    BY <1>5 DEF handleTenderStatusResponse
  <1>6. CASE verifySession
    <2>1. PICK p \in Page : /\ established' = (established \/ (p.table /\ cookies'))
                            /\ passed' = (passed \/ p.table)
      BY <1>6 DEF verifySession
    <2> QED
      BY <1>6, <2>1 DEF verifySession
  <1>7. CASE verifyFails
    BY <1>7 DEF verifyFails
  <1>8. CASE HandleDocDownloadCaptchaResponse
    <2>1. established' => passed'
      BY <1>8, Zenon DEF HandleDocDownloadCaptchaResponse
    <2> QED
      BY <1>8, <2>1 DEF HandleDocDownloadCaptchaResponse
  <1>9. CASE otherPage \/ alreadySolved
    BY <1>9 DEF otherPage, alreadySolved
  <1>10. CASE tableFound
    BY <1>10 DEF tableFound
  <1>11. CASE noImage \/ solverFails
    BY <1>11 DEF noImage, solverFails
  <1>12. CASE submit
    BY <1>12 DEF submit, MarkSolved
  <1>13. CASE ready \/ timedOut
    BY <1>13 DEF ready, timedOut, CallReturns
  <1>14. CASE UNCHANGED captchaVars
    BY <1>14 DEF captchaVars
  <1> QED
    BY <1>2, <1>3, <1>4, <1>5, <1>6, <1>7, <1>8, <1>9, <1>10, <1>11, <1>12, <1>13, <1>14 DEF SessionNext

(***************************************************************************)
(* SessionInv holds in every state of every session.                              *)
(***************************************************************************)
THEOREM SessionInvariance == SessionSpec => []SessionInv
  BY SessionInitInv, SessionNextInv, PTL DEF SessionSpec

(***************************************************************************)
(* No session is established on a guess, for any number of retries: "assume *)
(* success" in session.go is never reached.                                *)
(***************************************************************************)
THEOREM Earned == SessionSpec => []EstablishedIsEarned
  <1>1. SessionInv => EstablishedIsEarned
    BY DEF SessionInv
  <1> QED
    BY <1>1, SessionInvariance, PTL
=============================================================================
