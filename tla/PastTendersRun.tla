--------------------------- MODULE PastTendersRun ---------------------------
(***************************************************************************)
(* Run of src/scraper/pastTenders/pastTenders.go, goroutine by goroutine:  *)
(* one portal ("state") after the other, its records go through a buffered *)
(* channel to workers that have established a session of their own, and    *)
(* the tenders they extract through one unbuffered channel to a writer     *)
(* that serves all portals.                                                *)
(*                                                                         *)
(* Sessions and extractions are external.  A portal without a file or      *)
(* without records has zero records.  The variable `written`, which the    *)
(* workers share without a lock, only feeds a progress message and is left *)
(* out.                                                                    *)
(***************************************************************************)
EXTENDS Integers, Sequences, FiniteSets

CONSTANTS
  NumPortals,         \* the portals of utils.BaseURLs
  NumRecords,         \* records in the CSV of each portal
  RecordsCap,         \* capacity of recordsCh, 1000 in the code
  MaxSessionParallel, \* utils.MaxSessionParallel
  MaxSessionFailures  \* bound: sessions that cannot be established

Larger(a, b) == IF a > b THEN a ELSE b
Smaller(a, b) == IF a < b THEN a ELSE b

CalculateOptimalWorkers(totalJobs) ==
  IF totalJobs < 100 THEN Larger(2, totalJobs \div 5)
                     ELSE Smaller(Larger(totalJobs \div 10, 10), 600)

Portals == 1..NumPortals
Records == UNION {{p} \X (1..NumRecords[p]) : p \in Portals}
WorkerIds == UNION {1..CalculateOptimalWorkers(NumRecords[p]) : p \in Portals}
NoRecord == <<0, 0>>

ASSUME PastTendersAssumption ==
  /\ NumPortals \in Nat
  /\ NumRecords \in [Portals -> Nat]
  /\ {RecordsCap, MaxSessionParallel} \subseteq Nat \ {0}
  /\ MaxSessionFailures \in Nat

VARIABLES
  main,        \* "portal", "feed", "wait", "drain" or "returned"
  portal,      \* the portal of the loop
  next,        \* the record it reads next
  recordsCh,   \* the channel of this portal
  pc,          \* where each worker is
  held,        \* the record it works on
  established, \* history: portals for which a session was established
  failures,    \* sessions that failed
  writing,     \* the record the writer holds
  writer,      \* "on" or "done"
  written,     \* records whose tender is in PastTenders.jsonl
  dropped      \* records logged and passed over: extraction, validation or write failed

workerVars == <<pc, held, established, failures>>
writerVars == <<writing, writer, written, dropped>>
vars == <<main, portal, next, recordsCh, workerVars, writerVars>>

PCs == {"gone", "limit", "session", "range", "extract", "send"}

TypeOK ==
  /\ main \in {"portal", "feed", "wait", "drain", "returned"}
  /\ portal \in 1..(NumPortals + 1)
  /\ next \in Nat \ {0}
  /\ recordsCh \in Seq(Records) /\ Len(recordsCh) <= RecordsCap
  /\ pc \in [WorkerIds -> PCs]
  /\ held \in [WorkerIds -> Records \cup {NoRecord}]
  /\ \A w \in WorkerIds : held[w] # NoRecord <=> pc[w] \in {"extract", "send"}
  /\ established \subseteq Portals
  /\ failures \in 0..MaxSessionFailures
  /\ writing \in Records \cup {NoRecord}
  /\ writer \in {"on", "done"}
  /\ written \subseteq Records
  /\ dropped \subseteq Records

Init ==
  /\ main = "portal" /\ portal = 1 /\ next = 1
  /\ recordsCh = <<>>
  /\ pc = [w \in WorkerIds |-> "gone"]
  /\ held = [w \in WorkerIds |-> NoRecord]
  /\ established = {} /\ failures = 0
  /\ writing = NoRecord /\ writer = "on"
  /\ written = {} /\ dropped = {}

Go(w, from, to) == pc[w] = from /\ pc' = [pc EXCEPT ![w] = to]

-----------------------------------------------------------------------------
(* The loop over the portals.                                              *)
(*                                                                         *)
(* A definition named X_Slip is a plausible mistake in X; no action uses   *)
(* it, it is there to show which property would notice.                    *)

skipPortal ==
  /\ main = "portal" /\ portal \in Portals
  /\ NumRecords[portal] = 0
  /\ portal' = portal + 1
  /\ UNCHANGED <<main, next, recordsCh, workerVars, writerVars>>

launch ==
  /\ main = "portal" /\ portal \in Portals
  /\ NumRecords[portal] > 0
  /\ main' = "feed"
  /\ next' = 1
  /\ recordsCh' = <<>>
  /\ pc' = [w \in WorkerIds |->
              IF w <= CalculateOptimalWorkers(NumRecords[portal]) THEN "limit" ELSE "gone"]
  /\ UNCHANGED <<portal, held, established, failures, writerVars>>

feed ==
  /\ main = "feed"
  /\ next <= NumRecords[portal]
  /\ Len(recordsCh) < RecordsCap
  /\ recordsCh' = Append(recordsCh, <<portal, next>>)
  /\ next' = next + 1
  /\ UNCHANGED <<main, portal, workerVars, writerVars>>

closeRecords ==
  /\ main = "feed"
  /\ next > NumRecords[portal]
  /\ main' = "wait"
  /\ UNCHANGED <<portal, next, recordsCh, workerVars, writerVars>>

WorkersDone == \A w \in WorkerIds : pc[w] = "gone"

nextPortal ==
  /\ main = "wait"
  /\ WorkersDone
  /\ main' = "portal"
  /\ portal' = portal + 1
  /\ UNCHANGED <<next, recordsCh, workerVars, writerVars>>

closeWriteCh ==
  /\ main = "portal" /\ portal > NumPortals
  /\ main' = "drain"
  /\ UNCHANGED <<portal, next, recordsCh, workerVars, writerVars>>

return ==
  /\ main = "drain"
  /\ writer = "done"
  /\ main' = "returned"
  /\ UNCHANGED <<portal, next, recordsCh, workerVars, writerVars>>

-----------------------------------------------------------------------------
(* A worker.                                                               *)

acquire(w) ==
  /\ Cardinality({v \in WorkerIds : pc[v] = "session"}) < MaxSessionParallel
  /\ Go(w, "limit", "session")
  /\ UNCHANGED <<main, portal, next, recordsCh, held, established, failures, writerVars>>

sessionOk(w) ==
  /\ Go(w, "session", "range")
  /\ established' = established \cup {portal}
  /\ UNCHANGED <<main, portal, next, recordsCh, held, failures, writerVars>>

sessionFails(w) ==
  /\ failures < MaxSessionFailures
  /\ failures' = failures + 1
  /\ Go(w, "session", "gone")
  /\ UNCHANGED <<main, portal, next, recordsCh, held, established, writerVars>>

take(w) ==
  /\ recordsCh # <<>>
  /\ Go(w, "range", "extract")
  /\ held' = [held EXCEPT ![w] = Head(recordsCh)]
  /\ recordsCh' = Tail(recordsCh)
  /\ UNCHANGED <<main, portal, next, established, failures, writerVars>>

leave(w) ==
  /\ main = "wait" /\ recordsCh = <<>>
  /\ Go(w, "range", "gone")
  /\ UNCHANGED <<main, portal, next, recordsCh, held, established, failures, writerVars>>

extractOk(w) ==
  /\ Go(w, "extract", "send")
  /\ UNCHANGED <<main, portal, next, recordsCh, held, established, failures, writerVars>>

extractFails_Leaves(w) ==
  /\ Go(w, "extract", "gone")
  /\ held' = [held EXCEPT ![w] = NoRecord]
  /\ dropped' = dropped \cup {held[w]}
  /\ UNCHANGED <<main, portal, next, recordsCh, established, failures, writing, writer, written>>

extractFails(w) ==
  /\ Go(w, "extract", "range")
  /\ held' = [held EXCEPT ![w] = NoRecord]
  /\ dropped' = dropped \cup {held[w]}
  /\ UNCHANGED <<main, portal, next, recordsCh, established, failures, writing, writer, written>>

(* writeCh is unbuffered: the writer takes the tender as the worker sends. *)
sendTender_NoWriter(w) ==
  /\ writer = "on"
  /\ Go(w, "send", "range")
  /\ writing' = held[w]
  /\ held' = [held EXCEPT ![w] = NoRecord]
  /\ UNCHANGED <<main, portal, next, recordsCh, established, failures, writer, written, dropped>>

sendTender(w) ==
  /\ writer = "on" /\ writing = NoRecord
  /\ Go(w, "send", "range")
  /\ writing' = held[w]
  /\ held' = [held EXCEPT ![w] = NoRecord]
  /\ UNCHANGED <<main, portal, next, recordsCh, established, failures, writer, written, dropped>>

-----------------------------------------------------------------------------
(* The writer.                                                             *)

write ==
  /\ writing # NoRecord
  /\ writing' = NoRecord
  /\ \/ written' = written \cup {writing} /\ UNCHANGED dropped
     \/ dropped' = dropped \cup {writing} /\ UNCHANGED written
  /\ UNCHANGED <<main, portal, next, recordsCh, workerVars, writer>>

writerEnds ==
  /\ main = "drain" /\ writer = "on" /\ writing = NoRecord
  /\ writer' = "done"
  /\ UNCHANGED <<main, portal, next, recordsCh, workerVars, writing, written, dropped>>

-----------------------------------------------------------------------------
run == skipPortal \/ launch \/ feed \/ closeRecords \/ nextPortal \/ closeWriteCh \/ return

worker(w) ==
  \/ acquire(w) \/ sessionOk(w) \/ sessionFails(w)
  \/ take(w) \/ leave(w)
  \/ extractOk(w) \/ extractFails(w) \/ sendTender(w)

Next ==
  \/ run
  \/ \E w \in WorkerIds : worker(w)
  \/ write \/ writerEnds

Spec == Init /\ [][Next]_vars

(* Every goroutine that can run is scheduled, channels serve their waiters *)
(* in order, and sessions and extractions end: they have timeouts.         *)
FairSpec ==
  /\ Spec
  /\ WF_vars(run)
  /\ \A w \in WorkerIds : SF_vars(worker(w))
  /\ WF_vars(write \/ writerEnds)

-----------------------------------------------------------------------------
(* Properties.                                                             *)

Elements(s) == {s[i] : i \in 1..Len(s)}
Busy == {w \in WorkerIds : held[w] # NoRecord}

(* What has been read so far of the portals done and of the current one.   *)
Read == {r \in Records : r[1] < portal \/ (r[1] = portal /\ main # "portal" /\ r[2] < next)}

(* RecordKeptOnce: while a session of its portal lives, a record that was  *)
(* read is in exactly one place: the channel, one worker, the writer, the  *)
(* file, or the log of what was passed over.  Only the records of a portal *)
(* without a session are left behind, in a channel nobody reads; when Run  *)
(* returns, all others have been written or passed over.                   *)
RecordKeptOnce ==
  LET places == <<Elements(recordsCh), {held[w] : w \in Busy}, {writing} \ {NoRecord},
                  written, dropped>>
  IN /\ \A i, k \in 1..Len(places) : i # k => places[i] \cap places[k] = {}
     /\ \A v, w \in Busy : held[v] = held[w] => v = w
     /\ {r \in Read : r[1] \in established} \subseteq UNION Elements(places)
     /\ main = "returned" =>
          {r \in Records : r[1] \in established} \subseteq written \cup dropped

(* The feeder of a portal none of whose workers got a session waits at a   *)
(* full channel that nobody will read.                                     *)
Stuck ==
  /\ main = "feed" /\ WorkersDone /\ portal \notin established
  /\ Len(recordsCh) = RecordsCap

(* EveryRunReturns: however many sessions and extractions fail, Run        *)
(* returns, unless a portal without any session has more records than its  *)
(* channel holds.                                                          *)
EveryRunReturns == <>(main = "returned" \/ Stuck)
=============================================================================
