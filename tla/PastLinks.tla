------------------------------ MODULE PastLinks ------------------------------
(***************************************************************************)
(* The crawl for links of past tenders: LinkExtractor.PastTenders          *)
(* (scraper/nav/linkExtract.go), the PastScraper that turns the pages      *)
(* (scraper/nav/pastTenders.go) and the two CSV writers of a portal        *)
(* (scraper/nav/pastTendersWriter.go).                                     *)
(*                                                                         *)
(* PastTenders first cuts the dates into ranges (DateRanges).  Then every  *)
(* portal has its own goroutine, queue of ranges, workers and writers.     *)
(* What the portals share is the semaphore that limits how many workers    *)
(* establish a session at once.  A page of results holds one row here; the *)
(* portal is external and may show a row, a row too short to be written, a *)
(* page without rows (an expired session, a changed layout), or fail.      *)
(***************************************************************************)
EXTENDS DateRanges, FiniteSets, SequencesExt

CONSTANTS
    Portals,             \* utils.BaseURLs
    Pages,               \* pages of results of each range
    MaxWorkers,          \* 60 in CalculateWorkersPastLinks
    MaxSessionParallel,  \* capacity of sem
    RowsCap, FailsCap    \* capacities of the writers' channels (2000, 1000)

ASSUME BoundsAssumption ==
    {Pages, MaxWorkers, MaxSessionParallel, RowsCap, FailsCap} \subseteq Nat \ {0}

\* A worker of a portal; the first NumWorkers of them are launched.
Workers == Portals \X (1 .. MaxWorkers)

Portal(w) == w[1]

VARIABLES
    feeder,     \* the portal's goroutine
    jobs,       \* its queue of ranges (by their numbers), with room for all
    sem,        \* slots of the semaphore in use
    worker,     \* where each worker is
    current,    \* the range each works on
    scraped, total,         \* of the worker's PastScraper
    rows, rowsFile,         \* the PastWriter's channel, and the rows in its file
    buffered,   \* the rows that its csv.Writer holds in memory
    rowsBroken, \* the portals whose csv.Writer of rows has met an error, which it keeps
    fails, failsFile, failsBroken,      \* the same of the FailedWriter, which flushes each record
    parsed,     \* history: the rows the workers made
    failedRanges            \* history: the ranges whose session or first visit failed

crawlVars == <<feeder, jobs, sem, worker, current, scraped, total,
               rows, buffered, rowsBroken, rowsFile, fails, failsBroken, failsFile,
               parsed, failedRanges>>

vars == <<splitVars, crawlVars>>

rowFile == <<buffered, rowsBroken, rowsFile>>
failFile == <<failsBroken, failsFile>>
writers == <<rows, rowFile, fails, failFile>>
scraper == <<current, scraped, total>>
history == <<parsed, failedRanges>>

DateRange == DOMAIN ranges

Row == DateRange \X (1 .. Pages)

\* A failure record: the dates of a range, or the two empty dates that
\* PastScraper.Run writes (its fromDate and toDate are never set).
NoDates == 0

Failure == DateRange \cup {NoDates}

\* CalculateWorkersPastLinks.
NumWorkers == IF Len(ranges) < MaxWorkers THEN Len(ranges) ELSE MaxWorkers

Init ==
    /\ SplitInit
    /\ feeder = [p \in Portals |-> "feed"]
    /\ jobs = [p \in Portals |-> <<>>]
    /\ sem = 0
    /\ worker = [w \in Workers |-> "none"]
    /\ current = [w \in Workers |-> 1]
    /\ scraped = [w \in Workers |-> 0]
    /\ total = [w \in Workers |-> 0]
    /\ rows = [p \in Portals |-> <<>>]
    /\ rowsFile = [p \in Portals |-> {}]
    /\ buffered = [p \in Portals |-> {}]
    /\ rowsBroken = {} /\ failsBroken = {}
    /\ fails = [p \in Portals |-> <<>>]
    /\ failsFile = [p \in Portals |-> <<>>]
    /\ parsed = [p \in Portals |-> {}]
    /\ failedRanges = [p \in Portals |-> {}]

Go(w, place) == worker' = [worker EXCEPT ![w] = place]

FeederGoes(p, place) == feeder' = [feeder EXCEPT ![p] = place]

-----------------------------------------------------------------------------
(* A definition named X_Slip is a plausible mistake in X; no action uses   *)
(* it, it is there to show which property would notice.                    *)

\* The portal launches its workers, feeds the queue and closes it.  The queue has
\* room for every range, so nothing blocks and all this is one step: a worker stops
\* only at the closed queue.
feed(p) ==
    /\ returned /\ feeder[p] = "feed"
    /\ jobs' = [jobs EXCEPT ![p] = [r \in DateRange |-> r]]
    /\ worker' = [w \in Workers |->
                    IF Portal(w) = p /\ w[2] <= NumWorkers THEN "idle" ELSE worker[w]]
    /\ FeederGoes(p, "wait")
    /\ UNCHANGED sem /\ UNCHANGED writers
    /\ UNCHANGED scraper /\ UNCHANGED history

takeRange_KeepsHead(p) == jobs[p]

takeRange(p) == Tail(jobs[p])

\* A worker takes the next range and makes a session for it.
take(w) ==
    LET p == Portal(w) IN
    /\ worker[w] = "idle" /\ jobs[p] # <<>>
    /\ current' = [current EXCEPT ![w] = Head(jobs[p])]
    /\ jobs' = [jobs EXCEPT ![p] = takeRange(p)]
    /\ scraped' = [scraped EXCEPT ![w] = 0]
    /\ total' = [total EXCEPT ![w] = 0]
    /\ Go(w, "slot")
    /\ UNCHANGED <<feeder, sem>> /\ UNCHANGED writers /\ UNCHANGED history

stop(w) ==
    /\ worker[w] = "idle" /\ jobs[Portal(w)] = <<>>
    /\ Go(w, "done")
    /\ UNCHANGED <<feeder, jobs, sem>> /\ UNCHANGED writers
    /\ UNCHANGED scraper /\ UNCHANGED history

acquire_NoLimit(w) ==
    /\ worker[w] = "slot"
    /\ sem' = sem + 1
    /\ Go(w, "session")
    /\ UNCHANGED <<feeder, jobs>> /\ UNCHANGED writers
    /\ UNCHANGED scraper /\ UNCHANGED history

acquire(w) ==
    /\ worker[w] = "slot" /\ sem < MaxSessionParallel
    /\ sem' = sem + 1
    /\ Go(w, "session")
    /\ UNCHANGED <<feeder, jobs>> /\ UNCHANGED writers
    /\ UNCHANGED scraper /\ UNCHANGED history

sessionOk(w) ==
    /\ worker[w] = "session"
    /\ sem' = sem - 1
    /\ Go(w, "first")
    /\ UNCHANGED <<feeder, jobs>> /\ UNCHANGED writers
    /\ UNCHANGED scraper /\ UNCHANGED history

MarkFailed(w) ==
    failedRanges' = [failedRanges EXCEPT ![Portal(w)] = @ \cup {current[w]}]

\* The session was not established: the failure is written with the slot held.
sessionFails(w) ==
    /\ worker[w] = "session"
    /\ MarkFailed(w)
    /\ Go(w, "failInSlot")
    /\ UNCHANGED <<feeder, jobs, sem, parsed>> /\ UNCHANGED writers
    /\ UNCHANGED scraper

\* FailedWriter.WriteFailure: a send that blocks when the channel is full.
WriteFailure(p, record) ==
    /\ Len(fails[p]) < FailsCap
    /\ fails' = [fails EXCEPT ![p] = Append(@, record)]

failInSlot_KeepsSlot(w) ==
    /\ worker[w] = "failInSlot"
    /\ WriteFailure(Portal(w), current[w])
    /\ Go(w, "idle")
    /\ UNCHANGED <<feeder, jobs, sem, rows, rowFile, failFile>>
    /\ UNCHANGED scraper /\ UNCHANGED history

failInSlot(w) ==
    /\ worker[w] = "failInSlot"
    /\ WriteFailure(Portal(w), current[w])
    /\ sem' = sem - 1
    /\ Go(w, "idle")
    /\ UNCHANGED <<feeder, jobs, rows, rowFile, failFile>>
    /\ UNCHANGED scraper /\ UNCHANGED history

-----------------------------------------------------------------------------
(* PastScraper.Run: the first page, then the next ones.                    *)

\* The portal says how many records there are, or the text is not found; only the
\* first number counts.
readTotal(w) ==
    \E n \in {0, Pages} :
        total' = [total EXCEPT ![w] = IF @ = 0 THEN n ELSE @]

\* The loop condition: the number of records is known, and that many rows were seen.
Enough(w) == total[w] > 0 /\ scraped[w] >= total[w]

\* The worker may visit a page: the first of the range, or the next one.
Visiting(w) ==
    \/ worker[w] = "first"
    \/ worker[w] = "next" /\ ~ Enough(w)

\* A page with the next row of the range: it is counted, and written next.
pageWithRow(w) ==
    /\ Visiting(w) /\ scraped[w] < Pages
    /\ scraped' = [scraped EXCEPT ![w] = @ + 1]
    /\ readTotal(w)
    /\ parsed' = [parsed EXCEPT ![Portal(w)] = @ \cup {<<current[w], scraped[w] + 1>>}]
    /\ Go(w, "write")
    /\ UNCHANGED <<feeder, jobs, sem, current, failedRanges>> /\ UNCHANGED writers

\* A row with too few cells: counted, not written.
pageWithShortRow(w) ==
    /\ Visiting(w) /\ scraped[w] < Pages
    /\ scraped' = [scraped EXCEPT ![w] = @ + 1]
    /\ readTotal(w)
    /\ Go(w, "next")
    /\ UNCHANGED <<feeder, jobs, sem, current>> /\ UNCHANGED writers
    /\ UNCHANGED history

\* A page without rows: after the first page the next one is tried, after a later
\* page the range is finished.
pageWithoutRows(w) ==
    /\ Visiting(w)
    /\ readTotal(w)
    /\ Go(w, IF worker[w] = "first" THEN "next" ELSE "idle")
    /\ UNCHANGED <<feeder, jobs, sem, current, scraped>> /\ UNCHANGED writers
    /\ UNCHANGED history

\* handlePagination stops, and Run returns nil.
enough(w) ==
    /\ worker[w] = "next" /\ Enough(w)
    /\ Go(w, "idle")
    /\ UNCHANGED <<feeder, jobs, sem>> /\ UNCHANGED writers
    /\ UNCHANGED scraper /\ UNCHANGED history

\* A later page could not be visited: the loop breaks, and Run returns nil.
nextFails(w) ==
    /\ worker[w] = "next" /\ ~ Enough(w)
    /\ Go(w, "idle")
    /\ UNCHANGED <<feeder, jobs, sem>> /\ UNCHANGED writers
    /\ UNCHANGED scraper /\ UNCHANGED history

\* The first page could not be visited: Run writes a failure and returns an error...
firstFails(w) ==
    /\ worker[w] = "first"
    /\ WriteFailure(Portal(w), NoDates)
    /\ MarkFailed(w)
    /\ Go(w, "fail")
    /\ UNCHANGED <<feeder, jobs, sem, rows, rowFile, failFile, parsed>>
    /\ UNCHANGED scraper

\* ... for which the worker writes another.
fail_OnlyLogs(w) ==
    /\ worker[w] = "fail"
    /\ Go(w, "idle")
    /\ UNCHANGED <<feeder, jobs, sem>> /\ UNCHANGED writers
    /\ UNCHANGED scraper /\ UNCHANGED history

fail(w) ==
    /\ worker[w] = "fail"
    /\ WriteFailure(Portal(w), current[w])
    /\ Go(w, "idle")
    /\ UNCHANGED <<feeder, jobs, sem, rows, rowFile, failFile>>
    /\ UNCHANGED scraper /\ UNCHANGED history

\* PastWriter.WriteRow: a send that blocks when the channel is full.
write(w) ==
    LET p == Portal(w) IN
    /\ worker[w] = "write" /\ Len(rows[p]) < RowsCap
    /\ rows' = [rows EXCEPT ![p] = Append(@, <<current[w], scraped[w]>>)]
    /\ Go(w, "next")
    /\ UNCHANGED <<feeder, jobs, sem, rowFile, fails, failFile>>
    /\ UNCHANGED scraper /\ UNCHANGED history

-----------------------------------------------------------------------------
(* The writers' goroutines, and the end of a portal.                       *)

\* The disk refuses: part of what the csv.Writer held is in the file, and the error
\* stays with it, so that all that follows is lost.
Refused(p) ==
    /\ p \notin rowsBroken
    /\ rowsBroken' = rowsBroken \cup {p}
    /\ \E reached \in SUBSET buffered[p] :
          rowsFile' = [rowsFile EXCEPT ![p] = @ \cup reached]
    /\ buffered' = [buffered EXCEPT ![p] = {}]

Flushed(p, held) ==
    /\ p \notin rowsBroken
    /\ rowsFile' = [rowsFile EXCEPT ![p] = @ \cup buffered[p]]
    /\ buffered' = [buffered EXCEPT ![p] = held]
    /\ UNCHANGED rowsBroken

\* Returning from the loop at the first error.
writeRow_GivesUp(p) ==
    /\ rows[p] # <<>> /\ p \notin rowsBroken
    /\ rows' = [rows EXCEPT ![p] = Tail(@)]
    /\ \/ Flushed(p, {Head(rows[p])})
       \/ Refused(p)
    /\ UNCHANGED <<feeder, jobs, sem, worker, fails, failFile>>
    /\ UNCHANGED scraper /\ UNCHANGED history

\* The row fits in memory, or makes the csv.Writer write out what it holds, or is lost
\* with an error that is only logged.  In each case the next row is received.
writeRow(p) ==
    /\ rows[p] # <<>>
    /\ rows' = [rows EXCEPT ![p] = Tail(@)]
    /\ \/ /\ p \notin rowsBroken
          /\ buffered' = [buffered EXCEPT ![p] = @ \cup {Head(rows[p])}]
          /\ UNCHANGED <<rowsBroken, rowsFile>>
       \/ Flushed(p, {Head(rows[p])})
       \/ Refused(p)
       \/ p \in rowsBroken /\ UNCHANGED rowFile
    /\ UNCHANGED <<feeder, jobs, sem, worker, fails, failFile>>
    /\ UNCHANGED scraper /\ UNCHANGED history

\* A failure record is written out at once.  Its errors are not even logged.
writeFail(p) ==
    /\ fails[p] # <<>>
    /\ fails' = [fails EXCEPT ![p] = Tail(@)]
    /\ \/ /\ p \notin failsBroken
          /\ failsFile' = [failsFile EXCEPT ![p] = Append(@, Head(fails[p]))]
          /\ UNCHANGED failsBroken
       \/ failsBroken' = failsBroken \cup {p} /\ UNCHANGED failsFile
    /\ UNCHANGED <<feeder, jobs, sem, worker, rows, rowFile>>
    /\ UNCHANGED scraper /\ UNCHANGED history

\* workers.Wait; the deferred calls then close the failure writer first.
WorkersDone(p) == \A w \in Workers : Portal(w) = p => worker[w] \in {"none", "done"}

closeFails(p) ==
    /\ feeder[p] = "wait" /\ WorkersDone(p)
    /\ FeederGoes(p, "closeFails")
    /\ UNCHANGED <<jobs, sem, worker>> /\ UNCHANGED writers
    /\ UNCHANGED scraper /\ UNCHANGED history

closeRows(p) ==
    /\ feeder[p] = "closeFails" /\ fails[p] = <<>>
    /\ FeederGoes(p, "closeRows")
    /\ UNCHANGED <<jobs, sem, worker>> /\ UNCHANGED writers
    /\ UNCHANGED scraper /\ UNCHANGED history

Drained(p) == rows[p] = <<>>

\* The deferred Flush of the PastWriter: its error is not looked at.
finish(p) ==
    /\ feeder[p] = "closeRows" /\ Drained(p)
    /\ FeederGoes(p, "done")
    /\ Flushed(p, {}) \/ Refused(p) \/ (p \in rowsBroken /\ UNCHANGED rowFile)
    /\ UNCHANGED <<jobs, sem, worker, rows, fails, failFile>>
    /\ UNCHANGED scraper /\ UNCHANGED history

workerStep(w) ==
    /\ \/ take(w) \/ stop(w) \/ acquire(w) \/ sessionOk(w) \/ sessionFails(w)
       \/ failInSlot(w) \/ pageWithRow(w) \/ pageWithShortRow(w)
       \/ pageWithoutRows(w) \/ enough(w) \/ nextFails(w) \/ firstFails(w)
       \/ fail(w) \/ write(w)
    /\ UNCHANGED splitVars

portalStep(p) ==
    /\ feed(p) \/ closeFails(p) \/ closeRows(p) \/ finish(p)
    /\ UNCHANGED splitVars

writerStep(p) ==
    /\ writeRow(p) \/ writeFail(p)
    /\ UNCHANGED splitVars

splitStep == SplitNext /\ UNCHANGED crawlVars

Next ==
    \/ splitStep
    \/ \E w \in Workers : workerStep(w)
    \/ \E p \in Portals : portalStep(p) \/ writerStep(p)

Spec == Init /\ [][Next]_vars

\* Goroutines are scheduled, visits and solvers end (CaptchaSession says when not),
\* and Go's channels serve waiting senders in turn.
\* A worker that sends or acquires is served in the end because strong fairness of
\* its step is what waiting in turn amounts to.
FairSpec ==
    /\ Spec
    /\ WF_vars(splitStep)
    /\ \A w \in Workers : SF_vars(workerStep(w))
    /\ \A p \in Portals : WF_vars(portalStep(p)) /\ WF_vars(writerStep(p))

-----------------------------------------------------------------------------
\* The variables have their types and no channel holds more than its capacity.
TypeOK ==
    /\ SplitTypeOK
    /\ feeder \in [Portals -> {"feed", "wait", "closeFails", "closeRows", "done"}]
    /\ \A p \in Portals :
         /\ ToSet(jobs[p]) \subseteq DateRange
         /\ ToSet(rows[p]) \subseteq Row /\ Len(rows[p]) <= RowsCap
         /\ ToSet(fails[p]) \cup ToSet(failsFile[p]) \subseteq Failure
         /\ Len(fails[p]) <= FailsCap
    /\ rowsFile \in [Portals -> SUBSET Row] /\ buffered \in [Portals -> SUBSET Row]
    /\ parsed \in [Portals -> SUBSET Row]
    /\ rowsBroken \subseteq Portals /\ failsBroken \subseteq Portals
    /\ failedRanges \in [Portals -> SUBSET DateRange]
    /\ sem \in 0 .. MaxSessionParallel
    /\ worker \in [Workers -> {"none", "idle", "slot", "session", "failInSlot",
                               "first", "next", "write", "fail", "done"}]
    /\ \A w \in Workers : worker[w] # "none" => current[w] \in DateRange
    /\ scraped \in [Workers -> 0 .. Pages] /\ total \in [Workers -> 0 .. Pages]

Establishing == {w \in Workers : worker[w] \in {"session", "failInSlot"}}

\* A slot of the semaphore is held exactly by the workers that are establishing a
\* session, on every path through success, failure and a full failure channel.
SlotsExact == sem = Cardinality(Establishing)

Searching(w) == worker[w] \notin {"none", "idle", "done"}

\* No day is searched by two workers of a portal: neither do they get one range, nor
\* do two ranges share a day.
DaySearchedOnce ==
    \A v, w \in Workers :
        v # w /\ Portal(v) = Portal(w) /\ Searching(v) /\ Searching(w) =>
            ~ \E d \in from .. to : Holds(current[v], d) /\ Holds(current[w], d)

\* A file has only rows that were parsed.  When a portal is finished and its file was
\* never refused, every row that was parsed is in it, those held in memory to the end
\* too; and the failure file, if it was never refused, has every range whose session or
\* first page failed, with its dates.  A refusal loses rows, and only a log line or
\* nothing tells of it.
FilesComplete ==
    \A p \in Portals :
        /\ rowsFile[p] \subseteq parsed[p]
        /\ feeder[p] = "done" =>
             /\ p \in rowsBroken \/ rowsFile[p] = parsed[p]
             /\ p \in failsBroken \/ failedRanges[p] \subseteq ToSet(failsFile[p])

\* The crawl of every portal ends, also when a file is refused: its writer must go on
\* receiving, or the workers wait for it for ever.
EveryPortalEnds == \A p \in Portals : <>(feeder[p] = "done")
=============================================================================
