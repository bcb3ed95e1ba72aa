# TenderScraper in TLA+

This directory holds a model of TenderScraper (the Go program one directory up, in `src/`): TLA+
modules translated from its source, TLC configurations that check them on small instances, and
TLAPS proofs of the results that matter most for every instance. Paths below are relative to `src/`.

* `tlc -config <run>.cfg <module>` repeats a run (the table under *Runs* names the module),
* `tlapm <module>Proofs.tla` repeats a proof,
* `PROJECT.json` maps every definition to the lines it was translated from, and lists the runs, the
  findings, the hazards and, for each property, a mutation of the code it would catch.

## 1. The system

TenderScraper collects public tenders from the portals of Indian authorities. It is two programs
over one set of packages.

* The **service** (`http/`) accepts download jobs over HTTP, keeps them in PostgreSQL, passes them
  through RabbitMQ to its own workers (the *Go stage*), and hands finished ones to a *Python stage*
  that is not in this repository.
* The **command line** (`cli/`) runs one of five crawls: links of active tenders, their data, links
  of past tenders, their data, and the documents of all known tenders.

### Components

| component | state it keeps | operations | talks to |
|---|---|---|---|
| job creation (`http/main.go`) | tables `jobs`, `outbox` | insert both in one transaction; reset `running_go` at start-up | database |
| outbox publisher (`http/outbox.go`, `rabbit_publisher.go`) | `outbox.sent`, one channel | every tick: select ten unsent rows, publish each, mark it | database, broker |
| consumer (`http/worker_consumer.go`) | deliveries in hand, five goroutines | receive, feed, ack, nack, drain | broker |
| job worker (`http/worker_consumer.go`) | `jobs.status`, `attempts`, `last_error` | claim, run `ProcessTender`, hand over with an outbox row, give up | database, documents |
| documents of a tender (`cli/commands/document_download.go`, `docDownloads/`) | a directory per tender, the S3 bucket, link lists | look for the folder, solve a captcha, list, download in parallel, zip, upload, clean up, count | portal, S3 |
| batch download (`cli/commands/retryBatches.go`) | list of failures, four slots | run a batch, retry a tender, run the failures again | documents |
| HTTP sessions and captchas (`session/`, `docDownloads/captcha.go`) | `captchaSolved`, `sessionEstablished`, cookies | visit, solve, post, verify, wait with a timer | portal, solver |
| browser session (`session-browser/`) | a page | up to three captcha attempts | browser, solver |
| captcha solvers (`scraper/captcha/solver.go`) | two locks, time of the last solve | OCR server, prompt, paid service | HTTP, stdin |
| active links (`scraper/nav/linkExtract.go`, `nav/active/`) | `urlCh`, `errCh`, a CSV file per portal | poll a table, extract batches, append | browser |
| past links (`scraper/nav/`) | queue of date ranges, session slots, two writers | search a range, turn pages, write rows and failures | portal |
| date chunks (`utils/date.go`) | none | `SplitDateRange` | — |
| active data (`scraper/extract/`) | `jobs`, `results`, `remainingJobs`, a context | queue rows, extract, count down, cancel, write | portal |
| past data (`scraper/pastTenders/`) | `recordsCh`, `writeCh`, session slots | feed a portal, extract, write | portal |
| page handlers and parsers (`scraper/extract/parser.go`, `scraper/pastTenders/tenderData.go`, `resultsData.go`) | the handlers attached to a collector, the pages it has visited, the data of a tender | attach and detach handlers, visit a page from within a handler, keep a value | portal |
| data types, menu, logging | none that outlives a call | formatting | — |

### Where the difficulty is

* **Two stores and a broker.** The row is published and then marked; the job is claimed and then
  the message acknowledged. A crash or an error between two of these steps is the normal case for
  an outbox, and what the redelivered message then finds decides whether a job is lost, run twice
  or handed over twice.
* **Goroutines over shared channels.** Five of the crawls start workers, feed them, and close the
  channels behind them. Each has its own order of closing, waiting and cancelling, and each has a
  case in which nobody is left to read or to close.
* **Counters that stand for a state.** `remainingJobs` means "done" at zero, `attempts` means "give
  up" at five, one object in S3 means "uploaded".
* **Synchronous callbacks.** A session is established inside `Visit`, by handlers that post and so
  visit again. The timers start afterwards. The pages of a tender are read the same way: a handler
  attaches handlers and visits the next page before the page it runs on has been handled.
* **Directories and files that are shared** by two runs of a tender, or by two runs on one day.

What would make each component correct: a job is run by one worker at a time, handed over at most
once and always ends; no message is leaked by the consumer; a successful document run has uploaded
what it set out to fetch and never half a file; every crawl writes each row it read once and returns; date
chunks partition the interval; a session that counts as established was earned; the data of a tender
is that of its own pages, and of the right one where two pages show it.

## 2. Modules

| module | models | abstract or composed with |
|---|---|---|
| `JobLifecycle` | what a caller of the service may rely on: the life of one job | abstract |
| `JobPipeline` | creation, outbox publisher, broker, workers, restarts | implements `JobLifecycle`; the run of `ProcessTender` is one step that succeeds or fails, or never comes |
| `WorkerConsumer` | the goroutines of the consumer below `receive` and `ack` of `JobPipeline` | the work on a message is one step |
| `TenderDocs` | `ProcessTender` and `DocDownloader.Run`, several runs over one directory and bucket | |
| `DownloadBatch` | the batch command above it | a run is one step that succeeds or fails, or hangs |
| `ExtractLedger` | what an extraction promises of its inputs | abstract |
| `ConcurrentExtract` | extraction of active tenders | implements `ExtractLedger`; the pages of a tender are one step |
| `PastTendersRun` | extraction of past tenders | the pages of a tender are one step |
| `Collector` | what both page flows rely on in the `colly` collector, and the data its handlers fill in | |
| `ActivePages`, `PastPages` | the pages of one active and one past tender | extend `Collector` |
| `TenderPages` | a session that extracts several tenders | composes `ActivePages` and `PastPages` |
| `DateRanges` | `SplitDateRange` | |
| `PastLinks` | search for past tenders | extends `DateRanges`: first the dates are cut, then the ranges are searched; implements `SplitSpec` |
| `ActiveLinks` | search for active tenders in a browser, with its captcha attempts | |
| `CaptchaSession` | the three captcha flows over HTTP | |
| `MC…` | constants for TLC | |
| `…Proofs` | theorems of the module named, with those of `DownloadBatch` in `TenderDocsProofs`, of `CaptchaSession` in `ConcurrentExtractProofs` and of `DateRanges` in `PastLinksProofs`; `TenderPagesProofs` is about the four modules of the pages | extend the modules they are about |

Variables and actions have the names of the code where it has names; `PROJECT.json` gives the lines.
A definition with an underscore in its name (`TakeJob_NoGuard`, `Drained_NoWait`, …) is a plausible
mistake in the definition named first: no action uses it, it shows which property notices it.

**JobPipeline.** `status`, `attempts` and `outbox` are the two tables, `goQueue` and `pyQueue` the
durable queues, `batch` what the publisher has selected, `pc`, `job`, `cur` the worker's place, its
job and `curAttempts`. One SQL statement or transaction is one step, and so is one call of the
broker; the publisher's select, publish and mark are three, the worker's claim, run, commit, read of
`attempts`, marking and acknowledgement are steps of their own, so that everything may happen in
between. `FaultKinds` says what may fail and `MaxFaults` how often. `faults` counts them and remembers
whether one was `Lossy`: a publish that is reported sent and was not, a claim or commit whose reply
is lost, a failed result transaction or failed marking, a lost connection. Those are the faults no
retry of the service gets over; a failing publish, marking of a row, select or claim is tried again.
A lost connection requeues what is unacknowledged; `crash` ends the process at any step, `shutdown`
and `exit` do what `main` does, which does not wait for the workers; `start` resets `running_go`.

**WorkerConsumer.** The feeder is in one of three places: in `range msgs`, in the `select`, in
`wg.Wait`. `deliveries` is unbuffered, so a send is a rendezvous with an idle worker. The monitor
closes `deliveries` on a cancellation; `feedPanic` is the send of the feeder on the closed channel,
which ends the process, as nothing recovers it.

**TenderDocs.** A document is a model value; a file or an object is absent, partial (of a transfer
that broke off) or whole. A run goes through folder check, captcha, listing, downloads (at most
`MaxParallel` at once, one retry as one more transfer), zip, uploads, clean-up and counts. A transfer
may stall for ever, as the client of `DownloadFile` has no timeout and its request no context; it
keeps its slot and its goroutine (`stalled`). `asked` is a history variable: the documents a run set
out to fetch. Two runs share the directory and the bucket and may
overlap, as two jobs for one tender do; `overlapped` is another history variable, which says whether they did.

**ConcurrentExtract, PastTendersRun, PastLinks, ActiveLinks.** Each channel is a sequence with its
capacity, each goroutine a `pc`. A portal is external: a page, a session or an extraction succeeds
or fails as it likes. In `PastLinks` a `csv.Writer` holds rows back (`buffered`) until it or the
deferred `Flush` writes them; when the disk refuses, a part of them may be in the file, and all that
follows is lost while the rows are still received (`rowsBroken`; `failsBroken` for the failures). In `ActiveLinks` a table grows while it is polled, a `Must…` call of the
browser library that panics ends the process, and a batch that cannot be
saved is dropped: its file could not be opened or cleared (`saveFails`, `unsaved`), or the disk refused
after that (`saveBreaks`, `broken`), which leaves in the file some of its lines and perhaps a part of
one (`Torn`), with which the line appended next is lost. A batch is the set of the rows of its interval that name a tender; they are written in
their order (`InOrder`) and numbered on from `serial`.

**Collector, ActivePages, PastPages, TenderPages.** The portal is a graph: a page has sections, and
per kind of link a list of pages. The collector is external and modelled from how the code uses it:
`Visit` marks the page, refuses one that is marked, requests it, and runs the handlers before it
returns. `stack` holds the pages that are being processed, each with the set of calls it still owes,
a call being a handler and the element it is for. They are made in the order of `Precedes`: the
response handlers (`body`) first, then those of the HTML in the order they were attached. A handler
that detaches another may take away one whose call is owed; whether that call is made depends on the
version of the library, and both are considered (`skipsDetached`). One section of a page is one value,
known by the page it is from: a field keeps its first value (`KeepFirst`), its last (`KeepLast`) or
all (`KeepAll`), as the code that fills it does. What the text of a section says is left out.

**DateRanges.** Days are integers, `end` is inclusive, the loop condition is `cur < to`. `PastLinks`
runs it first, with the chunk size `PastTenders` computes, and then feeds what it returned.

**CaptchaSession.** The callbacks of `colly` run inside `Visit` in the order they were bound:
response handlers, then form handlers. An answer of the portal is a record (error, captcha form,
image, table, cookie) chosen freely; `passed` is a history variable: the portal has answered a post
without an error or a captcha, or has shown the table.

## 3. Runs

Bounds are in the `.cfg` files; the sizes are distinct states. Deadlock is not checked: every one of
these systems ends (a crawl returns, a process is stopped). That nothing blocks before its end is
what the liveness property of each run says.

### Runs that hold

| run (module) | properties | states | bounds, and why they are enough |
|---|---|---|---|
| `pipeline` (`MCJobPipeline`) | `TypeOK`, `ClaimExclusive`, `HandOffOnce`, `HandOffRecorded`, `NoLostJob`, `RefinesLifecycle`, `EveryJobSettles` | 649 k | 2 jobs, 2 workers, batches of one row so that one job waits behind the other, 2 attempts, one fault of any kind and one restart: a duplicate delivery needs one fault or the restart, a race for it two workers. The safety properties are proved for any number of each |
| `consumer` (`MCWorkerConsumer`) | `HeldOnce`, `MessageAccounted`, `EveryMessageDone`, `EveryConsumerEnds` | 57 k | 4 messages, 3 workers, prefetch 3: the queue, the prefetch window and the workers all fill; 2 returned deliveries |
| `docs` (`MCTenderDocs`) | `TypeOK`, `NoPartialObject`, `SuccessIsComplete`, `EveryRunEnds` | 87 k | 2 runs, in turn or overlapping; 3 documents, one of them too large and one a corrigendum; 2 transfers at once, of which both may stall, and a crash |
| `batch` (`MCDownloadBatch`) | `BatchExact`, `EveryCallReturns` | 64 k | 4 tenders over 2 slots, 3 attempts, 3 batches: tenders wait for a slot while others retry, and one or both slots may be lost to a run that hangs |
| `extract` (`MCConcurrentExtract`) | `TypeOK`, `CounterExact`, `EveryRunReturns`, `RefinesLedger` | 248 k | 4 rows, one of them blank, 2 workers, queues of 2, sessions that fail, a panic, a failing write |
| `past` (`MCPastTendersRun`) | `RecordKeptOnce`, `EveryRunReturns` | 68 k | 3 portals: more records than the channel holds, none, and few; up to 3 sessions that fail, so that a portal may be left without one |
| `links` (`MCPastLinks`) | `TypeOK`, `EveryDayOnce`, `SlotsExact`, `DaySearchedOnce`, `FilesComplete`, `EveryPortalEnds` | 60 k | intervals of 0 to 3 days with chunk sizes 0 (which means a week) and 2: no range up to two, full and short ones, the last day in a range and in none, 2 workers and one slot, 2 pages, writer channels of one record, so that every send may block, and a disk that may refuse any write |
| `active` (`MCActiveLinks`) | `FileExact`, `ReturnExact`, `EveryCrawlEnds` | 749 k | 3 portals for 2 browsers, 4 table rows in batches of 2 (a full and a short batch), one page without tenders and one whose first batch has none, files of an earlier run, 2 saves that fail or break, so that both batches of a portal may be lost |
| `pages` (`MCTenderPages`) | `PagesTypeOK`, `OwnPages`, `RowsExact`, `DetailsDecide`, `DetailsOnce`, `EveryExtractionEnds` | 57 k | a session of three links, the third of them the first again, over 248 portals: no, one and two links to the details, rows of corrigenda that repeat, that are no HTML, nested ones, ones that link back or to another tender's, a summary reached from the start page or the details; every request may fail |
| `captcha` (`MCCaptchaSession`) | `EstablishedIsEarned`, `EndsUnlessAskedForever` | 6 k | 3 calls in a row on one session, each flow |

Several properties say when they apply, because the code is not correct beyond it:

* `NoLostJob` and `EveryJobSettles` (`pipeline`) are stated while no fault was `Lossy`: a publish the
  broker never got leaves a pending job whose row is marked sent, a failed transaction is the run
  `pipeline_stuck`. Everything else in that run is checked with every fault. `EveryJobSettles` excepts a
  job whose run hangs (`Hanging`), as the ten minutes of a job do not reach its downloads, and the jobs
  that wait for a worker when all of them hang.
* `EveryMessageDone` (`consumer`) excepts a cancellation and the loss of the connection.
  `EveryConsumerEnds` is about just these two, with the two waits that have no end: a cancelled
  consumer with an idle queue, and one that lost its connection while nobody cancels.
* `NoPartialObject` and `SuccessIsComplete` (`docs`) are about runs that did not overlap. Overlapping
  runs are in the same state space: they must end (`EveryRunEnds`), and nothing more. A run whose own
  transfer stalls may wait for ever, as the ten minutes of its job do not reach the request; a stall
  must not cost more than its slot. `SuccessIsComplete` is about what a run set out to fetch, so a run
  that found no links may return without an error. The base documents are in the bucket after a run
  that skipped them, or asked for anything, *unless an earlier run broke off*: one that failed or
  crashed between two uploads leaves an object for which every later run skips the others.
* `EveryCallReturns` (`batch`) excepts a call one of whose runs hangs. It then says that the other
  tenders still get their runs, while a slot is left.
* `FilesComplete` (`links`) is about a file none of whose writes failed: the row writer only logs an
  error, the failure writer drops it. Of a file with a failed write it says that it holds nothing else
  than rows that were parsed; and such a writer still takes its records (`EveryPortalEnds`).
* `EveryDayOnce` (`links`) leaves out the last day of the interval, which is in no range when the length
  of the interval is a multiple of the chunk size. `SplitDateRange` says at `utils/date.go:22` that it
  "splits [from, to]".
* `FileExact` (`active`) is about a file no save of which broke off in the middle. Of another it says
  that what is whole in it is right, once each and in order.
* `EveryRunReturns` (`past`) is `<>(returned \/ Stuck)`, where `Stuck` is a portal without a worker
  that has more records than its channel holds.
* `RowsExact` (`pages`) excludes duplicates while the links of a start page lead to one page with the
  details (`DetailsOnePage`): with a second one, and a library that makes the calls of detached
  handlers, the handlers are attached twice. That every page which shows rows has them is said of
  all.
* `DetailsDecide` (`pages`) is about the page that the first link leads to. It excepts a page of the archive whose details link to the summary, which is
  then read before their tables; `DetailsOnce` is about a corrigendum that no page but this one lists
  and that lists none itself.

### Runs that find a disagreement

| run | what the code says | what it does |
|---|---|---|
| `pipeline_stuck` | `http/main.go:215`: jobs that remain in `running_go` are reset, they "would otherwise remain stuck forever" | the message redelivered after a failed transaction is acknowledged because the job is `running_go`; the job stays there until a restart, and then without a message |
| `extract_cancel` | a commented-out log line at `scraper/extract/concurrent.go:297` says of this point "All jobs completed, canceling workers..." | `remainingJobs` is zero between two rows and cancels the workers with rows left |

### Where the code surprises, without a run

Met while translating. The models contain each of them, and no property claims the opposite.

* A job that takes the process down is claimed once more after every restart, past `maxAttempts`
  (`JobPipeline`); the hand-over updates by id only and overwrites a `failed` another delivery wrote.
* The monitor closes the channel the feeder is sending on, which panics; after the loss of the
  connection nobody closes `deliveries` and the wait for the workers never ends; with an idle queue
  the feeder does not look at the context (`WorkerConsumer`).
* One uploaded object makes every later run skip all base documents; a file that another run removed
  is counted as one that was too large; the counts are taken after the downloader was reset
  (`TenderDocs`).
* A tender that always fails is run nine times, where the README speaks of three attempts
  (`DownloadBatch`).
* A panic in an extraction leaves neither a result nor a failure record (`ConcurrentExtract`).
* A portal none of whose workers got a session blocks the feeder for ever when it has more records
  than the channel holds (`PastTendersRun`).
* The last day is in no chunk when a chunk ends just before it, and the search of a single day has no
  chunk (`DateRanges`); a page that fails after the first ends its range without a failure record,
  and a row or failure that cannot be written is lost, the portal still counting as done (`PastLinks`).
* The timer of a session starts after the visit that may not end (`CaptchaSession`).
* The error of a failed save is dropped, and after a failed first batch the file has no header
  (`ActiveLinks`). A disk that refuses later leaves a part of the batch, after the file was cleared, and
  what the deferred `Flush` reports is dropped.
* The fallback for the ID runs before the table that holds it, so the table never replaces what the
  fallback took from the text of the page. The handler of the authority is attached after that of the
  corrigenda, so an authority on the page of a corrigendum wins; the fees keep their last value and so
  may be a corrigendum's; so may the ID, when the details have none (`ActivePages`).
* A corrigendum within a corrigendum has two handlers for details attached, of which the first is
  detached: its details are counted twice or lost (`ActivePages`).
* The clones of a session share the visited pages: a link that is given twice, or a corrigendum two
  tenders have in common, is refused the second time (`ActivePages`).

### Fairness

A temporal property is checked under weak fairness of the actions the Go scheduler runs: a goroutine
that can go on does. Beyond that:

* `JobPipeline`: the ticker of the publisher fires, the broker delivers (`receive`), and the service
  is started again after it stopped, by its operator (`docker-compose.yml` sets no restart policy).
  Faults and crashes are never fair, and bounded. Of a run of `ProcessTender` nothing is assumed: it
  need not return, as no timeout or context bounds a download (`docDownloads/downloader.go:16`). Only
  `pipeline_stuck` is checked under `PromptSpec`, in which no run hangs, so that what it finds is
  not a hanging run.
* `DownloadBatch`: the loop and the goroutines go on, and a run that does not hang returns. Any may
  hang at any attempt, and the slot is then gone.
* `WorkerConsumer`: the broker delivers, and the work on a message ends, as `jobTimeoutSeconds`
  bounds its context; a stalled download, which that context does not reach, is outside this
  assumption, and in `JobPipeline` and `TenderDocs`. A
  message is returned at most `MaxNacks` times, as `maxAttempts` bounds it.
* `TenderDocs`: a transfer ends unless it stalls, which any may, up to `MaxStalls`.
* `ConcurrentExtract`, `PastTendersRun`, `PastLinks`, `TenderPages`: a request ends
  (`SetRequestTimeout`, 40 s). In the first three the steps of a worker are strongly fair: goroutines
  that wait for one channel are served in turn, so a worker that could send or take a slot again and
  again does in the end.
* `ActiveLinks`: a call of the browser returns, fails or panics. The library waits for an element
  without a limit; a page that never shows its captcha image is outside this assumption.
* `CaptchaSession`: the portal answers; nothing is assumed of what it answers.

## 4. Proofs

Proved by TLAPS for every value of the constants that satisfies the `ASSUME`s of the module.

**`JobPipelineProofs`.** `TypeInvariant`, `ClaimExclusiveAlways`, `HandOffOnceAlways`,
`HandOffRecordedAlways`, `NoLostJobAlways` and `Refinement`. The safety properties are not inductive
by themselves. `Inv` adds
* `WorkInv`: a job that is worked on is `running_go`, or was given up by another delivery, and has
  not been handed over: so nobody else can claim it, and the hand-over to come is the first,
* `RowInv`: a row of the outbox belongs to a job that was accepted,
* `AttemptInv`: a worker that is about to mark a job failed found its attempts used up, and a job
  that was not accepted has none,
* `DownInv`: a process that is down has no worker at work, so the reset at start-up meets nobody.

`InvStep` has one lemma per group of actions. A step that appends to the outbox goes through the
lemmas on appended rows, one that marks a row through those on `EXCEPT`. `Refinement` maps a job's
hand-over to the existence of its row; with `Inv`, each action is a step of `JobLifecycle` or
changes none of its variables.

`NoLostJob` needs `LossInv`: while no lossy fault struck, `Kept`. A pending job with attempts left has
an unsent row that is not just being marked (`Queued`), or a message or a worker that will claim it
(`Claimable`); a running job has a live worker on it (`WorkedOn`) or, once the process stops, a
message for the start that resets it; and a worker at work still holds its delivery. The row that is
being marked has to be left out, as its message is already on its way: that is what makes the mark
harmless, and the invariant inductive.

**`PastLinksProofs`, `SplitDateRange`.** `SplitInvariance`: every chunk ends before the cursor, and
every day before the cursor is in one (`SplitInv`). From it `Disjoint`, `Within` and `Partition`, which is
`EveryDayOnce`: when `SplitDateRange` returns, each day before the last is in exactly one chunk. Of
the last day it says nothing, as the loop may end just before it.

**`PastLinksProofs`, the crawl.** `ImplementsSplit`: every step of the crawl is a step of
`SplitDateRange` or leaves its variables alone, so the crawl implements `SplitSpec`; `EveryDayFedOnce` carries
`Partition` over to the ranges the workers are fed. `CrawlInvariance` is the invariant of the crawl:
nothing runs before the dates are cut (`Fresh`); then a range is still to be fed, queued, with one
worker or done (`RangeInv`), a row or a failure was taken by its writer, is in the channel, or with the worker
that is about to send it, unless the disk refused a write of the file (`RowInv`, `FailInv`; `Kept` is
what the `csv.Writer` has on the disk or in memory, none of it in memory once the portal is finished), channels are closed in the order of the waits
(`PhaseInv`), and the slots of the semaphore are counted by the workers that establish a session
(`SlotInv`). `SlotsAlwaysExact`, `DaySearchedByOne` (two ranges share no day, by `Disjoint`, and no
range is with two workers) and `FilesAlwaysComplete` follow.

**`WorkerConsumerProofs`.** `HeldOnceAlways` and `MessageAccountedAlways`. `Inv` adds that what waits
in `msgs` is in no hand, neither of the feeder nor of a worker, that a lost connection leaves `msgs`
empty, that a worker which has exited holds nothing, and that a feeder which returned has waited for
all of them.

**`TenderDocsProofs`.** `NoPartialObjectAlways` and `SuccessIsCompleteAlways`. The directory is shared
by all runs of a tender, and a failed or crashed one leaves half files in it. What saves the next run
is that it truncates and fetches every document it listed before it looks at the directory again:
`RunInv` says of a document that is listed that it is still to come, under way, too large or whole
until an error was collected, and whole or too large once the downloads are over; and that what it
fetches has no other writer. With it go `FileInv` (a large document never has a file, and only a run
that downloads has transfers under way) and `AloneInv` (two active runs mean an overlap, of which `CleanInv` says nothing).
What a run skipped is another matter, as it did not look at it: `BaseInv` says that when any object is
in the bucket, the base documents are all there, or an earlier run broke off, or the run that asked for
them is still uploading; and the last cannot be when another run looks and skips, or they overlap.

**`TenderDocsProofs`, the batches.** `BatchExactAlways`. The tenders of a batch are, at any time, split between
those to start, those in a slot (where one that hangs stays), those that succeeded and those listed as
failed (`BatchPlaces`), and the place of the main loop tells which of these are empty (`BatchMain`).

**`ConcurrentExtractProofs`, the extraction.** `CounterExactAlways` and `Refinement`. A row is in one place: to be
read, in `jobs`, with one worker, in `results`, written or logged as failed (`RowInv`); the closing of
the channels follows the waits (`PhaseInv`). `CounterExact` is inductive with these: queueing a row,
taking one and finishing one change the count and the places together. `Refinement` maps the places to
those of `ExtractLedger`.

**`ConcurrentExtractProofs`, the captcha flows.** `Earned`. `handleCaptchaResponse` would assume success of any page it
does not recognise; what makes the property hold is that `captchaSolved` is set before the form is
posted, so that no answer to a post is looked at with it clear. That is the conjunct `SessionInv` adds.

**`PastTendersRunProofs`.** `RecordKeptOnceAlways`. `PlaceInv` says where each record of each portal
is, `PhaseInv` when the workers of a portal may be gone while its channel still has records, and
`EndInv` that the writer is through before the return.

**`ActiveLinksProofs`.** `FileExactAlways` and `ReturnExactAlways`. The serial of a row is its rank
among the rows of the table that name a tender, so the proof rests on lemmas about ranks: the rows of
a batch in their order, put after the rows before it, are the rows up to its end in their order, and
numbering on from the rank of the last gives each its own rank. `FileExact` itself says of
every portal which rows its file holds: none yet, those of the batches before `i` that were saved while
a worker has it, all that were reached when the worker is done; `Inv` adds what ties `serial` and
`header` to `i` (`LocalsInv`). For a file in which a save broke off, three lemmas on `PartOf` say that a
part of the lines, followed by a part of the next ones, is a part of both, although a line that comes
after a torn one is lost with it (`PartJoin`, `PartTail`, `PartAppended`). With
it go the exclusion of two workers on one portal (`HeldInv`), the portals that are still to be fed
(`FedInv`), and that `errCh` holds exactly the portals that failed until the caller empties it
(`MainInv`), which is what `ReturnExact` needs.

**`TenderPagesProofs`.** All five safety properties of the pages, for every graph of pages, every list
of links and both kinds of library. Each action is first reduced to one of ten steps by what it does
to the stack, the handlers and the data (`FineStep`, lemma `FineSteps`), and each step to one of three
of the stack: the innermost page makes a call and stays, another page opens inside of it, or it closes
(`StackCases`). Four invariants build on each other.
* `OwnInv` gives `OwnPagesAlways` and the types: the pages on the stack are different pages opened
  for the tender under way, the start page outermost; each call that is owed is one of a handler of
  this tender, for an element of the page that owes it; the start page owes only calls that follow
  links, so nothing is read from it.
* `ExactInv` gives `RowsExactAlways`. A page that shows rows has them kept or still owes the call
  that keeps them (`RowsInv`), and if it owes that call it has no rows yet and owes it once
  (`RowCallsInv`). That needs the handlers to be attached once (`OnceInv`), which holds because the
  second link to the details, if its call is made at all, finds its page visited and is the last
  that visits anything; and that only handlers which follow links or read details are ever detached
  (`AttachedInv`).
* `DecideInv` gives `DetailsDecideAlways`. Until the first link is followed nothing is read
  (`StartInv`), and the page it leads to owes, or has made, each call that decides a field before any
  call that visits a corrigendum (`SaidInv`, `OwesFirst`).
* `CorrigendaInv` gives `DetailsOnceAlways`. A page of a corrigendum detaches the first handler for
  details, not the one attached for it; what saves the count is that as many are attached as pages of
  corrigenda are being processed (`CountInv`), so that one right inside the page of the details finds
  exactly one. A corrigendum that only that page lists has no row; or has one and owes the call for
  its details; or is settled, as it has been visited and is refused from then on (`DetailsInv`).

**Only model-checked.** Every liveness property: TLAPS does not handle fairness or `ENABLED`. Every
safety property of the passing runs is proved.

## 5. What is not modelled, and why

* Contents: payloads, names, the text of a page, CSV fields. Two documents with one name share a file
  and an object in the code; names are distinct model values here. A document the portal replaces
  keeps its key and is not uploaded again; documents have no versions here.
* A stored payload that does not decode, and a message that is not JSON: the first is marked failed
  and then found not pending, the second is acknowledged.
* `outbox.attempts` (only counted), a select that breaks off between two rows.
* The gap between `HeadObject` and `PutObject`: one step. Two runs that upload the same key write
  the same document.
* A page that answers under another address than its link (a redirection), after which the details
  of a corrigendum find no row.
* The race on `written` in `scraper/pastTenders/pastTenders.go`: it decides when a progress line is
  logged.
* A second instance of the service, whose start-up reset would meet running jobs.
* The legacy pool of `http/utils.go` (called by nothing), the solvers, logging, menu, containers, the
  Python stage.
* The number of open browsers (they are closed when a worker ends, so they add up over its portals),
  and the day in the path of a CSV file, which changes at midnight.

## 6. Plan

Done, in this order: the pipeline with its abstract specification and proofs; the consumer below it;
the documents of a tender and the batch command; the four crawls; the captcha flows; the date chunks
with their proofs, and the crawl that uses them; the ledger of an extraction; the pages of a tender;
the proofs of the consumer, the documents of a tender, the batches, both extractions, both searches
for links and the pages, and of `NoLostJob`.

Next, the model:
1. `JobPipeline`: a second instance and an undecodable payload, as further kinds of faults; a
   composition with `WorkerConsumer`, so that the loss of the connection in one is the requeue in the
   other.
2. `TenderDocs`: view links of corrigenda, colliding names, replaced documents; an abstract
   specification of a document run (`listed` to `stored`, all or an error) that runs which do not
   overlap implement.
3. `ActiveLinks`: the day in the path; then the hand-over of its file to `ConcurrentExtract`, which
   skips the first line as the header.
4. The solver: prompts under `stdinLock`, and the buffer each call drops.
5. `TenderPages` inside `ConcurrentExtract`: a panic in a handler, and what the next row then finds
   in the collector.
6. The legacy worker pool, if it comes into use.

Next, the proofs:
1. What can be said of liveness without fairness: that a state in which nothing can go on is one that
   the properties name (a crawl that returned, a portal that is `Stuck`), as invariants of the runs.
2. The abstract specification of a document run named above, with its refinement.
