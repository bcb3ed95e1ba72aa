----------------------------- MODULE ActiveLinks -----------------------------
(***************************************************************************)
(* The crawl for links of active tenders: LinkExtractor.ActiveLinksBrowser *)
(* (scraper/nav/linkExtract.go), the page run of one portal (Run and       *)
(* ExtractTenders in scraper/nav/active/headful.go), its CSV file          *)
(* (SaveTendersCSVBatch in scraper/nav/active/utils.go) and the captcha of *)
(* the browser (session-browser/establish.go).                             *)
(*                                                                         *)
(* The browser and the portal are external: a table grows while it is      *)
(* polled, any evaluation may fail, and a Must... call of the browser      *)
(* library panics, which nothing recovers, so the whole process ends.      *)
(***************************************************************************)
EXTENDS Integers, SequencesExt

CONSTANTS
    NumUrls,        \* Len(utils.BaseURLs)
    MaxSessionParallel,
    MaxRetries,     \* attempts at a captcha (3)
    MaxPolls,       \* polls of the table (60)
    BatchSize,      \* rows of a batch (100)
    TableRows,      \* rows of a fully shown table, the header included
    ValidRows,      \* of each portal: the rows that are not IsInvalidTender
    EarlierRun,     \* portals with a file of an earlier run of the day
    MaxSaveFaults   \* bound on the batches that are not saved, or not in full

ASSUME BoundsAssumption ==
    /\ {NumUrls, MaxSessionParallel, MaxRetries, MaxPolls, BatchSize, TableRows}
         \subseteq Nat \ {0}
    /\ ValidRows \in [1 .. NumUrls -> SUBSET (1 .. TableRows - 1)]
    /\ EarlierRun \subseteq 1 .. NumUrls
    /\ MaxSaveFaults \in Nat

Urls == 1 .. NumUrls
Workers == 1 .. MaxSessionParallel

\* A line of a CSV file: a row of the page and its serial, the header, a line of the
\* earlier run, or what is left of a line of which only a part was written.
Header == <<0, 0>>
Old == <<0, 1>>
Torn == <<0, 2>>
Lines == {Header, Old, Torn} \cup ((1 .. TableRows) \X (1 .. TableRows))

VARIABLES
    main,       \* "feed", "wait", "returned" or "panicked"
    next,       \* the next portal to feed; urlCh is closed past the last
    errCh,      \* the portals whose error was sent
    firstErr,   \* ActiveLinksBrowser returned an error
    pc, url,    \* of each worker
    attempt,    \* at the captcha
    polls, count,       \* of the table: polls made, rows seen last
    i, serial, header,  \* ExtractTenders: next row, next serial, writeHeader
    file,       \* the active.csv of each portal
    read,       \* history: the rows of a portal that was extracted, else 0
    unsaved,    \* history: the batches not saved, by portal and first row
    broken      \* history: the portals with a batch of which only a part was written

pageVars == <<attempt, polls, count, i, serial, header>>
mainVars == <<main, next, errCh, firstErr>>
vars == <<mainVars, pc, url, pageVars, file, read, unsaved, broken>>

PCs == {"idle", "session", "captcha", "list", "poll", "extract", "report", "gone"}

TypeOK ==
    /\ main \in {"feed", "wait", "returned", "panicked"}
    /\ next \in 1 .. NumUrls + 1
    /\ errCh \in Seq(Urls)
    /\ firstErr \in BOOLEAN
    /\ pc \in [Workers -> PCs]
    /\ url \in [Workers -> Urls]
    /\ attempt \in [Workers -> 0 .. MaxRetries - 1]
    /\ polls \in [Workers -> 0 .. MaxPolls]
    /\ count \in [Workers -> 0 .. TableRows]
    /\ i \in [Workers -> 1 .. TableRows + BatchSize]
    /\ serial \in [Workers -> 1 .. TableRows]
    /\ header \in [Workers -> BOOLEAN]
    /\ file \in [Urls -> Seq(Lines)]
    /\ read \in [Urls -> 0 .. TableRows]
    /\ unsaved \subseteq Urls \X (1 .. TableRows)
    /\ broken \subseteq Urls

\* The file before the crawl.
Earlier(u) == IF u \in EarlierRun THEN <<Header, Old>> ELSE <<>>

Init ==
    /\ main = "feed" /\ next = 1 /\ errCh = <<>> /\ firstErr = FALSE
    /\ pc = [w \in Workers |-> "idle"]
    /\ url = [w \in Workers |-> 1]
    /\ attempt = [w \in Workers |-> 0]
    /\ polls = [w \in Workers |-> 0]
    /\ count = [w \in Workers |-> 0]
    /\ i = [w \in Workers |-> 1]
    /\ serial = [w \in Workers |-> 1]
    /\ header = [w \in Workers |-> TRUE]
    /\ file = [u \in Urls |-> Earlier(u)]
    /\ read = [u \in Urls |-> 0]
    /\ unsaved = {} /\ broken = {}

Go(w, from, to) ==
    /\ main # "panicked"
    /\ pc[w] = from /\ pc' = [pc EXCEPT ![w] = to]

Set(f, w, v) == [f EXCEPT ![w] = v]

\* The locals of Run and ExtractTenders end with the call.
LocalsEnd(w) ==
    /\ polls' = Set(polls, w, 0) /\ count' = Set(count, w, 0)
    /\ i' = Set(i, w, 1) /\ serial' = Set(serial, w, 1) /\ header' = Set(header, w, TRUE)
    /\ UNCHANGED attempt

-----------------------------------------------------------------------------
(* A definition named X_Slip is a plausible mistake in X; no action uses   *)
(* it, it is there to show which property would notice.                    *)

(* ActiveLinksBrowser *)

\* urlCh is unbuffered: a portal is fed when an idle worker takes it.
fed == next + 1

take(w) ==
    /\ main = "feed" /\ next <= NumUrls
    /\ Go(w, "idle", "session")
    /\ url' = Set(url, w, next)
    /\ next' = fed
    /\ UNCHANGED <<main, errCh, firstErr, pageVars, file, read, unsaved, broken>>

closeUrls ==
    /\ main = "feed" /\ next > NumUrls
    /\ main' = "wait"
    /\ UNCHANGED <<next, errCh, firstErr, pc, url, pageVars, file, read, unsaved, broken>>

leave(w) ==
    /\ main = "wait"
    /\ Go(w, "idle", "gone")
    /\ UNCHANGED <<mainVars, url, pageVars, file, read, unsaved, broken>>

ErrCap_PerWorker == MaxSessionParallel

\* The capacity of errCh, which nothing reads before every worker is gone.
ErrCap == NumUrls

report(w) ==
    /\ Len(errCh) < ErrCap
    /\ Go(w, "report", "idle")
    /\ errCh' = Append(errCh, url[w])
    /\ LocalsEnd(w)
    /\ UNCHANGED <<main, next, firstErr, url, file, read, unsaved, broken>>

WorkersDone_Fed == main = "wait"

WorkersDone == main = "wait" /\ \A w \in Workers : pc[w] = "gone"

return ==
    /\ WorkersDone
    /\ main' = "returned"
    /\ firstErr' = (errCh # <<>>)
    /\ UNCHANGED <<next, errCh, pc, url, pageVars, file, read, unsaved, broken>>

(* EstablishSession of session-browser, whose result Run discards *)

noCaptcha(w) ==
    /\ Go(w, "session", "list")
    /\ UNCHANGED <<mainVars, url, pageVars, file, read, unsaved, broken>>

hasCaptcha(w) ==
    /\ Go(w, "session", "captcha")
    /\ UNCHANGED <<mainVars, url, pageVars, file, read, unsaved, broken>>

\* The portal accepts the solution; or there is no image, or the solver fails.
captchaEnds(w) ==
    /\ Go(w, "captcha", "list")
    /\ attempt' = Set(attempt, w, 0)
    /\ UNCHANGED <<mainVars, url, polls, count, i, serial, header, file, read, unsaved, broken>>

\* The portal refuses the solution, or shows neither table nor error in time.
captchaAgain(w) ==
    /\ \/ /\ attempt[w] + 1 < MaxRetries
          /\ attempt' = [attempt EXCEPT ![w] = @ + 1]
          /\ Go(w, "captcha", "captcha")
       \/ /\ attempt[w] + 1 >= MaxRetries
          /\ attempt' = Set(attempt, w, 0)
          /\ Go(w, "captcha", "list")
    /\ UNCHANGED <<mainVars, url, polls, count, i, serial, header, file, read, unsaved, broken>>

(* Run *)

openList(w) ==
    /\ Go(w, "list", "poll")
    /\ UNCHANGED <<mainVars, url, pageVars, file, read, unsaved, broken>>

pollFails(w) ==
    /\ Go(w, "poll", "report")
    /\ UNCHANGED <<mainVars, url, pageVars, file, read, unsaved, broken>>

LastPoll(w) == polls[w] + 1 >= MaxPolls

\* Two equal counts, or the last poll, end the polling; an empty table never does.
Settled(w, c) == c > 0 /\ (c = count[w] \/ LastPoll(w))

poll(w) ==
    \E c \in count[w] .. TableRows :
        /\ polls' = [polls EXCEPT ![w] = @ + 1]
        /\ count' = Set(count, w, c)
        /\ \/ Settled(w, c) /\ Go(w, "poll", "extract")
           \/ ~ Settled(w, c) /\ Go(w, "poll", IF LastPoll(w) THEN "report" ELSE "poll")
        /\ UNCHANGED <<mainVars, url, attempt, i, serial, header, file, read, unsaved, broken>>

(* ExtractTenders *)

batchEnd_Short(w) == i[w] + BatchSize - 1

batchEnd(w) == i[w] + BatchSize

\* The rows of the batch at i, end excluded, that are tenders.
Batch(w) == {r \in i[w] .. batchEnd(w) - 1 : r < count[w] /\ r \in ValidRows[url[w]]}

\* Some rows in page order.
InOrder(rows) ==
    CHOOSE s \in SetToSeqs(rows) : \A k, l \in DOMAIN s : k < l => s[k] < s[l]

Numbered(w) ==
    [k \in 1 .. Cardinality(Batch(w)) |-> <<InOrder(Batch(w))[k], serial[w] + k - 1>>]

\* What a batch is appended to: the first one clears the file.
Base(w) == IF header[w] THEN <<>> ELSE file[url[w]]

\* The lines of a batch, the first with the header.
Written(w) == (IF header[w] THEN <<Header>> ELSE <<>>) \o Numbered(w)

\* A line after a torn one is on the same line of the file, and lost with it.
Appended(f, lines) ==
    f \o IF f # <<>> /\ Last(f) = Torn /\ lines # <<>> THEN Tail(lines) ELSE lines

nextBatch(w) ==
    /\ i[w] < count[w]
    /\ Go(w, "extract", "extract")
    /\ i' = [i EXCEPT ![w] = @ + BatchSize]
    /\ serial' = [serial EXCEPT ![w] = @ + Cardinality(Batch(w))]
    /\ UNCHANGED <<mainVars, url, attempt, polls, count, read>>

skipBatch(w) ==
    /\ Batch(w) = {}
    /\ nextBatch(w)
    /\ UNCHANGED <<header, file, unsaved, broken>>

saveBatch(w) ==
    /\ Batch(w) # {}
    /\ nextBatch(w)
    /\ header' = Set(header, w, FALSE)
    /\ file' = Set(file, url[w], Appended(Base(w), Written(w)))
    /\ UNCHANGED <<unsaved, broken>>

FaultsLeft == Cardinality(unsaved) + Cardinality(broken) < MaxSaveFaults

\* The file cannot be opened, or not be cleared for the first batch.  The error is
\* dropped.
saveFails(w) ==
    /\ Batch(w) # {} /\ FaultsLeft
    /\ nextBatch(w)
    /\ header' = Set(header, w, FALSE)
    /\ unsaved' = unsaved \cup {<<url[w], i[w]>>}
    /\ UNCHANGED <<file, broken>>

\* The disk refuses when the file is open, and cleared for the first batch: some of the
\* lines are in the file, and perhaps a part of the next.  The error of a line is
\* dropped by the caller, that of the deferred Flush by the function itself.
saveBreaks(w) ==
    /\ Batch(w) # {} /\ FaultsLeft
    /\ nextBatch(w)
    /\ header' = Set(header, w, FALSE)
    /\ \E n \in 0 .. Len(Written(w)) - 1, part \in {<<>>, <<Torn>>} :
          file' = Set(file, url[w], Appended(Base(w), SubSeq(Written(w), 1, n) \o part))
    /\ broken' = broken \cup {url[w]}
    /\ UNCHANGED unsaved

extracted(w) ==
    /\ i[w] >= count[w]
    /\ Go(w, "extract", "idle")
    /\ read' = Set(read, url[w], count[w])
    /\ LocalsEnd(w)
    /\ UNCHANGED <<mainVars, url, file, unsaved, broken>>

\* A Must... call of the browser fails, in the session, the listing or the extraction.
panic(w) ==
    /\ main \in {"feed", "wait"} /\ pc[w] \in {"session", "captcha", "list", "extract"}
    /\ main' = "panicked"
    /\ UNCHANGED <<next, errCh, firstErr, pc, url, pageVars, file, read, unsaved, broken>>

-----------------------------------------------------------------------------
caller == closeUrls \/ return

worker(w) ==
    \/ take(w) \/ leave(w) \/ report(w)
    \/ noCaptcha(w) \/ hasCaptcha(w) \/ captchaEnds(w) \/ captchaAgain(w)
    \/ openList(w) \/ pollFails(w) \/ poll(w)
    \/ skipBatch(w) \/ saveBatch(w) \/ saveFails(w) \/ saveBreaks(w)
    \/ extracted(w)

Next == caller \/ \E w \in Workers : worker(w) \/ panic(w)

Spec == Init /\ [][Next]_vars

\* Goroutines are scheduled; a browser call returns or panics.
FairSpec == Spec /\ WF_vars(caller) /\ \A w \in Workers : WF_vars(worker(w))

-----------------------------------------------------------------------------
\* The number of row r among the tenders of a portal.
Serial(u, r) == Cardinality({q \in ValidRows[u] : q <= r})

LinesOf(u, rows) ==
    [k \in 1 .. Cardinality(rows) |-> <<InOrder(rows)[k], Serial(u, InOrder(rows)[k])>>]

\* The first row of w's table that is not read yet.
Reached(w) == IF i[w] < count[w] THEN i[w] ELSE count[w]

\* The tenders of a portal read so far.
TendersRead(u) ==
    {r \in ValidRows[u] : \/ r < read[u]
                          \/ \E w \in Workers : url[w] = u /\ pc[w] = "extract" /\ r < Reached(w)}

\* The batch of row r could not be saved.
Unsaved(u, r) == \E b \in 1 .. r : <<u, b>> \in unsaved /\ r < b + BatchSize

\* The first batch of the portal with a tender was saved.
Started(u) ==
    \E r \in TendersRead(u) : ~ Unsaved(u, r) /\ \A q \in TendersRead(u) : r <= q

\* The file of a portal, of which every batch that could be opened was written in full.
Whole(u) ==
    (IF Started(u) THEN <<Header>> ELSE Earlier(u))
      \o LinesOf(u, {r \in TendersRead(u) : ~ Unsaved(u, r)})

Before(a, b) == a[1] < b[1] \/ (a[1] = b[1] /\ a[2] < b[2])

\* Lines of whole, in their order, and torn ones: some of whole may be missing.
PartOf(s, whole) ==
    /\ ToSet(s) \subseteq ToSet(whole) \cup {Torn}
    /\ \A k, l \in DOMAIN s : k < l /\ Torn \notin {s[k], s[l]} => Before(s[k], s[l])

\* ExtractTenders: whatever the other portals do, the file of a portal holds its
\* tenders read so far, once each, in page order and numbered from 1, after a header
\* and without a line of an earlier run: no batch boundary drops or repeats a row.  A
\* batch whose file could not be opened is missing, with its numbers, and nothing else
\* is; when it was the first, the rest follows, with no header, what was there before.
\* Once a batch was written in part, lines may be missing, or torn; the others are
\* still right, once each and in order.
FileExact ==
    \A u \in Urls :
        IF u \in broken THEN PartOf(file[u], Whole(u)) ELSE file[u] = Whole(u)

\* ActiveLinksBrowser: it returns only when every portal was extracted or has sent
\* its error, never both, and returns an error exactly when a portal sent one,
\* whatever batches were not saved.
ReturnExact ==
    main = "returned" =>
        /\ \A u \in Urls : (read[u] = 0) = (\E k \in 1 .. Len(errCh) : errCh[k] = u)
        /\ firstErr = (\E u \in Urls : read[u] = 0)

\* ActiveLinksBrowser: unless a browser call panics, the crawl returns: the workers
\* never block on errCh, which is read only after they are gone.
EveryCrawlEnds == <>(main \in {"returned", "panicked"})
==============================================================================
