--------------------------- MODULE PastLinksProofs ---------------------------
(***************************************************************************)
(* Theorems about the crawl for past tenders.  First of SplitDateRange     *)
(* alone, for every set of dates and of chunk sizes, with SplitInv as the  *)
(* inductive invariant.  They hold in the crawl, whose workers and writers *)
(* leave its variables as they are.  The invariant of the crawl itself is  *)
(* Inv; each of its parts has a lemma that every step keeps it.            *)
(***************************************************************************)
EXTENDS PastLinks, FiniteSetTheorems, TLAPS

(***************************************************************************)
(* The caller's default makes every chunk size a positive number of days.  *)
(***************************************************************************)
LEMMA ChunkDaysPositive ==
    ASSUME NEW size \in Int
    PROVE  chunkDays(size) \in Nat \ {0}
  BY DEF chunkDays

(***************************************************************************)
(* The chunk that a turn of the loop adds: it starts at cur, is not empty, *)
(* does not pass to, and has at most daysPerGroup days.                    *)
(***************************************************************************)
LEMMA EndBounds ==
    ASSUME SplitTypeOK, cur < to
    PROVE  /\ end \in Int
           /\ cur <= end
           /\ end <= to
           /\ end - cur < daysPerGroup
  BY DEF SplitTypeOK, end

(***************************************************************************)
(* Before the first turn no chunk exists: SplitInv says nothing of a day.  *)
(***************************************************************************)
LEMMA InitHolds == SplitInit => SplitInv
  <1> SUFFICES ASSUME SplitInit PROVE SplitInv
    OBVIOUS
  <1>1. daysPerGroup \in Nat \ {0}
    BY ChunkDaysPositive, ChunkSizesAssumption DEF SplitInit
  <1>2. SplitTypeOK
    <2>1. <<>> \in Seq(Chunk)
      OBVIOUS
    <2> QED
      BY <1>1, <2>1, DaysAssumption DEF SplitInit, SplitTypeOK
  <1>3. DOMAIN ranges = {}
    BY DEF SplitInit
  <1>4. from = cur /\ ~ returned /\ from \in Int
    BY DaysAssumption DEF SplitInit
  <1> QED
    BY <1>2, <1>3, <1>4 DEF SplitInv, ChunksWithin, ChunksDisjoint

(***************************************************************************)
(* A turn of the loop keeps SplitInv: the new chunk starts where the held days  *)
(* end, and the next one will start on the day after it.                   *)
(***************************************************************************)
LEMMA SplitKeeps == SplitInv /\ split => SplitInv'
  <1> SUFFICES ASSUME SplitInv, split PROVE SplitInv'
    OBVIOUS
  <1> DEFINE new == [first |-> cur, last |-> end]
             n == Len(ranges)
  <1>1. SplitTypeOK /\ cur < to
    BY DEF SplitInv, split
  <1>2. /\ end \in Int
        /\ cur <= end
        /\ end <= to
        /\ end - cur < daysPerGroup
    BY <1>1, EndBounds
  <1>3. /\ from \in Int /\ to \in Int /\ cur \in Int
        /\ ranges \in Seq(Chunk) /\ n \in Nat
        /\ DOMAIN ranges = 1 .. n
    BY <1>1 DEF SplitTypeOK
  <1>4. new \in Chunk
    BY <1>2, <1>3 DEF Chunk
  <1> HIDE DEF new
  <1>5. /\ ranges' = Append(ranges, new)
        /\ cur' = end + 1
        /\ from' = from /\ to' = to
        /\ daysPerGroup' = daysPerGroup /\ returned' = returned
    BY DEF split, nextStart, new
  <1>6. /\ ranges' \in Seq(Chunk)
        /\ DOMAIN ranges' = 1 .. (n + 1)
        /\ \A i \in 1 .. n : ranges'[i] = ranges[i]
        /\ ranges'[n + 1] = new
    BY <1>3, <1>4, <1>5
  <1>7. new.first = cur /\ new.last = end
    BY DEF new
  <1>8. \A i \in 1 .. n : ranges[i].first \in Int /\ ranges[i].last \in Int
    <2>1. \A i \in 1 .. n : ranges[i] \in Chunk
      BY <1>3
    <2> QED
      BY <2>1 DEF Chunk
  <1> HIDE DEF n
  <1>9. SplitTypeOK'
    BY <1>1, <1>2, <1>5, <1>6 DEF SplitTypeOK
  <1>10. (from <= cur)'
    BY <1>2, <1>3, <1>5 DEF SplitInv
  <1>11. ChunksWithin'
    <2> SUFFICES ASSUME NEW i \in 1 .. (n + 1)
                 PROVE  /\ from <= ranges'[i].first
                        /\ ranges'[i].first <= ranges'[i].last
                        /\ ranges'[i].last <= to
                        /\ ranges'[i].last - ranges'[i].first < daysPerGroup
      BY <1>5, <1>6 DEF ChunksWithin
    <2>1. CASE i = n + 1
      BY <2>1, <1>2, <1>3, <1>6, <1>7 DEF SplitInv
    <2>2. CASE i \in 1 .. n
      BY <2>2, <1>3, <1>6 DEF SplitInv, ChunksWithin
    <2> QED
      BY <2>1, <2>2, <1>3
  <1>12. (\A i \in DOMAIN ranges : ranges[i].last < cur)'
    <2> SUFFICES ASSUME NEW i \in 1 .. (n + 1)
                 PROVE  ranges'[i].last < end + 1
      BY <1>5, <1>6
    <2>1. CASE i = n + 1
      BY <2>1, <1>2, <1>6, <1>7
    <2>2. CASE i \in 1 .. n
      <3>1. ranges[i].last < cur /\ ranges[i].last \in Int
        BY <2>2, <1>3, <1>8 DEF SplitInv
      <3> QED
        BY <3>1, <2>2, <1>2, <1>3, <1>6
    <2> QED
      BY <2>1, <2>2, <1>3
  <1>13. ChunksDisjoint'
    <2> SUFFICES ASSUME NEW i \in 1 .. (n + 1), NEW j \in 1 .. (n + 1), i < j
                 PROVE  ranges'[i].last < ranges'[j].first
      BY <1>6 DEF ChunksDisjoint
    <2>1. i \in 1 .. n
      BY <1>3
    <2>2. CASE j = n + 1
      BY <2>1, <2>2, <1>3, <1>6, <1>7 DEF SplitInv
    <2>3. CASE j \in 1 .. n
      BY <2>1, <2>3, <1>3, <1>6 DEF SplitInv, ChunksDisjoint
    <2> QED
      BY <2>2, <2>3, <1>3
  <1>14. (\A d \in from .. (cur - 1) :
            \E i \in DOMAIN ranges : Holds(i, d))'
    <2> SUFFICES ASSUME NEW d \in from .. end
                 PROVE  \E i \in 1 .. (n + 1) :
                          Holds(i, d)'
      <3>1. from' .. (cur' - 1) = from .. end
        BY <1>2, <1>5
      <3> QED
        BY <3>1, <1>6
    <2>1. CASE d < cur
      <3>1. d \in from .. (cur - 1)
        BY <2>1, <1>2, <1>3
      <3>2. PICK i \in 1 .. n : Holds(i, d)
        BY <3>1, <1>3 DEF SplitInv
      <3>3. i \in 1 .. (n + 1)
        BY <1>3
      <3> QED
        BY <3>2, <3>3, <1>6 DEF Holds
    <2>2. CASE cur <= d
      <3>1. n + 1 \in 1 .. (n + 1)
        BY <1>3
      <3> QED
        BY <2>2, <3>1, <1>2, <1>6, <1>7 DEF Holds
    <2> QED
      BY <2>1, <2>2, <1>2, <1>3
  <1>15. (returned => to <= cur)'
    BY <1>1, <1>3, <1>5 DEF SplitInv
  <1> QED
    BY <1>9, <1>10, <1>11, <1>12, <1>13, <1>14, <1>15 DEF SplitInv

(***************************************************************************)
(* Every step keeps SplitInv: a turn of the loop, the return, and a stutter.    *)
(***************************************************************************)
LEMMA NextKeeps == SplitInv /\ [SplitNext]_splitVars => SplitInv'
  <1> SUFFICES ASSUME SplitInv, [SplitNext]_splitVars PROVE SplitInv'
    OBVIOUS
  <1>1. CASE split
    BY <1>1, SplitKeeps
  <1>2. CASE return
    <2>1. /\ UNCHANGED <<from, to, daysPerGroup, cur, ranges>>
          /\ returned' = TRUE /\ ~ cur < to
      BY <1>2 DEF return
    <2>2. SplitTypeOK' /\ (returned => to <= cur)'
      BY <2>1 DEF SplitInv, SplitTypeOK
    <2> QED
      BY <2>1, <2>2 DEF SplitInv, ChunksWithin, ChunksDisjoint, Holds
  <1>3. CASE UNCHANGED splitVars
    BY <1>3 DEF splitVars, Holds, SplitInv, SplitTypeOK, ChunksWithin, ChunksDisjoint
  <1> QED
    BY <1>1, <1>2, <1>3 DEF SplitNext

(***************************************************************************)
(* SplitInv holds in every state of every call of SplitDateRange.               *)
(***************************************************************************)
THEOREM SplitInvariance == SplitSpec => []SplitInv
  BY InitHolds, NextKeeps, PTL DEF SplitSpec

(***************************************************************************)
(* No day is searched twice, for all dates and chunk sizes.                *)
(***************************************************************************)
THEOREM Disjoint == SplitSpec => []ChunksDisjoint
  <1>1. SplitInv => ChunksDisjoint
    BY DEF SplitInv
  <1> QED
    BY <1>1, SplitInvariance, PTL

(***************************************************************************)
(* Every chunk lies within the dates asked for and is short enough.        *)
(***************************************************************************)
THEOREM Within == SplitSpec => []ChunksWithin
  <1>1. SplitInv => ChunksWithin
    BY DEF SplitInv
  <1> QED
    BY <1>1, SplitInvariance, PTL

(***************************************************************************)
(* When SplitDateRange returns, every day before the last is in exactly    *)
(* one chunk.  The last day itself need not be in any: a chunk that ends   *)
(* the day before it is the last one.                                      *)
(***************************************************************************)
THEOREM Partition == SplitSpec => []EveryDayOnce
  <1>1. SplitInv => EveryDayOnce
    <2> SUFFICES ASSUME SplitInv, returned, NEW d \in from .. (to - 1)
                 PROVE  \E i \in DOMAIN ranges :
                          Holds(i, d) /\ \A j \in DOMAIN ranges : Holds(j, d) => j = i
      BY DEF EveryDayOnce
    <2>1. d \in from .. (cur - 1) /\ d \in Int
      BY DEF SplitInv, SplitTypeOK
    <2>2. PICK i \in DOMAIN ranges : Holds(i, d)
      BY <2>1 DEF SplitInv
    <2>3. ASSUME NEW j \in DOMAIN ranges, Holds(j, d)
          PROVE  j = i
      <3>1. /\ ranges[i].first \in Int /\ ranges[i].last \in Int
            /\ ranges[j].first \in Int /\ ranges[j].last \in Int
            /\ i \in Int /\ j \in Int
        <4>1. ranges[i] \in Chunk /\ ranges[j] \in Chunk /\ i \in Int /\ j \in Int
          BY DEF SplitInv, SplitTypeOK
        <4> QED
          BY <4>1 DEF Chunk
      <3>2. ~ i < j
        <4>1. i < j => ranges[i].last < ranges[j].first
          BY DEF SplitInv, ChunksDisjoint
        <4> QED
          BY <4>1, <3>1, <2>1, <2>2, <2>3 DEF Holds
      <3>3. ~ j < i
        <4>1. j < i => ranges[j].last < ranges[i].first
          BY DEF SplitInv, ChunksDisjoint
        <4> QED
          BY <4>1, <3>1, <2>1, <2>2, <2>3 DEF Holds
      <3> QED
        BY <3>1, <3>2, <3>3
    <2> QED
      BY <2>2, <2>3
  <1> QED
    BY <1>1, SplitInvariance, PTL

-----------------------------------------------------------------------------

(***************************************************************************)
(* No step of the crawl touches the dates or the ranges once they are cut. *)
(***************************************************************************)
LEMMA CrawlKeepsRanges ==
    ASSUME [Next]_vars
    PROVE  [SplitNext]_splitVars
  <1>1. CASE splitStep
    BY <1>1 DEF splitStep
  <1>2. CASE \E w \in Workers : workerStep(w)
    BY <1>2 DEF workerStep
  <1>3. CASE \E p \in Portals : portalStep(p) \/ writerStep(p)
    BY <1>3 DEF portalStep, writerStep
  <1>4. CASE UNCHANGED vars
    BY <1>4 DEF vars
  <1> QED
    BY <1>1, <1>2, <1>3, <1>4 DEF Next

(***************************************************************************)
(* The crawl implements SplitDateRange.                                    *)
(***************************************************************************)
THEOREM ImplementsSplit == Spec => SplitSpec
  <1>1. Init => SplitInit
    BY DEF Init
  <1> QED
    BY <1>1, CrawlKeepsRanges, PTL DEF Spec, SplitSpec

(***************************************************************************)
(* For all dates, chunk sizes, portals and numbers of workers: the ranges  *)
(* the workers are fed hold every day before the last one exactly once.    *)
(***************************************************************************)
THEOREM EveryDayFedOnce == Spec => []EveryDayOnce
  BY ImplementsSplit, Partition, PTL

-----------------------------------------------------------------------------
(***************************************************************************)
(* What happens once the ranges are cut, and the crawl has begun: until    *)
(* then its variables are as they were.                                    *)
(***************************************************************************)
Places == {"none", "idle", "slot", "session", "failInSlot", "first", "next", "write", "fail",
           "done"}

\* The variables of the crawl before a portal is fed.
Fresh ==
    /\ feeder = [p \in Portals |-> "feed"]
    /\ jobs = [p \in Portals |-> <<>>]
    /\ sem = 0
    /\ worker = [w \in Workers |-> "none"]
    /\ current = [w \in Workers |-> 1]
    /\ scraped = [w \in Workers |-> 0] /\ total = [w \in Workers |-> 0]
    /\ rows = [p \in Portals |-> <<>>] /\ rowsFile = [p \in Portals |-> {}]
    /\ buffered = [p \in Portals |-> {}] /\ rowsBroken = {} /\ failsBroken = {}
    /\ fails = [p \in Portals |-> <<>>] /\ failsFile = [p \in Portals |-> <<>>]
    /\ parsed = [p \in Portals |-> {}] /\ failedRanges = [p \in Portals |-> {}]

ControlType ==
    /\ feeder \in [Portals -> {"feed", "wait", "closeFails", "closeRows", "done"}]
    /\ worker \in [Workers -> Places]
    /\ sem \in 0 .. MaxSessionParallel

RangeType ==
    /\ jobs \in [Portals -> Seq(DateRange)]
    /\ current \in [Workers -> Nat]
    /\ \A w \in Workers : worker[w] # "none" => current[w] \in DateRange
    /\ failedRanges \in [Portals -> SUBSET DateRange]

FileType ==
    /\ rowsFile \in [Portals -> SUBSET Row] /\ buffered \in [Portals -> SUBSET Row]
    /\ rowsBroken \subseteq Portals

RowType ==
    /\ scraped \in [Workers -> 0 .. Pages] /\ total \in [Workers -> 0 .. Pages]
    /\ \A w \in Workers : worker[w] = "write" => scraped[w] # 0
    /\ rows \in [Portals -> Seq(Row)] /\ \A p \in Portals : Len(rows[p]) <= RowsCap
    /\ parsed \in [Portals -> SUBSET Row] /\ FileType

FailType ==
    /\ fails \in [Portals -> Seq(Failure)] /\ \A p \in Portals : Len(fails[p]) <= FailsCap
    /\ failsFile \in [Portals -> Seq(Failure)] /\ failsBroken \subseteq Portals

SlotInv == IsFiniteSet(Establishing) /\ SlotsExact

\* A range is queued once, or searched by one worker of the portal, or done.
RangeInv ==
    /\ \A p \in Portals : \A i, k \in 1 .. Len(jobs[p]) : jobs[p][i] = jobs[p][k] => i = k
    /\ \A w \in Workers : Searching(w) => current[w] \notin ToSet(jobs[Portal(w)])
    /\ \A v, w \in Workers :
         v # w /\ Portal(v) = Portal(w) /\ Searching(v) /\ Searching(w) =>
             current[v] # current[w]

\* What the csv.Writer of a portal has taken, in its file or in memory.
Kept(p) == rowsFile[p] \cup buffered[p]

\* A row that was parsed was taken by the csv.Writer, is in the channel, or with the
\* worker that is about to send it, unless the file was refused; and so is the failure
\* of a range.
RowInv ==
    /\ \A p \in Portals : Kept(p) \cup ToSet(rows[p]) \subseteq parsed[p]
    /\ \A w \in Workers :
         worker[w] = "write" => <<current[w], scraped[w]>> \in parsed[Portal(w)]
    /\ \A p \in Portals : \A x \in parsed[p] :
         \/ x \in Kept(p) \cup ToSet(rows[p]) \/ p \in rowsBroken
         \/ \E w \in Workers :
              Portal(w) = p /\ worker[w] = "write" /\ x = <<current[w], scraped[w]>>

FailInv ==
    \A p \in Portals : \A r \in failedRanges[p] :
        \/ r \in ToSet(failsFile[p]) \cup ToSet(fails[p]) \/ p \in failsBroken
        \/ \E w \in Workers :
             Portal(w) = p /\ worker[w] \in {"failInSlot", "fail"} /\ r = current[w]

\* Before it is fed a portal has no workers, and when its writers are closed they
\* are gone and the channels of the closed ones empty.
PhaseInv ==
    /\ \A w \in Workers :
         /\ feeder[Portal(w)] = "feed" => worker[w] = "none" /\ current[w] = 1
         /\ feeder[Portal(w)] \notin {"feed", "wait"} => worker[w] \in {"none", "done"}
    /\ \A p \in Portals :
         /\ feeder[p] \in {"closeRows", "done"} => fails[p] = <<>>
         /\ feeder[p] = "done" => rows[p] = <<>> /\ (buffered[p] = {} \/ p \in rowsBroken)

CrawlType == ControlType /\ RangeType /\ RowType /\ FailType

CrawlInv == CrawlType /\ SlotInv /\ RangeInv /\ RowInv /\ FailInv /\ PhaseInv

Inv ==
    /\ SplitInv
    /\ ~ returned => Fresh
    /\ CrawlInv

-----------------------------------------------------------------------------
LEMMA Bounds ==
    /\ \A w \in Workers : Portal(w) \in Portals /\ w[2] \in Nat \ {0}
    /\ Pages \in Nat \ {0} /\ MaxWorkers \in Nat \ {0} /\ MaxSessionParallel \in Nat \ {0}
    /\ RowsCap \in Nat \ {0} /\ FailsCap \in Nat \ {0}
  <1>1. MaxWorkers \in Nat \ {0}
    BY BoundsAssumption
  <1> QED
    BY <1>1, BoundsAssumption DEF Workers, Portal

\* A channel: what Append and Tail make of it.
LEMMA Sent ==
    ASSUME NEW S, NEW s \in Seq(S), NEW x \in S
    PROVE  /\ Append(s, x) \in Seq(S) /\ Len(Append(s, x)) = Len(s) + 1
           /\ ToSet(Append(s, x)) = ToSet(s) \cup {x}
  <1>1. /\ Append(s, x) \in Seq(S) /\ Len(Append(s, x)) = Len(s) + 1
        /\ Len(s) \in Nat /\ DOMAIN s = 1 .. Len(s)
        /\ DOMAIN Append(s, x) = 1 .. Len(s) + 1
        /\ \A i \in 1 .. Len(s) : Append(s, x)[i] = s[i]
        /\ Append(s, x)[Len(s) + 1] = x
    OBVIOUS
  <1>2. ASSUME NEW y \in ToSet(Append(s, x)) PROVE y \in ToSet(s) \cup {x}
    <2>1. PICK i \in 1 .. Len(s) + 1 : y = Append(s, x)[i]
      BY <1>1 DEF ToSet
    <2>2. i = Len(s) + 1 \/ i \in 1 .. Len(s)
      BY <1>1
    <2> QED
      BY <1>1, <2>1, <2>2 DEF ToSet
  <1>3. ASSUME NEW y \in ToSet(s) PROVE y \in ToSet(Append(s, x))
    BY <1>1 DEF ToSet
  <1>4. x \in ToSet(Append(s, x))
    BY <1>1 DEF ToSet
  <1> QED
    BY <1>1, <1>2, <1>3, <1>4

LEMMA Received ==
    ASSUME NEW S, NEW s \in Seq(S) \ {<<>>}
    PROVE  /\ ToSet(s) = {Head(s)} \cup ToSet(Tail(s)) /\ Head(s) \in S
           /\ Len(Tail(s)) = Len(s) - 1 /\ Tail(s) \in Seq(S)
  <1>1. /\ Head(s) \in S /\ Len(Tail(s)) = Len(s) - 1 /\ Tail(s) \in Seq(S)
        /\ Len(s) \in Nat \ {0} /\ DOMAIN s = 1 .. Len(s) /\ Head(s) = s[1]
        /\ DOMAIN Tail(s) = 1 .. Len(s) - 1
        /\ \A i \in 1 .. Len(s) - 1 : Tail(s)[i] = s[i + 1]
    OBVIOUS
  <1>2. ASSUME NEW y \in ToSet(s) PROVE y \in {Head(s)} \cup ToSet(Tail(s))
    <2>1. PICK i \in 1 .. Len(s) : y = s[i]
      BY <1>1 DEF ToSet
    <2>2. i = 1 \/ i - 1 \in 1 .. Len(s) - 1
      BY <1>1
    <2>3. i # 1 => y = Tail(s)[i - 1]
      BY <1>1, <2>1, <2>2
    <2> QED
      BY <1>1, <2>1, <2>2, <2>3 DEF ToSet
  <1>3. ASSUME NEW y \in ToSet(Tail(s)) PROVE y \in ToSet(s)
    <2>1. PICK i \in 1 .. Len(s) - 1 : y = s[i + 1]
      BY <1>1 DEF ToSet
    <2>2. i + 1 \in 1 .. Len(s)
      BY <1>1
    <2> QED
      BY <1>1, <2>1, <2>2 DEF ToSet
  <1>4. Head(s) \in ToSet(s)
    BY <1>1 DEF ToSet
  <1> QED
    BY <1>1, <1>2, <1>3, <1>4

LEMMA FreshInv == SplitInv /\ Fresh => CrawlInv
  <1> SUFFICES ASSUME SplitInv, Fresh PROVE CrawlInv
    OBVIOUS
  <1>1. ControlType
    BY Bounds DEF Fresh, ControlType, Places
  <1>2. RangeType
    BY DEF Fresh, RangeType
  <1>3. RowType /\ FailType
    BY Bounds DEF Fresh, FileType, RowType, FailType
  <1>4. SlotInv
    <2>1. Establishing = {}
      BY DEF Fresh, Establishing
    <2> QED
      BY <2>1, FS_EmptySet DEF SlotInv, SlotsExact, Fresh
  <1>5. RangeInv
    BY Bounds DEF Fresh, RangeInv, Searching
  <1>6. RowInv /\ FailInv
    BY Bounds DEF Fresh, Kept, RowInv, FailInv, ToSet
  <1>7. PhaseInv
    BY Bounds DEF Fresh, PhaseInv
  <1> QED
    BY <1>1, <1>2, <1>3, <1>4, <1>5, <1>6, <1>7 DEF CrawlInv, CrawlType

LEMMA InitInv == Init => Inv
  <1> SUFFICES ASSUME Init PROVE Inv
    OBVIOUS
  <1>1. SplitInv
    BY InitHolds DEF Init
  <1>2. Fresh
    BY DEF Init, Fresh
  <1> QED
    BY <1>1, <1>2, FreshInv DEF Inv

\* Until the ranges are cut nothing else happens.
LEMMA BeforeReturn ==
    ASSUME Inv, ~ returned, [Next]_vars
    PROVE  UNCHANGED crawlVars
  <1>1. Fresh
    BY DEF Inv
  <1>2. ASSUME NEW w \in Workers, workerStep(w) PROVE FALSE
    <2>1. worker[w] = "none"
      BY <1>1 DEF Fresh
    <2> QED
      BY <1>2, <2>1 DEF workerStep, take, stop, acquire, sessionOk, sessionFails, failInSlot,
                        pageWithRow, pageWithShortRow, pageWithoutRows, Visiting, enough,
                        nextFails, firstFails, fail, write
  <1>3. ASSUME NEW p \in Portals, portalStep(p) \/ writerStep(p) PROVE FALSE
    <2>1. feeder[p] = "feed" /\ rows[p] = <<>> /\ fails[p] = <<>>
      BY <1>1 DEF Fresh
    <2> QED
      BY <1>3, <2>1 DEF portalStep, writerStep, feed, closeFails, closeRows, finish, writeRow,
                        writeFail
  <1> QED
    BY <1>2, <1>3 DEF Next, splitStep, vars

LEMMA AfterReturn ==
    ASSUME Inv, returned, [Next]_vars
    PROVE  UNCHANGED splitVars
  <1>1. from \in Int /\ to \in Int /\ cur \in Int /\ to <= cur
    BY DEF Inv, SplitInv, SplitTypeOK
  <1>2. ~ SplitNext
    <2>1. ~ cur < to
      BY <1>1
    <2> QED
      BY <2>1, Zenon DEF SplitNext, split, return
  <1> QED
    BY <1>2 DEF Next, splitStep, workerStep, portalStep, writerStep, vars

-----------------------------------------------------------------------------
(***************************************************************************)
(* The steps of the crawl, where the workers go.                           *)
(***************************************************************************)
LEMMA SameRanges ==
    ASSUME UNCHANGED splitVars
    PROVE  DateRange' = DateRange /\ Row' = Row /\ Failure' = Failure
  BY DEF splitVars, DateRange, Row, Failure

\* What every step of a worker has in common: its portal was fed and has not closed its writers.
LEMMA WorkerMoves ==
    ASSUME CrawlInv, NEW w \in Workers, workerStep(w)
    PROVE  /\ UNCHANGED <<feeder, splitVars>> /\ feeder[Portal(w)] = "wait"
           /\ worker[w] \in Places \ {"none", "done"}
           /\ worker'[w] \in Places \ {"none"} /\ worker' = [worker EXCEPT ![w] = worker'[w]]
           /\ \A v \in Workers \ {w} : worker'[v] = worker[v]
  <1>1. worker \in [Workers -> Places]
    BY DEF CrawlInv, CrawlType, ControlType
  <1>2. /\ worker[w] \in Places \ {"none", "done"}
        /\ \E place \in Places \ {"none"} : worker' = [worker EXCEPT ![w] = place]
        /\ UNCHANGED <<feeder, splitVars>>
    <2>1. ASSUME take(w) \/ stop(w) \/ acquire(w) \/ sessionOk(w) \/ sessionFails(w)
                   \/ failInSlot(w)
          PROVE  /\ worker[w] \in Places \ {"none", "done"}
                 /\ \E place \in Places \ {"none"} : worker' = [worker EXCEPT ![w] = place]
                 /\ UNCHANGED feeder
      BY <2>1 DEF take, stop, acquire, sessionOk, sessionFails, failInSlot, Go, Places
    <2>2. ASSUME pageWithRow(w) \/ pageWithShortRow(w) \/ pageWithoutRows(w) \/ enough(w)
                   \/ nextFails(w) \/ firstFails(w) \/ fail(w) \/ write(w)
          PROVE  /\ worker[w] \in Places \ {"none", "done"}
                 /\ \E place \in Places \ {"none"} : worker' = [worker EXCEPT ![w] = place]
                 /\ UNCHANGED feeder
      BY <2>2 DEF pageWithRow, pageWithShortRow, pageWithoutRows, Visiting, enough, nextFails,
                  firstFails, fail, write, Go, Places
    <2> QED
      BY <2>1, <2>2 DEF workerStep
  <1>3. feeder[Portal(w)] = "wait"
    <2>1. feeder[Portal(w)] \in {"feed", "wait", "closeFails", "closeRows", "done"}
      BY Bounds DEF CrawlInv, CrawlType, ControlType
    <2> QED
      BY <1>2, <2>1 DEF CrawlInv, PhaseInv
  <1> QED
    BY <1>1, <1>2, <1>3

\* A portal is fed when none of its workers runs, and launches some of them.
LEMMA Feeds ==
    ASSUME SplitInv, CrawlInv, NEW p \in Portals, feed(p)
    PROVE  /\ \A w \in Workers : Portal(w) = p => worker[w] = "none" /\ current[w] = 1
           /\ \A w \in Workers : worker'[w] = worker[w] \/ worker'[w] = "idle"
           /\ \A w \in Workers : worker'[w] # worker[w] => Portal(w) = p /\ 1 \in DateRange
           /\ worker' \in [Workers -> Places]
  <1>1. worker \in [Workers -> Places] /\ feeder[p] = "feed"
    BY DEF CrawlInv, CrawlType, ControlType, feed
  <1>2. \A w \in Workers : Portal(w) = p => worker[w] = "none" /\ current[w] = 1
    BY <1>1 DEF CrawlInv, PhaseInv
  <1>3. worker' = [w \in Workers |->
                     IF Portal(w) = p /\ w[2] <= NumWorkers THEN "idle" ELSE worker[w]]
    BY DEF feed
  <1>4. ASSUME NEW w \in Workers, w[2] <= NumWorkers PROVE 1 \in DateRange
    <2>1. Len(ranges) \in Nat /\ DateRange = 1 .. Len(ranges)
      BY DEF SplitInv, SplitTypeOK, DateRange
    <2>2. NumWorkers <= Len(ranges) /\ NumWorkers \in Nat
      BY <2>1, Bounds DEF NumWorkers
    <2> QED
      BY <1>4, <2>1, <2>2, Bounds
  <1>5. worker' \in [Workers -> Places]
    BY <1>1, <1>3 DEF Places
  <1> QED
    BY <1>2, <1>3, <1>4, <1>5

LEMMA SlotStep ==
    ASSUME SplitInv, CrawlInv, Next, UNCHANGED splitVars
    PROVE  SlotInv' /\ sem' \in 0 .. MaxSessionParallel
  <1>0. /\ IsFiniteSet(Establishing) /\ sem = Cardinality(Establishing) /\ sem \in Nat
        /\ sem \in 0 .. MaxSessionParallel /\ MaxSessionParallel \in Nat
    BY Bounds DEF CrawlInv, CrawlType, ControlType, SlotInv, SlotsExact
  <1>1. ASSUME Establishing' = Establishing, UNCHANGED sem
        PROVE  SlotInv' /\ sem' \in 0 .. MaxSessionParallel
    BY <1>0, <1>1 DEF SlotInv, SlotsExact
  <1>2. ASSUME NEW w \in Workers, workerStep(w)
        PROVE  SlotInv' /\ sem' \in 0 .. MaxSessionParallel
    <2> DEFINE E == {"session", "failInSlot"}
    <2>0. \A v \in Workers \ {w} : worker'[v] = worker[v]
      BY <1>2, WorkerMoves
    <2>1. CASE acquire(w)
      <3>1. worker[w] \notin E /\ worker'[w] \in E /\ sem' = sem + 1 /\ sem < MaxSessionParallel
        BY <1>2, <2>1, WorkerMoves DEF acquire, Go, CrawlInv, CrawlType, ControlType
      <3>2. Establishing' = Establishing \cup {w} /\ w \notin Establishing
        BY <2>0, <3>1 DEF Establishing
      <3> QED
        BY <1>0, <3>1, <3>2, FS_AddElement DEF SlotInv, SlotsExact
    <2>2. CASE sessionOk(w) \/ failInSlot(w)
      <3>1. worker[w] \in E /\ worker'[w] \notin E /\ sem' = sem - 1
        BY <2>2 DEF sessionOk, failInSlot, Go, CrawlInv, CrawlType, ControlType
      <3>2. Establishing' = Establishing \ {w} /\ w \in Establishing
        BY <2>0, <3>1 DEF Establishing
      <3>3. Cardinality(Establishing) # 0
        BY <1>0, <3>2, FS_EmptySet
      <3> QED
        BY <1>0, <3>1, <3>2, <3>3, FS_RemoveElement DEF SlotInv, SlotsExact
    <2>3. CASE sessionFails(w)
      <3>1. worker[w] \in E /\ worker'[w] \in E /\ UNCHANGED sem
        BY <2>3 DEF sessionFails, Go, CrawlInv, CrawlType, ControlType
      <3> QED
        BY <1>1, <2>0, <3>1 DEF Establishing
    <2>4. CASE ~ (acquire(w) \/ sessionOk(w) \/ failInSlot(w) \/ sessionFails(w))
      <3>1. worker[w] \notin E /\ worker'[w] \notin E /\ UNCHANGED sem
        <4>1. take(w) \/ stop(w) \/ pageWithRow(w) \/ pageWithShortRow(w) \/ pageWithoutRows(w)
                \/ enough(w) \/ nextFails(w) \/ firstFails(w) \/ fail(w) \/ write(w)
          BY <1>2, <2>4 DEF workerStep
        <4> QED
          BY <4>1 DEF take, stop, pageWithRow, pageWithShortRow, pageWithoutRows, Visiting, enough,
                      nextFails, firstFails, fail, write, Go, CrawlInv, CrawlType, ControlType
      <3> QED
        BY <1>1, <2>0, <3>1 DEF Establishing
    <2> QED
      BY <2>1, <2>2, <2>3, <2>4
  <1>3. ASSUME NEW p \in Portals, feed(p)
        PROVE  SlotInv' /\ sem' \in 0 .. MaxSessionParallel
    <2>1. \A w \in Workers : worker'[w] = worker[w] \/ (worker[w] = "none" /\ worker'[w] = "idle")
      BY <1>3, Feeds
    <2>2. Establishing' = Establishing /\ UNCHANGED sem
      BY <1>3, <2>1 DEF feed, Establishing
    <2> QED
      BY <1>1, <2>2
  <1>4. ASSUME UNCHANGED <<worker, sem>>
        PROVE  SlotInv' /\ sem' \in 0 .. MaxSessionParallel
    BY <1>1, <1>4 DEF Establishing
  <1>5. CASE splitStep
    BY <1>4, <1>5 DEF splitStep, crawlVars
  <1>6. ASSUME NEW p \in Portals, portalStep(p) \/ writerStep(p), ~ feed(p)
        PROVE  SlotInv' /\ sem' \in 0 .. MaxSessionParallel
    BY <1>4, <1>6 DEF portalStep, writerStep, closeFails, closeRows, finish, writeRow, writeFail
  <1> QED
    BY <1>2, <1>3, <1>5, <1>6 DEF Next

LEMMA ControlStep ==
    ASSUME SplitInv, CrawlInv, Next, UNCHANGED splitVars
    PROVE  ControlType'
  <1>0. ControlType
    BY DEF CrawlInv, CrawlType
  <1>1. sem' \in 0 .. MaxSessionParallel
    BY SlotStep
  <1>2. CASE splitStep
    BY <1>0, <1>2 DEF splitStep, crawlVars, ControlType
  <1>3. ASSUME NEW w \in Workers, workerStep(w) PROVE ControlType'
    BY <1>0, <1>1, <1>3, WorkerMoves DEF ControlType
  <1>4. ASSUME NEW p \in Portals, portalStep(p) \/ writerStep(p) PROVE ControlType'
    <2>1. CASE feed(p)
      BY <1>0, <1>1, <2>1, Feeds DEF ControlType, feed, FeederGoes
    <2>2. CASE ~ feed(p)
      BY <1>0, <1>1, <1>4, <2>2 DEF ControlType, portalStep, writerStep, closeFails, closeRows,
         finish, FeederGoes, writeRow, writeFail
    <2> QED
      BY <2>1, <2>2
  <1> QED
    BY <1>2, <1>3, <1>4 DEF Next

-----------------------------------------------------------------------------
(***************************************************************************)
(* The steps of the crawl, where the ranges go.                            *)
(***************************************************************************)
LEMMA ReceivedOnce ==
    ASSUME NEW S, NEW s \in Seq(S), s # <<>>,
           \A i, k \in 1 .. Len(s) : s[i] = s[k] => i = k
    PROVE  /\ Head(s) \notin ToSet(Tail(s))
           /\ \A i, k \in 1 .. Len(Tail(s)) : Tail(s)[i] = Tail(s)[k] => i = k
  <1>1. /\ Len(s) \in Nat \ {0} /\ Head(s) = s[1] /\ Len(Tail(s)) = Len(s) - 1
        /\ DOMAIN Tail(s) = 1 .. Len(s) - 1
        /\ \A i \in 1 .. Len(s) - 1 : Tail(s)[i] = s[i + 1] /\ i + 1 \in 1 .. Len(s)
    OBVIOUS
  <1>2. ASSUME NEW i \in 1 .. Len(s) - 1 PROVE Tail(s)[i] # Head(s)
    BY <1>1
  <1>3. ASSUME NEW i \in 1 .. Len(s) - 1, NEW k \in 1 .. Len(s) - 1, Tail(s)[i] = Tail(s)[k]
        PROVE  i = k
    <2>1. s[i + 1] = s[k + 1] /\ i + 1 \in 1 .. Len(s) /\ k + 1 \in 1 .. Len(s)
      BY <1>1, <1>3
    <2>2. i + 1 = k + 1
      BY <2>1
    <2> QED
      BY <2>2
  <1> QED
    BY <1>1, <1>2, <1>3 DEF ToSet

LEMMA RangesCounted ==
    ASSUME SplitInv
    PROVE  DateRange \subseteq Nat /\ [r \in DateRange |-> r] \in Seq(DateRange)
  <1>1. Len(ranges) \in Nat /\ DateRange = 1 .. Len(ranges)
    BY DEF SplitInv, SplitTypeOK, DateRange
  <1> QED
    BY <1>1

LEMMA RangeTypeStep ==
    ASSUME SplitInv, CrawlInv, Next, UNCHANGED splitVars
    PROVE  RangeType'
  <1>0. RangeType /\ ControlType /\ ControlType' /\ DateRange' = DateRange
    BY ControlStep, SameRanges DEF CrawlInv, CrawlType
  <1>1. ASSUME UNCHANGED <<jobs, current, failedRanges>>,
               \A w \in Workers : worker'[w] # "none" => worker[w] # "none"
        PROVE  RangeType'
    BY <1>0, <1>1 DEF RangeType
  <1>2. ASSUME NEW w \in Workers, workerStep(w) PROVE RangeType'
    <2>0. worker[w] # "none" /\ \A v \in Workers : worker'[v] # "none" => worker[v] # "none"
      BY <1>2, WorkerMoves
    <2>1. CASE take(w)
      <3>1. PICK p : p = Portal(w)
        OBVIOUS
      <3>2. jobs[p] \in Seq(DateRange) /\ jobs[p] # <<>> /\ p \in Portals
        BY <1>0, <2>1, <3>1, Bounds DEF take, RangeType
      <3>3. Head(jobs[p]) \in DateRange /\ Tail(jobs[p]) \in Seq(DateRange)
        BY <3>2, Received
      <3>4. /\ jobs' = [jobs EXCEPT ![p] = Tail(jobs[p])] /\ UNCHANGED failedRanges
            /\ current' = [current EXCEPT ![w] = Head(jobs[p])]
        BY <2>1, <3>1 DEF take, takeRange, history
      <3>5. Head(jobs[p]) \in Nat
        BY <3>3, RangesCounted
      <3>6. jobs' \in [Portals -> Seq(DateRange)] /\ current' \in [Workers -> Nat]
        BY <1>0, <3>2, <3>3, <3>4, <3>5 DEF RangeType
      <3>7. \A v \in Workers : worker'[v] # "none" => current'[v] \in DateRange
        BY <1>0, <2>0, <3>3, <3>4 DEF RangeType
      <3> QED
        BY <1>0, <3>4, <3>6, <3>7 DEF RangeType
    <2>2. CASE sessionFails(w) \/ firstFails(w)
      <3>1. current[w] \in DateRange /\ Portal(w) \in Portals
        BY <1>0, <2>0, Bounds DEF RangeType
      <3>2. /\ failedRanges' = [failedRanges EXCEPT ![Portal(w)] = @ \cup {current[w]}]
            /\ UNCHANGED <<jobs, current>>
        BY <2>2 DEF sessionFails, firstFails, MarkFailed, scraper
      <3> QED
        BY <1>0, <2>0, <3>1, <3>2 DEF RangeType
    <2>3. CASE ~ (take(w) \/ sessionFails(w) \/ firstFails(w))
      <3>1. UNCHANGED <<jobs, current, failedRanges>>
        BY <1>2, <2>3 DEF workerStep, stop, acquire, sessionOk, failInSlot, pageWithRow,
           pageWithShortRow, pageWithoutRows, enough, nextFails, fail, write, scraper, history
      <3> QED
        BY <1>1, <2>0, <3>1
    <2> QED
      BY <2>1, <2>2, <2>3
  <1>3. ASSUME NEW p \in Portals, feed(p) PROVE RangeType'
    <2>1. /\ jobs' = [jobs EXCEPT ![p] = [r \in DateRange |-> r]]
          /\ UNCHANGED <<current, failedRanges>>
      BY <1>3 DEF feed, scraper, history
    <2>2. jobs' \in [Portals -> Seq(DateRange)]
      BY <1>0, <2>1, RangesCounted DEF RangeType
    <2>3. ASSUME NEW w \in Workers, worker'[w] # "none" PROVE current[w] \in DateRange
      BY <1>0, <1>3, <2>3, Feeds DEF RangeType
    <2> QED
      BY <1>0, <2>1, <2>2, <2>3 DEF RangeType
  <1>4. CASE splitStep
    BY <1>1, <1>4 DEF splitStep, crawlVars
  <1>5. ASSUME NEW p \in Portals, portalStep(p) \/ writerStep(p), ~ feed(p) PROVE RangeType'
    BY <1>1, <1>5 DEF portalStep, writerStep, closeFails, closeRows, finish, writeRow, writeFail,
                      scraper, history
  <1> QED
    BY <1>2, <1>3, <1>4, <1>5 DEF Next

LEMMA RangeStep ==
    ASSUME SplitInv, CrawlInv, Next, UNCHANGED splitVars
    PROVE  RangeInv'
  <1>0. RangeInv /\ RangeType /\ ControlType
    BY DEF CrawlInv, CrawlType
  <1>1. ASSUME UNCHANGED <<jobs, current>>,
               \A w \in Workers : Searching(w)' => Searching(w)
        PROVE  RangeInv'
    BY <1>0, <1>1 DEF RangeInv
  <1>2. ASSUME NEW w \in Workers, workerStep(w) PROVE RangeInv'
    <2>0. \A v \in Workers \ {w} : worker'[v] = worker[v]
      BY <1>2, WorkerMoves
    <2>1. CASE take(w)
      <3>1. PICK p : p = Portal(w)
        OBVIOUS
      <3>2. PICK s : s = jobs[p]
        OBVIOUS
      <3>3. s \in Seq(DateRange) /\ s # <<>> /\ p \in Portals
        BY <1>0, <2>1, <3>1, <3>2, Bounds DEF take, RangeType
      <3>4. PICK r : r = Head(s)
        OBVIOUS
      <3>5. /\ ToSet(s) = {r} \cup ToSet(Tail(s)) /\ r \notin ToSet(Tail(s))
            /\ \A i, k \in 1 .. Len(Tail(s)) : Tail(s)[i] = Tail(s)[k] => i = k
        BY <1>0, <3>2, <3>3, <3>4, Received, ReceivedOnce DEF RangeInv
      <3>6. /\ jobs' = [jobs EXCEPT ![p] = Tail(s)] /\ current' = [current EXCEPT ![w] = r]
            /\ ~ Searching(w)
        BY <2>1, <3>1, <3>2, <3>4 DEF take, takeRange, Searching
      <3>7. /\ jobs'[p] = Tail(s) /\ \A q \in Portals \ {p} : jobs'[q] = jobs[q]
            /\ current'[w] = r /\ \A v \in Workers \ {w} : current'[v] = current[v]
        BY <1>0, <3>3, <3>6 DEF RangeType
      <3>8. \A v \in Workers \ {w} : Searching(v)' <=> Searching(v)
        BY <2>0 DEF Searching
      <3>9. \A v \in Workers \ {w} : Searching(v) /\ Portal(v) = p => current[v] \notin ToSet(s)
        BY <1>0, <3>2 DEF RangeInv
      <3>10. \A q \in Portals : \A i, k \in 1 .. Len(jobs'[q]) :
               jobs'[q][i] = jobs'[q][k] => i = k
        BY <1>0, <3>5, <3>7 DEF RangeInv
      <3>11. \A v \in Workers : Searching(v)' => current'[v] \notin ToSet(jobs'[Portal(v)])
        BY <1>0, <3>1, <3>5, <3>7, <3>8, <3>9, Bounds DEF RangeInv
      <3>12. \A u, v \in Workers :
               u # v /\ Portal(u) = Portal(v) /\ Searching(u)' /\ Searching(v)' =>
                   current'[u] # current'[v]
        BY <1>0, <3>1, <3>5, <3>7, <3>8, <3>9 DEF RangeInv
      <3> QED
        BY <3>10, <3>11, <3>12 DEF RangeInv
    <2>2. CASE ~ take(w)
      <3>1. UNCHANGED <<jobs, current>> /\ (worker[w] = "idle" => worker'[w] = "done")
        BY <1>0, <1>2, <2>2 DEF workerStep, stop, acquire, sessionOk, sessionFails, failInSlot,
           pageWithRow, pageWithShortRow, pageWithoutRows, Visiting, enough, nextFails, firstFails,
           fail, write, scraper, Go, ControlType
      <3>2. \A v \in Workers : Searching(v)' => Searching(v)
        BY <1>2, <2>0, <3>1, WorkerMoves DEF Searching
      <3> QED
        BY <1>1, <3>1, <3>2
    <2> QED
      BY <2>1, <2>2
  <1>3. ASSUME NEW p \in Portals, feed(p) PROVE RangeInv'
    <2>1. /\ jobs' = [jobs EXCEPT ![p] = [r \in DateRange |-> r]] /\ UNCHANGED current
      BY <1>3 DEF feed, scraper
    <2>2. /\ jobs'[p] = [r \in DateRange |-> r] /\ \A q \in Portals \ {p} : jobs'[q] = jobs[q]
      BY <1>0, <2>1 DEF RangeType
    <2>3. \A w \in Workers : Searching(w)' => Searching(w) /\ Portal(w) # p
      BY <1>3, Feeds DEF Searching
    <2>4. \A i, k \in 1 .. Len(jobs'[p]) : jobs'[p][i] = jobs'[p][k] => i = k
      <3>1. Len(ranges) \in Nat /\ DateRange = 1 .. Len(ranges)
        BY DEF SplitInv, SplitTypeOK, DateRange
      <3>2. Len(jobs'[p]) = Len(ranges)
        BY <2>2, <3>1
      <3> QED
        BY <2>2, <3>1, <3>2
    <2> QED
      BY <1>0, <2>1, <2>2, <2>3, <2>4, Bounds DEF RangeInv
  <1>4. CASE splitStep
    BY <1>1, <1>4 DEF splitStep, crawlVars, Searching
  <1>5. ASSUME NEW p \in Portals, portalStep(p) \/ writerStep(p), ~ feed(p) PROVE RangeInv'
    BY <1>1, <1>5 DEF portalStep, writerStep, closeFails, closeRows, finish, writeRow, writeFail,
                      scraper, Searching
  <1> QED
    BY <1>2, <1>3, <1>4, <1>5 DEF Next

-----------------------------------------------------------------------------
(***************************************************************************)
(* The steps of the crawl, where the rows and the failures go.             *)
(***************************************************************************)
\* What a step does to the worker that makes it.
LEMMA WorkerWrites ==
    ASSUME CrawlInv, NEW w \in Workers, workerStep(w)
    PROVE  /\ worker'[w] = "write" <=> pageWithRow(w)
           /\ worker[w] = "write" <=> write(w)
           /\ worker'[w] \in {"failInSlot", "fail"} <=> sessionFails(w) \/ firstFails(w)
           /\ worker[w] \in {"failInSlot", "fail"} <=> failInSlot(w) \/ fail(w)
           /\ take(w) => worker[w] = "idle"
  BY DEF CrawlInv, CrawlType, ControlType, workerStep, take, stop, acquire, sessionOk, sessionFails,
     failInSlot, pageWithRow, pageWithShortRow, pageWithoutRows, Visiting, enough, nextFails,
     firstFails, fail, write, Go

\* What the csv.Writer does with the rows it is given, one or none at the end.
Writes(p, given) ==
    \/ /\ p \notin rowsBroken
       /\ buffered' = [buffered EXCEPT ![p] = @ \cup given]
       /\ UNCHANGED <<rowsBroken, rowsFile>>
    \/ Flushed(p, given)
    \/ Refused(p)
    \/ p \in rowsBroken /\ UNCHANGED rowFile

LEMMA WriterWrites ==
    ASSUME NEW p \in Portals
    PROVE  /\ writeRow(p) => Writes(p, {Head(rows[p])})
           /\ finish(p) => Writes(p, {})
  BY DEF writeRow, finish, Writes

LEMMA FileTyped ==
    ASSUME SplitInv, CrawlInv, UNCHANGED splitVars,
           NEW p \in Portals, NEW given \in SUBSET Row, Writes(p, given)
    PROVE  FileType'
  <1>1. FileType /\ Row' = Row
    BY SameRanges DEF CrawlInv, CrawlType, RowType
  <1>2. CASE Refused(p)
    BY <1>1, <1>2 DEF FileType, Refused
  <1>3. CASE ~ Refused(p)
    BY <1>1, <1>3 DEF FileType, Writes, Flushed, rowFile
  <1> QED
    BY <1>2, <1>3

LEMMA FileKept ==
    ASSUME CrawlInv, NEW p \in Portals, NEW given \in SUBSET Row, Writes(p, given)
    PROVE  /\ \A q \in Portals \ {p} :
                Kept(q)' = Kept(q) /\ (q \in rowsBroken' <=> q \in rowsBroken)
           /\ Kept(p)' \subseteq Kept(p) \cup given
           /\ p \in rowsBroken' \/ Kept(p)' = Kept(p) \cup given
  <1>1. FileType
    BY DEF CrawlInv, CrawlType, RowType
  <1>2. CASE Refused(p)
    <2>1. PICK reached \in SUBSET buffered[p] :
            rowsFile' = [rowsFile EXCEPT ![p] = @ \cup reached]
      BY <1>2 DEF Refused
    <2>2. rowsBroken' = rowsBroken \cup {p} /\ buffered' = [buffered EXCEPT ![p] = {}]
      BY <1>2 DEF Refused
    <2> QED
      BY <1>1, <2>1, <2>2 DEF FileType, Kept
  <1>3. CASE ~ Refused(p)
    BY <1>1, <1>3 DEF FileType, Writes, Flushed, rowFile, Kept
  <1> QED
    BY <1>2, <1>3

LEMMA WorkersLeaveFiles ==
    ASSUME NEW w \in Workers, workerStep(w)
    PROVE  /\ UNCHANGED <<rowsBroken, failsBroken, failsFile, buffered, rowsFile>>
           /\ \A p \in Portals : Kept(p)' = Kept(p)
  <1>1. UNCHANGED <<rowFile, failFile>>
    BY DEF workerStep, take, stop, acquire, sessionOk, sessionFails, failInSlot, pageWithRow,
       pageWithShortRow, pageWithoutRows, enough, nextFails, firstFails, fail, write, writers
  <1> QED
    BY <1>1 DEF rowFile, failFile, Kept

LEMMA RowTypeStep ==
    ASSUME SplitInv, CrawlInv, Next, UNCHANGED splitVars
    PROVE  RowType'
  <1>0. RowType /\ RangeType /\ ControlType /\ Row' = Row
    BY SameRanges DEF CrawlInv, CrawlType
  <1>9. UNCHANGED rowFile => FileType'
    BY <1>0 DEF RowType, FileType, rowFile
  <1>1. ASSUME UNCHANGED <<scraped, total, rows, rowFile, parsed>>,
               \A w \in Workers : worker'[w] = "write" => worker[w] = "write"
        PROVE  RowType'
    BY <1>0, <1>1, <1>9 DEF RowType
  <1>2. ASSUME NEW w \in Workers, workerStep(w) PROVE RowType'
    <2>0. /\ \A v \in Workers \ {w} : worker'[v] = worker[v]
          /\ worker'[w] = "write" <=> pageWithRow(w)
          /\ worker[w] = "write" <=> write(w)
          /\ worker[w] # "none" /\ Portal(w) \in Portals
      BY <1>2, WorkerMoves, WorkerWrites, Bounds
    <2>1. current[w] \in DateRange /\ scraped[w] \in 0 .. Pages /\ Pages \in Nat
      BY <1>0, <2>0, Bounds DEF RangeType, RowType
    <2>2. CASE take(w) \/ pageWithShortRow(w) \/ pageWithoutRows(w)
      <3>1. /\ scraped' \in [Workers -> 0 .. Pages] /\ total' \in [Workers -> 0 .. Pages]
            /\ \A v \in Workers \ {w} : scraped'[v] = scraped[v]
        <4>1. scraped \in [Workers -> 0 .. Pages] /\ total \in [Workers -> 0 .. Pages]
          BY <1>0 DEF RowType
        <4>2. CASE take(w)
          BY <2>1, <4>1, <4>2 DEF take
        <4>3. CASE pageWithShortRow(w) \/ pageWithoutRows(w)
          BY <2>1, <4>1, <4>3 DEF pageWithShortRow, pageWithoutRows, readTotal
        <4> QED
          BY <2>2, <4>2, <4>3
      <3>2. UNCHANGED <<rows, rowFile, parsed>>
        BY <2>2 DEF take, pageWithShortRow, pageWithoutRows, writers, history
      <3>3. worker'[w] # "write"
        BY <1>0, <2>2 DEF take, pageWithShortRow, pageWithoutRows, Go, ControlType
      <3> QED
        BY <1>0, <1>9, <2>0, <3>1, <3>2, <3>3 DEF RowType
    <2>3. CASE pageWithRow(w)
      <3>1. scraped[w] + 1 \in 1 .. Pages
        BY <2>1, <2>3 DEF pageWithRow
      <3>2. /\ scraped' = [scraped EXCEPT ![w] = scraped[w] + 1]
            /\ total' \in [Workers -> 0 .. Pages]
            /\ parsed' = [parsed EXCEPT ![Portal(w)] = @ \cup {<<current[w], scraped[w] + 1>>}]
            /\ UNCHANGED <<rows, rowFile>>
        BY <1>0, <2>1, <2>3 DEF RowType, pageWithRow, readTotal, writers
      <3>3. /\ scraped' \in [Workers -> 0 .. Pages] /\ scraped'[w] # 0
            /\ \A v \in Workers \ {w} : scraped'[v] = scraped[v]
        BY <1>0, <2>1, <3>1, <3>2 DEF RowType
      <3>4. parsed' \in [Portals -> SUBSET Row]
        BY <1>0, <2>0, <2>1, <3>1, <3>2 DEF RowType, Row
      <3>5. \A v \in Workers : worker'[v] = "write" => scraped'[v] # 0
        BY <1>0, <2>0, <3>3 DEF RowType
      <3> QED
        BY <1>0, <1>9, <3>2, <3>3, <3>4, <3>5 DEF RowType
    <2>4. CASE write(w)
      <3>1. PICK x : x = <<current[w], scraped[w]>>
        OBVIOUS
      <3>2. x \in Row
        BY <1>0, <2>0, <2>1, <2>4, <3>1 DEF RowType, Row
      <3>3. PICK p \in Portals : p = Portal(w)
        BY <2>0
      <3>4. /\ rows' = [rows EXCEPT ![p] = Append(rows[p], x)] /\ Len(rows[p]) < RowsCap
            /\ UNCHANGED <<scraped, total, rowFile, parsed>>
        BY <2>4, <3>1, <3>3 DEF write, scraper, history
      <3>5. rows[p] \in Seq(Row) /\ RowsCap \in Nat
        BY <1>0, Bounds DEF RowType
      <3>6. Append(rows[p], x) \in Seq(Row) /\ Len(Append(rows[p], x)) <= RowsCap
        BY <3>2, <3>4, <3>5, Sent
      <3>7. rows' \in [Portals -> Seq(Row)] /\ \A q \in Portals : Len(rows'[q]) <= RowsCap
        BY <1>0, <3>4, <3>6 DEF RowType
      <3>8. \A v \in Workers : worker'[v] = "write" => scraped[v] # 0
        BY <1>0, <2>0, <2>4 DEF RowType
      <3> QED
        BY <1>0, <1>9, <3>4, <3>7, <3>8 DEF RowType
    <2>5. CASE ~ (take(w) \/ pageWithShortRow(w) \/ pageWithoutRows(w) \/ pageWithRow(w) \/ write(w))
      <3>1. UNCHANGED <<scraped, total, rows, rowFile, parsed>>
        BY <1>2, <2>5 DEF workerStep, stop, acquire, sessionOk, sessionFails, failInSlot, enough,
           nextFails, firstFails, fail, scraper, history, writers
      <3> QED
        BY <1>1, <2>0, <2>5, <3>1
    <2> QED
      BY <2>2, <2>3, <2>4, <2>5
  <1>3. ASSUME NEW p \in Portals, writeRow(p) PROVE RowType'
    <2>1. rows[p] \in Seq(Row) /\ rows[p] # <<>> /\ RowsCap \in Nat /\ Len(rows[p]) <= RowsCap
      BY <1>0, <1>3, Bounds DEF RowType, writeRow
    <2>2. /\ Head(rows[p]) \in Row /\ Tail(rows[p]) \in Seq(Row)
          /\ Len(Tail(rows[p])) <= RowsCap
      BY <2>1, Received
    <2>3. FileType'
      BY <1>3, <2>2, WriterWrites, FileTyped
    <2> QED
      BY <1>0, <1>3, <2>2, <2>3 DEF RowType, writeRow, scraper, history
  <1>4. ASSUME NEW p \in Portals, feed(p) PROVE RowType'
    <2>1. \A w \in Workers : worker'[w] = "write" => worker[w] = "write"
      BY <1>4, Feeds
    <2> QED
      BY <1>1, <1>4, <2>1 DEF feed, scraper, writers, history
  <1>5. CASE splitStep
    BY <1>1, <1>5 DEF splitStep, crawlVars, rowFile
  <1>6. ASSUME NEW p \in Portals, finish(p) PROVE RowType'
    <2>1. FileType'
      BY <1>6, WriterWrites, FileTyped
    <2> QED
      BY <1>0, <1>6, <2>1 DEF RowType, finish, scraper, history
  <1>7. ASSUME NEW p \in Portals, closeFails(p) \/ closeRows(p) \/ writeFail(p) PROVE RowType'
    BY <1>1, <1>7 DEF closeFails, closeRows, writeFail, scraper, writers, history
  <1> QED
    BY <1>2, <1>3, <1>4, <1>5, <1>6, <1>7 DEF Next, portalStep, writerStep

LEMMA RowStep ==
    ASSUME SplitInv, CrawlInv, Next, UNCHANGED splitVars
    PROVE  RowInv'
  <1>0. RowInv /\ RowType /\ RangeType /\ ControlType
    BY DEF CrawlInv, CrawlType
  <1>1. ASSUME UNCHANGED <<rows, parsed, rowsBroken>>,
               \A q \in Portals : Kept(q)' = Kept(q),
               \A w \in Workers :
                 (worker'[w] = "write") = (worker[w] = "write")
                 /\ (worker[w] = "write" => current'[w] = current[w] /\ scraped'[w] = scraped[w])
        PROVE  RowInv'
    BY <1>0, <1>1 DEF RowInv
  <1>8. ASSUME NEW p \in Portals, UNCHANGED <<worker, current, scraped, parsed>>,
               NEW given,
               ToSet(rows[p]) = given \cup ToSet(rows'[p]),
               \A q \in Portals \ {p} :
                 /\ Kept(q)' = Kept(q) /\ (q \in rowsBroken' <=> q \in rowsBroken)
                 /\ rows'[q] = rows[q],
               Kept(p)' \subseteq Kept(p) \cup given,
               p \in rowsBroken' \/ Kept(p)' = Kept(p) \cup given,
               p \in rowsBroken => p \in rowsBroken'
        PROVE  RowInv'
    <2>1. \A q \in Portals : (Kept(q) \cup ToSet(rows[q]) \subseteq parsed[q])'
      BY <1>0, <1>8 DEF RowInv
    <2>2. ASSUME NEW q \in Portals, NEW y \in parsed[q],
                 ~ \E v \in Workers : Portal(v) = q /\ worker[v] = "write"
                                      /\ y = <<current[v], scraped[v]>>
          PROVE  y \in Kept(q)' \cup ToSet(rows'[q]) \/ q \in rowsBroken'
      BY <1>0, <1>8, <2>2 DEF RowInv
    <2> QED
      BY <1>0, <1>8, <2>1, <2>2 DEF RowInv
  <1>2. ASSUME NEW w \in Workers, workerStep(w) PROVE RowInv'
    <2>0. /\ \A v \in Workers \ {w} : worker'[v] = worker[v]
          /\ worker'[w] = "write" <=> pageWithRow(w)
          /\ worker[w] = "write" <=> write(w)
          /\ Portal(w) \in Portals
      BY <1>2, WorkerMoves, WorkerWrites, Bounds
    <2>9. UNCHANGED rowsBroken /\ \A q \in Portals : Kept(q)' = Kept(q)
      BY <1>2, WorkersLeaveFiles
    <2>1. CASE pageWithRow(w)
      <3>1. PICK x : x = <<current[w], scraped[w] + 1>>
        OBVIOUS
      <3>2. /\ scraped' = [scraped EXCEPT ![w] = scraped[w] + 1] /\ UNCHANGED <<current, rows>>
            /\ parsed' = [parsed EXCEPT ![Portal(w)] = @ \cup {x}]
        BY <2>1, <3>1 DEF pageWithRow, writers
      <3>3. /\ <<current'[w], scraped'[w]>> = x
            /\ \A v \in Workers \ {w} : scraped'[v] = scraped[v]
        BY <1>0, <3>1, <3>2 DEF RowType
      <3>4. \A p \in Portals : parsed'[p] = IF p = Portal(w) THEN parsed[p] \cup {x} ELSE parsed[p]
        BY <1>0, <3>2 DEF RowType
      <3>5. worker'[w] = "write" /\ worker[w] # "write"
        BY <2>0, <2>1 DEF pageWithRow, Visiting
      <3>6. \A p \in Portals : Kept(p)' \cup ToSet(rows'[p]) \subseteq parsed'[p]
        BY <1>0, <2>9, <3>2, <3>4 DEF RowInv
      <3>7. \A v \in Workers :
              worker'[v] = "write" => <<current'[v], scraped'[v]>> \in parsed'[Portal(v)]
        BY <1>0, <2>0, <3>2, <3>3, <3>4, Bounds DEF RowInv
      <3>8. ASSUME NEW p \in Portals, NEW y \in parsed'[p]
            PROVE  \/ y \in Kept(p)' \cup ToSet(rows'[p]) \/ p \in rowsBroken'
                   \/ \E v \in Workers : /\ Portal(v) = p /\ worker'[v] = "write"
                                         /\ y = <<current'[v], scraped'[v]>>
        <4>1. CASE p = Portal(w) /\ y = x
          BY <3>3, <3>5, <4>1
        <4>2. CASE y \in parsed[p]
          BY <1>0, <2>0, <2>9, <3>2, <3>3, <3>5, <4>2 DEF RowInv
        <4> QED
          BY <3>4, <3>8, <4>1, <4>2
      <3> QED
        BY <3>6, <3>7, <3>8 DEF RowInv
    <2>2. CASE write(w)
      <3>1. PICK x : x = <<current[w], scraped[w]>>
        OBVIOUS
      <3>2. PICK p \in Portals : p = Portal(w)
        BY <2>0
      <3>3. /\ rows' = [rows EXCEPT ![p] = Append(rows[p], x)]
            /\ UNCHANGED <<current, scraped, parsed>>
        BY <2>2, <3>1, <3>2 DEF write, scraper, history
      <3>4. worker[w] = "write" /\ x \in parsed[p] /\ x \in Row /\ rows[p] \in Seq(Row)
        BY <1>0, <2>0, <2>2, <3>1, <3>2 DEF RowInv, RowType
      <3>5. ToSet(Append(rows[p], x)) = ToSet(rows[p]) \cup {x}
        BY <3>4, Sent
      <3>6. ASSUME NEW q \in Portals, NEW y
            PROVE  y \in ToSet(rows'[q]) <=> y \in ToSet(rows[q]) \/ (q = p /\ y = x)
        <4>1. rows'[p] = Append(rows[p], x) /\ (q # p => rows'[q] = rows[q])
          BY <1>0, <3>3 DEF RowType
        <4> QED
          BY <3>5, <4>1
      <3>7. worker'[w] # "write"
        BY <1>0, <2>2 DEF write, Go, ControlType
      <3>8. ASSUME NEW q \in Portals, NEW y \in Kept(q)' \cup ToSet(rows'[q])
            PROVE  y \in parsed'[q]
        <4>1. y \in Kept(q) \cup ToSet(rows[q]) \/ (q = p /\ y = x)
          <5>1. Kept(q)' = Kept(q)
            BY <2>9
          <5> QED
            BY <3>6, <3>8, <5>1
        <4>2. Kept(q) \cup ToSet(rows[q]) \subseteq parsed[q]
          BY <1>0 DEF RowInv
        <4> QED
          BY <3>3, <3>4, <4>1, <4>2
      <3>9. ASSUME NEW q \in Portals, NEW y \in parsed'[q]
            PROVE  \/ y \in Kept(q)' \cup ToSet(rows'[q]) \/ q \in rowsBroken'
                   \/ \E v \in Workers : /\ Portal(v) = q /\ worker'[v] = "write"
                                         /\ y = <<current'[v], scraped'[v]>>
        <4>1. \/ y \in Kept(q) \cup ToSet(rows[q]) \/ q \in rowsBroken
              \/ \E v \in Workers : Portal(v) = q /\ worker[v] = "write"
                                    /\ y = <<current[v], scraped[v]>>
          BY <1>0, <3>3, <3>9 DEF RowInv
        <4>2. CASE y \in Kept(q) \cup ToSet(rows[q])
          <5>1. Kept(q)' = Kept(q)
            BY <2>9
          <5> QED
            BY <3>6, <4>2, <5>1
        <4>4. CASE q \in rowsBroken
          BY <2>9, <4>4
        <4>3. CASE ~ (y \in Kept(q) \cup ToSet(rows[q]) \/ q \in rowsBroken)
          <5>1. PICK v \in Workers : /\ Portal(v) = q /\ worker[v] = "write"
                                     /\ y = <<current[v], scraped[v]>>
            BY <4>1, <4>3
          <5>2. CASE v = w
            BY <3>1, <3>2, <3>6, <5>1, <5>2
          <5>3. CASE v # w
            BY <2>0, <3>3, <5>1, <5>3
          <5> QED
            BY <5>2, <5>3
        <4> QED
          BY <4>2, <4>3, <4>4
      <3> QED
        BY <1>0, <2>0, <3>3, <3>7, <3>8, <3>9 DEF RowInv
    <2>3. CASE ~ (pageWithRow(w) \/ write(w))
      <3>1. /\ UNCHANGED <<rows, parsed>>
            /\ \A v \in Workers \ {w} : current'[v] = current[v] /\ scraped'[v] = scraped[v]
        <4>1. CASE take(w)
          BY <1>0, <4>1 DEF take, writers, history, RangeType, RowType
        <4>2. CASE ~ take(w)
          BY <1>0, <1>2, <2>3, <4>2 DEF workerStep, stop, acquire, sessionOk, sessionFails,
             failInSlot, pageWithShortRow, pageWithoutRows, enough, nextFails, firstFails, fail,
             scraper, history, writers, RowType
        <4> QED
          BY <4>1, <4>2
      <3> QED
        BY <1>1, <2>0, <2>9, <2>3, <3>1
    <2> QED
      BY <2>1, <2>2, <2>3
  <1>3. ASSUME NEW p \in Portals, writeRow(p) PROVE RowInv'
    <2>1. rows[p] \in Seq(Row) /\ rows[p] # <<>>
      BY <1>0, <1>3 DEF RowType, writeRow
    <2>2. PICK x : x = Head(rows[p])
      OBVIOUS
    <2>3. ToSet(rows[p]) = {x} \cup ToSet(Tail(rows[p]))
      BY <2>1, <2>2, Received
    <2>4. /\ \A q \in Portals \ {p} : rows'[q] = rows[q]
          /\ ToSet(rows[p]) = {x} \cup ToSet(rows'[p])
          /\ UNCHANGED <<worker, current, scraped, parsed>>
      BY <1>0, <1>3, <2>2, <2>3 DEF RowType, writeRow, scraper, history
    <2>5. x \in Row
      BY <2>1, <2>2, Received
    <2>6. /\ \A q \in Portals \ {p} :
               Kept(q)' = Kept(q) /\ (q \in rowsBroken' <=> q \in rowsBroken)
          /\ Kept(p)' \subseteq Kept(p) \cup {x}
          /\ p \in rowsBroken' \/ Kept(p)' = Kept(p) \cup {x}
      BY <1>3, <2>2, <2>5, WriterWrites, FileKept
    <2>7. p \in rowsBroken => p \in rowsBroken'
      BY <1>3 DEF writeRow, Flushed, Refused, rowFile
    <2> QED
      BY <1>8, <2>4, <2>6, <2>7
  <1>4. ASSUME NEW p \in Portals, feed(p) PROVE RowInv'
    <2>1. \A w \in Workers : worker'[w] = worker[w] \/ (worker[w] = "none" /\ worker'[w] = "idle")
      BY <1>4, Feeds
    <2> QED
      BY <1>1, <1>4, <2>1 DEF feed, scraper, writers, rowFile, Kept, history
  <1>5. CASE splitStep
    BY <1>1, <1>5 DEF splitStep, crawlVars, Kept
  <1>6. ASSUME NEW p \in Portals, finish(p) PROVE RowInv'
    <2>1. UNCHANGED <<worker, current, scraped, parsed, rows>>
      BY <1>6 DEF finish, scraper, history
    <2>2. /\ \A q \in Portals \ {p} :
               Kept(q)' = Kept(q) /\ (q \in rowsBroken' <=> q \in rowsBroken)
          /\ Kept(p)' \subseteq Kept(p) \cup {}
          /\ p \in rowsBroken' \/ Kept(p)' = Kept(p) \cup {}
      BY <1>6, WriterWrites, FileKept
    <2>3. ToSet(rows[p]) = {} \cup ToSet(rows'[p])
      BY <2>1
    <2>4. p \in rowsBroken => p \in rowsBroken'
      BY <1>6 DEF finish, Flushed, Refused, rowFile
    <2> QED
      BY <1>8, <2>1, <2>2, <2>3, <2>4
  <1>7. ASSUME NEW p \in Portals, closeFails(p) \/ closeRows(p) \/ writeFail(p) PROVE RowInv'
    BY <1>1, <1>7 DEF closeFails, closeRows, writeFail, scraper, writers, rowFile, Kept, history
  <1> QED
    BY <1>2, <1>3, <1>4, <1>5, <1>6, <1>7 DEF Next, portalStep, writerStep

\* What the steps of the workers do to the failures of their portal.
LEMMA FailureSent ==
    ASSUME CrawlInv, NEW w \in Workers, NEW r \in Failure, WriteFailure(Portal(w), r)
    PROVE  /\ fails' \in [Portals -> Seq(Failure)] /\ \A p \in Portals : Len(fails'[p]) <= FailsCap
           /\ \A p \in Portals : \A y :
                y \in ToSet(fails'[p]) <=> y \in ToSet(fails[p]) \/ (p = Portal(w) /\ y = r)
  <1>1. PICK p \in Portals : p = Portal(w)
    BY Bounds
  <1>2. /\ fails \in [Portals -> Seq(Failure)] /\ \A q \in Portals : Len(fails[q]) <= FailsCap
        /\ FailsCap \in Nat
    BY Bounds DEF CrawlInv, CrawlType, FailType
  <1>3. Len(fails[p]) < FailsCap /\ fails' = [fails EXCEPT ![p] = Append(fails[p], r)]
    BY <1>1 DEF WriteFailure
  <1>4. fails[p] \in Seq(Failure)
    BY <1>2
  <1>5. /\ Append(fails[p], r) \in Seq(Failure) /\ Len(Append(fails[p], r)) = Len(fails[p]) + 1
        /\ ToSet(Append(fails[p], r)) = ToSet(fails[p]) \cup {r}
    BY <1>4, Sent
  <1>6. fails' \in [Portals -> Seq(Failure)] /\ \A q \in Portals : Len(fails'[q]) <= FailsCap
    BY <1>2, <1>3, <1>4, <1>5
  <1>7. ASSUME NEW q \in Portals, NEW y
        PROVE  y \in ToSet(fails'[q]) <=> y \in ToSet(fails[q]) \/ (q = p /\ y = r)
    <2>1. fails'[p] = Append(fails[p], r) /\ (q # p => fails'[q] = fails[q])
      BY <1>2, <1>3
    <2> QED
      BY <1>5, <2>1
  <1> QED
    BY <1>1, <1>6, <1>7

LEMMA FailTypeStep ==
    ASSUME SplitInv, CrawlInv, Next, UNCHANGED splitVars
    PROVE  FailType'
  <1>0. FailType /\ RangeType /\ Failure' = Failure
    BY SameRanges DEF CrawlInv, CrawlType
  <1>1. ASSUME UNCHANGED <<fails, failFile>> PROVE FailType'
    BY <1>0, <1>1 DEF FailType, failFile
  <1>2. ASSUME NEW w \in Workers, workerStep(w) PROVE FailType'
    <2>1. current[w] \in Failure /\ NoDates \in Failure
      BY <1>0, <1>2, WorkerMoves DEF RangeType, Failure
    <2>2. CASE failInSlot(w) \/ fail(w) \/ firstFails(w)
      <3>1. PICK r \in Failure : WriteFailure(Portal(w), r) /\ UNCHANGED failFile
        BY <2>1, <2>2 DEF failInSlot, fail, firstFails
      <3>2. /\ fails' \in [Portals -> Seq(Failure)]
            /\ \A p \in Portals : Len(fails'[p]) <= FailsCap
        BY <3>1, FailureSent
      <3> QED
        BY <1>0, <3>1, <3>2 DEF FailType, failFile
    <2>3. CASE ~ (failInSlot(w) \/ fail(w) \/ firstFails(w))
      <3>1. UNCHANGED <<fails, failFile>>
        BY <1>2, <2>3 DEF workerStep, take, stop, acquire, sessionOk, sessionFails, pageWithRow,
           pageWithShortRow, pageWithoutRows, enough, nextFails, write, writers
      <3> QED
        BY <1>1, <3>1
    <2> QED
      BY <2>2, <2>3
  <1>3. ASSUME NEW p \in Portals, writeFail(p) PROVE FailType'
    <2>1. /\ fails[p] \in Seq(Failure) /\ fails[p] # <<>> /\ FailsCap \in Nat
          /\ Len(fails[p]) <= FailsCap /\ failsFile[p] \in Seq(Failure)
      BY <1>0, <1>3, Bounds DEF FailType, writeFail
    <2>2. /\ Head(fails[p]) \in Failure /\ Tail(fails[p]) \in Seq(Failure)
          /\ Len(Tail(fails[p])) <= FailsCap
      BY <2>1, Received
    <2>3. Append(failsFile[p], Head(fails[p])) \in Seq(Failure)
      BY <2>1, <2>2, Sent
    <2> QED
      BY <1>0, <1>3, <2>2, <2>3 DEF FailType, writeFail
  <1>4. CASE splitStep
    BY <1>1, <1>4 DEF splitStep, crawlVars, failFile
  <1>5. ASSUME NEW p \in Portals, portalStep(p) \/ writerStep(p), ~ writeFail(p) PROVE FailType'
    BY <1>1, <1>5 DEF portalStep, writerStep, feed, closeFails, closeRows, finish, writeRow, writers
  <1> QED
    BY <1>2, <1>3, <1>4, <1>5 DEF Next

LEMMA FailStep ==
    ASSUME SplitInv, CrawlInv, Next, UNCHANGED splitVars
    PROVE  FailInv'
  <1> DEFINE Telling == {"failInSlot", "fail"}
  <1>0. FailInv /\ FailType /\ RangeType /\ ControlType
    BY DEF CrawlInv, CrawlType
  <1>1. ASSUME UNCHANGED <<fails, failFile, failedRanges>>,
               \A w \in Workers :
                 worker[w] \in Telling => worker'[w] \in Telling /\ current'[w] = current[w]
        PROVE  FailInv'
    BY <1>0, <1>1 DEF FailInv, failFile
  <1>2. ASSUME NEW w \in Workers, workerStep(w) PROVE FailInv'
    <2>0. /\ \A v \in Workers \ {w} : worker'[v] = worker[v]
          /\ worker'[w] \in Telling <=> sessionFails(w) \/ firstFails(w)
          /\ worker[w] \in Telling <=> failInSlot(w) \/ fail(w)
          /\ Portal(w) \in Portals /\ UNCHANGED <<failsBroken, failsFile>>
      BY <1>2, WorkerMoves, WorkerWrites, WorkersLeaveFiles, Bounds
    <2>1. PICK p \in Portals : p = Portal(w)
      BY <2>0
    <2>2. PICK r : r = current[w]
      OBVIOUS
    <2>3. NoDates \in Failure /\ (worker[w] # "none" => r \in Failure)
      BY <1>0, <2>2 DEF RangeType, Failure
    <2>4. CASE sessionFails(w) \/ firstFails(w)
      <3>1. /\ failedRanges' = [failedRanges EXCEPT ![p] = @ \cup {r}]
            /\ UNCHANGED <<current, failsFile>>
        BY <2>0, <2>1, <2>2, <2>4 DEF sessionFails, firstFails, MarkFailed, writers, scraper
      <3>2. \A q \in Portals : \A y : y \in ToSet(fails[q]) => y \in ToSet(fails'[q])
        <4>1. CASE sessionFails(w)
          BY <4>1 DEF sessionFails, writers
        <4>2. CASE firstFails(w)
          BY <2>3, <4>2, FailureSent DEF firstFails
        <4> QED
          BY <2>4, <4>1, <4>2
      <3>3. ASSUME NEW q \in Portals, NEW y \in failedRanges'[q]
            PROVE  \/ y \in ToSet(failsFile'[q]) \cup ToSet(fails'[q]) \/ q \in failsBroken'
                   \/ \E v \in Workers :
                        Portal(v) = q /\ worker'[v] \in Telling /\ y = current'[v]
        <4>1. CASE q = p /\ y = r
          BY <2>0, <2>1, <2>2, <2>4, <3>1, <4>1
        <4>2. CASE ~ (q = p /\ y = r)
          <5>1. y \in failedRanges[q]
            BY <1>0, <3>1, <3>3, <4>2 DEF RangeType
          <5>2. CASE y \in ToSet(failsFile[q]) \cup ToSet(fails[q]) \/ q \in failsBroken
            BY <2>0, <3>1, <3>2, <5>2
          <5>3. CASE ~ (y \in ToSet(failsFile[q]) \cup ToSet(fails[q]) \/ q \in failsBroken)
            <6>1. PICK v \in Workers : Portal(v) = q /\ worker[v] \in Telling /\ y = current[v]
              BY <1>0, <5>1, <5>3 DEF FailInv
            <6> QED
              BY <2>0, <2>4, <3>1, <6>1
          <5> QED
            BY <5>2, <5>3
        <4> QED
          BY <4>1, <4>2
      <3> QED
        BY <3>3 DEF FailInv
    <2>5. CASE failInSlot(w) \/ fail(w)
      <3>1. /\ UNCHANGED <<current, failsFile, failedRanges>> /\ WriteFailure(Portal(w), r)
            /\ r \in Failure
        BY <2>0, <2>2, <2>3, <2>5 DEF failInSlot, fail, scraper, history
      <3>2. \A q \in Portals : \A y :
              y \in ToSet(fails'[q]) <=> y \in ToSet(fails[q]) \/ (q = p /\ y = r)
        BY <2>1, <3>1, FailureSent
      <3>3. ASSUME NEW q \in Portals, NEW y \in failedRanges'[q]
            PROVE  \/ y \in ToSet(failsFile'[q]) \cup ToSet(fails'[q]) \/ q \in failsBroken'
                   \/ \E v \in Workers :
                        Portal(v) = q /\ worker'[v] \in Telling /\ y = current'[v]
        <4>1. y \in failedRanges[q]
          BY <3>1, <3>3
        <4>2. CASE y \in ToSet(failsFile[q]) \cup ToSet(fails[q]) \/ q \in failsBroken
          BY <2>0, <3>1, <3>2, <4>2
        <4>3. CASE ~ (y \in ToSet(failsFile[q]) \cup ToSet(fails[q]) \/ q \in failsBroken)
          <5>1. PICK v \in Workers : Portal(v) = q /\ worker[v] \in Telling /\ y = current[v]
            BY <1>0, <4>1, <4>3 DEF FailInv
          <5>2. CASE v = w
            BY <2>1, <2>2, <3>2, <5>1, <5>2
          <5>3. CASE v # w
            BY <2>0, <3>1, <5>1, <5>3
          <5> QED
            BY <5>2, <5>3
        <4> QED
          BY <4>2, <4>3
      <3> QED
        BY <3>3 DEF FailInv
    <2>6. CASE ~ (sessionFails(w) \/ firstFails(w) \/ failInSlot(w) \/ fail(w))
      <3>1. /\ UNCHANGED <<fails, failFile, failedRanges>>
            /\ \A v \in Workers \ {w} : current'[v] = current[v]
        BY <1>0, <1>2, <2>6 DEF workerStep, take, stop, acquire, sessionOk, pageWithRow,
           pageWithShortRow, pageWithoutRows, enough, nextFails, write, writers, scraper, history,
           RangeType
      <3> QED
        BY <1>1, <2>0, <2>6, <3>1
    <2> QED
      BY <2>4, <2>5, <2>6
  <1>3. ASSUME NEW p \in Portals, writeFail(p) PROVE FailInv'
    <2>1. fails[p] \in Seq(Failure) /\ fails[p] # <<>> /\ failsFile[p] \in Seq(Failure)
      BY <1>0, <1>3 DEF FailType, writeFail
    <2>2. PICK r \in Failure : r = Head(fails[p])
      BY <2>1, Received
    <2>3. /\ ToSet(fails[p]) = {r} \cup ToSet(Tail(fails[p]))
          /\ ToSet(Append(failsFile[p], r)) = ToSet(failsFile[p]) \cup {r}
      BY <2>1, <2>2, Received, Sent
    <2>4. /\ fails'[p] = Tail(fails[p])
          /\ \A q \in Portals \ {p} :
               /\ fails'[q] = fails[q] /\ failsFile'[q] = failsFile[q]
               /\ q \in failsBroken <=> q \in failsBroken'
          /\ \/ failsFile'[p] = Append(failsFile[p], r) /\ UNCHANGED failsBroken
             \/ failsFile'[p] = failsFile[p] /\ p \in failsBroken'
          /\ UNCHANGED <<worker, current, failedRanges>>
      BY <1>0, <1>3, <2>2 DEF FailType, writeFail, scraper, history
    <2>5. \A q \in Portals :
            \/ q \in failsBroken'
            \/ /\ q \notin failsBroken
               /\ ToSet(failsFile'[q]) \cup ToSet(fails'[q])
                    = ToSet(failsFile[q]) \cup ToSet(fails[q])
      BY <2>3, <2>4
    <2> QED
      BY <1>0, <2>4, <2>5 DEF FailInv
  <1>4. ASSUME NEW p \in Portals, feed(p) PROVE FailInv'
    <2>1. \A w \in Workers : worker'[w] = worker[w] \/ (worker[w] = "none" /\ worker'[w] = "idle")
      BY <1>4, Feeds
    <2> QED
      BY <1>1, <1>4, <2>1 DEF feed, scraper, writers, history
  <1>5. CASE splitStep
    BY <1>1, <1>5 DEF splitStep, crawlVars, failFile
  <1>6. ASSUME NEW p \in Portals, portalStep(p) \/ writerStep(p), ~ feed(p), ~ writeFail(p)
        PROVE  FailInv'
    BY <1>1, <1>6 DEF portalStep, writerStep, closeFails, closeRows, finish, writeRow, scraper,
                      writers, history
  <1> QED
    BY <1>2, <1>3, <1>4, <1>5, <1>6 DEF Next

-----------------------------------------------------------------------------
(***************************************************************************)
(* The steps of the crawl, how a portal ends.                              *)
(***************************************************************************)
LEMMA PhaseStep ==
    ASSUME SplitInv, CrawlInv, Next, UNCHANGED splitVars
    PROVE  PhaseInv'
  <1>0. PhaseInv /\ FailType /\ RowType /\ RangeType /\ ControlType
    BY DEF CrawlInv, CrawlType
  <1>1. ASSUME NEW w \in Workers, workerStep(w) PROVE PhaseInv'
    <2>0. /\ UNCHANGED feeder /\ feeder[Portal(w)] = "wait"
          /\ \A v \in Workers \ {w} : worker'[v] = worker[v]
      BY <1>1, WorkerMoves
    <2>1. \A v \in Workers \ {w} : current'[v] = current[v]
      BY <1>0, <1>1 DEF RangeType, workerStep, take, stop, acquire, sessionOk, sessionFails,
         failInSlot, pageWithRow, pageWithShortRow, pageWithoutRows, enough, nextFails, firstFails,
         fail, write, scraper
    <2>2. \A q \in Portals : q # Portal(w) => fails'[q] = fails[q]
      BY <1>0, <1>1 DEF FailType, workerStep, take, stop, acquire, sessionOk, sessionFails,
         failInSlot, pageWithRow, pageWithShortRow, pageWithoutRows, enough, nextFails, firstFails,
         fail, write, writers, WriteFailure
    <2>3. \A q \in Portals : q # Portal(w) => rows'[q] = rows[q]
      BY <1>0, <1>1 DEF RowType, workerStep, take, stop, acquire, sessionOk, sessionFails,
         failInSlot, pageWithRow, pageWithShortRow, pageWithoutRows, enough, nextFails, firstFails,
         fail, write, writers
    <2>6. UNCHANGED <<buffered, rowsBroken>>
      BY <1>1, WorkersLeaveFiles
    <2>4. ASSUME NEW v \in Workers
          PROVE  /\ feeder'[Portal(v)] = "feed" => worker'[v] = "none" /\ current'[v] = 1
                 /\ feeder'[Portal(v)] \notin {"feed", "wait"} => worker'[v] \in {"none", "done"}
      <3>1. CASE v = w
        BY <2>0, <3>1
      <3>2. CASE v # w
        BY <1>0, <2>0, <2>1, <3>2 DEF PhaseInv
      <3> QED
        BY <3>1, <3>2
    <2>5. ASSUME NEW q \in Portals
          PROVE  /\ feeder'[q] \in {"closeRows", "done"} => fails'[q] = <<>>
                 /\ feeder'[q] = "done" => rows'[q] = <<>>
                                            /\ (buffered'[q] = {} \/ q \in rowsBroken')
      BY <1>0, <2>0, <2>2, <2>3, <2>6 DEF PhaseInv
    <2> QED
      BY <2>4, <2>5 DEF PhaseInv
  <1>2. ASSUME NEW p \in Portals, feed(p) PROVE PhaseInv'
    <2>1. /\ feeder'[p] = "wait" /\ \A q \in Portals \ {p} : feeder'[q] = feeder[q]
          /\ UNCHANGED <<current, rows, fails, buffered, rowsBroken>>
      BY <1>0, <1>2 DEF feed, FeederGoes, ControlType, writers, rowFile, scraper
    <2>2. \A v \in Workers : Portal(v) # p => worker'[v] = worker[v]
      BY <1>2, Feeds
    <2> QED
      BY <1>0, <2>1, <2>2, Bounds DEF PhaseInv
  <1>3. ASSUME NEW p \in Portals, closeFails(p) PROVE PhaseInv'
    <2>1. /\ feeder'[p] = "closeFails" /\ \A q \in Portals \ {p} : feeder'[q] = feeder[q]
          /\ UNCHANGED <<worker, current, rows, fails, buffered, rowsBroken>>
          /\ \A v \in Workers : Portal(v) = p => worker[v] \in {"none", "done"}
      BY <1>0, <1>3 DEF closeFails, WorkersDone, FeederGoes, ControlType, writers, rowFile, scraper
    <2> QED
      BY <1>0, <2>1, Bounds DEF PhaseInv
  <1>4. ASSUME NEW p \in Portals, closeRows(p) \/ finish(p) PROVE PhaseInv'
    <2>1. /\ \A q \in Portals \ {p} : feeder'[q] = feeder[q]
          /\ UNCHANGED <<worker, current, rows, fails>>
          /\ \/ feeder[p] = "closeFails" /\ feeder'[p] = "closeRows" /\ fails[p] = <<>>
             \/ feeder[p] = "closeRows" /\ feeder'[p] = "done" /\ rows[p] = <<>>
      BY <1>0, <1>4 DEF closeRows, finish, Drained, FeederGoes, ControlType, writers, scraper
    <2>2. \A q \in Portals \ {p} :
            buffered'[q] = buffered[q] /\ (q \in rowsBroken' <=> q \in rowsBroken)
      BY <1>0, <1>4 DEF closeRows, finish, Flushed, Refused, rowFile, writers, RowType, FileType
    <2>3. feeder'[p] = "done" => buffered'[p] = {} \/ p \in rowsBroken'
      <3>1. CASE finish(p)
        BY <1>0, <3>1 DEF finish, Flushed, Refused, rowFile, RowType, FileType
      <3>2. CASE closeRows(p)
        BY <1>0, <3>2 DEF closeRows, FeederGoes, ControlType
      <3> QED
        BY <1>4, <3>1, <3>2
    <2> QED
      BY <1>0, <2>1, <2>2, <2>3, Bounds DEF PhaseInv
  <1>5. ASSUME NEW p \in Portals, writeRow(p) \/ writeFail(p) PROVE PhaseInv'
    <2>1. /\ UNCHANGED <<feeder, worker, current>>
          /\ \A q \in Portals : rows[q] = <<>> => rows'[q] = <<>>
          /\ \A q \in Portals : fails[q] = <<>> => fails'[q] = <<>>
      BY <1>0, <1>5 DEF writeRow, writeFail, RowType, FailType, scraper
    <2>2. \A q \in Portals :
            rows[q] = <<>> =>
                buffered'[q] = buffered[q] /\ (q \in rowsBroken' <=> q \in rowsBroken)
      BY <1>0, <1>5 DEF writeRow, writeFail, Flushed, Refused, rowFile, RowType, FileType
    <2> QED
      BY <1>0, <2>1, <2>2 DEF PhaseInv
  <1>6. CASE splitStep
    BY <1>0, <1>6 DEF splitStep, crawlVars, PhaseInv
  <1> QED
    BY <1>1, <1>2, <1>3, <1>4, <1>5, <1>6 DEF Next, portalStep, writerStep

-----------------------------------------------------------------------------
(***************************************************************************)
(* The invariant.                                                          *)
(***************************************************************************)
LEMMA CrawlStep ==
    ASSUME SplitInv, CrawlInv, [Next]_vars, UNCHANGED splitVars
    PROVE  CrawlInv'
  <1>1. CASE Next
    BY <1>1, ControlStep, RangeTypeStep, RowTypeStep, FailTypeStep, SlotStep, RangeStep, RowStep,
       FailStep, PhaseStep DEF CrawlInv, CrawlType
  <1>2. CASE UNCHANGED vars
    <2>1. UNCHANGED crawlVars
      BY <1>2 DEF vars
    <2>2. ControlType' /\ RangeType'
      BY <2>1, SameRanges DEF crawlVars, CrawlInv, CrawlType, ControlType, RangeType
    <2>3. RowType' /\ FailType'
      BY <2>1, SameRanges DEF crawlVars, CrawlInv, CrawlType, RowType, FileType, FailType
    <2>4. SlotInv' /\ RangeInv'
      BY <2>1 DEF crawlVars, CrawlInv, SlotInv, SlotsExact, Establishing, RangeInv, Searching
    <2>5. RowInv' /\ FailInv' /\ PhaseInv'
      BY <2>1 DEF crawlVars, CrawlInv, RowInv, Kept, FailInv, PhaseInv
    <2> QED
      BY <2>2, <2>3, <2>4, <2>5 DEF CrawlInv, CrawlType
  <1> QED
    BY <1>1, <1>2

LEMMA NextInv ==
    ASSUME Inv, [Next]_vars
    PROVE  Inv'
  <1>1. SplitInv'
    BY CrawlKeepsRanges, NextKeeps DEF Inv
  <1>2. CASE ~ returned
    <2>1. Fresh'
      BY <1>2, BeforeReturn DEF Inv, Fresh, crawlVars
    <2>2. SplitInv' /\ Fresh' => CrawlInv'
      BY FreshInv, PTL
    <2> QED
      BY <1>1, <2>1, <2>2 DEF Inv
  <1>3. CASE returned
    <2>1. UNCHANGED splitVars
      BY <1>3, AfterReturn
    <2>2. CrawlInv'
      BY <2>1, CrawlStep DEF Inv
    <2>3. returned'
      BY <1>3, <2>1 DEF splitVars
    <2> QED
      BY <1>1, <2>2, <2>3, Zenon DEF Inv
  <1> QED
    BY <1>2, <1>3

(***************************************************************************)
(* The inductive invariant of the crawl, for every dates, portals, bounds  *)
(* and capacities: until the ranges are cut nothing runs; then a range is  *)
(* queued, with one worker, or done, a row is in the file, the channel or  *)
(* with the worker that sends it, and a portal whose writers are closed    *)
(* has no worker left.                                                     *)
(***************************************************************************)
THEOREM CrawlInvariance == Spec => []Inv
  BY InitInv, NextInv, PTL DEF Spec

(***************************************************************************)
(* The crawl's variables have their types; no channel of a writer holds    *)
(* more than its capacity, and no more slots are in use than there are.    *)
(***************************************************************************)
THEOREM CrawlTypeOK == Spec => []TypeOK
  <1>1. Inv => TypeOK
    <2> SUFFICES ASSUME Inv PROVE TypeOK
      OBVIOUS
    <2>1. SplitTypeOK /\ ControlType /\ RangeType /\ RowType /\ FailType
      BY DEF Inv, SplitInv, CrawlInv, CrawlType
    <2>2. ASSUME NEW S, NEW s \in Seq(S) PROVE ToSet(s) \subseteq S
      BY DEF ToSet
    <2>3. ASSUME NEW p \in Portals
          PROVE  /\ ToSet(jobs[p]) \subseteq DateRange
                 /\ ToSet(rows[p]) \subseteq Row /\ Len(rows[p]) <= RowsCap
                 /\ ToSet(fails[p]) \cup ToSet(failsFile[p]) \subseteq Failure
                 /\ Len(fails[p]) <= FailsCap
      <3>1. /\ jobs[p] \in Seq(DateRange) /\ rows[p] \in Seq(Row)
            /\ fails[p] \in Seq(Failure) /\ failsFile[p] \in Seq(Failure)
            /\ Len(rows[p]) <= RowsCap /\ Len(fails[p]) <= FailsCap
        BY <2>1 DEF RangeType, RowType, FailType
      <3> QED
        BY <2>2, <3>1
    <2> QED
      BY <2>1, <2>3 DEF TypeOK, ControlType, Places, RangeType, RowType, FileType, FailType
  <1> QED
    BY <1>1, CrawlInvariance, PTL

(***************************************************************************)
(* For any number of portals and workers: a slot of the semaphore is held  *)
(* exactly by a worker that establishes a session, so none is lost on the  *)
(* paths through a failure, where the slot is given back after a send that *)
(* may wait.                                                               *)
(***************************************************************************)
THEOREM SlotsAlwaysExact == Spec => []SlotsExact
  <1>1. Inv => SlotsExact
    BY DEF Inv, CrawlInv, SlotInv
  <1> QED
    BY <1>1, CrawlInvariance, PTL

(***************************************************************************)
(* No day is searched by two workers of a portal: the queue hands a range  *)
(* to one worker, and two ranges share no day.                             *)
(***************************************************************************)
THEOREM DaySearchedByOne == Spec => []DaySearchedOnce
  <1>1. Inv => DaySearchedOnce
    <2> SUFFICES ASSUME Inv, NEW v \in Workers, NEW w \in Workers, v # w, Portal(v) = Portal(w),
                        Searching(v), Searching(w), NEW d \in from .. to,
                        Holds(current[v], d), Holds(current[w], d)
                 PROVE  FALSE
      BY DEF DaySearchedOnce
    <2>1. PICK i \in DateRange, k \in DateRange : i = current[v] /\ k = current[w]
      BY DEF Inv, CrawlInv, CrawlType, RangeType, Searching
    <2>2. i # k
      BY <2>1 DEF Inv, CrawlInv, RangeInv
    <2>3. /\ ranges \in Seq(Chunk) /\ from \in Int /\ to \in Int
          /\ \A x, y \in DateRange : x < y => ranges[x].last < ranges[y].first
      BY DEF Inv, SplitInv, SplitTypeOK, ChunksDisjoint, DateRange
    <2>4. i \in Int /\ k \in Int /\ ranges[i] \in Chunk /\ ranges[k] \in Chunk
      BY <2>3 DEF DateRange
    <2>5. /\ ranges[i].first <= d /\ d <= ranges[i].last
          /\ ranges[k].first <= d /\ d <= ranges[k].last
      BY <2>1 DEF Holds
    <2>6. i < k \/ k < i
      BY <2>2, <2>4
    <2>7. ranges[i].last < ranges[k].first \/ ranges[k].last < ranges[i].first
      BY <2>3, <2>6
    <2> QED
      BY <2>3, <2>4, <2>5, <2>7 DEF Chunk
  <1> QED
    BY <1>1, CrawlInvariance, PTL

(***************************************************************************)
(* When a portal is finished its two files are complete, unless one of     *)
(* their writes was refused: the channels were closed in the order that    *)
(* lets each writer drain its own, and what the csv.Writer held to the end *)
(* was written out.  A file never has a row that no page had.              *)
(***************************************************************************)
THEOREM FilesAlwaysComplete == Spec => []FilesComplete
  <1>1. Inv => FilesComplete
    <2> SUFFICES ASSUME Inv, NEW p \in Portals
                 PROVE  /\ rowsFile[p] \subseteq parsed[p]
                        /\ feeder[p] = "done" =>
                             /\ p \in rowsBroken \/ rowsFile[p] = parsed[p]
                             /\ p \in failsBroken \/ failedRanges[p] \subseteq ToSet(failsFile[p])
      BY DEF FilesComplete
    <2>1. RowInv /\ FailInv /\ PhaseInv
      BY DEF Inv, CrawlInv
    <2>2. rowsFile[p] \subseteq parsed[p]
      BY <2>1 DEF RowInv, Kept
    <2>3. ASSUME feeder[p] = "done"
          PROVE  /\ ToSet(rows[p]) = {} /\ ToSet(fails[p]) = {}
                 /\ \A w \in Workers : Portal(w) = p => worker[w] \in {"none", "done"}
                 /\ buffered[p] = {} \/ p \in rowsBroken
      BY <2>1, <2>3 DEF PhaseInv, ToSet
    <2>4. feeder[p] = "done" /\ p \notin rowsBroken => parsed[p] \subseteq rowsFile[p]
      BY <2>1, <2>3 DEF RowInv, Kept
    <2>5. feeder[p] = "done" /\ p \notin failsBroken => failedRanges[p] \subseteq ToSet(failsFile[p])
      BY <2>1, <2>3 DEF FailInv
    <2> QED
      BY <2>2, <2>4, <2>5
  <1> QED
    BY <1>1, CrawlInvariance, PTL
=============================================================================
