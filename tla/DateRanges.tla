----------------------------- MODULE DateRanges -----------------------------
(***************************************************************************)
(* SplitDateRange (utils/date.go) and the default its caller applies       *)
(* (scraper/nav/linkExtract.go, PastTenders): the days between two dates,  *)
(* cut into the consecutive chunks that the link workers search.  A day is *)
(* an integer: both dates are parsed as UTC midnights, so AddDate is exact *)
(* addition of days.  One step is one turn of the loop.                    *)
(***************************************************************************)
EXTENDS Integers, Sequences

CONSTANTS
    Days,         \* the days the operator may type
    ChunkSizes    \* the values of --chunk the operator may type

ASSUME DaysAssumption == Days \subseteq Int
ASSUME ChunkSizesAssumption == ChunkSizes \subseteq Int

VARIABLES
    from, to,        \* the dates asked for
    daysPerGroup,
    cur,             \* the first day not yet in a chunk
    ranges,          \* the chunks so far
    returned

splitVars == <<from, to, daysPerGroup, cur, ranges, returned>>

Chunk == [first : Int, last : Int]

(* A definition named X_Slip is a plausible mistake in X; no action uses   *)
(* it, it is there to show which property would notice.                    *)

\* A chunk size that is not positive is replaced by a week.
chunkDays(size) == IF size <= 0 THEN 7 ELSE size

SplitInit ==
    /\ from \in Days
    /\ to \in Days
    /\ \E size \in ChunkSizes : daysPerGroup = chunkDays(size)
    /\ cur = from
    /\ ranges = <<>>
    /\ returned = FALSE

\* The last day of the chunk that starts at cur: inclusive, and never past to.
end ==
    LET full == cur + daysPerGroup - 1
    IN  IF full > to THEN to ELSE full

nextStart_Shared == end

\* The next chunk starts after end.
nextStart == end + 1

split ==
    /\ cur < to
    /\ ranges' = Append(ranges, [first |-> cur, last |-> end])
    /\ cur' = nextStart
    /\ UNCHANGED <<from, to, daysPerGroup, returned>>

return ==
    /\ ~ cur < to
    /\ ~ returned
    /\ returned' = TRUE
    /\ UNCHANGED <<from, to, daysPerGroup, cur, ranges>>

SplitNext == split \/ return

SplitSpec == SplitInit /\ [][SplitNext]_splitVars

-----------------------------------------------------------------------------
\* The variables have their types, and a chunk has at least one day.
SplitTypeOK ==
    /\ from \in Int /\ to \in Int /\ cur \in Int
    /\ daysPerGroup \in Nat \ {0}
    /\ ranges \in Seq(Chunk)
    /\ returned \in BOOLEAN

\* No day is searched twice: two chunks share none (two workers would write
\* the same tenders to the state's CSV file).
ChunksDisjoint ==
    \A i, j \in DOMAIN ranges :
        i < j => ranges[i].last < ranges[j].first

\* A chunk lies within the dates asked for, is not empty, and is no longer
\* than the portal search the operator asked for.
ChunksWithin ==
    \A i \in DOMAIN ranges :
        /\ from <= ranges[i].first
        /\ ranges[i].first <= ranges[i].last
        /\ ranges[i].last <= to
        /\ ranges[i].last - ranges[i].first < daysPerGroup

Holds(i, d) == ranges[i].first <= d /\ d <= ranges[i].last

\* When SplitDateRange returns, every day before the last one is in exactly one chunk:
\* a gap would lose its tenders, an overlap would write them twice.
EveryDayOnce ==
    returned =>
        \A d \in from .. (to - 1) :
            \E i \in DOMAIN ranges :
                Holds(i, d) /\ \A j \in DOMAIN ranges : Holds(j, d) => j = i

\* What makes the properties above hold together: cur is the first day that
\* no chunk holds, every day before it is held, and nothing is left at the end.
SplitInv ==
    /\ SplitTypeOK
    /\ from <= cur
    /\ ChunksWithin
    /\ \A i \in DOMAIN ranges : ranges[i].last < cur
    /\ ChunksDisjoint
    /\ \A d \in from .. (cur - 1) :
         \E i \in DOMAIN ranges : Holds(i, d)
    /\ returned => to <= cur
=============================================================================
