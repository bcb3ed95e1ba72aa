----------------------------- MODULE TenderDocs -----------------------------
(***************************************************************************)
(* ProcessTender (src/cli/commands/document_download.go) and the document  *)
(* downloader it drives (src/docDownloads), for the documents of ONE       *)
(* tender.  A run of ProcessTender checks S3, opens a session, lists the   *)
(* documents, downloads them into the shared directory TenderDocs/<id>,    *)
(* zips and uploads them, and removes the directory.                       *)
(*                                                                         *)
(* Several runs of one tender happen one after the other (retries of       *)
(* RetryProcessTender and RunBatch, a job run again after a crash) or at   *)
(* the same time (two jobs for one tender_id).  The portal and S3 are      *)
(* external.  A file or an object is absent, partial (a download that was  *)
(* not finished), or whole.                                                *)
(***************************************************************************)
EXTENDS Integers, FiniteSets

CONSTANTS
  Runs,         \* runs of ProcessTender for this tender
  NoRun,
  Base,         \* NIT documents and the work item zip
  Corr,         \* corrigendum documents of the configuration
  Large,        \* documents above maxFileSize
  MaxParallel,  \* MaxParallelDownloads
  MaxCrashes,   \* bound: crashes of the process
  MaxStalls     \* bound: downloads the portal leaves hanging

Docs == Base \cup Corr
Contents == {"absent", "partial", "whole"}

ASSUME DocsAssumption ==
  /\ NoRun \notin Runs
  /\ Base \cap Corr = {}
  /\ Large \subseteq Docs
  /\ IsFiniteSet(Docs)
  /\ MaxParallel \in Nat \ {0}
  /\ {MaxCrashes, MaxStalls} \subseteq Nat

VARIABLES
  local,    \* the files of TenderDocs/<id>
  writer,   \* the run that last created each file, NoRun once it is removed
  s3,       \* the objects of the tender's three folders
  s3zip,    \* the documents in TenderDocs.zip, {} before it is uploaded
  pc,       \* where each run is
  skip,     \* skipWorkNit
  listed,   \* NITDocs, WorkItemZip and CorrigendumDocs of the downloader
  asked,    \* history: the documents each run set out to fetch
  todo,     \* documents still to download or to upload
  inflight, \* documents being downloaded
  errs,     \* an error has been collected
  result,   \* what ProcessTender returned: "none", "ok" or "err"
  stored,   \* history: documents of this run that are in S3 through it
  overlapped, \* history: two runs of the tender were under way at once
  crashes,
  stalled   \* downloads of each run whose response never comes or never ends

runVars == <<pc, skip, listed, asked, todo, inflight, errs, result, stored>>
faultVars == <<crashes, stalled>>
vars == <<local, writer, s3, s3zip, runVars, overlapped, faultVars>>

TypeOK ==
  /\ local \in [Docs -> Contents]
  /\ writer \in [Docs -> Runs \cup {NoRun}]
  /\ s3 \in [Docs -> Contents]
  /\ s3zip \subseteq Base
  /\ pc \in [Runs -> {"new", "session", "links", "download", "zip", "upload", "done"}]
  /\ skip \in [Runs -> BOOLEAN]
  /\ listed \in [Runs -> SUBSET Docs]
  /\ asked \in [Runs -> SUBSET Docs]
  /\ todo \in [Runs -> SUBSET Docs]
  /\ inflight \in [Runs -> SUBSET Docs]
  /\ errs \in [Runs -> BOOLEAN]
  /\ result \in [Runs -> {"none", "ok", "err"}]
  /\ stored \in [Runs -> SUBSET Docs]
  /\ overlapped \in BOOLEAN
  /\ crashes \in 0..MaxCrashes
  /\ stalled \in [Runs -> SUBSET Docs]

Init ==
  /\ local = [d \in Docs |-> "absent"]
  /\ writer = [d \in Docs |-> NoRun]
  /\ s3 = [d \in Docs |-> "absent"]
  /\ s3zip = {}
  /\ pc = [r \in Runs |-> "new"]
  /\ skip = [r \in Runs |-> FALSE]
  /\ listed = [r \in Runs |-> {}]
  /\ asked = [r \in Runs |-> {}]
  /\ todo = [r \in Runs |-> {}]
  /\ inflight = [r \in Runs |-> {}]
  /\ errs = [r \in Runs |-> FALSE]
  /\ result = [r \in Runs |-> "none"]
  /\ stored = [r \in Runs |-> {}]
  /\ overlapped = FALSE
  /\ crashes = 0
  /\ stalled = [r \in Runs |-> {}]

Active(r) == pc[r] \notin {"new", "done"}

Go(r, from, to) == pc[r] = from /\ pc' = [pc EXCEPT ![r] = to]

(* ProcessTender returns.                                                  *)
Return(r, res) ==
  /\ pc' = [pc EXCEPT ![r] = "done"]
  /\ result' = [result EXCEPT ![r] = res]

-----------------------------------------------------------------------------
(* Before the downloads.                                                   *)

(* CheckTenderFolderExists: any object of the tender counts.               *)
FolderExists == s3zip # {} \/ \E d \in Docs : s3[d] # "absent"

checkFolder(r) ==
  /\ Go(r, "new", "session")
  /\ overlapped' = (overlapped \/ \E q \in Runs : Active(q))
  /\ skip' = [skip EXCEPT ![r] = FolderExists]
  /\ UNCHANGED <<local, writer, s3, s3zip, listed, asked, todo, inflight, errs, result, stored,
                 faultVars>>

(* Any of the listing, the session, the captcha or the link check fails.   *)
failEarly(r) ==
  /\ pc[r] \in {"new", "session", "links"}
  /\ Return(r, "err")
  /\ UNCHANGED <<local, writer, s3, s3zip, skip, listed, asked, todo, inflight, errs, stored, overlapped,
                 faultVars>>

establishSession(r) ==
  /\ Go(r, "session", "links")
  /\ UNCHANGED <<local, writer, s3, s3zip, skip, listed, asked, todo, inflight, errs, result, stored,
                 overlapped, faultVars>>

(* The tender page could not be visited or shows no documents, or there is *)
(* nothing to do: Run returns nil.                                         *)
runNothing(r) ==
  /\ pc[r] = "links"
  /\ Return(r, "ok")
  /\ UNCHANGED <<local, writer, s3, s3zip, skip, listed, asked, todo, inflight, errs, stored, overlapped,
                 faultVars>>

Listing(r) == IF skip[r] THEN Corr ELSE Docs

processDirectLinks(r) ==
  /\ Go(r, "links", "download")
  /\ Listing(r) # {}
  /\ listed' = [listed EXCEPT ![r] = Listing(r)]
  /\ todo' = [todo EXCEPT ![r] = Listing(r)]
  /\ asked' = [asked EXCEPT ![r] = Listing(r)]
  /\ UNCHANGED <<local, writer, s3, s3zip, skip, inflight, errs, result, stored, overlapped,
                 faultVars>>

-----------------------------------------------------------------------------
(* downloadFiles: one goroutine per document, MaxParallel at a time, each  *)
(* with the retries of Do; a large document is skipped, without a file.    *)
(*                                                                         *)
(* A definition named X_Slip is a plausible mistake in X; no action uses   *)
(* it, it is there to show which property would notice.                    *)

skipLarge(r, d) ==
  /\ pc[r] = "download"
  /\ d \in todo[r] \cap Large
  /\ todo' = [todo EXCEPT ![r] = @ \ {d}]
  /\ UNCHANGED <<local, writer, s3, s3zip, pc, skip, listed, asked, inflight, errs, result, stored,
                 overlapped, faultVars>>

(* The context is done, or no attempt gets as far as CreateFile.           *)
failRequest(r, d) ==
  /\ pc[r] = "download"
  /\ d \in todo[r]
  /\ todo' = [todo EXCEPT ![r] = @ \ {d}]
  /\ errs' = [errs EXCEPT ![r] = TRUE]
  /\ UNCHANGED <<local, writer, s3, s3zip, pc, skip, listed, asked, inflight, result, stored,
                 overlapped, faultVars>>

(* CreateFile truncates the file.                                          *)
beginFetch(r, d) ==
  /\ pc[r] = "download"
  /\ d \in todo[r] \ Large
  /\ Cardinality(inflight[r]) < MaxParallel
  /\ todo' = [todo EXCEPT ![r] = @ \ {d}]
  /\ inflight' = [inflight EXCEPT ![r] = @ \cup {d}]
  /\ local' = [local EXCEPT ![d] = "partial"]
  /\ writer' = [writer EXCEPT ![d] = r]
  /\ UNCHANGED <<s3, s3zip, pc, skip, listed, asked, errs, result, stored, overlapped, faultVars>>

(* The client has no timeout: the portal may leave the HEAD request or the *)
(* transfer without an answer, and the slot is taken for good.             *)
stall(r, d) ==
  /\ pc[r] = "download"
  /\ Cardinality(UNION {{q} \X stalled[q] : q \in Runs}) < MaxStalls
  /\ \/ d \in inflight[r] \ stalled[r]
     \/ d \in todo[r] /\ Cardinality(inflight[r]) < MaxParallel
  /\ todo' = [todo EXCEPT ![r] = @ \ {d}]
  /\ inflight' = [inflight EXCEPT ![r] = @ \cup {d}]
  /\ stalled' = [stalled EXCEPT ![r] = @ \cup {d}]
  /\ UNCHANGED <<local, writer, s3, s3zip, pc, skip, listed, asked, errs, result, stored, overlapped,
                 crashes>>

Moving(r) == inflight[r] \ stalled[r]

(* An attempt failed, and the next one creates the file again.             *)
retryFetch(r, d) ==
  /\ d \in Moving(r)
  /\ local' = [local EXCEPT ![d] = "partial"]
  /\ writer' = [writer EXCEPT ![d] = r]
  /\ UNCHANGED <<s3, s3zip, runVars, overlapped, faultVars>>

(* The copy ends.  It completes the file only if nobody removed it or      *)
(* truncated it meanwhile.                                                 *)
endFetch(r, d) ==
  /\ d \in Moving(r)
  /\ inflight' = [inflight EXCEPT ![r] = @ \ {d}]
  /\ local' = IF writer[d] = r THEN [local EXCEPT ![d] = "whole"] ELSE local
  /\ UNCHANGED <<writer, s3, s3zip, pc, skip, listed, asked, todo, errs, result, stored, overlapped,
                 faultVars>>

(* Every attempt failed; what was written stays.                           *)
failFetch_Quietly(r, d) ==
  /\ d \in Moving(r)
  /\ inflight' = [inflight EXCEPT ![r] = @ \ {d}]
  /\ UNCHANGED <<local, writer, s3, s3zip, pc, skip, listed, asked, todo, errs, result, stored,
                 overlapped, faultVars>>

failFetch(r, d) ==
  /\ d \in Moving(r)
  /\ inflight' = [inflight EXCEPT ![r] = @ \ {d}]
  /\ errs' = [errs EXCEPT ![r] = TRUE]
  /\ UNCHANGED <<local, writer, s3, s3zip, pc, skip, listed, asked, todo, result, stored, overlapped,
                 faultVars>>

(* errCh is not closed after the wait, and the loop over it never ends.    *)
Downloaded_ErrChOpen(r) == FALSE

Downloaded(r) == pc[r] = "download" /\ todo[r] = {} /\ inflight[r] = {}

(* wg.Wait; an error ends the run here, with the directory left in place.  *)
finishDownloads(r) ==
  /\ Downloaded(r)
  /\ \/ /\ ~errs[r]
        /\ pc' = [pc EXCEPT ![r] = "zip"]
        /\ UNCHANGED result
     \/ /\ errs[r]
        /\ Return(r, "err")
  /\ UNCHANGED <<local, writer, s3, s3zip, skip, listed, asked, todo, inflight, errs, stored,
                 overlapped, faultVars>>

-----------------------------------------------------------------------------
(* processAndUploadDocs.  uploadFileToS3 keeps an object that exists.      *)

ToZip_All(r) == {d \in listed[r] : local[d] # "absent"}

ToZip(r) == {d \in listed[r] \cap Base : local[d] # "absent"}

zipAndUpload(r) ==
  /\ Go(r, "zip", "upload")
  /\ todo' = [todo EXCEPT ![r] = listed[r]]
  /\ \/ /\ skip[r] \/ ToZip(r) = {} \/ s3zip # {}
        /\ UNCHANGED <<s3zip, errs>>
     \/ /\ ~skip[r] /\ ToZip(r) # {} /\ s3zip = {}
        /\ s3zip' = ToZip(r)
        /\ UNCHANGED errs
     \/ /\ ~skip[r] /\ ToZip(r) # {}
        /\ errs' = [errs EXCEPT ![r] = TRUE]
        /\ UNCHANGED s3zip
  /\ UNCHANGED <<local, writer, s3, skip, listed, asked, inflight, result, stored, overlapped, faultVars>>

(* NIT documents and the work item go before the corrigenda.               *)
NextUpload(r, d) ==
  /\ pc[r] = "upload"
  /\ d \in todo[r]
  /\ d \in Corr => todo[r] \cap Base = {}
  /\ todo' = [todo EXCEPT ![r] = @ \ {d}]

upload(r, d) ==
  /\ NextUpload(r, d)
  /\ local[d] # "absent"
  /\ s3' = IF s3[d] = "absent" THEN [s3 EXCEPT ![d] = local[d]] ELSE s3
  /\ stored' = [stored EXCEPT ![r] = @ \cup {d}]
  /\ UNCHANGED <<local, writer, s3zip, pc, skip, listed, asked, inflight, errs, result, overlapped,
                 faultVars>>

(* A missing file is taken for a large one and passed over.                *)
uploadMissing(r, d) ==
  /\ NextUpload(r, d)
  /\ local[d] = "absent"
  /\ UNCHANGED <<local, writer, s3, s3zip, pc, skip, listed, asked, inflight, errs, result, stored,
                 overlapped, faultVars>>

(* The context is done, the file cannot be preprocessed, or S3 fails.      *)
uploadFails_Quietly(r, d) ==
  /\ NextUpload(r, d)
  /\ UNCHANGED <<local, writer, s3, s3zip, pc, skip, listed, asked, inflight, errs, result, stored,
                 overlapped, faultVars>>

uploadFails(r, d) ==
  /\ NextUpload(r, d)
  /\ errs' = [errs EXCEPT ![r] = TRUE]
  /\ UNCHANGED <<local, writer, s3, s3zip, pc, skip, listed, asked, inflight, result, stored,
                 overlapped, faultVars>>

RemoveAll ==
  /\ local' = [d \in Docs |-> "absent"]
  /\ writer' = [d \in Docs |-> NoRun]

(* RemoveAll, then Reset if all went well.                                 *)
cleanup(r) ==
  /\ pc[r] = "upload" /\ todo[r] = {}
  /\ RemoveAll
  /\ listed' = IF errs[r] THEN listed ELSE [listed EXCEPT ![r] = {}]
  /\ Return(r, IF errs[r] THEN "err" ELSE "ok")
  /\ UNCHANGED <<s3, s3zip, skip, asked, todo, inflight, errs, stored, overlapped, faultVars>>

-----------------------------------------------------------------------------
(* The process dies with its runs; the directory and S3 stay.              *)
crash ==
  /\ crashes < MaxCrashes
  /\ crashes' = crashes + 1
  /\ \E r \in Runs : Active(r)
  /\ pc' = [r \in Runs |-> IF Active(r) THEN "done" ELSE pc[r]]
  /\ inflight' = [r \in Runs |-> {}]
  /\ stalled' = [r \in Runs |-> {}]
  /\ UNCHANGED <<local, writer, s3, s3zip, skip, listed, asked, todo, errs, result, stored,
                 overlapped>>

run(r) ==
  \/ checkFolder(r) \/ failEarly(r) \/ establishSession(r)
  \/ runNothing(r) \/ processDirectLinks(r)
  \/ \E d \in Docs : \/ skipLarge(r, d) \/ failRequest(r, d) \/ beginFetch(r, d)
                     \/ retryFetch(r, d) \/ endFetch(r, d) \/ failFetch(r, d)
                     \/ upload(r, d) \/ uploadMissing(r, d) \/ uploadFails(r, d)
  \/ finishDownloads(r) \/ zipAndUpload(r) \/ cleanup(r)

Next ==
  \/ \E r \in Runs : run(r)
  \/ \E r \in Runs, d \in Docs : stall(r, d)
  \/ crash

Spec == Init /\ [][Next]_vars

(* What a run does except for trying a download again.                     *)
progress(r) ==
  run(r) /\ runVars' # runVars

(* The goroutines of a run are scheduled, and its requests end, those of   *)
(* the sessions and of S3 because they have timeouts, those of the         *)
(* downloads unless they stall.  The attempts of one download are few.     *)
FairSpec == Spec /\ \A r \in Runs : WF_vars(progress(r))

-----------------------------------------------------------------------------
(* Properties.                                                             *)

(* NoPartialObject: as long as runs of the tender did not overlap, no      *)
(* truncated document and no zip that lacks a document reaches S3, where   *)
(* nothing would replace it, although failed and crashed runs leave        *)
(* truncated files in the directory that the next run uses.                *)
NoPartialObject ==
  ~overlapped =>
    /\ \A d \in Docs : s3[d] # "partial"
    /\ s3zip # {} => s3zip = Base \ Large

(* SuccessIsComplete: as long as runs of the tender did not overlap, a run *)
(* that returned without an error has put every document it set out to     *)
(* fetch into S3, whole, the large ones excepted.  The NIT documents and   *)
(* the work item are then there as well when it left them out because an   *)
(* object of the tender existed, unless an earlier run broke off: any one  *)
(* object keeps the later runs from making up for the others.  A run that  *)
(* found no links (Run returns nil) has set out to fetch nothing.          *)
BrokeOff(q) == asked[q] = Docs /\ pc[q] = "done" /\ result[q] # "ok"

SuccessIsComplete ==
  \A r \in Runs :
    ~overlapped /\ result[r] = "ok" =>
      /\ \A d \in asked[r] \ Large : d \in stored[r] /\ s3[d] = "whole"
      /\ skip[r] \/ asked[r] # {} =>
           (\A d \in Base \ Large : s3[d] = "whole") \/ \E q \in Runs : BrokeOff(q)

(* EveryRunEnds: a run that starts ends, with a result or in a crash,      *)
(* unless one of its own downloads stalls, and whatever the run does that  *)
(* shares its directory; and a stalled download costs one slot: the other  *)
(* documents of the run are still fetched while there is a slot left.      *)
EveryRunEnds ==
  \A r \in Runs :
    /\ pc[r] # "new" ~> pc[r] = "done" \/ stalled[r] # {}
    /\ pc[r] = "download" ~> \/ pc[r] # "download"
                             \/ todo[r] = {} /\ Moving(r) = {}
                             \/ Cardinality(stalled[r]) = MaxParallel
=============================================================================
