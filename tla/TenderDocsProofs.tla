-------------------------- MODULE TenderDocsProofs --------------------------
(***************************************************************************)
(* Theorems about the document runs of one tender, for any number of runs  *)
(* and documents, failures, crashes and stalled transfers.  As long as no  *)
(* two runs overlapped, a run finds in the directory only what it brought  *)
(* there itself by the time it looks: RunInv says so, place by place.      *)
(* Then theorems about the command that runs them in batches.              *)
(***************************************************************************)
EXTENDS TenderDocs, DownloadBatch, FiniteSetTheorems, TLAPS

(* Large documents never reach the disk; only a run that downloads has     *)
(* transfers under way.                                                    *)
FileInv ==
  /\ \A d \in Large : local[d] = "absent"
  /\ \A r \in Runs :
       /\ Moving(r) \cap Large = {}
       /\ pc[r] # "download" => inflight[r] = {}

(* What is at stake of a run that overlaps with none.                      *)
RunInv(r) ==
  /\ pc[r] # "done" => result[r] = "none"
  /\ pc[r] \in {"new", "session", "links", "download", "zip"} => stored[r] = {}
  /\ pc[r] \in {"new", "session", "links"} => asked[r] = {}
  /\ pc[r] \in {"download", "zip", "upload"} =>
       /\ listed[r] = Listing(r) /\ todo[r] \subseteq listed[r]
       /\ asked[r] = listed[r]
  /\ pc[r] = "download" =>
       /\ \A d \in Moving(r) : writer[d] = r
       /\ ~errs[r] => \A d \in listed[r] : \/ d \in todo[r] \cup inflight[r] \cup Large
                                           \/ local[d] = "whole"
  /\ pc[r] \in {"zip", "upload"} =>
       \A d \in listed[r] : d \in Large \/ local[d] = "whole"
  /\ pc[r] = "zip" => ~errs[r]
  /\ pc[r] = "upload" /\ ~errs[r] => stored[r] = (listed[r] \ todo[r]) \ Large
  /\ \A d \in stored[r] : s3[d] = "whole"
  /\ asked[r] = {} \/ asked[r] = Listing(r)
  /\ result[r] = "ok" => asked[r] \ Large \subseteq stored[r]

AloneInv == \A q, r \in Runs : Active(q) /\ Active(r) => q = r

CleanInv == ~overlapped => AloneInv /\ \A r \in Runs : RunInv(r)

(* What an object in the bucket says of the documents every run of the     *)
(* tender fetches: they are all there, or a run broke off, or the one that *)
(* set out to fetch them is still uploading.                               *)
BaseWhole == \A d \in Base \ Large : s3[d] = "whole"
BaseSafe == BaseWhole \/ \E q \in Runs : BrokeOff(q)
Uploading(q) == pc[q] = "upload" /\ asked[q] = Docs

BaseInv ==
  ~overlapped =>
    /\ FolderExists => BaseSafe \/ \E q \in Runs : Uploading(q)
    /\ \A r \in Runs : skip[r] => BaseSafe

Inv == TypeOK /\ FileInv /\ CleanInv /\ NoPartialObject /\ BaseInv

-----------------------------------------------------------------------------
(* The types.                                                              *)

LEMMA InitInv == Init => Inv
<1>1. SUFFICES ASSUME Init PROVE Inv
  OBVIOUS
<1>2. TypeOK
  <2>1. crashes \in 0..MaxCrashes
    BY <1>1, DocsAssumption DEF Init
  <2>2. /\ local \in [Docs -> Contents] /\ s3 \in [Docs -> Contents]
        /\ writer \in [Docs -> Runs \cup {NoRun}] /\ s3zip \subseteq Base
    BY <1>1 DEF Init, Contents
  <2>3. QED BY <1>1, <2>1, <2>2 DEF Init, TypeOK
<1>3. FileInv
  BY <1>1, DocsAssumption DEF Init, FileInv, Moving
<1>4. AloneInv
  BY <1>1 DEF Init, AloneInv, Active
<1>5. ASSUME NEW r \in Runs PROVE RunInv(r)
  BY <1>1 DEF Init, RunInv
<1>6. NoPartialObject
  BY <1>1 DEF Init, NoPartialObject
<1>7. BaseInv
  BY <1>1 DEF Init, BaseInv, FolderExists
<1>8. QED BY <1>2, <1>3, <1>4, <1>5, <1>6, <1>7 DEF Inv, CleanInv

LEMMA TypeStep == TypeOK /\ [Next]_vars => TypeOK'
<1>1. SUFFICES ASSUME TypeOK, [Next]_vars PROVE TypeOK'
  OBVIOUS
<1>0. Base \subseteq Docs /\ Large \subseteq Docs /\ MaxCrashes \in Nat
  BY DocsAssumption DEF Docs
<1>2. ASSUME NEW r \in Runs, \/ failEarly(r) \/ establishSession(r)
                             \/ runNothing(r) \/ finishDownloads(r)
      PROVE  TypeOK'
  BY <1>1, <1>2 DEF TypeOK, failEarly, establishSession, runNothing,
                    finishDownloads, Go, Return, faultVars
<1>12. ASSUME NEW r \in Runs, checkFolder(r) PROVE TypeOK'
  <2>1. FolderExists \in BOOLEAN /\ overlapped' \in BOOLEAN
    BY <1>12 DEF FolderExists, checkFolder
  <2>2. QED BY <1>1, <1>12, <2>1 DEF TypeOK, checkFolder, Go, faultVars
<1>3. ASSUME NEW r \in Runs, processDirectLinks(r) PROVE TypeOK'
  <2>1. Listing(r) \subseteq Docs
    BY DEF Listing, Docs
  <2>2. QED BY <1>1, <1>3, <2>1 DEF TypeOK, processDirectLinks, Go, faultVars
<1>4. ASSUME NEW r \in Runs, NEW d \in Docs, \/ skipLarge(r, d) \/ failRequest(r, d)
                                             \/ endFetch(r, d) \/ failFetch(r, d)
      PROVE  TypeOK'
  <2>1. local' \in [Docs -> Contents]
    BY <1>1, <1>4 DEF TypeOK, skipLarge, failRequest, endFetch, failFetch, Contents
  <2>2. todo' \in [Runs -> SUBSET Docs] /\ inflight' \in [Runs -> SUBSET Docs]
    BY <1>1, <1>4 DEF TypeOK, skipLarge, failRequest, endFetch, failFetch
  <2>3. errs' \in [Runs -> BOOLEAN]
    BY <1>1, <1>4 DEF TypeOK, skipLarge, failRequest, endFetch, failFetch
  <2>4. QED
    BY <1>1, <1>4, <2>1, <2>2, <2>3
       DEF TypeOK, skipLarge, failRequest, endFetch, failFetch, faultVars
<1>5. ASSUME NEW r \in Runs, NEW d \in Docs, beginFetch(r, d) \/ retryFetch(r, d)
      PROVE  TypeOK'
  <2>1. local' \in [Docs -> Contents]
    BY <1>1, <1>5 DEF TypeOK, beginFetch, retryFetch, Contents
  <2>2. writer' \in [Docs -> Runs \cup {NoRun}]
    BY <1>1, <1>5 DEF TypeOK, beginFetch, retryFetch
  <2>3. todo' \in [Runs -> SUBSET Docs] /\ inflight' \in [Runs -> SUBSET Docs]
    BY <1>1, <1>5 DEF TypeOK, beginFetch, retryFetch, runVars
  <2>4. QED
    BY <1>1, <1>5, <2>1, <2>2, <2>3 DEF TypeOK, beginFetch, retryFetch, faultVars, runVars
<1>6. ASSUME NEW r \in Runs, NEW d \in Docs, uploadMissing(r, d) \/ uploadFails(r, d)
      PROVE  TypeOK'
  <2>1. todo' \in [Runs -> SUBSET Docs]
    BY <1>1, <1>6 DEF TypeOK, uploadMissing, uploadFails, NextUpload
  <2>2. errs' \in [Runs -> BOOLEAN]
    BY <1>1, <1>6 DEF TypeOK, uploadMissing, uploadFails
  <2>3. QED BY <1>1, <1>6, <2>1, <2>2 DEF TypeOK, uploadMissing, uploadFails, faultVars
<1>13. ASSUME NEW r \in Runs, NEW d \in Docs, upload(r, d) PROVE TypeOK'
  <2>1. s3' \in [Docs -> Contents] /\ todo' \in [Runs -> SUBSET Docs]
    BY <1>1, <1>13 DEF TypeOK, upload, NextUpload
  <2>2. stored' \in [Runs -> SUBSET Docs]
    BY <1>1, <1>13 DEF TypeOK, upload
  <2>3. QED BY <1>1, <1>13, <2>1, <2>2 DEF TypeOK, upload, faultVars
<1>7. ASSUME NEW r \in Runs, zipAndUpload(r) PROVE TypeOK'
  <2>1. ToZip(r) \subseteq Base
    BY DEF ToZip
  <2>2. QED BY <1>1, <1>7, <2>1 DEF TypeOK, zipAndUpload, Go, faultVars
<1>8. ASSUME NEW r \in Runs, cleanup(r) PROVE TypeOK'
  BY <1>1, <1>8 DEF TypeOK, cleanup, RemoveAll, Return, Contents, faultVars
<1>9. ASSUME NEW r \in Runs, NEW d \in Docs, stall(r, d) PROVE TypeOK'
  BY <1>1, <1>9 DEF TypeOK, stall
<1>10. CASE crash
  BY <1>1, <1>0, <1>10 DEF TypeOK, crash
<1>11. CASE UNCHANGED vars
  BY <1>1, <1>11 DEF TypeOK, vars, runVars, faultVars
<1>14. QED
  BY <1>1, <1>2, <1>3, <1>4, <1>5, <1>6, <1>7, <1>8, <1>9, <1>10, <1>11, <1>12, <1>13
     DEF Next, run

-----------------------------------------------------------------------------
(* A step of one run.                                                      *)

(* It leaves the others as they are, and what is whole in the bucket.      *)
OthersKept(r) ==
  /\ stalled' = stalled
  /\ \A q \in Runs \ {r} :
       /\ pc'[q] = pc[q] /\ skip'[q] = skip[q] /\ listed'[q] = listed[q]
       /\ todo'[q] = todo[q] /\ inflight'[q] = inflight[q] /\ errs'[q] = errs[q]
       /\ result'[q] = result[q] /\ stored'[q] = stored[q] /\ asked'[q] = asked[q]
  /\ \A d \in Docs : s3[d] # "absent" => s3'[d] = s3[d]

LEMMA OneMoves ==
  ASSUME TypeOK, NEW r \in Runs, run(r) PROVE OthersKept(r)
<1>1. ASSUME \/ checkFolder(r) \/ failEarly(r) \/ establishSession(r)
             \/ runNothing(r) \/ finishDownloads(r) \/ processDirectLinks(r)
      PROVE  OthersKept(r)
  BY <1>1 DEF TypeOK, checkFolder, failEarly, establishSession, runNothing,
              finishDownloads, processDirectLinks, Go, Return, faultVars, OthersKept
<1>2. ASSUME NEW d \in Docs, \/ skipLarge(r, d) \/ failRequest(r, d) \/ beginFetch(r, d)
                             \/ retryFetch(r, d) \/ endFetch(r, d) \/ failFetch(r, d)
      PROVE  OthersKept(r)
  BY <1>2 DEF TypeOK, skipLarge, failRequest, beginFetch, retryFetch, endFetch, failFetch,
              runVars, faultVars, OthersKept
<1>3. ASSUME NEW d \in Docs, upload(r, d) \/ uploadMissing(r, d) \/ uploadFails(r, d)
      PROVE  OthersKept(r)
  BY <1>3 DEF TypeOK, upload, uploadMissing, uploadFails, NextUpload, faultVars, OthersKept
<1>4. ASSUME zipAndUpload(r) \/ cleanup(r) PROVE OthersKept(r)
  BY <1>4 DEF TypeOK, zipAndUpload, cleanup, Go, Return, RemoveAll, faultVars, OthersKept
<1>5. QED BY <1>1, <1>2, <1>3, <1>4 DEF run

(* A run that takes a step was active, or starts: then it overlaps with    *)
(* every active one, or it fails before it touches anything.               *)
LEMMA WhoMoves ==
  ASSUME TypeOK, FileInv, NEW r \in Runs, run(r)
  PROVE  /\ ~overlapped' => ~overlapped
         /\ \/ Active(r)
            \/ /\ pc[r] = "new"
               /\ failEarly(r)
            \/ /\ pc[r] = "new"
               /\ checkFolder(r)
               /\ ~overlapped' => \A q \in Runs : ~Active(q)
<1>1. CASE checkFolder(r)
  <2>1. pc[r] = "new" /\ overlapped' = (overlapped \/ \E q \in Runs : Active(q))
    BY <1>1 DEF checkFolder, Go
  <2>2. QED BY <1>1, <2>1
<1>2. CASE failEarly(r)
  BY <1>2 DEF failEarly, Active
<1>3. ASSUME establishSession(r) \/ runNothing(r) \/ processDirectLinks(r)
      PROVE  Active(r) /\ overlapped' = overlapped
  BY <1>3 DEF establishSession, runNothing, processDirectLinks, Go, Active
<1>4. ASSUME NEW d \in Docs, skipLarge(r, d) \/ failRequest(r, d) \/ beginFetch(r, d)
      PROVE  Active(r) /\ overlapped' = overlapped
  BY <1>4 DEF skipLarge, failRequest, beginFetch, Active
<1>5. ASSUME NEW d \in Docs, retryFetch(r, d) \/ endFetch(r, d) \/ failFetch(r, d)
      PROVE  Active(r) /\ overlapped' = overlapped
  <2>1. pc[r] = "download"
    BY <1>5 DEF retryFetch, endFetch, failFetch, Moving, FileInv
  <2>2. QED BY <1>5, <2>1 DEF retryFetch, endFetch, failFetch, Active
<1>6. ASSUME NEW d \in Docs, upload(r, d) \/ uploadMissing(r, d) \/ uploadFails(r, d)
      PROVE  Active(r) /\ overlapped' = overlapped
  BY <1>6 DEF upload, uploadMissing, uploadFails, NextUpload, Active
<1>7. ASSUME finishDownloads(r) \/ zipAndUpload(r) \/ cleanup(r)
      PROVE  Active(r) /\ overlapped' = overlapped
  BY <1>7 DEF finishDownloads, Downloaded, zipAndUpload, cleanup, Go, Active
<1>8. QED BY <1>1, <1>2, <1>3, <1>4, <1>5, <1>6, <1>7 DEF run

(* Only a transfer under way writes a file, and none of a large document.  *)
LEMMA FileStep ==
  ASSUME TypeOK, FileInv, [Next]_vars PROVE FileInv'
<1>0. Large \subseteq Docs
  BY DocsAssumption
<1>1. ASSUME NEW r \in Runs, run(r), UNCHANGED <<local, inflight>>,
             pc'[r] = "download" \/ pc[r] # "download"
      PROVE  FileInv'
  BY <1>1, OneMoves DEF FileInv, OthersKept, Moving
<1>2. ASSUME NEW r \in Runs, \/ checkFolder(r) \/ failEarly(r) \/ establishSession(r)
                             \/ runNothing(r) \/ processDirectLinks(r) \/ zipAndUpload(r)
      PROVE  FileInv'
  <2>1. /\ UNCHANGED <<local, inflight>> /\ pc[r] # "download"
        /\ run(r)
    BY <1>2 DEF checkFolder, failEarly, establishSession, runNothing, processDirectLinks,
                zipAndUpload, Go, run
  <2>2. QED BY <1>1, <2>1
<1>3. ASSUME NEW r \in Runs, NEW d \in Docs, \/ skipLarge(r, d) \/ failRequest(r, d)
                                             \/ upload(r, d) \/ uploadMissing(r, d)
                                             \/ uploadFails(r, d)
      PROVE  FileInv'
  <2>1. UNCHANGED <<local, inflight, pc>> /\ run(r)
    BY <1>3 DEF skipLarge, failRequest, upload, uploadMissing, uploadFails, run
  <2>2. QED BY <1>1, <2>1
<1>4. ASSUME NEW r \in Runs, finishDownloads(r) PROVE FileInv'
  <2>1. UNCHANGED <<local, inflight>> /\ inflight[r] = {} /\ run(r)
    BY <1>4 DEF finishDownloads, Downloaded, run
  <2>2. QED BY <2>1, OneMoves DEF FileInv, OthersKept, Moving
<1>5. ASSUME NEW r \in Runs, NEW d \in Docs, \/ beginFetch(r, d) \/ retryFetch(r, d)
                                             \/ endFetch(r, d) \/ failFetch(r, d)
      PROVE  FileInv'
  <2>1. /\ d \notin Large /\ pc[r] = "download" /\ UNCHANGED <<pc, stalled>>
        /\ inflight'[r] \subseteq inflight[r] \cup {d}
        /\ \A q \in Runs \ {r} : inflight'[q] = inflight[q]
    BY <1>5 DEF TypeOK, FileInv, Moving, beginFetch, retryFetch, endFetch, failFetch,
                runVars, faultVars
  <2>2. \A e \in Docs \ {d} : local'[e] = local[e]
    BY <1>5 DEF TypeOK, beginFetch, retryFetch, endFetch, failFetch
  <2>3. QED BY <1>0, <2>1, <2>2 DEF FileInv, Moving
<1>6. ASSUME NEW r \in Runs, cleanup(r) PROVE FileInv'
  <2>1. UNCHANGED inflight /\ pc[r] = "upload" /\ \A d \in Docs : local'[d] = "absent"
    BY <1>6 DEF cleanup, RemoveAll
  <2>2. run(r)
    BY <1>6 DEF run
  <2>3. QED BY <1>0, <2>1, <2>2, OneMoves DEF FileInv, OthersKept, Moving
<1>7. ASSUME NEW r \in Runs, NEW d \in Docs, stall(r, d) PROVE FileInv'
  <2>1. /\ pc[r] = "download" /\ UNCHANGED <<pc, local>>
        /\ inflight' = [inflight EXCEPT ![r] = @ \cup {d}]
        /\ stalled' = [stalled EXCEPT ![r] = @ \cup {d}]
    BY <1>7 DEF stall
  <2>2. \A q \in Runs : Moving(q)' \subseteq Moving(q)
    BY <2>1 DEF TypeOK, Moving
  <2>3. QED BY <2>1, <2>2 DEF TypeOK, FileInv
<1>8. CASE crash
  BY <1>8 DEF crash, FileInv, Moving
<1>9. CASE UNCHANGED vars
  BY <1>9 DEF vars, runVars, faultVars, FileInv, Moving
<1>10. QED
  BY <1>2, <1>3, <1>4, <1>5, <1>6, <1>7, <1>8, <1>9 DEF Next, run

(* Two runs are active only if they overlapped.                            *)
LEMMA AloneStep ==
  ASSUME TypeOK, FileInv, CleanInv, [Next]_vars, ~overlapped'
  PROVE  ~overlapped /\ AloneInv'
<1>1. ASSUME NEW r \in Runs, run(r) PROVE ~overlapped /\ AloneInv'
  <2>1. \A q \in Runs \ {r} : pc'[q] = pc[q]
    BY <1>1, OneMoves DEF OthersKept
  <2>2. ~overlapped /\ AloneInv
    BY <1>1, WhoMoves DEF CleanInv
  <2>3. CASE Active(r)
    BY <2>1, <2>2, <2>3 DEF AloneInv, Active
  <2>4. CASE failEarly(r)
    <3>1. pc'[r] = "done"
      BY <2>4 DEF failEarly, Return, TypeOK
    <3>2. QED BY <2>1, <2>2, <3>1 DEF AloneInv, Active
  <2>5. CASE \A q \in Runs : ~Active(q)
    BY <2>1, <2>2, <2>5 DEF AloneInv, Active
  <2>6. QED BY <1>1, <2>3, <2>4, <2>5, WhoMoves
<1>2. ASSUME NEW r \in Runs, NEW d \in Docs, stall(r, d) PROVE ~overlapped /\ AloneInv'
  BY <1>2 DEF stall, CleanInv, AloneInv, Active
<1>3. CASE crash
  BY <1>3 DEF crash, CleanInv, AloneInv, Active
<1>4. CASE UNCHANGED vars
  BY <1>4 DEF vars, runVars, CleanInv, AloneInv, Active
<1>5. QED BY <1>1, <1>2, <1>3, <1>4 DEF Next

-----------------------------------------------------------------------------
(* What a step does to the run that takes it, and to the others.           *)

LEMMA OtherStep ==
  ASSUME TypeOK, FileInv, CleanInv, NEW r \in Runs, run(r), ~overlapped',
         NEW q \in Runs \ {r}
  PROVE  RunInv(q)'
<1>1. ~overlapped /\ AloneInv /\ RunInv(q)
  BY WhoMoves DEF CleanInv
<1>2. OthersKept(r)
  BY OneMoves
<1>3. /\ pc'[q] = pc[q] /\ skip'[q] = skip[q] /\ listed'[q] = listed[q]
      /\ todo'[q] = todo[q] /\ inflight'[q] = inflight[q] /\ errs'[q] = errs[q]
      /\ result'[q] = result[q] /\ stored'[q] = stored[q] /\ asked'[q] = asked[q]
      /\ Moving(q)' = Moving(q) /\ Listing(q)' = Listing(q)
  BY <1>2 DEF OthersKept, Moving, Listing
<1>4. \A d \in stored'[q] : s3'[d] = "whole"
  BY <1>1, <1>2, <1>3 DEF RunInv, TypeOK, OthersKept
<1>5. CASE pc[q] \in {"new", "done"}
  BY <1>1, <1>3, <1>4, <1>5 DEF RunInv
<1>6. CASE pc[q] \notin {"new", "done"}
  <2>1. Active(q) /\ ~Active(r)
    BY <1>1, <1>6 DEF AloneInv, Active
  <2>2. failEarly(r)
    BY <2>1, WhoMoves
  <2>3. UNCHANGED <<local, writer>>
    BY <2>2 DEF failEarly
  <2>4. QED BY <1>1, <1>3, <1>4, <2>3 DEF RunInv
<1>7. QED BY <1>5, <1>6

LEMMA OwnStepEarly ==
  ASSUME TypeOK, FileInv, NEW r \in Runs, RunInv(r),
         \/ checkFolder(r) \/ failEarly(r) \/ establishSession(r)
         \/ runNothing(r) \/ processDirectLinks(r)
  PROVE  RunInv(r)'
<1>1. /\ pc[r] \in {"new", "session", "links"} /\ stored[r] = {} /\ stored' = stored
      /\ asked[r] = {}
  BY DEF checkFolder, failEarly, establishSession, runNothing, processDirectLinks, Go, RunInv
<1>2. CASE checkFolder(r) \/ establishSession(r)
  <2>1. pc'[r] \in {"session", "links"} /\ result' = result /\ asked' = asked
    BY <1>2 DEF checkFolder, establishSession, Go, TypeOK
  <2>2. QED BY <1>1, <2>1 DEF RunInv
<1>3. CASE failEarly(r) \/ runNothing(r)
  <2>1. pc'[r] = "done" /\ asked' = asked
    BY <1>3 DEF failEarly, runNothing, Return, TypeOK
  <2>2. QED BY <1>1, <2>1 DEF RunInv
<1>4. CASE processDirectLinks(r)
  <2>1. /\ pc'[r] = "download" /\ result' = result /\ skip' = skip
        /\ listed'[r] = Listing(r) /\ todo'[r] = Listing(r) /\ asked'[r] = Listing(r)
        /\ inflight' = inflight /\ stalled' = stalled
    BY <1>4 DEF processDirectLinks, Go, TypeOK, faultVars
  <2>2. Moving(r)' = {} /\ Listing(r)' = Listing(r)
    BY <1>1, <2>1 DEF FileInv, Moving, Listing
  <2>3. QED BY <1>1, <2>1, <2>2 DEF RunInv
<1>5. QED BY <1>2, <1>3, <1>4

(* While it downloads: each document is still to come, under way, too      *)
(* large, or complete, as long as no error was collected.                  *)
LEMMA OwnStepDownload ==
  ASSUME TypeOK, FileInv, NEW r \in Runs, RunInv(r), NEW d \in Docs,
         \/ skipLarge(r, d) \/ failRequest(r, d) \/ beginFetch(r, d)
         \/ retryFetch(r, d) \/ endFetch(r, d) \/ failFetch(r, d)
  PROVE  RunInv(r)'
<1>1. pc[r] = "download"
  BY DEF skipLarge, failRequest, beginFetch, retryFetch, endFetch, failFetch, FileInv, Moving
<1>2. /\ UNCHANGED <<pc, result, stored, listed, asked, s3, skip, stalled>>
      /\ Listing(r)' = Listing(r)
  BY DEF skipLarge, failRequest, beginFetch, retryFetch, endFetch, failFetch,
         runVars, faultVars, Listing
<1>3. todo'[r] \subseteq todo[r]
  BY DEF skipLarge, failRequest, beginFetch, retryFetch, endFetch, failFetch, runVars, TypeOK
<1>4. \A e \in Moving(r)' : writer'[e] = r
  BY <1>1, <1>2 DEF skipLarge, failRequest, beginFetch, retryFetch, endFetch, failFetch,
                    runVars, TypeOK, RunInv, Moving
<1>5. ASSUME ~errs'[r], NEW e \in listed[r]
      PROVE  e \in todo'[r] \cup inflight'[r] \cup Large \/ local'[e] = "whole"
  <2>0. e \in Docs
    BY DEF TypeOK
  <2>1. ~failRequest(r, d) /\ ~failFetch(r, d) /\ ~errs[r]
    BY <1>5 DEF skipLarge, failRequest, beginFetch, retryFetch, endFetch, failFetch,
                runVars, TypeOK
  <2>2. e \in todo[r] \cup inflight[r] \cup Large \/ local[e] = "whole"
    BY <1>1, <2>1 DEF RunInv
  <2>3. CASE skipLarge(r, d)
    BY <2>2, <2>3 DEF skipLarge, TypeOK
  <2>4. CASE beginFetch(r, d)
    BY <2>0, <2>2, <2>4 DEF beginFetch, TypeOK
  <2>5. CASE retryFetch(r, d)
    BY <2>0, <2>2, <2>5 DEF retryFetch, Moving, runVars, TypeOK
  <2>6. CASE endFetch(r, d)
    <3>1. writer[d] = r
      BY <1>1, <2>6 DEF endFetch, RunInv
    <3>2. QED BY <2>0, <2>2, <2>6, <3>1 DEF endFetch, TypeOK
  <2>7. QED BY <2>1, <2>3, <2>4, <2>5, <2>6
<1>6. QED BY <1>1, <1>2, <1>3, <1>4, <1>5 DEF RunInv

LEMMA OwnStepFinish ==
  ASSUME TypeOK, FileInv, NEW r \in Runs, RunInv(r), finishDownloads(r)
  PROVE  RunInv(r)'
<1>1. /\ pc[r] = "download" /\ todo[r] = {} /\ inflight[r] = {}
      /\ UNCHANGED <<local, s3, skip, listed, asked, todo, errs, stored>>
      /\ stored[r] = {}
  BY DEF finishDownloads, Downloaded, RunInv
<1>2. CASE ~errs[r]
  <2>1. pc'[r] = "zip" /\ result' = result
    BY <1>2 DEF finishDownloads, TypeOK
  <2>2. \A d \in listed[r] : d \in Large \/ local[d] = "whole"
    BY <1>1, <1>2 DEF RunInv
  <2>3. QED BY <1>1, <1>2, <2>1, <2>2 DEF RunInv, Listing
<1>3. CASE errs[r]
  <2>1. pc'[r] = "done" /\ result'[r] = "err"
    BY <1>3 DEF finishDownloads, Return, TypeOK
  <2>2. QED BY <1>1, <2>1 DEF RunInv, Listing
<1>4. QED BY <1>2, <1>3

(* While it uploads, nothing it listed is incomplete on the disk.          *)
LEMMA OwnStepUpload ==
  ASSUME TypeOK, FileInv, NoPartialObject, ~overlapped, NEW r \in Runs, RunInv(r),
         \/ zipAndUpload(r)
         \/ cleanup(r)
         \/ \E d \in Docs : upload(r, d) \/ uploadMissing(r, d) \/ uploadFails(r, d)
  PROVE  RunInv(r)'
<1>1. CASE zipAndUpload(r)
  <2>1. /\ pc[r] = "zip" /\ pc'[r] = "upload" /\ todo'[r] = listed[r]
        /\ UNCHANGED <<local, s3, skip, listed, asked, result, stored>>
    BY <1>1 DEF zipAndUpload, Go, TypeOK
  <2>2. QED BY <2>1 DEF RunInv, Listing
<1>2. CASE cleanup(r)
  <2>1. /\ pc[r] = "upload" /\ todo[r] = {} /\ pc'[r] = "done"
        /\ UNCHANGED <<s3, skip, stored, asked, errs>>
        /\ result'[r] = "ok" => ~errs[r]
    BY <1>2 DEF cleanup, Return, TypeOK
  <2>2. QED BY <2>1 DEF RunInv, Listing
<1>3. ASSUME NEW d \in Docs, upload(r, d) \/ uploadMissing(r, d) \/ uploadFails(r, d)
      PROVE  RunInv(r)'
  <2>1. /\ pc[r] = "upload" /\ d \in todo[r] /\ todo'[r] = todo[r] \ {d}
        /\ d \in listed[r]
        /\ UNCHANGED <<pc, local, skip, listed, asked, result>>
    BY <1>3 DEF upload, uploadMissing, uploadFails, NextUpload, TypeOK, RunInv
  <2>2. result[r] = "none" /\ (d \in Large \/ local[d] = "whole")
    BY <2>1 DEF RunInv
  <2>3. d \in Large => local[d] = "absent"
    BY DEF FileInv
  <2>4. CASE upload(r, d)
    <3>1. local[d] = "whole" /\ d \notin Large /\ stored'[r] = stored[r] \cup {d} /\ errs' = errs
      BY <2>2, <2>3, <2>4 DEF upload, TypeOK
    <3>2. \A e \in stored'[r] : s3'[e] = "whole"
      <4>1. \A e \in Docs : s3[e] # "partial"
        BY DEF NoPartialObject
      <4>2. s3'[d] = "whole"
        BY <2>4, <3>1, <4>1 DEF upload, TypeOK, Contents
      <4>3. \A e \in stored[r] : s3'[e] = "whole"
        BY <2>4, <3>1 DEF upload, TypeOK, RunInv
      <4>4. QED BY <3>1, <4>2, <4>3
    <3>3. ~errs'[r] => stored'[r] = (listed[r] \ todo'[r]) \ Large
      BY <2>1, <3>1 DEF RunInv
    <3>4. QED BY <2>1, <2>2, <3>2, <3>3 DEF RunInv, Listing
  <2>5. CASE uploadMissing(r, d)
    <3>1. d \in Large /\ UNCHANGED <<stored, errs, s3>>
      BY <2>2, <2>5 DEF uploadMissing
    <3>2. ~errs'[r] => stored'[r] = (listed[r] \ todo'[r]) \ Large
      BY <2>1, <3>1 DEF RunInv
    <3>3. QED BY <2>1, <2>2, <3>1, <3>2 DEF RunInv, Listing
  <2>6. CASE uploadFails(r, d)
    <3>1. errs'[r] /\ UNCHANGED <<stored, s3>>
      BY <2>6 DEF uploadFails, TypeOK
    <3>2. QED BY <2>1, <2>2, <3>1 DEF RunInv, Listing
  <2>7. QED BY <1>3, <2>4, <2>5, <2>6
<1>4. QED BY <1>1, <1>2, <1>3

LEMMA OwnStep ==
  ASSUME TypeOK, FileInv, CleanInv, NoPartialObject, NEW r \in Runs, run(r), ~overlapped'
  PROVE  RunInv(r)'
<1>1. ~overlapped /\ RunInv(r)
  BY WhoMoves DEF CleanInv
<1>2. QED
  BY <1>1, OwnStepEarly, OwnStepDownload, OwnStepFinish, OwnStepUpload DEF run

(* The bucket gets whole documents, and a zip of all that are not large.   *)
LEMMA BucketStep ==
  ASSUME TypeOK, FileInv, CleanInv, NoPartialObject, [Next]_vars, ~overlapped'
  PROVE  NoPartialObject'
<1>1. ~overlapped /\ \A d \in Docs : s3[d] # "partial"
  BY AloneStep DEF NoPartialObject
<1>2. s3zip # {} => s3zip = Base \ Large
  BY <1>1 DEF NoPartialObject
<1>3. ASSUME UNCHANGED <<s3, s3zip>> PROVE NoPartialObject'
  BY <1>1, <1>2, <1>3 DEF NoPartialObject
<1>4. ASSUME NEW r \in Runs, NEW d \in Docs, upload(r, d) PROVE NoPartialObject'
  <2>1. /\ pc[r] = "upload" /\ d \in todo[r] /\ local[d] # "absent"
        /\ s3zip' = s3zip
        /\ s3' = IF s3[d] = "absent" THEN [s3 EXCEPT ![d] = local[d]] ELSE s3
    BY <1>4 DEF upload, NextUpload
  <2>2. local[d] = "whole"
    BY <1>1, <2>1 DEF CleanInv, RunInv, FileInv
  <2>3. \A e \in Docs : s3'[e] # "partial"
    BY <1>1, <2>1, <2>2 DEF TypeOK
  <2>4. QED BY <1>2, <2>1, <2>3 DEF NoPartialObject
<1>5. ASSUME NEW r \in Runs, zipAndUpload(r) PROVE NoPartialObject'
  <2>1. s3' = s3 /\ (s3zip' = s3zip \/ (~skip[r] /\ s3zip' = ToZip(r)))
    BY <1>5 DEF zipAndUpload
  <2>2. ASSUME ~skip[r] PROVE ToZip(r) = Base \ Large
    <3>1. /\ listed[r] = Docs /\ Base \subseteq Docs
          /\ \A d \in Docs : d \in Large \/ local[d] = "whole"
      BY <1>1, <1>5, <2>2 DEF CleanInv, RunInv, zipAndUpload, Go, Listing, Docs
    <3>2. QED BY <3>1 DEF ToZip, FileInv
  <2>3. QED BY <1>1, <1>2, <2>1, <2>2 DEF NoPartialObject
<1>6. ASSUME NEW r \in Runs, run(r) PROVE NoPartialObject'
  <2>1. CASE \/ checkFolder(r) \/ failEarly(r) \/ establishSession(r) \/ runNothing(r)
             \/ processDirectLinks(r) \/ finishDownloads(r) \/ cleanup(r)
    BY <1>3, <2>1 DEF checkFolder, failEarly, establishSession, runNothing,
                      processDirectLinks, finishDownloads, cleanup
  <2>2. ASSUME NEW d \in Docs, \/ skipLarge(r, d) \/ failRequest(r, d) \/ beginFetch(r, d)
                               \/ retryFetch(r, d) \/ endFetch(r, d) \/ failFetch(r, d)
                               \/ uploadMissing(r, d) \/ uploadFails(r, d)
        PROVE  NoPartialObject'
    BY <1>3, <2>2 DEF skipLarge, failRequest, beginFetch, retryFetch, endFetch, failFetch,
                      uploadMissing, uploadFails
  <2>3. QED BY <1>4, <1>5, <1>6, <2>1, <2>2 DEF run
<1>7. ASSUME NEW r \in Runs, NEW d \in Docs, stall(r, d) PROVE NoPartialObject'
  BY <1>3, <1>7 DEF stall
<1>8. CASE crash
  BY <1>3, <1>8 DEF crash
<1>9. CASE UNCHANGED vars
  BY <1>3, <1>9 DEF vars
<1>10. QED BY <1>6, <1>7, <1>8, <1>9 DEF Next

(* A stalled transfer keeps its slot and is no longer on its way; a crash  *)
(* ends the runs, whatever their directory then holds.                     *)
LEMMA RunsStep ==
  ASSUME TypeOK, FileInv, CleanInv, NoPartialObject, [Next]_vars, ~overlapped'
  PROVE  \A q \in Runs : RunInv(q)'
<1>1. \A q \in Runs : RunInv(q)
  BY AloneStep DEF CleanInv
<1>2. ASSUME NEW r \in Runs, run(r) PROVE \A q \in Runs : RunInv(q)'
  BY <1>2, OwnStep, OtherStep
<1>3. ASSUME NEW r \in Runs, NEW d \in Docs, stall(r, d), NEW q \in Runs PROVE RunInv(q)'
  <2>1. /\ UNCHANGED <<local, writer, s3, pc, skip, listed, asked, errs, result, stored>>
        /\ todo'[q] \subseteq todo[q]
        /\ todo[q] \cup inflight[q] \subseteq todo'[q] \cup inflight'[q]
        /\ pc[q] # "download" => todo'[q] = todo[q]
        /\ Moving(q)' \subseteq Moving(q)
    BY <1>3 DEF stall, TypeOK, Moving
  <2>2. RunInv(q)
    BY <1>1
  <2>3. QED BY <2>1, <2>2 DEF RunInv, Listing
<1>4. ASSUME crash, NEW q \in Runs PROVE RunInv(q)'
  <2>1. /\ pc'[q] = "done" \/ (pc[q] = "new" /\ pc'[q] = "new")
        /\ UNCHANGED <<s3, skip, asked, result, stored>>
    BY <1>4 DEF crash, Active, TypeOK
  <2>2. RunInv(q)
    BY <1>1
  <2>3. QED BY <2>1, <2>2 DEF RunInv, Listing
<1>5. ASSUME UNCHANGED vars, NEW q \in Runs PROVE RunInv(q)'
  BY <1>1, <1>5 DEF vars, runVars, faultVars, RunInv, Moving, Listing
<1>6. QED BY <1>2, <1>3, <1>4, <1>5 DEF Next

(* What is safe stays safe: no object is replaced, no run resumes.         *)
LEMMA SafeStep ==
  ASSUME TypeOK, FileInv, CleanInv, NoPartialObject, [Next]_vars, ~overlapped', BaseSafe
  PROVE  BaseSafe'
<1>1. ASSUME NEW r \in Runs, run(r) PROVE BaseSafe'
  <2>1. OthersKept(r)
    BY <1>1, OneMoves
  <2>2. BaseWhole => BaseWhole'
    BY <2>1, DocsAssumption DEF OthersKept, BaseWhole, Docs
  <2>3. \A q \in Runs : BrokeOff(q) => ~Active(q) /\ pc[q] # "new"
    BY DEF BrokeOff, Active
  <2>4. \A q \in Runs : BrokeOff(q) => q # r
    BY <1>1, <2>3, WhoMoves
  <2>5. \A q \in Runs : BrokeOff(q) => BrokeOff(q)'
    BY <2>1, <2>4 DEF OthersKept, BrokeOff
  <2>6. QED BY <2>2, <2>5 DEF BaseSafe
<1>2. ASSUME UNCHANGED <<s3, asked, result>>, \A q \in Runs : pc[q] = "done" => pc'[q] = "done"
      PROVE  BaseSafe'
  BY <1>2 DEF BaseSafe, BaseWhole, BrokeOff
<1>3. ASSUME NEW r \in Runs, NEW d \in Docs, stall(r, d) PROVE BaseSafe'
  BY <1>2, <1>3 DEF stall
<1>4. CASE crash
  BY <1>2, <1>4 DEF crash, TypeOK, Active
<1>5. CASE UNCHANGED vars
  BY <1>2, <1>5 DEF vars, runVars
<1>6. QED BY <1>1, <1>3, <1>4, <1>5 DEF Next

(* Who may be the first to put an object into the bucket.                  *)
LEMMA FolderStep ==
  ASSUME TypeOK, FileInv, CleanInv, NoPartialObject, BaseInv, ~overlapped',
         NEW r \in Runs, run(r), FolderExists'
  PROVE  BaseSafe' \/ \E q \in Runs : Uploading(q)'
<1>1. ~overlapped /\ RunInv(r) /\ RunInv(r)' /\ OthersKept(r)
  BY OneMoves, OwnStep, WhoMoves DEF CleanInv
<1>2. BaseSafe => BaseSafe'
  BY SafeStep DEF Next
<1>3. skip[r] => BaseSafe
  BY <1>1 DEF BaseInv
<1>4. ASSUME FolderExists, UNCHANGED asked, \A q \in Runs : pc[q] = "upload" => pc'[q] = "upload"
      PROVE  BaseSafe' \/ \E q \in Runs : Uploading(q)'
  BY <1>1, <1>2, <1>4 DEF BaseInv, Uploading
<1>5. CASE cleanup(r)
  <2>1. /\ pc[r] = "upload" /\ pc'[r] = "done" /\ UNCHANGED <<s3, s3zip, asked, skip, stored>>
    BY <1>5 DEF cleanup, Return, TypeOK
  <2>2. asked[r] = Listing(r)
    BY <1>1, <2>1 DEF RunInv
  <2>3. CASE skip[r]
    BY <1>2, <1>3, <2>3
  <2>4. CASE ~skip[r] /\ result'[r] = "ok"
    <3>1. Docs \ Large \subseteq stored'[r] /\ \A d \in stored'[r] : s3'[d] = "whole"
      BY <1>1, <2>1, <2>2, <2>4 DEF RunInv, Listing
    <3>2. QED BY <3>1 DEF BaseSafe, BaseWhole, Docs
  <2>5. CASE ~skip[r] /\ result'[r] # "ok"
    BY <2>1, <2>2, <2>5 DEF BaseSafe, BrokeOff, Listing
  <2>6. QED BY <2>3, <2>4, <2>5
<1>6. CASE zipAndUpload(r) \/ \E d \in Docs : upload(r, d)
  <2>1. pc'[r] = "upload" /\ UNCHANGED <<skip, asked>>
    BY <1>6 DEF zipAndUpload, upload, NextUpload, Go, TypeOK
  <2>2. asked'[r] = Listing(r)
    BY <1>1, <2>1 DEF RunInv, Listing
  <2>3. CASE skip[r]
    BY <1>2, <1>3, <2>3
  <2>4. CASE ~skip[r]
    BY <2>1, <2>2, <2>4 DEF Uploading, Listing
  <2>5. QED BY <2>3, <2>4
<1>7. CASE checkFolder(r) \/ failEarly(r) \/ establishSession(r) \/ runNothing(r)
  <2>1. /\ FolderExists /\ UNCHANGED asked
        /\ \A q \in Runs : pc[q] = "upload" => pc'[q] = "upload"
    BY <1>7 DEF checkFolder, failEarly, establishSession, runNothing, Go, Return, TypeOK,
                FolderExists
  <2>2. QED BY <1>4, <2>1
<1>8. CASE processDirectLinks(r)
  <2>1. /\ FolderExists /\ pc[r] = "links" /\ \A q \in Runs \ {r} : asked'[q] = asked[q]
        /\ \A q \in Runs \ {r} : pc'[q] = pc[q]
    BY <1>8 DEF processDirectLinks, Go, TypeOK, FolderExists
  <2>2. \A q \in Runs : Uploading(q) => Uploading(q)'
    BY <2>1 DEF Uploading
  <2>3. QED BY <1>1, <1>2, <2>1, <2>2 DEF BaseInv
<1>9. ASSUME NEW d \in Docs, \/ skipLarge(r, d) \/ failRequest(r, d) \/ beginFetch(r, d)
                             \/ retryFetch(r, d) \/ endFetch(r, d) \/ failFetch(r, d)
                             \/ uploadMissing(r, d) \/ uploadFails(r, d)
      PROVE  BaseSafe' \/ \E q \in Runs : Uploading(q)'
  <2>1. UNCHANGED <<pc, asked, s3, s3zip>>
    BY <1>9 DEF skipLarge, failRequest, beginFetch, retryFetch, endFetch, failFetch,
                uploadMissing, uploadFails, runVars
  <2>2. QED BY <1>4, <2>1 DEF FolderExists
<1>10. CASE finishDownloads(r)
  <2>1. /\ FolderExists /\ UNCHANGED asked
        /\ \A q \in Runs : pc[q] = "upload" => pc'[q] = "upload"
    BY <1>10 DEF finishDownloads, Downloaded, Return, TypeOK, FolderExists
  <2>2. QED BY <1>4, <2>1
<1>11. QED BY <1>5, <1>6, <1>7, <1>8, <1>9, <1>10 DEF run

(* A run that skips found an object, and no other run was under way.       *)
LEMMA SkipStep ==
  ASSUME TypeOK, FileInv, CleanInv, NoPartialObject, BaseInv, ~overlapped',
         NEW r \in Runs, run(r), NEW q \in Runs, skip'[q]
  PROVE  BaseSafe'
<1>1. ~overlapped
  BY WhoMoves
<1>2. BaseSafe => BaseSafe'
  BY SafeStep DEF Next
<1>3. CASE skip[q]
  BY <1>1, <1>2, <1>3 DEF BaseInv
<1>4. CASE ~skip[q]
  <2>1. checkFolder(r) /\ FolderExists
    <3>1. skip' # skip
      BY <1>4
    <3>2. checkFolder(r)
      BY <3>1 DEF run, failEarly, establishSession, runNothing, processDirectLinks, skipLarge,
                  failRequest, beginFetch, retryFetch, endFetch, failFetch, upload,
                  uploadMissing, uploadFails, finishDownloads, zipAndUpload, cleanup, runVars
    <3>3. QED BY <1>4, <3>2 DEF checkFolder, TypeOK
  <2>2. \A p \in Runs : ~Uploading(p)
    BY <2>1 DEF checkFolder, Uploading, Active
  <2>3. QED BY <1>1, <1>2, <2>1, <2>2 DEF BaseInv
<1>5. QED BY <1>3, <1>4

LEMMA BaseStep ==
  ASSUME TypeOK, FileInv, CleanInv, NoPartialObject, BaseInv, [Next]_vars
  PROVE  BaseInv'
<1>1. SUFFICES ASSUME ~overlapped' PROVE BaseInv'
  BY DEF BaseInv
<1>2. BaseSafe => BaseSafe'
  BY <1>1, SafeStep
<1>3. ~overlapped
  BY <1>1, AloneStep
<1>4. ASSUME NEW r \in Runs, run(r) PROVE BaseInv'
  BY <1>1, <1>4, FolderStep, SkipStep DEF BaseInv
<1>5. ASSUME UNCHANGED <<s3, s3zip, skip, asked>>, \A q \in Runs : pc'[q] = pc[q]
      PROVE  BaseInv'
  <2>1. FolderExists' = FolderExists /\ \A q \in Runs : Uploading(q)' = Uploading(q)
    BY <1>5 DEF FolderExists, Uploading
  <2>2. QED BY <1>2, <1>3, <1>5, <2>1 DEF BaseInv
<1>6. ASSUME NEW r \in Runs, NEW d \in Docs, stall(r, d) PROVE BaseInv'
  BY <1>5, <1>6 DEF stall
<1>7. CASE crash
  <2>1. FolderExists' = FolderExists /\ skip' = skip
    BY <1>7 DEF crash, FolderExists
  <2>2. ASSUME NEW q \in Runs, Uploading(q) PROVE BrokeOff(q)'
    BY <1>3, <1>7, <2>2 DEF crash, Uploading, BrokeOff, Active, CleanInv, RunInv, TypeOK
  <2>3. (\E q \in Runs : Uploading(q)) => BaseSafe'
    BY <2>2 DEF BaseSafe
  <2>4. QED BY <1>2, <1>3, <2>1, <2>3 DEF BaseInv
<1>8. CASE UNCHANGED vars
  BY <1>5, <1>8 DEF vars, runVars
<1>9. QED BY <1>4, <1>6, <1>7, <1>8 DEF Next

LEMMA NextInv == Inv /\ [Next]_vars => Inv'
<1>1. SUFFICES ASSUME Inv, [Next]_vars PROVE Inv'
  OBVIOUS
<1>2. TypeOK /\ FileInv /\ CleanInv /\ NoPartialObject /\ BaseInv
  BY <1>1 DEF Inv
<1>3. TypeOK' /\ FileInv' /\ BaseInv'
  BY <1>1, <1>2, TypeStep, FileStep, BaseStep
<1>4. CASE overlapped'
  BY <1>3, <1>4 DEF Inv, CleanInv, NoPartialObject
<1>5. CASE ~overlapped'
  <2>1. AloneInv'
    BY <1>1, <1>2, <1>5, AloneStep
  <2>2. \A q \in Runs : RunInv(q)'
    BY <1>1, <1>2, <1>5, RunsStep
  <2>3. NoPartialObject'
    BY <1>1, <1>2, <1>5, BucketStep
  <2>4. QED BY <1>3, <2>1, <2>2, <2>3 DEF Inv, CleanInv
<1>6. QED BY <1>4, <1>5

-----------------------------------------------------------------------------
(* The inductive invariant: what the directory, the bucket and the lists   *)
(* of a run have in common at each point of the run.                       *)
THEOREM Invariance == Spec => []Inv
<1>1. QED BY InitInv, NextInv, PTL DEF Spec

(* The state of the document runs has its type.                            *)
THEOREM TypeOKAlways == Spec => []TypeOK
<1>1. Inv => TypeOK
  BY DEF Inv
<1>2. QED BY <1>1, Invariance, PTL

(* As long as no two runs of a tender overlap, neither half a document nor *)
(* a zip that lacks one reaches the bucket, whatever failed runs, crashes  *)
(* and stalled transfers left in the directory.                            *)
THEOREM NoPartialObjectAlways == Spec => []NoPartialObject
<1>1. Inv => NoPartialObject
  BY DEF Inv
<1>2. QED BY <1>1, Invariance, PTL

(* As long as no two runs of a tender overlap, a run that returned without *)
(* an error has stored every document it set out to fetch but the large    *)
(* ones, and what it skipped is there too, unless an earlier run broke off.*)
THEOREM SuccessIsCompleteAlways == Spec => []SuccessIsComplete
<1>1. ASSUME Inv, NEW r \in Runs, ~overlapped, result[r] = "ok"
      PROVE  /\ \A d \in asked[r] \ Large : d \in stored[r] /\ s3[d] = "whole"
             /\ skip[r] \/ asked[r] # {} => BaseSafe
  <2>1. RunInv(r)
    BY <1>1 DEF Inv, CleanInv
  <2>2. \A d \in asked[r] \ Large : d \in stored[r] /\ s3[d] = "whole"
    BY <1>1, <2>1 DEF RunInv
  <2>3. CASE skip[r]
    BY <1>1, <2>2, <2>3 DEF Inv, BaseInv
  <2>4. CASE ~skip[r] /\ asked[r] # {}
    BY <2>1, <2>2, <2>4 DEF RunInv, Listing, Docs, BaseSafe, BaseWhole
  <2>5. QED BY <2>2, <2>3, <2>4
<1>2. Inv => SuccessIsComplete
  BY <1>1 DEF SuccessIsComplete, BaseSafe, BaseWhole
<1>3. QED BY <1>2, Invariance, PTL

-----------------------------------------------------------------------------
(* The batch download command, which runs ProcessTender for each tender:   *)
(* that every batch lists exactly the tenders it failed, and the command   *)
(* counts exactly those that never succeeded, for any number of tenders,   *)
(* slots, attempts and batches.                                            *)

Running == {running[s] : s \in {q \in Slots : running[q] # NoTender}}

(* Every tender of the batch is in one place: to be launched, in one slot, *)
(* failed, or succeeded; those of no batch any more have succeeded.        *)
BatchPlaces ==
  /\ current \ succeeded = toLaunch \cup Running \cup failed
  /\ succeeded \cap (toLaunch \cup Running \cup failed) = {}
  /\ toLaunch \cap Running = {} /\ toLaunch \cap failed = {} /\ Running \cap failed = {}
  /\ \A s, q \in Slots : running[s] = running[q] /\ running[s] # NoTender => s = q
  /\ Tenders \ current \subseteq succeeded

(* Where the loop is tells which of these places are empty.                *)
BatchMain ==
  /\ main # "launch" => toLaunch = {}
  /\ main = "returned" => Running = {} /\ lastFailed = failed

BatchIndInv == BatchTypeOK /\ BatchPlaces /\ BatchMain

LEMMA SlotsType == Slots \subseteq Nat /\ 1 \in 1..Attempts /\ 1 \in 1..MaxBatches
  BY BatchAssumption DEF Slots

LEMMA BatchInitInv == BatchInit => BatchIndInv
<1> SUFFICES ASSUME BatchInit PROVE BatchIndInv
  OBVIOUS
<1>1. Running = {}
  BY DEF BatchInit, Running
<1>2. BatchTypeOK
  <2>1. running \in [Slots -> current \cup {NoTender}] /\ attempt \in [Slots -> 1..Attempts]
    BY SlotsType DEF BatchInit
  <2> QED
    BY <2>1, SlotsType, Zenon DEF BatchInit, BatchTypeOK
<1>3. BatchPlaces /\ BatchMain
  BY <1>1 DEF BatchInit, BatchPlaces, BatchMain
<1> QED
  BY <1>2, <1>3 DEF BatchIndInv

(* Every step keeps the types.                                             *)
LEMMA BatchTypeStep == BatchTypeOK /\ [BatchNext]_batchVars => BatchTypeOK'
<1> SUFFICES ASSUME BatchTypeOK, [BatchNext]_batchVars PROVE BatchTypeOK'
  OBVIOUS
<1> USE BatchAssumption, SlotsType DEF BatchTypeOK, slotVars
<1>1. ASSUME NEW t \in Tenders, NEW s \in Slots, launch(t, s) PROVE BatchTypeOK'
  BY <1>1 DEF launch
<1>2. ASSUME launched \/ return PROVE BatchTypeOK'
  BY <1>2 DEF launched, return
<1>3. ASSUME nextBatch PROVE BatchTypeOK'
  <2>1. batch' \in 1..MaxBatches
    BY <1>3 DEF nextBatch
  <2>2. running' \in [Slots -> current' \cup {NoTender}]
    BY <1>3 DEF nextBatch, BatchDone
  <2> QED
    BY <1>3, <2>1, <2>2 DEF nextBatch, NextTenders
<1>4. ASSUME NEW s \in Slots, succeed(s) PROVE BatchTypeOK'
  BY <1>4 DEF succeed, Going, Release
<1>5. ASSUME NEW s \in Slots, retry(s) PROVE BatchTypeOK'
  <2>1. attempt' \in [Slots -> 1..Attempts]
    BY <1>5 DEF retry
  <2> QED
    BY <1>5, <2>1 DEF retry
<1>6. ASSUME NEW s \in Slots, fail(s) PROVE BatchTypeOK'
  <2>1. running[s] \in current
    BY <1>6 DEF fail, Going
  <2> QED
    BY <1>6, <2>1 DEF fail, Release
<1>7. ASSUME NEW s \in Slots, hang(s) PROVE BatchTypeOK'
  BY <1>7 DEF hang
<1>8. ASSUME UNCHANGED batchVars PROVE BatchTypeOK'
  BY <1>8 DEF batchVars
<1> QED
  BY <1>1, <1>2, <1>3, <1>4, <1>5, <1>6, <1>7, <1>8 DEF BatchNext, loop, goroutine

(* What launching a tender and giving a slot back do to the set of those   *)
(* under way.                                                              *)
LEMMA Launched ==
  ASSUME BatchTypeOK, NEW s \in Slots, NEW t \in Tenders, running[s] = NoTender,
         running' = [running EXCEPT ![s] = t]
  PROVE  Running' = Running \cup {t}
  BY BatchAssumption DEF BatchTypeOK, Running

LEMMA Released ==
  ASSUME BatchTypeOK, BatchPlaces, NEW s \in Slots, running[s] # NoTender, Release(s)
  PROVE  /\ Running' = Running \ {running[s]}
         /\ running[s] \in Running
         /\ running[s] \in current
  BY BatchAssumption DEF BatchTypeOK, BatchPlaces, Running, Release

LEMMA BatchNextInv == BatchIndInv /\ [BatchNext]_batchVars => BatchIndInv'
<1> SUFFICES ASSUME BatchIndInv, [BatchNext]_batchVars PROVE BatchIndInv'
  OBVIOUS
<1> USE BatchAssumption
<1>0. BatchTypeOK /\ BatchTypeOK' /\ BatchPlaces /\ BatchMain
  BY BatchTypeStep DEF BatchIndInv
<1>1. ASSUME NEW t \in Tenders, NEW s \in Slots, launch(t, s) PROVE BatchIndInv'
  <2>1. Running' = Running \cup {t}
    BY <1>0, <1>1, Launched DEF launch
  <2>2. \A p, q \in Slots : running'[p] = running'[q] /\ running'[p] # NoTender => p = q
    BY <1>0, <1>1 DEF launch, BatchTypeOK, BatchPlaces, Running
  <2>3. BatchPlaces'
    BY <1>0, <1>1, <2>1, <2>2 DEF launch, BatchPlaces
  <2> QED
    BY <1>0, <1>1, <2>3 DEF launch, BatchIndInv, BatchMain
<1>2. ASSUME launched PROVE BatchIndInv'
  BY <1>0, <1>2 DEF launched, BatchIndInv, BatchPlaces, BatchMain, slotVars, Running
<1>3. ASSUME NEW s \in Slots, succeed(s) PROVE BatchIndInv'
  <2>1. /\ Running' = Running \ {running[s]}
        /\ running[s] \in Running /\ running[s] \in current
    BY <1>0, <1>3, Released DEF succeed, Going
  <2>2. \A p, q \in Slots : running'[p] = running'[q] /\ running'[p] # NoTender => p = q
    BY <1>0, <1>3 DEF succeed, Release, BatchTypeOK, BatchPlaces
  <2>3. BatchPlaces'
    BY <1>0, <1>3, <2>1, <2>2 DEF succeed, BatchPlaces
  <2> QED
    BY <1>0, <1>3, <2>1, <2>3 DEF succeed, BatchIndInv, BatchMain
<1>4. ASSUME NEW s \in Slots, retry(s) PROVE BatchIndInv'
  BY <1>0, <1>4 DEF retry, BatchIndInv, BatchPlaces, BatchMain, Running
<1>5. ASSUME NEW s \in Slots, fail(s) PROVE BatchIndInv'
  <2>1. /\ Running' = Running \ {running[s]}
        /\ running[s] \in Running /\ running[s] \in current
    BY <1>0, <1>5, Released DEF fail, Going
  <2>2. \A p, q \in Slots : running'[p] = running'[q] /\ running'[p] # NoTender => p = q
    BY <1>0, <1>5 DEF fail, Release, BatchTypeOK, BatchPlaces
  <2>3. BatchPlaces'
    BY <1>0, <1>5, <2>1, <2>2 DEF fail, BatchPlaces
  <2> QED
    BY <1>0, <1>5, <2>1, <2>3 DEF fail, BatchIndInv, BatchMain
<1>6. ASSUME nextBatch PROVE BatchIndInv'
  <2>1. Running = {} /\ Running' = {}
    BY <1>6 DEF nextBatch, BatchDone, slotVars, Running
  <2> QED
    BY <1>0, <1>6, <2>1 DEF nextBatch, BatchDone, NextTenders, slotVars, BatchIndInv, BatchPlaces, BatchMain
<1>7. ASSUME return PROVE BatchIndInv'
  <2>1. Running = {} /\ Running' = {}
    BY <1>7 DEF return, BatchDone, slotVars, Running
  <2> QED
    BY <1>0, <1>7, <2>1 DEF return, BatchDone, slotVars, BatchIndInv, BatchPlaces, BatchMain
<1>8. ASSUME NEW s \in Slots, hang(s) PROVE BatchIndInv'
  BY <1>0, <1>8 DEF hang, BatchIndInv, BatchPlaces, BatchMain, Running
<1>9. ASSUME UNCHANGED batchVars PROVE BatchIndInv'
  BY <1>0, <1>9 DEF batchVars, slotVars, BatchIndInv, BatchPlaces, BatchMain, Running
<1> QED
  BY <1>1, <1>2, <1>3, <1>4, <1>5, <1>6, <1>7, <1>8, <1>9 DEF BatchNext, loop, goroutine

(* The invariant, for every instance.                                      *)
THEOREM BatchInvariance == BatchSpec => []BatchIndInv
  BY BatchInitInv, BatchNextInv, PTL DEF BatchSpec

(* RunBatch lists exactly the tenders of the batch that have not succeeded,*)
(* and DownloadDocuments ends with exactly those that never did.           *)
THEOREM BatchExactAlways == BatchSpec => []BatchExact
<1>1. BatchIndInv => BatchExact
  <2> SUFFICES ASSUME BatchIndInv PROVE BatchExact
    OBVIOUS
  <2>1. (\A s \in Slots : running[s] = NoTender) => Running = {}
    BY DEF Running
  <2> QED
    BY <2>1 DEF BatchIndInv, BatchTypeOK, BatchPlaces, BatchMain, BatchExact
<1> QED
  BY <1>1, BatchInvariance, PTL
=============================================================================
