---------------------------- MODULE DeleteProofs ----------------------------
(***************************************************************************)
(* What holds of an image and its files while DELETEs, requests and workers*)
(* run: 204 is final, a failed DELETE can be repeated, a ready variant has *)
(* its object until a DELETE of its image begins.                          *)
(***************************************************************************)
EXTENDS JobProofs

(* What a DELETE knows of its image: the original is gone before the row is *)
(* its next call, and the row is gone when it has answered 204.             *)
DeleteOK(d) ==
    /\ dcode[d] = 204 => dpc[d] = "done" /\ dimg[d] \notin imageRows
    /\ dpc[d] = "row" => dimg[d] \notin originals
    /\ dpc[d] \in {"list", "objects"} /\ ~fileErr[d] => dimg[d] \notin originals
    /\ page[d] \subseteq VariantsOf(dimg[d])

FilesInv == /\ TypeInv /\ ForeignKey
            /\ \A d \in Deleters : DeleteOK(d)
            /\ originals \subseteq imageRows

(* Whoever is not a DELETE leaves images, originals and DELETEs alone and    *)
(* only adds objects.                                                       *)
LEMMA OthersLeaveFiles ==
    ASSUME TypeInv, Next, ~\E d \in Deleters : DeleteNext(d)
    PROVE  /\ UNCHANGED <<deleteVars, imageRows, originals>>
           /\ avifs \subseteq avifs'
<1> USE DEF TypeInv, TypeOK
<1>1. ASSUME NEW p \in Procs, GenStep(p) \/ GenFails(p)
      PROVE  UNCHANGED <<imageRows, originals>> /\ avifs \subseteq avifs'
  <2>1. UNCHANGED <<imageRows, originals>>
    BY <1>1, GenTypes
  <2>2. avifs \subseteq avifs'
    BY <1>1 DEF GenStep, GenFails, GenImage, GenFetch, GenWrite, GenMark, WriteVariant, blobVars
  <2> QED
    BY <2>1, <2>2
<1>2. ASSUME NEW r \in Requests, RequestNext(r)
      PROVE  UNCHANGED <<deleteVars, imageRows, originals>> /\ avifs \subseteq avifs'
  <2>1. CASE OwnStep(r)
    <3>1. UNCHANGED <<blobVars, deleteVars>>
      BY <1>2, <2>1, RequestFrame
    <3>2. UNCHANGED imageRows
      BY <2>1 DEF OwnStep, Begin, GetImage, GetVariantByHash, UpsertPending, ConflictFetch,
         PublishBestEffort, SyncGenerate, Reload, Poll, PollExpired, LastPoll,
         ServeVariant, CallFails, RequestLost, ReadsOnly, InsertPending, storeVars
    <3> QED
      BY <3>1, <3>2 DEF blobVars
  <2> QED
    BY <1>1, <1>2, <2>1 DEF Procs, RequestNext, RequestStep, RequestFails, OwnStep
<1>3. ASSUME NEW w \in Workers, WorkerNext(w)
      PROVE  UNCHANGED <<deleteVars, imageRows, originals>> /\ avifs \subseteq avifs'
  <2>1. CASE WorkerOwnStep(w)
    BY <1>3, <2>1, WorkerEffect DEF WorkerNext, blobVars
  <2> QED
    BY <1>1, <1>3, <2>1 DEF Procs, WorkerNext, WorkerStep, WorkerFails, WorkerOwnStep
<1> QED
  BY <1>2, <1>3 DEF Next

(* What a step of a DELETE does to the image, its files and its variants.   *)
LEMMA DeleteEffect ==
    ASSUME TypeInv, NEW d \in Deleters, DeleteNext(d)
    PROVE  /\ \/ UNCHANGED originals
              \/ dpc[d] = "original" /\ originals' = originals \ {dimg[d]}
           /\ \/ UNCHANGED storeVars
              \/ dpc[d] = "row" /\ DeleteImage(dimg[d])
           /\ \/ UNCHANGED avifs
              \/ dpc[d] = "objects" /\ avifs \ page[d] \subseteq avifs'
<1> USE DEF DeleteNext, DeleteStep, DeleteFails, BeginDelete, DeleteGetImage,
        DeleteOriginalFile, ListPage, DeletePage, DeleteRow, DeleteCallFails,
        OriginalFails, ObjectsKept, DeleteLost
<1>1. \/ UNCHANGED originals
      \/ dpc[d] = "original" /\ originals' = originals \ {dimg[d]}
  BY DEF DeleteOriginal, DeleteObjects, blobVars
<1>2. \/ UNCHANGED storeVars
      \/ dpc[d] = "row" /\ DeleteImage(dimg[d])
  OBVIOUS
<1>3. \/ UNCHANGED avifs
      \/ dpc[d] = "objects" /\ avifs \ page[d] \subseteq avifs'
  BY DEF DeleteOriginal, DeleteObjects, blobVars
<1> QED
  BY <1>1, <1>2, <1>3

(* ... and to the request itself: other requests are not moved, and it moves *)
(* along the order of its calls.                                            *)
LEMMA DeleteFrame ==
    ASSUME TypeInv, NEW d \in Deleters, DeleteNext(d)
    PROVE  /\ UNCHANGED dimg
           /\ dpc' = [dpc EXCEPT ![d] = dpc'[d]]
           /\ dcode' = [dcode EXCEPT ![d] = dcode'[d]]
           /\ fileErr' = [fileErr EXCEPT ![d] = fileErr'[d]]
           /\ page' = [page EXCEPT ![d] = page'[d]]
           /\ page'[d] = page[d] \/ page'[d] = Page(dimg[d], token[d])
<1> USE DEF TypeInv, TypeOK, DeleteTypeOK, DeleteNext, DeleteStep, DeleteFails, BeginDelete,
        DeleteGetImage, DeleteOriginalFile, ListPage, DeletePage, DeleteRow, DeleteCallFails,
        OriginalFails, ObjectsKept, DeleteLost
<1>1. /\ UNCHANGED dimg
      /\ dpc' = [dpc EXCEPT ![d] = dpc'[d]]
      /\ dcode' = [dcode EXCEPT ![d] = dcode'[d]]
  BY DEF DGoto, Finish, AfterFiles
<1>2. /\ page' = [page EXCEPT ![d] = page'[d]]
      /\ page'[d] = page[d] \/ page'[d] = Page(dimg[d], token[d])
  BY DEF listing
<1>3. fileErr' = [fileErr EXCEPT ![d] = fileErr'[d]]
  <2>1. UNCHANGED fileErr \/ fileErr' = [fileErr EXCEPT ![d] = TRUE]
    OBVIOUS
  <2>2. fileErr \in [Deleters -> BOOLEAN]
    OBVIOUS
  <2>3. CASE UNCHANGED fileErr
    BY <2>2, <2>3
  <2>4. CASE fileErr' = [fileErr EXCEPT ![d] = TRUE]
    BY <2>2, <2>4
  <2> QED
    BY <2>1, <2>3, <2>4
<1> QED
  BY <1>1, <1>2, <1>3
-----------------------------------------------------------------------------
(* Images and originals only ever go, so that what one DELETE knows is not   *)
(* undone by another process.                                                *)
LEMMA FilesShrink ==
    ASSUME TypeInv, ForeignKey, Next
    PROVE  imageRows' \subseteq imageRows /\ originals' \subseteq originals
<1>1. imageRows' \subseteq imageRows
  BY RowSteps, RowsAreCreatedOnce
<1>2. originals' \subseteq originals
  BY DeleteEffect, OthersLeaveFiles
<1> QED
  BY <1>1, <1>2

(* A DELETE's own step keeps what it knows.                                  *)
LEMMA DeleteKnows ==
    ASSUME FilesInv, NEW d \in Deleters, DeleteNext(d)
    PROVE  DeleteOK(d)'
<1> USE DEF FilesInv, TypeInv, TypeOK, DeleteTypeOK
<1>1. dcode'[d] = 204 => dpc'[d] = "done" /\ dimg[d] \notin imageRows'
  <2>1. CASE DeleteRow(d)
    BY <2>1 DEF DeleteRow, Finish, DeleteImage, HasImage, storeVars
  <2>2. CASE ~DeleteRow(d)
    <3>1. dcode'[d] # 204 \/ (dcode[d] = 204 /\ dpc[d] # "done")
      BY <2>2
         DEF DeleteNext, DeleteStep, DeleteFails, BeginDelete, DeleteGetImage,
             DeleteOriginalFile, ListPage, DeletePage, DeleteCallFails, OriginalFails,
             ObjectsKept, DeleteLost, DGoto, Finish, AfterFiles
    <3> QED
      BY <3>1 DEF DeleteOK
  <2> QED
    BY <2>1, <2>2
<1>2. \/ originals' = originals \ {dimg[d]}
      \/ UNCHANGED originals /\ dpc[d] \in {"list", "objects"} /\ fileErr'[d] = fileErr[d]
      \/ UNCHANGED originals /\ dpc'[d] \notin {"row", "list", "objects"}
      \/ UNCHANGED originals /\ dpc'[d] = "list" /\ fileErr'[d]
  <2> USE DEF DGoto, Finish, AfterFiles
  <2>1. CASE BeginDelete(d) \/ DeleteGetImage(d) \/ DeleteRow(d) \/ DeleteCallFails(d) \/ DeleteLost(d)
    BY <2>1 DEF BeginDelete, DeleteGetImage, DeleteRow, DeleteCallFails, DeleteLost, blobVars,
                DeleteObjects
  <2>2. CASE DeleteOriginalFile(d) \/ OriginalFails(d)
    BY <2>2 DEF DeleteOriginalFile, OriginalFails, DeleteOriginal, blobVars
  <2>3. CASE ListPage(d) \/ DeletePage(d) \/ ObjectsKept(d)
    BY <2>3 DEF ListPage, DeletePage, ObjectsKept, DeleteObjects, blobVars
  <2> QED
    BY <2>1, <2>2, <2>3 DEF DeleteNext, DeleteStep, DeleteFails
<1>3. dpc'[d] = "row" => fileErr'[d] = FALSE \/ dpc[d] \notin {"list", "objects"}
  BY DEF DeleteNext, DeleteStep, DeleteFails, BeginDelete, DeleteGetImage,
         DeleteOriginalFile, ListPage, DeletePage, DeleteRow, DeleteCallFails, OriginalFails,
         ObjectsKept, DeleteLost, DGoto, Finish, AfterFiles
<1>4. /\ dpc'[d] = "row" => dimg[d] \notin originals'
      /\ dpc'[d] \in {"list", "objects"} /\ ~fileErr'[d] => dimg[d] \notin originals'
  BY <1>2, <1>3 DEF DeleteOK
<1>5. page'[d] \subseteq VariantsOf(dimg[d])
  <2>1. Page(dimg[d], token[d]) \subseteq VariantsOf(dimg[d])
    BY DEF Page, Listed, VariantsOf, BlobsTypeOK
  <2>2. page[d] \subseteq VariantsOf(dimg[d])
    BY DEF DeleteOK
  <2>3. page'[d] = page[d] \/ page'[d] = Page(dimg[d], token[d])
    BY DeleteFrame
  <2> QED
    BY <2>1, <2>2, <2>3
<1> QED
  BY <1>1, <1>4, <1>5, DeleteFrame DEF DeleteOK, VariantsOf

(* Every step keeps FilesInv: an original is gone before its row.            *)
LEMMA FilesInvStep ==
    ASSUME FilesInv, Next
    PROVE  FilesInv'
<1> USE DEF FilesInv
<1>1. TypeInv' /\ ForeignKey'
  BY NextTypeInv, RowSteps, RowsAreCreatedOnce
<1>2. ASSUME NEW d \in Deleters PROVE DeleteOK(d)'
  <2>1. CASE DeleteNext(d)
    BY <2>1, DeleteKnows
  <2>2. CASE ~DeleteNext(d)
    <3>1. /\ dimg'[d] = dimg[d] /\ dpc'[d] = dpc[d] /\ dcode'[d] = dcode[d]
          /\ fileErr'[d] = fileErr[d] /\ page'[d] = page[d]
      <4>1. CASE \E e \in Deleters : DeleteNext(e)
        BY <2>2, <4>1, DeleteFrame DEF TypeInv, TypeOK, DeleteTypeOK
      <4> QED
        BY <4>1, OthersLeaveFiles DEF deleteVars
    <3> QED
      BY <3>1, FilesShrink DEF DeleteOK, VariantsOf
  <2> QED
    BY <2>1, <2>2
<1>3. originals' \subseteq imageRows'
  <2>1. CASE \E d \in Deleters : DeleteNext(d)
    <3> PICK d \in Deleters : DeleteNext(d)
      BY <2>1
    <3>1. CASE UNCHANGED storeVars
      BY <3>1, FilesShrink DEF storeVars
    <3>2. CASE dpc[d] = "row" /\ DeleteImage(dimg[d])
      BY <3>2, FilesShrink DEF DeleteImage, DeleteOK
    <3> QED
      BY <3>1, <3>2, DeleteEffect
  <2> QED
    BY <2>1, OthersLeaveFiles
<1> QED
  BY <1>1, <1>2, <1>3

(* The invariant of DELETEs and files holds in every reachable state.        *)
THEOREM FilesInvariant == Spec => []FilesInv
<1>1. Init => FilesInv
  <2> SUFFICES ASSUME Init PROVE FilesInv
    OBVIOUS
  <2>1. TypeInv /\ ForeignKey
    BY InitJobInv DEF JobInv
  <2> QED
    BY <2>1 DEF Init, DeleteInit, FilesInv, DeleteOK, VariantsOf
<1>2. FilesInv /\ [Next]_vars => FilesInv'
  <2> SUFFICES ASSUME FilesInv, UNCHANGED vars PROVE FilesInv'
    BY FilesInvStep
  <2>1. TypeInv'
    BY NextTypeInv DEF FilesInv
  <2> QED
    BY <2>1 DEF vars, storeVars, blobVars, deleteVars, FilesInv, DeleteOK, VariantsOf,
                ForeignKey, HasVariant, HasImage
<1> QED
  BY <1>1, <1>2, PTL DEF Spec

(* A DELETE that could not remove the original, or died before it reached    *)
(* the row, leaves a row by which it can be repeated.                        *)
THEOREM RowOutlivesOriginalHolds == Spec => []RowOutlivesOriginal
<1>1. FilesInv => RowOutlivesOriginal
  BY DEF FilesInv, RowOutlivesOriginal, HasImage
<1> QED
  BY <1>1, FilesInvariant, PTL

(* After a 204 the image and its variants have no rows, whichever requests   *)
(* checked the image before the DELETE and insert a variant after it.        *)
THEOREM DeletedRowsGoneHolds == Spec => []DeletedRowsGone
<1>1. FilesInv => DeletedRowsGone
  BY DEF FilesInv, DeleteOK, DeletedRowsGone, ForeignKey, VariantsOf, HasImage
<1> QED
  BY <1>1, FilesInvariant, PTL
-----------------------------------------------------------------------------
(* A ready variant has its object.  By itself this is not inductive: between *)
(* the write of the object and the mark of the row no DELETE may have begun, *)
(* and what a DELETE is about to delete are objects of its own image only.   *)
Intact(i) == ~Doomed(i)

Written(v) == Intact(ImageOf[v]) => v \in avifs

ObjectsInv == /\ FilesInv
              /\ \A v \in Variants : status[v] = "ready" => Written(v)
              /\ \A p \in Procs : gen[p] = "mark" => Written(job[p])
              /\ \A i \in imageRows : Intact(i) => i \in originals

(* A DELETE that has begun on the files of an image stays begun.             *)
LEMMA DoomIsFinal ==
    ASSUME TypeInv, Next, NEW i \in Images, Doomed(i)
    PROVE  Doomed(i)'
<1> USE DEF TypeInv, TypeOK, DeleteTypeOK
<1>1. PICK e \in Deleters : /\ dimg[e] = i
                            /\ dpc[e] \in {"original", "list", "objects", "row", "done"}
  BY DEF Doomed
<1>2. dimg'[e] = i
  BY <1>1, DeleteFrame, OthersLeaveFiles DEF deleteVars
<1>3. dpc'[e] \in {"original", "list", "objects", "row", "done"}
  <2>1. CASE DeleteNext(e)
    BY <1>1, <2>1
       DEF DeleteNext, DeleteStep, DeleteFails, BeginDelete, DeleteGetImage,
           DeleteOriginalFile, ListPage, DeletePage, DeleteRow, DeleteCallFails,
           OriginalFails, ObjectsKept, DeleteLost, DGoto, Finish, AfterFiles
  <2>2. CASE ~DeleteNext(e)
    <3>1. dpc'[e] = dpc[e]
      <4>1. CASE \E d \in Deleters : DeleteNext(d)
        BY <2>2, <4>1, DeleteFrame
      <4> QED
        BY <4>1, OthersLeaveFiles DEF deleteVars
    <3> QED
      BY <1>1, <3>1
  <2> QED
    BY <2>1, <2>2
<1> QED
  BY <1>2, <1>3 DEF Doomed

(* No step takes the object or the original of an image away unless a DELETE *)
(* has begun on its files.                                                   *)
LEMMA IntactKept ==
    ASSUME FilesInv, Next
    PROVE  /\ \A v \in Variants : v \in avifs /\ Intact(ImageOf[v]) => v \in avifs'
           /\ \A i \in Images : i \in originals /\ Intact(i) => i \in originals'
<1> USE DEF FilesInv, TypeInv, TypeOK, DeleteTypeOK
<1>1. CASE \E d \in Deleters : DeleteNext(d)
  <2> PICK d \in Deleters : DeleteNext(d)
    BY <1>1
  <2>1. dpc[d] \in {"original", "objects"} => ~Intact(dimg[d])
    BY DEF Intact, Doomed
  <2>2. page[d] \subseteq VariantsOf(dimg[d])
    BY DEF DeleteOK
  <2> QED
    BY <2>1, <2>2, DeleteEffect DEF VariantsOf
<1> QED
  BY <1>1, OthersLeaveFiles

(* A row becomes ready only by the mark of a process that wrote its object.  *)
LEMMA ReadyIsMarked ==
    ASSUME TypeInv, Next, NEW v \in Variants, status'[v] = "ready"
    PROVE  \/ status[v] = "ready"
           \/ \E p \in Procs : gen[p] = "mark" /\ job[p] = v
<1> USE DEF TypeInv, TypeOK, StoreTypeOK
<1>1. ASSUME NEW p \in Procs, GenStep(p) \/ GenFails(p)
      PROVE  status[v] = "ready" \/ (gen[p] = "mark" /\ job[p] = v)
  BY <1>1, GenTypes
     DEF GenStep, GenFails, GenImage, GenFetch, GenWrite, GenMark, MarkReady, SetStatus, storeVars
<1>2. ASSUME NEW r \in Requests, RequestNext(r), OwnStep(r)
      PROVE  status[v] = "ready"
  BY <1>2 DEF OwnStep, Begin, GetImage, GetVariantByHash, UpsertPending, ConflictFetch,
         PublishBestEffort, SyncGenerate, Reload, Poll, PollExpired, LastPoll,
         ServeVariant, CallFails, RequestLost, ReadsOnly, InsertPending, storeVars
<1>3. ASSUME NEW w \in Workers, WorkerNext(w), WorkerOwnStep(w)
      PROVE  status[v] = "ready"
  BY <1>3 DEF WorkerOwnStep, Receive, Lookup, CountAttempt, Generated, GiveUp, Backoff,
         Acknowledge, StatementFails, Crash, ConnectionLost, IncrAttempts, MarkFailed,
         SetStatus, storeVars
<1>4. ASSUME NEW d \in Deleters, DeleteNext(d) PROVE status[v] = "ready"
  BY <1>4, DeleteEffect DEF DeleteImage, storeVars
<1> QED
  BY <1>1, <1>2, <1>3, <1>4
     DEF Next, Procs, RequestNext, RequestStep, RequestFails, OwnStep,
         WorkerNext, WorkerStep, WorkerFails, WorkerOwnStep

(* A process is about to mark only after it wrote.                           *)
LEMMA MarksWritten ==
    ASSUME TypeInv, Next, NEW p \in Procs, gen'[p] = "mark"
    PROVE  /\ job'[p] = job[p] /\ job[p] \in Variants
           /\ gen[p] = "mark" \/ job[p] \in avifs'
<1> USE DEF TypeInv, TypeOK, GenTypeOK
<1>1. ASSUME NEW q \in Procs, GenStep(q) \/ GenFails(q)
      PROVE  /\ job'[p] = job[p] /\ gen[p] # "off"
             /\ gen[p] = "mark" \/ job[p] \in avifs'
  <2>1. UNCHANGED job /\ gen' = [gen EXCEPT ![q] = gen'[q]] /\ gen[q] # "off"
    BY <1>1, GenTypes
  <2>2. gen'[q] = "mark" => job[q] \in avifs'
    BY <1>1 DEF GenStep, GenFails, GenImage, GenFetch, GenWrite, GenMark, GenGoto, WriteVariant
  <2> QED
    BY <2>1, <2>2
<1>2. ASSUME NEW r \in Requests, RequestNext(r), OwnStep(r)
      PROVE  job'[p] = job[p] /\ gen[p] = "mark"
  <2>1. job' = [job EXCEPT ![r] = job'[r]] /\ gen' = [gen EXCEPT ![r] = gen'[r]]
    BY <1>2, RequestEffect
  <2>2. \/ UNCHANGED gen
        \/ GenStop(r) \/ GenStart(r)
    BY <1>2 DEF OwnStep, Begin, GetImage, GetVariantByHash, UpsertPending, ConflictFetch,
         PublishBestEffort, SyncGenerate, Reload, Poll, PollExpired, LastPoll,
         ServeVariant, CallFails, RequestLost, ReadsOnly, genVars
  <2>3. gen[p] = "mark"
    BY <2>1, <2>2 DEF GenStop, GenStart, GenGoto, Procs
  <2>4. p = r => rpc[r] = "sync"
    BY <2>3 DEF JobOK
  <2>5. rpc[r] = "sync" => UNCHANGED job
    BY <1>2 DEF OwnStep, Begin, GetImage, GetVariantByHash, UpsertPending, ConflictFetch,
         PublishBestEffort, SyncGenerate, Reload, Poll, PollExpired, LastPoll,
         ServeVariant, CallFails, RequestLost, ReadsOnly, genVars, GenStop, GenGoto
  <2> QED
    BY <2>1, <2>3, <2>4, <2>5 DEF Procs
<1>3. ASSUME NEW w \in Workers, WorkerNext(w), WorkerOwnStep(w)
      PROVE  job'[p] = job[p] /\ gen[p] = "mark"
  <2>1. job' = [job EXCEPT ![w] = job'[w]] /\ gen' = [gen EXCEPT ![w] = gen'[w]]
    BY <1>3, WorkerEffect
  <2>2. \/ UNCHANGED gen
        \/ GenStop(w) \/ GenStart(w)
    BY <1>3 DEF WorkerOwnStep, Receive, Lookup, CountAttempt, Generated, GiveUp, Backoff,
         Acknowledge, StatementFails, Crash, ConnectionLost, genVars
  <2>3. gen[p] = "mark"
    BY <2>1, <2>2 DEF GenStop, GenStart, GenGoto, Procs
  <2>4. p = w => wpc[w] = "gen"
    BY <2>3 DEF JobOK
  <2>5. wpc[w] = "gen" => UNCHANGED job
    BY <1>3 DEF WorkerOwnStep, Receive, Lookup, CountAttempt, Generated, GiveUp, Backoff,
         Acknowledge, StatementFails, Crash, ConnectionLost, genVars, GenStop, GenGoto
  <2> QED
    BY <2>1, <2>3, <2>4, <2>5 DEF Procs
<1>4. ASSUME NEW d \in Deleters, DeleteNext(d)
      PROVE  job'[p] = job[p] /\ gen[p] = "mark"
  BY <1>4 DEF DeleteNext, genVars
<1>5. /\ job'[p] = job[p] /\ gen[p] # "off"
      /\ gen[p] = "mark" \/ job[p] \in avifs'
  BY <1>1, <1>2, <1>3, <1>4
     DEF Next, Procs, RequestNext, RequestStep, RequestFails, OwnStep,
         WorkerNext, WorkerStep, WorkerFails, WorkerOwnStep
<1>6. job[p] \in Variants
  BY <1>5 DEF JobOK, Procs
<1> QED
  BY <1>5, <1>6

(* Every step keeps the objects of images that no DELETE has begun on.       *)
LEMMA ObjectsInvStep ==
    ASSUME ObjectsInv, Next
    PROVE  ObjectsInv'
<1> USE DEF ObjectsInv
<1>1. FilesInv' /\ TypeInv
  BY FilesInvStep DEF FilesInv
<1>2. \A i \in Images : Intact(i)' => Intact(i)
  BY <1>1, DoomIsFinal DEF Intact
<1>3. \A v \in Variants : ImageOf[v] \in Images
  BY StoreAssumption
<1>4. \A v \in Variants : Written(v) /\ Intact(ImageOf[v])' => v \in avifs'
  BY <1>2, <1>3, IntactKept DEF Written
<1>5. ASSUME NEW v \in Variants, status'[v] = "ready" PROVE Written(v)'
  <2>1. Written(v)
    BY <1>1, <1>5, ReadyIsMarked
  <2> QED
    BY <1>4, <2>1 DEF Written, Intact, Doomed
<1>6. ASSUME NEW p \in Procs, gen'[p] = "mark" PROVE Written(job[p])'
  <2>1. /\ job'[p] = job[p] /\ job[p] \in Variants
        /\ gen[p] = "mark" \/ job[p] \in avifs'
    BY <1>1, <1>6, MarksWritten
  <2>2. Intact(ImageOf[job[p]])' => job[p] \in avifs'
    BY <1>4, <2>1
  <2> QED
    BY <2>1, <2>2 DEF Written, Intact, Doomed
<1>7. ASSUME NEW i \in imageRows', Intact(i)' PROVE i \in originals'
  <2>1. i \in imageRows /\ i \in Images
    BY <1>1, FilesShrink DEF FilesInv, TypeInv, TypeOK, StoreTypeOK
  <2>2. Intact(i)
    BY <1>2, <1>7, <2>1
  <2> QED
    BY <2>1, <2>2, IntactKept
<1> QED
  BY <1>1, <1>5, <1>6, <1>7

(* The invariant of objects holds in every reachable state.                  *)
THEOREM ObjectsInvariant == Spec => []ObjectsInv
<1>1. Init => ObjectsInv
  <2> SUFFICES ASSUME Init PROVE ObjectsInv
    OBVIOUS
  <2>1. FilesInv
    <3>1. TypeInv /\ ForeignKey
      BY InitJobInv DEF JobInv
    <3> QED
      BY <3>1 DEF Init, DeleteInit, FilesInv, DeleteOK, VariantsOf
  <2> QED
    BY <2>1 DEF Init, ObjectsInv, Written
<1>2. ObjectsInv /\ [Next]_vars => ObjectsInv'
  <2> SUFFICES ASSUME ObjectsInv, UNCHANGED vars PROVE ObjectsInv'
    BY ObjectsInvStep
  <2>1. FilesInv'
    <3>1. TypeInv'
      BY NextTypeInv DEF ObjectsInv, FilesInv
    <3> QED
      BY <3>1 DEF vars, storeVars, blobVars, deleteVars, ObjectsInv, FilesInv, DeleteOK,
                  VariantsOf, ForeignKey, HasVariant, HasImage
  <2> QED
    BY <2>1 DEF vars, storeVars, blobVars, genVars, deleteVars, ObjectsInv, Written, Intact,
                Doomed
<1> QED
  BY <1>1, <1>2, PTL DEF Spec

(* A ready variant of an image that no DELETE has begun on can be served, and *)
(* made again.                                                               *)
THEOREM ReadyHasObjectHolds == Spec => []ReadyHasObject
<1>1. ObjectsInv => ReadyHasObject
  <2> SUFFICES ASSUME ObjectsInv, NEW v \in Variants, status[v] = "ready", Intact(ImageOf[v])
               PROVE  v \in avifs /\ ImageOf[v] \in originals
    BY DEF ReadyHasObject, Intact
  <2>1. ImageOf[v] \in imageRows
    BY DEF ObjectsInv, FilesInv, ForeignKey, HasVariant, HasImage
  <2> QED
    BY <2>1 DEF ObjectsInv, Written
<1> QED
  BY <1>1, ObjectsInvariant, PTL
=============================================================================
