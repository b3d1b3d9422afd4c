-------------------------- MODULE LifecycleProofs --------------------------
(***************************************************************************)
(* What holds of images and originals for any number of uploads, copies    *)
(* and DELETEs: 201 means both row and original, and an original without a *)
(* row is that of an upload or copy which was not answered 201.            *)
(***************************************************************************)
EXTENDS Lifecycle, TLAPS

(* What an upload or copy knows of the image it makes: nobody has seen its   *)
(* id before the row is inserted, and the original is stored by then.        *)
IngestOK(u) ==
    /\ ucode[u] # 0 => upc[u] = "done"
    /\ upc[u] \notin {"undo", "done"} => ~HasImage(NewId[u]) /\ ~Doomed(NewId[u])
    /\ upc[u] = "insert" => NewId[u] \in originals
    /\ upc[u] = "undo" /\ faults = 0 => ~HasImage(NewId[u])

Unfinished(i) == \E u \in Ingests : NewId[u] = i /\ ucode[u] # 201

(* A DELETE that has removed the original, or is past that call, finds it    *)
(* again only if its upload was not answered 201.                            *)
DeleteOK(d) ==
    \/ dpc[d] \in {"list", "objects"} /\ ~fileErr[d]
    \/ dpc[d] = "row"
    => dimg[d] \notin originals \/ Unfinished(dimg[d])

LifeInv == /\ TypeOK
           /\ \A u \in Ingests : IngestOK(u)
           /\ \A d \in Deleters : DeleteOK(d)
           /\ CreatedIsStored
           /\ RowHasOriginal
           /\ UnnamedIsUnfinished

LEMMA LifeInitially == Init => LifeInv
<1> SUFFICES ASSUME Init PROVE LifeInv
  OBVIOUS
<1> USE MaxFaultsAssumption, StoreAssumption, IngestAssumption, LifecycleAssumption
        DEF Init, InitFaults, IngestInit, DeleteInit
<1>1. TypeOK
  <2>1. StoreTypeOK
    BY DEF StoreTypeOK, Statuses
  <2>2. BlobsTypeOK
    BY DEF BlobsTypeOK
  <2>3. IngestTypeOK
    BY DEF IngestTypeOK, IngestSteps
  <2>4. DeleteTypeOK
    BY DEF DeleteTypeOK, DeleteSteps
  <2> QED
    BY <2>1, <2>2, <2>3, <2>4 DEF TypeOK
<1>2. \A u \in Ingests : IngestOK(u)
  BY DEF IngestOK, HasImage, Doomed
<1>3. \A d \in Deleters : DeleteOK(d)
  BY DEF DeleteOK
<1> QED
  BY <1>1, <1>2, <1>3 DEF LifeInv, CreatedIsStored, RowHasOriginal, UnnamedIsUnfinished, HasImage
-----------------------------------------------------------------------------
(* The types after a step of an upload or copy, and what else stays.         *)
LEMMA IngestTypes ==
    ASSUME TypeOK, NEW u \in Ingests, IngestNext(u)
    PROVE  /\ TypeOK'
           /\ UNCHANGED <<status, attempts, avifs, source>>
           /\ upc' = [upc EXCEPT ![u] = upc'[u]]
           /\ ucode' = [ucode EXCEPT ![u] = ucode'[u]]
<1> USE MaxFaultsAssumption, IngestAssumption
<1> USE DEF IngestNext, IngestStep, IngestFails, BeginIngest, GetSource, ReadOriginal,
        SaveNewOriginal, InsertNewImage, Undo, ReadFails, SaveFails, InsertFails, IngestLost,
        UGoto, Reply, SaveOriginal, DeleteOriginal, InsertImage, Fault, storeVars, blobVars
<1>1. NewId[u] \in Images
  OBVIOUS
<1>2. /\ UNCHANGED <<status, attempts, avifs, source>>
      /\ imageRows' \in {imageRows, imageRows \cup {NewId[u]}}
      /\ originals' \in {originals, originals \cup {NewId[u]}, originals \ {NewId[u]}}
  OBVIOUS
<1>3. \E step \in IngestSteps : upc' = [upc EXCEPT ![u] = step]
  BY DEF IngestSteps
<1>4. \E c \in {ucode[u], 201, 400, 404, 413, 500} : ucode' = [ucode EXCEPT ![u] = c]
  BY DEF TypeOK, IngestTypeOK
<1>5. faults' \in 0..MaxFaults
  BY DEF TypeOK
<1>6. IngestTypeOK' /\ upc' = [upc EXCEPT ![u] = upc'[u]] /\ ucode' = [ucode EXCEPT ![u] = ucode'[u]]
  BY <1>2, <1>3, <1>4 DEF TypeOK, IngestTypeOK
<1>7. StoreTypeOK' /\ BlobsTypeOK'
  BY <1>1, <1>2 DEF TypeOK, StoreTypeOK, BlobsTypeOK
<1>8. DeleteTypeOK'
  BY DEF TypeOK, DeleteTypeOK, deleteVars
<1> QED
  BY <1>2, <1>5, <1>6, <1>7, <1>8 DEF TypeOK

(* What a step of an upload or copy does to its image.                       *)
LEMMA IngestEffect ==
    ASSUME LifeInv, NEW u \in Ingests, IngestNext(u)
    PROVE  /\ upc[u] # "done" /\ ucode[u] = 0
           /\ \/ UNCHANGED <<imageRows, originals, faults>> /\ ucode'[u] # 201
                 /\ upc'[u] # "insert" /\ (upc'[u] = "undo" => upc[u] = "insert")
              \/ UNCHANGED <<imageRows, originals>> /\ ucode'[u] = 0 /\ upc'[u] = "done"
              \/ upc[u] = "save" /\ originals' = originals \cup {NewId[u]}
                 /\ UNCHANGED imageRows /\ ucode'[u] # 201 /\ upc'[u] \in {"insert", "done"}
              \/ upc[u] = "insert" /\ imageRows' = imageRows \cup {NewId[u]}
                 /\ UNCHANGED originals
                 /\ \/ ucode'[u] = 201 /\ upc'[u] = "done"
                    \/ ucode'[u] = 0 /\ upc'[u] = "undo" /\ faults' # 0
              \/ upc[u] = "undo" /\ originals' = originals \ {NewId[u]}
                 /\ UNCHANGED imageRows /\ ucode'[u] # 201 /\ upc'[u] = "done"
           /\ upc[u] = "undo" \/ ucode'[u] # 0 => upc'[u] = "done"
           /\ faults' = 0 => faults = 0
<1>1. upc[u] # "done"
  BY DEF IngestNext, IngestStep, IngestFails, BeginIngest, GetSource, ReadOriginal,
         SaveNewOriginal, InsertNewImage, Undo, ReadFails, SaveFails, InsertFails, IngestLost
<1>2. ucode[u] = 0 /\ upc \in [Ingests -> IngestSteps] /\ faults \in Nat
      /\ ucode \in [Ingests -> {0, 201, 400, 404, 413, 500}]
  BY <1>1, MaxFaultsAssumption DEF LifeInv, IngestOK, TypeOK, IngestTypeOK
<1> USE <1>1, <1>2 DEF UGoto, Reply, SaveOriginal, DeleteOriginal, InsertImage, Fault,
        storeVars, blobVars
<1>3. CASE BeginIngest(u)
  BY <1>3 DEF BeginIngest
<1>4. CASE GetSource(u) \/ ReadOriginal(u) \/ ReadFails(u)
  BY <1>4 DEF GetSource, ReadOriginal, ReadFails
<1>5. CASE SaveNewOriginal(u) \/ SaveFails(u)
  BY <1>5 DEF SaveNewOriginal, SaveFails
<1>6. CASE InsertNewImage(u) \/ InsertFails(u)
  BY <1>6 DEF InsertNewImage, InsertFails
<1>7. CASE Undo(u)
  BY <1>7 DEF Undo
<1>8. CASE IngestLost(u)
  BY <1>8 DEF IngestLost
<1> QED
  BY <1>3, <1>4, <1>5, <1>6, <1>7, <1>8 DEF IngestNext, IngestStep, IngestFails

(* Every step of an upload or copy keeps the invariant: its id is its own.   *)
LEMMA IngestKeeps ==
    ASSUME LifeInv, NEW u \in Ingests, IngestNext(u)
    PROVE  LifeInv'
<1>1. TypeOK /\ TypeOK'
  BY IngestTypes DEF LifeInv
<1>2. UNCHANGED deleteVars /\ \A i : Doomed(i)' <=> Doomed(i)
  BY DEF IngestNext, deleteVars, Doomed
<1>3. ASSUME NEW q \in Ingests, q # u
      PROVE  /\ NewId[q] # NewId[u] /\ upc'[q] = upc[q] /\ ucode'[q] = ucode[q]
             /\ HasImage(NewId[q])' <=> HasImage(NewId[q])
             /\ NewId[q] \in originals' <=> NewId[q] \in originals
  <2>1. NewId[q] # NewId[u]
    BY <1>3, IngestAssumption
  <2>2. upc'[q] = upc[q] /\ ucode'[q] = ucode[q]
    BY <1>1, <1>3, IngestTypes DEF TypeOK, IngestTypeOK
  <2> QED
    BY <2>1, <2>2, IngestEffect DEF HasImage
<1>4. ASSUME NEW q \in Ingests PROVE IngestOK(q)'
  <2>1. CASE q = u
    <3>1. ucode'[u] # 0 => upc'[u] = "done"
      BY IngestEffect
    <3>2. upc'[u] \notin {"undo", "done"} =>
              NewId[u] \notin imageRows' /\ ~Doomed(NewId[u])
      BY IngestEffect DEF LifeInv, IngestOK, HasImage
    <3>3. upc'[u] = "insert" => NewId[u] \in originals'
      BY IngestEffect
    <3>4. upc'[u] = "undo" /\ faults' = 0 => NewId[u] \notin imageRows'
      BY IngestEffect DEF LifeInv, IngestOK, HasImage
    <3> QED
      BY <1>2, <2>1, <3>1, <3>2, <3>3, <3>4 DEF IngestOK, HasImage
  <2>2. CASE q # u
    BY <1>2, <1>3, <2>2, IngestEffect DEF LifeInv, IngestOK
  <2> QED
    BY <2>1, <2>2
<1>5. \A i : Unfinished(i) /\ i # NewId[u] => Unfinished(i)'
  BY <1>3 DEF Unfinished
<1>6. \/ ucode'[u] # 201
      \/ upc[u] = "insert" /\ imageRows' = imageRows \cup {NewId[u]} /\ UNCHANGED originals
  BY IngestEffect
<1>7. ucode'[u] # 201 => Unfinished(NewId[u])'
  BY DEF Unfinished
<1>8. ASSUME NEW d \in Deleters PROVE DeleteOK(d)'
  <2>1. dimg'[d] = dimg[d] /\ dpc'[d] = dpc[d] /\ fileErr'[d] = fileErr[d]
    BY <1>2 DEF deleteVars
  <2>2. CASE dimg[d] = NewId[u]
    <3>1. upc[u] = "insert" => ~Doomed(dimg[d])
      BY <2>2 DEF LifeInv, IngestOK
    <3>2. dpc[d] \in {"list", "objects", "row"} => Doomed(dimg[d])
      BY DEF Doomed
    <3> QED
      BY <1>6, <1>7, <2>1, <2>2, <3>1, <3>2 DEF DeleteOK, Unfinished
  <2>3. CASE dimg[d] # NewId[u]
    <3>1. dimg[d] \in originals' <=> dimg[d] \in originals
      BY <2>3, IngestEffect
    <3>2. Unfinished(dimg[d]) => Unfinished(dimg[d])'
      BY <1>5, <2>1, <2>3 DEF Unfinished
    <3> QED
      BY <2>1, <3>1, <3>2 DEF LifeInv, DeleteOK, Unfinished
  <2> QED
    BY <2>2, <2>3
<1>9. CreatedIsStored'
  <2> SUFFICES ASSUME NEW q \in Ingests, ucode'[q] = 201, ~Doomed(NewId[q])'
               PROVE  HasImage(NewId[q])' /\ NewId[q] \in originals'
    BY DEF CreatedIsStored
  <2>1. CASE q = u
    BY <1>6, <2>1 DEF LifeInv, IngestOK, HasImage
  <2>2. CASE q # u
    BY <1>2, <1>3, <2>2 DEF LifeInv, CreatedIsStored
  <2> QED
    BY <2>1, <2>2
<1>10. RowHasOriginal'
  <2> SUFFICES ASSUME faults' = 0, NEW i \in imageRows', ~Doomed(i) PROVE i \in originals'
    BY <1>2 DEF RowHasOriginal
  <2>1. faults = 0
    BY IngestEffect
  <2>2. CASE i = NewId[u]
    <3>1. upc[u] \in {"save", "undo"} => i \notin imageRows
      BY <2>1, <2>2 DEF LifeInv, IngestOK, HasImage
    <3> QED
      BY <2>1, <2>2, <3>1, IngestEffect DEF LifeInv, RowHasOriginal, IngestOK
  <2>3. CASE i # NewId[u]
    BY <2>1, <2>3, IngestEffect DEF LifeInv, RowHasOriginal
  <2> QED
    BY <2>2, <2>3
<1>11. UnnamedIsUnfinished'
  <2> SUFFICES ASSUME NEW i \in originals' PROVE HasImage(i)' \/ Unfinished(i)'
    BY DEF UnnamedIsUnfinished, Unfinished
  <2>1. CASE i = NewId[u]
    BY <1>6, <1>7, <2>1 DEF HasImage
  <2>2. CASE i # NewId[u]
    <3>1. i \in originals /\ (HasImage(i) => HasImage(i)')
      BY <2>2, IngestEffect DEF HasImage
    <3>2. HasImage(i) \/ Unfinished(i)
      BY <3>1 DEF LifeInv, UnnamedIsUnfinished, Unfinished
    <3> QED
      BY <1>5, <2>2, <3>1, <3>2
  <2> QED
    BY <2>1, <2>2
<1> QED
  BY <1>1, <1>4, <1>8, <1>9, <1>10, <1>11 DEF LifeInv
-----------------------------------------------------------------------------
Begun == {"original", "list", "objects", "row", "done"}

(* The types after a step of a DELETE, and what else stays.                  *)
LEMMA DeleteTypes ==
    ASSUME TypeOK, NEW d \in Deleters, DeleteNext(d)
    PROVE  /\ TypeOK'
           /\ UNCHANGED <<ingestVars, dimg>>
           /\ dpc' = [dpc EXCEPT ![d] = dpc'[d]]
           /\ fileErr' = [fileErr EXCEPT ![d] = fileErr'[d]]
<1> USE MaxFaultsAssumption, BlobsAssumption
<1> USE DEF TypeOK, DeleteNext, DeleteStep, DeleteFails, BeginDelete, DeleteGetImage,
        DeleteOriginalFile, ListPage, DeletePage, DeleteRow, DeleteCallFails, OriginalFails,
        ObjectsKept, DeleteLost
<1>1. UNCHANGED <<ingestVars, dimg>>
  BY DEF DGoto, Finish, AfterFiles
<1>2. IngestTypeOK'
  BY <1>1 DEF ingestVars, IngestTypeOK
<1>3. /\ \E step \in DeleteSteps : dpc' = [dpc EXCEPT ![d] = step]
      /\ \E c \in {dcode[d], 204, 400, 404, 500} : dcode' = [dcode EXCEPT ![d] = c]
  BY DEF DGoto, Finish, AfterFiles, DeleteSteps, DeleteTypeOK
<1>4. dpc' \in [Deleters -> DeleteSteps] /\ dpc' = [dpc EXCEPT ![d] = dpc'[d]]
      /\ dcode' \in [Deleters -> {0, 204, 400, 404, 500}]
  BY <1>3 DEF DeleteTypeOK
<1>5. UNCHANGED fileErr \/ fileErr' = [fileErr EXCEPT ![d] = TRUE]
  OBVIOUS
<1>6. fileErr' \in [Deleters -> BOOLEAN] /\ fileErr' = [fileErr EXCEPT ![d] = fileErr'[d]]
  <2>1. fileErr \in [Deleters -> BOOLEAN]
    BY DEF DeleteTypeOK
  <2>2. CASE UNCHANGED fileErr
    BY <2>1, <2>2
  <2>3. CASE fileErr' = [fileErr EXCEPT ![d] = TRUE]
    BY <2>1, <2>3
  <2> QED
    BY <1>5, <2>2, <2>3
<1>7. /\ token' \in [Deleters -> Nat] /\ page' \in [Deleters -> SUBSET Variants]
      /\ more' \in [Deleters -> BOOLEAN]
  <2>1. CASE UNCHANGED listing
    BY <2>1 DEF listing, DeleteTypeOK
  <2>2. CASE ListPage(d) /\ ~UNCHANGED listing
    <3>1. PICK last \in Page(dimg[d], token[d]) :
              /\ token' = [token EXCEPT ![d] = KeyRank[last]]
              /\ page' = [page EXCEPT ![d] = Page(dimg[d], token[d])]
              /\ more' = [more EXCEPT ![d] = Page(dimg[d], token[d]) # Listed(dimg[d], token[d])]
      BY <2>2
    <3>2. Page(dimg[d], token[d]) \subseteq Variants
      BY DEF Page, Listed, BlobsTypeOK
    <3>3. KeyRank[last] \in Nat
      BY <3>2
    <3>4. (Page(dimg[d], token[d]) # Listed(dimg[d], token[d])) \in BOOLEAN
      OBVIOUS
    <3>5. token' \in [Deleters -> Nat] /\ page' \in [Deleters -> SUBSET Variants]
      BY <3>1, <3>2, <3>3 DEF DeleteTypeOK
    <3>6. more' \in [Deleters -> BOOLEAN]
      BY <3>1, <3>4 DEF DeleteTypeOK
    <3> QED
      BY <3>5, <3>6
  <2> QED
    BY <2>1, <2>2 DEF listing
<1>8. DeleteTypeOK'
  BY <1>1, <1>4, <1>6, <1>7 DEF DeleteTypeOK
<1>9. StoreTypeOK'
  <2>1. UNCHANGED storeVars \/ DeleteImage(dimg[d])
    OBVIOUS
  <2> QED
    BY <2>1 DEF DeleteImage, StoreTypeOK, storeVars, Statuses
<1>10. BlobsTypeOK'
  BY DEF BlobsTypeOK, DeleteOriginal, DeleteObjects, blobVars
<1>11. faults' \in 0..MaxFaults
  BY DEF Fault
<1> QED
  BY <1>1, <1>2, <1>4, <1>6, <1>8, <1>9, <1>10, <1>11

(* What a step of a DELETE does to its image: first the original goes, later *)
(* the row; and only an image that is there is begun on.                     *)
LEMMA DeleteEffect ==
    ASSUME TypeOK, NEW d \in Deleters, DeleteNext(d)
    PROVE  /\ \/ UNCHANGED <<imageRows, originals>>
              \/ dpc[d] = "original" /\ originals' = originals \ {dimg[d]} /\ UNCHANGED imageRows
              \/ dpc[d] = "row" /\ imageRows' = imageRows \ {dimg[d]} /\ UNCHANGED originals
           /\ dpc'[d] \in Begun => dpc[d] \in Begun \/ HasImage(dimg[d])
           /\ dpc[d] \in Begun => dpc'[d] \in Begun
           /\ (dpc'[d] \in {"list", "objects"} /\ ~fileErr'[d]) \/ dpc'[d] = "row" =>
                  \/ dimg[d] \notin originals'
                  \/ dpc[d] \in {"list", "objects"} /\ ~fileErr[d] /\ UNCHANGED originals
           /\ faults' = 0 => faults = 0
<1> USE DEF TypeOK, DeleteTypeOK, DGoto, Finish, AfterFiles, Begun
<1>1. faults' = 0 => faults = 0
  BY MaxFaultsAssumption
     DEF DeleteNext, DeleteStep, DeleteFails, BeginDelete, DeleteGetImage, DeleteOriginalFile,
         ListPage, DeletePage, DeleteRow, DeleteCallFails, OriginalFails, ObjectsKept,
         DeleteLost, Fault
<1>2. CASE BeginDelete(d) \/ DeleteGetImage(d)
  BY <1>1, <1>2 DEF BeginDelete, DeleteGetImage, storeVars, blobVars
<1>3. CASE DeleteOriginalFile(d) \/ OriginalFails(d)
  BY <1>1, <1>3 DEF DeleteOriginalFile, OriginalFails, DeleteOriginal, storeVars, blobVars
<1>4. CASE ListPage(d) \/ DeletePage(d) \/ ObjectsKept(d)
  BY <1>1, <1>4 DEF ListPage, DeletePage, ObjectsKept, DeleteObjects, storeVars, blobVars
<1>5. CASE DeleteRow(d)
  BY <1>1, <1>5 DEF DeleteRow, DeleteImage, storeVars, blobVars
<1>6. CASE DeleteCallFails(d)
  <2>1. dpc'[d] \notin {"list", "objects", "row"} /\ (dpc'[d] \in Begun <=> dpc[d] \in Begun)
    BY <1>6 DEF DeleteCallFails
  <2>2. \/ UNCHANGED <<imageRows, originals>>
        \/ dpc[d] = "row" /\ imageRows' = imageRows \ {dimg[d]} /\ UNCHANGED originals
    BY <1>6 DEF DeleteCallFails, DeleteImage, DeleteObjects, storeVars, blobVars
  <2> QED
    BY <1>1, <2>1, <2>2
<1>7. CASE DeleteLost(d)
  <2>1. dpc'[d] = (IF dpc[d] = "getImage" THEN "refused" ELSE "done")
    BY <1>7 DEF DeleteLost
  <2>2. UNCHANGED <<imageRows, originals>> /\ dpc[d] \notin {"start", "refused"}
    BY <1>7 DEF DeleteLost, storeVars, blobVars
  <2>3. dpc'[d] \notin {"list", "objects", "row"} /\ (dpc'[d] \in Begun <=> dpc[d] \in Begun)
    <3>1. dpc[d] \in {"getImage", "original", "list", "objects", "row", "done"}
      BY <2>2 DEF DeleteSteps
    <3> QED
      BY <2>1, <3>1
  <2> QED
    BY <1>1, <2>2, <2>3
<1> QED
  BY <1>2, <1>3, <1>4, <1>5, <1>6, <1>7 DEF DeleteNext, DeleteStep, DeleteFails

(* Every step of a DELETE keeps the invariant: the images it has begun on    *)
(* are those whose row it has seen.                                          *)
LEMMA DeleteKeeps ==
    ASSUME LifeInv, NEW d \in Deleters, DeleteNext(d)
    PROVE  LifeInv'
<1>1. TypeOK /\ TypeOK' /\ UNCHANGED <<upc, ucode, source, dimg>>
  BY DeleteTypes DEF LifeInv, ingestVars
<1>2. ASSUME NEW e \in Deleters, e # d
      PROVE  dpc'[e] = dpc[e] /\ fileErr'[e] = fileErr[e]
  BY <1>1, <1>2, DeleteTypes DEF TypeOK, DeleteTypeOK
<1>3. ASSUME NEW i \in Images
      PROVE  /\ Doomed(i) => Doomed(i)'
             /\ Doomed(i)' => Doomed(i) \/ HasImage(i)
  BY <1>1, <1>2, DeleteEffect DEF Doomed, Begun
<1>4. originals' \subseteq originals /\ imageRows' \subseteq imageRows
  BY <1>1, DeleteEffect
<1>5. ASSUME NEW i \in Images, ~Doomed(i)
      PROVE  (i \in originals' <=> i \in originals) /\ (i \in imageRows' <=> i \in imageRows)
  <2>1. dpc[d] \in {"original", "row"} => dimg[d] # i
    BY <1>5 DEF Doomed
  <2> QED
    BY <1>1, <2>1, DeleteEffect
<1>6. \A i : Unfinished(i) <=> Unfinished(i)'
  BY <1>1 DEF Unfinished
<1>7. ASSUME NEW u \in Ingests PROVE IngestOK(u)'
  <2>1. NewId[u] \in Images
    BY IngestAssumption
  <2>2. upc[u] \notin {"undo", "done"} => ~HasImage(NewId[u]) /\ ~Doomed(NewId[u])
    BY DEF LifeInv, IngestOK
  <2>3. upc[u] \notin {"undo", "done"} => NewId[u] \notin imageRows' /\ ~Doomed(NewId[u])'
    BY <1>3, <1>4, <2>1, <2>2 DEF HasImage
  <2>4. upc[u] = "insert" => NewId[u] \in originals'
    BY <1>5, <2>1, <2>2 DEF LifeInv, IngestOK
  <2>5. upc[u] = "undo" /\ faults' = 0 => NewId[u] \notin imageRows'
    BY <1>1, <1>4, DeleteEffect DEF LifeInv, IngestOK, HasImage
  <2> QED
    BY <1>1, <2>3, <2>4, <2>5 DEF LifeInv, IngestOK, HasImage
<1>8. ASSUME NEW e \in Deleters PROVE DeleteOK(e)'
  <2>1. CASE e = d
    BY <1>1, <2>1, DeleteEffect DEF LifeInv, DeleteOK, Unfinished
  <2>2. CASE e # d
    BY <1>1, <1>2, <1>4, <2>2 DEF LifeInv, DeleteOK, Unfinished
  <2> QED
    BY <2>1, <2>2
<1>9. CreatedIsStored'
  <2> SUFFICES ASSUME NEW u \in Ingests, ucode[u] = 201, ~Doomed(NewId[u])'
               PROVE  NewId[u] \in imageRows' /\ NewId[u] \in originals'
    BY <1>1 DEF CreatedIsStored, HasImage
  <2>1. NewId[u] \in Images
    BY IngestAssumption
  <2> QED
    BY <1>3, <1>5, <2>1 DEF LifeInv, CreatedIsStored, HasImage
<1>10. RowHasOriginal'
  <2> SUFFICES ASSUME faults' = 0, NEW i \in imageRows', ~Doomed(i)' PROVE i \in originals'
    BY DEF RowHasOriginal
  <2>1. i \in imageRows /\ i \in Images
    BY <1>1, <1>4 DEF TypeOK, StoreTypeOK
  <2> QED
    BY <1>1, <1>3, <1>5, <2>1, DeleteEffect DEF LifeInv, RowHasOriginal
<1>11. UnnamedIsUnfinished'
  <2> SUFFICES ASSUME NEW i \in originals', i \notin imageRows' PROVE Unfinished(i)'
    BY DEF UnnamedIsUnfinished, Unfinished, HasImage
  <2>1. i \in originals
    BY <1>4
  <2>2. CASE i \in imageRows
    <3>1. dpc[d] = "row" /\ i = dimg[d]
      BY <1>1, <2>2, DeleteEffect
    <3> QED
      BY <1>6, <2>1, <3>1 DEF LifeInv, DeleteOK
  <2>3. CASE i \notin imageRows
    BY <1>6, <2>1, <2>3 DEF LifeInv, UnnamedIsUnfinished, HasImage, Unfinished
  <2> QED
    BY <2>2, <2>3
<1> QED
  BY <1>1, <1>7, <1>8, <1>9, <1>10, <1>11 DEF LifeInv
-----------------------------------------------------------------------------
(* LifeInvariant: what the handlers of POST and DELETE know of an image at   *)
(* each of their calls is true in every reachable state.                     *)
THEOREM LifeInvariant == Spec => []LifeInv
<1>1. LifeInv /\ [Next]_vars => LifeInv'
  <2> SUFFICES ASSUME LifeInv, [Next]_vars PROVE LifeInv'
    OBVIOUS
  <2>1. CASE Next
    BY <2>1, IngestKeeps, DeleteKeeps DEF Next
  <2>2. CASE UNCHANGED vars
    BY <2>2 DEF vars, storeVars, blobVars, ingestVars, deleteVars, LifeInv, TypeOK, StoreTypeOK,
           BlobsTypeOK, IngestTypeOK, DeleteTypeOK, IngestOK, DeleteOK, CreatedIsStored,
           RowHasOriginal, UnnamedIsUnfinished, Unfinished, HasImage, Doomed
  <2> QED
    BY <2>1, <2>2
<1> QED
  BY <1>1, LifeInitially, PTL DEF Spec

(* TypeOK: every variable of POST and DELETE keeps its type.                 *)
THEOREM LifeTypesHold == Spec => []TypeOK
<1>1. LifeInv => TypeOK
  BY DEF LifeInv
<1> QED
  BY <1>1, LifeInvariant, PTL

(* CreatedIsStored: an image that was answered 201 keeps row and original    *)
(* until a DELETE of its own, whatever other uploads take back.              *)
THEOREM CreatedIsStoredHolds == Spec => []CreatedIsStored
<1>1. LifeInv => CreatedIsStored
  BY DEF LifeInv
<1> QED
  BY <1>1, LifeInvariant, PTL

(* RowHasOriginal: without faults no row is ever without its original, in    *)
(* whichever order POSTs and DELETEs take their steps.                       *)
THEOREM RowHasOriginalHolds == Spec => []RowHasOriginal
<1>1. LifeInv => RowHasOriginal
  BY DEF LifeInv
<1> QED
  BY <1>1, LifeInvariant, PTL

(* UnnamedIsUnfinished: no DELETE leaves an original without a row, even if  *)
(* its calls fail, nor does an upload that was answered 201.                 *)
THEOREM UnnamedIsUnfinishedHolds == Spec => []UnnamedIsUnfinished
<1>1. LifeInv => UnnamedIsUnfinished
  BY DEF LifeInv
<1> QED
  BY <1>1, LifeInvariant, PTL
=============================================================================
