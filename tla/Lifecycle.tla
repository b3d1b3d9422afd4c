----------------------------- MODULE Lifecycle -----------------------------
(***************************************************************************)
(* The life of an image from its upload or copy to its deletion: POST and  *)
(* DELETE requests over one database and one bucket.  What happens between,*)
(* the generation of variants, is ImageOptimizer's; here the ready variants*)
(* are those a behaviour begins with.                                      *)
(***************************************************************************)
EXTENDS Ingest, Delete

CONSTANTS Uploaded,         \* the images stored when the behaviour begins
          Cached            \* and those of their variants that are ready

ASSUME LifecycleAssumption ==
    /\ Uploaded \subseteq Images
    /\ Cached \subseteq {v \in Variants : ImageOf[v] \in Uploaded}
    /\ \A u \in Ingests : NewId[u] \notin Uploaded      \* ids are unique

vars == <<faults, storeVars, blobVars, ingestVars, deleteVars>>

TypeOK == /\ faults \in 0..MaxFaults
          /\ StoreTypeOK /\ BlobsTypeOK /\ IngestTypeOK /\ DeleteTypeOK

Init == /\ InitFaults
        /\ imageRows = Uploaded
        /\ status = [v \in Variants |-> IF v \in Cached THEN "ready" ELSE "absent"]
        /\ attempts = [v \in Variants |-> 0]
        /\ originals = Uploaded
        /\ avifs = Cached
        /\ IngestInit
        /\ DeleteInit

IngestNext(u) == /\ IngestStep(u) \/ IngestFails(u)
                 /\ UNCHANGED deleteVars

DeleteNext(d) == /\ DeleteStep(d) \/ DeleteFails(d)
                 /\ UNCHANGED ingestVars

Next == \/ \E u \in Ingests : IngestNext(u)
        \/ \E d \in Deleters : DeleteNext(d)

Spec == Init /\ [][Next]_vars
-----------------------------------------------------------------------------
(* An image that was answered 201 is there, row and original, until one of  *)
(* its own DELETEs begins on its files: neither the deletion of the image   *)
(* it was copied from nor the undoing of another upload takes it away.      *)
CreatedIsStored == \A u \in Ingests :
    ucode[u] = 201 /\ ~Doomed(NewId[u]) => HasImage(NewId[u]) /\ NewId[u] \in originals

(* No row without its original: the original is stored before the row and   *)
(* taken back only when the row was not inserted.  A lost reply of INSERT   *)
(* INTO images breaks this (handleUpload takes the original of a committed  *)
(* row back), hence the condition.                                          *)
RowHasOriginal == faults = 0 =>
    \A i \in imageRows : i \in originals \/ Doomed(i)

(* An original that no row names is that of an upload or copy that was not  *)
(* answered 201; no DELETE leaves one behind, since it fails before the row *)
(* when the original could not be deleted.                                  *)
UnnamedIsUnfinished == \A i \in originals :
    HasImage(i) \/ \E u \in Ingests : NewId[u] = i /\ ucode[u] # 201
=============================================================================
