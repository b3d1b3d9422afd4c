----------------------------- MODULE VariantGen -----------------------------
(***************************************************************************)
(* internal/variantgen: TransformAndPersist, run by a GET or HEAD request  *)
(* (syncGenerate) and by a worker (process), without any lock between them.*)
(* gen[p] is the next call of p: load the image row, fetch the transform   *)
(* from imgproxy, write the object, mark the row ready; then "ok" or "err".*)
(***************************************************************************)
EXTENDS Blobs, Broker

CONSTANT Requests           \* GET and HEAD requests

Procs == Requests \cup Workers

VARIABLES job,              \* the variant a process works for
          gen               \* where it is in TransformAndPersist

genVars == <<job, gen>>

GenSteps == {"image", "fetch", "write", "mark"}

GenTypeOK == /\ job \in [Procs -> Variants \cup {None}]
             /\ gen \in [Procs -> GenSteps \cup {"off", "ok", "err"}]

GenGoto(p, step) == /\ gen' = [gen EXCEPT ![p] = step]
                    /\ UNCHANGED job

GenStart(p) == GenGoto(p, "image")
GenStop(p) == GenGoto(p, "off")
-----------------------------------------------------------------------------
GenImage(p) == /\ gen[p] = "image"
               /\ GenGoto(p, IF HasImage(ImageOf[job[p]]) THEN "fetch" ELSE "err")
               /\ UNCHANGED <<storeVars, blobVars>>

(* imgproxy reads the original from the bucket. *)
GenFetch(p) == /\ gen[p] = "fetch"
               /\ GenGoto(p, IF ImageOf[job[p]] \in originals THEN "write" ELSE "err")
               /\ UNCHANGED <<storeVars, blobVars>>

GenWrite(p) == /\ gen[p] = "write"
               /\ WriteVariant(job[p])
               /\ GenGoto(p, "mark")
               /\ UNCHANGED storeVars

GenMark(p) == /\ gen[p] = "mark"
              /\ \/ MarkReady(job[p]) /\ GenGoto(p, "ok")
                 \/ ~HasVariant(job[p]) /\ GenGoto(p, "err") /\ UNCHANGED storeVars
              /\ UNCHANGED blobVars

GenStep(p) == /\ GenImage(p) \/ GenFetch(p) \/ GenWrite(p) \/ GenMark(p)
              /\ UNCHANGED <<brokerVars, faults>>

(* Any of the four calls may fail or run into the deadline, and the two    *)
(* that write may have taken effect all the same.                          *)
GenFails(p) == /\ \/ gen[p] \in GenSteps /\ UNCHANGED <<storeVars, blobVars>>
                  \/ gen[p] = "write" /\ WriteVariant(job[p]) /\ UNCHANGED storeVars
                  \/ gen[p] = "mark" /\ MarkReady(job[p]) /\ UNCHANGED blobVars
               /\ GenGoto(p, "err")
               /\ UNCHANGED <<brokerVars, faults>>
=============================================================================
