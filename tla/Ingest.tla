------------------------------- MODULE Ingest -------------------------------
(***************************************************************************)
(* internal/http handleUpload and handleCopy: POST /images and POST        *)
(* /images/{id}/copy.  Both store an original under a new image id, then   *)
(* insert the row that names it, and try to undo the first when the second *)
(* fails; a copy reads the original of its source before.  upc[u] is the   *)
(* next call of the request; a request is served once.                     *)
(***************************************************************************)
EXTENDS Blobs

CONSTANTS Uploads, Copies,  \* POST /images and POST /images/{id}/copy requests
          NewId             \* the id that uuid.New gives to each, never one in use

Ingests == Uploads \cup Copies

ASSUME IngestAssumption ==
    /\ Uploads \cap Copies = {}
    /\ NewId \in [Ingests -> Images]
    /\ \A u1, u2 \in Ingests : NewId[u1] = NewId[u2] => u1 = u2

VARIABLES upc,              \* the next call of a request
          ucode,            \* its HTTP status, 0 before the answer
          source            \* the image that a copy copies

ingestVars == <<upc, ucode, source>>

IngestSteps == {"start", "getSource", "readOriginal", "save", "insert", "undo", "done"}

IngestTypeOK == /\ upc \in [Ingests -> IngestSteps]
                /\ ucode \in [Ingests -> {0, 201, 400, 404, 413, 500}]
                /\ source \in [Copies -> Images]

IngestInit == /\ upc = [u \in Ingests |-> "start"]
              /\ ucode = [u \in Ingests |-> 0]
              /\ source \in [Copies -> Images \ {NewId[u] : u \in Ingests}]

UGoto(u, step) == /\ upc' = [upc EXCEPT ![u] = step]
                  /\ UNCHANGED <<ucode, source>>

Reply(u, code) == /\ upc' = [upc EXCEPT ![u] = "done"]
                  /\ ucode' = [ucode EXCEPT ![u] = code]
                  /\ UNCHANGED source
-----------------------------------------------------------------------------
(* The form, the folder, and an upload's size and type are accepted or not. *)
BeginIngest(u) == /\ upc[u] = "start"
                  /\ \/ u \in Copies /\ UGoto(u, "getSource")
                     \/ u \in Uploads /\ UGoto(u, "save")
                     \/ Reply(u, 400)
                     \/ u \in Uploads /\ Reply(u, 413)
                  /\ UNCHANGED <<storeVars, blobVars, faults>>

GetSource(u) == /\ upc[u] = "getSource"
                /\ \/ HasImage(source[u]) /\ UGoto(u, "readOriginal")
                   \/ ~HasImage(source[u]) /\ Reply(u, 404)
                /\ UNCHANGED <<storeVars, blobVars, faults>>

(* The source may have been deleted since, or exceed the limit by now.      *)
ReadOriginal(u) == /\ upc[u] = "readOriginal"
                   /\ \/ source[u] \in originals /\ (UGoto(u, "save") \/ Reply(u, 413))
                      \/ source[u] \notin originals /\ Reply(u, 500)
                   /\ UNCHANGED <<storeVars, blobVars, faults>>

SaveNewOriginal(u) == /\ upc[u] = "save"
                      /\ SaveOriginal(NewId[u])
                      /\ UGoto(u, "insert")
                      /\ UNCHANGED <<storeVars, faults>>

InsertNewImage(u) == /\ upc[u] = "insert"
                     /\ InsertImage(NewId[u])
                     /\ Reply(u, 201)
                     /\ UNCHANGED <<blobVars, faults>>

(* Mutant of Undo: a copy takes back the original it was made from.         *)
UndoSource(u) ==
    /\ upc[u] = "undo"
    /\ DeleteOriginal(IF u \in Copies THEN source[u] ELSE NewId[u]) \/ UNCHANGED blobVars
    /\ Reply(u, 500)
    /\ UNCHANGED <<storeVars, faults>>

(* DeleteImageFiles, whose error is dropped: it does nothing at all when the *)
(* request was cancelled, and there is no variant of the new id to delete.   *)
Undo(u) == /\ upc[u] = "undo"
           /\ DeleteOriginal(NewId[u]) \/ UNCHANGED blobVars
           /\ Reply(u, 500)
           /\ UNCHANGED <<storeVars, faults>>

IngestStep(u) == \/ BeginIngest(u) \/ GetSource(u) \/ ReadOriginal(u)
                 \/ SaveNewOriginal(u) \/ InsertNewImage(u) \/ Undo(u)
-----------------------------------------------------------------------------
ReadFails(u) == /\ upc[u] \in {"getSource", "readOriginal"}
                /\ Reply(u, 500)
                /\ UNCHANGED <<storeVars, blobVars, faults>>

(* Mutant of SaveFails: the error of SaveOriginal is only logged.           *)
SaveErrorIgnored(u) == /\ upc[u] = "save"
                       /\ SaveOriginal(NewId[u]) \/ UNCHANGED blobVars
                       /\ UGoto(u, "insert")
                       /\ UNCHANGED <<storeVars, faults>>

(* Nothing is undone when the original was stored all the same.             *)
SaveFails(u) == /\ upc[u] = "save"
                /\ SaveOriginal(NewId[u]) \/ UNCHANGED blobVars
                /\ Reply(u, 500)
                /\ UNCHANGED <<storeVars, faults>>

(* The row may have been committed with its reply lost, which is a fault.   *)
InsertFails(u) == /\ upc[u] = "insert"
                  /\ \/ UNCHANGED <<storeVars, faults>>
                     \/ InsertImage(NewId[u]) /\ Fault
                  /\ UGoto(u, "undo")
                  /\ UNCHANGED blobVars

(* The API process dies under the request. *)
IngestLost(u) == /\ upc[u] \notin {"start", "done"}
                 /\ UGoto(u, "done")
                 /\ Fault
                 /\ UNCHANGED <<storeVars, blobVars>>

IngestFails(u) == ReadFails(u) \/ SaveFails(u) \/ InsertFails(u) \/ IngestLost(u)
=============================================================================
