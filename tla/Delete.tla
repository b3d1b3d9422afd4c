------------------------------- MODULE Delete -------------------------------
(***************************************************************************)
(* internal/http handleDelete with storage.DeleteImageFiles under it:      *)
(* DELETE /images/{id}.  The original goes first, then the objects under   *)
(* variants/{id}/ page by page, then the row and by cascade its variants.  *)
(* dpc[d] is the next call of the request; a request is served once.       *)
(***************************************************************************)
EXTENDS Blobs

CONSTANT Deleters           \* DELETE requests

VARIABLES dpc,              \* the next call of a request
          dimg,             \* the image it deletes
          dcode,            \* its HTTP status, 0 before the answer
          token,            \* the rank of the last key listed
          page,             \* the keys of the page to delete
          more,             \* whether that page was truncated
          fileErr           \* whether deleting the original failed

deleteVars == <<dpc, dimg, dcode, token, page, more, fileErr>>

(* "refused" is where a request ends that never got to delete anything. *)
DeleteSteps == {"start", "getImage", "refused", "original", "list", "objects",
                "row", "done"}

DeleteTypeOK == /\ dpc \in [Deleters -> DeleteSteps]
                /\ dimg \in [Deleters -> Images]
                /\ dcode \in [Deleters -> {0, 204, 400, 404, 500}]
                /\ token \in [Deleters -> Nat]
                /\ page \in [Deleters -> SUBSET Variants]
                /\ more \in [Deleters -> BOOLEAN]
                /\ fileErr \in [Deleters -> BOOLEAN]

DeleteInit == /\ dpc = [d \in Deleters |-> "start"]
              /\ dimg \in [Deleters -> Images]
              /\ dcode = [d \in Deleters |-> 0]
              /\ token = [d \in Deleters |-> 0]
              /\ page = [d \in Deleters |-> {}]
              /\ more = [d \in Deleters |-> FALSE]
              /\ fileErr = [d \in Deleters |-> FALSE]

(* A DELETE of the image has begun to delete its files. *)
Doomed(i) == \E d \in Deleters : /\ dimg[d] = i
                                 /\ dpc[d] \in {"original", "list", "objects", "row", "done"}

listing == <<token, page, more>>

DGoto(d, step) == /\ dpc' = [dpc EXCEPT ![d] = step]
                  /\ UNCHANGED <<dimg, dcode>>

Finish(d, step, code) == /\ dpc' = [dpc EXCEPT ![d] = step]
                         /\ dcode' = [dcode EXCEPT ![d] = code]
                         /\ UNCHANGED dimg
-----------------------------------------------------------------------------
BeginDelete(d) == /\ dpc[d] = "start"
                  /\ DGoto(d, "getImage") \/ Finish(d, "refused", 400)
                  /\ UNCHANGED <<listing, fileErr, storeVars, blobVars, faults>>

DeleteGetImage(d) == /\ dpc[d] = "getImage"
                     /\ \/ HasImage(dimg[d]) /\ DGoto(d, "original")
                        \/ ~HasImage(dimg[d]) /\ Finish(d, "refused", 404)
                     /\ UNCHANGED <<listing, fileErr, storeVars, blobVars, faults>>

DeleteOriginalFile(d) == /\ dpc[d] = "original"
                         /\ DeleteOriginal(dimg[d])
                         /\ DGoto(d, "list")
                         /\ UNCHANGED <<listing, fileErr, storeVars, faults>>

(* Mutant of AfterFiles: the error of the original's delete is forgotten.   *)
AfterFilesAlways(d) == DGoto(d, "row")

(* Mutant of AfterFiles: the deletion is tried again, its error never reset. *)
AfterFilesRetries(d) == DGoto(d, IF fileErr[d] THEN "original" ELSE "row")

(* What follows the last page: the row, unless the original's delete failed. *)
AfterFiles(d) == IF fileErr[d] THEN Finish(d, "done", 500) ELSE DGoto(d, "row")

ListPage(d) ==
    /\ dpc[d] = "list"
    /\ LET keys == Page(dimg[d], token[d])
       IN  \/ keys = {} /\ AfterFiles(d) /\ UNCHANGED listing
           \/ \E last \in keys :
                /\ \A v \in keys : KeyRank[v] <= KeyRank[last]
                /\ token' = [token EXCEPT ![d] = KeyRank[last]]
                /\ page' = [page EXCEPT ![d] = keys]
                /\ more' = [more EXCEPT ![d] = keys # Listed(dimg[d], token[d])]
                /\ DGoto(d, "objects")
    /\ UNCHANGED <<fileErr, storeVars, blobVars, faults>>

DeletePage(d) == /\ dpc[d] = "objects"
                 /\ DeleteObjects(page[d])
                 /\ IF more[d] THEN DGoto(d, "list") ELSE AfterFiles(d)
                 /\ UNCHANGED <<listing, fileErr, storeVars, faults>>

(* Mutant of DeleteRow: a deletion is answered 200.                         *)
DeleteRowAnswersOK(d) == /\ dpc[d] = "row"
                         /\ DeleteImage(dimg[d]) \/ (~HasImage(dimg[d]) /\ UNCHANGED storeVars)
                         /\ Finish(d, "done", 200)
                         /\ UNCHANGED <<listing, fileErr, blobVars, faults>>

DeleteRow(d) == /\ dpc[d] = "row"
                /\ DeleteImage(dimg[d]) \/ (~HasImage(dimg[d]) /\ UNCHANGED storeVars)
                /\ Finish(d, "done", 204)
                /\ UNCHANGED <<listing, fileErr, blobVars, faults>>

DeleteStep(d) == \/ BeginDelete(d) \/ DeleteGetImage(d) \/ DeleteOriginalFile(d)
                 \/ ListPage(d) \/ DeletePage(d) \/ DeleteRow(d)
-----------------------------------------------------------------------------
(* A call fails, or the request is found cancelled before it: 500, after as *)
(* much of the call's effect as the server had carried out.                 *)
DeleteCallFails(d) ==
    /\ \/ dpc[d] = "getImage" /\ Finish(d, "refused", 500) /\ UNCHANGED <<storeVars, blobVars>>
       \/ /\ dpc[d] \in {"original", "list", "objects", "row"}
          /\ Finish(d, "done", 500)
          /\ \/ UNCHANGED <<storeVars, blobVars>>
             \/ /\ dpc[d] = "objects"
                /\ \E deleted \in SUBSET page[d] : DeleteObjects(deleted)
                /\ UNCHANGED storeVars
             \/ dpc[d] = "row" /\ DeleteImage(dimg[d]) /\ UNCHANGED blobVars
    /\ UNCHANGED <<listing, fileErr, faults>>

(* The error of DeleteObject is kept, and the prefix is deleted all the same. *)
OriginalFails(d) == /\ dpc[d] = "original"
                    /\ DeleteOriginal(dimg[d]) \/ UNCHANGED blobVars
                    /\ fileErr' = [fileErr EXCEPT ![d] = TRUE]
                    /\ DGoto(d, "list")
                    /\ UNCHANGED <<listing, storeVars, faults>>

(* DeleteObjects succeeds, and its answer names keys that it did not delete, *)
(* which nothing reads.                                                      *)
ObjectsKept(d) == /\ dpc[d] = "objects"
                  /\ \E kept \in SUBSET page[d] \ {{}} : DeleteObjects(page[d] \ kept)
                  /\ IF more[d] THEN DGoto(d, "list") ELSE AfterFiles(d)
                  /\ Fault
                  /\ UNCHANGED <<listing, fileErr, storeVars>>

(* The API process dies under the request. *)
DeleteLost(d) == /\ dpc[d] \notin {"start", "refused", "done"}
                 /\ DGoto(d, IF dpc[d] = "getImage" THEN "refused" ELSE "done")
                 /\ Fault
                 /\ UNCHANGED <<listing, fileErr, storeVars, blobVars>>

DeleteFails(d) == \/ DeleteCallFails(d) \/ OriginalFails(d) \/ ObjectsKept(d)
                  \/ DeleteLost(d)
=============================================================================
