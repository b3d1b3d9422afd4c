----------------------------- MODULE ClientView -----------------------------
(***************************************************************************)
(* The processes of ImageOptimizer implement what VariantCache promises to *)
(* clients.  An image is "deleting" from the moment a DELETE found its row;*)
(* a request is open from its image check (GetImage) to its answer.        *)
(***************************************************************************)
EXTENDS ImageOptimizer

ImageState(i) == IF ~HasImage(i) THEN "gone"
                 ELSE IF Doomed(i) THEN "deleting" ELSE "stored"

Phase(r) == CASE rpc[r] = "start"    -> "idle"
              [] rpc[r] = "getImage" -> "asked"
              [] rpc[r] = "done"     -> "closed"
              [] OTHER               -> "open"

Confirmed == {dimg[d] : d \in {e \in Deleters : dcode[e] = 204}}

Cache == INSTANCE VariantCache WITH
             image   <- [i \in Images |-> ImageState(i)],
             variant <- status,
             object  <- avifs,
             phase   <- [r \in Requests |-> Phase(r)],
             wanted  <- [r \in Requests |-> job[r]],
             answer  <- rcode,
             deleted <- Confirmed

(* Every step of a request, a worker or a DELETE is a step that clients     *)
(* were promised, or one they cannot see.  Among the rest: a 200 has the    *)
(* object behind it, except for a HEAD during a DELETE, which answers from  *)
(* the row alone (handlers.go handleHead); 404 means that the image is gone *)
(* and 422 that the row says failed at that moment; a request that begins   *)
(* after a 204 is not served, whatever late generations left behind.        *)
ImplementsCache == Cache!Spec
=============================================================================
