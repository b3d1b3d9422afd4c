------------------------------ MODULE MCCasts ------------------------------
(***************************************************************************)
(* Instances of ImageOptimizer in which each behaviour has a cast: the     *)
(* processes that take part, the variants their requests ask for, the      *)
(* images their DELETEs name and the faults that may happen.  A process    *)
(* that is not in the cast is a client that sends nothing, or a worker     *)
(* that is not running.  Several small casts cost the sum of their states, *)
(* one instance with all of the processes would cost the product.          *)
(***************************************************************************)
EXTENDS ClientView, MCImageOptimizer

CONSTANTS Casts, r1, r2, h1, w1, d1, d2

VARIABLE cast

(* A GET or a HEAD and a worker against a DELETE of an image of two         *)
(* variants; a GET and a HEAD of one variant against a DELETE; two DELETEs  *)
(* of one image; two GETs over two images, of which one is deleted; and,    *)
(* with no DELETE, a GET, a HEAD and a worker.                              *)
DeleteCasts ==
    {[on |-> {r1, h1, w1}, asks |-> {v1}, deletes |-> {}, faults |-> 0],
     [on |-> {r1, w1, d1}, asks |-> {v1, v2}, deletes |-> {i1}, faults |-> 1],
     [on |-> {h1, w1, d1}, asks |-> {v1, v2}, deletes |-> {i1}, faults |-> 1],
     [on |-> {r1, h1, d1}, asks |-> {v1}, deletes |-> {i1}, faults |-> 1],
     [on |-> {h1, d1, d2}, asks |-> {v1}, deletes |-> {i1}, faults |-> 1],
     [on |-> {r1, r2, d1}, asks |-> {v1, v3}, deletes |-> {i1, i2}, faults |-> 0]}

(* A GET and a HEAD that wait for each other and for the worker; and a GET  *)
(* and a worker against a DELETE.                                           *)
LiveCasts ==
    {[on |-> {r1, h1, w1}, asks |-> {v1}, deletes |-> {}, faults |-> 1],
     [on |-> {r1, w1, d1}, asks |-> {v1, v2}, deletes |-> {i1}, faults |-> 1]}

CastInit == /\ Init
            /\ cast \in Casts
            /\ \A d \in Deleters : dimg[d] \in IF d \in cast.on THEN cast.deletes ELSE {i1}

CastNext == /\ Next
            /\ \A r \in Requests : /\ r \notin cast.on => rpc'[r] = "start"
                                   /\ job'[r] \in cast.asks \cup {None}
            /\ \A w \in Workers \ cast.on : wpc'[w] = "idle"
            /\ \A d \in Deleters \ cast.on : dpc'[d] = "start"
            /\ faults' <= cast.faults
            /\ UNCHANGED cast

CastSpec == CastInit /\ [][CastNext]_<<vars, cast>>

FairCastSpec == CastSpec /\ Fairness

CastSymmetry == Permutations(Deleters)
=============================================================================
