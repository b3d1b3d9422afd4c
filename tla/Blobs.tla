------------------------------- MODULE Blobs -------------------------------
(***************************************************************************)
(* internal/storage: the objects in the S3 bucket.  An image has at most   *)
(* one original ({folder}/{id}.{ext}) and a variant at most one object     *)
(* (variants/{image}/{hash}.avif); contents are not distinguished, every   *)
(* write of a variant writes the same transform.  The two kinds of key     *)
(* never meet: a folder begins with storely/ (internal/folder).            *)
(***************************************************************************)
EXTENDS Store, FiniteSets

CONSTANTS KeyRank,          \* the place of a variant's key in the listing order
          PageSize          \* how many keys one ListObjectsV2 answer holds

ASSUME BlobsAssumption ==
    /\ KeyRank \in [Variants -> Nat \ {0}]
    /\ \A u, v \in Variants : ImageOf[u] = ImageOf[v] /\ KeyRank[u] = KeyRank[v] => u = v
    /\ PageSize \in Nat \ {0}

VARIABLES originals,        \* images whose original is stored
          avifs             \* variants whose object is stored

blobVars == <<originals, avifs>>

BlobsTypeOK == /\ originals \subseteq Images
               /\ avifs \subseteq Variants

SaveOriginal(i) == /\ originals' = originals \cup {i}
                   /\ UNCHANGED avifs

WriteVariant(v) == /\ avifs' = avifs \cup {v}
                   /\ UNCHANGED originals

DeleteOriginal(i) == /\ originals' = originals \ {i}
                     /\ UNCHANGED avifs

DeleteObjects(S) == /\ avifs' = avifs \ S
                    /\ UNCHANGED originals

(* Mutant of Listed: the prefix is variants/, without the image id.         *)
ListedOfAnyImage(i, token) == {v \in avifs : KeyRank[v] > token}

(* ListObjectsV2 under variants/{i}/ continued after the key of rank token: *)
(* Listed is all that is left to list, Page the first PageSize of it.       *)
Listed(i, token) == {v \in avifs : ImageOf[v] = i /\ KeyRank[v] > token}

Page(i, token) ==
    LET rest == Listed(i, token)
    IN  {v \in rest : Cardinality({u \in rest : KeyRank[u] < KeyRank[v]}) < PageSize}
=============================================================================
