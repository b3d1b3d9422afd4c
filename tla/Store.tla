------------------------------- MODULE Store -------------------------------
(***************************************************************************)
(* internal/db: the images and variants tables, one operator per SQL       *)
(* statement.  A statement is atomic (each runs in a transaction of its    *)
(* own); everything that happens between two statements of a handler is an *)
(* interleaving of the modules that call them.                             *)
(*                                                                         *)
(* A variants row is named by its key (image_id, params_hash), an element  *)
(* of Variants: the row's own id stands for the same thing, because a row  *)
(* goes away only together with its image and image ids are never reused.  *)
(***************************************************************************)
EXTENDS FaultBudget

CONSTANTS Images,           \* image ids
          Variants,         \* (image_id, params_hash) pairs
          ImageOf           \* the image of a variant

ASSUME StoreAssumption == ImageOf \in [Variants -> Images]

VARIABLES imageRows,        \* the rows of table images
          status,           \* the status column of a variant, or "absent"
          attempts          \* its attempts column

storeVars == <<imageRows, status, attempts>>

Statuses == {"pending", "ready", "failed"}

StoreTypeOK == /\ imageRows \subseteq Images
               /\ status \in [Variants -> Statuses \cup {"absent"}]
               /\ attempts \in [Variants -> Nat]

VariantsOf(i) == {v \in Variants : ImageOf[v] = i}

HasImage(i) == i \in imageRows
HasVariant(v) == status[v] # "absent"
-----------------------------------------------------------------------------
InsertImage(i) == /\ imageRows' = imageRows \cup {i}
                  /\ UNCHANGED <<status, attempts>>

(* Mutant of InsertPending: no foreign key holds the variant to its image.  *)
InsertUnreferenced(v) == /\ ~HasVariant(v)
                         /\ status' = [status EXCEPT ![v] = "pending"]
                         /\ attempts' = [attempts EXCEPT ![v] = 0]
                         /\ UNCHANGED imageRows

(* INSERT INTO variants ... ON CONFLICT (image_id, params_hash) DO NOTHING: *)
(* it creates the row, meets the existing one, or is refused by the foreign *)
(* key because the image is gone.                                           *)
InsertPending(v) == /\ HasImage(ImageOf[v])
                    /\ ~HasVariant(v)
                    /\ status' = [status EXCEPT ![v] = "pending"]
                    /\ attempts' = [attempts EXCEPT ![v] = 0]
                    /\ UNCHANGED imageRows

InsertConflicts(v) == HasVariant(v)

InsertRefused(v) == ~HasVariant(v) /\ ~HasImage(ImageOf[v])

(* The UPDATEs: none of them looks at the status it overwrites. *)
SetStatus(v, s) == /\ HasVariant(v)
                   /\ status' = [status EXCEPT ![v] = s]
                   /\ UNCHANGED <<imageRows, attempts>>

MarkReady(v) == SetStatus(v, "ready")

(* Mutant of MarkFailed: a status that the CHECK of the table refuses.      *)
MarkError(v) == SetStatus(v, "error")

MarkFailed(v) == SetStatus(v, "failed")

IncrAttempts(v) == /\ HasVariant(v)
                   /\ attempts' = [attempts EXCEPT ![v] = @ + 1]
                   /\ UNCHANGED <<imageRows, status>>

(* DELETE FROM images, with ON DELETE CASCADE to variants. *)
DeleteImage(i) ==
    /\ HasImage(i)
    /\ imageRows' = imageRows \ {i}
    /\ status' = [v \in Variants |-> IF ImageOf[v] = i THEN "absent" ELSE status[v]]
    /\ attempts' = [v \in Variants |-> IF ImageOf[v] = i THEN 0 ELSE attempts[v]]
=============================================================================
