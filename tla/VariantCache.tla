---------------------------- MODULE VariantCache ----------------------------
(***************************************************************************)
(* What the clients of the image optimizer may rely on, with no queue, no  *)
(* attempts, no listing and no program counters: images that are stored,   *)
(* deleted and gone, variants of them, objects, and requests that are      *)
(* asked, admitted while their image is there, and answered once.          *)
(***************************************************************************)
EXTENDS Naturals

CONSTANTS Images, Variants, ImageOf, Requests, HeadRequests, None,
          Uploaded, Cached

VARIABLES image,            \* "stored", "deleting" (a DELETE is at its files,
                            \*   or gave up half way) or "gone"
          variant,          \* "absent", "pending", "ready" or "failed"
          object,           \* variants whose AVIF is stored
          phase,            \* of a request: "idle", "asked", "open", "closed"
          wanted,           \* the variant it asked for
          answer,           \* its HTTP status, 0 while there is none
          deleted           \* images whose DELETE was answered 204

requests == <<phase, wanted, answer>>
cacheVars == <<image, variant, object, requests, deleted>>

Init == /\ image = [i \in Images |-> IF i \in Uploaded THEN "stored" ELSE "gone"]
        /\ variant = [v \in Variants |-> IF v \in Cached THEN "ready" ELSE "absent"]
        /\ object = Cached
        /\ phase = [r \in Requests |-> "idle"]
        /\ wanted = [r \in Requests |-> None]
        /\ answer = [r \in Requests |-> 0]
        /\ deleted = {}

Wanted(v) == \E r \in Requests : wanted[r] = v
-----------------------------------------------------------------------------
Ask(r, v) == /\ phase[r] = "idle"
             /\ phase' = [phase EXCEPT ![r] = "asked"]
             /\ wanted' = [wanted EXCEPT ![r] = v]
             /\ UNCHANGED <<image, variant, object, answer, deleted>>

Reject(r) == /\ phase[r] = "idle"
             /\ phase' = [phase EXCEPT ![r] = "closed"]
             /\ answer' = [answer EXCEPT ![r] = 400]
             /\ UNCHANGED <<image, variant, object, wanted, deleted>>

(* A request is admitted at a moment between its asking and its answer at   *)
(* which the image exists.  An image that is gone never returns, so what is *)
(* asked for after a 204 is answered 404, or 500.                           *)
Admit(r) == /\ phase[r] = "asked"
            /\ image[ImageOf[wanted[r]]] # "gone"
            /\ phase' = [phase EXCEPT ![r] = "open"]
            /\ UNCHANGED <<image, variant, object, wanted, answer, deleted>>

(* Which answer a request may be given at this moment.  200 has the object  *)
(* behind it, but for a HEAD that meets an image in the course of deletion. *)
MayAnswer(r, code) ==
    LET v == wanted[r]
        i == ImageOf[v]
    IN  \/ /\ code = 200
           /\ phase[r] = "open"
           /\ \/ v \in object
              \/ r \in HeadRequests /\ variant[v] = "ready" /\ image[i] = "deleting"
        \/ code = 404 /\ image[i] = "gone"
        \/ code = 422 /\ phase[r] = "open" /\ variant[v] = "failed"
        \/ code \in {500, 503}

Close(r, code) == /\ phase[r] \in {"asked", "open"}
                  /\ MayAnswer(r, code)
                  /\ phase' = [phase EXCEPT ![r] = "closed"]
                  /\ answer' = [answer EXCEPT ![r] = code]
                  /\ UNCHANGED wanted

Reply(r) == /\ \E code \in {200, 404, 422, 500, 503} : Close(r, code)
            /\ UNCHANGED <<image, variant, object, deleted>>

(* The connection ends without an answer. *)
Abandon(r) == /\ phase[r] \in {"asked", "open"}
              /\ phase' = [phase EXCEPT ![r] = "closed"]
              /\ UNCHANGED <<image, variant, object, wanted, answer, deleted>>

(* An admitted request creates the row of its variant, or fails after that. *)
Create(r) == /\ phase[r] = "open"
             /\ variant[wanted[r]] = "absent"
             /\ image[ImageOf[wanted[r]]] # "gone"
             /\ variant' = [variant EXCEPT ![wanted[r]] = "pending"]
             /\ UNCHANGED requests \/ Close(r, 500)
             /\ UNCHANGED <<image, object, deleted>>

(* Nothing is generated that nobody asked for. *)
Produce(v) == /\ Wanted(v)
              /\ object' = object \cup {v}
              /\ UNCHANGED <<image, variant, requests, deleted>>

MarkReady(v) == /\ Wanted(v)
                /\ variant[v] # "absent"
                /\ v \in object \/ image[ImageOf[v]] # "stored"
                /\ variant' = [variant EXCEPT ![v] = "ready"]
                /\ UNCHANGED <<image, object, requests, deleted>>

MarkFailed(v) == /\ Wanted(v)
                 /\ variant[v] # "absent"
                 /\ variant' = [variant EXCEPT ![v] = "failed"]
                 /\ UNCHANGED <<image, object, requests, deleted>>

StartDelete(i) == /\ image[i] = "stored"
                  /\ image' = [image EXCEPT ![i] = "deleting"]
                  /\ UNCHANGED <<variant, object, requests, deleted>>

(* Objects are only ever taken from images that a DELETE has begun on. *)
Discard(S) == /\ \A v \in S : image[ImageOf[v]] # "stored"
              /\ object' = object \ S
              /\ UNCHANGED <<image, variant, requests, deleted>>

(* The image goes with all its variants; 204 may be told of it, or not. *)
Vanish(i) == /\ image[i] = "deleting"
             /\ image' = [image EXCEPT ![i] = "gone"]
             /\ variant' = [v \in Variants |->
                               IF ImageOf[v] = i THEN "absent" ELSE variant[v]]
             /\ deleted' \in {deleted, deleted \cup {i}}
             /\ UNCHANGED <<object, requests>>

(* A second DELETE of the image finds it gone. *)
Confirm(i) == /\ image[i] = "gone"
              /\ deleted' = deleted \cup {i}
              /\ UNCHANGED <<image, variant, object, requests>>

Next == \/ \E r \in Requests : \/ \E v \in Variants : Ask(r, v)
                               \/ Reject(r) \/ Admit(r) \/ Reply(r)
                               \/ Abandon(r) \/ Create(r)
        \/ \E v \in Variants : Produce(v) \/ MarkReady(v) \/ MarkFailed(v)
        \/ \E i \in Images : StartDelete(i) \/ Vanish(i) \/ Confirm(i)
        \/ \E S \in SUBSET Variants : Discard(S)

Spec == Init /\ [][Next]_cacheVars
=============================================================================
