------------------------------- MODULE Params -------------------------------
(***************************************************************************)
(* internal/transform and what its parameters become: the query of a GET is*)
(* parsed, normalised and hashed; the hash names the variant's row and its *)
(* object, the row keeps the normalised parameters as JSON, and whoever    *)
(* generates the variant builds the imgproxy path from that JSON, not from *)
(* the query that is to be answered.  One image.  SHA-256 is taken to be   *)
(* injective, so a hash is the canonical key itself.                       *)
(***************************************************************************)
EXTENDS Integers

CONSTANTS Gets,         \* GET requests
          Numerals,         \* texts that w, h and q are given as
          Atoi,             \* the number each is to strconv.Atoi, or NaN
          NaN,              \* it is none
          Queries           \* what is asked for; "" is a parameter not given

ASSUME ParamsAssumption == /\ Atoi \in [Numerals -> Int \cup {NaN}]
                           /\ NaN \notin Int
                           /\ "" \notin Numerals
                           /\ \A a \in Queries : {a.w, a.h, a.q} \subseteq Numerals \cup {""}

defaultQuality == 80        \* the constant of params.go and of variantgen.go

validCrops == {"center", "top", "bottom", "left", "right"}
validFits == {"cover", "contain", "fill"}

(* The zero values of the struct Params; 0 is the nil pointer of w and h,   *)
(* which never point to 0.                                                  *)
Zero == [w |-> 0, h |-> 0, crop |-> "", fit |-> "", q |-> 0]
-----------------------------------------------------------------------------
Number(text) == IF text = "" THEN 0 ELSE Atoi[text]

Positive(text) == text # "" => Atoi[text] # NaN /\ Atoi[text] > 0

Accepted(query) == /\ Positive(query.w) /\ Positive(query.h) /\ Positive(query.q)
                   /\ Number(query.q) <= 100
                   /\ query.crop \in validCrops \cup {""}
                   /\ query.fit \in validFits \cup {""}

Parse(query) == [w |-> Number(query.w), h |-> Number(query.h), crop |-> query.crop,
                 fit |-> query.fit, q |-> Number(query.q)]

Resizes(p) == p.w # 0 \/ p.h # 0

Normalize(p) == [p EXCEPT !.q = IF @ = 0 THEN defaultQuality ELSE @,
                          !.crop = IF @ = "" /\ Resizes(p) THEN "center" ELSE @,
                          !.fit = IF @ = "" /\ Resizes(p) THEN "cover" ELSE @]

(* canonicalKey and omitempty keep the same fields: all that are set, and q. *)
Fields(p) == [name \in {n \in DOMAIN p : n = "q" \/ p[n] # Zero[n]} |-> p[name]]

(* Mutant of Hash: the parameters are hashed as they were given.            *)
HashAsGiven(p) == Fields(p)

Hash(p) == Fields(Normalize(p))

(* Mutant of CacheKeyJSON: they are stored as they were given.              *)
JSONAsGiven(p) == Fields(p)

CacheKeyJSON(p) == Fields(Normalize(p))

ParamsFromJSON(json) ==
    LET p == [n \in DOMAIN Zero |-> IF n \in DOMAIN json THEN json[n] ELSE Zero[n]]
    IN  [p EXCEPT !.q = IF @ = 0 THEN defaultQuality ELSE @]

resizingType(fit) == CASE fit = "cover" -> "fill"
                       [] fit = "fill"  -> "force"
                       [] OTHER         -> "fit"

gravity(crop) == CASE crop = "top"    -> "no"
                   [] crop = "bottom" -> "so"
                   [] crop = "left"   -> "we"
                   [] crop = "right"  -> "ea"
                   [] OTHER           -> "ce"

BuildPath(p) == [rs |-> <<resizingType(p.fit), p.w, p.h>>, g |-> gravity(p.crop), q |-> p.q]
-----------------------------------------------------------------------------
VARIABLES query,            \* what a request asks for
          pc,               \* "start", "parsed", "waiting", "served", "rejected"
          rows,             \* the variants table: hash -> params_json
          objects,          \* the bucket: hash -> the path it was fetched with
          body              \* the path behind the object a request was served

paramVars == <<query, pc, rows, objects, body>>

NoPath == [rs |-> <<"", 0, 0>>, g |-> "", q |-> 0]

ParamsInit == /\ query \in [Gets -> Queries]
              /\ pc = [r \in Gets |-> "start"]
              /\ rows = <<>>
              /\ objects = <<>>
              /\ body = [r \in Gets |-> NoPath]

Key(r) == Hash(Parse(query[r]))

Receive(r) == /\ pc[r] = "start"
              /\ pc' = [pc EXCEPT ![r] = IF Accepted(query[r]) THEN "parsed" ELSE "rejected"]
              /\ UNCHANGED <<query, rows, objects, body>>

Put(f, key, value) == [k \in DOMAIN f \cup {key} |-> IF k = key THEN value ELSE f[k]]

(* GetVariantByHash and UpsertPendingVariant: ON CONFLICT DO NOTHING.       *)
Upsert(r) == /\ pc[r] = "parsed"
             /\ rows' = IF Key(r) \in DOMAIN rows THEN rows
                        ELSE Put(rows, Key(r), CacheKeyJSON(Parse(query[r])))
             /\ pc' = [pc EXCEPT ![r] = "waiting"]
             /\ UNCHANGED <<query, objects, body>>

(* A request or a worker generates the variant of a row, once or again.     *)
Generate(key) == /\ objects' = Put(objects, key, BuildPath(ParamsFromJSON(rows[key])))
                 /\ UNCHANGED <<query, pc, rows, body>>

Serve(r) == /\ pc[r] = "waiting"
            /\ Key(r) \in DOMAIN objects
            /\ body' = [body EXCEPT ![r] = objects[Key(r)]]
            /\ pc' = [pc EXCEPT ![r] = "served"]
            /\ UNCHANGED <<query, rows, objects>>

ParamsNext == \/ \E r \in Gets : Receive(r) \/ Upsert(r) \/ Serve(r)
              \/ \E key \in DOMAIN rows : Generate(key)

ParamsSpec == ParamsInit /\ [][ParamsNext]_paramVars
-----------------------------------------------------------------------------
(* What an accepted query asks for, in imgproxy's terms (the comments of    *)
(* path.go and of Normalize): cover fills, contain fits, fill forces; a     *)
(* resize is "cover" about the centre unless told otherwise, no resize      *)
(* leaves all of the image; quality is the one given or the default.        *)
Types == [cover |-> "fill", contain |-> "fit", fill |-> "force"]
Anchors == [center |-> "ce", top |-> "no", bottom |-> "so", left |-> "we", right |-> "ea"]

Asked(a) ==
    LET default == IF a.w = "" /\ a.h = "" THEN "contain" ELSE "cover"
    IN  [rs |-> <<Types[IF a.fit = "" THEN default ELSE a.fit], Number(a.w), Number(a.h)>>,
         g  |-> Anchors[IF a.crop = "" THEN "center" ELSE a.crop],
         q  |-> IF a.q = "" THEN defaultQuality ELSE Atoi[a.q]]

(* A request is served the transform that its own query asks for, although  *)
(* the row was created, and the object generated, from the parameters of    *)
(* another request with the same hash (variantgen.go TransformAndPersist).  *)
ServedAsAsked == \A r \in Gets :
    pc[r] = "served" => body[r] = Asked(query[r])

(* No resize is generated and stored under two hashes, however differently  *)
(* its parameters are spelled or left out (params.go Normalize).            *)
OneRowPerResize == \A k1, k2 \in DOMAIN rows :
    LET p1 == ParamsFromJSON(rows[k1])
        p2 == ParamsFromJSON(rows[k2])
    IN  Resizes(p1) /\ BuildPath(p1) = BuildPath(p2) => k1 = k2
=============================================================================
