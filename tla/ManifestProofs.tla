--------------------------- MODULE ManifestProofs ---------------------------
(***************************************************************************)
(* Reading a manifest, for any manifest the grammar accepts.               *)
(***************************************************************************)
EXTENDS Manifest, Recursion, SequenceTheorems, FiniteSetTheorems, TLAPS

(* What a manifest holds of each kind. *)
PayloadOf(kd) ==
    {None} \cup IF kd = "File" THEN [primary : Digests, additional : Seq(Digests)]
                               ELSE PayloadTexts

FacetProps == [key : {FacetName[fk] : fk \in FacetKeys}, value : Texts]

Converted(kd) ==
    [fields : [Fields[kd] -> Texts], flags : [Flags -> BOOLEAN],
     values : Seq(Texts), list : Seq(Props), map : SUBSET Props,
     facets : SUBSET FacetProps, hashes : Seq(Digests), payload : PayloadOf(kd)]

(***************************************************************************)
(* The inductive invariant: the elements before the next one are converted,*)
(* each in its place in the list of its kind.                              *)
(***************************************************************************)
ElementsInv ==
    /\ text \in Seq(Elements) \cup {Malformed}
    /\ at \in Nat \ {0}
    /\ text # Malformed => at <= Len(text) + 1
    /\ text = Malformed => at = 1
    /\ status \in {"parsing", "ok", "error", "panic"}
    /\ status = "ok" => text # Malformed /\ at = Len(text) + 1

(* The lists m of a manifest, after the first n elements of s. *)
Filled(s, m, n) ==
    /\ m = [kd \in Typed |-> m[kd]]
    /\ \A kd \in Typed : /\ m[kd] \in Seq(Converted(kd))
                         /\ Len(m[kd]) = Cardinality(OfKind(s, kd, n))

Placed(s, m, n) ==
    \A i \in 1..n :
        LET e  == s[i]
            kd == KindOf[e.name]
        IN  e.name # "transform" =>
                /\ kd \in Typed
                /\ ~BadDigest(e)
                /\ m[kd][Cardinality(OfKind(s, kd, i))] = From(e)

ConvertedInv == Filled(text, manifest, at - 1)
PlacedInv    == Placed(text, manifest, at - 1)

ManifestInv == ElementsInv /\ ConvertedInv /\ PlacedInv

-----------------------------------------------------------------------------
(* The conversions. *)

LEMMA RestIs ==
    ASSUME NEW kd \in Typed
    PROVE  /\ Rest[kd] \in {"map", "list", "dropped"}
           /\ Rest[kd] = "dropped" => kd = "Dir"
BY DEF Typed, Rest

(* What the slot of a property says of it. *)
LEMMA SlotIs ==
    ASSUME NEW kd \in Typed, NEW key
    PROVE  /\ Slot(kd, key) \in {"field", "values", "flag", "digest", "facet",
                                 "list", "map", "dropped"}
           /\ Slot(kd, key) = "field" => key \in Fields[kd]
           /\ Slot(kd, key) = "flag" => key \in Flags
           /\ Slot(kd, key) = "digest" => kd = "File" /\ key \in ContentHash
           /\ Slot(kd, key) = "facet" => key \in FacetKeys
           /\ Slot(kd, key) = "dropped" => kd = "Dir"
BY RestIs DEF Slot

(* One round of the loop, field by field. *)
LEMMA SetPropIs ==
    ASSUME NEW kd \in Typed, NEW t \in Converted(kd), NEW p \in Props
    PROVE  LET slot == Slot(kd, p.key)
               u    == SetProp(kd, t, p)
           IN  /\ u = [fields  |-> u.fields, flags |-> u.flags,
                       values  |-> u.values, list |-> u.list, map |-> u.map,
                       facets  |-> u.facets, hashes |-> u.hashes,
                       payload |-> u.payload]
               /\ u.fields = IF slot = "field"
                             THEN [t.fields EXCEPT ![p.key] = p.value]
                             ELSE t.fields
               /\ u.flags = IF slot = "flag"
                            THEN [t.flags EXCEPT ![p.key] = p.value \in TrueTexts]
                            ELSE t.flags
               /\ u.values = IF slot = "values" THEN Append(t.values, p.value)
                             ELSE t.values
               /\ u.list = IF slot = "list" THEN Append(t.list, p) ELSE t.list
               /\ u.map = IF slot = "map" THEN InsertProp(t.map, p.key, p.value)
                          ELSE t.map
               /\ u.facets = IF slot = "facet"
                             THEN InsertProp(t.facets, FacetName[p.key], p.value)
                             ELSE t.facets
               /\ u.hashes = IF slot = "digest"
                             THEN Append(t.hashes, FromStr(p.value))
                             ELSE t.hashes
               /\ u.payload = t.payload
<1>. DEFINE slot == Slot(kd, p.key)
<1>0. t = [fields  |-> t.fields, flags |-> t.flags, values |-> t.values,
           list |-> t.list, map |-> t.map, facets |-> t.facets,
           hashes |-> t.hashes, payload |-> t.payload]
  BY DEF Converted
<1>1. slot \in {"field", "values", "flag", "digest", "facet", "list", "map",
                "dropped"}
  BY SlotIs
<1>2. CASE slot = "field"
  BY <1>0, <1>2 DEF SetProp
<1>3. CASE slot = "values"
  BY <1>0, <1>3 DEF SetProp
<1>4. CASE slot = "flag"
  BY <1>0, <1>4 DEF SetProp
<1>5. CASE slot = "digest"
  BY <1>0, <1>5 DEF SetProp
<1>6. CASE slot = "facet"
  BY <1>0, <1>6 DEF SetProp
<1>7. CASE slot = "list"
  BY <1>0, <1>7 DEF SetProp
<1>8. CASE slot = "map"
  BY <1>0, <1>8 DEF SetProp
<1>9. CASE slot = "dropped"
  BY <1>0, <1>9 DEF SetProp
<1>10. QED
  BY <1>1, <1>2, <1>3, <1>4, <1>5, <1>6, <1>7, <1>8, <1>9

LEMMA FromStrType ==
    ASSUME NEW s \in Texts
    PROVE  /\ FromStr(s) # None => FromStr(s) \in Digests
           /\ s = <<Empty>> => FromStr(s) \in Digests
<1>1. Len(s) \in Nat /\ Len(s) # 0 /\ \A n \in 1..Len(s) : s[n] \in Atoms
  BY DEF Texts
<1>2. CASE Len(s) = 1
  BY <1>1, <1>2, ManifestTypes DEF FromStr, Digests
<1>3. CASE Len(s) # 1
  <2>1. s # <<Empty>>
    BY <1>3
  <2>2. ASSUME FromStr(s) # None PROVE FromStr(s) \in Digests
    <3>1. ~(Len(s) < 3 \/ s[2] \notin Algorithms)
      BY <1>3, <2>2 DEF FromStr
    <3>2. s[3] \in Atoms /\ s[2] \in Algorithms
      BY <1>1, <3>1
    <3>3. QED
      BY <1>3, <3>1, <3>2, ManifestTypes DEF FromStr, Digests
  <2>3. QED
    BY <2>1, <2>2
<1>4. QED
  BY <1>2, <1>3

LEMMA InsertPropType ==
    ASSUME NEW K, NEW map \in SUBSET [key : K, value : Texts],
           NEW key \in K, NEW value \in Texts
    PROVE  InsertProp(map, key, value) \in SUBSET [key : K, value : Texts]
BY DEF InsertProp

(* The digests a conversion unwraps are there. *)
Readable(kd, p) ==
    kd = "File" /\ p.key \in ContentHash => FromStr(p.value) \in Digests

LEMMA SetPropType ==
    ASSUME NEW kd \in Typed, NEW t \in Converted(kd), NEW p \in Props,
           Readable(kd, p)
    PROVE  SetProp(kd, t, p) \in Converted(kd)
<1>. DEFINE slot == Slot(kd, p.key)
            u == SetProp(kd, t, p)
<1>1. /\ t.fields \in [Fields[kd] -> Texts] /\ t.flags \in [Flags -> BOOLEAN]
      /\ t.values \in Seq(Texts) /\ t.list \in Seq(Props)
      /\ t.map \in SUBSET Props /\ t.facets \in SUBSET FacetProps
      /\ t.hashes \in Seq(Digests) /\ t.payload \in PayloadOf(kd)
  BY DEF Converted
<1>2. p.key \in Keys /\ p.value \in Texts
  BY DEF Props
<1>3. slot = "digest" => FromStr(p.value) \in Digests
  BY SlotIs DEF Readable
<1>4. slot = "facet" => p.key \in FacetKeys
  BY SlotIs
<1>. DEFINE ins == InsertProp(t.map, p.key, p.value)
            fac == InsertProp(t.facets, FacetName[p.key], p.value)
<1>5. ins \in SUBSET Props
  BY <1>1, <1>2, InsertPropType DEF Props
<1>6. slot = "facet" => fac \in SUBSET FacetProps
  BY <1>1, <1>2, <1>4, InsertPropType DEF FacetProps
<1>7. /\ u.fields \in {t.fields, [t.fields EXCEPT ![p.key] = p.value]}
      /\ u.flags \in {t.flags, [t.flags EXCEPT ![p.key] = p.value \in TrueTexts]}
      /\ u.values \in {t.values, Append(t.values, p.value)}
      /\ u.list \in {t.list, Append(t.list, p)}
      /\ u.map \in {t.map, ins}
      /\ u.facets = IF slot = "facet" THEN fac ELSE t.facets
      /\ u.hashes = IF slot = "digest" THEN Append(t.hashes, FromStr(p.value))
                    ELSE t.hashes
      /\ u.payload = t.payload
  BY SetPropIs
<1>8. u = [fields  |-> u.fields, flags |-> u.flags, values |-> u.values,
            list |-> u.list, map |-> u.map, facets |-> u.facets,
            hashes |-> u.hashes, payload |-> u.payload]
  BY SetPropIs
<1>. HIDE DEF u, ins, fac, slot
<1>9. u.fields \in [Fields[kd] -> Texts]
  BY <1>1, <1>2, <1>7
<1>10. u.flags \in [Flags -> BOOLEAN]
  <2>. DEFINE b == p.value \in TrueTexts
  <2>1. u.flags \in {t.flags, [t.flags EXCEPT ![p.key] = b]}
    BY <1>7
  <2>2. b \in BOOLEAN
    OBVIOUS
  <2>. HIDE DEF b
  <2>3. [t.flags EXCEPT ![p.key] = b] \in [Flags -> BOOLEAN]
    BY <1>1, <2>2
  <2>4. QED
    BY <1>1, <2>1, <2>3
<1>11. u.values \in Seq(Texts) /\ u.list \in Seq(Props)
  <2>1. Append(t.values, p.value) \in Seq(Texts) /\ Append(t.list, p) \in Seq(Props)
    BY <1>1, <1>2
  <2>2. QED
    BY <1>1, <1>7, <2>1
<1>12. u.map \in SUBSET Props /\ u.facets \in SUBSET FacetProps
  BY <1>1, <1>5, <1>6, <1>7
<1>13. u.hashes \in Seq(Digests) /\ u.payload \in PayloadOf(kd)
  BY <1>1, <1>3, <1>7
<1>14. [fields  |-> u.fields, flags |-> u.flags, values |-> u.values,
        list |-> u.list, map |-> u.map, facets |-> u.facets,
        hashes |-> u.hashes, payload |-> u.payload] \in Converted(kd)
  BY <1>9, <1>10, <1>11, <1>12, <1>13 DEF Converted
<1>15. QED
  BY <1>8, <1>14 DEF u

(* The conversion in progress shows the property p. *)
Shows(kd, t, p) ==
    LET slot == Slot(kd, p.key) IN
    /\ slot = "field"  => t.fields[p.key] = p.value
    /\ slot = "values" => \E j \in 1..Len(t.values) : t.values[j] = p.value
    /\ slot = "flag"   => (t.flags[p.key] <=> p.value \in TrueTexts)
    /\ slot = "digest" =>
         \E j \in 1..Len(t.hashes) : t.hashes[j] = FromStr(p.value)
    /\ slot = "facet"  =>
         [key |-> FacetName[p.key], value |-> p.value] \in t.facets
    /\ slot = "list"   => \E j \in 1..Len(t.list) : t.list[j] = p
    /\ slot = "map"    => p \in t.map

LEMMA AppendShows ==
    ASSUME NEW S, NEW s \in Seq(S), NEW x \in S
    PROVE  /\ \E j \in 1..Len(Append(s, x)) : Append(s, x)[j] = x
           /\ \A y : (\E j \in 1..Len(s) : s[j] = y) =>
                        \E j \in 1..Len(Append(s, x)) : Append(s, x)[j] = y
<1>1. /\ Len(s) \in Nat /\ Len(Append(s, x)) = Len(s) + 1
      /\ Append(s, x)[Len(s) + 1] = x
      /\ \A j \in 1..Len(s) : Append(s, x)[j] = s[j]
  BY AppendProperties
<1>2. \A j \in 1..Len(s) : j \in 1..Len(Append(s, x))
  BY <1>1
<1>3. Len(s) + 1 \in 1..Len(Append(s, x))
  BY <1>1
<1>4. QED
  BY <1>1, <1>2, <1>3

LEMMA SetPropShows ==
    ASSUME NEW kd \in Typed, NEW t \in Converted(kd), NEW p \in Props,
           Readable(kd, p)
    PROVE  Shows(kd, SetProp(kd, t, p), p)
<1>. DEFINE slot == Slot(kd, p.key)
            u == SetProp(kd, t, p)
<1>1. /\ t.fields \in [Fields[kd] -> Texts] /\ t.flags \in [Flags -> BOOLEAN]
      /\ t.values \in Seq(Texts) /\ t.list \in Seq(Props)
      /\ t.hashes \in Seq(Digests) /\ p.value \in Texts
      /\ p = [key |-> p.key, value |-> p.value]
  BY DEF Converted, Props
<1>2. CASE slot = "field"
  <2>1. p.key \in Fields[kd]
    BY <1>2, SlotIs
  <2>2. u.fields = [t.fields EXCEPT ![p.key] = p.value]
    BY <1>2, SetPropIs
  <2>3. u.fields[p.key] = p.value
    BY <1>1, <2>1, <2>2
  <2>4. QED
    BY <1>2, <2>3 DEF Shows
<1>3. CASE slot = "values"
  <2>1. u.values = Append(t.values, p.value)
    BY <1>3, SetPropIs
  <2>2. \E j \in 1..Len(u.values) : u.values[j] = p.value
    BY <1>1, <2>1, AppendShows
  <2>3. QED
    BY <1>3, <2>2 DEF Shows
<1>4. CASE slot = "flag"
  <2>1. p.key \in Flags
    BY <1>4, SlotIs
  <2>2. u.flags = [t.flags EXCEPT ![p.key] = p.value \in TrueTexts]
    BY <1>4, SetPropIs
  <2>3. u.flags[p.key] = (p.value \in TrueTexts)
    BY <1>1, <2>1, <2>2
  <2>4. QED
    BY <1>4, <2>3 DEF Shows
<1>5. CASE slot = "digest"
  <2>1. FromStr(p.value) \in Digests
    BY <1>5, SlotIs DEF Readable
  <2>2. u.hashes = Append(t.hashes, FromStr(p.value))
    BY <1>5, SetPropIs
  <2>3. \E j \in 1..Len(u.hashes) : u.hashes[j] = FromStr(p.value)
    <3>1. t.hashes \in Seq(Digests)
      BY <1>1
    <3>2. QED
      BY <2>1, <2>2, <3>1, AppendShows, SMTT(60)
  <2>4. QED
    BY <1>5, <2>3 DEF Shows
<1>6. CASE slot = "facet"
  <2>1. u.facets = InsertProp(t.facets, FacetName[p.key], p.value)
    BY <1>6, SetPropIs
  <2>2. [key |-> FacetName[p.key], value |-> p.value] \in u.facets
    BY <2>1 DEF InsertProp
  <2>3. QED
    BY <1>6, <2>2 DEF Shows
<1>7. CASE slot = "list"
  <2>1. u.list = Append(t.list, p)
    BY <1>7, SetPropIs
  <2>2. \E j \in 1..Len(u.list) : u.list[j] = p
    BY <1>1, <2>1, AppendShows
  <2>3. QED
    BY <1>7, <2>2 DEF Shows
<1>8. CASE slot = "map"
  <2>1. u.map = InsertProp(t.map, p.key, p.value)
    BY <1>8, SetPropIs
  <2>2. p \in u.map
    BY <1>1, <2>1 DEF InsertProp
  <2>3. QED
    BY <1>8, <2>2 DEF Shows
<1>9. CASE slot = "dropped"
  BY <1>9 DEF Shows
<1>10. QED
  BY <1>2, <1>3, <1>4, <1>5, <1>6, <1>7, <1>8, <1>9, SlotIs

Replaceable == {"field", "flag", "facet", "map"}

LEMMA SetPropKeeps ==
    ASSUME NEW kd \in Typed, NEW t \in Converted(kd), NEW p \in Props,
           Readable(kd, p), NEW q \in Props, Shows(kd, t, q),
           ~(p.key = q.key /\ Slot(kd, q.key) \in Replaceable)
    PROVE  Shows(kd, SetProp(kd, t, p), q)
<1>. DEFINE slot == Slot(kd, q.key)
            u == SetProp(kd, t, p)
<1>1. /\ t.fields \in [Fields[kd] -> Texts] /\ t.flags \in [Flags -> BOOLEAN]
      /\ t.values \in Seq(Texts) /\ t.list \in Seq(Props)
      /\ t.hashes \in Seq(Digests) /\ p.value \in Texts
  BY DEF Converted, Props
<1>2. CASE slot = "field"
  <2>1. t.fields[q.key] = q.value /\ q.key \in Fields[kd] /\ p.key # q.key
    BY <1>2, SlotIs DEF Shows, Replaceable
  <2>2. u.fields[q.key] = t.fields[q.key]
    <3>1. u.fields \in {t.fields, [t.fields EXCEPT ![p.key] = p.value]}
      BY SetPropIs
    <3>. HIDE DEF u
    <3>2. QED
      BY <1>1, <2>1, <3>1
  <2>3. QED
    BY <1>2, <2>1, <2>2 DEF Shows
<1>3. CASE slot = "values"
  <2>1. \E j \in 1..Len(t.values) : t.values[j] = q.value
    BY <1>3 DEF Shows
  <2>2. u.values \in {t.values, Append(t.values, p.value)}
    BY SetPropIs
  <2>3. \E j \in 1..Len(u.values) : u.values[j] = q.value
    BY <1>1, <2>1, <2>2, AppendShows
  <2>4. QED
    BY <1>3, <2>3 DEF Shows
<1>4. CASE slot = "flag"
  <2>1. /\ t.flags[q.key] <=> q.value \in TrueTexts
        /\ q.key \in Flags /\ p.key # q.key
    BY <1>4, SlotIs DEF Shows, Replaceable
  <2>2. u.flags[q.key] = t.flags[q.key]
    <3>. DEFINE b == p.value \in TrueTexts
    <3>1. u.flags \in {t.flags, [t.flags EXCEPT ![p.key] = b]}
      BY SetPropIs
    <3>. HIDE DEF u, b
    <3>2. QED
      BY <1>1, <2>1, <3>1
  <2>3. QED
    BY <1>4, <2>1, <2>2 DEF Shows
<1>5. CASE slot = "digest"
  <2>1. \E j \in 1..Len(t.hashes) : t.hashes[j] = FromStr(q.value)
    BY <1>5 DEF Shows
  <2>2. \/ u.hashes = t.hashes
        \/ u.hashes = Append(t.hashes, FromStr(p.value)) /\ FromStr(p.value) \in Digests
    <3>1. u.hashes = IF Slot(kd, p.key) = "digest"
                     THEN Append(t.hashes, FromStr(p.value)) ELSE t.hashes
      BY SetPropIs
    <3>2. Slot(kd, p.key) = "digest" => FromStr(p.value) \in Digests
      BY SlotIs DEF Readable
    <3>. HIDE DEF u
    <3>3. QED
      BY <3>1, <3>2
  <2>3. \E j \in 1..Len(u.hashes) : u.hashes[j] = FromStr(q.value)
    <3>. HIDE DEF u
    <3>1. CASE u.hashes = t.hashes
      BY <2>1, <3>1
    <3>2. CASE /\ u.hashes = Append(t.hashes, FromStr(p.value))
               /\ FromStr(p.value) \in Digests
      <4>1. \E j \in 1..Len(Append(t.hashes, FromStr(p.value))) :
               Append(t.hashes, FromStr(p.value))[j] = FromStr(q.value)
        BY <1>1, <2>1, <3>2, AppendShows
      <4>2. QED
        BY <3>2, <4>1
    <3>3. QED
      BY <2>2, <3>1, <3>2
  <2>4. QED
    BY <1>5, <2>3 DEF Shows
<1>6. CASE slot = "facet"
  <2>. DEFINE x == [key |-> FacetName[q.key], value |-> q.value]
  <2>1. x \in t.facets /\ q.key \in FacetKeys /\ p.key # q.key
    BY <1>6, SlotIs DEF Shows, Replaceable
  <2>2. CASE Slot(kd, p.key) = "facet"
    <3>1. p.key \in FacetKeys
      BY <2>2, SlotIs
    <3>2. FacetName[p.key] # FacetName[q.key]
      BY <2>1, <3>1, ManifestTypes
    <3>3. u.facets = InsertProp(t.facets, FacetName[p.key], p.value)
      BY <2>2, SetPropIs
    <3>4. x \in u.facets
      BY <2>1, <3>2, <3>3 DEF InsertProp
    <3>5. QED
      BY <1>6, <3>4 DEF Shows
  <2>3. CASE Slot(kd, p.key) # "facet"
    <3>1. u.facets = t.facets
      BY <2>3, SetPropIs
    <3>2. QED
      BY <1>6, <2>1, <3>1 DEF Shows
  <2>4. QED
    BY <2>2, <2>3
<1>7. CASE slot = "list"
  <2>1. \E j \in 1..Len(t.list) : t.list[j] = q
    BY <1>7 DEF Shows
  <2>2. u.list \in {t.list, Append(t.list, p)}
    BY SetPropIs
  <2>3. \E j \in 1..Len(u.list) : u.list[j] = q
    <3>1. \E j \in 1..Len(Append(t.list, p)) : Append(t.list, p)[j] = q
      BY <1>1, <2>1, AppendShows
    <3>. HIDE DEF u
    <3>2. QED
      BY <2>1, <2>2, <3>1
  <2>4. QED
    BY <1>7, <2>3 DEF Shows
<1>8. CASE slot = "map"
  <2>1. q \in t.map /\ p.key # q.key
    BY <1>8 DEF Shows, Replaceable
  <2>2. u.map \in {t.map, InsertProp(t.map, p.key, p.value)}
    BY SetPropIs
  <2>3. q \in u.map
    BY <2>1, <2>2 DEF InsertProp
  <2>4. QED
    BY <1>8, <2>3 DEF Shows
<1>9. CASE slot = "dropped"
  BY <1>9 DEF Shows
<1>10. QED
  BY <1>2, <1>3, <1>4, <1>5, <1>6, <1>7, <1>8, <1>9, SlotIs

(* An element that add_action converts. *)
Convertible(e) ==
    /\ e \in Elements
    /\ e.name # "transform"
    /\ KindOf[e.name] \in Typed
    /\ ~BadDigest(e)

LEMMA KnownHashes == ContentHash \subseteq KnownKeys
<1>1. \A key \in ContentHash : key \in KnownKeys
  BY DEF KnownKeys
<1>2. QED
  BY <1>1

LEMMA AllPropsAre ==
    ASSUME NEW e, Convertible(e)
    PROVE  /\ AllProps(e) \in Seq(Props)
           /\ \A n \in 1..Len(AllProps(e)) :
                 Readable(KindOf[e.name], AllProps(e)[n])
<1>. DEFINE kd == KindOf[e.name]
            pl == e.payload
            ps == e.props
            x == SplitProperty(pl)
<1>1. ps \in Seq(Props) /\ pl \in PayloadTexts \cup {None}
  BY DEF Convertible, Elements
<1>2. ASSUME NEW n \in 1..Len(ps) PROVE Readable(kd, ps[n])
  <2>1. ps[n].value \in Texts
    <3>. HIDE DEF ps
    <3>1. ps[n] \in Props
      BY <1>1
    <3>2. QED
      BY <3>1 DEF Props
  <2>2. kd = "File" /\ ps[n].key \in ContentHash => FromStr(ps[n].value) # None
    BY DEF Convertible, BadDigest
  <2>3. QED
    BY <2>1, <2>2, FromStrType DEF Readable
<1>3. ASSUME pl # None PROVE x \in Props /\ Readable(kd, x)
  <2>1. /\ x = [key |-> pl.key, value |-> pl.value]
        /\ pl.key \in Keys /\ pl.value \in Texts
        /\ pl.key \in KnownKeys => pl.value = <<Empty>>
    BY <1>1, <1>3 DEF PayloadTexts, SplitProperty
  <2>. HIDE DEF x, pl
  <2>2. x \in Props /\ x.key = pl.key /\ x.value = pl.value
    BY <2>1 DEF Props
  <2>3. x.key \in ContentHash => x.value = <<Empty>>
    BY <2>1, <2>2, KnownHashes
  <2>4. QED
    BY <2>1, <2>2, <2>3, FromStrType DEF Readable
<1>4. AllProps(e) = ps \/ (pl # None /\ AllProps(e) = Append(ps, x))
  BY DEF AllProps
<1>. HIDE DEF kd, pl, ps, x
<1>5. CASE AllProps(e) = ps
  BY <1>1, <1>2, <1>5 DEF kd
<1>6. CASE pl # None /\ AllProps(e) = Append(ps, x)
  <2>1. x \in Props /\ Readable(kd, x)
    BY <1>3, <1>6
  <2>2. /\ Append(ps, x) \in Seq(Props) /\ Len(Append(ps, x)) = Len(ps) + 1
        /\ \A n \in 1..Len(ps) : Append(ps, x)[n] = ps[n]
        /\ Append(ps, x)[Len(ps) + 1] = x /\ Len(ps) \in Nat
    BY <1>1, <2>1, AppendProperties
  <2>3. ASSUME NEW n \in 1..Len(ps) + 1 PROVE Readable(kd, Append(ps, x)[n])
    <3>1. CASE n = Len(ps) + 1
      BY <2>1, <2>2, <3>1
    <3>2. CASE n # Len(ps) + 1
      <4>1. n \in 1..Len(ps)
        BY <2>2, <3>2
      <4>2. QED
        BY <1>2, <2>2, <4>1
    <3>3. QED
      BY <3>1, <3>2
  <2>4. QED
    BY <1>6, <2>2, <2>3 DEF kd
<1>7. QED
  BY <1>4, <1>5, <1>6

(* What the loop over the properties starts with and what follows it. *)
Start(e) ==
    IF KindOf[e.name] = "File"
      THEN [Blank(KindOf[e.name]) EXCEPT !.list = OriginalPath(e)]
      ELSE Blank(KindOf[e.name])

Finished(e, t) ==
    CASE KindOf[e.name] = "File" ->
           [t EXCEPT !.hashes = <<>>, !.payload =
              IF Primary(e) = None \/ Primary(e).hash = Empty THEN None
              ELSE [primary |-> Primary(e), additional |-> t.hashes]]
      [] KindOf[e.name] = "License" -> [t EXCEPT !.payload = e.payload]
      [] OTHER -> t

LEMMA StartType ==
    ASSUME NEW e, Convertible(e)
    PROVE  Start(e) \in Converted(KindOf[e.name])
<1>. DEFINE kd == KindOf[e.name]
<1>1. <<Empty>> \in Texts
  BY ManifestTypes DEF Texts
<1>2. OriginalPath(e) \in Seq(Props)
  <2>1. e.payload # None => e.payload.text \in Texts
    BY DEF Convertible, Elements, PayloadTexts
  <2>. DEFINE x == [key |-> "original-path", value |-> e.payload.text]
  <2>2. e.payload # None => x \in Props
    BY <2>1 DEF Props, Keys
  <2>. HIDE DEF x
  <2>3. OriginalPath(e) = <<>> \/ (e.payload # None /\ OriginalPath(e) = <<x>>)
    BY DEF OriginalPath, x
  <2>4. <<>> \in Seq(Props) /\ (x \in Props => <<x>> \in Seq(Props))
    OBVIOUS
  <2>5. QED
    BY <2>2, <2>3, <2>4
<1>3. /\ [f \in Fields[kd] |-> <<Empty>>] \in [Fields[kd] -> Texts]
      /\ [f \in Flags |-> FALSE] \in [Flags -> BOOLEAN]
  BY <1>1
<1>4. /\ <<>> \in Seq(Texts) /\ <<>> \in Seq(Props) /\ <<>> \in Seq(Digests)
      /\ None \in PayloadOf(kd)
  BY DEF PayloadOf
<1>. DEFINE L == IF kd = "File" THEN OriginalPath(e) ELSE <<>>
<1>5. Start(e) = [fields  |-> [f \in Fields[kd] |-> <<Empty>>],
                  flags   |-> [f \in Flags |-> FALSE],
                  values  |-> <<>>, list |-> L, map |-> {}, facets |-> {},
                  hashes  |-> <<>>, payload |-> None]
  BY DEF Start, Blank
<1>6. L \in Seq(Props)
  BY <1>2, <1>4
<1>. HIDE DEF kd, L
<1>7. QED
  BY <1>3, <1>4, <1>5, <1>6 DEF Converted, kd

(* The typed action before and after each property. *)
IsConversion(u, e) ==
    /\ u \in [0..Len(AllProps(e)) -> Converted(KindOf[e.name])]
    /\ u[0] = Start(e)
    /\ \A n \in 1..Len(AllProps(e)) :
          u[n] = SetProp(KindOf[e.name], u[n-1], AllProps(e)[n])

LEMMA ConversionFunction ==
    ASSUME NEW e, Convertible(e)
    PROVE  \E u : /\ IsConversion(u, e)
                  /\ From(e) = Finished(e, u[Len(AllProps(e))])
<1>. DEFINE kd == KindOf[e.name]
            ps == AllProps(e)
            N == Len(ps)
            V == Converted(kd)
            F(f) == [n \in 0..N |-> IF n = 0 THEN Start(e)
                                    ELSE SetProp(kd, f[n-1], ps[n])]
            u == CHOOSE f : f = F(f)
            Step(n, x) == IF n \in 1..N THEN SetProp(kd, x, ps[n]) ELSE x
            step == [n \in Nat |-> [x \in V |-> Step(n, x)]]
<1>1. From(e) = Finished(e, u[N])
  BY DEF From, Finished, Start
<1>2. kd \in Typed
  BY DEF Convertible
<1>3. ps \in Seq(Props) /\ \A n \in 1..N : Readable(kd, ps[n])
  BY AllPropsAre
<1>4. Start(e) \in V
  BY StartType
<1>. HIDE DEF kd, ps
<1>5. N \in Nat /\ \A n \in 1..N : ps[n] \in Props
  BY <1>3
<1>. HIDE DEF N
<1>6. ASSUME NEW n \in Nat, NEW x \in V PROVE Step(n, x) \in V
  <2>1. n \in 1..N => SetProp(kd, x, ps[n]) \in Converted(kd)
    BY <1>2, <1>3, <1>5, SetPropType
  <2>2. QED
    BY <2>1
<1>. HIDE DEF V, Step
<1>7. step \in [Nat -> [V -> V]]
  BY <1>6
<1>. HIDE DEF step
<1>8. PICK g : Recursive(g, 0, N, V, Start(e), step)
  BY <1>4, <1>5, <1>7, 0 \in Nat, N >= 0, IntervalRecursion
<1>9. g \in [0..N -> V]
  BY <1>8 DEF Recursive
<1>10. ASSUME NEW n \in 0..N
       PROVE  g[n] = IF n = 0 THEN Start(e) ELSE SetProp(kd, g[n-1], ps[n])
  <2>1. g[n] = IF n = 0 THEN Start(e) ELSE step[n][g[n-1]]
    BY <1>8 DEF Recursive
  <2>2. ASSUME n # 0 PROVE step[n][g[n-1]] = SetProp(kd, g[n-1], ps[n])
    <3>1. n - 1 \in 0..N /\ g[n-1] \in V /\ n \in Nat /\ n \in 1..N
      BY <1>5, <1>9, <2>2
    <3>2. step[n] = [x \in V |-> Step(n, x)]
      BY <3>1 DEF step
    <3>3. step[n][g[n-1]] = Step(n, g[n-1])
      BY <3>1, <3>2
    <3>4. QED
      BY <3>1, <3>3 DEF Step
  <2>3. QED
    BY <2>1, <2>2
<1>11. g = F(g)
  BY <1>9, <1>10
<1>12. u = F(u)
  BY <1>11
<1>. HIDE DEF u
<1>13. \A n \in 0..N : u[n] = IF n = 0 THEN Start(e)
                              ELSE SetProp(kd, u[n-1], ps[n])
  BY <1>12
<1>14. 0 \in 0..N /\ \A n \in 1..N : n \in 0..N /\ n # 0
  BY <1>5
<1>15. u[0] = Start(e) /\ \A n \in 1..N : u[n] = SetProp(kd, u[n-1], ps[n])
  BY <1>13, <1>14
<1>16. \A n \in 0..N : u[n] \in V
  <2>. DEFINE I == {n \in Nat : n <= N => u[n] \in V}
  <2>1. 0 \in I
    BY <1>4, <1>15
  <2>2. ASSUME NEW n \in Nat, n \in I PROVE n + 1 \in I
    <3>. SUFFICES ASSUME n + 1 <= N PROVE u[n + 1] \in V
      OBVIOUS
    <3>. DEFINE m == n + 1
    <3>1. m \in 1..N /\ m - 1 = n /\ u[n] \in V
      BY <1>5, <2>2
    <3>. HIDE DEF m
    <3>2. u[m] = SetProp(kd, u[n], ps[m])
      BY <1>15, <3>1
    <3>3. u[m] \in V
      BY <1>2, <1>3, <1>5, <3>1, <3>2, SetPropType DEF V
    <3>4. QED
      BY <3>3 DEF m
  <2>. HIDE DEF I
  <2>3. \A n \in Nat : n \in I
    BY <2>1, <2>2, SetInduction
  <2>4. QED
    BY <1>5, <2>3 DEF I
<1>17. u \in [0..N -> V]
  BY <1>12, <1>16
<1>18. IsConversion(u, e)
  BY <1>15, <1>17 DEF IsConversion, N, V, kd, ps
<1>19. QED
  BY <1>1, <1>18 DEF N, ps

(* A digest stands in the payload of a file that does not panic. *)
LEMMA PrimaryType ==
    ASSUME NEW e, Convertible(e), KindOf[e.name] = "File"
    PROVE  Primary(e) \in Digests
<1>1. CASE e.payload = None \/ e.payload.slash
  BY <1>1, ManifestTypes DEF Primary, NoDigest, Digests
<1>2. CASE ~(e.payload = None \/ e.payload.slash)
  <2>1. e.payload.text \in Texts
    BY <1>2 DEF Convertible, Elements, PayloadTexts
  <2>2. Primary(e) = FromStr(e.payload.text)
    BY <1>2 DEF Primary
  <2>3. Primary(e) # None
    BY DEF Convertible, BadDigest
  <2>4. QED
    BY <2>1, <2>2, <2>3, FromStrType
<1>3. QED
  BY <1>1, <1>2

(* What follows the loop leaves everything but the hashes alone. *)
LEMMA FinishedIs ==
    ASSUME NEW e, Convertible(e), NEW t \in Converted(KindOf[e.name])
    PROVE  LET v == Finished(e, t)
           IN  /\ v \in Converted(KindOf[e.name])
               /\ v.fields = t.fields /\ v.flags = t.flags
               /\ v.values = t.values /\ v.list = t.list
               /\ v.map = t.map /\ v.facets = t.facets
               /\ KindOf[e.name] = "File" /\ v.payload # None =>
                    v.payload.additional = t.hashes
<1>. DEFINE kd == KindOf[e.name]
            v == Finished(e, t)
            W(h, p) == [fields  |-> t.fields, flags |-> t.flags,
                        values |-> t.values, list |-> t.list, map |-> t.map,
                        facets |-> t.facets, hashes |-> h, payload |-> p]
<1>1. /\ t.fields \in [Fields[kd] -> Texts] /\ t.flags \in [Flags -> BOOLEAN]
      /\ t.values \in Seq(Texts) /\ t.list \in Seq(Props)
      /\ t.map \in SUBSET Props /\ t.facets \in SUBSET FacetProps
      /\ t.hashes \in Seq(Digests) /\ t.payload \in PayloadOf(kd)
      /\ t = W(t.hashes, t.payload)
  BY DEF Converted
<1>2. <<>> \in Seq(Digests) /\ None \in PayloadOf(kd)
  BY DEF PayloadOf
<1>3. CASE kd = "File"
  <2>. DEFINE d == [primary |-> Primary(e), additional |-> t.hashes]
              p == IF Primary(e) = None \/ Primary(e).hash = Empty THEN None ELSE d
  <2>1. v = [t EXCEPT !.hashes = <<>>, !.payload = p]
    BY <1>3 DEF Finished
  <2>2. d \in PayloadOf(kd) /\ d.additional = t.hashes
    BY <1>1, <1>3, PrimaryType DEF PayloadOf
  <2>3. p \in PayloadOf(kd) /\ (p # None => p.additional = t.hashes)
    BY <1>2, <2>2
  <2>. HIDE DEF p, v, kd
  <2>4. v = W(<<>>, p)
    BY <1>1, <2>1
  <2>5. v \in Converted(kd)
    BY <1>1, <1>2, <2>3, <2>4 DEF Converted
  <2>6. QED
    BY <2>3, <2>4, <2>5 DEF v, kd
<1>4. CASE kd = "License"
  <2>1. v = [t EXCEPT !.payload = e.payload]
    BY <1>4 DEF Finished
  <2>2. e.payload \in PayloadOf(kd)
    BY <1>4 DEF Convertible, Elements, PayloadOf
  <2>3. kd # "File"
    BY <1>4
  <2>. HIDE DEF v, kd
  <2>4. v = W(t.hashes, e.payload)
    BY <1>1, <2>1
  <2>5. v \in Converted(kd)
    BY <1>1, <2>2, <2>4 DEF Converted
  <2>6. QED
    BY <2>3, <2>4, <2>5 DEF v, kd
<1>5. CASE kd \notin {"File", "License"}
  <2>1. v = t
    BY <1>5 DEF Finished
  <2>2. QED
    BY <1>5, <2>1
<1>6. QED
  BY <1>3, <1>4, <1>5

LEMMA FromType ==
    ASSUME NEW e, Convertible(e)
    PROVE  From(e) \in Converted(KindOf[e.name])
<1>. DEFINE N == Len(AllProps(e))
<1>1. PICK u : IsConversion(u, e) /\ From(e) = Finished(e, u[N])
  BY ConversionFunction
<1>2. N \in Nat
  BY AllPropsAre
<1>. HIDE DEF N
<1>3. u[N] \in Converted(KindOf[e.name])
  BY <1>1, <1>2 DEF IsConversion, N
<1>4. QED
  BY <1>1, <1>3, FinishedIs

(* In the course of the loop a property is shown once it has been met, or  *)
(* a later one of the same name has taken its place.                       *)
LEMMA LoopShows ==
    ASSUME NEW e, Convertible(e), NEW u, IsConversion(u, e)
    PROVE  LET kd == KindOf[e.name]
               ps == AllProps(e)
           IN  \A n \in 1..Len(ps) :
                  \/ Shows(kd, u[Len(ps)], ps[n])
                  \/ Overwritten(kd, ps, n)
<1>. DEFINE kd == KindOf[e.name]
            ps == AllProps(e)
            N == Len(ps)
            Fine(m, n) ==
                \/ Shows(kd, u[m], ps[n])
                \/ /\ Slot(kd, ps[n].key) \in Replaceable
                   /\ \E j \in n+1..m : ps[j].key = ps[n].key
            I == {m \in Nat : m <= N => \A n \in 1..m : Fine(m, n)}
<1>1. /\ kd \in Typed /\ ps \in Seq(Props)
      /\ \A n \in 1..N : Readable(kd, ps[n])
      /\ u \in [0..N -> Converted(kd)]
      /\ \A n \in 1..N : u[n] = SetProp(kd, u[n-1], ps[n])
  BY AllPropsAre DEF Convertible, IsConversion
<1>. HIDE DEF kd, ps
<1>2. N \in Nat /\ \A n \in 1..N : ps[n] \in Props
  BY <1>1
<1>. HIDE DEF N
<1>3. 0 \in I
  OBVIOUS
<1>4. ASSUME NEW m \in Nat, m \in I PROVE m + 1 \in I
  <2>. DEFINE l == m + 1
  <2>. SUFFICES ASSUME l <= N, NEW n \in 1..l PROVE Fine(l, n)
    OBVIOUS
  <2>1. /\ l \in 1..N /\ l - 1 = m /\ m \in 0..N /\ m \in Nat
        /\ n \in 1..N /\ (n = l \/ n \in 1..m)
        /\ \A i \in 1..m : Fine(m, i)
        /\ \A j \in n+1..m : j \in n+1..l
        /\ n # l => l \in n+1..l
    BY <1>2, <1>4
  <2>. HIDE DEF l
  <2>2. u[l] = SetProp(kd, u[m], ps[l]) /\ u[m] \in Converted(kd)
    BY <1>1, <2>1
  <2>3. ps[l] \in Props /\ ps[n] \in Props /\ Readable(kd, ps[l])
    BY <1>1, <1>2, <2>1
  <2>4. CASE n = l
    BY <1>1, <2>2, <2>3, <2>4, SetPropShows
  <2>5. CASE n # l
    <3>1. Fine(m, n)
      BY <2>1, <2>5
    <3>2. CASE Shows(kd, u[m], ps[n])
      <4>1. CASE ps[l].key = ps[n].key /\ Slot(kd, ps[n].key) \in Replaceable
        BY <2>1, <2>5, <4>1
      <4>2. CASE ~(ps[l].key = ps[n].key /\ Slot(kd, ps[n].key) \in Replaceable)
        <5>1. Shows(kd, SetProp(kd, u[m], ps[l]), ps[n])
          BY <1>1, <2>2, <2>3, <3>2, <4>2, SetPropKeeps
        <5>2. QED
          BY <2>2, <5>1
      <4>3. QED
        BY <4>1, <4>2
    <3>3. CASE ~Shows(kd, u[m], ps[n])
      BY <2>1, <3>1, <3>3
    <3>4. QED
      BY <3>2, <3>3
  <2>6. QED
    BY <2>4, <2>5
<1>. HIDE DEF I
<1>5. N \in I
  BY <1>2, <1>3, <1>4, SetInduction
<1>6. \A n \in 1..N : Fine(N, n)
  BY <1>2, <1>5 DEF I
<1>7. QED
  BY <1>6 DEF Overwritten, Replaceable, N, kd, ps

(* What becomes of the n-th property, as NothingElseLost has it. *)
Fate(kd, ps, t, n) ==
    \/ Kept(kd, t, ps[n])
    \/ Overwritten(kd, ps, n)
    \/ kd = "Dir" /\ Slot(kd, ps[n].key) = "dropped"
    \/ /\ Slot(kd, ps[n].key) = "flag"
       /\ ps[n].value \notin TrueTexts \cup FalseTexts
       /\ ~t.flags[ps[n].key]
    \/ Slot(kd, ps[n].key) = "digest" /\ t.payload = None

LEMMA FromKeeps ==
    ASSUME NEW e, Convertible(e), NEW n \in 1..Len(AllProps(e))
    PROVE  Fate(KindOf[e.name], AllProps(e), From(e), n)
<1>. DEFINE kd == KindOf[e.name]
            ps == AllProps(e)
            N == Len(ps)
            p == ps[n]
            slot == Slot(kd, p.key)
<1>1. PICK u : IsConversion(u, e) /\ From(e) = Finished(e, u[N])
  BY ConversionFunction
<1>. DEFINE t == u[N]
            v == From(e)
<1>2. N \in Nat /\ kd \in Typed
  BY AllPropsAre DEF Convertible
<1>3. t \in Converted(kd)
  BY <1>1, <1>2 DEF IsConversion
<1>4. /\ v.fields = t.fields /\ v.flags = t.flags /\ v.values = t.values
      /\ v.list = t.list /\ v.map = t.map /\ v.facets = t.facets
      /\ kd = "File" /\ v.payload # None => v.payload.additional = t.hashes
  BY <1>1, <1>3, FinishedIs
<1>5. Shows(kd, t, p) \/ Overwritten(kd, ps, n)
  BY <1>1, LoopShows
<1>6. /\ slot \in {"field", "values", "flag", "digest", "facet", "list", "map",
                   "dropped"}
      /\ slot = "digest" => kd = "File"
      /\ slot = "dropped" => kd = "Dir"
  BY <1>2, SlotIs
<1>. HIDE DEF kd, ps, N, t, v, p
<1>7. ASSUME Shows(kd, t, p)
      PROVE  \/ Kept(kd, v, p)
             \/ kd = "Dir" /\ slot = "dropped"
             \/ /\ slot = "flag" /\ p.value \notin TrueTexts \cup FalseTexts
                /\ ~v.flags[p.key]
             \/ slot = "digest" /\ v.payload = None
  <2>1. CASE slot = "field"
    BY <1>4, <1>7, <2>1 DEF Shows, Kept
  <2>2. CASE slot = "values"
    BY <1>4, <1>7, <2>2 DEF Shows, Kept
  <2>3. CASE slot = "flag"
    BY <1>4, <1>7, <2>3, ManifestTypes DEF Shows, Kept
  <2>4. CASE slot = "digest"
    BY <1>4, <1>6, <1>7, <2>4 DEF Shows, Kept
  <2>5. CASE slot = "facet"
    BY <1>4, <1>7, <2>5 DEF Shows, Kept
  <2>6. CASE slot = "list"
    BY <1>4, <1>7, <2>6 DEF Shows, Kept
  <2>7. CASE slot = "map"
    BY <1>4, <1>7, <2>7 DEF Shows, Kept
  <2>8. CASE slot = "dropped"
    BY <1>6, <2>8
  <2>9. QED
    BY <1>6, <2>1, <2>2, <2>3, <2>4, <2>5, <2>6, <2>7, <2>8
<1>8. QED
  BY <1>5, <1>7 DEF Fate, kd, ps, v, p
-----------------------------------------------------------------------------
(* The lists of the manifest. *)

LEMMA Counting ==
    ASSUME NEW s, NEW kd, NEW n \in Nat
    PROVE  /\ IsFiniteSet(OfKind(s, kd, n))
           /\ Cardinality(OfKind(s, kd, n)) \in Nat
           /\ \A i \in 1..n :
                /\ Cardinality(OfKind(s, kd, i)) \in Nat
                /\ Cardinality(OfKind(s, kd, i)) <= Cardinality(OfKind(s, kd, n))
                /\ i \in OfKind(s, kd, i) => Cardinality(OfKind(s, kd, i)) # 0
           /\ Cardinality(OfKind(s, kd, n + 1)) =
                IF n + 1 \in OfKind(s, kd, n + 1)
                  THEN Cardinality(OfKind(s, kd, n)) + 1
                  ELSE Cardinality(OfKind(s, kd, n))
<1>. DEFINE C == OfKind(s, kd, n)
            D == OfKind(s, kd, n + 1)
<1>1. IsFiniteSet(1..n)
  BY FS_Interval
<1>2. C \subseteq 1..n
  BY DEF OfKind
<1>3. IsFiniteSet(C)
  BY <1>1, <1>2, FS_Subset
<1>4. Cardinality(C) \in Nat
  BY <1>3, FS_CardinalityType
<1>5. ASSUME NEW i \in 1..n
      PROVE  /\ Cardinality(OfKind(s, kd, i)) \in Nat
             /\ Cardinality(OfKind(s, kd, i)) <= Cardinality(C)
             /\ i \in OfKind(s, kd, i) => Cardinality(OfKind(s, kd, i)) # 0
  <2>. DEFINE B == OfKind(s, kd, i)
  <2>1. B \subseteq C
    BY DEF OfKind
  <2>. HIDE DEF B, C
  <2>2. IsFiniteSet(B) /\ Cardinality(B) <= Cardinality(C)
    BY <1>3, <2>1, FS_Subset
  <2>3. Cardinality(B) \in Nat
    BY <2>2, FS_CardinalityType
  <2>4. i \in B => Cardinality(B) # 0
    BY <2>2, FS_EmptySet
  <2>5. QED
    BY <2>2, <2>3, <2>4 DEF B
<1>6. n + 1 \notin C
  BY DEF OfKind
<1>7. D = IF n + 1 \in D THEN C \cup {n + 1} ELSE C
  BY DEF OfKind
<1>. HIDE DEF C, D
<1>8. Cardinality(C \cup {n + 1}) = Cardinality(C) + 1
  BY <1>3, <1>6, FS_AddElement
<1>9. Cardinality(D) = IF n + 1 \in D THEN Cardinality(C) + 1 ELSE Cardinality(C)
  BY <1>7, <1>8
<1>10. QED
  BY <1>3, <1>4, <1>5, <1>9 DEF C, D

(* Where an element stands in the list of its kind. *)
LEMMA PlaceInList ==
    ASSUME NEW s, NEW m, NEW n \in Nat, Filled(s, m, n), NEW i \in 1..n,
           s[i].name # "transform", KindOf[s[i].name] \in Typed
    PROVE  LET kd == KindOf[s[i].name]
           IN  Cardinality(OfKind(s, kd, i)) \in 1..Len(m[kd])
<1>. DEFINE kd == KindOf[s[i].name]
            c == Cardinality(OfKind(s, kd, i))
<1>1. i \in OfKind(s, kd, i)
  BY DEF OfKind
<1>2. Len(m[kd]) = Cardinality(OfKind(s, kd, n))
  BY DEF Filled
<1>. HIDE DEF kd
<1>3. /\ c \in Nat /\ c <= Cardinality(OfKind(s, kd, n)) /\ c # 0
      /\ Cardinality(OfKind(s, kd, n)) \in Nat
  BY <1>1, Counting
<1>. HIDE DEF c
<1>4. c \in 1..Len(m[kd])
  BY <1>2, <1>3
<1>5. QED
  BY <1>4 DEF c, kd

(* A transform fills no list. *)
LEMMA SkipStep ==
    ASSUME NEW s, NEW m, NEW n \in Nat, s[n+1].name = "transform",
           Filled(s, m, n), Placed(s, m, n)
    PROVE  Filled(s, m, n + 1) /\ Placed(s, m, n + 1)
<1>1. ASSUME NEW kd PROVE Cardinality(OfKind(s, kd, n + 1)) = Cardinality(OfKind(s, kd, n))
  <2>1. n + 1 \notin OfKind(s, kd, n + 1)
    BY DEF OfKind
  <2>2. QED
    BY <2>1, Counting
<1>2. Filled(s, m, n + 1)
  BY <1>1 DEF Filled
<1>3. \A i \in 1..n+1 : i \in 1..n \/ i = n + 1
  OBVIOUS
<1>4. Placed(s, m, n + 1)
  BY <1>3 DEF Placed
<1>5. QED
  BY <1>2, <1>4

(* The typed action of an element goes to the end of the list of its kind, *)
(* and those that were there stay where they are.                          *)
LEMMA AddStep ==
    ASSUME NEW s, NEW m, NEW n \in Nat, Convertible(s[n+1]),
           Filled(s, m, n), Placed(s, m, n)
    PROVE  LET v == [m EXCEPT ![KindOf[s[n+1].name]] = Append(@, From(s[n+1]))]
           IN  Filled(s, v, n + 1) /\ Placed(s, v, n + 1)
<1>. DEFINE l == n + 1
            e == s[l]
            ke == KindOf[e.name]
            x == From(e)
            v == [m EXCEPT ![ke] = Append(@, x)]
            K(kd, i) == Cardinality(OfKind(s, kd, i))
<1>1. ke \in Typed /\ x \in Converted(ke) /\ e.name # "transform" /\ ~BadDigest(e)
  BY FromType DEF Convertible
<1>2. /\ m = [kd \in Typed |-> m[kd]]
      /\ \A kd \in Typed : m[kd] \in Seq(Converted(kd)) /\ Len(m[kd]) = K(kd, n)
  BY DEF Filled
<1>3. \A kd : l \in OfKind(s, kd, l) <=> kd = ke
  BY <1>1 DEF OfKind
<1>4. ASSUME NEW kd PROVE K(kd, l) = IF kd = ke THEN K(kd, n) + 1 ELSE K(kd, n)
  BY <1>3, Counting
<1>5. ASSUME NEW i \in 1..n, s[i].name # "transform"
      PROVE  /\ KindOf[s[i].name] \in Typed /\ ~BadDigest(s[i])
             /\ m[KindOf[s[i].name]][K(KindOf[s[i].name], i)] = From(s[i])
  BY <1>5 DEF Placed
<1>6. ASSUME NEW i \in 1..n, s[i].name # "transform"
      PROVE  K(KindOf[s[i].name], i) \in 1..Len(m[KindOf[s[i].name]])
  BY <1>5, <1>6, PlaceInList
<1>7. e = s[l] /\ ke = KindOf[s[l].name] /\ x = From(s[l])
  OBVIOUS
<1>8. \A i \in 1..l : i \in 1..n \/ i = l
  OBVIOUS
<1>. HIDE DEF l, e, ke, x, K
<1>9. /\ v[ke] = Append(m[ke], x) /\ DOMAIN v = Typed
      /\ \A kd \in Typed : kd # ke => v[kd] = m[kd]
      /\ v = [kd \in Typed |-> v[kd]]
  BY <1>1, <1>2
<1>10. /\ Append(m[ke], x) \in Seq(Converted(ke))
       /\ Len(Append(m[ke], x)) = Len(m[ke]) + 1
       /\ Append(m[ke], x)[Len(m[ke]) + 1] = x
       /\ \A j \in 1..Len(m[ke]) : Append(m[ke], x)[j] = m[ke][j]
  BY <1>1, <1>2, AppendProperties
<1>. HIDE DEF v
<1>11. ASSUME NEW kd \in Typed
       PROVE  v[kd] \in Seq(Converted(kd)) /\ Len(v[kd]) = K(kd, l)
  <2>1. CASE kd = ke
    BY <1>2, <1>4, <1>9, <1>10, <2>1
  <2>2. CASE kd # ke
    BY <1>2, <1>4, <1>9, <2>2
  <2>3. QED
    BY <2>1, <2>2
<1>12. v = [kd \in Typed |-> v[kd]]
  BY <1>9
<1>13. ASSUME NEW i \in 1..l, s[i].name # "transform"
       PROVE  /\ KindOf[s[i].name] \in Typed /\ ~BadDigest(s[i])
              /\ v[KindOf[s[i].name]][K(KindOf[s[i].name], i)] = From(s[i])
  <2>1. CASE i = l
    <3>1. v[ke][K(ke, l)] = x
      BY <1>1, <1>2, <1>4, <1>9, <1>10
    <3>2. QED
      BY <1>1, <1>7, <2>1, <3>1
  <2>2. CASE i \in 1..n
    <3>. DEFINE ki == KindOf[s[i].name]
                c == K(ki, i)
    <3>1. /\ ki \in Typed /\ ~BadDigest(s[i]) /\ m[ki][c] = From(s[i])
          /\ c \in 1..Len(m[ki])
      BY <1>5, <1>6, <1>13, <2>2
    <3>. HIDE DEF ki, c
    <3>2. v[ki][c] = m[ki][c]
      BY <1>9, <1>10, <3>1
    <3>3. QED
      BY <3>1, <3>2 DEF ki, c
  <2>3. QED
    BY <1>8, <2>1, <2>2
<1>14. Filled(s, v, l)
  BY <1>11, <1>12 DEF Filled, K
<1>15. Placed(s, v, l)
  BY <1>13 DEF Placed, K
<1>16. QED
  BY <1>14, <1>15 DEF v, l, e, ke, x
-----------------------------------------------------------------------------
(* The invariant. *)

LEMMA ManifestInvHoldsInitially == Init => ManifestInv
<1>. SUFFICES ASSUME Init PROVE ManifestInv
  OBVIOUS
<1>1. ElementsInv
  BY ManifestTypes DEF Init, ElementsInv
<1>2. at - 1 = 0 /\ manifest = [kd \in Typed |-> <<>>]
  BY DEF Init
<1>3. \A kd : OfKind(text, kd, 0) = {}
  BY DEF OfKind
<1>4. Filled(text, manifest, 0)
  <2>1. \A kd \in Typed : manifest[kd] = <<>> /\ Len(manifest[kd]) = 0
    BY <1>2
  <2>2. \A kd \in Typed : Cardinality(OfKind(text, kd, 0)) = 0
    BY <1>3, FS_EmptySet
  <2>3. \A kd \in Typed : <<>> \in Seq(Converted(kd))
    OBVIOUS
  <2>4. manifest = [kd \in Typed |-> manifest[kd]]
    BY <1>2
  <2>5. QED
    BY <2>1, <2>2, <2>3, <2>4 DEF Filled
<1>5. Placed(text, manifest, 0)
  BY DEF Placed
<1>6. QED
  BY <1>1, <1>2, <1>4, <1>5 DEF ManifestInv, ConvertedInv, PlacedInv

LEMMA ManifestInvIsInductive == ManifestInv /\ [Next]_vars => ManifestInv'
<1>. SUFFICES ASSUME ManifestInv, [Next]_vars PROVE ManifestInv'
  OBVIOUS
<1>. USE DEF ManifestInv, ConvertedInv, PlacedInv
<1>. DEFINE n == at - 1
<1>1. /\ ElementsInv /\ Filled(text, manifest, n) /\ Placed(text, manifest, n)
      /\ n \in Nat /\ n + 1 = at
  BY DEF ElementsInv
<1>2. ASSUME AtElement
      PROVE  text \in Seq(Elements) /\ at \in 1..Len(text) /\ text[at] \in Elements
  BY <1>1, <1>2 DEF AtElement, ElementsInv
<1>3. CASE ParserError
  BY <1>1, <1>3 DEF ParserError, ElementsInv
<1>4. CASE SkipTransform
  <2>1. text' = text /\ manifest' = manifest /\ at' = at + 1 /\ status' = status
    BY <1>4 DEF SkipTransform
  <2>2. text[n+1].name = "transform"
    BY <1>1, <1>4 DEF SkipTransform
  <2>3. Filled(text, manifest, n + 1) /\ Placed(text, manifest, n + 1)
    BY <1>1, <2>2, SkipStep
  <2>4. at' - 1 = n + 1
    BY <1>1, <2>1
  <2>5. ElementsInv'
    BY <1>1, <1>2, <1>4, <2>1 DEF SkipTransform, AtElement, ElementsInv
  <2>6. QED
    BY <2>1, <2>3, <2>4, <2>5
<1>5. CASE AddAction
  <2>. DEFINE e == text[n+1]
              v == [manifest EXCEPT ![KindOf[e.name]] = Append(@, From(e))]
  <2>1. /\ text' = text /\ manifest' = v /\ at' = at + 1 /\ status' = status
    BY <1>1, <1>5 DEF AddAction
  <2>2. Convertible(e)
    BY <1>1, <1>2, <1>5 DEF AddAction, Convertible
  <2>3. Filled(text, v, n + 1) /\ Placed(text, v, n + 1)
    BY <1>1, <2>2, AddStep
  <2>4. at' - 1 = n + 1
    BY <1>1, <2>1
  <2>5. ElementsInv'
    BY <1>1, <1>2, <1>5, <2>1 DEF AddAction, AtElement, ElementsInv
  <2>. HIDE DEF v
  <2>6. QED
    BY <2>1, <2>3, <2>4, <2>5
<1>6. CASE Panic
  BY <1>1, <1>6 DEF Panic, AtElement, ElementsInv
<1>7. CASE Finish
  BY <1>1, <1>7 DEF Finish, ElementsInv
<1>8. CASE UNCHANGED vars
  BY <1>1, <1>8 DEF vars, ElementsInv
<1>9. QED
  BY <1>3, <1>4, <1>5, <1>6, <1>7, <1>8 DEF Next

LEMMA ManifestInvariant == Spec => []ManifestInv
<1>1. QED
  BY ManifestInvHoldsInitially, ManifestInvIsInductive, PTL DEF Spec

-----------------------------------------------------------------------------
(***************************************************************************)
(* Every typed action of a manifest has exactly the fields of its kind,    *)
(* and the payload of a file holds digests of known algorithms and sources *)
(* only: an unwrap() of from_str stands before each of them.               *)
(***************************************************************************)
THEOREM ManifestTypeCorrect == Spec => []TypeOK
<1>1. ManifestInv => TypeOK
  <2>. SUFFICES ASSUME ManifestInv PROVE TypeOK
    OBVIOUS
  <2>1. ASSUME NEW kd \in Typed, NEW i \in 1..Len(manifest[kd])
        PROVE  LET t == manifest[kd][i] IN
               /\ t.fields \in [Fields[kd] -> Texts]
               /\ t.flags \in [Flags -> BOOLEAN]
               /\ t.list \in Seq(Props)
               /\ t.map \in SUBSET Props
               /\ kd = "File" /\ t.payload # None =>
                    t.payload \in [primary : Digests, additional : Seq(Digests)]
    <3>1. manifest[kd] \in Seq(Converted(kd))
      BY DEF ManifestInv, ConvertedInv, Filled
    <3>2. manifest[kd][i] \in Converted(kd)
      BY <3>1
    <3>3. QED
      BY <3>2 DEF Converted, PayloadOf
  <2>2. QED
    BY <2>1 DEF ManifestInv, ElementsInv, TypeOK
<1>2. QED
  BY <1>1, ManifestInvariant, PTL

LEMMA ReadsBack == \A d \in Digests : FromStr(Display(d)) = d
BY DEF FromStr, Display, Digests

(***************************************************************************)
(* Whatever the text of a manifest, the digests of its files print as a    *)
(* text that reads back as the same digest: Display writes the three parts *)
(* in the order from_str reads them, and no source or algorithm that       *)
(* from_str makes up fails to read.                                        *)
(***************************************************************************)
THEOREM DigestsRoundTrip == Spec => []DigestRoundTrip
<1>1. ManifestInv => DigestRoundTrip
  <2>. SUFFICES ASSUME ManifestInv, NEW i \in 1..Len(manifest["File"]),
                       manifest["File"][i].payload # None
                PROVE  LET pl == manifest["File"][i].payload IN
                       /\ FromStr(Display(pl.primary)) = pl.primary
                       /\ \A j \in 1..Len(pl.additional) :
                            FromStr(Display(pl.additional[j])) = pl.additional[j]
    BY DEF DigestRoundTrip
  <2>. DEFINE pl == manifest["File"][i].payload
  <2>1. manifest["File"] \in Seq(Converted("File"))
    BY DEF ManifestInv, ConvertedInv, Filled, Typed
  <2>2. manifest["File"][i] \in Converted("File")
    BY <2>1
  <2>3. pl \in [primary : Digests, additional : Seq(Digests)]
    BY <2>2 DEF Converted, PayloadOf
  <2>. HIDE DEF pl
  <2>4. pl.primary \in Digests /\ \A j \in 1..Len(pl.additional) : pl.additional[j] \in Digests
    BY <2>3
  <2>5. QED
    BY <2>4, ReadsBack DEF pl
<1>2. QED
  BY <1>1, ManifestInvariant, PTL

(***************************************************************************)
(* A manifest that parse_string accepts, of any length, with any mixture   *)
(* of kinds and properties, loses only what NothingElseLost lists: every   *)
(* other property of every action is in the typed action at its place.     *)
(***************************************************************************)
THEOREM NothingElseForgotten == Spec => []NothingElseLost
<1>1. ManifestInv => NothingElseLost
  <2>. SUFFICES ASSUME ManifestInv, status = "ok",
                       NEW i \in 1..Len(text), text[i].name # "transform",
                       NEW n \in 1..Len(AllProps(text[i]))
                PROVE  Fate(KindOf[text[i].name], AllProps(text[i]), Image(i), n)
    BY DEF NothingElseLost, Fate
  <2>1. text \in Seq(Elements) /\ at - 1 = Len(text)
    BY DEF ManifestInv, ElementsInv
  <2>2. text[i] \in Elements /\ i \in 1..at - 1
    BY <2>1
  <2>3. /\ KindOf[text[i].name] \in Typed /\ ~BadDigest(text[i])
        /\ Image(i) = From(text[i])
    BY <2>2 DEF ManifestInv, PlacedInv, Placed, Image
  <2>4. Convertible(text[i])
    BY <2>2, <2>3 DEF Convertible
  <2>5. QED
    BY <2>3, <2>4, FromKeeps
<1>2. QED
  BY <1>1, ManifestInvariant, PTL
=============================================================================
