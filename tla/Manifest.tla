------------------------------ MODULE Manifest ------------------------------
(***************************************************************************)
(* Reading a package manifest (libips/src/actions/mod.rs): parse_string,   *)
(* add_action and the conversions of a generic Action into the typed       *)
(* actions of a Manifest, with the digests of libips/src/digest/mod.rs.    *)
(*                                                                         *)
(* A text is a value without its quotes and backslashes, split at its      *)
(* colons: Digest::from_str is the only one to look inside.                *)
(***************************************************************************)
EXTENDS Naturals, Sequences, FiniteSets

CONSTANTS
    Atoms,        \* pieces of text without a colon
    Empty,        \* the empty one
    OtherKeys,    \* property names no conversion knows
    FacetKeys,    \* property names that start with "facet."
    FacetName,    \* what follows their first dot
    TrueTexts,    \* what string_to_bool takes for true
    FalseTexts,   \* what string_to_bool takes for false
    Algorithms,   \* names of DigestAlgorithm, "sha1" among them
    Sources,      \* names of DigestSource, "PrimaryPayloadHash" among them
    Manifests,    \* the texts parsed
    Malformed,    \* a text the grammar refuses: an empty one for instance
    None          \* no payload; a digest that from_str refuses

(* The action names of the grammar and their kinds (get_action_kind). *)
KindOf == [set |-> "Attr", depend |-> "Dependency", dir |-> "Dir",
           file |-> "File", license |-> "License", hardlink |-> "Link",
           link |-> "Link", driver |-> "Driver", group |-> "Group",
           user |-> "User", legacy |-> "Legacy"]

(* The kinds add_action knows what to do with; the others are todo!(). *)
Typed == {"Attr", "Dependency", "Dir", "File", "License", "Link"}

(* The properties that have a field of their own. *)
Fields ==
    [Attr       |-> {"name"},
     Dependency |-> {"fmri", "type", "predicate", "root-image"},
     Dir        |-> {"path", "owner", "group", "mode", "revert-tag",
                     "salvage-from"},
     File       |-> {"path", "owner", "group", "mode", "revert-tag",
                     "original_name", "sysattr"},
     License    |-> {},
     Link       |-> {"path", "target"}]

Flags       == {"overlay", "preserve"}
ContentHash == {"chash", "pkg.content-hash"}

(* Where the properties end up that have no place of their own. *)
Rest == [Attr |-> "map", Dependency |-> "list", Dir |-> "dropped",
         File |-> "list", License |-> "map", Link |-> "map"]

FieldKeys == UNION {Fields[kd] : kd \in Typed}
KnownKeys == FieldKeys \cup Flags \cup ContentHash \cup {"value"}

Keys  == KnownKeys \cup FacetKeys \cup OtherKeys \cup {"original-path"}
Texts == Seq(Atoms) \ {<<>>}
Props == [key : Keys, value : Texts]

(***************************************************************************)
(* The payload of an action: whether its text has a slash and an equals    *)
(* sign, and the property split_property makes of it, whose value is empty *)
(* without an equals sign and ends in front of a second one.  What stands  *)
(* behind that is cut off before a property exists, and is no part of the  *)
(* record.  A key that a conversion knows comes with an empty value:       *)
(* otherwise the grammar makes a property of it.                           *)
(***************************************************************************)
PayloadTexts ==
    {pl \in [text : Texts, slash : BOOLEAN, eq : BOOLEAN,
             key : Keys, value : Texts] :
        pl.key \in KnownKeys \cup FacetKeys => pl.value = <<Empty>>}

Elements == [name : DOMAIN KindOf \cup {"transform"},
             payload : PayloadTexts \cup {None}, props : Seq(Props)]

Digests == [hash : Atoms, algorithm : Algorithms, source : Sources]

ASSUME ManifestTypes ==
    /\ Empty \in Atoms
    /\ "sha1" \in Algorithms
    /\ {"PrimaryPayloadHash", "unknown"} \subseteq Sources
    /\ TrueTexts \cap FalseTexts = {}
    /\ FacetKeys \cap KnownKeys = {}   \* a facet is named "facet."...
    /\ DOMAIN FacetName = FacetKeys
    /\ \A a, b \in FacetKeys : FacetName[a] = FacetName[b] => a = b
    /\ Manifests \subseteq Seq(Elements)
    /\ Malformed \notin Seq(Elements)

VARIABLES
    text,      \* the elements of the manifest, or Malformed
    at,        \* the next one
    manifest,  \* the typed actions so far
    status

vars == <<text, at, manifest, status>>

-----------------------------------------------------------------------------
(* libips/src/digest/mod.rs *)

(* Mutant: an algorithm nobody knows is no error. *)
FromStrUnchecked(t) ==
    IF Len(t) = 1
      THEN [hash |-> t[1], algorithm |-> "sha1",
            source |-> "PrimaryPayloadHash"]
    ELSE IF Len(t) < 3
      THEN None
      ELSE [hash |-> t[3], algorithm |-> t[2],
            source |-> IF t[1] \in Sources THEN t[1] ELSE "unknown"]

(* impl FromStr for Digest; None for an Err. *)
FromStr(t) ==
    IF Len(t) = 1
      THEN [hash |-> t[1], algorithm |-> "sha1",
            source |-> "PrimaryPayloadHash"]
    ELSE IF Len(t) < 3 \/ t[2] \notin Algorithms
      THEN None
      ELSE [hash |-> t[3], algorithm |-> t[2],
            source |-> IF t[1] \in Sources THEN t[1] ELSE "unknown"]

(* Mutant: the source and the algorithm change places. *)
DisplaySwapped(d) == <<d.algorithm, d.source, d.hash>>

(* impl Display for Digest. *)
Display(d) == <<d.source, d.algorithm, d.hash>>

NoDigest == [hash |-> Empty, algorithm |-> "sha1",
             source |-> "PrimaryPayloadHash"]

-----------------------------------------------------------------------------
(* The conversions. *)

(* What a conversion does with a property of this name. *)
Slot(kd, key) ==
    CASE key \in Fields[kd]                              -> "field"
      [] kd = "Attr" /\ key = "value"                    -> "values"
      [] kd = "File" /\ key \in Flags                    -> "flag"
      [] kd = "File" /\ key \in ContentHash              -> "digest"
      [] kd \in {"Dependency", "Dir", "File"} /\ key \in FacetKeys -> "facet"
      [] OTHER                                           -> Rest[kd]

(* Mutant: a key that is there keeps its value. *)
InsertPropOnce(map, key, value) ==
    IF \E q \in map : q.key = key THEN map
                                 ELSE map \cup {[key |-> key, value |-> value]}

(* A HashMap of properties or facets: a set with one member per key. *)
InsertProp(map, key, value) ==
    {q \in map : q.key # key} \cup {[key |-> key, value |-> value]}

(* The default of every typed action, with the fields of all of them. *)
Blank(kd) ==
    [fields  |-> [f \in Fields[kd] |-> <<Empty>>],
     flags   |-> [f \in Flags |-> FALSE],
     values  |-> <<>>, list |-> <<>>, map |-> {}, facets |-> {},
     hashes  |-> <<>>, payload |-> None]

(* One round of the loop over the properties. *)
SetProp(kd, t, p) ==
    LET slot == Slot(kd, p.key) IN
    CASE slot = "field"   -> [t EXCEPT !.fields[p.key] = p.value]
      [] slot = "values"  -> [t EXCEPT !.values = Append(@, p.value)]
      [] slot = "flag"    -> [t EXCEPT !.flags[p.key] = p.value \in TrueTexts]
      [] slot = "digest"  -> [t EXCEPT !.hashes = Append(@, FromStr(p.value))]
      [] slot = "facet"   -> [t EXCEPT !.facets =
                                InsertProp(@, FacetName[p.key], p.value)]
      [] slot = "list"    -> [t EXCEPT !.list = Append(@, p)]
      [] slot = "map"     -> [t EXCEPT !.map = InsertProp(@, p.key, p.value)]
      [] slot = "dropped" -> t

(* split_property: the payload's text up to the first and up to a second    *)
(* equals sign.                                                            *)
SplitProperty(pl) == [key |-> pl.key, value |-> pl.value]

(***************************************************************************)
(* The properties a conversion goes through: those of the action and, last,*)
(* the one its payload makes.  A license keeps its payload as it is; a file*)
(* makes a property of one with a slash and an equals sign only.           *)
(***************************************************************************)
AllProps(e) ==
    LET kd == KindOf[e.name] IN
    IF \/ e.payload = None
       \/ kd = "License"
       \/ kd = "File" /\ ~(e.payload.slash /\ e.payload.eq)
      THEN e.props
      ELSE Append(e.props, SplitProperty(e.payload))

(* The digest in the payload of a file. *)
Primary(e) ==
    IF e.payload = None \/ e.payload.slash THEN NoDigest
                                           ELSE FromStr(e.payload.text)

(* A file's payload with a slash only: the path it is packaged from. *)
OriginalPath(e) ==
    IF e.payload # None /\ e.payload.slash /\ ~e.payload.eq
      THEN <<[key |-> "original-path", value |-> e.payload.text]>> ELSE <<>>

(* impl From<Action> for Attr, Dependency, Dir, File, License, Link. *)
From(e) ==
    LET kd    == KindOf[e.name]
        start == IF kd = "File" THEN [Blank(kd) EXCEPT !.list = OriginalPath(e)]
                                ELSE Blank(kd)
        ps    == AllProps(e)
        u[n \in 0..Len(ps)] ==
            IF n = 0 THEN start ELSE SetProp(kd, u[n-1], ps[n])
        t     == u[Len(ps)]
    IN  CASE kd = "File" ->
               [t EXCEPT !.hashes = <<>>, !.payload =
                  IF Primary(e) = None \/ Primary(e).hash = Empty THEN None
                  ELSE [primary |-> Primary(e), additional |-> t.hashes]]
          [] kd = "License" -> [t EXCEPT !.payload = e.payload]
          [] OTHER -> t

(* unwrap() of a digest that from_str refuses. *)
BadDigest(e) ==
    /\ KindOf[e.name] = "File"
    /\ \/ Primary(e) = None
       \/ \E i \in 1..Len(e.props) : /\ e.props[i].key \in ContentHash
                                     /\ FromStr(e.props[i].value) = None
-----------------------------------------------------------------------------
(* Manifest::parse_string *)

Init ==
    /\ text \in Manifests \cup {Malformed}
    /\ at = 1
    /\ manifest = [kd \in Typed |-> <<>>]
    /\ status = "parsing"

(* The grammar refuses the text before anything is converted. *)
ParserError ==
    /\ status = "parsing"
    /\ text = Malformed
    /\ status' = "error"
    /\ UNCHANGED <<text, at, manifest>>

AtElement == status = "parsing" /\ text # Malformed /\ at <= Len(text)

(* A transform is parsed and ignored. *)
SkipTransform ==
    /\ AtElement
    /\ text[at].name = "transform"
    /\ at' = at + 1
    /\ UNCHANGED <<text, manifest, status>>

(* add_action: the typed action goes to the end of its list. *)
AddAction ==
    /\ AtElement
    /\ text[at].name # "transform"
    /\ KindOf[text[at].name] \in Typed
    /\ ~BadDigest(text[at])
    /\ manifest' = [manifest EXCEPT ![KindOf[text[at].name]] =
                      Append(@, From(text[at]))]
    /\ at' = at + 1
    /\ UNCHANGED <<text, status>>

(* todo!() for a kind, or unwrap() of a digest: the process panics. *)
Panic ==
    /\ AtElement
    /\ text[at].name # "transform"
    /\ KindOf[text[at].name] \notin Typed \/ BadDigest(text[at])
    /\ status' = "panic"
    /\ UNCHANGED <<text, at, manifest>>

Finish ==
    /\ status = "parsing"
    /\ text # Malformed
    /\ at > Len(text)
    /\ status' = "ok"
    /\ UNCHANGED <<text, at, manifest>>

Next == ParserError \/ SkipTransform \/ AddAction \/ Panic \/ Finish

Spec == Init /\ [][Next]_vars /\ WF_vars(Next)
-----------------------------------------------------------------------------
(* Properties *)

(* Every typed action has the fields of its kind, and every digest a known *)
(* algorithm and source.                                                   *)
TypeOK ==
    /\ at \in Nat \ {0}
    /\ status \in {"parsing", "ok", "error", "panic"}
    /\ \A kd \in Typed : \A i \in 1..Len(manifest[kd]) :
        LET t == manifest[kd][i] IN
        /\ t.fields \in [Fields[kd] -> Texts]
        /\ t.flags \in [Flags -> BOOLEAN]
        /\ t.list \in Seq(Props)
        /\ t.map \in SUBSET Props
        /\ kd = "File" /\ t.payload # None =>
             t.payload \in [primary : Digests, additional : Seq(Digests)]

(* The elements of a kind among the first n of s. *)
OfKind(s, kd, n) ==
    {j \in 1..n : s[j].name # "transform" /\ KindOf[s[j].name] = kd}

(* The typed action the i-th element became. *)
Image(i) ==
    LET kd == KindOf[text[i].name]
    IN  manifest[kd][Cardinality(OfKind(text, kd, i))]

(* The typed action t still shows the property p. *)
Kept(kd, t, p) ==
    LET slot == Slot(kd, p.key)
        seen(S) == \E i \in 1..Len(S) : S[i] = p
    IN  CASE slot = "field"  -> t.fields[p.key] = p.value
          [] slot = "values" -> \E i \in 1..Len(t.values) : t.values[i] = p.value
          [] slot = "flag"   -> \/ p.value \in TrueTexts /\ t.flags[p.key]
                                \/ p.value \in FalseTexts /\ ~t.flags[p.key]
          [] slot = "digest" -> /\ t.payload # None
                                /\ \E i \in 1..Len(t.payload.additional) :
                                     t.payload.additional[i] = FromStr(p.value)
          [] slot = "facet"  -> [key |-> FacetName[p.key], value |-> p.value]
                                   \in t.facets
          [] slot = "list"   -> seen(t.list)
          [] slot = "map"    -> p \in t.map
          [] OTHER           -> FALSE

(* A later property of the same action takes the place of the i-th. *)
Overwritten(kd, ps, i) ==
    /\ Slot(kd, ps[i].key) \in {"field", "flag", "facet", "map"}
    /\ \E j \in i+1..Len(ps) : ps[j].key = ps[i].key

(***************************************************************************)
(* What parse_string forgets of a manifest it accepts.  Every action turns *)
(* into one typed action, in its place, that shows all its properties but  *)
(* those a later one overwrites, the ones a Dir has no field for, a flag   *)
(* that is no boolean (it reads as false), and the content hashes of a     *)
(* file that has no hash for payload.  A property made of a payload counts *)
(* as split_property cut it.                                               *)
(***************************************************************************)
NothingElseLost ==
    status = "ok" =>
        \A i \in {j \in 1..Len(text) : text[j].name # "transform"} :
            LET kd == KindOf[text[i].name]
                ps == AllProps(text[i])
                t  == Image(i)
            IN  \A n \in 1..Len(ps) :
                  \/ Kept(kd, t, ps[n])
                  \/ Overwritten(kd, ps, n)
                  \/ kd = "Dir" /\ Slot(kd, ps[n].key) = "dropped"
                  \/ /\ Slot(kd, ps[n].key) = "flag"
                     /\ ps[n].value \notin TrueTexts \cup FalseTexts
                     /\ ~t.flags[ps[n].key]
                  \/ Slot(kd, ps[n].key) = "digest" /\ t.payload = None

(***************************************************************************)
(* Printing a digest of a parsed file and reading it back gives the same   *)
(* digest, whatever source and algorithm its text had, and none.           *)
(***************************************************************************)
DigestRoundTrip ==
    \A i \in 1..Len(manifest["File"]) :
        LET pl == manifest["File"][i].payload IN
        pl # None =>
            /\ FromStr(Display(pl.primary)) = pl.primary
            /\ \A j \in 1..Len(pl.additional) :
                 FromStr(Display(pl.additional[j])) = pl.additional[j]
=============================================================================
