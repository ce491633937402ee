----------------------------- MODULE MCManifest -----------------------------
(***************************************************************************)
(* Instances of Manifest for TLC.                                          *)
(***************************************************************************)
EXTENDS Manifest

Facets == [k \in FacetKeys |-> IF k = "facet.doc" THEN "doc" ELSE "devel"]

P(key, value) == [key |-> key, value |-> value]
E(name, payload, props) == [name |-> name, payload |-> payload, props |-> props]

Yes == {<<"t">>}
No  == {<<"f">>}

A == <<"a">>
B == <<"b">>

(* A property for every slot, twice for those that can be overwritten.     *)
Menu(name) ==
    LET kd    == KindOf[name]
        first == IF kd \in Typed /\ Fields[kd] # {}
                   THEN CHOOSE f \in Fields[kd] : TRUE ELSE "license"
    IN  {P(first, A), P(first, B), P("facet.doc", A), P("facet.doc", B),
         P("facet.devel", A), P("x", A)}
        \cup (IF name = "set" THEN {P("value", A), P("value", B)} ELSE {})
        \cup (IF name # "file" THEN {} ELSE
              {P("preserve", <<"t">>), P("preserve", <<"f">>),
               P("preserve", A), P("chash", <<"gzip", "sha512t", "h">>),
               P("chash", <<"z", "sha512t", "h">>),
               P("pkg.content-hash", <<"gzip", "md5", "h">>)})

PlainPayload(t)   == [text |-> t, slash |-> FALSE, eq |-> FALSE, key |-> "x",
                      value |-> <<"">>]
PathPayload(t)    == [text |-> t, slash |-> TRUE, eq |-> FALSE, key |-> "x",
                      value |-> <<"">>]
PairPayload(t, s) == [text |-> t, slash |-> s, eq |-> TRUE, key |-> "x",
                      value |-> B]
NullPayload(key)  == [text |-> A, slash |-> FALSE, eq |-> TRUE, key |-> key,
                      value |-> <<"">>]
Payloads ==
    {None, PlainPayload(<<"h">>), PlainPayload(<<"", "h">>),
     PlainPayload(<<"file", "sha3512t", "h", "b">>),
     PlainPayload(<<"file", "sha1", "">>), PathPayload(A),
     PairPayload(A, TRUE), PairPayload(A, FALSE), NullPayload("value"),
     NullPayload("path"), NullPayload("facet.doc")}

UpTo(n, S) == UNION {[1..i -> S] : i \in 0..n}

(* Every action with any payload and up to two properties. *)
Singles == UNION {{E(n, pl, ps) : pl \in Payloads, ps \in UpTo(2, Menu(n))}
                  : n \in DOMAIN KindOf}

(* A file with a hash, and one without, and three properties. *)
Triples == {E("file", pl, ps) :
              pl \in {PlainPayload(<<"h">>), PathPayload(A)},
              ps \in [1..3 -> {P("path", A), P("path", B), P("facet.doc", A),
                               P("x", A), P("chash", <<"z", "sha512t", "h">>),
                               P("preserve", <<"t">>)}]}

(* A few actions, in every order of up to four. *)
Some == {E("file", PathPayload(A), <<P("path", A)>>),
         E("file", PlainPayload(<<"h">>), <<P("path", B)>>),
         E("link", None, <<P("path", A), P("target", B)>>),
         E("hardlink", None, <<P("path", B), P("target", A)>>),
         E("license", PathPayload(A), <<P("license", B)>>),
         E("transform", None, <<>>), E("user", None, <<P("x", A)>>)}

Small == {<<e>> : e \in Singles \cup Triples} \cup (UpTo(4, Some) \ {<<>>})
=============================================================================
