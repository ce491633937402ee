-------------------------- MODULE MCShowComponent --------------------------
(***************************************************************************)
(* Instances of ShowComponent for TLC.  A value is a sequence of tokens;   *)
(* the reader of makefiles gives every variable one.                       *)
(***************************************************************************)
EXTENDS ShowComponent

One(t) == <<<<t>>>>

(* The values tried for each variable; NotSet for none. *)
NotSet == <<>>
Tried == [
    COMPONENT_VERSION     |-> {NotSet, One("1.2.3"), One("1.2"),
                               One("HUMAN_VERSION")},
    HUMAN_VERSION         |-> {NotSet, One("1.2.3"), One("HUMAN_VERSION")},
    COMPONENT_REVISION    |-> {NotSet, One("rev"), One("7")},
    COMPONENT_SRC         |-> {NotSet, <<<<"COMPONENT_NAME", "1.2.3">>>>},
    COMPONENT_ARCHIVE_URL |-> {NotSet, One("url"), One("1.2")},
    GIT_URL               |-> {NotSet, One("url"), One("1.2")},
    COMPONENT_ARCHIVE_HASH |-> {One("hash")},
    BUILD_STYLE           |-> {One("cmake"), One("rev")},
    COMPONENT_NAME        |-> {NotSet, One("hash")},
    BUILD_BITS            |-> {NotSet, One("7"), One("BUILD_BITS")},
    COMPONENT_INSTALL_ACTION |-> {One("hash")},
    CONFIGURE_OPTIONS     |-> {One("COMPONENT_NAME")}
]

(* At most three variables differ from a makefile that is shown. *)
Complete == [v \in DOMAIN Tried |->
    CASE v = "COMPONENT_VERSION" -> One("HUMAN_VERSION")
      [] v = "HUMAN_VERSION" -> One("1.2.3")
      [] v = "COMPONENT_SRC" -> <<<<"COMPONENT_NAME", "1.2.3">>>>
      [] v \in {"COMPONENT_ARCHIVE_URL", "GIT_URL"} -> One("url")
      [] v = "BUILD_BITS" -> One("7")
      [] OTHER -> CHOOSE x \in Tried[v] : x # NotSet]

Changes(m) == UNION {{[m EXCEPT ![v] = x] : x \in Tried[v]} : v \in DOMAIN m}
Variants   == UNION {Changes(m) : m \in UNION {Changes(l) : l \in Changes(Complete)}}

Defining(m) == [v \in {w \in DOMAIN m : m[w] # NotSet} |-> m[v]]

AllMakefiles == {Defining(m) : m \in Variants}

AllVars == DOMAIN Tried \cup {Lookups[j] : j \in DOMAIN Lookups}

MCSemVers == {<<"1.2.3">>}
MCIntegers == {<<"7">>}
MCUrls == {<<"url">>}
MCStyles == {<<"cmake">>, <<"configure">>}
MCZero == <<"0">>
MCConfigure == <<"configure">>

(* Answers of up to two versions; 0 is below 0.0.1. *)
AllAnswers == SeqOf({0, 2, 3, Unparsable}, 2)
=============================================================================
