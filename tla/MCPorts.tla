------------------------------ MODULE MCPorts ------------------------------
(***************************************************************************)
(* Instances of Ports for TLC.                                             *)
(***************************************************************************)
EXTENDS PortsPackaging, TLC

CONSTANTS p1, p2, s1, s2, u1, u2, u3, n1, n2, f1, f2

(* Shells are interchangeable; used in the runs without liveness. *)
Shells == Permutations(Procs)

Entry(n, f) == [slashes |-> n, path |-> f]

(***************************************************************************)
(* The pipeline as main.rs runs it: specfile::parse never fills `sources`. *)
(* s1 installs all it lists; s2 lists a file it does not install and one   *)
(* with two leading slashes.                                               *)
(***************************************************************************)
NoSources == [s \in Specs |-> <<>>]
PipelineFiles ==
    [s \in Specs |-> IF s = s1 THEN <<Entry(1, f1), Entry(0, f2)>>
                               ELSE <<Entry(1, f2), Entry(0, f1), Entry(2, f1)>>]
PipelineInstalls == [s \in Specs |-> IF s = s1 THEN {f1, f2} ELSE {f1}]
OneName == [u \in Urls |-> n1]

(***************************************************************************)
(* The Workspace called with sources: s1 has two sources of one file name, *)
(* s2 has sources of different names.                                      *)
(***************************************************************************)
TwoSources == [s \in Specs |-> IF s = s1 THEN <<u1, u2>> ELSE <<u2, u3>>]
NoFiles == [s \in Specs |-> <<>>]
NoInstalls == [s \in Specs |-> {}]
OneFile == [s \in Specs |-> <<Entry(1, f1)>>]
OneInstall == [s \in Specs |-> {f1}]
CollidingNames == [u \in Urls |-> IF u \in {u1, u2} THEN n1 ELSE n2]
=============================================================================
