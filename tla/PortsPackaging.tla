--------------------------- MODULE PortsPackaging ---------------------------
(***************************************************************************)
(* Ports implements Packaging: the workspace and the steps on it are       *)
(* hidden, and a command has settled on its manifest once the loop of      *)
(* Workspace::package is over.                                             *)
(***************************************************************************)
EXTENDS Ports

Phase ==
    [p \in Procs |-> CASE pc[p] = "idle"  -> "idle"
                       [] pc[p] = "print" -> "showing"
                       [] OTHER           -> "working"]

Chosen == [p \in Procs |-> IF pc[p] = "print" THEN manifest[p] ELSE <<>>]

Abstract == INSTANCE Packaging WITH
    phase  <- Phase,
    chosen <- Chosen,
    shown  <- output

(***************************************************************************)
(* Every step of a command on the shared workspace is invisible or one of  *)
(* the steps of Packaging, whatever files the other commands write, leave  *)
(* behind or tear.  Nothing is printed before the last listed file has     *)
(* been read, so a command that fails over a file prints nothing at all;   *)
(* what is printed then is a beginning of one fixed manifest, and a        *)
(* command stopped in the middle does not end like one that printed it     *)
(* all.                                                                    *)
(***************************************************************************)
PackagingSafe == Abstract!Safety

(***************************************************************************)
(* The same, and a command that is started ends, with the whole manifest   *)
(* or as a failure.                                                        *)
(***************************************************************************)
ImplementsPackaging == Abstract!Spec
=============================================================================
