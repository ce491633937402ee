----------------------------- MODULE Packaging -----------------------------
(***************************************************************************)
(* What the commands `ports package` promise to whoever reads their        *)
(* output, without the workspace they share.  A command first settles on a *)
(* whole manifest, an action for every entry of %files, and only then      *)
(* shows it, action by action.  A command that fails before that shows     *)
(* nothing; one that is stopped while it shows has shown a beginning and   *)
(* does not count as successful.  If no other command was active up to the *)
(* moment it settles, what this very command built is what it packages.    *)
(***************************************************************************)
EXTENDS Naturals, Sequences

CONSTANTS
    Procs, MaxRuns, Specs, FilesOf, InstallsOf,  \* as in Ports
    Payloads                                     \* contents of files

VARIABLES
    phase,       \* "idle", "working" or "showing"
    runNo,       \* commands started so far
    spec,        \* the spec file of the command
    chosen,      \* the manifest the command has settled on
    shown,       \* the actions a reader of the output has seen
    result,      \* how the last command ended
    overlapped   \* another command was active during this one

vars == <<phase, runNo, spec, chosen, shown, result, overlapped>>

Active(p) == phase[p] # "idle"

Init ==
    /\ phase = [p \in Procs |-> "idle"]
    /\ runNo = [p \in Procs |-> 0]
    /\ spec \in [Procs -> Specs]
    /\ chosen = [p \in Procs |-> <<>>]
    /\ shown = [p \in Procs |-> <<>>]
    /\ result = [p \in Procs |-> "none"]
    /\ overlapped = [p \in Procs |-> FALSE]

(* A command is started; whatever else is running now overlaps with it. *)
Start(p, s) ==
    /\ ~Active(p)
    /\ runNo[p] < MaxRuns
    /\ phase' = [phase EXCEPT ![p] = "working"]
    /\ runNo' = [runNo EXCEPT ![p] = @ + 1]
    /\ spec' = [spec EXCEPT ![p] = s]
    /\ shown' = [shown EXCEPT ![p] = <<>>]
    /\ result' = [result EXCEPT ![p] = "none"]
    /\ overlapped' = [q \in Procs |->
                        IF q = p THEN \E r \in Procs \ {p} : Active(r)
                                 ELSE overlapped[q] \/ Active(q)]
    /\ UNCHANGED chosen

Build(p) == [proc |-> p, no |-> runNo[p], spec |-> spec[p]]
List(p)  == FilesOf[spec[p]]

(* The contents that may stand for the entries of %files. *)
Allowed(p) ==
    {c \in [1..Len(List(p)) -> Payloads] :
        \A i \in 1..Len(List(p)) :
            /\ ~overlapped[p]
            /\ List(p)[i].slashes <= 1
            /\ List(p)[i].path \in InstallsOf[spec[p]]
            => c[i] = Build(p)}

(* The command has all it wants to show; from here on nothing changes it. *)
Settle(p) ==
    /\ phase[p] = "working"
    /\ phase' = [phase EXCEPT ![p] = "showing"]
    /\ \E c \in Allowed(p) :
         chosen' = [chosen EXCEPT ![p] =
           [i \in 1..Len(List(p)) |-> [path |-> List(p)[i].path, payload |-> c[i]]]]
    /\ UNCHANGED <<runNo, spec, shown, result, overlapped>>

(* One more action of the manifest appears. *)
Show(p) ==
    /\ phase[p] = "showing"
    /\ Len(shown[p]) < Len(chosen[p])
    /\ shown' = [shown EXCEPT ![p] = Append(@, chosen[p][Len(@) + 1])]
    /\ UNCHANGED <<phase, runNo, spec, chosen, result, overlapped>>

(* All of it has appeared: the command returns Ok. *)
Finish(p) ==
    /\ phase[p] = "showing"
    /\ shown[p] = chosen[p]
    /\ phase' = [phase EXCEPT ![p] = "idle"]
    /\ chosen' = [chosen EXCEPT ![p] = <<>>]
    /\ result' = [result EXCEPT ![p] = "ok"]
    /\ UNCHANGED <<runNo, spec, shown, overlapped>>

(* The command ends early; what has been shown cannot be taken back. *)
Fail(p) ==
    /\ Active(p)
    /\ phase' = [phase EXCEPT ![p] = "idle"]
    /\ chosen' = [chosen EXCEPT ![p] = <<>>]
    /\ result' = [result EXCEPT ![p] = "aborted"]
    /\ UNCHANGED <<runNo, spec, shown, overlapped>>

Proceed(p) == Settle(p) \/ Show(p) \/ Finish(p) \/ Fail(p)

Next == \E p \in Procs : Proceed(p) \/ \E s \in Specs : Start(p, s)

Safety == Init /\ [][Next]_vars

(* A command that has been started ends. *)
Spec == Safety /\ \A p \in Procs : WF_vars(Proceed(p))
=============================================================================
