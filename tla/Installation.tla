---------------------------- MODULE Installation ----------------------------
(***************************************************************************)
(* What an installation and an uninstallation of an instance promise: the  *)
(* components are installed in one order and uninstalled in the opposite   *)
(* one, each may be left half done, and success is reported only when all  *)
(* are where they should be.  Installer implements this call by call, and  *)
(* LandscaperReconciler, which takes one step for a component, in the      *)
(* order and with the conditions of reconcile().                           *)
(***************************************************************************)
EXTENDS Naturals, Sequences

CONSTANT Versions

VARIABLES
    components,   \* "absent", "mixed", or what the component is installed as
    op,           \* "none", "install" or "uninstall"
    version,      \* the version being installed, or "none"
    done          \* the operation that is reported as a success, or "none"

vars == <<components, op, version, done>>

InOrder == <<"rbac", "manifest", "helm", "landscaper">>

Components == {InOrder[i] : i \in DOMAIN InOrder}

Goal(c) ==
    IF op = "uninstall" THEN "absent"
    ELSE IF c = "rbac" THEN "present" ELSE version

\* c has its turn: the components that come before it are at their goal.
Turn(c) ==
    \E i \in DOMAIN InOrder :
        /\ InOrder[i] = c
        /\ \A j \in DOMAIN InOrder :
              (IF op = "install" THEN j < i ELSE j > i)
                  => components[InOrder[j]] = Goal(InOrder[j])

Init ==
    /\ components = [c \in Components |-> "absent"]
    /\ op = "none"
    /\ version = "none"
    /\ done = "none"

Begin ==
    /\ op = "none"
    /\ op' \in {"install", "uninstall"}
    /\ version' \in IF op' = "install" THEN Versions ELSE {"none"}
    /\ done' = "none"
    /\ UNCHANGED components

\* Progress leads to the goal, which is not left again.
Work ==
    /\ op # "none"
    /\ \E c \in Components :
          /\ Turn(c) /\ components[c] # Goal(c)
          /\ components' \in {[components EXCEPT ![c] = x] : x \in {"mixed", Goal(c)}}
    /\ UNCHANGED <<op, version, done>>

Succeed ==
    /\ op # "none"
    /\ \A c \in Components : components[c] = Goal(c)
    /\ op' = "none"
    /\ version' = "none"
    /\ done' = op
    /\ UNCHANGED components

Fail ==
    /\ op # "none"
    /\ op' = "none"
    /\ version' = "none"
    /\ UNCHANGED <<components, done>>

\* A success need not be reported for ever.
Forget ==
    /\ op = "none" /\ done # "none"
    /\ done' = "none"
    /\ UNCHANGED <<components, op, version>>

Next == Begin \/ Work \/ Succeed \/ Fail \/ Forget

Spec == Init /\ [][Next]_vars
=============================================================================
