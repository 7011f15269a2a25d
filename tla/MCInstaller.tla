----------------------------- MODULE MCInstaller -----------------------------
(***************************************************************************)
(* An instance with two versions and one pull secret.  The second settings *)
(* use the pull secret for some of the parts only.                         *)
(***************************************************************************)
EXTENDS Installer

CONSTANTS v1, v2, s1

MCSettingsValues ==
    {[version |-> v1, secrets |-> [part \in Parts |-> <<s1>>]],
     [version |-> v2,
      secrets |-> [part \in Parts |->
                      IF part \in {"helm", "main", "central"} THEN <<s1>> ELSE <<>>]]}
=============================================================================
