---------------------------- MODULE MCHomeApply ----------------------------
(***************************************************************************)
(* Instances of HomeApply for TLC.  No profile is special, and only safety *)
(* is checked: they can be permuted.                                       *)
(***************************************************************************)
EXTENDS HomeApply, TLC

CONSTANTS skill, hub, work, play

Symmetry == Permutations(Profiles)

\* A skill in the folder of a harness, and its copy in .agents/skills.
HubOf == [p \in Paths |-> hub]
=============================================================================
