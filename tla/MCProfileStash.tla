---------------------------- MODULE MCProfileStash ----------------------------
(***************************************************************************)
(* Instances of ProfileStash for TLC: requests of the sidecar beside       *)
(* commands in a terminal.                                                 *)
(***************************************************************************)
EXTENDS ProfileStash, TLC

CONSTANTS agent, cli, cli2, push, push2, pop, restore, drift, preview, skill, settings

\* The prompt of a switch and a dry run are commands, the rest are requests.
ProcessOf ==
  [t \in Tasks |-> CASE t = drift -> cli
                     [] t = preview -> cli2
                     [] OTHER -> agent]
=============================================================================
