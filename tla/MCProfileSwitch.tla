--------------------------- MODULE MCProfileSwitch ---------------------------
(***************************************************************************)
(* Instances of ProfileSwitch for TLC: requests to the Desktop sidecar     *)
(* beside `ht profile switch` in one or two terminals.                     *)
(***************************************************************************)
EXTENDS ProfileSwitch, TLC

CONSTANTS agent, cli, cli2, switch, switch2, apply, command, command2, work, play, spare

\* A process per command, the sidecar for the requests.
ProcessOf ==
  [t \in Tasks |-> CASE t = command -> cli
                     [] t = command2 -> cli2
                     [] OTHER -> agent]

Spares == Permutations({play, spare})
=============================================================================
