------------------------- MODULE MCUpstreamUpdateLock -------------------------
(***************************************************************************)
(* Instances of UpstreamUpdateLock for TLC: the Desktop sidecar, which runs *)
(* a scheduled job and an install request in one process, and `ht plugin   *)
(* update` in one or two terminals.                                        *)
(***************************************************************************)
EXTENDS UpstreamUpdateLock, TLC

CONSTANTS agent, cli, cli2, job, install, update, update2

\* Sidecar with two tasks beside one CLI.
AgentAndCli == [t \in {job, install, update} |-> IF t = update THEN cli ELSE agent]

\* One task in each of three processes.
ThreeProcesses == (job :> agent) @@ (update :> cli) @@ (update2 :> cli2)

\* The scheduled job fails fast (0); the others may poll.
FailFastOrPoll == {0, 1}
FailFast == {0}
=============================================================================
