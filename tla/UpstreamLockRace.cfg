SPECIFICATION Spec
CONSTANTS
  Blank = Blank
  NoFile = NoFile
  agent = agent
  cli = cli
  cli2 = cli2
  job = job
  install = install
  update = update
  update2 = update2
  Polls <- FailFastOrPoll
  Procs = {agent, cli, cli2}
  Tasks = {job, update, update2}
  ProcOf <- ThreeProcesses
  MaxExits = 1
  MaxReuses = 0
  MaxWriteErrors = 0
INVARIANTS OneUpdateAtATime
