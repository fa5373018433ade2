SPECIFICATION FairSpec
CONSTANTS
  Blank = Blank
  NoFile = NoFile
  agent = agent
  cli = cli
  cli2 = cli2
  job = job
  install = install
  update = update
  update2 = update2
  Polls <- FailFastOrPoll
  Procs = {agent, cli}
  Tasks = {job, install, update}
  ProcOf <- AgentAndCli
  MaxExits = 1
  MaxReuses = 1
  MaxWriteErrors = 1
INVARIANTS TypeOK ExclusiveUnlessStolen HeldWhileRunning DepthCountsTasks
PROPERTIES ReleaseRemovesOwn ImplementsLock GonePidCleared
