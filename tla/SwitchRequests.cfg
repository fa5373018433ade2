SPECIFICATION FairSpec
CONSTANTS
  NoFile = NoFile
  NoProfile = NoProfile
  NoTask = NoTask
  agent = agent
  cli = cli
  cli2 = cli2
  switch = switch
  switch2 = switch2
  apply = apply
  command = command
  command2 = command2
  work = work
  play = play
  spare = spare
  ProcOf <- ProcessOf
  Profiles = {work}
  Procs = {agent}
  Switches = {switch, switch2}
  Applies = {apply}
  Commands = {}
  Tasks = {switch, switch2, apply}
  MaxExits = 1
  MaxStarts = 1
  MaxWriteErrors = 1
  MaxFailures = 1
  MaxDeletes = 1
INVARIANTS TypeOK AppliesUnderLock DepthCountsHandles BusyIsRunning
PROPERTIES SwitchEnds
