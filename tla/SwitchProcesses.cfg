SPECIFICATION FairSpec
CONSTANTS
  NoFile = NoFile
  NoProfile = NoProfile
  NoTask = NoTask
  agent = agent
  cli = cli
  cli2 = cli2
  switch = switch
  switch2 = switch2
  apply = apply
  command = command
  command2 = command2
  work = work
  play = play
  spare = spare
  ProcOf <- ProcessOf
  Profiles = {work, play, spare}
  Procs = {agent, cli}
  Switches = {switch}
  Applies = {}
  Commands = {command}
  Tasks = {switch, command}
  MaxExits = 1
  MaxStarts = 1
  MaxWriteErrors = 1
  MaxFailures = 2
  MaxDeletes = 1
INVARIANTS PointerNamesHome BaselineIsCurrent HeldByOneProcess
PROPERTIES CompletedApplyIsClean ImplementsLock LockIsGivenBack
