SPECIFICATION Spec
CONSTANTS
  NoFile = NoFile
  NoProfile = NoProfile
  NoTask = NoTask
  agent = agent
  cli = cli
  cli2 = cli2
  switch = switch
  switch2 = switch2
  apply = apply
  command = command
  command2 = command2
  work = work
  play = play
  spare = spare
  ProcOf <- ProcessOf
  Profiles = {work, play}
  Procs = {agent, cli}
  Switches = {switch}
  Applies = {}
  Commands = {command}
  Tasks = {switch, command}
  MaxExits = 0
  MaxStarts = 0
  MaxWriteErrors = 0
  MaxFailures = 1
  MaxDeletes = 0
PROPERTIES RestoresPrevious
