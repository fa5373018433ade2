SPECIFICATION Spec
CONSTANTS
  NoFile = NoFile
  Profile = Profile
  Absent = Absent
  Torn = Torn
  Mangled = Mangled
  Binaries = {1}
  agent = agent
  cli = cli
  cli2 = cli2
  push = push
  push2 = push2
  pop = pop
  restore = restore
  drift = drift
  preview = preview
  skill = skill
  settings = settings
  ProcOf <- ProcessOf
  Procs = {agent, cli}
  Tasks = {push, push2, pop, drift, restore}
  Pushes = {push, push2}
  Drifts = {drift}
  Pops = {pop}
  DryPops = {}
  Restores = {restore}
  Untracked = {skill}
  Managed = {settings}
  MaxExits = 1
  MaxStarts = 1
  MaxWriteErrors = 1
  MaxEdits = 1
  MaxCalls = 2
  MaxFailures = 1
  MaxEvents = 2
INVARIANTS TypeOK UntrackedTextIsKept ManagedTextIsKept StashIsStack
