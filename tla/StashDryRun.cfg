SPECIFICATION Spec
CONSTANTS
  NoFile = NoFile
  Profile = Profile
  Absent = Absent
  Torn = Torn
  Mangled = Mangled
  Binaries = {1}
  agent = agent
  cli = cli
  cli2 = cli2
  push = push
  push2 = push2
  pop = pop
  restore = restore
  drift = drift
  preview = preview
  skill = skill
  settings = settings
  ProcOf <- ProcessOf
  Procs = {cli, cli2}
  Tasks = {preview, drift}
  Pushes = {}
  Drifts = {drift}
  Pops = {preview}
  DryPops = {preview}
  Restores = {}
  Untracked = {skill}
  Managed = {settings}
  MaxExits = 0
  MaxStarts = 0
  MaxWriteErrors = 0
  MaxEdits = 1
  MaxCalls = 2
  MaxFailures = 0
  MaxEvents = 2
INVARIANT ManagedTextIsKept
