SPECIFICATION Spec
CONSTANTS
  User = User
  Absent = Absent
  InTrash = InTrash
  NoProfile = NoProfile
  skill = skill
  hub = hub
  work = work
  play = play
  Paths = {skill, hub}
  Emittable = {skill}
  Hub <- HubOf
  Profiles = {work, play}
  MaxEdits = 2
  MaxUpdates = 2
  MaxSaves = 2
  MaxSnapshots = 2
  MaxFailures = 2
  MaxEvents = 2
INVARIANTS TypeOK UserTextIsKept HomeIsClean
PROPERTIES KeepsCustody RevertUndoes
SYMMETRY Symmetry
CHECK_DEADLOCK FALSE
