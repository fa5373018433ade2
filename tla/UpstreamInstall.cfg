SPECIFICATION FairSpec
CONSTANTS
  User = User
  Absent = Absent
  None = None
  skill = skill
  rule = rule
  MaxVersion = 3
  Pulled = {1}
  Sharings = {{}, {rule}}
  Line <- Majors
  Resources = {skill, rule}
  Package <- Packages
  MaxYanks = 1
  MaxEdits = 1
  MaxCalls = 1
  MaxFailures = 1
  MaxEvents = 3
INVARIANTS TypeOK UndisturbedIsPublished PreviousIsKept
PROPERTIES CutsAreKept EditIsNotOverwritten UnattendedStaysInRange CatchesUp
