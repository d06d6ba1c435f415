SPECIFICATION FairSpec
CONSTANTS
  web = web
  job = job
  imgA = imgA
  imgB = imgB
  custom = custom
  Name = {web}
  Config <- Rounded
  NoCommand = NoCommand
  DefaultCommand = DefaultCommand
  None = None
  InitialTasks <- WebRounded
  InitialContainers <- Empty
  MaxChanges = 0
  MaxPushes = 0
  MaxExits = 0
  MaxFaults = 0
  MaxRestarts = 0
PROPERTIES UnchangedIsKept
