SPECIFICATION FairSpec
CONSTANTS
  web = web
  job = job
  imgA = imgA
  imgB = imgB
  custom = custom
  Name = {web}
  Config <- OneImage
  NoCommand = NoCommand
  DefaultCommand = DefaultCommand
  None = None
  InitialTasks <- WebSpecial
  InitialContainers <- Empty
  MaxChanges = 1
  MaxPushes = 0
  MaxExits = 0
  MaxFaults = 0
  MaxRestarts = 0
PROPERTIES EmptyCommandUsesDefault
