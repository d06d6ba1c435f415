SPECIFICATION FairSpec
CONSTANTS
  web = web
  job = job
  imgA = imgA
  imgB = imgB
  custom = custom
  Name = {web, job}
  Config <- TwoConfigs
  NoCommand = NoCommand
  DefaultCommand = DefaultCommand
  None = None
  InitialTasks <- WebListed
  InitialContainers <- Empty
  MaxChanges = 1
  MaxPushes = 0
  MaxExits = 1
  MaxFaults = 0
  MaxRestarts = 0
PROPERTIES NoOrphans
