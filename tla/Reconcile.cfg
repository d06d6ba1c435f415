SPECIFICATION FairSpec
CONSTANTS
  web = web
  job = job
  imgA = imgA
  imgB = imgB
  custom = custom
  Name = {web, job}
  Config <- TwoConfigs
  NoCommand = NoCommand
  DefaultCommand = DefaultCommand
  None = None
  InitialTasks <- WebListed
  InitialContainers <- Empty
  MaxChanges = 1
  MaxPushes = 1
  MaxExits = 1
  MaxFaults = 1
  MaxRestarts = 1
INVARIANTS TypeOK
PROPERTIES UnchangedIsKept ListedIsNotSwept StoppedOnlyIfStartable Converges
