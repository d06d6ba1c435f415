SPECIFICATION Spec
CONSTANTS
  web = web
  job = job
  imgA = imgA
  imgB = imgB
  custom = custom
  Name = {web, job}
  Config <- TwoConfigs
  NoCommand = NoCommand
  DefaultCommand = DefaultCommand
  None = None
  InitialTasks <- WebListed
  InitialContainers <- Foreign
  MaxChanges = 0
  MaxPushes = 0
  MaxExits = 0
  MaxFaults = 0
  MaxRestarts = 0
PROPERTIES ForeignUntouched
