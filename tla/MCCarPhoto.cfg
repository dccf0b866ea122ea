\* A car that takes photographs, and what it ends in the long run.
SPECIFICATION FairSpec
CONSTANTS
  CarId = 1
  Commands <- PhotoCommands
  Kinds = {"dog"}
  RoadNums = {}
  Photos = 2
  MaxCount = 0
PROPERTIES StandsStill WaitEnds PhotosEnd AnimalPasses VehicleSpec
