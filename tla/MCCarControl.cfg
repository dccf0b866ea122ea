\* A car on its roads: three kinds of obstacles, every turn, counting.
SPECIFICATION Spec
CONSTANTS
  CarId = 1
  Commands <- DriveCommands
  Kinds = {"dog", "hole", "slave"}
  RoadNums = {1}
  Photos = 1
  MaxCount = 3
INVARIANTS TypeOK FreshDirection
PROPERTIES StandsStill VehicleSpec
