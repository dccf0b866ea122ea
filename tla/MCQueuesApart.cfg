\* A boot without any failure.
SPECIFICATION Spec
CONSTANTS
  Clients = {"publisher", "router"}
  MaxLives = 1
  MaxDeaths = 0
INVARIANT StartsInOrder
CHECK_DEADLOCK FALSE
