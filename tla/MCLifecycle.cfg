\* One restart of model_manager at any moment, one client that ends.
SPECIFICATION FairSpec
CONSTANTS
  Clients = {"planner", "topo"}
  MaxLives = 2
  MaxDeaths = 1
INVARIANTS TypeOK LocksAreReady RestartHeals
PROPERTIES AllServe
CHECK_DEADLOCK FALSE
