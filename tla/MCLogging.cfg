\* Three processes on a queue of two lines, log_daemon stopped twice.
SPECIFICATION FairSpec
CONSTANTS
  Procs = {"planner", "publisher", "subscriber"}
  Mqtt = {"publisher", "subscriber"}
  Callbacks = {"subscriber"}
  MaxMsgs = 2
  MaxFds = 3
  MaxStops = 2
INVARIANTS TypeOK
PROPERTIES LineGetsOut Ends
