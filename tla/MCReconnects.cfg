\* One process, a log_daemon that never stops.
SPECIFICATION FairSpec
CONSTANTS
  Procs = {"publisher"}
  Mqtt = {"publisher"}
  Callbacks = {}
  MaxMsgs = 2
  MaxFds = 3
  MaxStops = 0
PROPERTIES Reconnects
