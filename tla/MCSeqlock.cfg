\* One reader and two writers, a number that wraps after four writes, one death.
SPECIFICATION FairSpec
CONSTANTS
  r1 = r1
  w1 = w1
  w2 = w2
  x = x
  y = y
  NoOne = NoOne
  Readers = {r1}
  Writers = {w1, w2}
  Words = {x, y}
  SeqMod = 8
  Reordering = FALSE
  MayDieAt = {"locked", "unlocking"}
  MaxWrites = 3
  MaxCrashes = 1
INVARIANTS
  TypeOK
  NoTornRead
  MutualExclusion
  SeqlockInv
PROPERTIES
  AtomicRecordSpec
  ReadCompletes
  WriteCompletes
CHECK_DEADLOCK FALSE
