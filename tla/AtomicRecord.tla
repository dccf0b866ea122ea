---------------------------- MODULE AtomicRecord ----------------------------
(***************************************************************************)
(* What a seqlock-guarded record of the shared-memory segment promises to  *)
(* the processes that use it: a write replaces the words it is about in    *)
(* one step, and a read returns the record as it is in one state.          *)
(* Seqlock.tla is shown to implement this specification.                   *)
(***************************************************************************)
EXTENDS Naturals

CONSTANTS
  Readers,   \* the processes that take snapshots
  Words      \* the words of the guarded record

VARIABLES
  rec,       \* the record; a word holds the number of the write that set it
  version,   \* how many writes the record has seen
  got        \* got[r]: the last snapshot that was handed to reader r

avars == <<rec, version, got>>

AInit ==
  /\ rec = [w \in Words |-> 0]
  /\ version = 0
  /\ got = [r \in Readers |-> rec]

AWrite(ws) ==
  /\ version' = version + 1
  /\ rec' = [w \in Words |-> IF w \in ws THEN version' ELSE rec[w]]
  /\ UNCHANGED got

ARead(r) ==
  /\ got' = [got EXCEPT ![r] = rec]
  /\ UNCHANGED <<rec, version>>

ANext ==
  \/ \E ws \in SUBSET Words : AWrite(ws)
  \/ \E r \in Readers : ARead(r)

ASpec == AInit /\ [][ANext]_avars
=============================================================================
