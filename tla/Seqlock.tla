------------------------------- MODULE Seqlock -------------------------------
(***************************************************************************)
(* The lock every shared record of the host is read and written under      *)
(* (lib/ipc/seqlock.h, and the helpers of shm_manager.h built on it):      *)
(* writers of several processes exclude one another with a robust          *)
(* process-shared mutex and announce a write by making the sequence number *)
(* odd; readers take no lock, copy the record word by word and keep the    *)
(* copy only if the sequence number is the one they started from.          *)
(*                                                                         *)
(* Step size: one atomic access to the sequence number, one call of the    *)
(* mutex, or one word of the record.  The order in which the words of a    *)
(* struct assignment are moved is left open.  A process may be killed at   *)
(* the points of MayDieAt; systemd starts it again (Restart=always).       *)
(***************************************************************************)
EXTENDS Naturals, FiniteSets

CONSTANTS
  Readers,      \* processes that call shm_read_*
  Writers,      \* processes that hold a SeqlockMWWriteGuard
  Words,        \* the words of the guarded record
  NoOne,        \* no owner
  SeqMod,       \* seq_ is a std::atomic<uint32_t>: 2^32, less in the runs
  Reordering,   \* may the build move stores of the data above write_begin?
  MayDieAt,     \* where in its guard a writer may be killed
  MaxWrites,    \* bound: no write is asked for once so many have begun
  MaxCrashes    \* bound: how many kills a behaviour contains

WriterPc == {"idle", "want", "locked", "writing", "unlocking"}
ReaderPc == {"idle", "begin", "copy"}

ASSUME SeqModAssumption == SeqMod \in Nat /\ SeqMod > 1 /\ SeqMod % 2 = 0
ASSUME MayDieAssumption == MayDieAt \subseteq {"locked", "writing", "unlocking"}
ASSUME ReorderingAssumption == Reordering \in BOOLEAN
ASSUME NoOneAssumption == NoOne \notin Writers
ASSUME BoundsAssumption == MaxWrites \in Nat /\ MaxCrashes \in Nat

VARIABLES
  seq,        \* Seqlock.seq_
  mem,        \* the guarded record
  mtx,        \* ProcMutex.mtx: [st, by]
  wpc,        \* where each writer is in its guard
  todo,       \* todo[w]: the words the open write of w has yet to store
  rpc,        \* where each reader is in SEQLOCK_READ
  snap,       \* _seq of the macro
  left,       \* left[r]: the words r has yet to copy
  copy,       \* the reader's local copy
  got,        \* the snapshot the reader last returned
  (* history, not in the code *)
  begun,      \* writes begun
  at,         \* at[r]: the value of begun at r's read_begin
  target,     \* target[w]: the words the open write of w is about
  committed,  \* the record as of the last write_end
  version,    \* writes ended
  crashes

lockVars == <<seq, mem, mtx>>
writerVars == <<wpc, todo, target>>
readerVars == <<rpc, snap, left, copy, got, at>>
historyVars == <<begun, committed, version, crashes>>
vars == <<seq, mem, mtx, wpc, todo, rpc, snap, left, copy, got,
          begun, at, target, committed, version, crashes>>

Free == [st |-> "free", by |-> NoOne]
Zeroes == [w \in Words |-> 0]

(* create_and_init: placement new of the Seqlock, ProcMutex::init and a      *)
(* value-initialised record.                                               *)
Init ==
  /\ seq = 0 /\ mem = Zeroes /\ mtx = Free
  /\ wpc = [w \in Writers |-> "idle"]
  /\ todo = [w \in Writers |-> {}]
  /\ target = [w \in Writers |-> {}]
  /\ rpc = [r \in Readers |-> "idle"]
  /\ snap = [r \in Readers |-> 0]
  /\ left = [r \in Readers |-> {}]
  /\ copy = [r \in Readers |-> Zeroes]
  /\ got = [r \in Readers |-> Zeroes]
  /\ at = [r \in Readers |-> 0]
  /\ begun = 0 /\ committed = Zeroes /\ version = 0 /\ crashes = 0

-----------------------------------------------------------------------------
(* ProcMutex.  lock() calls pthread_mutex_consistent on EOWNERDEAD and      *)
(* ignores every other result, so on an unrecoverable mutex it returns      *)
(* without owning it; unlock() by a thread that is not the owner does       *)
(* nothing.                                                                *)

MutLockKeepsInconsistent(w) ==
  CASE mtx.st = "free" -> [st |-> "held", by |-> w]
    [] mtx.st = "ownerdead" -> [st |-> "inconsistent", by |-> w]
    [] OTHER -> mtx

AfterLock(w) ==
  CASE mtx.st = "free" -> [st |-> "held", by |-> w]
    [] mtx.st = "ownerdead" -> [st |-> "held", by |-> w]
    [] OTHER -> mtx

MutUnlockForgets(w) == mtx

AfterUnlock(w) ==
  IF mtx.by # w THEN mtx
  ELSE IF mtx.st = "inconsistent" THEN [st |-> "unrecoverable", by |-> NoOne]
  ELSE Free

AfterDeath(w) ==
  IF mtx.by = w THEN [st |-> "ownerdead", by |-> NoOne] ELSE mtx

MutBumpNeverWraps == seq + 1

Bump == (seq + 1) % SeqMod

-----------------------------------------------------------------------------
(* Writers: SeqlockMWWriteGuard around the stores of a shm_set_* or          *)
(* shm_update_* helper.                                                    *)

Request(w) ==
  /\ wpc[w] = "idle" /\ begun < MaxWrites
  /\ wpc' = [wpc EXCEPT ![w] = "want"]
  /\ \E ws \in SUBSET Words \ {{}} :
       /\ todo' = [todo EXCEPT ![w] = ws]
       /\ target' = [target EXCEPT ![w] = ws]
  /\ UNCHANGED <<lockVars, readerVars, historyVars>>

Lock(w) ==
  /\ wpc[w] = "want" /\ mtx.st \in {"free", "ownerdead", "unrecoverable"}
  /\ mtx' = AfterLock(w)
  /\ wpc' = [wpc EXCEPT ![w] = "locked"]
  /\ UNCHANGED <<seq, mem, todo, target, readerVars, historyVars>>

(* The bound on laps: no reader stays in one copy while the sequence number *)
(* runs through all its values.                                            *)
NoLap == \A r \in Readers : rpc[r] = "copy" => 2 * (begun - at[r]) + 2 < SeqMod

MutWriteBeginLeavesEven(w) ==
  /\ wpc[w] = "locked" /\ NoLap
  /\ begun' = begun + 1
  /\ wpc' = [wpc EXCEPT ![w] = "writing"]
  /\ UNCHANGED <<lockVars, todo, target, readerVars, committed, version, crashes>>

WriteBegin(w) ==
  /\ wpc[w] = "locked" /\ NoLap
  /\ seq' = Bump
  /\ begun' = begun + 1
  /\ wpc' = [wpc EXCEPT ![w] = "writing"]
  /\ UNCHANGED <<mem, mtx, todo, target, readerVars, committed, version, crashes>>

(* One store of the data.  write_begin's release store orders what comes    *)
(* before it, not what comes after, so a reordering build may already move  *)
(* stores while the sequence number is still even.                         *)
StoreWord(w) ==
  /\ wpc[w] = "writing" \/ (Reordering /\ wpc[w] = "locked")
  /\ \E x \in todo[w] :
       /\ mem' = [mem EXCEPT
                    ![x] = IF wpc[w] = "writing" THEN begun ELSE begun + 1]
       /\ todo' = [todo EXCEPT ![w] = @ \ {x}]
  /\ UNCHANGED <<seq, mtx, wpc, target, readerVars, historyVars>>

WriteEnd(w) ==
  /\ wpc[w] = "writing" /\ todo[w] = {}
  /\ seq' = Bump
  /\ committed' = mem
  /\ version' = version + 1
  /\ wpc' = [wpc EXCEPT ![w] = "unlocking"]
  /\ UNCHANGED <<mem, mtx, todo, target, readerVars, begun, crashes>>

Unlock(w) ==
  /\ wpc[w] = "unlocking"
  /\ mtx' = AfterUnlock(w)
  /\ wpc' = [wpc EXCEPT ![w] = "idle"]
  /\ target' = [target EXCEPT ![w] = {}]
  /\ UNCHANGED <<seq, mem, todo, readerVars, historyVars>>

(* The process is killed inside its guard: no destructor runs, the kernel   *)
(* marks the robust mutex, and the restarted process starts from idle.     *)
Die(w) ==
  /\ wpc[w] \in MayDieAt /\ crashes < MaxCrashes
  /\ crashes' = crashes + 1
  /\ mtx' = AfterDeath(w)
  /\ wpc' = [wpc EXCEPT ![w] = "idle"]
  /\ todo' = [todo EXCEPT ![w] = {}]
  /\ target' = [target EXCEPT ![w] = {}]
  /\ UNCHANGED <<seq, mem, readerVars, begun, committed, version>>

-----------------------------------------------------------------------------
(* Readers: the SEQLOCK_READ loop of shm_read_map, shm_read_cars, ...      *)

StartRead(r) ==
  /\ rpc[r] = "idle"
  /\ rpc' = [rpc EXCEPT ![r] = "begin"]
  /\ UNCHANGED <<lockVars, writerVars, snap, left, copy, got, at, historyVars>>

MutReadBeginTakesOdd(r) ==
  /\ rpc[r] = "begin"
  /\ snap' = [snap EXCEPT ![r] = seq]
  /\ at' = [at EXCEPT ![r] = begun]
  /\ left' = [left EXCEPT ![r] = Words]
  /\ rpc' = [rpc EXCEPT ![r] = "copy"]
  /\ UNCHANGED <<lockVars, writerVars, copy, got, historyVars>>

(* read_begin spins while the sequence number is odd.                      *)
ReadBegin(r) ==
  /\ rpc[r] = "begin" /\ seq % 2 = 0
  /\ snap' = [snap EXCEPT ![r] = seq]
  /\ at' = [at EXCEPT ![r] = begun]
  /\ left' = [left EXCEPT ![r] = Words]
  /\ rpc' = [rpc EXCEPT ![r] = "copy"]
  /\ UNCHANGED <<lockVars, writerVars, copy, got, historyVars>>

CopyWord(r) ==
  /\ rpc[r] = "copy"
  /\ \E x \in left[r] :
       /\ copy' = [copy EXCEPT ![r][x] = mem[x]]
       /\ left' = [left EXCEPT ![r] = @ \ {x}]
  /\ UNCHANGED <<lockVars, writerVars, rpc, snap, got, at, historyVars>>

(* _seq and the copy are locals: nothing of them survives the loop body.    *)
ForgetLocals(r) ==
  /\ snap' = [snap EXCEPT ![r] = 0]
  /\ at' = [at EXCEPT ![r] = 0]
  /\ copy' = [copy EXCEPT ![r] = Zeroes]

(* read_end: keep the copy if the sequence number has not moved, otherwise  *)
(* go round the loop.                                                      *)
MutReadEndAlwaysAccepts(r) ==
  /\ rpc[r] = "copy" /\ left[r] = {}
  /\ got' = [got EXCEPT ![r] = copy[r]]
  /\ rpc' = [rpc EXCEPT ![r] = "idle"]
  /\ ForgetLocals(r)
  /\ UNCHANGED <<lockVars, writerVars, left, historyVars>>

ReadEnd(r) ==
  /\ rpc[r] = "copy" /\ left[r] = {}
  /\ IF seq = snap[r]
       THEN /\ got' = [got EXCEPT ![r] = copy[r]]
            /\ rpc' = [rpc EXCEPT ![r] = "idle"]
       ELSE /\ rpc' = [rpc EXCEPT ![r] = "begin"]
            /\ UNCHANGED got
  /\ ForgetLocals(r)
  /\ UNCHANGED <<lockVars, writerVars, left, historyVars>>

-----------------------------------------------------------------------------
WriterStep(w) ==
  Lock(w) \/ WriteBegin(w) \/ StoreWord(w) \/ WriteEnd(w) \/ Unlock(w)

ReaderStep(r) == ReadBegin(r) \/ CopyWord(r) \/ ReadEnd(r)

Next ==
  \/ \E w \in Writers : Request(w) \/ WriterStep(w) \/ Die(w)
  \/ \E r \in Readers : StartRead(r) \/ ReaderStep(r)

Spec == Init /\ [][Next]_vars

(* A process that is inside an operation is scheduled: each is a process of *)
(* its own under the kernel's scheduler and nothing in the guard or in the  *)
(* read loop sleeps.  Starting an operation and being killed are not fair.  *)
FairSpec ==
  /\ Spec
  /\ \A w \in Writers : WF_vars(WriterStep(w))
  /\ \A r \in Readers : WF_vars(ReaderStep(r))

-----------------------------------------------------------------------------
(* Every variable has its type.                                            *)
TypeOK ==
  /\ seq \in 0..(SeqMod - 1)
  /\ mem \in [Words -> Nat]
  /\ mtx \in [st : {"free", "held", "ownerdead", "inconsistent", "unrecoverable"},
              by : Writers \cup {NoOne}]
  /\ wpc \in [Writers -> WriterPc]
  /\ todo \in [Writers -> SUBSET Words]
  /\ target \in [Writers -> SUBSET Words]
  /\ rpc \in [Readers -> ReaderPc]
  /\ snap \in [Readers -> 0..(SeqMod - 1)]
  /\ left \in [Readers -> SUBSET Words]
  /\ copy \in [Readers -> [Words -> Nat]]
  /\ got \in [Readers -> [Words -> Nat]]
  /\ at \in [Readers -> Nat]
  /\ begun \in Nat /\ committed \in [Words -> Nat]
  /\ version \in Nat /\ crashes \in Nat

InGuard(w) == wpc[w] \in {"locked", "writing", "unlocking"}

(* Writers of different processes are never inside their guards together,   *)
(* also after one of them was killed while it held the mutex               *)
(* (SeqlockMWWriteGuard over the robust ProcMutex).                        *)
MutualExclusion ==
  \A v, w \in Writers : InGuard(v) /\ InGuard(w) => v = w

(* A copy that read_end accepts holds no word of an unfinished write, and   *)
(* no two words of different states of the record: it is the record as of  *)
(* the last write_end (SEQLOCK_READ).                                      *)
NoTornRead ==
  \A r \in Readers :
    rpc[r] = "copy" /\ left[r] = {} /\ seq = snap[r] => copy[r] = committed

(* What keeps the writers apart: a writer is inside its guard exactly while *)
(* the mutex names it, and a mutex nobody owns can be taken.               *)
MutexInv ==
  /\ mtx.st \in {"free", "held", "ownerdead"}
  /\ mtx.st # "held" => mtx.by = NoOne
  /\ mtx.st = "held" => mtx.by # NoOne
  /\ \A w \in Writers : InGuard(w) <=> mtx.by = w

Open == \E w \in Writers : wpc[w] = "writing"

(* What the sequence number says: twice the writes ended, plus one while a  *)
(* write is open.                                                          *)
SeqInv ==
  /\ Open => begun = version + 1
  /\ ~Open => begun = version
  /\ seq = (version + begun) % SeqMod

(* What the record holds: the last ended write, and of an open one the      *)
(* words that are already stored.                                          *)
RecordInv ==
  /\ ~Open => mem = committed
  /\ \A w \in Writers :
       /\ wpc[w] \in {"want", "locked"} => todo[w] = target[w]
       /\ wpc[w] = "writing" =>
            /\ todo[w] \subseteq target[w]
            /\ \A x \in Words : mem[x] = IF x \in target[w] \ todo[w]
                                           THEN begun ELSE committed[x]

(* What a reader knows: its snapshot number names the writes begun before   *)
(* it, and as long as no other has begun its copy is of committed words.   *)
ReaderInv ==
  \A r \in Readers : rpc[r] = "copy" =>
    /\ at[r] <= version
    /\ snap[r] = (2 * at[r]) % SeqMod
    /\ 2 * (begun - at[r]) < SeqMod
    /\ begun = at[r] => \A x \in Words \ left[r] : copy[r][x] = committed[x]

(* The inductive invariant behind NoTornRead.                              *)
SeqlockInv == MutexInv /\ SeqInv /\ RecordInv /\ ReaderInv

(* The readers' and writers' steps implement an atomic record whose value   *)
(* is the record as of the last write_end.                                 *)
Atomic == INSTANCE AtomicRecord WITH rec <- committed
AtomicRecordSpec == Atomic!ASpec

(* A reader that has called shm_read_* gets its snapshot, provided the      *)
(* writers eventually pause (MaxWrites).                                   *)
ReadCompletes == \A r \in Readers : rpc[r] # "idle" ~> rpc[r] = "idle"

(* A process that asks for the write guard gets through it: no crash of     *)
(* another process leaves it waiting for ever.                             *)
WriteCompletes == \A w \in Writers : wpc[w] # "idle" ~> wpc[w] = "idle"
=============================================================================
