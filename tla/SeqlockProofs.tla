---------------------------- MODULE SeqlockProofs ----------------------------
(***************************************************************************)
(* What Seqlock.tla promises for every set of processes, every record and  *)
(* every width of the sequence number, proved with TLAPS.                  *)
(***************************************************************************)
EXTENDS Seqlock, Integers, TLAPS

(* Two numbers with the same residue, less than the modulus apart, are      *)
(* equal: the sequence number cannot come back within NoLap.               *)
LEMMA ModApart ==
  ASSUME NEW m \in Nat, m > 0, NEW a \in Nat, NEW b \in Nat,
         a % m = b % m, b <= a, a - b < m
  PROVE  a = b
<1>1. a = m * (a \div m) + (a % m)  BY SMT
<1>2. b = m * (b \div m) + (b % m)  BY SMT
<1> DEFINE p == a \div m  q == b \div m
<1>3. p \in Nat /\ q \in Nat  BY SMT
<1>4. a - b = m * (p - q)  BY <1>1, <1>2, <1>3, SMT
<1>5. p - q < 1  
  <2>1. SUFFICES ASSUME p - q >= 1 PROVE FALSE BY <1>3, SMT
  <2>2. m * (p - q) >= m  BY <2>1, <1>3, SMT
  <2> QED BY <2>2, <1>4, SMT
<1>6. p - q >= 0
  <2>1. SUFFICES ASSUME p - q <= -1 PROVE FALSE BY <1>3, SMT
  <2>2. m * (p - q) <= -m  BY <2>1, <1>3, SMT
  <2> QED BY <2>2, <1>4, SMT
<1>7. p = q BY <1>3, <1>5, <1>6, SMT
<1> QED BY <1>7, <1>4, <1>3, SMT

(* Residues stay in range, follow increments, and keep the parity of the    *)
(* number when the modulus is even.                                        *)
LEMMA ModRange ==
  ASSUME NEW m \in Nat, m > 0, NEW a \in Nat
  PROVE  a % m \in 0..(m - 1)
BY SMT

(* Division leaves one remainder. *)
LEMMA ModUnique ==
  ASSUME NEW m \in Nat, m > 0, NEW a \in Nat, NEW q \in Nat, NEW r \in 0..(m - 1),
         a = m * q + r
  PROVE  a % m = r
<1>1. a = m * (a \div m) + (a % m)  BY SMT
<1>2. a % m \in 0..(m - 1)  BY ModRange
<1>3. a \div m \in Nat  BY SMT
<1>4. m * q + r = m * (a \div m) + (a % m)  BY <1>1
<1> DEFINE p == a \div m  s == a % m
<1>5. m * (q - p) = s - r  BY <1>2, <1>3, <1>4, SMT
<1>6. p \in Nat /\ s \in 0..(m - 1)  BY <1>2, <1>3
<1> HIDE DEF p, s
<1>7. q - p < 1
  <2>1. SUFFICES ASSUME q - p >= 1 PROVE FALSE  BY <1>6, SMT
  <2>2. m * (q - p) >= m  BY <2>1, <1>6, SMT
  <2> QED  BY <2>2, <1>5, <1>6, SMT
<1>8. q - p >= 0
  <2>1. SUFFICES ASSUME q - p <= -1 PROVE FALSE  BY <1>6, SMT
  <2>2. m * (q - p) <= -m  BY <2>1, <1>6, SMT
  <2> QED  BY <2>2, <1>5, <1>6, SMT
<1>9. q = p  BY <1>6, <1>7, <1>8, SMT
<1> QED  BY <1>9, <1>5, <1>6, SMT DEF s

(* The remainder of the successor. *)
LEMMA ModNext ==
  ASSUME NEW m \in Nat, m > 1, NEW a \in Nat
  PROVE  ((a % m) + 1) % m = (a + 1) % m
<1> DEFINE q == a \div m  r == a % m
<1>1. q \in Nat /\ r \in 0..(m - 1) /\ a = m * q + r  BY SMT
<1> HIDE DEF q, r
<1>2. CASE r + 1 < m
  <2>1. a + 1 = m * q + (r + 1)  BY <1>1, SMT
  <2>2. (a + 1) % m = r + 1  BY <1>1, <1>2, <2>1, ModUnique, SMT
  <2>3. (r + 1) % m = r + 1  BY <1>1, <1>2, SMT
  <2> QED  BY <2>2, <2>3 DEF r
<1>3. CASE r + 1 = m
  <2>1. a + 1 = m * (q + 1) + 0  BY <1>1, <1>3, SMT
  <2>2. (a + 1) % m = 0  BY <1>1, <2>1, ModUnique, SMT
  <2>3. (r + 1) % m = 0  BY <1>1, <1>3, SMT
  <2> QED  BY <2>2, <2>3 DEF r
<1> QED  BY <1>1, <1>2, <1>3, SMT

(* With an even modulus a number and its remainder have the same parity. *)
LEMMA ModParity ==
  ASSUME NEW m \in Nat, m > 1, m % 2 = 0, NEW a \in Nat
  PROVE  (a % m) % 2 = a % 2
<1> DEFINE q == a \div m  r == a % m  h == m \div 2
<1>1. q \in Nat /\ r \in Nat /\ a = m * q + r  BY SMT
<1>2. h \in Nat /\ m = 2 * h  BY SMT
<1> HIDE DEF q, r, h
<1>3. a = 2 * (h * q) + r /\ h * q \in Nat  BY <1>1, <1>2, SMT
<1> DEFINE k == h * q
<1>4. k \in Nat /\ a = 2 * k + r  BY <1>3
<1> HIDE DEF k
<1>5. a % 2 = r % 2  BY <1>1, <1>4, SMT
<1> QED  BY <1>5 DEF r

-----------------------------------------------------------------------------
(* Every variable keeps its type, whatever the build and the crashes.      *)
LEMMA TypeInit == Init => TypeOK
BY SeqModAssumption DEF Init, TypeOK, Free, Zeroes, WriterPc, ReaderPc

(* seq_ + 1 is a value of seq_ again: it wraps at SeqMod. *)
LEMMA BumpRange == ASSUME TypeOK PROVE Bump \in 0..(SeqMod - 1)
BY SeqModAssumption, ModRange DEF TypeOK, Bump

(* Each step keeps the types, action by action. *)
LEMMA TypeNext == TypeOK /\ [Next]_vars => TypeOK'
<1> SUFFICES ASSUME TypeOK, [Next]_vars PROVE TypeOK'
  OBVIOUS
<1> USE SeqModAssumption DEF TypeOK, WriterPc, ReaderPc, lockVars, writerVars,
                             readerVars, historyVars
<1>1. ASSUME NEW w \in Writers, Request(w) PROVE TypeOK'
  BY <1>1 DEF Request
<1>2. ASSUME NEW w \in Writers, Lock(w) PROVE TypeOK'
  <2>1. AfterLock(w) \in [st : {"free", "held", "ownerdead", "inconsistent",
                                "unrecoverable"}, by : Writers \cup {NoOne}]
    BY DEF AfterLock
  <2> QED  BY <1>2, <2>1 DEF Lock
<1>3. ASSUME NEW w \in Writers, WriteBegin(w) PROVE TypeOK'
  BY <1>3, BumpRange DEF WriteBegin
<1>4. ASSUME NEW w \in Writers, StoreWord(w) PROVE TypeOK'
  BY <1>4 DEF StoreWord
<1>5. ASSUME NEW w \in Writers, WriteEnd(w) PROVE TypeOK'
  BY <1>5, BumpRange DEF WriteEnd
<1>6. ASSUME NEW w \in Writers, Unlock(w) PROVE TypeOK'
  BY <1>6 DEF Unlock, AfterUnlock, Free
<1>7. ASSUME NEW w \in Writers, Die(w) PROVE TypeOK'
  BY <1>7 DEF Die, AfterDeath
<1>8. ASSUME NEW r \in Readers, StartRead(r) PROVE TypeOK'
  BY <1>8 DEF StartRead
<1>9. ASSUME NEW r \in Readers, ReadBegin(r) PROVE TypeOK'
  BY <1>9 DEF ReadBegin
<1>10. ASSUME NEW r \in Readers, CopyWord(r) PROVE TypeOK'
  BY <1>10 DEF CopyWord
<1>11. ASSUME NEW r \in Readers, ReadEnd(r) PROVE TypeOK'
  <2>1. Zeroes \in [Words -> Nat] /\ 0 \in 0..(SeqMod - 1)
    BY DEF Zeroes
  <2>2. ForgetLocals(r)
    BY <1>11 DEF ReadEnd
  <2>3. /\ snap' \in [Readers -> 0..(SeqMod - 1)]
        /\ at' \in [Readers -> Nat]
        /\ copy' \in [Readers -> [Words -> Nat]]
    BY <2>1, <2>2 DEF ForgetLocals
  <2>4. rpc' \in [Readers -> ReaderPc] /\ got' \in [Readers -> [Words -> Nat]]
    BY <1>11 DEF ReadEnd
  <2> QED  BY <1>11, <2>3, <2>4 DEF ReadEnd
<1>12. CASE UNCHANGED vars
  BY <1>12 DEF vars
<1> QED
  BY <1>1, <1>2, <1>3, <1>4, <1>5, <1>6, <1>7, <1>8, <1>9, <1>10, <1>11, <1>12
     DEF Next, WriterStep, ReaderStep

(* Type correctness of the seqlock and its mutex (lib/ipc/seqlock.h).      *)
THEOREM TypeCorrect == Spec => []TypeOK
BY TypeInit, TypeNext, PTL DEF Spec

-----------------------------------------------------------------------------
(* The mutex: no assumption on the build, and a writer may be killed        *)
(* anywhere in its guard.                                                  *)
LEMMA MutexInit == Init => MutexInv
BY NoOneAssumption DEF Init, MutexInv, Free, InGuard

(* Each step keeps the owner of the mutex and the writer in its guard the same. *)
LEMMA MutexNext == TypeOK /\ MutexInv /\ [Next]_vars => MutexInv'
<1> SUFFICES ASSUME TypeOK, MutexInv, [Next]_vars PROVE MutexInv'
  OBVIOUS
<1> USE NoOneAssumption, MayDieAssumption DEF MutexInv, InGuard
<1>1. ASSUME NEW w \in Writers, Request(w) PROVE MutexInv'
  BY <1>1 DEF Request, TypeOK, lockVars
<1>2. ASSUME NEW w \in Writers, Lock(w) PROVE MutexInv'
  <2>1. mtx' = [st |-> "held", by |-> w]
    BY <1>2 DEF Lock, AfterLock
  <2>2. \A v \in Writers : ~InGuard(v)
    BY <1>2 DEF Lock
  <2> QED  BY <1>2, <2>1, <2>2 DEF Lock, TypeOK
<1>3. ASSUME NEW w \in Writers, WriteBegin(w) PROVE MutexInv'
  BY <1>3 DEF WriteBegin, TypeOK
<1>4. ASSUME NEW w \in Writers, StoreWord(w) PROVE MutexInv'
  BY <1>4 DEF StoreWord
<1>5. ASSUME NEW w \in Writers, WriteEnd(w) PROVE MutexInv'
  BY <1>5 DEF WriteEnd, TypeOK
<1>6. ASSUME NEW w \in Writers, Unlock(w) PROVE MutexInv'
  <2>1. mtx.by = w  BY <1>6 DEF Unlock
  <2>2. mtx' = Free  BY <1>6, <2>1 DEF Unlock, AfterUnlock
  <2> QED  BY <1>6, <2>1, <2>2 DEF Unlock, Free, TypeOK
<1>7. ASSUME NEW w \in Writers, Die(w) PROVE MutexInv'
  <2>1. mtx.by = w  BY <1>7 DEF Die
  <2>2. mtx' = [st |-> "ownerdead", by |-> NoOne]
    BY <1>7, <2>1 DEF Die, AfterDeath
  <2> QED  BY <1>7, <2>1, <2>2 DEF Die, TypeOK
<1>8. ASSUME NEW r \in Readers, StartRead(r) \/ ReadBegin(r) \/ CopyWord(r) \/ ReadEnd(r)
      PROVE MutexInv'
  BY <1>8 DEF StartRead, ReadBegin, CopyWord, ReadEnd, lockVars, writerVars
<1>9. CASE UNCHANGED vars
  BY <1>9 DEF vars
<1> QED
  BY <1>1, <1>2, <1>3, <1>4, <1>5, <1>6, <1>7, <1>8, <1>9
     DEF Next, WriterStep, ReaderStep

(* Writers exclude one another even when one of them is killed while it     *)
(* holds the robust mutex (ProcMutex::lock, EOWNERDEAD).                    *)
THEOREM WritersExclude == Spec => []MutualExclusion
<1>1. MutexInv => MutualExclusion
  BY DEF MutexInv, MutualExclusion
<1> QED
  BY <1>1, TypeCorrect, MutexInit, MutexNext, PTL DEF Spec
-----------------------------------------------------------------------------
(* From here on the build keeps the order of the stores, and no writer is   *)
(* killed while its write is open.                                         *)
Orderly == ~Reordering /\ "writing" \notin MayDieAt

(* The inductive invariant holds of the segment create_and_init leaves. *)
LEMMA InvInit == Init => SeqlockInv
<1> SUFFICES ASSUME Init PROVE SeqlockInv
  OBVIOUS
<1>1. MutexInv  BY MutexInit
<1>2. ~Open  BY DEF Init, Open
<1>3. SeqInv  BY <1>2, SeqModAssumption DEF Init, SeqInv
<1>4. RecordInv  BY <1>2 DEF Init, RecordInv
<1>5. ReaderInv  BY DEF Init, ReaderInv
<1> QED  BY <1>1, <1>3, <1>4, <1>5 DEF SeqlockInv

(* Only one write is open at a time, and its writer holds the mutex.       *)
LEMMA OnlyWriter ==
  ASSUME MutexInv, NEW w \in Writers, InGuard(w),
         NEW v \in Writers, v # w
  PROVE  ~InGuard(v)
BY DEF MutexInv

(* seq is even exactly while no write is open.                             *)
LEMMA SeqParity ==
  ASSUME TypeOK, SeqInv
  PROVE  seq % 2 = 0 <=> ~Open
<1>1. version + begun \in Nat  BY DEF TypeOK
<1>2. seq % 2 = (version + begun) % 2
  BY <1>1, SeqModAssumption, ModParity DEF SeqInv
<1>3. CASE Open
  <2>1. version + begun = 2 * version + 1  BY <1>3 DEF SeqInv, TypeOK
  <2>2. (2 * version + 1) % 2 = 1  BY DEF TypeOK
  <2> QED  BY <1>2, <1>3, <2>1, <2>2
<1>4. CASE ~Open
  <2>1. version + begun = 2 * version  BY <1>4 DEF SeqInv, TypeOK
  <2>2. (2 * version) % 2 = 0  BY DEF TypeOK
  <2> QED  BY <1>2, <1>4, <2>1, <2>2
<1> QED  BY <1>3, <1>4

(* The heart of the algorithm: a snapshot number that is still current says  *)
(* that no write has begun since and none is open.                         *)
LEMMA SnapCurrent ==
  ASSUME TypeOK, SeqInv, ReaderInv, NEW r \in Readers,
         rpc[r] = "copy", seq = snap[r]
  PROVE  begun = at[r] /\ version = at[r] /\ ~Open
<1> DEFINE a == version + begun  b == 2 * at[r]
<1>1. /\ version \in Nat /\ begun \in Nat /\ at[r] \in Nat
      /\ at[r] <= version /\ version <= begun /\ begun <= version + 1
  BY DEF TypeOK, SeqInv, ReaderInv
<1>2. a \in Nat /\ b \in Nat /\ b <= a  BY <1>1
<1>3. a - b < SeqMod
  <2>1. 2 * (begun - at[r]) < SeqMod  BY DEF ReaderInv
  <2> QED  BY <1>1, <2>1, SeqModAssumption
<1>4. a % SeqMod = b % SeqMod  BY DEF SeqInv, ReaderInv
<1> HIDE DEF a, b
<1>5. a = b
  <2>1. SeqMod \in Nat /\ SeqMod > 0  BY SeqModAssumption
  <2> QED  BY <1>2, <1>3, <1>4, <2>1, ModApart
<1>6. begun = at[r] /\ version = at[r]  BY <1>1, <1>5 DEF a, b
<1> QED  BY <1>6, <1>1 DEF SeqInv

(* write_begin opens a write and leaves every running copy outdated. *)
LEMMA WriteBeginInv ==
  ASSUME TypeOK, SeqlockInv, NEW w \in Writers, WriteBegin(w)
  PROVE  SeqInv' /\ RecordInv' /\ ReaderInv'
<1> USE DEF WriteBegin, readerVars
<1>1. \A v \in Writers \ {w} : ~InGuard(v)
  BY OnlyWriter DEF SeqlockInv, InGuard
<1>2. ~Open  BY <1>1 DEF Open, InGuard
<1>3. Open'  BY DEF Open, TypeOK
<1>4. SeqInv'
  <2>1. begun' = begun + 1 /\ version' = version /\ begun = version
    BY <1>2 DEF SeqlockInv, SeqInv
  <2>2. seq' = (version' + begun') % SeqMod
    <3>1. version + begun \in Nat  BY DEF TypeOK
    <3>2. seq' = (version + begun + 1) % SeqMod
      BY <3>1, SeqModAssumption, ModNext DEF SeqlockInv, SeqInv, Bump
    <3> QED  BY <2>1, <3>2 DEF TypeOK
  <2> QED  BY <1>3, <2>1, <2>2 DEF SeqInv
<1>5. RecordInv'
  <2>1. todo[w] = target[w] /\ mem = committed
    BY <1>2 DEF SeqlockInv, RecordInv
  <2> QED  BY <1>1, <1>3, <2>1 DEF SeqlockInv, RecordInv, InGuard, TypeOK, WriterPc
<1>6. ReaderInv'
  <2> SUFFICES ASSUME NEW r \in Readers, rpc[r] = "copy"
               PROVE  /\ at[r] <= version
                      /\ snap[r] = (2 * at[r]) % SeqMod
                      /\ 2 * (begun' - at[r]) < SeqMod
                      /\ begun' # at[r]
    BY DEF ReaderInv
  <2>1. /\ at[r] <= version /\ snap[r] = (2 * at[r]) % SeqMod /\ begun = version
    BY <1>2 DEF SeqlockInv, ReaderInv, SeqInv
  <2>2. 2 * (begun - at[r]) + 2 < SeqMod  BY DEF NoLap
  <2>3. begun \in Nat /\ at[r] \in Nat /\ begun' = begun + 1  BY DEF TypeOK
  <2> QED  BY <2>1, <2>2, <2>3, SeqModAssumption
<1> QED  BY <1>4, <1>5, <1>6

(* A store inside an open write touches only the words of that write. *)
LEMMA StoreWordInv ==
  ASSUME Orderly, TypeOK, SeqlockInv, NEW w \in Writers, StoreWord(w)
  PROVE  SeqInv' /\ RecordInv' /\ ReaderInv'
<1>1. wpc[w] = "writing"  BY DEF StoreWord, Orderly
<1>2. \A v \in Writers \ {w} : ~InGuard(v)
  BY <1>1, OnlyWriter DEF SeqlockInv, InGuard
<1>3. Open /\ Open'  BY <1>1 DEF Open, StoreWord
<1>4. SeqInv'
  BY <1>3 DEF SeqlockInv, SeqInv, StoreWord, historyVars
<1>5. PICK x \in todo[w] : /\ mem' = [mem EXCEPT ![x] = begun]
                          /\ todo' = [todo EXCEPT ![w] = @ \ {x}]
  BY <1>1 DEF StoreWord
<1>6. RecordInv'
  <2>1. \A v \in Writers : wpc'[v] \in {"want", "locked"} => todo'[v] = target'[v]
    BY <1>1, <1>5 DEF SeqlockInv, RecordInv, StoreWord, TypeOK
  <2>2. \A v \in Writers : wpc'[v] = "writing" => v = w
    BY <1>2 DEF StoreWord, InGuard
  <2>3. \A y \in Words : mem'[y] = IF y \in target'[w] \ todo'[w]
                                   THEN begun' ELSE committed'[y]
    <3> SUFFICES ASSUME NEW y \in Words
                 PROVE  mem'[y] = IF y \in target[w] \ todo'[w]
                                  THEN begun ELSE committed[y]
      BY DEF StoreWord, historyVars
    <3>1. mem[y] = IF y \in target[w] \ todo[w] THEN begun ELSE committed[y]
      BY <1>1 DEF SeqlockInv, RecordInv
    <3>2. x \in target[w]
      <4> todo[w] \subseteq target[w]  BY <1>1 DEF SeqlockInv, RecordInv
      <4> QED  BY <1>5
    <3>3. todo'[w] = todo[w] \ {x}  BY <1>5 DEF TypeOK
    <3>4. CASE y = x  BY <3>2, <3>3, <3>4, <1>5 DEF TypeOK
    <3>5. CASE y # x  BY <3>1, <3>3, <3>5, <1>5 DEF TypeOK
    <3> QED  BY <3>4, <3>5
  <2>4. todo'[w] \subseteq target'[w]
    BY <1>1, <1>5 DEF SeqlockInv, RecordInv, StoreWord, TypeOK
  <2> QED  BY <1>3, <2>1, <2>2, <2>3, <2>4 DEF RecordInv
<1>7. ReaderInv'
  BY DEF SeqlockInv, ReaderInv, StoreWord, readerVars, historyVars
<1> QED  BY <1>4, <1>6, <1>7

(* write_end makes the record of the open write the committed one. *)
LEMMA WriteEndInv ==
  ASSUME TypeOK, SeqlockInv, NEW w \in Writers, WriteEnd(w)
  PROVE  SeqInv' /\ RecordInv' /\ ReaderInv'
<1> USE DEF WriteEnd, readerVars
<1>1. \A v \in Writers \ {w} : ~InGuard(v)
  BY OnlyWriter DEF SeqlockInv, InGuard
<1>2. Open  BY DEF Open
<1>3. ~Open'  BY <1>1 DEF Open, InGuard, TypeOK
<1>4. begun = version + 1 /\ version' = version + 1 /\ begun' = begun
  BY <1>2 DEF SeqlockInv, SeqInv
<1>5. SeqInv'
  <2>1. version + begun \in Nat  BY DEF TypeOK
  <2>2. seq' = (version + begun + 1) % SeqMod
    BY <2>1, SeqModAssumption, ModNext DEF SeqlockInv, SeqInv, Bump
  <2>3. version + begun + 1 = version' + begun'  BY <1>4 DEF TypeOK
  <2> QED  BY <1>3, <1>4, <2>2, <2>3 DEF SeqInv, TypeOK
<1>6. RecordInv'
  BY <1>1, <1>3 DEF SeqlockInv, RecordInv, InGuard, TypeOK
<1>7. ReaderInv'
  <2> SUFFICES ASSUME NEW r \in Readers, rpc[r] = "copy"
               PROVE  /\ at[r] <= version'
                      /\ snap[r] = (2 * at[r]) % SeqMod
                      /\ 2 * (begun - at[r]) < SeqMod
                      /\ begun # at[r]
    BY <1>4 DEF ReaderInv
  <2> QED  BY <1>4 DEF SeqlockInv, ReaderInv, TypeOK
<1> QED  BY <1>5, <1>6, <1>7

(* The steps of a writer outside its open write leave the record alone.     *)
LEMMA WriterOutsideInv ==
  ASSUME Orderly, TypeOK, SeqlockInv, NEW w \in Writers,
         Request(w) \/ Lock(w) \/ Unlock(w) \/ Die(w)
  PROVE  SeqInv' /\ RecordInv' /\ ReaderInv'
<1> USE DEF Request, Lock, Unlock, Die, lockVars, readerVars, historyVars
<1>1. wpc[w] # "writing" /\ wpc'[w] # "writing"
  BY DEF Orderly, TypeOK
<1>2. \A v \in Writers : wpc'[v] = "writing" <=> wpc[v] = "writing"
  BY <1>1 DEF TypeOK
<1>3. Open' <=> Open  BY <1>2 DEF Open
<1>4. UNCHANGED <<seq, mem, begun, committed, version, readerVars>>
  OBVIOUS
<1>5. SeqInv'  BY <1>3, <1>4 DEF SeqlockInv, SeqInv
<1>6. RecordInv'
  <2>1. \A v \in Writers \ {w} : /\ wpc'[v] = wpc[v] /\ todo'[v] = todo[v]
                                 /\ target'[v] = target[v]
    BY DEF TypeOK
  <2>2. wpc'[w] \in {"want", "locked"} => todo'[w] = target'[w]
    BY DEF SeqlockInv, RecordInv, TypeOK
  <2> QED  BY <1>1, <1>3, <1>4, <2>1, <2>2 DEF SeqlockInv, RecordInv
<1>7. ReaderInv'  BY <1>4 DEF SeqlockInv, ReaderInv
<1> QED  BY <1>5, <1>6, <1>7

(* What a reader copies between two equal, even numbers is committed. *)
LEMMA ReaderStepInv ==
  ASSUME TypeOK, SeqlockInv, NEW r \in Readers,
         StartRead(r) \/ ReadBegin(r) \/ CopyWord(r) \/ ReadEnd(r)
  PROVE  SeqInv' /\ RecordInv' /\ ReaderInv'
<1> USE DEF lockVars, writerVars, historyVars
<1>1. UNCHANGED <<lockVars, writerVars, historyVars>>
  BY DEF StartRead, ReadBegin, CopyWord, ReadEnd
<1>2. SeqInv' /\ RecordInv'
  BY <1>1 DEF SeqlockInv, SeqInv, RecordInv, Open
<1>3. ASSUME NEW q \in Readers, q # r, rpc'[q] = "copy"
      PROVE  /\ at'[q] = at[q] /\ snap'[q] = snap[q] /\ rpc[q] = "copy"
             /\ left'[q] = left[q] /\ copy'[q] = copy[q]
  BY <1>3 DEF StartRead, ReadBegin, CopyWord, ReadEnd, ForgetLocals, TypeOK
<1>4. CASE StartRead(r) \/ ReadEnd(r)
  <2>1. rpc'[r] # "copy"  BY <1>4 DEF StartRead, ReadEnd, TypeOK
  <2> QED  BY <1>1, <1>2, <1>3, <2>1 DEF SeqlockInv, ReaderInv
<1>5. CASE ReadBegin(r)
  <2>1. ~Open  BY <1>5, SeqParity DEF SeqlockInv, ReadBegin
  <2>2. begun = version  BY <2>1 DEF SeqlockInv, SeqInv
  <2>3. snap'[r] = (2 * at'[r]) % SeqMod /\ at'[r] = version
    <3>1. snap'[r] = (version + begun) % SeqMod /\ at'[r] = begun
      BY <1>5 DEF ReadBegin, SeqlockInv, SeqInv, TypeOK
    <3>2. version + begun = 2 * begun  BY <2>2 DEF TypeOK
    <3> QED  BY <2>2, <3>1, <3>2
  <2>4. left'[r] = Words  BY <1>5 DEF ReadBegin, TypeOK
  <2>5. 2 * (begun' - at'[r]) < SeqMod
    BY <1>1, <2>2, <2>3, SeqModAssumption DEF TypeOK
  <2>6. at'[r] <= version  BY <2>3 DEF TypeOK
  <2>7. ReaderInv'
    <3> SUFFICES ASSUME NEW q \in Readers, rpc'[q] = "copy"
                 PROVE  /\ at'[q] <= version
                        /\ snap'[q] = (2 * at'[q]) % SeqMod
                        /\ 2 * (begun - at'[q]) < SeqMod
                        /\ begun = at'[q] =>
                             \A x \in Words \ left'[q] : copy'[q][x] = committed[x]
      BY <1>1 DEF ReaderInv
    <3>1. CASE q = r  BY <1>1, <2>3, <2>4, <2>5, <2>6, <3>1
    <3>2. CASE q # r  BY <1>3, <3>2 DEF SeqlockInv, ReaderInv
    <3> QED  BY <3>1, <3>2
  <2> QED  BY <1>2, <2>7
<1>6. CASE CopyWord(r)
  <2>1. PICK x \in left[r] : /\ copy' = [copy EXCEPT ![r][x] = mem[x]]
                            /\ left' = [left EXCEPT ![r] = @ \ {x}]
    BY <1>6 DEF CopyWord
  <2>2. UNCHANGED <<rpc, snap, at>> /\ rpc[r] = "copy"  BY <1>6 DEF CopyWord
  <2>3. ASSUME begun = at[r], NEW y \in Words \ left'[r]
        PROVE  copy'[r][y] = committed[y]
    <3>1. version = begun /\ mem = committed
      <4>1. at[r] <= version  BY <2>2 DEF SeqlockInv, ReaderInv
      <4>2. ~Open  BY <2>3, <4>1 DEF SeqlockInv, SeqInv, TypeOK
      <4> QED  BY <4>2 DEF SeqlockInv, SeqInv, RecordInv
    <3>2. CASE y = x
      BY <2>1, <3>1, <3>2 DEF TypeOK
    <3>3. CASE y # x
      <4>1. y \notin left[r]  BY <2>1, <2>3, <3>3 DEF TypeOK
      <4>2. copy[r][y] = committed[y]
        BY <2>2, <2>3, <4>1 DEF SeqlockInv, ReaderInv
      <4> QED  BY <2>1, <3>3, <4>2 DEF TypeOK
    <3> QED  BY <3>2, <3>3
  <2> QED  BY <1>1, <1>2, <1>3, <2>2, <2>3 DEF SeqlockInv, ReaderInv
<1> QED  BY <1>4, <1>5, <1>6

(* Each step of an orderly build keeps the inductive invariant. *)
LEMMA InvNext == Orderly /\ TypeOK /\ SeqlockInv /\ [Next]_vars => SeqlockInv'
<1> SUFFICES ASSUME Orderly, TypeOK, SeqlockInv, [Next]_vars PROVE SeqlockInv'
  OBVIOUS
<1>1. MutexInv'  BY MutexNext DEF SeqlockInv
<1>2. SeqInv' /\ RecordInv' /\ ReaderInv'
  <2>1. ASSUME NEW w \in Writers, Request(w) \/ WriterStep(w) \/ Die(w)
        PROVE  SeqInv' /\ RecordInv' /\ ReaderInv'
    BY <2>1, WriterOutsideInv, WriteBeginInv, StoreWordInv, WriteEndInv
       DEF WriterStep
  <2>2. ASSUME NEW r \in Readers, StartRead(r) \/ ReaderStep(r)
        PROVE  SeqInv' /\ RecordInv' /\ ReaderInv'
    BY <2>2, ReaderStepInv DEF ReaderStep
  <2>3. CASE UNCHANGED vars
    BY <2>3 DEF vars, SeqlockInv, SeqInv, RecordInv, ReaderInv, Open
  <2> QED  BY <2>1, <2>2, <2>3 DEF Next
<1> QED  BY <1>1, <1>2 DEF SeqlockInv

(* The inductive invariant behind SEQLOCK_READ holds in every orderly build. *)
THEOREM Invariance == ASSUME Orderly PROVE Spec => [](TypeOK /\ SeqlockInv)
<1>1. Init => TypeOK /\ SeqlockInv  BY TypeInit, InvInit
<1>2. TypeOK /\ SeqlockInv /\ [Next]_vars => (TypeOK /\ SeqlockInv)'
  BY TypeNext, InvNext
<1> QED  BY <1>1, <1>2, PTL DEF Spec

(* SEQLOCK_READ returns no torn record (seqlock.h: the copy is valid when   *)
(* the sequence number has not moved), as long as the build keeps          *)
(* write_begin ahead of the data and no writer dies with its write open.   *)
THEOREM NoTornReadCorrect == ASSUME Orderly PROVE Spec => []NoTornRead
<1>1. TypeOK /\ SeqlockInv => NoTornRead
  <2> SUFFICES ASSUME TypeOK, SeqlockInv, NEW r \in Readers,
                      rpc[r] = "copy", left[r] = {}, seq = snap[r]
               PROVE  copy[r] = committed
    BY DEF NoTornRead
  <2>1. begun = at[r]  BY SnapCurrent DEF SeqlockInv
  <2>2. \A x \in Words : copy[r][x] = committed[x]
    BY <2>1 DEF SeqlockInv, ReaderInv
  <2> QED  BY <2>2 DEF TypeOK
<1> QED  BY <1>1, Invariance, PTL

-----------------------------------------------------------------------------
(* Refinement: write_end is the atomic write, an accepting read_end the     *)
(* atomic read, and every other step is invisible.                         *)
LEMMA RefineInit == Init => Atomic!AInit
BY DEF Init, Atomic!AInit, Zeroes

(* Each step is an atomic write, an atomic read, or invisible. *)
LEMMA RefineNext ==
  Orderly /\ TypeOK /\ SeqlockInv /\ [Next]_vars => [Atomic!ANext]_(Atomic!avars)
<1> SUFFICES ASSUME Orderly, TypeOK, SeqlockInv, [Next]_vars
             PROVE  [Atomic!ANext]_(Atomic!avars)
  OBVIOUS
<1> USE DEF Atomic!avars
<1>1. ASSUME NEW w \in Writers, WriteEnd(w)
      PROVE  Atomic!AWrite(target[w])
  <2>1. Open  BY <1>1 DEF WriteEnd, Open
  <2>2. begun = version + 1  BY <2>1 DEF SeqlockInv, SeqInv
  <2>3. \A x \in Words : mem[x] = IF x \in target[w] THEN version' ELSE committed[x]
    BY <1>1, <2>2 DEF WriteEnd, SeqlockInv, RecordInv
  <2>4. committed' = [x \in Words |-> IF x \in target[w] THEN version' ELSE committed[x]]
    BY <1>1, <2>3 DEF WriteEnd, TypeOK
  <2> QED  BY <1>1, <2>4 DEF WriteEnd, Atomic!AWrite, readerVars
<1>2. ASSUME NEW r \in Readers, ReadEnd(r), seq = snap[r]
      PROVE  Atomic!ARead(r)
  <2>1. begun = at[r]  BY <1>2, SnapCurrent DEF SeqlockInv, ReadEnd
  <2>2. \A x \in Words : copy[r][x] = committed[x]
    BY <1>2, <2>1 DEF SeqlockInv, ReaderInv, ReadEnd
  <2>3. copy[r] = committed  BY <2>2 DEF TypeOK
  <2> QED  BY <1>2, <2>3 DEF ReadEnd, Atomic!ARead, historyVars
<1>3. ASSUME NEW r \in Readers, ReadEnd(r), seq # snap[r]
      PROVE  UNCHANGED Atomic!avars
  BY <1>3 DEF ReadEnd, historyVars
<1>4. ASSUME NEW w \in Writers,
             \/ Request(w) \/ Lock(w) \/ WriteBegin(w)
             \/ StoreWord(w) \/ Unlock(w) \/ Die(w)
      PROVE  UNCHANGED Atomic!avars
  BY <1>4 DEF Request, Lock, WriteBegin, StoreWord, Unlock, Die,
              readerVars, historyVars
<1>5. ASSUME NEW r \in Readers, StartRead(r) \/ ReadBegin(r) \/ CopyWord(r)
      PROVE  UNCHANGED Atomic!avars
  BY <1>5 DEF StartRead, ReadBegin, CopyWord, historyVars
<1>6. CASE UNCHANGED vars  BY <1>6 DEF vars
<1>7. ASSUME NEW w \in Writers, WriteEnd(w) PROVE Atomic!ANext
  <2>1. target[w] \in SUBSET Words  BY DEF TypeOK
  <2> QED  BY <1>1, <1>7, <2>1 DEF Atomic!ANext
<1>8. ASSUME NEW r \in Readers, ReadEnd(r), seq = snap[r] PROVE Atomic!ANext
  BY <1>2, <1>8 DEF Atomic!ANext
<1> QED
  BY <1>3, <1>4, <1>5, <1>6, <1>7, <1>8 DEF Next, WriterStep, ReaderStep

(* Under the same assumptions the word-by-word seqlock implements a record  *)
(* that is written and read in one step.                                   *)
THEOREM ImplementsAtomicRecord == ASSUME Orderly PROVE Spec => AtomicRecordSpec
BY RefineInit, RefineNext, Invariance, PTL DEF Spec, AtomicRecordSpec, Atomic!ASpec
=============================================================================
