------------------------- MODULE UBootEnvImageProofs -------------------------
(***************************************************************************)
(* What the shared image and the partition hold, for any number of         *)
(* processes and files: the partition is valid outside an erase and a      *)
(* write, the lists of the processes agree with the image, refcnt covers   *)
(* the users of a file, and an update that succeeds is on the partition.   *)
(***************************************************************************)
EXTENDS UBootEnvProofs, FiniteSetTheorems

\* The program counters by what they are made of.
LEMMA PcSets ==
    /\ InLock = {"unlock_load", "unlock_op", "unlock_rel", "load_read", "load_parse", "check",
                 "ser0", "ser1", "crc", "erase", "write", "rel_dec"}
    /\ Saving = {"ser0", "ser1", "crc", "erase", "write"}
    /\ LockPcs = {"lock_load", "lock_op", "lock_rel"}
    /\ UnlockPcs = {"unlock_load", "unlock_op", "unlock_rel"}
  BY DEF InLock, Saving, LockPcs, UnlockPcs

-----------------------------------------------------------------------------
(* The partition.                                                          *)

\* What is about to be written carries its own CRC, and only MTD is erased.
Written ==
    ~forced => \A q \in Procs :
        pc[q] \in {"erase", "write"} => imgCrc[map[q]] = imgEnv[map[q]]
Erased == \A q \in Procs : pc[q] = "erase" => IsMtd

FInv == Written /\ Erased /\ FlashValid

\* The partition is valid when the device is new.
LEMMA InitFInv == Init => FInv
  BY DEF Init, FInv, Written, Erased, FlashValid

\* bootenv_init keeps the partition valid.
LEMMA Flash_bootenv_init ==
    ASSUME NEW p \in Procs, IInv, IInv', FInv, bootenv_init(p) PROVE FInv'
<1>. USE DEF FInv, bootenv_init, Go, shmVars, flashVars, procVars, histVars, bounds
<1>1. Written'  BY PcSets DEF IInv, TypeOK, MapOK, MutexUnlessForced, Written
<1>2. Erased'  BY DEF IInv, TypeOK, Erased
<1>3. FlashValid'  BY DEF IInv, TypeOK, Written, Erased, FlashValid
<1>. QED  BY <1>1, <1>2, <1>3

\* acquire_envimg_buffer keeps the partition valid.
LEMMA Flash_acquire_envimg_buffer ==
    ASSUME NEW p \in Procs, IInv, IInv', FInv, acquire_envimg_buffer(p) PROVE FInv'
<1>. USE DEF FInv, acquire_envimg_buffer, Go, shmVars, flashVars, procVars, histVars,
  bounds, OpenShm, Free
<1>1. Written'  BY PcSets DEF IInv, TypeOK, MapOK, MutexUnlessForced, Written
<1>2. Erased'  BY DEF IInv, TypeOK, Erased
<1>3. FlashValid'  BY DEF IInv, TypeOK, Written, Erased, FlashValid
<1>. QED  BY <1>1, <1>2, <1>3

\* AcquireFails keeps the partition valid.
LEMMA Flash_AcquireFails ==
    ASSUME NEW p \in Procs, IInv, IInv', FInv, AcquireFails(p) PROVE FInv'
<1>. USE DEF FInv, AcquireFails, Go, shmVars, flashVars, procVars, histVars, bounds,
  OpenShm, Free, Fault
<1>1. Written'  BY PcSets DEF IInv, TypeOK, MapOK, MutexUnlessForced, Written
<1>2. Erased'  BY DEF IInv, TypeOK, Erased
<1>3. FlashValid'  BY DEF IInv, TypeOK, Written, Erased, FlashValid
<1>. QED  BY <1>1, <1>2, <1>3

\* AcquireSegv keeps the partition valid.
LEMMA Flash_AcquireSegv ==
    ASSUME NEW p \in Procs, IInv, IInv', FInv, AcquireSegv(p) PROVE FInv'
<1>. USE DEF FInv, AcquireSegv, Go, shmVars, flashVars, procVars, histVars, bounds, Vanish
<1>1. Written'  BY PcSets DEF IInv, TypeOK, MapOK, MutexUnlessForced, Written
<1>2. Erased'  BY DEF IInv, TypeOK, Erased
<1>3. FlashValid'  BY DEF IInv, TypeOK, Written, Erased, FlashValid
<1>. QED  BY <1>1, <1>2, <1>3

\* envimg_buffer_lock keeps the partition valid.
LEMMA Flash_envimg_buffer_lock ==
    ASSUME NEW p \in Procs, IInv, IInv', FInv, envimg_buffer_lock(p) PROVE FInv'
<1>. USE DEF FInv, envimg_buffer_lock, Go, shmVars, flashVars, procVars, histVars, bounds,
  LockFree, AfterLock
<1>1. Written'  BY PcSets DEF IInv, TypeOK, MapOK, MutexUnlessForced, Written
<1>2. Erased'  BY DEF IInv, TypeOK, Erased
<1>3. FlashValid'
  <2>1. \A q \in Procs : pc[q] = "write" => pc'[q] = "write"
    BY PcSets DEF IInv, TypeOK
  <2>. QED  BY <2>1 DEF FlashValid
<1>. QED  BY <1>1, <1>2, <1>3

\* LockTimeout keeps the partition valid.
LEMMA Flash_LockTimeout ==
    ASSUME NEW p \in Procs, IInv, IInv', FInv, LockTimeout(p) PROVE FInv'
<1>. USE DEF FInv, LockTimeout, Go, shmVars, flashVars, procVars, histVars, bounds,
  AfterLock
<1>1. Written'  BY PcSets DEF IInv, TypeOK, MapOK, MutexUnlessForced, Written
<1>2. Erased'  BY DEF IInv, TypeOK, Erased
<1>3. FlashValid'
  <2>1. \A q \in Procs : pc[q] = "write" => pc'[q] = "write"
    BY PcSets DEF IInv, TypeOK
  <2>. QED  BY <2>1 DEF FlashValid
<1>. QED  BY <1>1, <1>2, <1>3

\* envimg_buffer_unlock keeps the partition valid.
LEMMA Flash_envimg_buffer_unlock ==
    ASSUME NEW p \in Procs, IInv, IInv', FInv, envimg_buffer_unlock(p) PROVE FInv'
<1>. USE DEF FInv, envimg_buffer_unlock, Go, shmVars, flashVars, procVars, histVars,
  bounds, AfterUnlock, NextTry
<1>1. Written'  BY PcSets DEF IInv, TypeOK, MapOK, MutexUnlessForced, Written
<1>2. Erased'  BY DEF IInv, TypeOK, Erased
<1>3. FlashValid'  BY DEF IInv, TypeOK, Written, Erased, FlashValid
<1>. QED  BY <1>1, <1>2, <1>3

\* UnlockAborts keeps the partition valid.
LEMMA Flash_UnlockAborts ==
    ASSUME NEW p \in Procs, IInv, IInv', FInv, UnlockAborts(p) PROVE FInv'
<1>. USE DEF FInv, UnlockAborts, Go, shmVars, flashVars, procVars, histVars, bounds, Vanish
<1>1. Written'  BY PcSets DEF IInv, TypeOK, MapOK, MutexUnlessForced, Written
<1>2. Erased'  BY DEF IInv, TypeOK, Erased
<1>3. FlashValid'
  <2>1. \A q \in Procs : pc[q] = "write" => pc'[q] = "write"
    BY PcSets DEF IInv, TypeOK
  <2>. QED  BY <2>1 DEF FlashValid
<1>. QED  BY <1>1, <1>2, <1>3

\* LoadRead keeps the partition valid.
LEMMA Flash_LoadRead ==
    ASSUME NEW p \in Procs, IInv, IInv', FInv, LoadRead(p) PROVE FInv'
<1>. USE DEF FInv, LoadRead, Go, shmVars, flashVars, procVars, histVars, bounds
<1>1. Written'  BY PcSets DEF IInv, TypeOK, MapOK, MutexUnlessForced, Written
<1>2. Erased'  BY DEF IInv, TypeOK, Erased
<1>3. FlashValid'  BY DEF IInv, TypeOK, Written, Erased, FlashValid
<1>. QED  BY <1>1, <1>2, <1>3

\* LoadReadFails keeps the partition valid.
LEMMA Flash_LoadReadFails ==
    ASSUME NEW p \in Procs, IInv, IInv', FInv, LoadReadFails(p) PROVE FInv'
<1>. USE DEF FInv, LoadReadFails, Go, shmVars, flashVars, procVars, histVars, bounds, Fault
<1>1. Written'  BY PcSets DEF IInv, TypeOK, MapOK, MutexUnlessForced, Written
<1>2. Erased'  BY DEF IInv, TypeOK, Erased
<1>3. FlashValid'  BY DEF IInv, TypeOK, Written, Erased, FlashValid
<1>. QED  BY <1>1, <1>2, <1>3

\* LoadParse keeps the partition valid.
LEMMA Flash_LoadParse ==
    ASSUME NEW p \in Procs, IInv, IInv', FInv, LoadParse(p) PROVE FInv'
<1>. USE DEF FInv, LoadParse, Go, shmVars, flashVars, procVars, histVars, bounds
<1>1. Written'  BY PcSets DEF IInv, TypeOK, MapOK, MutexUnlessForced, Written
<1>2. Erased'  BY DEF IInv, TypeOK, Erased
<1>3. FlashValid'  BY DEF IInv, TypeOK, Written, Erased, FlashValid
<1>. QED  BY <1>1, <1>2, <1>3

\* Check keeps the partition valid.
LEMMA Flash_Check ==
    ASSUME NEW p \in Procs, IInv, IInv', FInv, Check(p) PROVE FInv'
<1>. USE DEF FInv, Check, Go, shmVars, flashVars, procVars, histVars, bounds
<1>1. Written'  BY PcSets DEF IInv, TypeOK, MapOK, MutexUnlessForced, Written
<1>2. Erased'  BY DEF IInv, TypeOK, Erased
<1>3. FlashValid'  BY DEF IInv, TypeOK, Written, Erased, FlashValid
<1>. QED  BY <1>1, <1>2, <1>3

\* SerializeClear keeps the partition valid.
LEMMA Flash_SerializeClear ==
    ASSUME NEW p \in Procs, IInv, IInv', FInv, SerializeClear(p) PROVE FInv'
<1>. USE DEF FInv, SerializeClear, Go, shmVars, flashVars, procVars, histVars, bounds
<1>1. Written'  BY PcSets DEF IInv, TypeOK, MapOK, MutexUnlessForced, Written
<1>2. Erased'  BY DEF IInv, TypeOK, Erased
<1>3. FlashValid'  BY DEF IInv, TypeOK, Written, Erased, FlashValid
<1>. QED  BY <1>1, <1>2, <1>3

\* SerializeFill keeps the partition valid.
LEMMA Flash_SerializeFill ==
    ASSUME NEW p \in Procs, IInv, IInv', FInv, SerializeFill(p) PROVE FInv'
<1>. USE DEF FInv, SerializeFill, Go, shmVars, flashVars, procVars, histVars, bounds,
  NextRevision
<1>1. Written'  BY PcSets DEF IInv, TypeOK, MapOK, MutexUnlessForced, Written
<1>2. Erased'  BY DEF IInv, TypeOK, Erased
<1>3. FlashValid'  BY DEF IInv, TypeOK, Written, Erased, FlashValid
<1>. QED  BY <1>1, <1>2, <1>3

\* SaveCrc keeps the partition valid.
LEMMA Flash_SaveCrc ==
    ASSUME NEW p \in Procs, IInv, IInv', FInv, SaveCrc(p) PROVE FInv'
<1>. USE DEF FInv, SaveCrc, Go, shmVars, flashVars, procVars, histVars, bounds, NewCrc,
  SaveFailed, Fault
<1>1. Written'  BY PcSets DEF IInv, TypeOK, MapOK, MutexUnlessForced, Written
<1>2. Erased'  BY DEF IInv, TypeOK, Erased
<1>3. FlashValid'  BY DEF IInv, TypeOK, Written, Erased, FlashValid
<1>. QED  BY <1>1, <1>2, <1>3

\* SaveErase keeps the partition valid.
LEMMA Flash_SaveErase ==
    ASSUME NEW p \in Procs, IInv, IInv', FInv, SaveErase(p) PROVE FInv'
<1>. USE DEF FInv, SaveErase, Go, shmVars, flashVars, procVars, histVars, bounds,
  SaveFailed, Fault
<1>1. Written'  BY PcSets DEF IInv, TypeOK, MapOK, MutexUnlessForced, Written
<1>2. Erased'  BY DEF IInv, TypeOK, Erased
<1>3. FlashValid'  BY DEF IInv, TypeOK, Written, Erased, FlashValid
<1>. QED  BY <1>1, <1>2, <1>3

\* SaveWrite keeps the partition valid.
LEMMA Flash_SaveWrite ==
    ASSUME NEW p \in Procs, IInv, IInv', FInv, SaveWrite(p) PROVE FInv'
<1>. USE DEF FInv, SaveWrite, Go, shmVars, flashVars, procVars, histVars, bounds,
  SaveFailed, Fault
<1>1. Written'  BY PcSets DEF IInv, TypeOK, MapOK, MutexUnlessForced, Written
<1>2. Erased'  BY DEF IInv, TypeOK, Erased
<1>3. FlashValid'  BY DEF IInv, TypeOK, Written, Erased, FlashValid
<1>. QED  BY <1>1, <1>2, <1>3

\* _deinit keeps the partition valid.
LEMMA Flash_deinit ==
    ASSUME NEW p \in Procs, IInv, IInv', FInv, _deinit(p) PROVE FInv'
<1>. USE DEF FInv, _deinit, Go, shmVars, flashVars, procVars, histVars, bounds, Vanish
<1>1. Written'  BY PcSets DEF IInv, TypeOK, MapOK, MutexUnlessForced, Written
<1>2. Erased'  BY DEF IInv, TypeOK, Erased
<1>3. FlashValid'  BY DEF IInv, TypeOK, Written, Erased, FlashValid
<1>. QED  BY <1>1, <1>2, <1>3

\* ReleaseDec keeps the partition valid.
LEMMA Flash_ReleaseDec ==
    ASSUME NEW p \in Procs, IInv, IInv', FInv, ReleaseDec(p) PROVE FInv'
<1>. USE DEF FInv, ReleaseDec, Go, shmVars, flashVars, procVars, histVars, bounds, OneLess
<1>1. Written'  BY PcSets DEF IInv, TypeOK, MapOK, MutexUnlessForced, Written
<1>2. Erased'  BY DEF IInv, TypeOK, Erased
<1>3. FlashValid'  BY DEF IInv, TypeOK, Written, Erased, FlashValid
<1>. QED  BY <1>1, <1>2, <1>3

\* ReleaseUnmap keeps the partition valid.
LEMMA Flash_ReleaseUnmap ==
    ASSUME NEW p \in Procs, IInv, IInv', FInv, ReleaseUnmap(p) PROVE FInv'
<1>. USE DEF FInv, ReleaseUnmap, Go, shmVars, flashVars, procVars, histVars, bounds,
  Vanish, NextTry
<1>1. Written'  BY PcSets DEF IInv, TypeOK, MapOK, MutexUnlessForced, Written
<1>2. Erased'  BY DEF IInv, TypeOK, Erased
<1>3. FlashValid'  BY DEF IInv, TypeOK, Written, Erased, FlashValid
<1>. QED  BY <1>1, <1>2, <1>3

\* ProcCrash keeps the partition valid.
LEMMA Flash_ProcCrash ==
    ASSUME NEW p \in Procs, IInv, IInv', FInv, ProcCrash(p) PROVE FInv'
<1>. USE DEF FInv, ProcCrash, Go, shmVars, flashVars, procVars, histVars, bounds, Vanish
<1>1. Written'  BY PcSets DEF IInv, TypeOK, MapOK, MutexUnlessForced, Written
<1>2. Erased'  BY DEF IInv, TypeOK, Erased
<1>3. FlashValid'  BY DEF IInv, TypeOK, Written, Erased, FlashValid
<1>. QED  BY <1>1, <1>2, <1>3

\* A call keeps the partition valid.
LEMMA Flash_Call ==
    ASSUME NEW p \in Procs, NEW o \in Ops, IInv, IInv', FInv, Call(p, o) PROVE FInv'
<1>. USE DEF FInv, Call, Go, shmVars, flashVars, procVars, histVars, bounds
<1>1. Written'  BY PcSets DEF IInv, TypeOK, MapOK, MutexUnlessForced, Written
<1>2. Erased'  BY DEF IInv, TypeOK, Erased
<1>3. FlashValid'  BY DEF IInv, TypeOK, Written, Erased, FlashValid
<1>. QED  BY <1>1, <1>2, <1>3

\* A reboot keeps the partition valid.
LEMMA Flash_Reboot == ASSUME IInv, IInv', FInv, Reboot PROVE FInv'
<1>. USE DEF FInv, Reboot
<1>1. Written' /\ Erased'  BY DEF Written, Erased
<1>2. CASE \E q \in Procs : pc[q] = "write"
  <2>1. torn'  BY <1>2
  <2>. QED  BY <1>1, <2>1 DEF FlashValid
<1>3. CASE ~\E q \in Procs : pc[q] = "write"
  <2>1. UNCHANGED flashVars /\ (torn => torn')  BY <1>3 DEF IInv, TypeOK
  <2>. QED  BY <1>1, <1>3, <2>1 DEF FlashValid, flashVars
<1>. QED  BY <1>2, <1>3

\* Every step keeps the partition valid: one case per action.
LEMMA NextFInv == IInv /\ IInv' /\ FInv /\ [Next]_vars => FInv'
<1>. SUFFICES ASSUME IInv, IInv', FInv, [Next]_vars PROVE FInv'  OBVIOUS
<1>1. CASE Reboot  BY <1>1, Flash_Reboot
<1>2. CASE UNCHANGED vars
  BY <1>2 DEF vars, shmVars, flashVars, procVars, histVars, bounds, FInv, Written, Erased,
     FlashValid
<1>3. ASSUME NEW p \in Procs, Step(p) PROVE FInv'
  BY <1>3, Flash_acquire_envimg_buffer, Flash_AcquireFails, Flash_AcquireSegv,
     Flash_envimg_buffer_lock, Flash_LockTimeout, Flash_envimg_buffer_unlock,
     Flash_UnlockAborts, Flash_LoadRead, Flash_LoadReadFails,
     Flash_LoadParse, Flash_Check, Flash_SerializeClear, Flash_SerializeFill,
     Flash_SaveCrc, Flash_SaveErase, Flash_SaveWrite, Flash_ReleaseDec,
     Flash_ReleaseUnmap DEF Step
<1>4. ASSUME NEW p \in Procs, bootenv_init(p) \/ _deinit(p) \/ ProcCrash(p) PROVE FInv'
  BY <1>4, Flash_bootenv_init, Flash_deinit, Flash_ProcCrash
<1>5. ASSUME NEW p \in Procs, NEW k \in Keys, bootenv_get(p, k) PROVE FInv'
  <2>1. [SomeOp EXCEPT !.type = "get", !.key = k] \in Ops  BY SomeOpType DEF Ops
  <2>2. Call(p, [SomeOp EXCEPT !.type = "get", !.key = k])  BY <1>5 DEF bootenv_get
  <2>. QED  BY <2>1, <2>2, Flash_Call
<1>6. ASSUME NEW p \in Procs, NEW k \in Keys, NEW v \in Vals, bootenv_update(p, k, v)
      PROVE  FInv'
  <2>1. [type |-> "update", key |-> k, val |-> v] \in Ops  BY DEF Ops
  <2>2. Call(p, [type |-> "update", key |-> k, val |-> v])  BY <1>6 DEF bootenv_update
  <2>. QED  BY <2>1, <2>2, Flash_Call
<1>. QED  BY <1>1, <1>2, <1>3, <1>4, <1>5, <1>6 DEF Next

\* For any number of processes, kills and restarts the partition is valid at every moment,
\* but between the erase and the write of save_bootenv and until the next proper save
\* after one that was cut off in there, failed to write, or ran beside another one: it is
\* written only from an image that carries its own CRC, and nothing but a save touches it.
THEOREM PartitionValid == Spec => []FlashValid
<1>1. FInv => FlashValid  BY DEF FInv
<1>. QED  BY <1>1, InitFInv, NextFInv, Invariance, PTL DEF Spec

-----------------------------------------------------------------------------
(* The image and the lists of the processes.                               *)

\* As long as nobody has passed the lock by timeout, and there was one shared file only.
Calm == ~forced /\ ~split

\* Without split, everybody maps the same file, the one that has the name.
One ==
    ~split => \A q \in Procs : map[q] \in Inodes =>
        /\ \A r \in Procs : map[r] \in Inodes => map[q] = map[r]
        /\ name \in Inodes => map[q] = name

\* A file that somebody has, or will open.
Live(i) == name = i \/ \E q \in Procs : map[q] = i

\* Nobody is changing the image of file i, and nobody was killed while he did.
Settled(i) == lock[i] = 0 \/ \E q \in Procs : map[q] = i /\ pc[q] \in InLock \ Saving

Bad(i) == imgCrc[i] # imgEnv[i]
FlashBad == flashCrc # flashEnv
FromFlash(i) == imgEnv[i] = flashEnv /\ imgCrc[i] = flashCrc

\* A file with references has a valid image, the partition's unless a save failed; one with
\* fewer than none has an invalid one, which came from the partition.
Counted ==
    Calm => \A i \in Inodes : Live(i) =>
        /\ refcnt[i] > 0 /\ Settled(i) => ~Bad(i) /\ (~dirty => FromFlash(i))
        /\ refcnt[i] < 0 => Bad(i) /\ FlashBad

\* A process that is about to check the CRC of what it has just read.
Read ==
    Calm => \A q \in Procs :
        pc[q] = "load_parse" /\ refcnt[map[q]] = 0 => FromFlash(map[q])

\* A process that found the image invalid and lets go of it.
Failing(q) ==
    ~inited[q] /\ (pc[q] \in {"lock_rel", "rel_dec"} \/ (pc[q] = "unlock_load" /\ ret[q] = -3))
Failed ==
    Calm => \A q \in Procs :
        Failing(q) => Bad(map[q]) /\ FlashBad /\ refcnt[map[q]] <= 0

\* What a process that holds the lock has in its list.
Synced(q) == kv[q] = imgEnv[map[q]] /\ curRev[q] = revision[map[q]]
InHand ==
    Calm => \A q \in Procs :
        /\ pc[q] = "unlock_load" /\ ret[q] = 0 => Synced(q)
        /\ pc[q] = "unlock_op" => Synced(q)

\* How far a save has come.
Saved ==
    Calm => \A q \in Procs :
        /\ pc[q] \in Saving => curRev[q] = revision[map[q]]
        /\ pc[q] \in {"crc", "erase", "write"} =>
             /\ imgEnv[map[q]] = kv[q]
             /\ \A r \in Procs \ {q} :
                   inited[r] /\ map[r] = map[q] => curRev[r] < revision[map[q]]
        /\ pc[q] \in {"erase", "write"} => ~Bad(map[q])

\* Nobody is ahead of the image.
Behind == Calm => \A q \in Procs : inited[q] => curRev[q] <= revision[map[q]]

Coherent ==
    Calm => \A q \in Procs :
        /\ inited[q] /\ pc[q] \in {"idle", "lock_op", "check"}
        /\ curRev[q] = revision[map[q]] /\ Settled(map[q])
        => kv[q] = imgEnv[map[q]]

\* Who calls bootenv_get and bootenv_update, and what an update has set.
Calling ==
    \A q \in Procs :
        /\ pc[q] \in {"lock_op", "check", "unlock_op"} \cup Saving => inited[q]
        /\ pc[q] \in Saving => op[q].type = "update" /\ kv[q][op[q].key] = op[q].val

CInv ==
    /\ One /\ Calling /\ RefcntCoversUsers /\ Counted /\ Read /\ Failed /\ InHand
    /\ Saved /\ Behind /\ Coherent /\ UpdateReachesFlash

\* The device starts without a file.
LEMMA InitCInv == Init => CInv
<1>. SUFFICES ASSUME Init PROVE CInv  OBVIOUS
<1>. USE InodesAssumption DEF Init
<1>1. One /\ Calling /\ Counted  BY PcSets DEF One, Calling, Counted, Live
<1>2. RefcntCoversUsers  BY DEF RefcntCoversUsers, Users
<1>3. Read /\ Failed /\ InHand /\ Saved
  BY PcSets DEF Read, Failed, Failing, InHand, Saved
<1>4. Behind /\ Coherent /\ UpdateReachesFlash  BY DEF Behind, Coherent, UpdateReachesFlash
<1>. QED  BY <1>1, <1>2, <1>3, <1>4 DEF CInv

\* As long as there is one file, one process at a time is inside the lock.
LEMMA Alone ==
    ASSUME IInv, One, Calm, NEW p \in Procs, NEW q \in Procs, p # q, pc[p] \in InLock
    PROVE  pc[q] \notin InLock
  BY DEF IInv, MapOK, MutexUnlessForced, One, Calm

\* A smaller set of users stays covered.
LEMMA StaysCovered ==
    ASSUME NEW S, NEW T, IsFiniteSet(T), S \subseteq T, NEW m \in Int, NEW n \in Int, m <= n,
           Cardinality(T) <= m \/ T = {}
    PROVE  Cardinality(S) <= n \/ S = {}
<1>1. CASE T = {}  BY <1>1
<1>2. CASE Cardinality(T) <= m
  <2>1. Cardinality(S) <= Cardinality(T)  BY FS_Subset
  <2>2. Cardinality(S) \in Nat /\ Cardinality(T) \in Nat
    BY FS_Subset, FS_CardinalityType
  <2>. QED  BY <1>2, <2>1, <2>2
<1>. QED  BY <1>1, <1>2

\* The users of a file are finitely many.
LEMMA UsersFinite == \A i : IsFiniteSet(Users(i))
<1>1. \A i : Users(i) \in SUBSET Procs  BY DEF Users
<1>. QED  BY <1>1, FS_Subset, ProcsAssumption

\* A file with a user has a reference.
LEMMA UserCounts ==
    ASSUME IInv, RefcntCoversUsers, Calm, NEW i \in Inodes, NEW q \in Users(i)
    PROVE  refcnt[i] > 0
<1>1. Cardinality(Users(i)) <= refcnt[i]  BY DEF RefcntCoversUsers, Calm
<1>2. Cardinality(Users(i)) \in Nat /\ Cardinality(Users(i)) # 0
  BY UsersFinite, FS_CardinalityType, FS_EmptySet
<1>. QED  BY <1>1, <1>2 DEF IInv, TypeOK

\* While there is one file, everybody who has one has the same.
LEMMA OneFile ==
    ASSUME IInv, One, Calm, NEW p \in Procs, map[p] \in Inodes
    PROVE  /\ \A i \in Inodes : Live(i) => i = map[p]
           /\ \A q \in Procs : map[q] \in Inodes => map[q] = map[p]
  BY DEF One, Calm, Live

\* A process that has loaded the file has a reference, and then nobody found it invalid.
LEMMA Loader ==
    ASSUME IInv, CInv, Calm, NEW p \in Procs, inited[p],
           pc[p] \notin {"unlock_rel", "rel_unmap"}
    PROVE  /\ map[p] \in Inodes /\ refcnt[map[p]] > 0
           /\ \A q \in Procs : ~Failing(q)
<1>1. map[p] \in Inodes /\ p \in Users(map[p])  BY DEF IInv, MapOK, Users
<1>2. refcnt[map[p]] > 0  BY <1>1, UserCounts DEF CInv
<1>3. ASSUME NEW q \in Procs, Failing(q) PROVE FALSE
  <2>1. map[q] \in Inodes  BY <1>3, PcSets DEF Failing, IInv, MapOK
  <2>2. map[q] = map[p]  BY <1>1, <2>1, OneFile DEF CInv
  <2>3. refcnt[map[q]] <= 0  BY <1>3 DEF CInv, Failed
  <2>. QED  BY <1>1, <1>2, <2>2, <2>3 DEF IInv, TypeOK
<1>. QED  BY <1>1, <1>2, <1>3

\* What a process that saves the environment knows.
LEMMA Saver ==
    ASSUME IInv, CInv, Calm, NEW p \in Procs, pc[p] \in Saving
    PROVE  /\ inited[p] /\ map[p] \in Inodes /\ refcnt[map[p]] > 0 /\ lock[map[p]] = 1
           /\ \A q \in Procs : ~Failing(q)
           /\ \A q \in Procs : map[q] \in Inodes => map[q] = map[p]
           /\ \A i \in Inodes : Live(i) => i = map[p]
           /\ curRev[p] = revision[map[p]]
           /\ op[p].type = "update" /\ kv[p][op[p].key] = op[p].val
<1>1. inited[p] /\ op[p].type = "update" /\ kv[p][op[p].key] = op[p].val
  BY PcSets DEF CInv, Calling
<1>2. map[p] \in Inodes /\ refcnt[map[p]] > 0 /\ \A q \in Procs : ~Failing(q)
  BY <1>1, Loader, PcSets
<1>3. lock[map[p]] = 1  BY PcSets DEF IInv, MutexUnlessForced, Calm
<1>4. curRev[p] = revision[map[p]]  BY DEF CInv, Saved
<1>. QED  BY <1>1, <1>2, <1>3, <1>4, OneFile DEF CInv

\* bootenv_init keeps the image, the counts and the lists in order.
LEMMA Image_bootenv_init ==
    ASSUME NEW p \in Procs, IInv, IInv', CInv, bootenv_init(p) PROVE CInv'
<1>. USE InodesAssumption DEF bootenv_init, Go, shmVars, flashVars, procVars, histVars,
  bounds
<1>1. Calm' => Calm  BY DEF Calm, IInv, TypeOK
<1>2. One'  BY <1>1, PcSets DEF IInv, TypeOK, MapOK, CInv, One
<1>3. Calling'  BY <1>1, PcSets DEF IInv, TypeOK, MapOK, CInv, Calling
<1>4. RefcntCoversUsers'
  <2>. SUFFICES ASSUME Calm', NEW i \in Inodes
                PROVE  (Cardinality(Users(i)) <= refcnt[i] \/ Users(i) = {})'
    BY DEF RefcntCoversUsers, Calm
  <2>1. Users(i)' \subseteq Users(i) /\ refcnt'[i] = refcnt[i]
    BY <1>1 DEF IInv, TypeOK, MapOK, Users
  <2>2. Cardinality(Users(i)) <= refcnt[i] \/ Users(i) = {}
    BY <1>1 DEF CInv, RefcntCoversUsers, Calm
  <2>3. refcnt[i] \in Int  BY DEF IInv, TypeOK
  <2>. QED  BY <2>1, <2>2, <2>3, StaysCovered, UsersFinite
<1>5. Counted'  BY <1>1, PcSets DEF IInv, TypeOK, MapOK, CInv, One, Counted, Live, Settled,
  Bad, FlashBad, FromFlash
<1>6. Read'  BY <1>1, PcSets DEF IInv, TypeOK, MapOK, CInv, Read, FromFlash,
  MutexUnlessForced
<1>7. Failed'  BY <1>1, PcSets DEF IInv, TypeOK, MapOK, CInv, Failed, Failing, Bad,
  FlashBad, MutexUnlessForced
<1>8. InHand'  BY <1>1, PcSets DEF IInv, TypeOK, MapOK, CInv, InHand, Synced,
  MutexUnlessForced
<1>9. Saved'  BY <1>1, PcSets DEF IInv, TypeOK, MapOK, CInv, Saved, Bad, MutexUnlessForced,
  Behind
<1>10. Behind'  BY <1>1, PcSets DEF IInv, TypeOK, MapOK, CInv, Behind
<1>11. Coherent'  BY <1>1, PcSets DEF IInv, TypeOK, MapOK, CInv, Coherent, Settled
<1>12. UpdateReachesFlash'  BY <1>1, PcSets DEF IInv, TypeOK, MapOK, CInv,
  UpdateReachesFlash, Calm
<1>. QED  BY <1>2, <1>3, <1>4, <1>5, <1>6, <1>7, <1>8, <1>9, <1>10, <1>11, <1>12 DEF CInv

\* acquire_envimg_buffer keeps the image, the counts and the lists in order.
LEMMA Image_acquire_envimg_buffer ==
    ASSUME NEW p \in Procs, IInv, IInv', CInv, acquire_envimg_buffer(p) PROVE CInv'
<1>. USE InodesAssumption DEF acquire_envimg_buffer, Go, shmVars, flashVars, procVars,
  histVars, bounds, OpenShm, Free
<1>1. Calm' => Calm  BY DEF Calm, IInv, TypeOK
<1>2. One'
  <2>1. CASE map' = map /\ UNCHANGED <<shmVars, split>>
    BY <2>1 DEF CInv, One
  <2>2. ASSUME NEW f \in Inodes, map[p] = NoInode, name = f,
               map' = [map EXCEPT ![p] = f], UNCHANGED <<shmVars, split>>
        PROVE  One'
    BY <2>2 DEF CInv, One, IInv, TypeOK
  <2>3. ASSUME NEW f \in Inodes, map[p] = NoInode, name' = f,
               map' = [map EXCEPT ![p] = f],
               split' = (split \/ \E q \in Procs : map[q] \in Inodes)
        PROVE  One'
    <3>1. ~split' => \A q \in Procs : map[q] \notin Inodes  BY <2>3
    <3>2. map'[p] = f /\ \A q \in Procs : q # p => map'[q] = map[q]
      BY <2>3 DEF IInv, TypeOK
    <3>. HIDE DEF acquire_envimg_buffer
    <3>. QED  BY <2>3, <3>1, <3>2 DEF One
  <2>. QED  BY <2>1, <2>2, <2>3
<1>3. Calling'  BY <1>1, PcSets DEF IInv, TypeOK, MapOK, CInv, Calling
<1>4. RefcntCoversUsers'
  <2>. SUFFICES ASSUME Calm', NEW i \in Inodes
                PROVE  (Cardinality(Users(i)) <= refcnt[i] \/ Users(i) = {})'
    BY DEF RefcntCoversUsers, Calm
  <2>1. /\ map[p] \in Inodes => map'[p] = map[p]
        /\ \A q \in Procs \ {p} : map'[q] = map[q] /\ pc'[q] = pc[q]
        /\ pc'[p] \in {"lock_load"} /\ ~inited[p] /\ inited' = inited
        /\ \A q \in Procs \ {p} : ret'[q] = ret[q]
    BY DEF IInv, TypeOK, MapOK
  <2>2. Users(i)' \subseteq Users(i)  BY <2>1 DEF Users
  <2>3. refcnt'[i] = refcnt[i] \/ \A q \in Procs : map[q] # i
    BY DEF IInv, TypeOK, MapOK
  <2>4. CASE \A q \in Procs : map[q] # i
    <3>1. Users(i)' = {}  BY <2>2, <2>4 DEF Users
    <3>. QED  BY <3>1
  <2>5. Cardinality(Users(i)) <= refcnt[i] \/ Users(i) = {}
    BY <1>1 DEF CInv, RefcntCoversUsers, Calm
  <2>6. refcnt[i] \in Int  BY DEF IInv, TypeOK
  <2>. QED  BY <2>2, <2>3, <2>4, <2>5, <2>6, StaysCovered, UsersFinite
<1>5. Counted'  BY <1>1, PcSets DEF IInv, TypeOK, MapOK, CInv, One, Counted, Live, Settled,
  Bad, FlashBad, FromFlash
<1>6. Read'  BY <1>1, PcSets DEF IInv, TypeOK, MapOK, CInv, Read, FromFlash,
  MutexUnlessForced
<1>7. Failed'  BY <1>1, PcSets DEF IInv, TypeOK, MapOK, CInv, Failed, Failing, Bad,
  FlashBad, MutexUnlessForced
<1>8. InHand'  BY <1>1, PcSets DEF IInv, TypeOK, MapOK, CInv, InHand, Synced,
  MutexUnlessForced
<1>9. Saved'  BY <1>1, PcSets DEF IInv, TypeOK, MapOK, CInv, Saved, Bad, MutexUnlessForced,
  Behind
<1>10. Behind'  BY <1>1, PcSets DEF IInv, TypeOK, MapOK, CInv, Behind
<1>11. Coherent'  BY <1>1, PcSets DEF IInv, TypeOK, MapOK, CInv, Coherent, Settled
<1>12. UpdateReachesFlash'  BY <1>1, PcSets DEF IInv, TypeOK, MapOK, CInv,
  UpdateReachesFlash, Calm
<1>. QED  BY <1>2, <1>3, <1>4, <1>5, <1>6, <1>7, <1>8, <1>9, <1>10, <1>11, <1>12 DEF CInv

\* AcquireFails keeps the image, the counts and the lists in order.
LEMMA Image_AcquireFails ==
    ASSUME NEW p \in Procs, IInv, IInv', CInv, AcquireFails(p) PROVE CInv'
<1>. USE InodesAssumption DEF AcquireFails, Go, shmVars, flashVars, procVars, histVars,
  bounds, OpenShm, Free, Fault
<1>1. Calm' => Calm  BY DEF Calm, IInv, TypeOK
<1>2. One'  BY <1>1, PcSets DEF IInv, TypeOK, MapOK, CInv, One
<1>3. Calling'  BY <1>1, PcSets DEF IInv, TypeOK, MapOK, CInv, Calling
<1>4. RefcntCoversUsers'
  <2>. SUFFICES ASSUME Calm', NEW i \in Inodes
                PROVE  (Cardinality(Users(i)) <= refcnt[i] \/ Users(i) = {})'
    BY DEF RefcntCoversUsers, Calm
  <2>1. /\ map[p] \in Inodes => map'[p] = map[p]
        /\ \A q \in Procs \ {p} : map'[q] = map[q] /\ pc'[q] = pc[q]
        /\ pc'[p] \in {"acquire", "idle"} /\ ~inited[p] /\ inited' = inited
        /\ \A q \in Procs \ {p} : ret'[q] = ret[q]
    BY DEF IInv, TypeOK, MapOK
  <2>2. Users(i)' \subseteq Users(i)  BY <2>1 DEF Users
  <2>3. refcnt'[i] = refcnt[i] \/ \A q \in Procs : map[q] # i
    BY DEF IInv, TypeOK, MapOK
  <2>4. CASE \A q \in Procs : map[q] # i
    <3>1. Users(i)' = {}  BY <2>2, <2>4 DEF Users
    <3>. QED  BY <3>1
  <2>5. Cardinality(Users(i)) <= refcnt[i] \/ Users(i) = {}
    BY <1>1 DEF CInv, RefcntCoversUsers, Calm
  <2>6. refcnt[i] \in Int  BY DEF IInv, TypeOK
  <2>. QED  BY <2>2, <2>3, <2>4, <2>5, <2>6, StaysCovered, UsersFinite
<1>5. Counted'  BY <1>1, PcSets DEF IInv, TypeOK, MapOK, CInv, One, Counted, Live, Settled,
  Bad, FlashBad, FromFlash
<1>6. Read'  BY <1>1, PcSets DEF IInv, TypeOK, MapOK, CInv, Read, FromFlash,
  MutexUnlessForced
<1>7. Failed'  BY <1>1, PcSets DEF IInv, TypeOK, MapOK, CInv, Failed, Failing, Bad,
  FlashBad, MutexUnlessForced
<1>8. InHand'  BY <1>1, PcSets DEF IInv, TypeOK, MapOK, CInv, InHand, Synced,
  MutexUnlessForced
<1>9. Saved'  BY <1>1, PcSets DEF IInv, TypeOK, MapOK, CInv, Saved, Bad, MutexUnlessForced,
  Behind
<1>10. Behind'  BY <1>1, PcSets DEF IInv, TypeOK, MapOK, CInv, Behind
<1>11. Coherent'  BY <1>1, PcSets DEF IInv, TypeOK, MapOK, CInv, Coherent, Settled
<1>12. UpdateReachesFlash'  BY <1>1, PcSets DEF IInv, TypeOK, MapOK, CInv,
  UpdateReachesFlash, Calm
<1>. QED  BY <1>2, <1>3, <1>4, <1>5, <1>6, <1>7, <1>8, <1>9, <1>10, <1>11, <1>12 DEF CInv

\* AcquireSegv keeps the image, the counts and the lists in order.
LEMMA Image_AcquireSegv ==
    ASSUME NEW p \in Procs, IInv, IInv', CInv, AcquireSegv(p) PROVE CInv'
<1>. USE InodesAssumption DEF AcquireSegv, Go, shmVars, flashVars, procVars, histVars,
  bounds, Vanish
<1>1. Calm' => Calm  BY DEF Calm, IInv, TypeOK
<1>2. One'  BY <1>1, PcSets DEF IInv, TypeOK, MapOK, CInv, One
<1>3. Calling'  BY <1>1, PcSets DEF IInv, TypeOK, MapOK, CInv, Calling
<1>4. RefcntCoversUsers'
  <2>. SUFFICES ASSUME Calm', NEW i \in Inodes
                PROVE  (Cardinality(Users(i)) <= refcnt[i] \/ Users(i) = {})'
    BY DEF RefcntCoversUsers, Calm
  <2>1. Users(i)' \subseteq Users(i) /\ refcnt'[i] = refcnt[i]
    BY <1>1 DEF IInv, TypeOK, MapOK, Users
  <2>2. Cardinality(Users(i)) <= refcnt[i] \/ Users(i) = {}
    BY <1>1 DEF CInv, RefcntCoversUsers, Calm
  <2>3. refcnt[i] \in Int  BY DEF IInv, TypeOK
  <2>. QED  BY <2>1, <2>2, <2>3, StaysCovered, UsersFinite
<1>5. Counted'  BY <1>1, PcSets DEF IInv, TypeOK, MapOK, CInv, One, Counted, Live, Settled,
  Bad, FlashBad, FromFlash
<1>6. Read'  BY <1>1, PcSets DEF IInv, TypeOK, MapOK, CInv, Read, FromFlash,
  MutexUnlessForced
<1>7. Failed'  BY <1>1, PcSets DEF IInv, TypeOK, MapOK, CInv, Failed, Failing, Bad,
  FlashBad, MutexUnlessForced
<1>8. InHand'  BY <1>1, PcSets DEF IInv, TypeOK, MapOK, CInv, InHand, Synced,
  MutexUnlessForced
<1>9. Saved'  BY <1>1, PcSets DEF IInv, TypeOK, MapOK, CInv, Saved, Bad, MutexUnlessForced,
  Behind
<1>10. Behind'  BY <1>1, PcSets DEF IInv, TypeOK, MapOK, CInv, Behind
<1>11. Coherent'  BY <1>1, PcSets DEF IInv, TypeOK, MapOK, CInv, Coherent, Settled
<1>12. UpdateReachesFlash'  BY <1>1, PcSets DEF IInv, TypeOK, MapOK, CInv,
  UpdateReachesFlash, Calm
<1>. QED  BY <1>2, <1>3, <1>4, <1>5, <1>6, <1>7, <1>8, <1>9, <1>10, <1>11, <1>12 DEF CInv

\* envimg_buffer_lock keeps the image, the counts and the lists in order.
LEMMA Image_envimg_buffer_lock ==
    ASSUME NEW p \in Procs, IInv, IInv', CInv, envimg_buffer_lock(p) PROVE CInv'
<1>. USE InodesAssumption DEF envimg_buffer_lock, Go, shmVars, flashVars, procVars,
  histVars, bounds, LockFree, AfterLock
<1>1. Calm' => Calm  BY DEF Calm, IInv, TypeOK
<1>2. One'  BY <1>1, PcSets DEF IInv, TypeOK, MapOK, CInv, One
<1>3. Calling'  BY <1>1, PcSets DEF IInv, TypeOK, MapOK, CInv, Calling
<1>4. RefcntCoversUsers'
  <2>. SUFFICES ASSUME Calm', NEW i \in Inodes
                PROVE  (Cardinality(Users(i)) <= refcnt[i] \/ Users(i) = {})'
    BY DEF RefcntCoversUsers, Calm
  <2>1. Users(i)' \subseteq Users(i) /\ refcnt'[i] = refcnt[i]
    <3>1. pc'[p] \in {"load_read", "check", "rel_dec"}
      BY DEF IInv, TypeOK, MapOK
    <3>2. \A q \in Procs \ {p} : pc'[q] = pc[q]  BY DEF IInv, TypeOK, MapOK
    <3>3. pc[p] \notin {"unlock_rel", "rel_unmap"}  BY PcSets
    <3>. HIDE DEF envimg_buffer_lock
    <3>4. map' = map /\ inited' = inited /\ ret' = ret /\ refcnt' = refcnt
      BY DEF envimg_buffer_lock
    <3>. QED  BY <3>1, <3>2, <3>3, <3>4 DEF Users
  <2>2. Cardinality(Users(i)) <= refcnt[i] \/ Users(i) = {}
    BY <1>1 DEF CInv, RefcntCoversUsers, Calm
  <2>3. refcnt[i] \in Int  BY DEF IInv, TypeOK
  <2>. QED  BY <2>1, <2>2, <2>3, StaysCovered, UsersFinite
<1>5. Counted'  BY <1>1, PcSets DEF IInv, TypeOK, MapOK, CInv, One, Counted, Live, Settled,
  Bad, FlashBad, FromFlash
<1>6. Read'  BY <1>1, PcSets DEF IInv, TypeOK, MapOK, CInv, Read, FromFlash,
  MutexUnlessForced
<1>7. Failed'  BY <1>1, PcSets DEF IInv, TypeOK, MapOK, CInv, Failed, Failing, Bad,
  FlashBad, MutexUnlessForced
<1>8. InHand'  BY <1>1, PcSets DEF IInv, TypeOK, MapOK, CInv, InHand, Synced,
  MutexUnlessForced
<1>9. Saved'  BY <1>1, PcSets DEF IInv, TypeOK, MapOK, CInv, Saved, Bad, MutexUnlessForced,
  Behind
<1>10. Behind'  BY <1>1, PcSets DEF IInv, TypeOK, MapOK, CInv, Behind
<1>11. Coherent'  BY <1>1, PcSets DEF IInv, TypeOK, MapOK, CInv, Coherent, Settled
<1>12. UpdateReachesFlash'  BY <1>1, PcSets DEF IInv, TypeOK, MapOK, CInv,
  UpdateReachesFlash, Calm
<1>. QED  BY <1>2, <1>3, <1>4, <1>5, <1>6, <1>7, <1>8, <1>9, <1>10, <1>11, <1>12 DEF CInv

\* LockTimeout keeps the image, the counts and the lists in order.
LEMMA Image_LockTimeout ==
    ASSUME NEW p \in Procs, IInv, IInv', CInv, LockTimeout(p) PROVE CInv'
<1>. USE DEF LockTimeout, AfterLock, Go, shmVars, flashVars, procVars
<1>1. ~Calm' /\ forced'  BY DEF Calm
<1>2. One'  BY DEF CInv, One
<1>3. Calling'  BY PcSets DEF IInv, TypeOK, CInv, Calling
<1>4. RefcntCoversUsers' /\ UpdateReachesFlash'
  BY <1>1 DEF RefcntCoversUsers, UpdateReachesFlash
<1>5. Counted' /\ Read' /\ Failed' /\ InHand' /\ Saved' /\ Behind' /\ Coherent'
  BY <1>1 DEF Counted, Read, Failed, InHand, Saved, Behind, Coherent
<1>. QED  BY <1>2, <1>3, <1>4, <1>5 DEF CInv

\* envimg_buffer_unlock keeps the image, the counts and the lists in order.
LEMMA Image_envimg_buffer_unlock ==
    ASSUME NEW p \in Procs, IInv, IInv', CInv, envimg_buffer_unlock(p) PROVE CInv'
<1>. USE InodesAssumption DEF envimg_buffer_unlock, Go, shmVars, flashVars, procVars,
  histVars, bounds, AfterUnlock, NextTry
<1>1. Calm' => Calm  BY DEF Calm, IInv, TypeOK
<1>2. Calm => \A q \in Procs \ {p} : pc[q] \notin InLock
  BY Alone, PcSets DEF CInv
<1>3. One'  BY <1>1, <1>2, PcSets DEF IInv, TypeOK, MapOK, CInv, One
<1>4. Calling'  BY <1>1, <1>2, PcSets DEF IInv, TypeOK, MapOK, CInv, Calling
<1>5. RefcntCoversUsers'
  <2>. SUFFICES ASSUME Calm', NEW i \in Inodes
                PROVE  (Cardinality(Users(i)) <= refcnt[i] \/ Users(i) = {})'
    BY DEF RefcntCoversUsers, Calm
  <2>1. Users(i)' \subseteq Users(i) /\ refcnt'[i] = refcnt[i]
    BY <1>1 DEF IInv, TypeOK, MapOK, Users
  <2>2. Cardinality(Users(i)) <= refcnt[i] \/ Users(i) = {}
    BY <1>1 DEF CInv, RefcntCoversUsers, Calm
  <2>3. refcnt[i] \in Int  BY DEF IInv, TypeOK
  <2>. QED  BY <2>1, <2>2, <2>3, StaysCovered, UsersFinite
<1>6. Counted'
  BY SMTT(60), <1>1, <1>2, PcSets DEF IInv, TypeOK, MapOK, CInv, One, Counted, Live,
  Settled, Bad, FlashBad, FromFlash
<1>7. Read'  BY <1>1, <1>2, PcSets DEF IInv, TypeOK, MapOK, CInv, Read, FromFlash,
  MutexUnlessForced
<1>8. Failed'  BY <1>1, <1>2, PcSets DEF IInv, TypeOK, MapOK, CInv, Failed, Failing, Bad,
  FlashBad, MutexUnlessForced
<1>9. InHand'  BY <1>1, <1>2, PcSets DEF IInv, TypeOK, MapOK, CInv, InHand, Synced,
  MutexUnlessForced
<1>10. Saved'  BY <1>1, <1>2, PcSets DEF IInv, TypeOK, MapOK, CInv, Saved, Bad,
  MutexUnlessForced, Behind
<1>11. Behind'
  <2>1. \A q \in Procs \ {p} : inited'[q] = inited[q]  BY DEF IInv, TypeOK, MapOK
  <2>2. inited'[p] => inited[p] \/ (pc[p] = "unlock_load" /\ ret[p] = 0)
    BY DEF IInv, TypeOK, MapOK
  <2>3. Calm /\ pc[p] = "unlock_load" /\ ret[p] = 0 => curRev[p] = revision[map[p]]
    BY DEF CInv, InHand, Synced
  <2>4. curRev' = curRev /\ revision' = revision /\ map' = map  OBVIOUS
  <2>5. \A q \in Procs : curRev[q] \in Nat  BY DEF IInv, TypeOK
  <2>. HIDE DEF envimg_buffer_unlock
  <2>. QED  BY <1>1, <2>1, <2>2, <2>3, <2>4, <2>5 DEF CInv, Behind
<1>12. Coherent'
  <2>. SUFFICES ASSUME Calm', NEW q \in Procs, inited'[q],
                       pc'[q] \in {"idle", "lock_op", "check"},
                       curRev[q] = revision[map[q]], Settled(map[q])'
                PROVE  kv[q] = imgEnv[map[q]]
    BY DEF Coherent
  <2>1. Calm  BY <1>1
  <2>2. map[p] \in Inodes /\ map[p] # NoInode  BY PcSets DEF IInv, TypeOK, MapOK
  <2>3. CASE q = p
    <3>1. \/ pc[p] = "unlock_load" /\ ret[p] = 0
          \/ pc[p] = "unlock_op"
      <4>1. pc[p] = "unlock_load" => ~inited[p]  BY DEF IInv, TypeOK, MapOK
      <4>2. pc[p] = "unlock_rel" => pc'[p] = "rel_unmap"  BY DEF IInv, TypeOK
      <4>3. pc[p] = "unlock_load" /\ ret[p] # 0 => inited' = inited  OBVIOUS
      <4>4. pc[p] \in {"unlock_load", "unlock_op", "unlock_rel"}  BY PcSets
      <4>. HIDE DEF envimg_buffer_unlock
      <4>. QED  BY <2>3, <4>1, <4>2, <4>3, <4>4
    <3>. QED  BY <2>1, <2>3, <3>1 DEF CInv, InHand, Synced
  <2>4. CASE q # p
    <3>1. inited[q] /\ pc[q] \in {"idle", "lock_op", "check"}  BY <2>4 DEF IInv, TypeOK,
      MapOK
    <3>2. map[q] = map[p]  BY <2>1, <2>2, <3>1, OneFile DEF CInv, IInv, TypeOK, MapOK
    <3>3. Settled(map[q])  BY <3>2, PcSets DEF Settled
    <3>. QED  BY <2>1, <3>1, <3>3 DEF CInv, Coherent
  <2>. QED  BY <2>3, <2>4
<1>13. UpdateReachesFlash'  BY <1>1, <1>2, PcSets DEF IInv, TypeOK, MapOK, CInv,
  UpdateReachesFlash, Calm
<1>. QED  BY <1>3, <1>4, <1>5, <1>6, <1>7, <1>8, <1>9, <1>10, <1>11, <1>12, <1>13 DEF CInv

\* UnlockAborts keeps the image, the counts and the lists in order.
LEMMA Image_UnlockAborts ==
    ASSUME NEW p \in Procs, IInv, IInv', CInv, UnlockAborts(p) PROVE CInv'
<1>. USE InodesAssumption DEF UnlockAborts, Go, shmVars, flashVars, procVars, histVars,
  bounds, Vanish
<1>1. Calm' => Calm  BY DEF Calm, IInv, TypeOK
<1>2. Calm => \A q \in Procs \ {p} : pc[q] \notin InLock
  BY Alone, PcSets DEF CInv
<1>3. One'  BY <1>1, <1>2, PcSets DEF IInv, TypeOK, MapOK, CInv, One
<1>4. Calling'  BY <1>1, <1>2, PcSets DEF IInv, TypeOK, MapOK, CInv, Calling
<1>5. RefcntCoversUsers'
  <2>. SUFFICES ASSUME Calm', NEW i \in Inodes
                PROVE  (Cardinality(Users(i)) <= refcnt[i] \/ Users(i) = {})'
    BY DEF RefcntCoversUsers, Calm
  <2>1. Users(i)' \subseteq Users(i) /\ refcnt'[i] = refcnt[i]
    BY <1>1 DEF IInv, TypeOK, MapOK, Users
  <2>2. Cardinality(Users(i)) <= refcnt[i] \/ Users(i) = {}
    BY <1>1 DEF CInv, RefcntCoversUsers, Calm
  <2>3. refcnt[i] \in Int  BY DEF IInv, TypeOK
  <2>. QED  BY <2>1, <2>2, <2>3, StaysCovered, UsersFinite
<1>6. Counted'  BY <1>1, <1>2, PcSets DEF IInv, TypeOK, MapOK, CInv, One, Counted, Live,
  Settled, Bad, FlashBad, FromFlash
<1>7. Read'  BY <1>1, <1>2, PcSets DEF IInv, TypeOK, MapOK, CInv, Read, FromFlash,
  MutexUnlessForced
<1>8. Failed'  BY <1>1, <1>2, PcSets DEF IInv, TypeOK, MapOK, CInv, Failed, Failing, Bad,
  FlashBad, MutexUnlessForced
<1>9. InHand'  BY <1>1, <1>2, PcSets DEF IInv, TypeOK, MapOK, CInv, InHand, Synced,
  MutexUnlessForced
<1>10. Saved'  BY <1>1, <1>2, PcSets DEF IInv, TypeOK, MapOK, CInv, Saved, Bad,
  MutexUnlessForced, Behind
<1>11. Behind'  BY <1>1, <1>2, PcSets DEF IInv, TypeOK, MapOK, CInv, Behind
<1>12. Coherent'  BY <1>1, <1>2, PcSets DEF IInv, TypeOK, MapOK, CInv, Coherent, Settled
<1>13. UpdateReachesFlash'  BY <1>1, <1>2, PcSets DEF IInv, TypeOK, MapOK, CInv,
  UpdateReachesFlash, Calm
<1>. QED  BY <1>3, <1>4, <1>5, <1>6, <1>7, <1>8, <1>9, <1>10, <1>11, <1>12, <1>13 DEF CInv

\* LoadRead keeps the image, the counts and the lists in order.
LEMMA Image_LoadRead ==
    ASSUME NEW p \in Procs, IInv, IInv', CInv, LoadRead(p) PROVE CInv'
<1>. USE InodesAssumption DEF LoadRead, Go, shmVars, flashVars, procVars, histVars, bounds
<1>1. Calm' => Calm  BY DEF Calm, IInv, TypeOK
<1>2. Calm => \A q \in Procs \ {p} : pc[q] \notin InLock
  BY Alone, PcSets DEF CInv
<1>3. One'  BY <1>1, <1>2, PcSets DEF IInv, TypeOK, MapOK, CInv, One
<1>4. Calling'  BY <1>1, <1>2, PcSets DEF IInv, TypeOK, MapOK, CInv, Calling
<1>5. RefcntCoversUsers'
  <2>. SUFFICES ASSUME Calm', NEW i \in Inodes
                PROVE  (Cardinality(Users(i)) <= refcnt[i] \/ Users(i) = {})'
    BY DEF RefcntCoversUsers, Calm
  <2>1. Users(i)' \subseteq Users(i) /\ refcnt'[i] = refcnt[i]
    BY <1>1 DEF IInv, TypeOK, MapOK, Users
  <2>2. Cardinality(Users(i)) <= refcnt[i] \/ Users(i) = {}
    BY <1>1 DEF CInv, RefcntCoversUsers, Calm
  <2>3. refcnt[i] \in Int  BY DEF IInv, TypeOK
  <2>. QED  BY <2>1, <2>2, <2>3, StaysCovered, UsersFinite
<1>6. Counted'
  <2>. SUFFICES ASSUME Calm', NEW i \in Inodes, Live(i)'
                PROVE  /\ refcnt[i] > 0 => ~Bad(i)' /\ (~dirty' => FromFlash(i)')
                       /\ refcnt[i] < 0 => Bad(i)' /\ FlashBad
    BY DEF Counted, FlashBad
  <2>1. Calm /\ Live(i) /\ map[p] \in Inodes  BY <1>1, PcSets DEF Live, IInv, TypeOK, MapOK
  <2>2. i = map[p]  BY <2>1, OneFile DEF CInv
  <2>3. Settled(i)  BY <2>2, PcSets DEF Settled
  <2>4. /\ refcnt[i] > 0 => ~Bad(i) /\ (~dirty => FromFlash(i))
        /\ refcnt[i] < 0 => Bad(i) /\ FlashBad
    BY <2>1, <2>3 DEF CInv, Counted
  <2>5. refcnt[i] # 0 => imgEnv' = imgEnv /\ imgCrc' = imgCrc /\ dirty' = dirty
    BY <2>2
  <2>6. flashEnv' = flashEnv /\ flashCrc' = flashCrc /\ refcnt[i] \in Int
    BY DEF IInv, TypeOK
  <2>. HIDE DEF LoadRead
  <2>. QED  BY <2>4, <2>5, <2>6 DEF Bad, FromFlash
<1>7. Read'  BY <1>1, <1>2, PcSets DEF IInv, TypeOK, MapOK, CInv, Read, FromFlash,
  MutexUnlessForced
<1>8. Failed'  BY <1>1, <1>2, PcSets DEF IInv, TypeOK, MapOK, CInv, Failed, Failing, Bad,
  FlashBad, MutexUnlessForced
<1>9. InHand'  BY <1>1, <1>2, PcSets DEF IInv, TypeOK, MapOK, CInv, InHand, Synced,
  MutexUnlessForced
<1>10. Saved'  BY <1>1, <1>2, PcSets DEF IInv, TypeOK, MapOK, CInv, Saved, Bad,
  MutexUnlessForced, Behind
<1>11. Behind'  BY <1>1, <1>2, PcSets DEF IInv, TypeOK, MapOK, CInv, Behind
<1>12. Coherent'
  <2>. SUFFICES ASSUME Calm', NEW q \in Procs, inited[q],
                       pc'[q] \in {"idle", "lock_op", "check"},
                       curRev[q] = revision[map[q]], Settled(map[q])'
                PROVE  kv[q] = imgEnv'[map[q]]
    BY DEF Coherent
  <2>1. Calm /\ map[p] \in Inodes  BY <1>1, PcSets DEF IInv, TypeOK, MapOK
  <2>2. pc[q] \in {"idle", "lock_op", "check"}  BY DEF IInv, TypeOK, MapOK
  <2>3. map[q] \in Inodes /\ refcnt[map[q]] > 0  BY <2>1, <2>2, Loader
  <2>4. map[q] = map[p]  BY <2>1, <2>3, OneFile DEF CInv
  <2>5. Settled(map[q])  BY <2>4, PcSets DEF Settled
  <2>6. imgEnv' = imgEnv  BY <2>3, <2>4
  <2>. QED  BY <2>1, <2>2, <2>5, <2>6 DEF CInv, Coherent
<1>13. UpdateReachesFlash'  BY <1>1, <1>2, PcSets DEF IInv, TypeOK, MapOK, CInv,
  UpdateReachesFlash, Calm
<1>. QED  BY <1>3, <1>4, <1>5, <1>6, <1>7, <1>8, <1>9, <1>10, <1>11, <1>12, <1>13 DEF CInv

\* LoadReadFails keeps the image, the counts and the lists in order.
LEMMA Image_LoadReadFails ==
    ASSUME NEW p \in Procs, IInv, IInv', CInv, LoadReadFails(p) PROVE CInv'
<1>. USE InodesAssumption DEF LoadReadFails, Go, shmVars, flashVars, procVars, histVars,
  bounds, Fault
<1>1. Calm' => Calm  BY DEF Calm, IInv, TypeOK
<1>2. Calm => \A q \in Procs \ {p} : pc[q] \notin InLock
  BY Alone, PcSets DEF CInv
<1>3. One'  BY <1>1, <1>2, PcSets DEF IInv, TypeOK, MapOK, CInv, One
<1>4. Calling'  BY <1>1, <1>2, PcSets DEF IInv, TypeOK, MapOK, CInv, Calling
<1>5. RefcntCoversUsers'
  <2>. SUFFICES ASSUME Calm', NEW i \in Inodes
                PROVE  (Cardinality(Users(i)) <= refcnt[i] \/ Users(i) = {})'
    BY DEF RefcntCoversUsers, Calm
  <2>1. Users(i)' \subseteq Users(i) /\ refcnt'[i] = refcnt[i]
    BY <1>1 DEF IInv, TypeOK, MapOK, Users
  <2>2. Cardinality(Users(i)) <= refcnt[i] \/ Users(i) = {}
    BY <1>1 DEF CInv, RefcntCoversUsers, Calm
  <2>3. refcnt[i] \in Int  BY DEF IInv, TypeOK
  <2>. QED  BY <2>1, <2>2, <2>3, StaysCovered, UsersFinite
<1>6. Counted'  BY <1>1, <1>2, PcSets DEF IInv, TypeOK, MapOK, CInv, One, Counted, Live,
  Settled, Bad, FlashBad, FromFlash
<1>7. Read'  BY <1>1, <1>2, PcSets DEF IInv, TypeOK, MapOK, CInv, Read, FromFlash,
  MutexUnlessForced
<1>8. Failed'
  <2>. SUFFICES ASSUME Calm', NEW q \in Procs, Failing(q)'
                PROVE  Bad(map[q])' /\ FlashBad /\ refcnt[map[q]] <= 0
    BY DEF Failed, FlashBad
  <2>1. q # p  BY DEF Failing, IInv, TypeOK, MapOK
  <2>2. Failing(q)  BY <2>1 DEF Failing, IInv, TypeOK, MapOK
  <2>3. Bad(map[q]) /\ FlashBad /\ refcnt[map[q]] <= 0
    BY <1>1, <2>2 DEF CInv, Failed
  <2>4. \/ imgEnv' = imgEnv /\ imgCrc' = imgCrc
        \/ /\ imgEnv' = [imgEnv EXCEPT ![map[p]] = EmptyEnv]
           /\ imgCrc' = [imgCrc EXCEPT ![map[p]] = NoCrc]
    OBVIOUS
  <2>5. EmptyEnv # NoCrc  BY EmptyEnvType, EnvAssumption
  <2>6. map[q] \in Inodes  BY <2>2, PcSets DEF Failing, IInv, TypeOK, MapOK
  <2>. HIDE DEF LoadReadFails
  <2>7. Bad(map[q])'
    <3>1. map'[q] = map[q]  BY DEF LoadReadFails
    <3>. QED  BY <2>3, <2>4, <2>5, <2>6, <3>1 DEF Bad, IInv, TypeOK
  <2>. QED  BY <2>3, <2>7
<1>9. InHand'  BY <1>1, <1>2, PcSets DEF IInv, TypeOK, MapOK, CInv, InHand, Synced,
  MutexUnlessForced
<1>10. Saved'  BY <1>1, <1>2, PcSets DEF IInv, TypeOK, MapOK, CInv, Saved, Bad,
  MutexUnlessForced, Behind
<1>11. Behind'  BY <1>1, <1>2, PcSets DEF IInv, TypeOK, MapOK, CInv, Behind
<1>12. Coherent'
  <2>. SUFFICES ASSUME Calm', NEW q \in Procs, inited[q],
                       pc'[q] \in {"idle", "lock_op", "check"},
                       curRev[q] = revision[map[q]], Settled(map[q])'
                PROVE  kv[q] = imgEnv'[map[q]]
    BY DEF Coherent
  <2>1. Calm /\ map[p] \in Inodes  BY <1>1, PcSets DEF IInv, TypeOK, MapOK
  <2>2. pc[q] \in {"idle", "lock_op", "check"}  BY DEF IInv, TypeOK, MapOK
  <2>3. map[q] \in Inodes /\ refcnt[map[q]] > 0  BY <2>1, <2>2, Loader
  <2>4. map[q] = map[p]  BY <2>1, <2>3, OneFile DEF CInv
  <2>. QED  BY <2>3, <2>4
<1>13. UpdateReachesFlash'  BY <1>1, <1>2, PcSets DEF IInv, TypeOK, MapOK, CInv,
  UpdateReachesFlash, Calm
<1>. QED  BY <1>3, <1>4, <1>5, <1>6, <1>7, <1>8, <1>9, <1>10, <1>11, <1>12, <1>13 DEF CInv

\* LoadParse keeps the image, the counts and the lists in order.
LEMMA Image_LoadParse ==
    ASSUME NEW p \in Procs, IInv, IInv', CInv, LoadParse(p) PROVE CInv'
<1>. USE InodesAssumption DEF LoadParse, Go, shmVars, flashVars, procVars, histVars, bounds
<1>1. Calm' => Calm  BY DEF Calm, IInv, TypeOK
<1>2. Calm => \A q \in Procs \ {p} : pc[q] \notin InLock
  BY Alone, PcSets DEF CInv
<1>20. Calm => /\ map[p] \in Inodes /\ Settled(map[p])
               /\ \A i \in Inodes : Live(i) => i = map[p]
               /\ \A q \in Procs : map[q] \in Inodes => map[q] = map[p]
  BY OneFile, PcSets DEF CInv, IInv, MapOK, Settled
<1>21. Calm => LET i == map[p] IN
         /\ refcnt[i] > 0 => ~Bad(i) /\ (~dirty => FromFlash(i))
         /\ refcnt[i] < 0 => Bad(i) /\ FlashBad
         /\ refcnt[i] = 0 => FromFlash(i)
         /\ refcnt[i] \in Int
  BY <1>20 DEF CInv, Counted, Read, Live, IInv, TypeOK
<1>3. One'  BY <1>1, <1>2, PcSets DEF IInv, TypeOK, MapOK, CInv, One
<1>4. Calling'  BY <1>1, <1>2, PcSets DEF IInv, TypeOK, MapOK, CInv, Calling
<1>5. RefcntCoversUsers'
  <2>. SUFFICES ASSUME Calm', NEW i \in Inodes
                PROVE  (Cardinality(Users(i)) <= refcnt[i] \/ Users(i) = {})'
    BY DEF RefcntCoversUsers, Calm
  <2>1. Calm  BY <1>1
  <2>2. Cardinality(Users(i)) <= refcnt[i] \/ Users(i) = {}
    BY <2>1 DEF CInv, RefcntCoversUsers, Calm
  <2>3. refcnt[i] \in Int /\ IsFiniteSet(Users(i))  BY UsersFinite DEF IInv, TypeOK
  <2>4. CASE i # map[p]
    <3>1. Users(i)' \subseteq Users(i) /\ refcnt'[i] = refcnt[i]  BY <2>4 DEF IInv, TypeOK,
      MapOK, Users
    <3>. QED  BY <2>2, <2>3, <3>1, StaysCovered
  <2>5. CASE i = map[p] /\ imgCrc[map[p]] # imgEnv[map[p]]
    <3>1. Users(i)' \subseteq Users(i)  BY <2>5 DEF IInv, TypeOK, MapOK, Users
    <3>2. refcnt[i] <= 0  BY <1>21, <2>1, <2>5 DEF Bad
    <3>3. Users(i) = {}  BY <2>1, <2>3, <3>2, UserCounts DEF CInv
    <3>. QED  BY <3>1, <3>3
  <2>6. CASE i = map[p] /\ imgCrc[map[p]] = imgEnv[map[p]]
    <3>1. Users(i)' \subseteq Users(i) \cup {p}  BY DEF IInv, TypeOK, MapOK, Users
    <3>2. refcnt'[i] = refcnt[i] + 1 /\ refcnt[i] >= 0
      BY <1>21, <2>1, <2>6 DEF Bad, IInv, TypeOK, MapOK
    <3>3. IsFiniteSet(Users(i) \cup {p}) /\ Cardinality(Users(i) \cup {p}) <= refcnt[i] + 1
      <4>1. Cardinality(Users(i)) \in Nat /\ (Users(i) = {} => Cardinality(Users(i)) = 0)
        BY <2>3, FS_CardinalityType, FS_EmptySet
      <4>2. /\ IsFiniteSet(Users(i) \cup {p})
            /\ \/ Cardinality(Users(i) \cup {p}) = Cardinality(Users(i))
               \/ Cardinality(Users(i) \cup {p}) = Cardinality(Users(i)) + 1
        BY <2>3, FS_AddElement
      <4>. HIDE DEF LoadParse
      <4>. QED  BY <2>2, <2>3, <3>2, <4>1, <4>2
    <3>. HIDE DEF LoadParse
    <3>. QED  BY <2>3, <3>1, <3>2, <3>3, StaysCovered
  <2>. QED  BY <2>4, <2>5, <2>6
<1>6. Counted'
  <2>. SUFFICES ASSUME Calm', NEW i \in Inodes, Live(i)'
                PROVE  /\ refcnt'[i] > 0 => ~Bad(i) /\ (~dirty => FromFlash(i))
                       /\ refcnt'[i] < 0 => Bad(i) /\ FlashBad
    BY DEF Counted, FlashBad, Bad, FromFlash
  <2>1. Calm /\ i = map[p]  BY <1>1, <1>20 DEF Live
  <2>2. \/ ~Bad(i) /\ refcnt'[i] = refcnt[i] + 1
        \/ Bad(i) /\ refcnt'[i] = 0
    BY <2>1 DEF Bad, IInv, TypeOK
  <2>. HIDE DEF LoadParse
  <2>. QED  BY <1>21, <2>1, <2>2
<1>7. Read'  BY <1>1, <1>2, PcSets DEF IInv, TypeOK, MapOK, CInv, Read, FromFlash,
  MutexUnlessForced
<1>8. Failed'
  <2>. SUFFICES ASSUME Calm', NEW q \in Procs, Failing(q)'
                PROVE  Bad(map[q]) /\ FlashBad /\ refcnt'[map[q]] <= 0
    BY DEF Failed, FlashBad, Bad
  <2>1. Calm /\ map[q] \in Inodes /\ map[q] = map[p]
    <3>1. map'[q] \in Inodes  BY PcSets DEF Failing, IInv, MapOK
    <3>2. map' = map  OBVIOUS
    <3>. HIDE DEF LoadParse
    <3>. QED  BY <1>1, <1>20, <3>1, <3>2
  <2>2. \/ ~Bad(map[p])
        \/ Bad(map[p]) /\ refcnt'[map[p]] = 0
    BY <1>20, <2>1 DEF Bad, IInv, TypeOK
  <2>3. q # p => Failing(q)  BY DEF Failing, IInv, TypeOK, MapOK
  <2>4. q = p => Bad(map[p])  BY DEF Failing, Bad, IInv, TypeOK, MapOK
  <2>5. q # p => Bad(map[q]) /\ FlashBad  BY <2>1, <2>3 DEF CInv, Failed
  <2>6. Bad(map[p])  BY <2>1, <2>4, <2>5
  <2>7. FlashBad  BY <1>21, <2>1, <2>6 DEF Bad, FromFlash, FlashBad
  <2>. QED  BY <2>1, <2>2, <2>6, <2>7
<1>9. InHand'  BY <1>1, <1>2, PcSets DEF IInv, TypeOK, MapOK, CInv, InHand, Synced,
  MutexUnlessForced
<1>10. Saved'  BY <1>1, <1>2, PcSets DEF IInv, TypeOK, MapOK, CInv, Saved, Bad,
  MutexUnlessForced, Behind
<1>11. Behind'  BY <1>1, <1>2, PcSets DEF IInv, TypeOK, MapOK, CInv, Behind
<1>12. Coherent'  BY <1>1, <1>2, PcSets DEF IInv, TypeOK, MapOK, CInv, Coherent, Settled
<1>13. UpdateReachesFlash'  BY <1>1, <1>2, PcSets DEF IInv, TypeOK, MapOK, CInv,
  UpdateReachesFlash, Calm
<1>. QED  BY <1>3, <1>4, <1>5, <1>6, <1>7, <1>8, <1>9, <1>10, <1>11, <1>12, <1>13 DEF CInv

\* Check keeps the image, the counts and the lists in order.
LEMMA Image_Check ==
    ASSUME NEW p \in Procs, IInv, IInv', CInv, Check(p) PROVE CInv'
<1>. USE InodesAssumption DEF Check, Go, shmVars, flashVars, procVars, histVars, bounds
<1>1. Calm' => Calm  BY DEF Calm, IInv, TypeOK
<1>2. Calm => \A q \in Procs \ {p} : pc[q] \notin InLock
  BY Alone, PcSets DEF CInv
<1>20. Calm => /\ map[p] \in Inodes /\ refcnt[map[p]] > 0 /\ Settled(map[p])
  BY Loader, PcSets DEF CInv, Calling, Settled
<1>21. Calm => Loaded(p) = imgEnv[map[p]]
  BY <1>20 DEF CInv, Calling, Coherent, Loaded
<1>22. Loaded(p) \in Envs  BY PcSets DEF Loaded, IInv, TypeOK, MapOK
<1>3. One'  BY <1>1, <1>2, PcSets DEF IInv, TypeOK, MapOK, CInv, One
<1>4. Calling'
  <2>1. \A q \in Procs \ {p} : pc'[q] = pc[q] /\ kv'[q] = kv[q]  BY DEF IInv, TypeOK, MapOK
  <2>2. inited[p]  BY DEF CInv, Calling
  <2>3. pc'[p] = "ser0" \/ pc'[p] = "unlock_op"  BY DEF IInv, TypeOK, MapOK
  <2>4. pc'[p] = "ser0" => op[p].type = "update" /\ kv'[p][op[p].key] = op[p].val
    BY <1>22 DEF IInv, TypeOK, Ops, Envs, bootenv_set_value
  <2>5. inited' = inited /\ op' = op  OBVIOUS
  <2>. HIDE DEF Check
  <2>. QED  BY <2>1, <2>2, <2>3, <2>4, <2>5, PcSets DEF CInv, Calling
<1>5. RefcntCoversUsers'
  <2>. SUFFICES ASSUME Calm', NEW i \in Inodes
                PROVE  (Cardinality(Users(i)) <= refcnt[i] \/ Users(i) = {})'
    BY DEF RefcntCoversUsers, Calm
  <2>1. Users(i)' \subseteq Users(i) /\ refcnt'[i] = refcnt[i]
    BY <1>1 DEF IInv, TypeOK, MapOK, Users
  <2>2. Cardinality(Users(i)) <= refcnt[i] \/ Users(i) = {}
    BY <1>1 DEF CInv, RefcntCoversUsers, Calm
  <2>3. refcnt[i] \in Int  BY DEF IInv, TypeOK
  <2>. QED  BY <2>1, <2>2, <2>3, StaysCovered, UsersFinite
<1>6. Counted'  BY <1>1, <1>2, PcSets DEF IInv, TypeOK, MapOK, CInv, One, Counted, Live,
  Settled, Bad, FlashBad, FromFlash
<1>7. Read'  BY <1>1, <1>2, PcSets DEF IInv, TypeOK, MapOK, CInv, Read, FromFlash,
  MutexUnlessForced
<1>8. Failed'  BY <1>1, <1>2, PcSets DEF IInv, TypeOK, MapOK, CInv, Failed, Failing, Bad,
  FlashBad, MutexUnlessForced
<1>9. InHand'
  <2>1. \A q \in Procs \ {p} : Calm => pc'[q] = pc[q] /\ pc[q] \notin InLock
    BY <1>2 DEF IInv, TypeOK, MapOK
  <2>2. pc'[p] = "unlock_op" /\ Calm =>
          kv'[p] = imgEnv[map[p]] /\ curRev'[p] = revision[map[p]]
    BY <1>21 DEF IInv, TypeOK
  <2>3. pc'[p] # "unlock_load"  BY DEF IInv, TypeOK
  <2>4. map' = map /\ imgEnv' = imgEnv /\ revision' = revision  OBVIOUS
  <2>. HIDE DEF Check
  <2>. QED  BY <1>1, <2>1, <2>2, <2>3, <2>4, PcSets DEF InHand, Synced
<1>10. Saved'  BY <1>1, <1>2, PcSets DEF IInv, TypeOK, MapOK, CInv, Saved, Bad,
  MutexUnlessForced, Behind
<1>11. Behind'  BY <1>1, <1>2, PcSets DEF IInv, TypeOK, MapOK, CInv, Behind
<1>12. Coherent'  BY <1>1, <1>2, PcSets DEF IInv, TypeOK, MapOK, CInv, Coherent, Settled
<1>13. UpdateReachesFlash'
  <2>. SUFFICES ASSUME Calm', ~dirty, NEW q \in Procs, pc'[q] = "unlock_op",
                       op[q].type = "update"
                PROVE  Shown(flashEnv[op[q].key]) = op[q].val /\ flashCrc = flashEnv
    BY DEF UpdateReachesFlash, Calm
  <2>1. Calm  BY <1>1
  <2>2. q = p  BY <1>2, <2>1, PcSets DEF IInv, TypeOK, MapOK
  <2>3. Shown(Loaded(p)[op[p].key]) = op[p].val
    BY <2>2 DEF bootenv_get_value, IInv, TypeOK, MapOK
  <2>4. ~Bad(map[p]) /\ FromFlash(map[p])
    BY <1>20, <2>1 DEF CInv, Counted, Live
  <2>. QED  BY <1>21, <2>1, <2>2, <2>3, <2>4 DEF Bad, FromFlash
<1>. QED  BY <1>3, <1>4, <1>5, <1>6, <1>7, <1>8, <1>9, <1>10, <1>11, <1>12, <1>13 DEF CInv

\* SerializeClear keeps the image, the counts and the lists in order.
LEMMA Image_SerializeClear ==
    ASSUME NEW p \in Procs, IInv, IInv', CInv, SerializeClear(p) PROVE CInv'
<1>. USE InodesAssumption DEF SerializeClear, Go, shmVars, flashVars, procVars, histVars,
  bounds
<1>1. Calm' => Calm  BY DEF Calm, IInv, TypeOK
<1>2. Calm => \A q \in Procs \ {p} : pc[q] \notin InLock
  BY Alone, PcSets DEF CInv
<1>20. Calm => /\ inited[p] /\ map[p] \in Inodes /\ refcnt[map[p]] > 0 /\ lock[map[p]] = 1
               /\ \A q \in Procs : ~Failing(q)
               /\ \A q \in Procs : map[q] \in Inodes => map[q] = map[p]
               /\ \A i \in Inodes : Live(i) => i = map[p]
               /\ curRev[p] = revision[map[p]]
               /\ op[p].type = "update" /\ kv[p][op[p].key] = op[p].val
  BY Saver, PcSets
<1>3. One'  BY <1>1, <1>2, PcSets DEF IInv, TypeOK, MapOK, CInv, One
<1>4. Calling'  BY <1>1, <1>2, PcSets DEF IInv, TypeOK, MapOK, CInv, Calling
<1>5. RefcntCoversUsers'
  <2>. SUFFICES ASSUME Calm', NEW i \in Inodes
                PROVE  (Cardinality(Users(i)) <= refcnt[i] \/ Users(i) = {})'
    BY DEF RefcntCoversUsers, Calm
  <2>1. Users(i)' \subseteq Users(i) /\ refcnt'[i] = refcnt[i]
    BY <1>1 DEF IInv, TypeOK, MapOK, Users
  <2>2. Cardinality(Users(i)) <= refcnt[i] \/ Users(i) = {}
    BY <1>1 DEF CInv, RefcntCoversUsers, Calm
  <2>3. refcnt[i] \in Int  BY DEF IInv, TypeOK
  <2>. QED  BY <2>1, <2>2, <2>3, StaysCovered, UsersFinite
<1>6. Counted'
  <2>. SUFFICES ASSUME Calm', NEW i \in Inodes, Live(i)', Settled(i)'
                PROVE  ~Bad(i)' /\ (~dirty' => FromFlash(i)')
    <3>1. \A i \in Inodes : Live(i)' => Live(i)  BY DEF Live
    <3>2. \A i \in Inodes : Calm /\ Live(i) => refcnt[i] > 0  BY <1>20
    <3>3. refcnt' = refcnt /\ \A i \in Inodes : refcnt[i] \in Int  BY DEF IInv, TypeOK
    <3>. HIDE DEF SerializeClear
    <3>. QED  BY <1>1, <3>1, <3>2, <3>3 DEF Counted
  <2>1. Calm /\ i = map[p] /\ map[p] \in Inodes  BY <1>1, <1>20 DEF Live
  <2>2. lock[i] = 1  BY <1>20, <2>1
  <2>3. \A q \in Procs : pc'[q] \notin InLock \ Saving
    BY <1>2, <2>1, PcSets DEF IInv, TypeOK, MapOK
  <2>. QED  BY <2>2, <2>3 DEF Settled
<1>7. Read'  BY <1>1, <1>2, PcSets DEF IInv, TypeOK, MapOK, CInv, Read, FromFlash,
  MutexUnlessForced
<1>8. Failed'
  <2>1. \A q \in Procs : Failing(q)' => Failing(q)  BY DEF Failing, IInv, TypeOK, MapOK
  <2>. QED  BY <1>1, <1>20, <2>1 DEF Failed
<1>9. InHand'  BY <1>1, <1>2, PcSets DEF IInv, TypeOK, MapOK, CInv, InHand, Synced,
  MutexUnlessForced
<1>10. Saved'  BY <1>1, <1>2, PcSets DEF IInv, TypeOK, MapOK, CInv, Saved, Bad,
  MutexUnlessForced, Behind
<1>11. Behind'  BY <1>1, <1>2, PcSets DEF IInv, TypeOK, MapOK, CInv, Behind
<1>12. Coherent'
  <2>. SUFFICES ASSUME Calm', NEW q \in Procs, inited[q], Settled(map[q])'
                PROVE  FALSE
    BY DEF Coherent
  <2>1. Calm /\ map[q] = map[p]  BY <1>1, <1>20 DEF IInv, MapOK
  <2>2. lock[map[p]] = 1  BY <1>20, <2>1
  <2>3. \A r \in Procs : pc'[r] \notin InLock \ Saving  BY <1>2, <2>1, PcSets DEF IInv,
    TypeOK, MapOK
  <2>. QED  BY <2>1, <2>2, <2>3 DEF Settled
<1>13. UpdateReachesFlash'  BY <1>1, <1>2, PcSets DEF IInv, TypeOK, MapOK, CInv,
  UpdateReachesFlash, Calm
<1>. QED  BY <1>3, <1>4, <1>5, <1>6, <1>7, <1>8, <1>9, <1>10, <1>11, <1>12, <1>13 DEF CInv

\* SerializeFill keeps the image, the counts and the lists in order.
LEMMA Image_SerializeFill ==
    ASSUME NEW p \in Procs, IInv, IInv', CInv, SerializeFill(p) PROVE CInv'
<1>. USE InodesAssumption DEF SerializeFill, Go, shmVars, flashVars, procVars, histVars,
  bounds, NextRevision
<1>1. Calm' => Calm  BY DEF Calm, IInv, TypeOK
<1>2. Calm => \A q \in Procs \ {p} : pc[q] \notin InLock
  BY Alone, PcSets DEF CInv
<1>20. Calm => /\ inited[p] /\ map[p] \in Inodes /\ refcnt[map[p]] > 0 /\ lock[map[p]] = 1
               /\ \A q \in Procs : ~Failing(q)
               /\ \A q \in Procs : map[q] \in Inodes => map[q] = map[p]
               /\ \A i \in Inodes : Live(i) => i = map[p]
               /\ curRev[p] = revision[map[p]]
               /\ op[p].type = "update" /\ kv[p][op[p].key] = op[p].val
  BY Saver, PcSets
<1>3. One'  BY <1>1, <1>2, PcSets DEF IInv, TypeOK, MapOK, CInv, One
<1>4. Calling'  BY <1>1, <1>2, PcSets DEF IInv, TypeOK, MapOK, CInv, Calling
<1>5. RefcntCoversUsers'
  <2>. SUFFICES ASSUME Calm', NEW i \in Inodes
                PROVE  (Cardinality(Users(i)) <= refcnt[i] \/ Users(i) = {})'
    BY DEF RefcntCoversUsers, Calm
  <2>1. Users(i)' \subseteq Users(i) /\ refcnt'[i] = refcnt[i]
    BY <1>1 DEF IInv, TypeOK, MapOK, Users
  <2>2. Cardinality(Users(i)) <= refcnt[i] \/ Users(i) = {}
    BY <1>1 DEF CInv, RefcntCoversUsers, Calm
  <2>3. refcnt[i] \in Int  BY DEF IInv, TypeOK
  <2>. QED  BY <2>1, <2>2, <2>3, StaysCovered, UsersFinite
<1>6. Counted'
  <2>. SUFFICES ASSUME Calm', NEW i \in Inodes, Live(i)', Settled(i)'
                PROVE  ~Bad(i)' /\ (~dirty' => FromFlash(i)')
    <3>1. \A i \in Inodes : Live(i)' => Live(i)  BY DEF Live
    <3>2. \A i \in Inodes : Calm /\ Live(i) => refcnt[i] > 0  BY <1>20
    <3>3. refcnt' = refcnt /\ \A i \in Inodes : refcnt[i] \in Int  BY DEF IInv, TypeOK
    <3>. HIDE DEF SerializeFill
    <3>. QED  BY <1>1, <3>1, <3>2, <3>3 DEF Counted
  <2>1. Calm /\ i = map[p] /\ map[p] \in Inodes  BY <1>1, <1>20 DEF Live
  <2>2. lock[i] = 1  BY <1>20, <2>1
  <2>3. \A q \in Procs : pc'[q] \notin InLock \ Saving
    BY <1>2, <2>1, PcSets DEF IInv, TypeOK, MapOK
  <2>. QED  BY <2>2, <2>3 DEF Settled
<1>7. Read'  BY <1>1, <1>2, PcSets DEF IInv, TypeOK, MapOK, CInv, Read, FromFlash,
  MutexUnlessForced
<1>8. Failed'
  <2>1. \A q \in Procs : Failing(q)' => Failing(q)  BY DEF Failing, IInv, TypeOK, MapOK
  <2>. QED  BY <1>1, <1>20, <2>1 DEF Failed
<1>9. InHand'  BY <1>1, <1>2, PcSets DEF IInv, TypeOK, MapOK, CInv, InHand, Synced,
  MutexUnlessForced
<1>10. Saved'  BY <1>1, <1>2, PcSets DEF IInv, TypeOK, MapOK, CInv, Saved, Bad,
  MutexUnlessForced, Behind
<1>11. Behind'
  <2>. SUFFICES ASSUME Calm', NEW q \in Procs, inited[q]
                PROVE  curRev'[q] <= revision'[map[q]]
    BY DEF Behind
  <2>1. Calm /\ map[q] = map[p] /\ map[p] \in Inodes  BY <1>1, <1>20 DEF IInv, MapOK
  <2>2. curRev[q] <= revision[map[p]]  BY <2>1 DEF CInv, Behind
  <2>3. curRev[p] = revision[map[p]]
    <3>. HIDE DEF SerializeFill
    <3>. QED  BY <1>20, <2>1
  <2>4. revision'[map[p]] = revision[map[p]] + 1  BY <2>1, <2>3 DEF IInv, TypeOK
  <2>5. curRev'[q] = curRev[q] \/ curRev'[q] = curRev[p] + 1  BY DEF IInv, TypeOK
  <2>6. curRev[q] \in Nat /\ revision[map[p]] \in Nat  BY <2>1 DEF IInv, TypeOK
  <2>. HIDE DEF SerializeFill
  <2>. QED  BY <2>1, <2>2, <2>3, <2>4, <2>5, <2>6
<1>12. Coherent'
  <2>. SUFFICES ASSUME Calm', NEW q \in Procs, inited[q],
                       pc'[q] \in {"idle", "lock_op", "check"},
                       curRev'[q] = revision'[map[q]]
                PROVE  FALSE
    BY DEF Coherent
  <2>1. q # p  BY DEF IInv, TypeOK, MapOK
  <2>2. Calm /\ map[q] = map[p] /\ map[p] \in Inodes  BY <1>1, <1>20 DEF IInv, MapOK
  <2>3. curRev'[q] = curRev[q] /\ curRev[q] <= revision[map[p]]
    BY <2>1, <2>2 DEF CInv, Behind, IInv, TypeOK
  <2>4. curRev[p] = revision[map[p]]
    <3>. HIDE DEF SerializeFill
    <3>. QED  BY <1>20, <2>2
  <2>5. revision'[map[p]] = revision[map[p]] + 1  BY <2>2, <2>4 DEF IInv, TypeOK
  <2>6. revision[map[p]] \in Nat /\ curRev[q] \in Nat  BY <2>2 DEF IInv, TypeOK
  <2>. HIDE DEF SerializeFill
  <2>. QED  BY <2>2, <2>3, <2>5, <2>6
<1>13. UpdateReachesFlash'  BY <1>1, <1>2, PcSets DEF IInv, TypeOK, MapOK, CInv,
  UpdateReachesFlash, Calm
<1>. QED  BY <1>3, <1>4, <1>5, <1>6, <1>7, <1>8, <1>9, <1>10, <1>11, <1>12, <1>13 DEF CInv

\* SaveCrc keeps the image, the counts and the lists in order.
LEMMA Image_SaveCrc ==
    ASSUME NEW p \in Procs, IInv, IInv', CInv, SaveCrc(p) PROVE CInv'
<1>. USE InodesAssumption DEF SaveCrc, Go, shmVars, flashVars, procVars, histVars, bounds,
  NewCrc, SaveFailed, Fault
<1>1. Calm' => Calm  BY DEF Calm, IInv, TypeOK
<1>2. Calm => \A q \in Procs \ {p} : pc[q] \notin InLock
  BY Alone, PcSets DEF CInv
<1>20. Calm => /\ inited[p] /\ map[p] \in Inodes /\ refcnt[map[p]] > 0 /\ lock[map[p]] = 1
               /\ \A q \in Procs : ~Failing(q)
               /\ \A q \in Procs : map[q] \in Inodes => map[q] = map[p]
               /\ \A i \in Inodes : Live(i) => i = map[p]
               /\ curRev[p] = revision[map[p]]
               /\ op[p].type = "update" /\ kv[p][op[p].key] = op[p].val
  BY Saver, PcSets
<1>3. One'  BY <1>1, <1>2, PcSets DEF IInv, TypeOK, MapOK, CInv, One
<1>4. Calling'  BY <1>1, <1>2, PcSets DEF IInv, TypeOK, MapOK, CInv, Calling
<1>5. RefcntCoversUsers'
  <2>. SUFFICES ASSUME Calm', NEW i \in Inodes
                PROVE  (Cardinality(Users(i)) <= refcnt[i] \/ Users(i) = {})'
    BY DEF RefcntCoversUsers, Calm
  <2>1. Users(i)' \subseteq Users(i) /\ refcnt'[i] = refcnt[i]
    BY <1>1 DEF IInv, TypeOK, MapOK, Users
  <2>2. Cardinality(Users(i)) <= refcnt[i] \/ Users(i) = {}
    BY <1>1 DEF CInv, RefcntCoversUsers, Calm
  <2>3. refcnt[i] \in Int  BY DEF IInv, TypeOK
  <2>. QED  BY <2>1, <2>2, <2>3, StaysCovered, UsersFinite
<1>6. Counted'
  <2>. SUFFICES ASSUME Calm', NEW i \in Inodes, Live(i)', Settled(i)'
                PROVE  ~Bad(i)' /\ (~dirty' => FromFlash(i)')
    <3>1. \A i \in Inodes : Live(i)' => Live(i)  BY DEF Live
    <3>2. \A i \in Inodes : Calm /\ Live(i) => refcnt[i] > 0  BY <1>20
    <3>3. refcnt' = refcnt /\ \A i \in Inodes : refcnt[i] \in Int  BY DEF IInv, TypeOK
    <3>. HIDE DEF SaveCrc
    <3>. QED  BY <1>1, <3>1, <3>2, <3>3 DEF Counted
  <2>1. Calm /\ i = map[p] /\ map[p] \in Inodes  BY <1>1, <1>20 DEF Live
  <2>2. ~Bad(i)'  BY <2>1 DEF Bad, IInv, TypeOK
  <2>3. CASE ~SaveFailed(p)
    <3>1. lock[i] = 1  BY <1>20, <2>1
    <3>2. \A q \in Procs : pc'[q] \notin InLock \ Saving
      BY <1>2, <2>1, <2>3, PcSets DEF IInv, TypeOK, MapOK
    <3>. QED  BY <3>1, <3>2 DEF Settled
  <2>4. CASE SaveFailed(p)  BY <2>2, <2>4
  <2>. QED  BY <2>3, <2>4
<1>7. Read'  BY <1>1, <1>2, PcSets DEF IInv, TypeOK, MapOK, CInv, Read, FromFlash,
  MutexUnlessForced
<1>8. Failed'
  <2>1. \A q \in Procs : Failing(q)' => Failing(q)  BY DEF Failing, IInv, TypeOK, MapOK
  <2>. QED  BY <1>1, <1>20, <2>1 DEF Failed
<1>9. InHand'
  <2>1. Calm => imgEnv[map[p]] = kv[p]  BY DEF CInv, Saved
  <2>2. \A q \in Procs \ {p} : pc'[q] = pc[q]  BY DEF IInv, TypeOK, MapOK
  <2>3. pc'[p] # "unlock_load"  BY DEF IInv, TypeOK
  <2>4. map' = map /\ imgEnv' = imgEnv /\ revision' = revision /\ kv' = kv /\ curRev' = curRev
    OBVIOUS
  <2>. HIDE DEF SaveCrc
  <2>. SUFFICES ASSUME Calm', NEW q \in Procs, pc'[q] \in {"unlock_load", "unlock_op"}
                PROVE  kv[q] = imgEnv[map[q]] /\ curRev[q] = revision[map[q]]
    BY <2>4 DEF InHand, Synced
  <2>5. q = p  BY <1>1, <1>2, <2>2, PcSets
  <2>. QED  BY <1>1, <1>20, <2>1, <2>5
<1>10. Saved'  BY <1>1, <1>2, PcSets DEF IInv, TypeOK, MapOK, CInv, Saved, Bad,
  MutexUnlessForced, Behind
<1>11. Behind'  BY <1>1, <1>2, PcSets DEF IInv, TypeOK, MapOK, CInv, Behind
<1>12. Coherent'
  <2>. SUFFICES ASSUME Calm', NEW q \in Procs, inited[q],
                       pc'[q] \in {"idle", "lock_op", "check"},
                       curRev[q] = revision[map[q]]
                PROVE  FALSE
    BY DEF Coherent
  <2>1. q # p  BY DEF IInv, TypeOK, MapOK
  <2>2. map[q] = map[p] /\ Calm  BY <1>1, <1>20 DEF IInv, MapOK
  <2>3. curRev[q] < revision[map[p]]  BY <2>1, <2>2 DEF CInv, Saved
  <2>. QED  BY <2>2, <2>3 DEF IInv, TypeOK
<1>13. UpdateReachesFlash'  BY <1>1, <1>2, PcSets DEF IInv, TypeOK, MapOK, CInv,
  UpdateReachesFlash, Calm
<1>. QED  BY <1>3, <1>4, <1>5, <1>6, <1>7, <1>8, <1>9, <1>10, <1>11, <1>12, <1>13 DEF CInv

\* SaveErase keeps the image, the counts and the lists in order.
LEMMA Image_SaveErase ==
    ASSUME NEW p \in Procs, IInv, IInv', CInv, SaveErase(p) PROVE CInv'
<1>. USE InodesAssumption DEF SaveErase, Go, shmVars, flashVars, procVars, histVars,
  bounds, SaveFailed, Fault
<1>1. Calm' => Calm  BY DEF Calm, IInv, TypeOK
<1>2. Calm => \A q \in Procs \ {p} : pc[q] \notin InLock
  BY Alone, PcSets DEF CInv
<1>20. Calm => /\ inited[p] /\ map[p] \in Inodes /\ refcnt[map[p]] > 0 /\ lock[map[p]] = 1
               /\ \A q \in Procs : ~Failing(q)
               /\ \A q \in Procs : map[q] \in Inodes => map[q] = map[p]
               /\ \A i \in Inodes : Live(i) => i = map[p]
               /\ curRev[p] = revision[map[p]]
               /\ op[p].type = "update" /\ kv[p][op[p].key] = op[p].val
  BY Saver, PcSets
<1>3. One'  BY <1>1, <1>2, PcSets DEF IInv, TypeOK, MapOK, CInv, One
<1>4. Calling'  BY <1>1, <1>2, PcSets DEF IInv, TypeOK, MapOK, CInv, Calling
<1>5. RefcntCoversUsers'
  <2>. SUFFICES ASSUME Calm', NEW i \in Inodes
                PROVE  (Cardinality(Users(i)) <= refcnt[i] \/ Users(i) = {})'
    BY DEF RefcntCoversUsers, Calm
  <2>1. Users(i)' \subseteq Users(i) /\ refcnt'[i] = refcnt[i]
    BY <1>1 DEF IInv, TypeOK, MapOK, Users
  <2>2. Cardinality(Users(i)) <= refcnt[i] \/ Users(i) = {}
    BY <1>1 DEF CInv, RefcntCoversUsers, Calm
  <2>3. refcnt[i] \in Int  BY DEF IInv, TypeOK
  <2>. QED  BY <2>1, <2>2, <2>3, StaysCovered, UsersFinite
<1>6. Counted'
  <2>. SUFFICES ASSUME Calm', NEW i \in Inodes, Live(i)', Settled(i)'
                PROVE  ~Bad(i)' /\ (~dirty' => FromFlash(i)')
    <3>1. \A i \in Inodes : Live(i)' => Live(i)  BY DEF Live
    <3>2. \A i \in Inodes : Calm /\ Live(i) => refcnt[i] > 0  BY <1>20
    <3>3. refcnt' = refcnt /\ \A i \in Inodes : refcnt[i] \in Int  BY DEF IInv, TypeOK
    <3>. HIDE DEF SaveErase
    <3>. QED  BY <1>1, <3>1, <3>2, <3>3 DEF Counted
  <2>1. Calm /\ i = map[p] /\ map[p] \in Inodes  BY <1>1, <1>20 DEF Live
  <2>2. ~Bad(i)'  BY <2>1 DEF CInv, Saved, Bad
  <2>3. CASE dirty'  BY <2>2, <2>3
  <2>4. CASE ~dirty'
    <3>1. lock[i] = 1  BY <1>20, <2>1
    <3>2. \A q \in Procs : pc'[q] \notin InLock \ Saving
      BY <1>2, <2>1, <2>4, PcSets DEF IInv, TypeOK, MapOK
    <3>. QED  BY <3>1, <3>2 DEF Settled
  <2>. QED  BY <2>3, <2>4
<1>7. Read'  BY <1>1, <1>2, PcSets DEF IInv, TypeOK, MapOK, CInv, Read, FromFlash,
  MutexUnlessForced
<1>8. Failed'
  <2>1. \A q \in Procs : Failing(q)' => Failing(q)  BY DEF Failing, IInv, TypeOK, MapOK
  <2>. QED  BY <1>1, <1>20, <2>1 DEF Failed
<1>9. InHand'
  <2>1. Calm => imgEnv[map[p]] = kv[p]  BY DEF CInv, Saved
  <2>2. \A q \in Procs \ {p} : pc'[q] = pc[q]  BY DEF IInv, TypeOK, MapOK
  <2>3. pc'[p] # "unlock_load"  BY DEF IInv, TypeOK
  <2>4. map' = map /\ imgEnv' = imgEnv /\ revision' = revision /\ kv' = kv /\ curRev' = curRev
    OBVIOUS
  <2>. HIDE DEF SaveErase
  <2>. SUFFICES ASSUME Calm', NEW q \in Procs, pc'[q] \in {"unlock_load", "unlock_op"}
                PROVE  kv[q] = imgEnv[map[q]] /\ curRev[q] = revision[map[q]]
    BY <2>4 DEF InHand, Synced
  <2>5. q = p  BY <1>1, <1>2, <2>2, PcSets
  <2>. QED  BY <1>1, <1>20, <2>1, <2>5
<1>10. Saved'  BY <1>1, <1>2, PcSets DEF IInv, TypeOK, MapOK, CInv, Saved, Bad,
  MutexUnlessForced, Behind
<1>11. Behind'  BY <1>1, <1>2, PcSets DEF IInv, TypeOK, MapOK, CInv, Behind
<1>12. Coherent'
  <2>. SUFFICES ASSUME Calm', NEW q \in Procs, inited[q],
                       pc'[q] \in {"idle", "lock_op", "check"},
                       curRev[q] = revision[map[q]]
                PROVE  FALSE
    BY DEF Coherent
  <2>1. q # p  BY DEF IInv, TypeOK, MapOK
  <2>2. map[q] = map[p] /\ Calm  BY <1>1, <1>20 DEF IInv, MapOK
  <2>3. curRev[q] < revision[map[p]]  BY <2>1, <2>2 DEF CInv, Saved
  <2>. QED  BY <2>2, <2>3 DEF IInv, TypeOK
<1>13. UpdateReachesFlash'  BY <1>1, <1>2, PcSets DEF IInv, TypeOK, MapOK, CInv,
  UpdateReachesFlash, Calm
<1>. QED  BY <1>3, <1>4, <1>5, <1>6, <1>7, <1>8, <1>9, <1>10, <1>11, <1>12, <1>13 DEF CInv

\* SaveWrite keeps the image, the counts and the lists in order.
LEMMA Image_SaveWrite ==
    ASSUME NEW p \in Procs, IInv, IInv', CInv, SaveWrite(p) PROVE CInv'
<1>. USE InodesAssumption DEF SaveWrite, Go, shmVars, flashVars, procVars, histVars,
  bounds, SaveFailed, Fault
<1>1. Calm' => Calm  BY DEF Calm, IInv, TypeOK
<1>2. Calm => \A q \in Procs \ {p} : pc[q] \notin InLock
  BY Alone, PcSets DEF CInv
<1>20. Calm => /\ inited[p] /\ map[p] \in Inodes /\ refcnt[map[p]] > 0 /\ lock[map[p]] = 1
               /\ \A q \in Procs : ~Failing(q)
               /\ \A q \in Procs : map[q] \in Inodes => map[q] = map[p]
               /\ \A i \in Inodes : Live(i) => i = map[p]
               /\ curRev[p] = revision[map[p]]
               /\ op[p].type = "update" /\ kv[p][op[p].key] = op[p].val
  BY Saver, PcSets
<1>3. One'  BY <1>1, <1>2, PcSets DEF IInv, TypeOK, MapOK, CInv, One
<1>4. Calling'  BY <1>1, <1>2, PcSets DEF IInv, TypeOK, MapOK, CInv, Calling
<1>5. RefcntCoversUsers'
  <2>. SUFFICES ASSUME Calm', NEW i \in Inodes
                PROVE  (Cardinality(Users(i)) <= refcnt[i] \/ Users(i) = {})'
    BY DEF RefcntCoversUsers, Calm
  <2>1. Users(i)' \subseteq Users(i) /\ refcnt'[i] = refcnt[i]
    BY <1>1 DEF IInv, TypeOK, MapOK, Users
  <2>2. Cardinality(Users(i)) <= refcnt[i] \/ Users(i) = {}
    BY <1>1 DEF CInv, RefcntCoversUsers, Calm
  <2>3. refcnt[i] \in Int  BY DEF IInv, TypeOK
  <2>. QED  BY <2>1, <2>2, <2>3, StaysCovered, UsersFinite
<1>6. Counted'
  <2>. SUFFICES ASSUME Calm', NEW i \in Inodes, Live(i)', Settled(i)'
                PROVE  ~Bad(i)' /\ (~dirty' => FromFlash(i)')
    <3>1. \A i \in Inodes : Live(i)' => Live(i)  BY DEF Live
    <3>2. \A i \in Inodes : Calm /\ Live(i) => refcnt[i] > 0  BY <1>20
    <3>3. refcnt' = refcnt /\ \A i \in Inodes : refcnt[i] \in Int  BY DEF IInv, TypeOK
    <3>. HIDE DEF SaveWrite
    <3>. QED  BY <1>1, <3>1, <3>2, <3>3 DEF Counted
  <2>1. Calm /\ i = map[p] /\ map[p] \in Inodes  BY <1>1, <1>20 DEF Live
  <2>2. ~Bad(i)'  BY <2>1 DEF CInv, Saved, Bad
  <2>3. ~dirty' => flashEnv' = imgEnv[i] /\ flashCrc' = imgCrc[i]  BY <2>1
  <2>. QED  BY <2>2, <2>3 DEF FromFlash
<1>7. Read'  BY <1>1, <1>2, PcSets DEF IInv, TypeOK, MapOK, CInv, Read, FromFlash,
  MutexUnlessForced
<1>8. Failed'
  <2>1. \A q \in Procs : Failing(q)' => Failing(q)  BY DEF Failing, IInv, TypeOK, MapOK
  <2>. QED  BY <1>1, <1>20, <2>1 DEF Failed
<1>9. InHand'
  <2>1. Calm => imgEnv[map[p]] = kv[p]  BY DEF CInv, Saved
  <2>2. \A q \in Procs \ {p} : pc'[q] = pc[q]  BY DEF IInv, TypeOK, MapOK
  <2>3. pc'[p] # "unlock_load"  BY DEF IInv, TypeOK
  <2>4. map' = map /\ imgEnv' = imgEnv /\ revision' = revision /\ kv' = kv /\ curRev' = curRev
    OBVIOUS
  <2>. HIDE DEF SaveWrite
  <2>. SUFFICES ASSUME Calm', NEW q \in Procs, pc'[q] \in {"unlock_load", "unlock_op"}
                PROVE  kv[q] = imgEnv[map[q]] /\ curRev[q] = revision[map[q]]
    BY <2>4 DEF InHand, Synced
  <2>5. q = p  BY <1>1, <1>2, <2>2, PcSets
  <2>. QED  BY <1>1, <1>20, <2>1, <2>5
<1>10. Saved'  BY <1>1, <1>2, PcSets DEF IInv, TypeOK, MapOK, CInv, Saved, Bad,
  MutexUnlessForced, Behind
<1>11. Behind'  BY <1>1, <1>2, PcSets DEF IInv, TypeOK, MapOK, CInv, Behind
<1>12. Coherent'
  <2>. SUFFICES ASSUME Calm', NEW q \in Procs, inited[q],
                       pc'[q] \in {"idle", "lock_op", "check"},
                       curRev[q] = revision[map[q]]
                PROVE  FALSE
    BY DEF Coherent
  <2>1. q # p  BY DEF IInv, TypeOK, MapOK
  <2>2. map[q] = map[p] /\ Calm  BY <1>1, <1>20 DEF IInv, MapOK
  <2>3. curRev[q] < revision[map[p]]  BY <2>1, <2>2 DEF CInv, Saved
  <2>. QED  BY <2>2, <2>3 DEF IInv, TypeOK
<1>13. UpdateReachesFlash'
  <2>. SUFFICES ASSUME Calm', ~dirty', NEW q \in Procs, pc'[q] = "unlock_op"
                PROVE  Shown(flashEnv'[op[q].key]) = op[q].val /\ flashCrc' = flashEnv'
    BY DEF UpdateReachesFlash, Calm
  <2>1. Calm  BY <1>1
  <2>2. q = p  BY <1>2, <2>1, PcSets DEF IInv, TypeOK, MapOK
  <2>3. flashEnv' = imgEnv[map[p]] /\ flashCrc' = imgCrc[map[p]]  OBVIOUS
  <2>4. imgEnv[map[p]] = kv[p] /\ ~Bad(map[p])  BY <2>1 DEF CInv, Saved
  <2>5. kv[p][op[p].key] = op[p].val /\ op[p].val \in Vals
    <3>1. op[p].val \in Vals  BY DEF IInv, TypeOK, Ops
    <3>. HIDE DEF SaveWrite
    <3>. QED  BY <1>20, <2>1, <3>1
  <2>. HIDE DEF SaveWrite
  <2>6. op[p].val # None  BY <2>5, EnvAssumption
  <2>7. Shown(op[p].val) = op[p].val  BY <2>6 DEF Shown
  <2>. QED  BY <2>2, <2>3, <2>4, <2>5, <2>7 DEF Bad
<1>. QED  BY <1>3, <1>4, <1>5, <1>6, <1>7, <1>8, <1>9, <1>10, <1>11, <1>12, <1>13 DEF CInv

\* _deinit keeps the image, the counts and the lists in order.
LEMMA Image_deinit ==
    ASSUME NEW p \in Procs, IInv, IInv', CInv, _deinit(p) PROVE CInv'
<1>. USE InodesAssumption DEF _deinit, Go, shmVars, flashVars, procVars, histVars, bounds,
  Vanish
<1>1. Calm' => Calm  BY DEF Calm, IInv, TypeOK
<1>2. One'  BY SMTT(60), <1>1, PcSets DEF IInv, TypeOK, MapOK, CInv, One
<1>3. Calling'  BY <1>1, PcSets DEF IInv, TypeOK, MapOK, CInv, Calling
<1>4. RefcntCoversUsers'
  <2>. SUFFICES ASSUME Calm', NEW i \in Inodes
                PROVE  (Cardinality(Users(i)) <= refcnt[i] \/ Users(i) = {})'
    BY DEF RefcntCoversUsers, Calm
  <2>1. Users(i)' \subseteq Users(i) /\ refcnt'[i] = refcnt[i]
    BY <1>1 DEF IInv, TypeOK, MapOK, Users
  <2>2. Cardinality(Users(i)) <= refcnt[i] \/ Users(i) = {}
    BY <1>1 DEF CInv, RefcntCoversUsers, Calm
  <2>3. refcnt[i] \in Int  BY DEF IInv, TypeOK
  <2>. QED  BY <2>1, <2>2, <2>3, StaysCovered, UsersFinite
<1>5. Counted'
  BY SMTT(60), <1>1, PcSets DEF IInv, TypeOK, MapOK, CInv, One, Counted, Live, Settled,
  Bad, FlashBad, FromFlash
<1>6. Read'  BY <1>1, PcSets DEF IInv, TypeOK, MapOK, CInv, Read, FromFlash,
  MutexUnlessForced
<1>7. Failed'  BY <1>1, PcSets DEF IInv, TypeOK, MapOK, CInv, Failed, Failing, Bad,
  FlashBad, MutexUnlessForced
<1>8. InHand'  BY <1>1, PcSets DEF IInv, TypeOK, MapOK, CInv, InHand, Synced,
  MutexUnlessForced
<1>9. Saved'
  BY SMTT(60), <1>1, PcSets DEF IInv, TypeOK, MapOK, CInv, Saved, Bad, MutexUnlessForced,
  Behind
<1>10. Behind'  BY <1>1, PcSets DEF IInv, TypeOK, MapOK, CInv, Behind
<1>11. Coherent'  BY <1>1, PcSets DEF IInv, TypeOK, MapOK, CInv, Coherent, Settled
<1>12. UpdateReachesFlash'  BY <1>1, PcSets DEF IInv, TypeOK, MapOK, CInv,
  UpdateReachesFlash, Calm
<1>. QED  BY <1>2, <1>3, <1>4, <1>5, <1>6, <1>7, <1>8, <1>9, <1>10, <1>11, <1>12 DEF CInv

\* ReleaseDec keeps the image, the counts and the lists in order.
LEMMA Image_ReleaseDec ==
    ASSUME NEW p \in Procs, IInv, IInv', CInv, ReleaseDec(p) PROVE CInv'
<1>. USE InodesAssumption DEF ReleaseDec, Go, shmVars, flashVars, procVars, histVars,
  bounds, OneLess
<1>1. Calm' => Calm  BY DEF Calm, IInv, TypeOK
<1>2. Calm => \A q \in Procs \ {p} : pc[q] \notin InLock
  BY Alone, PcSets DEF CInv
<1>3. One'  BY <1>1, <1>2, PcSets DEF IInv, TypeOK, MapOK, CInv, One
<1>4. Calling'  BY <1>1, <1>2, PcSets DEF IInv, TypeOK, MapOK, CInv, Calling
<1>20. Calm => /\ map[p] \in Inodes /\ Settled(map[p])
               /\ \A i \in Inodes : Live(i) => i = map[p]
  BY OneFile, PcSets DEF CInv, IInv, MapOK, Settled
<1>21. ~inited[p] => Failing(p)  BY DEF Failing
<1>5. RefcntCoversUsers'
  <2>. SUFFICES ASSUME Calm', NEW i \in Inodes
                PROVE  (Cardinality(Users(i)) <= refcnt[i] \/ Users(i) = {})'
    BY DEF RefcntCoversUsers, Calm
  <2>1. Calm  BY <1>1
  <2>2. Cardinality(Users(i)) <= refcnt[i] \/ Users(i) = {}
    BY <2>1 DEF CInv, RefcntCoversUsers, Calm
  <2>3. refcnt[i] \in Int /\ IsFiniteSet(Users(i))  BY UsersFinite DEF IInv, TypeOK
  <2>4. Users(i)' \subseteq Users(i) \ {p}  BY DEF IInv, TypeOK, MapOK, Users
  <2>5. CASE i # map[p]
    <3>1. refcnt'[i] = refcnt[i]  BY <2>5 DEF IInv, TypeOK, MapOK
    <3>. HIDE DEF ReleaseDec
    <3>. QED  BY <2>2, <2>3, <2>4, <3>1, StaysCovered
  <2>6. CASE i = map[p] /\ ~inited[p]
    <3>1. refcnt[i] <= 0  BY <1>21, <2>1, <2>6 DEF CInv, Failed
    <3>2. Users(i) = {}  BY <2>1, <2>3, <3>1, UserCounts DEF CInv
    <3>. QED  BY <2>4, <3>2
  <2>7. CASE i = map[p] /\ inited[p]
    <3>1. p \in Users(i)  BY <2>7 DEF Users
    <3>2. refcnt'[i] = refcnt[i] - 1  BY <2>7 DEF IInv, TypeOK, MapOK
    <3>3. IsFiniteSet(Users(i) \ {p})
          /\ Cardinality(Users(i) \ {p}) = Cardinality(Users(i)) - 1
      BY <2>3, <3>1, FS_RemoveElement
    <3>4. Cardinality(Users(i)) \in Nat  BY <2>3, FS_CardinalityType
    <3>. HIDE DEF ReleaseDec
    <3>5. Cardinality(Users(i) \ {p}) <= refcnt[i] - 1
      BY <2>2, <2>3, <3>1, <3>3, <3>4
    <3>. QED  BY <2>3, <2>4, <3>2, <3>3, <3>5, StaysCovered
  <2>. QED  BY <2>5, <2>6, <2>7
<1>6. Counted'
  <2>. SUFFICES ASSUME Calm', NEW i \in Inodes, Live(i)'
                PROVE  /\ refcnt'[i] > 0 => ~Bad(i) /\ (~dirty => FromFlash(i))
                       /\ refcnt'[i] < 0 => Bad(i) /\ FlashBad
    BY DEF Counted, FlashBad, Bad, FromFlash
  <2>1. Calm /\ i = map[p] /\ Live(i)  BY <1>1, <1>20 DEF Live
  <2>2. refcnt'[i] = refcnt[i] - 1 /\ refcnt[i] \in Int  BY <2>1 DEF IInv, TypeOK
  <2>3. /\ refcnt[i] > 0 => ~Bad(i) /\ (~dirty => FromFlash(i))
        /\ refcnt[i] < 0 => Bad(i) /\ FlashBad
    BY <1>20, <2>1 DEF CInv, Counted
  <2>4. inited[p] => refcnt[i] > 0  BY <2>1, Loader
  <2>5. ~inited[p] => Bad(i) /\ FlashBad  BY <1>21, <2>1 DEF CInv, Failed
  <2>. HIDE DEF ReleaseDec
  <2>. QED  BY <2>2, <2>3, <2>4, <2>5
<1>7. Read'  BY <1>1, <1>2, PcSets DEF IInv, TypeOK, MapOK, CInv, Read, FromFlash,
  MutexUnlessForced
<1>8. Failed'  BY <1>1, <1>2, PcSets DEF IInv, TypeOK, MapOK, CInv, Failed, Failing, Bad,
  FlashBad, MutexUnlessForced
<1>9. InHand'  BY <1>1, <1>2, PcSets DEF IInv, TypeOK, MapOK, CInv, InHand, Synced,
  MutexUnlessForced
<1>10. Saved'  BY <1>1, <1>2, PcSets DEF IInv, TypeOK, MapOK, CInv, Saved, Bad,
  MutexUnlessForced, Behind
<1>11. Behind'  BY <1>1, <1>2, PcSets DEF IInv, TypeOK, MapOK, CInv, Behind
<1>12. Coherent'  BY <1>1, <1>2, PcSets DEF IInv, TypeOK, MapOK, CInv, Coherent, Settled
<1>13. UpdateReachesFlash'  BY <1>1, <1>2, PcSets DEF IInv, TypeOK, MapOK, CInv,
  UpdateReachesFlash, Calm
<1>. QED  BY <1>3, <1>4, <1>5, <1>6, <1>7, <1>8, <1>9, <1>10, <1>11, <1>12, <1>13 DEF CInv

\* ReleaseUnmap keeps the image, the counts and the lists in order.
LEMMA Image_ReleaseUnmap ==
    ASSUME NEW p \in Procs, IInv, IInv', CInv, ReleaseUnmap(p) PROVE CInv'
<1>. USE InodesAssumption DEF ReleaseUnmap, Go, shmVars, flashVars, procVars, histVars,
  bounds, Vanish, NextTry
<1>1. Calm' => Calm  BY DEF Calm, IInv, TypeOK
<1>2. One'  BY <1>1, PcSets DEF IInv, TypeOK, MapOK, CInv, One
<1>3. Calling'  BY <1>1, PcSets DEF IInv, TypeOK, MapOK, CInv, Calling
<1>4. RefcntCoversUsers'
  <2>. SUFFICES ASSUME Calm', NEW i \in Inodes
                PROVE  (Cardinality(Users(i)) <= refcnt[i] \/ Users(i) = {})'
    BY DEF RefcntCoversUsers, Calm
  <2>1. Users(i)' \subseteq Users(i) /\ refcnt'[i] = refcnt[i]
    BY <1>1 DEF IInv, TypeOK, MapOK, Users
  <2>2. Cardinality(Users(i)) <= refcnt[i] \/ Users(i) = {}
    BY <1>1 DEF CInv, RefcntCoversUsers, Calm
  <2>3. refcnt[i] \in Int  BY DEF IInv, TypeOK
  <2>. QED  BY <2>1, <2>2, <2>3, StaysCovered, UsersFinite
<1>5. Counted'  BY <1>1, PcSets DEF IInv, TypeOK, MapOK, CInv, One, Counted, Live, Settled,
  Bad, FlashBad, FromFlash
<1>6. Read'  BY <1>1, PcSets DEF IInv, TypeOK, MapOK, CInv, Read, FromFlash,
  MutexUnlessForced
<1>7. Failed'  BY <1>1, PcSets DEF IInv, TypeOK, MapOK, CInv, Failed, Failing, Bad,
  FlashBad, MutexUnlessForced
<1>8. InHand'  BY <1>1, PcSets DEF IInv, TypeOK, MapOK, CInv, InHand, Synced,
  MutexUnlessForced
<1>9. Saved'
  BY SMTT(60), <1>1, PcSets DEF IInv, TypeOK, MapOK, CInv, Saved, Bad, MutexUnlessForced,
  Behind
<1>10. Behind'  BY <1>1, PcSets DEF IInv, TypeOK, MapOK, CInv, Behind
<1>11. Coherent'  BY SMTT(60), <1>1, PcSets DEF IInv, TypeOK, MapOK, CInv, Coherent, Settled
<1>12. UpdateReachesFlash'  BY <1>1, PcSets DEF IInv, TypeOK, MapOK, CInv,
  UpdateReachesFlash, Calm
<1>. QED  BY <1>2, <1>3, <1>4, <1>5, <1>6, <1>7, <1>8, <1>9, <1>10, <1>11, <1>12 DEF CInv

\* ProcCrash keeps the image, the counts and the lists in order.
LEMMA Image_ProcCrash ==
    ASSUME NEW p \in Procs, IInv, IInv', CInv, ProcCrash(p) PROVE CInv'
<1>. USE InodesAssumption DEF ProcCrash, Go, shmVars, flashVars, procVars, histVars,
  bounds, Vanish
<1>1. Calm' => Calm  BY DEF Calm, IInv, TypeOK
<1>2. One'  BY <1>1, PcSets DEF IInv, TypeOK, MapOK, CInv, One
<1>3. Calling'  BY <1>1, PcSets DEF IInv, TypeOK, MapOK, CInv, Calling
<1>4. RefcntCoversUsers'
  <2>. SUFFICES ASSUME Calm', NEW i \in Inodes
                PROVE  (Cardinality(Users(i)) <= refcnt[i] \/ Users(i) = {})'
    BY DEF RefcntCoversUsers, Calm
  <2>1. Users(i)' \subseteq Users(i) /\ refcnt'[i] = refcnt[i]
    BY <1>1 DEF IInv, TypeOK, MapOK, Users
  <2>2. Cardinality(Users(i)) <= refcnt[i] \/ Users(i) = {}
    BY <1>1 DEF CInv, RefcntCoversUsers, Calm
  <2>3. refcnt[i] \in Int  BY DEF IInv, TypeOK
  <2>. QED  BY <2>1, <2>2, <2>3, StaysCovered, UsersFinite
<1>5. Counted'  BY <1>1, PcSets DEF IInv, TypeOK, MapOK, CInv, One, Counted, Live, Settled,
  Bad, FlashBad, FromFlash
<1>6. Read'  BY <1>1, PcSets DEF IInv, TypeOK, MapOK, CInv, Read, FromFlash,
  MutexUnlessForced
<1>7. Failed'  BY <1>1, PcSets DEF IInv, TypeOK, MapOK, CInv, Failed, Failing, Bad,
  FlashBad, MutexUnlessForced
<1>8. InHand'  BY <1>1, PcSets DEF IInv, TypeOK, MapOK, CInv, InHand, Synced,
  MutexUnlessForced
<1>9. Saved'  BY <1>1, PcSets DEF IInv, TypeOK, MapOK, CInv, Saved, Bad, MutexUnlessForced,
  Behind
<1>10. Behind'  BY <1>1, PcSets DEF IInv, TypeOK, MapOK, CInv, Behind
<1>11. Coherent'  BY <1>1, PcSets DEF IInv, TypeOK, MapOK, CInv, Coherent, Settled
<1>12. UpdateReachesFlash'  BY <1>1, PcSets DEF IInv, TypeOK, MapOK, CInv,
  UpdateReachesFlash, Calm
<1>. QED  BY <1>2, <1>3, <1>4, <1>5, <1>6, <1>7, <1>8, <1>9, <1>10, <1>11, <1>12 DEF CInv

\* A call keeps the image, the counts and the lists in order.
LEMMA Image_Call ==
    ASSUME NEW p \in Procs, NEW o \in Ops, IInv, IInv', CInv, Call(p, o) PROVE CInv'
<1>. USE InodesAssumption DEF Call, Go, shmVars, flashVars, procVars, histVars, bounds
<1>1. Calm' => Calm  BY DEF Calm, IInv, TypeOK
<1>2. One'  BY <1>1, PcSets DEF IInv, TypeOK, MapOK, CInv, One
<1>3. Calling'  BY <1>1, PcSets DEF IInv, TypeOK, MapOK, CInv, Calling
<1>4. RefcntCoversUsers'
  <2>. SUFFICES ASSUME Calm', NEW i \in Inodes
                PROVE  (Cardinality(Users(i)) <= refcnt[i] \/ Users(i) = {})'
    BY DEF RefcntCoversUsers, Calm
  <2>1. Users(i)' \subseteq Users(i) /\ refcnt'[i] = refcnt[i]
    BY <1>1 DEF IInv, TypeOK, MapOK, Users
  <2>2. Cardinality(Users(i)) <= refcnt[i] \/ Users(i) = {}
    BY <1>1 DEF CInv, RefcntCoversUsers, Calm
  <2>3. refcnt[i] \in Int  BY DEF IInv, TypeOK
  <2>. QED  BY <2>1, <2>2, <2>3, StaysCovered, UsersFinite
<1>5. Counted'  BY <1>1, PcSets DEF IInv, TypeOK, MapOK, CInv, One, Counted, Live, Settled,
  Bad, FlashBad, FromFlash
<1>6. Read'  BY <1>1, PcSets DEF IInv, TypeOK, MapOK, CInv, Read, FromFlash,
  MutexUnlessForced
<1>7. Failed'  BY <1>1, PcSets DEF IInv, TypeOK, MapOK, CInv, Failed, Failing, Bad,
  FlashBad, MutexUnlessForced
<1>8. InHand'  BY <1>1, PcSets DEF IInv, TypeOK, MapOK, CInv, InHand, Synced,
  MutexUnlessForced
<1>9. Saved'  BY <1>1, PcSets DEF IInv, TypeOK, MapOK, CInv, Saved, Bad, MutexUnlessForced,
  Behind
<1>10. Behind'  BY <1>1, PcSets DEF IInv, TypeOK, MapOK, CInv, Behind
<1>11. Coherent'  BY <1>1, PcSets DEF IInv, TypeOK, MapOK, CInv, Coherent, Settled
<1>12. UpdateReachesFlash'  BY <1>1, PcSets DEF IInv, TypeOK, MapOK, CInv,
  UpdateReachesFlash, Calm
<1>. QED  BY <1>2, <1>3, <1>4, <1>5, <1>6, <1>7, <1>8, <1>9, <1>10, <1>11, <1>12 DEF CInv

\* A reboot keeps the image, the counts and the lists in order.
LEMMA Image_Reboot == ASSUME IInv, IInv', CInv, Reboot PROVE CInv'
<1>. USE InodesAssumption DEF Reboot
<1>1. One' /\ Calling' /\ Counted'  BY PcSets DEF One, Calling, Counted, Live
<1>2. RefcntCoversUsers'  BY DEF RefcntCoversUsers, Users
<1>3. Read' /\ Failed' /\ InHand' /\ Saved'
  BY PcSets DEF Read, Failed, Failing, InHand, Saved
<1>4. Behind' /\ Coherent' /\ UpdateReachesFlash'
  BY DEF Behind, Coherent, UpdateReachesFlash
<1>. QED  BY <1>1, <1>2, <1>3, <1>4 DEF CInv

\* Every step keeps the image in order: one case per action.
LEMMA NextCInv == IInv /\ IInv' /\ CInv /\ [Next]_vars => CInv'
<1>. SUFFICES ASSUME IInv, IInv', CInv, [Next]_vars PROVE CInv'  OBVIOUS
<1>1. CASE Reboot  BY <1>1, Image_Reboot
<1>2. CASE UNCHANGED vars
  BY <1>2 DEF vars, shmVars, flashVars, procVars, histVars, bounds, CInv, One, Calling,
     Counted, Read, Failed, Failing, InHand, Saved, Behind, Coherent, UpdateReachesFlash,
     Calm, Live, Settled, Bad, FlashBad, FromFlash, Synced, RefcntCoversUsers, Users
<1>3. ASSUME NEW p \in Procs, Step(p) PROVE CInv'
  BY <1>3, Image_acquire_envimg_buffer, Image_AcquireFails, Image_AcquireSegv,
     Image_envimg_buffer_lock, Image_LockTimeout, Image_envimg_buffer_unlock,
     Image_UnlockAborts, Image_LoadRead, Image_LoadReadFails,
     Image_LoadParse, Image_Check, Image_SerializeClear, Image_SerializeFill,
     Image_SaveCrc, Image_SaveErase, Image_SaveWrite, Image_ReleaseDec,
     Image_ReleaseUnmap DEF Step
<1>4. ASSUME NEW p \in Procs, bootenv_init(p) \/ _deinit(p) \/ ProcCrash(p) PROVE CInv'
  BY <1>4, Image_bootenv_init, Image_deinit, Image_ProcCrash
<1>5. ASSUME NEW p \in Procs, NEW k \in Keys, bootenv_get(p, k) PROVE CInv'
  <2>1. [SomeOp EXCEPT !.type = "get", !.key = k] \in Ops  BY SomeOpType DEF Ops
  <2>2. Call(p, [SomeOp EXCEPT !.type = "get", !.key = k])  BY <1>5 DEF bootenv_get
  <2>. QED  BY <2>1, <2>2, Image_Call
<1>6. ASSUME NEW p \in Procs, NEW k \in Keys, NEW v \in Vals, bootenv_update(p, k, v)
      PROVE  CInv'
  <2>1. [type |-> "update", key |-> k, val |-> v] \in Ops  BY DEF Ops
  <2>2. Call(p, [type |-> "update", key |-> k, val |-> v])  BY <1>6 DEF bootenv_update
  <2>. QED  BY <2>1, <2>2, Image_Call
<1>. QED  BY <1>1, <1>2, <1>3, <1>4, <1>5, <1>6 DEF Next

-----------------------------------------------------------------------------
\* In every reachable state the image, the counts and the lists are in order.
THEOREM ImageInOrder == Spec => [](IInv /\ CInv)
  BY InitIInv, InitCInv, NextIInv, NextCInv, PTL DEF Spec

\* load_bootenv resets refcnt on an error and release_envimg_buffer counts down whatever
\* it finds: still refcnt covers the processes that have the file loaded, however many
\* there are, so nobody unlinks the file or overwrites the image under one of them.
THEOREM ReferencesCovered == Spec => []RefcntCoversUsers
<1>1. CInv => RefcntCoversUsers  BY DEF CInv
<1>. QED  BY <1>1, ImageInOrder, PTL

\* The comparison of gs_current_revision with the revision of the file is a sound test for
\* a stale list, for any number of processes: equal numbers mean equal content.
THEOREM ListsAgree == Spec => []CacheCoherent
<1>1. IInv /\ CInv => CacheCoherent
  <2>. SUFFICES ASSUME IInv, CInv, ~forced, ~split, NEW p \in Procs,
                       inited[p], pc[p] \in {"idle", "lock_op", "check"},
                       curRev[p] = revision[map[p]],
                       \A q \in Procs \ {p} : map[q] = map[p] => pc[q] \notin Saving,
                       lock[map[p]] = 0
                       \/ \E q \in Procs : map[q] = map[p] /\ pc[q] \in InLock
                PROVE  kv[p] = imgEnv[map[p]]
    BY DEF CacheCoherent
  <2>1. Settled(map[p])  BY PcSets DEF Settled
  <2>. QED  BY <2>1 DEF CInv, Coherent, Calm
<1>. QED  BY <1>1, ImageInOrder, PTL

\* An update that returns 0 is on the partition under a valid CRC: through stale lists,
\* retries of save_bootenv, and updates of other processes.
THEOREM UpdatesReachFlash == Spec => []UpdateReachesFlash
<1>1. CInv => UpdateReachesFlash  BY DEF CInv
<1>. QED  BY <1>1, ImageInOrder, PTL

=============================================================================
