---------------------------- MODULE UBootEnvProofs ----------------------------
(***************************************************************************)
(* Type correctness of UBootEnv, and mutual exclusion as long as no process *)
(* has passed the lock by timeout, for any number of processes and files.  *)
(***************************************************************************)
EXTENDS UBootEnv, TLAPS

\* Inductive; MapOK says where map[p] may be used as a file.
IInv == TypeOK /\ MapOK /\ MutexUnlessForced

\* The value bootenv_init starts from is an operation.
LEMMA SomeOpType == SomeOp \in Ops /\ SomeOp.type = "init"
<1>1. (CHOOSE k \in Keys : TRUE) \in Keys  BY EnvAssumption
<1>2. (CHOOSE v \in Vals : TRUE) \in Vals  BY EnvAssumption
<1>. QED  BY <1>1, <1>2 DEF SomeOp, Ops

\* An environment without variables is an environment.
LEMMA EmptyEnvType == EmptyEnv \in Envs
  BY DEF EmptyEnv, Envs

\* The initial state satisfies the inductive invariant.
LEMMA InitIInv == Init => IInv
<1>. SUFFICES ASSUME Init PROVE IInv  OBVIOUS
<1>. USE DEF Init
<1>1. TypeOK
  <2>1. name \in Inodes \cup {NoInode} /\ lock \in [Inodes -> {0, 1}]
        /\ refcnt \in [Inodes -> Int] /\ revision \in [Inodes -> Nat]
    OBVIOUS
  <2>2. imgEnv \in [Inodes -> Envs] /\ imgCrc \in [Inodes -> Envs \cup {NoCrc}]
        /\ flashEnv \in Envs /\ flashCrc \in Envs \cup {NoCrc}
        /\ kv \in [Procs -> Envs]
    BY EmptyEnvType, EnvAssumption
  <2>3. pc \in [Procs -> Pcs] /\ map \in [Procs -> Inodes \cup {NoInode, Dangling}]
    BY DEF Pcs
  <2>4. inited \in [Procs -> BOOLEAN] /\ unl \in [Procs -> BOOLEAN]
        /\ forced \in BOOLEAN /\ split \in BOOLEAN /\ dirty \in BOOLEAN /\ torn \in BOOLEAN
    OBVIOUS
  <2>5. curRev \in [Procs -> Nat] /\ try \in [Procs -> Nat]
        /\ ret \in [Procs -> -3..0] /\ op \in [Procs -> Ops]
    BY SomeOpType
  <2>6. inits \in Nat /\ updates \in Nat /\ faults \in Nat /\ crashes \in Nat
    OBVIOUS
  <2>. QED  BY <2>1, <2>2, <2>3, <2>4, <2>5, <2>6 DEF TypeOK
<1>2. MapOK
  BY DEF MapOK, LockPcs, InLock, UnlockPcs
<1>3. MutexUnlessForced
  BY DEF MutexUnlessForced, InLock, UnlockPcs
<1>. QED  BY <1>1, <1>2, <1>3 DEF IInv

\* bootenv_init preserves the inductive invariant.
LEMMA Step_bootenv_init ==
    ASSUME NEW p \in Procs, IInv, bootenv_init(p) PROVE IInv'
<1>. USE DEF IInv, bootenv_init, Go, shmVars, flashVars, procVars, histVars, bounds
<1>1. TypeOK'
  BY SomeOpType, EmptyEnvType DEF TypeOK, MapOK, Pcs, LockPcs, InLock, UnlockPcs
<1>2. MapOK'
  BY SomeOpType DEF TypeOK, MapOK, Pcs, LockPcs, InLock, UnlockPcs
<1>3. MutexUnlessForced'
  BY DEF TypeOK, MapOK, MutexUnlessForced, LockPcs, InLock, UnlockPcs
<1>. QED  BY <1>1, <1>2, <1>3

\* acquire_envimg_buffer preserves the inductive invariant.
LEMMA Step_acquire_envimg_buffer ==
    ASSUME NEW p \in Procs, IInv, acquire_envimg_buffer(p) PROVE IInv'
<1>. USE DEF IInv, acquire_envimg_buffer, OpenShm, Free, Go, shmVars, flashVars, procVars,
  histVars, bounds
<1>1. TypeOK'
  <2>. USE DEF TypeOK, MapOK, LockPcs, InLock, UnlockPcs
  <2>1. (name \in Inodes \cup {NoInode} /\ lock \in [Inodes -> {0, 1}]
         /\ refcnt \in [Inodes -> Int] /\ revision \in [Inodes -> Nat])'
    BY SMTT(60)
  <2>2. (imgEnv \in [Inodes -> Envs] /\ imgCrc \in [Inodes -> Envs \cup {NoCrc}]
         /\ flashEnv \in Envs /\ flashCrc \in Envs \cup {NoCrc})'
    BY EmptyEnvType
  <2>3. (kv \in [Procs -> Envs])'
    BY EmptyEnvType
  <2>4. (pc \in [Procs -> Pcs] /\ map \in [Procs -> Inodes \cup {NoInode, Dangling}])'
    BY DEF Pcs
  <2>5. (inited \in [Procs -> BOOLEAN] /\ unl \in [Procs -> BOOLEAN])'
    OBVIOUS
  <2>6. (forced \in BOOLEAN /\ split \in BOOLEAN /\ dirty \in BOOLEAN /\ torn \in BOOLEAN)'
    OBVIOUS
  <2>7. (curRev \in [Procs -> Nat] /\ try \in [Procs -> Nat]
         /\ ret \in [Procs -> -3..0])'
    OBVIOUS
  <2>8. (op \in [Procs -> Ops])'
    BY SomeOpType
  <2>9. (inits \in Nat /\ updates \in Nat /\ faults \in Nat /\ crashes \in Nat)'
    OBVIOUS
  <2>. QED  BY <2>1, <2>2, <2>3, <2>4, <2>5, <2>6, <2>7, <2>8, <2>9
<1>2. MapOK'
  BY SomeOpType DEF TypeOK, MapOK, Pcs, LockPcs, InLock, UnlockPcs
<1>3. MutexUnlessForced'
  BY DEF TypeOK, MapOK, MutexUnlessForced, LockPcs, InLock, UnlockPcs
<1>. QED  BY <1>1, <1>2, <1>3

\* AcquireFails preserves the inductive invariant.
LEMMA Step_AcquireFails ==
    ASSUME NEW p \in Procs, IInv, AcquireFails(p) PROVE IInv'
<1>. USE DEF IInv, AcquireFails, OpenShm, Free, Fault, Go, shmVars, flashVars, procVars,
  histVars, bounds
<1>1. TypeOK'
  <2>. USE DEF TypeOK, MapOK, LockPcs, InLock, UnlockPcs
  <2>1. (name \in Inodes \cup {NoInode} /\ lock \in [Inodes -> {0, 1}]
         /\ refcnt \in [Inodes -> Int] /\ revision \in [Inodes -> Nat])'
    OBVIOUS
  <2>2. (imgEnv \in [Inodes -> Envs] /\ imgCrc \in [Inodes -> Envs \cup {NoCrc}]
         /\ flashEnv \in Envs /\ flashCrc \in Envs \cup {NoCrc})'
    BY EmptyEnvType
  <2>3. (kv \in [Procs -> Envs])'
    BY EmptyEnvType
  <2>4. (pc \in [Procs -> Pcs] /\ map \in [Procs -> Inodes \cup {NoInode, Dangling}])'
    BY DEF Pcs
  <2>5. (inited \in [Procs -> BOOLEAN] /\ unl \in [Procs -> BOOLEAN])'
    OBVIOUS
  <2>6. (forced \in BOOLEAN /\ split \in BOOLEAN /\ dirty \in BOOLEAN /\ torn \in BOOLEAN)'
    OBVIOUS
  <2>7. (curRev \in [Procs -> Nat] /\ try \in [Procs -> Nat]
         /\ ret \in [Procs -> -3..0])'
    OBVIOUS
  <2>8. (op \in [Procs -> Ops])'
    BY SomeOpType
  <2>9. (inits \in Nat /\ updates \in Nat /\ faults \in Nat /\ crashes \in Nat)'
    OBVIOUS
  <2>. QED  BY <2>1, <2>2, <2>3, <2>4, <2>5, <2>6, <2>7, <2>8, <2>9
<1>2. MapOK'
  BY SomeOpType DEF TypeOK, MapOK, Pcs, LockPcs, InLock, UnlockPcs
<1>3. MutexUnlessForced'
  BY DEF TypeOK, MapOK, MutexUnlessForced, LockPcs, InLock, UnlockPcs
<1>. QED  BY <1>1, <1>2, <1>3

\* AcquireSegv preserves the inductive invariant.
LEMMA Step_AcquireSegv ==
    ASSUME NEW p \in Procs, IInv, AcquireSegv(p) PROVE IInv'
<1>. USE DEF IInv, AcquireSegv, Vanish, Go, shmVars, flashVars, procVars, histVars, bounds
<1>1. TypeOK'
  BY SomeOpType, EmptyEnvType DEF TypeOK, MapOK, Pcs, LockPcs, InLock, UnlockPcs
<1>2. MapOK'
  BY SomeOpType DEF TypeOK, MapOK, Pcs, LockPcs, InLock, UnlockPcs
<1>3. MutexUnlessForced'
  BY DEF TypeOK, MapOK, MutexUnlessForced, LockPcs, InLock, UnlockPcs
<1>. QED  BY <1>1, <1>2, <1>3

\* envimg_buffer_lock preserves the inductive invariant.
LEMMA Step_envimg_buffer_lock ==
    ASSUME NEW p \in Procs, IInv, envimg_buffer_lock(p) PROVE IInv'
<1>. USE DEF IInv, envimg_buffer_lock, LockFree, AfterLock, Go, shmVars, flashVars,
  procVars, histVars, bounds
<1>1. TypeOK'
  BY SomeOpType, EmptyEnvType DEF TypeOK, MapOK, Pcs, LockPcs, InLock, UnlockPcs
<1>2. MapOK'
  BY SomeOpType DEF TypeOK, MapOK, Pcs, LockPcs, InLock, UnlockPcs
<1>3. MutexUnlessForced'
  BY DEF TypeOK, MapOK, MutexUnlessForced, LockPcs, InLock, UnlockPcs
<1>. QED  BY <1>1, <1>2, <1>3

\* LockTimeout preserves the inductive invariant.
LEMMA Step_LockTimeout ==
    ASSUME NEW p \in Procs, IInv, LockTimeout(p) PROVE IInv'
<1>. USE DEF IInv, LockTimeout, OutOfRetries, AfterLock, Go, shmVars, flashVars, procVars,
  histVars, bounds
<1>1. TypeOK'
  BY SomeOpType, EmptyEnvType DEF TypeOK, MapOK, Pcs, LockPcs, InLock, UnlockPcs
<1>2. MapOK'
  BY SomeOpType DEF TypeOK, MapOK, Pcs, LockPcs, InLock, UnlockPcs
<1>3. MutexUnlessForced'
  BY DEF TypeOK, MapOK, MutexUnlessForced, LockPcs, InLock, UnlockPcs
<1>. QED  BY <1>1, <1>2, <1>3

\* envimg_buffer_unlock preserves the inductive invariant.
LEMMA Step_envimg_buffer_unlock ==
    ASSUME NEW p \in Procs, IInv, envimg_buffer_unlock(p) PROVE IInv'
<1>. USE DEF IInv, envimg_buffer_unlock, AfterUnlock, NextTry, Go, shmVars, flashVars,
  procVars, histVars, bounds
<1>1. TypeOK'
  <2>. USE DEF TypeOK, MapOK, LockPcs, InLock, UnlockPcs
  <2>1. (name \in Inodes \cup {NoInode} /\ lock \in [Inodes -> {0, 1}]
         /\ refcnt \in [Inodes -> Int] /\ revision \in [Inodes -> Nat])'
    OBVIOUS
  <2>2. (imgEnv \in [Inodes -> Envs] /\ imgCrc \in [Inodes -> Envs \cup {NoCrc}]
         /\ flashEnv \in Envs /\ flashCrc \in Envs \cup {NoCrc})'
    BY EmptyEnvType
  <2>3. (kv \in [Procs -> Envs])'
    BY EmptyEnvType
  <2>4. (pc \in [Procs -> Pcs] /\ map \in [Procs -> Inodes \cup {NoInode, Dangling}])'
    BY DEF Pcs
  <2>a. \/ inited' = inited
        \/ inited' = [inited EXCEPT ![p] = TRUE]
        \/ inited' = [inited EXCEPT ![p] = FALSE]
    <3>1. CASE try[p] < RWRetry
      <4>1. (try[p] < RWRetry) = TRUE  BY <3>1
      <4>. QED  BY <4>1
    <3>2. CASE ~(try[p] < RWRetry)
      <4>1. (try[p] < RWRetry) = FALSE  BY <3>2
      <4>. QED  BY <4>1
    <3>. QED  BY <3>1, <3>2
  <2>5. (inited \in [Procs -> BOOLEAN] /\ unl \in [Procs -> BOOLEAN])'
    BY <2>a
  <2>6. (forced \in BOOLEAN /\ split \in BOOLEAN /\ dirty \in BOOLEAN /\ torn \in BOOLEAN)'
    OBVIOUS
  <2>7. (curRev \in [Procs -> Nat] /\ try \in [Procs -> Nat]
         /\ ret \in [Procs -> -3..0])'
    OBVIOUS
  <2>8. (op \in [Procs -> Ops])'
    BY SomeOpType
  <2>9. (inits \in Nat /\ updates \in Nat /\ faults \in Nat /\ crashes \in Nat)'
    OBVIOUS
  <2>. QED  BY <2>1, <2>2, <2>3, <2>4, <2>5, <2>6, <2>7, <2>8, <2>9
<1>2. MapOK'
  BY SomeOpType DEF TypeOK, MapOK, Pcs, LockPcs, InLock, UnlockPcs
<1>3. MutexUnlessForced'
  BY SMTT(60) DEF TypeOK, MapOK, MutexUnlessForced, LockPcs, InLock, UnlockPcs
<1>. QED  BY <1>1, <1>2, <1>3

\* UnlockAborts preserves the inductive invariant.
LEMMA Step_UnlockAborts ==
    ASSUME NEW p \in Procs, IInv, UnlockAborts(p) PROVE IInv'
<1>. USE DEF IInv, UnlockAborts, Vanish, Go, shmVars, flashVars, procVars, histVars, bounds
<1>1. TypeOK'
  BY SomeOpType, EmptyEnvType DEF TypeOK, MapOK, Pcs, LockPcs, InLock, UnlockPcs
<1>2. MapOK'
  BY SomeOpType DEF TypeOK, MapOK, Pcs, LockPcs, InLock, UnlockPcs
<1>3. MutexUnlessForced'
  BY DEF TypeOK, MapOK, MutexUnlessForced, LockPcs, InLock, UnlockPcs
<1>. QED  BY <1>1, <1>2, <1>3

\* LoadRead preserves the inductive invariant.
LEMMA Step_LoadRead ==
    ASSUME NEW p \in Procs, IInv, LoadRead(p) PROVE IInv'
<1>. USE DEF IInv, LoadRead, Go, shmVars, flashVars, procVars, histVars, bounds
<1>1. TypeOK'
  BY SomeOpType, EmptyEnvType DEF TypeOK, MapOK, Pcs, LockPcs, InLock, UnlockPcs
<1>2. MapOK'
  BY SomeOpType DEF TypeOK, MapOK, Pcs, LockPcs, InLock, UnlockPcs
<1>3. MutexUnlessForced'
  BY DEF TypeOK, MapOK, MutexUnlessForced, LockPcs, InLock, UnlockPcs
<1>. QED  BY <1>1, <1>2, <1>3

\* LoadReadFails preserves the inductive invariant.
LEMMA Step_LoadReadFails ==
    ASSUME NEW p \in Procs, IInv, LoadReadFails(p) PROVE IInv'
<1>. USE DEF IInv, LoadReadFails, Fault, Go, shmVars, flashVars, procVars, histVars, bounds
<1>1. TypeOK'
  BY SMTT(60), SomeOpType, EmptyEnvType DEF TypeOK, MapOK, Pcs, LockPcs, InLock, UnlockPcs
<1>2. MapOK'
  BY SomeOpType DEF TypeOK, MapOK, Pcs, LockPcs, InLock, UnlockPcs
<1>3. MutexUnlessForced'
  BY DEF TypeOK, MapOK, MutexUnlessForced, LockPcs, InLock, UnlockPcs
<1>. QED  BY <1>1, <1>2, <1>3

\* LoadParse preserves the inductive invariant.
LEMMA Step_LoadParse ==
    ASSUME NEW p \in Procs, IInv, LoadParse(p) PROVE IInv'
<1>. USE DEF IInv, LoadParse, Go, shmVars, flashVars, procVars, histVars, bounds
<1>1. TypeOK'
  BY SomeOpType, EmptyEnvType DEF TypeOK, MapOK, Pcs, LockPcs, InLock, UnlockPcs
<1>2. MapOK'
  BY SomeOpType DEF TypeOK, MapOK, Pcs, LockPcs, InLock, UnlockPcs
<1>3. MutexUnlessForced'
  BY DEF TypeOK, MapOK, MutexUnlessForced, LockPcs, InLock, UnlockPcs
<1>. QED  BY <1>1, <1>2, <1>3

\* Check preserves the inductive invariant.
LEMMA Step_Check ==
    ASSUME NEW p \in Procs, IInv, Check(p) PROVE IInv'
<1>. USE DEF IInv, Check, Go, shmVars, flashVars, procVars, histVars, bounds
<1>1. TypeOK'
  <2>. USE DEF TypeOK, MapOK, LockPcs, InLock, UnlockPcs
  <2>1. (name \in Inodes \cup {NoInode} /\ lock \in [Inodes -> {0, 1}]
         /\ refcnt \in [Inodes -> Int] /\ revision \in [Inodes -> Nat])'
    OBVIOUS
  <2>2. (imgEnv \in [Inodes -> Envs] /\ imgCrc \in [Inodes -> Envs \cup {NoCrc}]
         /\ flashEnv \in Envs /\ flashCrc \in Envs \cup {NoCrc})'
    BY EmptyEnvType
  <2>a. Loaded(p) \in Envs
    BY DEF Loaded
  <2>b. op[p].key \in Keys /\ op[p].val \in Vals
    BY DEF Ops
  <2>c. bootenv_set_value(p) \in Envs
    BY <2>a, <2>b DEF Envs, bootenv_set_value
  <2>3. (kv \in [Procs -> Envs])'
    BY <2>a, <2>c
  <2>4. (pc \in [Procs -> Pcs] /\ map \in [Procs -> Inodes \cup {NoInode, Dangling}])'
    BY DEF Pcs
  <2>5. (inited \in [Procs -> BOOLEAN] /\ unl \in [Procs -> BOOLEAN])'
    OBVIOUS
  <2>6. (forced \in BOOLEAN /\ split \in BOOLEAN /\ dirty \in BOOLEAN /\ torn \in BOOLEAN)'
    OBVIOUS
  <2>7. (curRev \in [Procs -> Nat] /\ try \in [Procs -> Nat]
         /\ ret \in [Procs -> -3..0])'
    OBVIOUS
  <2>8. (op \in [Procs -> Ops])'
    BY SomeOpType
  <2>9. (inits \in Nat /\ updates \in Nat /\ faults \in Nat /\ crashes \in Nat)'
    OBVIOUS
  <2>. QED  BY <2>1, <2>2, <2>3, <2>4, <2>5, <2>6, <2>7, <2>8, <2>9
<1>2. MapOK'
  BY SomeOpType DEF TypeOK, MapOK, Pcs, LockPcs, InLock, UnlockPcs
<1>3. MutexUnlessForced'
  BY SMTT(60) DEF TypeOK, MapOK, MutexUnlessForced, LockPcs, InLock, UnlockPcs
<1>. QED  BY <1>1, <1>2, <1>3

\* SerializeClear preserves the inductive invariant.
LEMMA Step_SerializeClear ==
    ASSUME NEW p \in Procs, IInv, SerializeClear(p) PROVE IInv'
<1>. USE DEF IInv, SerializeClear, Go, shmVars, flashVars, procVars, histVars, bounds
<1>1. TypeOK'
  BY SomeOpType, EmptyEnvType DEF TypeOK, MapOK, Pcs, LockPcs, InLock, UnlockPcs
<1>2. MapOK'
  BY SomeOpType DEF TypeOK, MapOK, Pcs, LockPcs, InLock, UnlockPcs
<1>3. MutexUnlessForced'
  BY DEF TypeOK, MapOK, MutexUnlessForced, LockPcs, InLock, UnlockPcs
<1>. QED  BY <1>1, <1>2, <1>3

\* SerializeFill preserves the inductive invariant.
LEMMA Step_SerializeFill ==
    ASSUME NEW p \in Procs, IInv, SerializeFill(p) PROVE IInv'
<1>. USE DEF IInv, SerializeFill, NextRevision, Go, shmVars, flashVars, procVars, histVars,
  bounds
<1>1. TypeOK'
  BY SomeOpType, EmptyEnvType DEF TypeOK, MapOK, Pcs, LockPcs, InLock, UnlockPcs
<1>2. MapOK'
  BY SomeOpType DEF TypeOK, MapOK, Pcs, LockPcs, InLock, UnlockPcs
<1>3. MutexUnlessForced'
  BY DEF TypeOK, MapOK, MutexUnlessForced, LockPcs, InLock, UnlockPcs
<1>. QED  BY <1>1, <1>2, <1>3

\* SaveCrc preserves the inductive invariant.
LEMMA Step_SaveCrc ==
    ASSUME NEW p \in Procs, IInv, SaveCrc(p) PROVE IInv'
<1>. USE DEF IInv, SaveCrc, NewCrc, SaveFailed, Fault, Go, shmVars, flashVars, procVars,
  histVars, bounds
<1>1. TypeOK'
  <2>. USE DEF TypeOK, MapOK, LockPcs, InLock, UnlockPcs
  <2>1. (name \in Inodes \cup {NoInode} /\ lock \in [Inodes -> {0, 1}]
         /\ refcnt \in [Inodes -> Int] /\ revision \in [Inodes -> Nat])'
    OBVIOUS
  <2>2. (imgEnv \in [Inodes -> Envs] /\ imgCrc \in [Inodes -> Envs \cup {NoCrc}]
         /\ flashEnv \in Envs /\ flashCrc \in Envs \cup {NoCrc})'
    BY EmptyEnvType
  <2>3. (kv \in [Procs -> Envs])'
    BY EmptyEnvType
  <2>4. (pc \in [Procs -> Pcs] /\ map \in [Procs -> Inodes \cup {NoInode, Dangling}])'
    BY DEF Pcs
  <2>5. (inited \in [Procs -> BOOLEAN] /\ unl \in [Procs -> BOOLEAN])'
    OBVIOUS
  <2>6. (forced \in BOOLEAN /\ split \in BOOLEAN /\ dirty \in BOOLEAN /\ torn \in BOOLEAN)'
    OBVIOUS
  <2>7. (curRev \in [Procs -> Nat] /\ try \in [Procs -> Nat]
         /\ ret \in [Procs -> -3..0])'
    OBVIOUS
  <2>8. (op \in [Procs -> Ops])'
    BY SomeOpType
  <2>9. (inits \in Nat /\ updates \in Nat /\ faults \in Nat /\ crashes \in Nat)'
    OBVIOUS
  <2>. QED  BY <2>1, <2>2, <2>3, <2>4, <2>5, <2>6, <2>7, <2>8, <2>9
<1>2. MapOK'
  BY SomeOpType DEF TypeOK, MapOK, Pcs, LockPcs, InLock, UnlockPcs
<1>3. MutexUnlessForced'
  BY SMTT(60) DEF TypeOK, MapOK, MutexUnlessForced, LockPcs, InLock, UnlockPcs
<1>. QED  BY <1>1, <1>2, <1>3

\* SaveErase preserves the inductive invariant.
LEMMA Step_SaveErase ==
    ASSUME NEW p \in Procs, IInv, SaveErase(p) PROVE IInv'
<1>. USE DEF IInv, SaveErase, SaveFailed, Fault, Go, shmVars, flashVars, procVars,
  histVars, bounds
<1>1. TypeOK'
  <2>. USE DEF TypeOK, MapOK, LockPcs, InLock, UnlockPcs
  <2>1. (name \in Inodes \cup {NoInode} /\ lock \in [Inodes -> {0, 1}]
         /\ refcnt \in [Inodes -> Int] /\ revision \in [Inodes -> Nat])'
    OBVIOUS
  <2>2. (imgEnv \in [Inodes -> Envs] /\ imgCrc \in [Inodes -> Envs \cup {NoCrc}]
         /\ flashEnv \in Envs /\ flashCrc \in Envs \cup {NoCrc})'
    BY EmptyEnvType
  <2>3. (kv \in [Procs -> Envs])'
    BY EmptyEnvType
  <2>4. (pc \in [Procs -> Pcs] /\ map \in [Procs -> Inodes \cup {NoInode, Dangling}])'
    BY DEF Pcs
  <2>5. (inited \in [Procs -> BOOLEAN] /\ unl \in [Procs -> BOOLEAN])'
    OBVIOUS
  <2>6. (forced \in BOOLEAN /\ split \in BOOLEAN /\ dirty \in BOOLEAN /\ torn \in BOOLEAN)'
    OBVIOUS
  <2>7. (curRev \in [Procs -> Nat] /\ try \in [Procs -> Nat]
         /\ ret \in [Procs -> -3..0])'
    OBVIOUS
  <2>8. (op \in [Procs -> Ops])'
    BY SomeOpType
  <2>9. (inits \in Nat /\ updates \in Nat /\ faults \in Nat /\ crashes \in Nat)'
    OBVIOUS
  <2>. QED  BY <2>1, <2>2, <2>3, <2>4, <2>5, <2>6, <2>7, <2>8, <2>9
<1>2. MapOK'
  BY SomeOpType DEF TypeOK, MapOK, Pcs, LockPcs, InLock, UnlockPcs
<1>3. MutexUnlessForced'
  BY DEF TypeOK, MapOK, MutexUnlessForced, LockPcs, InLock, UnlockPcs
<1>. QED  BY <1>1, <1>2, <1>3

\* SaveWrite preserves the inductive invariant.
LEMMA Step_SaveWrite ==
    ASSUME NEW p \in Procs, IInv, SaveWrite(p) PROVE IInv'
<1>. USE DEF IInv, SaveWrite, SaveFailed, Fault, Go, shmVars, flashVars, procVars,
  histVars, bounds
<1>1. TypeOK'
  <2>. USE DEF TypeOK, MapOK, LockPcs, InLock, UnlockPcs
  <2>1. (name \in Inodes \cup {NoInode} /\ lock \in [Inodes -> {0, 1}]
         /\ refcnt \in [Inodes -> Int] /\ revision \in [Inodes -> Nat])'
    OBVIOUS
  <2>2. (imgEnv \in [Inodes -> Envs] /\ imgCrc \in [Inodes -> Envs \cup {NoCrc}]
         /\ flashEnv \in Envs /\ flashCrc \in Envs \cup {NoCrc})'
    BY EmptyEnvType
  <2>3. (kv \in [Procs -> Envs])'
    BY EmptyEnvType
  <2>4. (pc \in [Procs -> Pcs] /\ map \in [Procs -> Inodes \cup {NoInode, Dangling}])'
    BY DEF Pcs
  <2>5. (inited \in [Procs -> BOOLEAN] /\ unl \in [Procs -> BOOLEAN])'
    OBVIOUS
  <2>6. (forced \in BOOLEAN /\ split \in BOOLEAN /\ dirty \in BOOLEAN /\ torn \in BOOLEAN)'
    OBVIOUS
  <2>7. (curRev \in [Procs -> Nat] /\ try \in [Procs -> Nat]
         /\ ret \in [Procs -> -3..0])'
    OBVIOUS
  <2>8. (op \in [Procs -> Ops])'
    BY SomeOpType
  <2>9. (inits \in Nat /\ updates \in Nat /\ faults \in Nat /\ crashes \in Nat)'
    OBVIOUS
  <2>. QED  BY <2>1, <2>2, <2>3, <2>4, <2>5, <2>6, <2>7, <2>8, <2>9
<1>2. MapOK'
  BY SomeOpType DEF TypeOK, MapOK, Pcs, LockPcs, InLock, UnlockPcs
<1>3. MutexUnlessForced'
  BY DEF TypeOK, MapOK, MutexUnlessForced, LockPcs, InLock, UnlockPcs
<1>. QED  BY <1>1, <1>2, <1>3

\* _deinit preserves the inductive invariant.
LEMMA Step_deinit ==
    ASSUME NEW p \in Procs, IInv, _deinit(p) PROVE IInv'
<1>. USE DEF IInv, _deinit, Vanish, Go, shmVars, flashVars, procVars, histVars, bounds
<1>a. inited[p] => op' = [op EXCEPT ![p] = [type |-> "exit", key |-> op[p].key,
                                          val |-> op[p].val]]
  BY DEF TypeOK, Ops
<1>1. TypeOK'
  <2>. USE DEF TypeOK, MapOK, LockPcs, InLock, UnlockPcs
  <2>1. (name \in Inodes \cup {NoInode} /\ lock \in [Inodes -> {0, 1}]
         /\ refcnt \in [Inodes -> Int] /\ revision \in [Inodes -> Nat])'
    OBVIOUS
  <2>2. (imgEnv \in [Inodes -> Envs] /\ imgCrc \in [Inodes -> Envs \cup {NoCrc}]
         /\ flashEnv \in Envs /\ flashCrc \in Envs \cup {NoCrc})'
    BY EmptyEnvType
  <2>3. (kv \in [Procs -> Envs])'
    BY EmptyEnvType
  <2>4. (pc \in [Procs -> Pcs] /\ map \in [Procs -> Inodes \cup {NoInode, Dangling}])'
    BY DEF Pcs
  <2>5. (inited \in [Procs -> BOOLEAN] /\ unl \in [Procs -> BOOLEAN])'
    OBVIOUS
  <2>6. (forced \in BOOLEAN /\ split \in BOOLEAN /\ dirty \in BOOLEAN /\ torn \in BOOLEAN)'
    OBVIOUS
  <2>7. (curRev \in [Procs -> Nat] /\ try \in [Procs -> Nat]
         /\ ret \in [Procs -> -3..0])'
    BY SMTT(60)
  <2>8. (op \in [Procs -> Ops])'
    <3>1. CASE inited[p]
      <4>1. [type |-> "exit", key |-> op[p].key, val |-> op[p].val] \in Ops
        BY DEF Ops
      <4>. QED  BY <3>1, <4>1, <1>a
    <3>2. CASE ~inited[p]
      BY <3>2, SomeOpType
    <3>. QED  BY <3>1, <3>2
  <2>9. (inits \in Nat /\ updates \in Nat /\ faults \in Nat /\ crashes \in Nat)'
    OBVIOUS
  <2>. QED  BY <2>1, <2>2, <2>3, <2>4, <2>5, <2>6, <2>7, <2>8, <2>9
<1>2. MapOK'
  BY SomeOpType, <1>a DEF TypeOK, MapOK, Pcs, LockPcs, InLock, UnlockPcs
<1>3. MutexUnlessForced'
  BY SMTT(60) DEF TypeOK, MapOK, MutexUnlessForced, LockPcs, InLock, UnlockPcs
<1>. QED  BY <1>1, <1>2, <1>3

\* ReleaseDec preserves the inductive invariant.
LEMMA Step_ReleaseDec ==
    ASSUME NEW p \in Procs, IInv, ReleaseDec(p) PROVE IInv'
<1>. USE DEF IInv, ReleaseDec, OneLess, Go, shmVars, flashVars, procVars, histVars, bounds
<1>1. TypeOK'
  BY SomeOpType, EmptyEnvType DEF TypeOK, MapOK, Pcs, LockPcs, InLock, UnlockPcs
<1>2. MapOK'
  BY SomeOpType DEF TypeOK, MapOK, Pcs, LockPcs, InLock, UnlockPcs
<1>3. MutexUnlessForced'
  BY DEF TypeOK, MapOK, MutexUnlessForced, LockPcs, InLock, UnlockPcs
<1>. QED  BY <1>1, <1>2, <1>3

\* ReleaseUnmap preserves the inductive invariant.
LEMMA Step_ReleaseUnmap ==
    ASSUME NEW p \in Procs, IInv, ReleaseUnmap(p) PROVE IInv'
<1>. USE DEF IInv, ReleaseUnmap, Vanish, NextTry, Go, shmVars, flashVars, procVars,
  histVars, bounds
<1>1. TypeOK'
  <2>. USE DEF TypeOK, MapOK, LockPcs, InLock, UnlockPcs
  <2>1. (name \in Inodes \cup {NoInode} /\ lock \in [Inodes -> {0, 1}]
         /\ refcnt \in [Inodes -> Int] /\ revision \in [Inodes -> Nat])'
    OBVIOUS
  <2>2. (imgEnv \in [Inodes -> Envs] /\ imgCrc \in [Inodes -> Envs \cup {NoCrc}]
         /\ flashEnv \in Envs /\ flashCrc \in Envs \cup {NoCrc})'
    BY EmptyEnvType
  <2>3. (kv \in [Procs -> Envs])'
    BY EmptyEnvType
  <2>4. (pc \in [Procs -> Pcs] /\ map \in [Procs -> Inodes \cup {NoInode, Dangling}])'
    BY DEF Pcs
  <2>5. (inited \in [Procs -> BOOLEAN] /\ unl \in [Procs -> BOOLEAN])'
    OBVIOUS
  <2>6. (forced \in BOOLEAN /\ split \in BOOLEAN /\ dirty \in BOOLEAN /\ torn \in BOOLEAN)'
    OBVIOUS
  <2>7. (curRev \in [Procs -> Nat] /\ try \in [Procs -> Nat]
         /\ ret \in [Procs -> -3..0])'
    OBVIOUS
  <2>8. (op \in [Procs -> Ops])'
    BY SomeOpType
  <2>9. (inits \in Nat /\ updates \in Nat /\ faults \in Nat /\ crashes \in Nat)'
    OBVIOUS
  <2>. QED  BY <2>1, <2>2, <2>3, <2>4, <2>5, <2>6, <2>7, <2>8, <2>9
<1>2. MapOK'
  BY SomeOpType DEF TypeOK, MapOK, Pcs, LockPcs, InLock, UnlockPcs
<1>3. MutexUnlessForced'
  <2>1. pc'[p] \in {"off", "acquire", "idle"}
    BY DEF TypeOK
  <2>2. \A q \in Procs : q # p => pc'[q] = pc[q] /\ map'[q] = map[q]
    BY DEF TypeOK
  <2>3. lock' = lock /\ forced' = forced
    OBVIOUS
  <2>4. pc'[p] \notin InLock
    BY <2>1 DEF InLock, UnlockPcs
  <2>. HIDE DEF ReleaseUnmap
  <2>. QED  BY <2>2, <2>3, <2>4 DEF MutexUnlessForced
<1>. QED  BY <1>1, <1>2, <1>3

\* ProcCrash preserves the inductive invariant.
LEMMA Step_ProcCrash ==
    ASSUME NEW p \in Procs, IInv, ProcCrash(p) PROVE IInv'
<1>. USE DEF IInv, ProcCrash, Vanish, Go, shmVars, flashVars, procVars, histVars, bounds
<1>1. TypeOK'
  BY SomeOpType, EmptyEnvType DEF TypeOK, MapOK, Pcs, LockPcs, InLock, UnlockPcs
<1>2. MapOK'
  BY SomeOpType DEF TypeOK, MapOK, Pcs, LockPcs, InLock, UnlockPcs
<1>3. MutexUnlessForced'
  BY DEF TypeOK, MapOK, MutexUnlessForced, LockPcs, InLock, UnlockPcs
<1>. QED  BY <1>1, <1>2, <1>3

\* bootenv_get preserves the inductive invariant.
LEMMA Step_bootenv_get ==
    ASSUME NEW p \in Procs, NEW k \in Keys, IInv, bootenv_get(p, k) PROVE IInv'
<1>. USE DEF IInv, bootenv_get, Call, Go, shmVars, flashVars, histVars
<1>0. [SomeOp EXCEPT !.type = "get", !.key = k] \in Ops
  BY SomeOpType DEF Ops
<1>. HIDE DEF bootenv_get
<1>1. \E o \in Ops : Call(p, o) /\ UNCHANGED updates
  BY <1>0 DEF bootenv_get
<1>2. PICK o \in Ops : Call(p, o) /\ UNCHANGED updates  BY <1>1
<1>3. TypeOK'
  BY <1>2 DEF TypeOK, Pcs, LockPcs
<1>4. MapOK'
  BY <1>2 DEF TypeOK, MapOK, LockPcs, InLock, UnlockPcs
<1>5. MutexUnlessForced'
  BY <1>2 DEF TypeOK, MapOK, MutexUnlessForced, LockPcs, InLock, UnlockPcs
<1>. QED  BY <1>3, <1>4, <1>5

\* bootenv_update preserves the inductive invariant.
LEMMA Step_bootenv_update ==
    ASSUME NEW p \in Procs, NEW k \in Keys, NEW v \in Vals, IInv,
           bootenv_update(p, k, v)
    PROVE  IInv'
<1>. USE DEF IInv, bootenv_update, Call, Go, shmVars, flashVars, histVars
<1>1. TypeOK'
  <2>1. [type |-> "update", key |-> k, val |-> v] \in Ops  BY DEF Ops
  <2>. QED  BY <2>1 DEF TypeOK, Pcs, LockPcs
<1>2. MapOK'
  BY DEF TypeOK, MapOK, LockPcs, InLock, UnlockPcs
<1>3. MutexUnlessForced'
  BY DEF TypeOK, MapOK, MutexUnlessForced, LockPcs, InLock, UnlockPcs
<1>. QED  BY <1>1, <1>2, <1>3

\* Reboot preserves the inductive invariant.
LEMMA Step_Reboot ==
    ASSUME IInv, Reboot PROVE IInv'
<1>. USE DEF IInv, Reboot, flashVars
<1>1. TypeOK'
  <2>. USE DEF TypeOK
  <2>1. (name \in Inodes \cup {NoInode} /\ lock \in [Inodes -> {0, 1}]
         /\ refcnt \in [Inodes -> Int] /\ revision \in [Inodes -> Nat])'
    OBVIOUS
  <2>2. (imgEnv \in [Inodes -> Envs] /\ imgCrc \in [Inodes -> Envs \cup {NoCrc}]
         /\ flashEnv \in Envs /\ flashCrc \in Envs \cup {NoCrc})'
    BY EmptyEnvType
  <2>3. (pc \in [Procs -> Pcs] /\ map \in [Procs -> Inodes \cup {NoInode, Dangling}]
         /\ kv \in [Procs -> Envs])'
    BY EmptyEnvType DEF Pcs
  <2>4. (inited \in [Procs -> BOOLEAN] /\ unl \in [Procs -> BOOLEAN]
         /\ forced \in BOOLEAN /\ split \in BOOLEAN /\ dirty \in BOOLEAN /\ torn \in BOOLEAN)'
    OBVIOUS
  <2>5. (curRev \in [Procs -> Nat] /\ try \in [Procs -> Nat]
         /\ ret \in [Procs -> -3..0] /\ op \in [Procs -> Ops])'
    BY SomeOpType
  <2>6. (inits \in Nat /\ updates \in Nat /\ faults \in Nat /\ crashes \in Nat)'
    OBVIOUS
  <2>. QED  BY <2>1, <2>2, <2>3, <2>4, <2>5, <2>6
<1>2. MapOK'
  BY DEF MapOK, LockPcs, InLock, UnlockPcs
<1>3. MutexUnlessForced'
  BY DEF MutexUnlessForced, InLock, UnlockPcs
<1>. QED  BY <1>1, <1>2, <1>3

\* Every step preserves the inductive invariant: one case per action.
LEMMA NextIInv == IInv /\ [Next]_vars => IInv'
<1>. SUFFICES ASSUME IInv, [Next]_vars PROVE IInv'  OBVIOUS
<1>1. CASE Reboot  BY <1>1, Step_Reboot
<1>2. CASE UNCHANGED vars
  BY <1>2 DEF IInv, vars, shmVars, flashVars, procVars, histVars, bounds, TypeOK,
              MapOK, MutexUnlessForced
<1>3. ASSUME NEW p \in Procs,
             \/ Step(p) \/ bootenv_init(p) \/ _deinit(p) \/ ProcCrash(p)
             \/ \E k \in Keys : bootenv_get(p, k)
             \/ \E k \in Keys, v \in Vals : bootenv_update(p, k, v)
      PROVE  IInv'
  <2>1. CASE bootenv_init(p)  BY <2>1, Step_bootenv_init
  <2>2. CASE acquire_envimg_buffer(p)  BY <2>2, Step_acquire_envimg_buffer
  <2>3. CASE AcquireFails(p)  BY <2>3, Step_AcquireFails
  <2>4. CASE AcquireSegv(p)  BY <2>4, Step_AcquireSegv
  <2>5. CASE envimg_buffer_lock(p)  BY <2>5, Step_envimg_buffer_lock
  <2>6. CASE LockTimeout(p)  BY <2>6, Step_LockTimeout
  <2>7. CASE envimg_buffer_unlock(p)  BY <2>7, Step_envimg_buffer_unlock
  <2>8. CASE UnlockAborts(p)  BY <2>8, Step_UnlockAborts
  <2>9. CASE LoadRead(p)  BY <2>9, Step_LoadRead
  <2>10. CASE LoadReadFails(p)  BY <2>10, Step_LoadReadFails
  <2>11. CASE LoadParse(p)  BY <2>11, Step_LoadParse
  <2>12. CASE Check(p)  BY <2>12, Step_Check
  <2>13. CASE SerializeClear(p)  BY <2>13, Step_SerializeClear
  <2>14. CASE SerializeFill(p)  BY <2>14, Step_SerializeFill
  <2>15. CASE SaveCrc(p)  BY <2>15, Step_SaveCrc
  <2>16. CASE SaveErase(p)  BY <2>16, Step_SaveErase
  <2>17. CASE SaveWrite(p)  BY <2>17, Step_SaveWrite
  <2>18. CASE _deinit(p)  BY <2>18, Step_deinit
  <2>19. CASE ReleaseDec(p)  BY <2>19, Step_ReleaseDec
  <2>20. CASE ReleaseUnmap(p)  BY <2>20, Step_ReleaseUnmap
  <2>21. CASE ProcCrash(p)  BY <2>21, Step_ProcCrash
  <2>22. CASE \E k \in Keys : bootenv_get(p, k)  BY <2>22, Step_bootenv_get
  <2>23. CASE \E k \in Keys, v \in Vals : bootenv_update(p, k, v)
    BY <2>23, Step_bootenv_update
  <2>. QED
    BY <1>3, <2>1, <2>2, <2>3, <2>4, <2>5, <2>6, <2>7, <2>8, <2>9, <2>10, <2>11, <2>12,
       <2>13, <2>14, <2>15, <2>16, <2>17, <2>18, <2>19, <2>20, <2>21, <2>22, <2>23 DEF Step
<1>. QED  BY <1>1, <1>2, <1>3 DEF Next

-----------------------------------------------------------------------------
\* Every reachable state satisfies the inductive invariant.
THEOREM Invariance == Spec => []IInv
  BY InitIInv, NextIInv, PTL DEF Spec

\* Every variable of the library, the shared file and the partition keeps its
\* type, in particular a process only uses gs_env_shm_info when it is mapped.
THEOREM TypeCorrect == Spec => [](TypeOK /\ MapOK)
<1>1. IInv => TypeOK /\ MapOK  BY DEF IInv
<1>. QED  BY <1>1, Invariance, PTL

\* envimg_buffer_lock and envimg_buffer_unlock give mutual exclusion on every
\* shared file as long as no process has passed the lock by timeout, for any
\* number of processes, through crashes, restarts and unlinked files.
THEOREM MutualExclusion == Spec => []MutexUnlessForced
<1>1. IInv => MutexUnlessForced  BY DEF IInv
<1>. QED  BY <1>1, Invariance, PTL

=============================================================================
