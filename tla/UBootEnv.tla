------------------------------- MODULE UBootEnv -------------------------------
(***************************************************************************)
(* The U-Boot environment library (ubootenv/ubootenv.c).                   *)
(*                                                                         *)
(* Every process that links the library keeps a private key/value list     *)
(* (gs_kv_header) and shares one image of the environment partition in     *)
(* the file /dev/shm/uenvShm.  The image is guarded by a spin lock in the  *)
(* file itself which gives up after about a second, counted by a reference *)
(* count, and versioned by a revision number.  bootenv_update rewrites the *)
(* image and then the partition.                                           *)
(*                                                                         *)
(* A file of /dev/shm is an element of Inodes: unlinking it frees the name *)
(* and leaves the mappings of other processes on the old file.  A CRC is   *)
(* represented by the content it was computed over, so it is correct       *)
(* exactly when it equals the content it stands beside.                    *)
(***************************************************************************)
EXTENDS Integers, FiniteSets

CONSTANTS Procs,      \* processes linking libubootenv
          Inodes,     \* identities of shared memory files
          NoInode,    \* no mapping / no file under ENV_IMG_SHM_NAME
          Dangling,   \* gs_env_shm_info points to unmapped memory
          Keys,       \* variable names
          Vals,       \* variable values; the string "" may be one of them
          None,       \* the variable is not in the environment
          NoCrc,      \* a stored CRC word that matches no content
          FirstEnv,   \* content of the partition when the device was made
          RWRetry,    \* MAX_UBOOT_RWRETRY
          IsMtd,      \* TRUE: the partition is MTD and is erased before a write
          MaxInits,   \* bound: calls of bootenv_init
          MaxUpdates, \* bound: calls of bootenv_update
          MaxFaults,  \* bound: failing system calls
          MaxCrashes  \* bound: killed processes and power losses

Envs == [Keys -> Vals \cup {None}]

ASSUME InodesAssumption ==
    /\ NoInode \notin Inodes /\ Dangling \notin Inodes /\ Dangling # NoInode
ASSUME EnvAssumption ==
    /\ Keys # {} /\ Vals # {} /\ None \notin Vals
    /\ FirstEnv \in Envs /\ NoCrc \notin Envs
ASSUME ProcsAssumption == IsFiniteSet(Procs)
ASSUME BoundsAssumption ==
    /\ RWRetry \in Nat \ {0} /\ IsMtd \in BOOLEAN
    /\ MaxInits \in Nat /\ MaxUpdates \in Nat /\ MaxFaults \in Nat /\ MaxCrashes \in Nat

VARIABLES
    name,       \* file under ENV_IMG_SHM_NAME, or NoInode
    lock,       \* uenv_img_shm_info.lock, per file
    refcnt,     \* uenv_img_shm_info.refcnt, per file
    revision,   \* uenv_img_shm_info.revision, per file
    imgEnv,     \* data of the shared image, per file
    imgCrc,     \* CRC word of the shared image, per file
    flashEnv,   \* data on the environment partition
    flashCrc,   \* CRC word on the environment partition
    pc,         \* where each process is
    map,        \* gs_env_shm_info of each process
    inited,     \* gs_init_done
    kv,         \* gs_kv_header of each process
    curRev,     \* gs_current_revision
    try,        \* loop counter i of bootenv_init and bootenv_update
    ret,        \* result of the innermost call
    unl,        \* unlink_finally
    op,         \* the call in progress
    forced,     \* history, since boot: a process passed the lock by timeout
    split,      \* history, since boot: a file was made while another was mapped
    dirty,      \* history, the last save_bootenv failed and no valid load healed it
    torn,       \* history, the last save that touched the partition was cut off,
                \* failed, or ran beside another one; survives a restart
    inits, updates, faults, crashes  \* counters for the bounds

shmVars   == <<name, lock, refcnt, revision, imgEnv, imgCrc>>
flashVars == <<flashEnv, flashCrc>>
procVars  == <<map, inited, kv, curRev, try, ret, unl, op>>
histVars  == <<forced, split, dirty, torn>>
bounds    == <<inits, updates, faults, crashes>>
vars      == <<shmVars, flashVars, pc, procVars, histVars, bounds>>

-----------------------------------------------------------------------------
EmptyEnv == [k \in Keys |-> None]

\* What bootenv_update compares with: an absent variable reads as "".
Shown(v) == IF v = None THEN "" ELSE v

Ops == [type : {"init", "get", "update", "exit"}, key : Keys, val : Vals]

\* Spinning on the lock, holding (or believing to hold) it, about to release it.
LockPcs   == {"lock_load", "lock_op", "lock_rel"}
UnlockPcs == {"unlock_load", "unlock_op", "unlock_rel"}
InLock    == UnlockPcs \cup {"load_read", "load_parse", "check", "ser0", "ser1",
                             "crc", "erase", "write", "rel_dec"}
Pcs == LockPcs \cup InLock \cup {"off", "idle", "acquire", "rel_unmap"}

\* A file that no name and no mapping keeps alive.
Free(i) == i # name /\ \A q \in Procs : map[q] # i

TypeOK ==
    /\ name \in Inodes \cup {NoInode}
    /\ lock \in [Inodes -> {0, 1}]
    /\ refcnt \in [Inodes -> Int]
    /\ revision \in [Inodes -> Nat]
    /\ imgEnv \in [Inodes -> Envs]
    /\ imgCrc \in [Inodes -> Envs \cup {NoCrc}]
    /\ flashEnv \in Envs /\ flashCrc \in Envs \cup {NoCrc}
    /\ pc \in [Procs -> Pcs]
    /\ map \in [Procs -> Inodes \cup {NoInode, Dangling}]
    /\ inited \in [Procs -> BOOLEAN]
    /\ kv \in [Procs -> Envs]
    /\ curRev \in [Procs -> Nat]
    /\ try \in [Procs -> Nat]
    /\ ret \in [Procs -> -3..0]
    /\ unl \in [Procs -> BOOLEAN]
    /\ op \in [Procs -> Ops]
    /\ forced \in BOOLEAN /\ split \in BOOLEAN /\ dirty \in BOOLEAN
    /\ torn \in BOOLEAN
    /\ inits \in Nat /\ updates \in Nat /\ faults \in Nat /\ crashes \in Nat

SomeOp == [type |-> "init", key |-> CHOOSE k \in Keys : TRUE,
           val |-> CHOOSE v \in Vals : TRUE]

Init ==
    /\ name = NoInode
    /\ lock = [i \in Inodes |-> 0]
    /\ refcnt = [i \in Inodes |-> 0]
    /\ revision = [i \in Inodes |-> 0]
    /\ imgEnv = [i \in Inodes |-> EmptyEnv]
    /\ imgCrc = [i \in Inodes |-> NoCrc]
    /\ flashEnv = FirstEnv /\ flashCrc = FirstEnv
    /\ pc = [p \in Procs |-> "off"]
    /\ map = [p \in Procs |-> NoInode]
    /\ inited = [p \in Procs |-> FALSE]
    /\ kv = [p \in Procs |-> EmptyEnv]
    /\ curRev = [p \in Procs |-> 0]
    /\ try = [p \in Procs |-> 0]
    /\ ret = [p \in Procs |-> 0]
    /\ unl = [p \in Procs |-> FALSE]
    /\ op = [p \in Procs |-> SomeOp]
    /\ forced = FALSE /\ split = FALSE /\ dirty = FALSE /\ torn = FALSE
    /\ inits = 0 /\ updates = 0 /\ faults = 0 /\ crashes = 0

-----------------------------------------------------------------------------
(* The life of a process, and calls of the library.                        *)

Go(p, to) == pc' = [pc EXCEPT ![p] = to]

\* The process image is gone: its mapping and its static variables with it.
Vanish(p) ==
    /\ Go(p, "off")
    /\ map' = [map EXCEPT ![p] = NoInode]
    /\ inited' = [inited EXCEPT ![p] = FALSE]
    /\ kv' = [kv EXCEPT ![p] = EmptyEnv]
    /\ curRev' = [curRev EXCEPT ![p] = 0]
    /\ try' = [try EXCEPT ![p] = 0]
    /\ ret' = [ret EXCEPT ![p] = 0]
    /\ unl' = [unl EXCEPT ![p] = FALSE]
    /\ op' = [op EXCEPT ![p] = SomeOp]

\* A system call of the library fails: bounded by MaxFaults.
Fault == faults < MaxFaults /\ faults' = faults + 1

bootenv_init(p) ==
    /\ pc[p] \in {"off", "idle"} /\ ~inited[p]
    /\ inits < MaxInits /\ inits' = inits + 1
    /\ Go(p, "acquire")
    /\ op' = [op EXCEPT ![p] = SomeOp]
    /\ try' = [try EXCEPT ![p] = 0]
    /\ UNCHANGED <<shmVars, flashVars, map, inited, kv, curRev, ret, unl,
                   histVars, updates, faults, crashes>>

\* The loop test of bootenv_init.
NextTry(p) == Go(p, IF try[p] < RWRetry THEN "acquire" ELSE "idle")

\* open(O_CREAT) and ftruncate: afterwards the name stands for f, and a new
\* file is all zero.
OpenShm(f) ==
    \/ /\ name = f
       /\ UNCHANGED <<shmVars, split>>
    \/ /\ name = NoInode /\ Free(f)
       /\ name' = f
       /\ lock' = [lock EXCEPT ![f] = 0]
       /\ refcnt' = [refcnt EXCEPT ![f] = 0]
       /\ revision' = [revision EXCEPT ![f] = 0]
       /\ imgEnv' = [imgEnv EXCEPT ![f] = EmptyEnv]
       /\ imgCrc' = [imgCrc EXCEPT ![f] = NoCrc]
       /\ split' = (split \/ \E q \in Procs : map[q] \in Inodes)

acquire_envimg_buffer(p) ==
    /\ pc[p] = "acquire" /\ map[p] # Dangling
    /\ try' = [try EXCEPT ![p] = @ + 1]
    /\ Go(p, "lock_load")
    /\ \/ map[p] \in Inodes /\ UNCHANGED <<shmVars, map, split>>
       \/ /\ map[p] = NoInode
          /\ \E f \in Inodes : OpenShm(f) /\ map' = [map EXCEPT ![p] = f]
    /\ UNCHANGED <<flashVars, inited, kv, curRev, ret, unl, op, forced, dirty,
                   torn, bounds>>

\* open or ftruncate fails and leaves gs_env_shm_info NULL, or mmap fails and
\* leaves it at MAP_FAILED; load_bootenv returns -1 and the loop goes on.
AcquireFails(p) ==
    /\ pc[p] = "acquire" /\ map[p] = NoInode
    /\ Fault
    /\ try' = [try EXCEPT ![p] = @ + 1]
    /\ ret' = [ret EXCEPT ![p] = -1]
    /\ \/ UNCHANGED <<shmVars, map, split>>
       \/ /\ \E f \in Inodes : OpenShm(f)
          /\ \E m \in {NoInode, Dangling} : map' = [map EXCEPT ![p] = m]
    /\ Go(p, IF try[p] + 1 < RWRetry THEN "acquire" ELSE "idle")
    /\ UNCHANGED <<flashVars, inited, kv, curRev, unl, op, forced, dirty, torn,
                   inits, updates, crashes>>

\* The pointer that release_envimg_buffer or MAP_FAILED left behind is used.
AcquireSegv(p) ==
    /\ pc[p] = "acquire" /\ map[p] = Dangling
    /\ Vanish(p)
    /\ UNCHANGED <<shmVars, flashVars, histVars, bounds>>

-----------------------------------------------------------------------------
(* The lock of the shared image.                                           *)

\* The compare-and-swap succeeds.
AnyLock(p) == lock[map[p]] \in {0, 1}       \* mutant: a plain store
LockFree(p) == lock[map[p]] = 0

\* The compare-and-swap has failed max_retry_cnt times.
WaitsForever(p) == FALSE                    \* mutant: no retry limit
OutOfRetries(p) == lock[map[p]] = 1

AfterLock(p) == CASE pc[p] = "lock_load" -> "load_read"
                  [] pc[p] = "lock_op"   -> "check"
                  [] OTHER               -> "rel_dec"

envimg_buffer_lock(p) ==
    /\ pc[p] \in LockPcs
    /\ LockFree(p)
    /\ lock' = [lock EXCEPT ![map[p]] = 1]
    /\ Go(p, AfterLock(p))
    /\ UNCHANGED <<name, refcnt, revision, imgEnv, imgCrc, flashVars, procVars,
                   histVars, bounds>>

\* The caller goes on without the lock.
LockTimeout(p) ==
    /\ pc[p] \in LockPcs
    /\ OutOfRetries(p)
    /\ forced' = TRUE
    /\ Go(p, AfterLock(p))
    /\ UNCHANGED <<shmVars, flashVars, procVars, split, dirty, torn, bounds>>

AfterUnlock(p) ==
    \/ /\ pc[p] = "unlock_load" /\ ret[p] = 0     \* a success on the last try
       /\ Go(p, "idle")                           \* is still reported as -2
       /\ inited' = [inited EXCEPT ![p] = (try[p] < RWRetry)]
    \/ /\ pc[p] = "unlock_load" /\ ret[p] < -2
       /\ Go(p, "lock_rel") /\ UNCHANGED inited
    \/ /\ pc[p] = "unlock_load" /\ ret[p] \in {-1, -2}
       /\ NextTry(p) /\ UNCHANGED inited
    \/ /\ pc[p] = "unlock_op"
       /\ Go(p, "idle") /\ UNCHANGED inited
    \/ /\ pc[p] = "unlock_rel"
       /\ Go(p, "rel_unmap") /\ UNCHANGED inited

envimg_buffer_unlock(p) ==
    /\ pc[p] \in UnlockPcs
    /\ lock[map[p]] = 1
    /\ lock' = [lock EXCEPT ![map[p]] = 0]
    /\ AfterUnlock(p)
    /\ UNCHANGED <<name, refcnt, revision, imgEnv, imgCrc, flashVars, map, kv,
                   curRev, try, ret, unl, op, histVars, bounds>>

\* assert(__sync_val_compare_and_swap(&lock, 1, 0)) finds the lock free.
UnlockAborts(p) ==
    /\ pc[p] \in UnlockPcs
    /\ lock[map[p]] = 0
    /\ Vanish(p)
    /\ UNCHANGED <<shmVars, flashVars, histVars, bounds>>

-----------------------------------------------------------------------------
(* load_bootenv, under the lock.                                           *)

\* The first user of a file fills it from the partition.
LoadRead(p) ==
    /\ pc[p] = "load_read"
    /\ \/ /\ refcnt[map[p]] = 0
          /\ imgEnv' = [imgEnv EXCEPT ![map[p]] = flashEnv]
          /\ imgCrc' = [imgCrc EXCEPT ![map[p]] = flashCrc]
          /\ dirty' = (dirty /\ flashCrc # flashEnv)
       \/ /\ refcnt[map[p]] # 0
          /\ UNCHANGED <<imgEnv, imgCrc, dirty>>
    /\ Go(p, "load_parse")
    /\ UNCHANGED <<name, lock, refcnt, revision, flashVars, procVars, forced,
                   split, torn, bounds>>

\* open of the partition fails, or a short read leaves the image torn; refcnt
\* is set to 0, which it is.
LoadReadFails(p) ==
    /\ pc[p] = "load_read" /\ refcnt[map[p]] = 0
    /\ Fault
    /\ \/ /\ ret' = [ret EXCEPT ![p] = -1]
          /\ UNCHANGED <<imgEnv, imgCrc>>
       \/ /\ ret' = [ret EXCEPT ![p] = -2]
          /\ imgEnv' = [imgEnv EXCEPT ![map[p]] = EmptyEnv]
          /\ imgCrc' = [imgCrc EXCEPT ![map[p]] = NoCrc]
    /\ Go(p, "unlock_load")
    /\ UNCHANGED <<name, lock, refcnt, revision, flashVars, map, inited, kv,
                   curRev, try, unl, op, histVars, inits, updates, crashes>>

\* The CRC check, env_parse_kv and the new reference.
LoadParse(p) ==
    /\ pc[p] = "load_parse"
    /\ curRev' = [curRev EXCEPT ![p] = revision[map[p]]]
    /\ \/ /\ imgCrc[map[p]] = imgEnv[map[p]]
          /\ kv' = [kv EXCEPT ![p] = imgEnv[map[p]]]
          /\ ret' = [ret EXCEPT ![p] = 0]
          /\ refcnt' = [refcnt EXCEPT ![map[p]] = @ + 1]
       \/ /\ imgCrc[map[p]] # imgEnv[map[p]]
          /\ ret' = [ret EXCEPT ![p] = -3]
          /\ refcnt' = [refcnt EXCEPT ![map[p]] = 0]
          /\ UNCHANGED kv
    /\ Go(p, "unlock_load")
    /\ UNCHANGED <<name, lock, revision, imgEnv, imgCrc, flashVars, map, inited,
                   try, unl, op, histVars, bounds>>

-----------------------------------------------------------------------------
(* bootenv_get and bootenv_update.                                         *)

Call(p, o) ==
    /\ pc[p] = "idle" /\ inited[p]
    /\ op' = [op EXCEPT ![p] = o]
    /\ Go(p, "lock_op")
    /\ UNCHANGED <<shmVars, flashVars, map, inited, kv, curRev, try, ret, unl,
                   histVars, inits, faults, crashes>>

bootenv_get(p, k) ==
    /\ Call(p, [SomeOp EXCEPT !.type = "get", !.key = k])
    /\ UNCHANGED updates

bootenv_update(p, k, v) ==
    /\ updates < MaxUpdates
    /\ updates' = updates + 1
    /\ Call(p, [type |-> "update", key |-> k, val |-> v])

\* check_load_kv: the list is read again when the image has another revision.
NotReloaded(p) == kv[p]                     \* mutant: no check_load_kv
Loaded(p) == IF curRev[p] = revision[map[p]] THEN kv[p] ELSE imgEnv[map[p]]

\* Of the reloaded list.
bootenv_get_value(p) == Shown(Loaded(p)[op[p].key])
bootenv_set_value(p) == [Loaded(p) EXCEPT ![op[p].key] = op[p].val]

\* An update of a variable that already has the value returns here, any other
\* one sets it in the list.
Check(p) ==
    /\ pc[p] = "check"
    /\ curRev' = [curRev EXCEPT ![p] = revision[map[p]]]
    /\ ret' = [ret EXCEPT ![p] = 0]
    /\ \/ /\ op[p].type = "update" /\ bootenv_get_value(p) # op[p].val
          /\ kv' = [kv EXCEPT ![p] = bootenv_set_value(p)]
          /\ try' = [try EXCEPT ![p] = 0]
          /\ Go(p, "ser0")
       \/ /\ op[p].type # "update" \/ bootenv_get_value(p) = op[p].val
          /\ kv' = [kv EXCEPT ![p] = Loaded(p)]
          /\ Go(p, "unlock_op")
          /\ UNCHANGED try
    /\ UNCHANGED <<shmVars, flashVars, map, inited, unl, op, histVars, bounds>>

\* save_bootenv starts with env_serialize_data, which clears the image ...
SerializeClear(p) ==
    /\ pc[p] = "ser0"
    /\ try' = [try EXCEPT ![p] = @ + 1]
    /\ imgEnv' = [imgEnv EXCEPT ![map[p]] = EmptyEnv]
    /\ Go(p, "ser1")
    /\ UNCHANGED <<name, lock, refcnt, revision, imgCrc, flashVars, map, inited,
                   kv, curRev, ret, unl, op, histVars, bounds>>

DownRevision(p) == curRev[p] - 1            \* mutant: the wrong direction
SameRevision(p) == curRev[p]                \* mutant: no new revision
NextRevision(p) == curRev[p] + 1

\* ... writes the list into it and gives it the next revision.
SerializeFill(p) ==
    /\ pc[p] = "ser1"
    /\ imgEnv' = [imgEnv EXCEPT ![map[p]] = kv[p]]
    /\ curRev' = [curRev EXCEPT ![p] = NextRevision(p)]
    /\ revision' = [revision EXCEPT ![map[p]] = NextRevision(p)]
    /\ Go(p, "crc")
    /\ UNCHANGED <<name, lock, refcnt, imgCrc, flashVars, map, inited, kv, try,
                   ret, unl, op, histVars, bounds>>

\* save_bootenv returns an error; bootenv_update tries MAX_UBOOT_RWRETRY times.
SaveFailed(p) ==
    /\ Fault
    /\ ret' = [ret EXCEPT ![p] = -3]
    /\ dirty' = TRUE
    /\ Go(p, IF try[p] < RWRetry THEN "ser0" ELSE "unlock_op")

\* crc32 over the image that was just written.
OldCrc(p) == imgCrc[map[p]]                 \* mutant: CRC of the image before
NewCrc(p) == imgEnv[map[p]]

\* The CRC of the new image is stored and the partition opened.
SaveCrc(p) ==
    /\ pc[p] = "crc"
    /\ imgCrc' = [imgCrc EXCEPT ![map[p]] = NewCrc(p)]
    /\ \/ /\ Go(p, IF IsMtd THEN "erase" ELSE "write")
          /\ UNCHANGED <<ret, dirty, faults>>
       \/ SaveFailed(p)
    /\ UNCHANGED <<name, lock, refcnt, revision, imgEnv, flashVars, map, inited,
                   kv, curRev, try, unl, op, forced, split, torn, inits, updates,
                   crashes>>

\* MEMGETINFO and MEMERASE.
SaveErase(p) ==
    /\ pc[p] = "erase"
    /\ \/ /\ flashEnv' = EmptyEnv /\ flashCrc' = NoCrc
          /\ Go(p, "write")
          /\ UNCHANGED <<ret, dirty, faults>>
       \/ SaveFailed(p) /\ UNCHANGED flashVars
    /\ UNCHANGED <<shmVars, map, inited, kv, curRev, try, unl, op, forced, split, torn,
                   inits, updates, crashes>>

\* write, fdopen and fsync; fdopen can fail after the image was written.
SaveWrite(p) ==
    /\ pc[p] = "write"
    /\ \/ /\ flashEnv' = imgEnv[map[p]] /\ flashCrc' = imgCrc[map[p]]
          /\ ret' = [ret EXCEPT ![p] = 0]
          /\ dirty' = FALSE /\ torn' = forced
          /\ Go(p, "unlock_op")
          /\ UNCHANGED faults
       \/ /\ SaveFailed(p)
          /\ \/ /\ flashEnv' = imgEnv[map[p]] /\ flashCrc' = imgCrc[map[p]]
                /\ torn' = forced
             \/ torn' = (torn \/ IsMtd) /\ UNCHANGED flashVars
    /\ UNCHANGED <<shmVars, map, inited, kv, curRev, try, unl, op, forced, split,
                   inits, updates, crashes>>

-----------------------------------------------------------------------------
(* release_envimg_buffer, exit, crashes.                                   *)

\* The destructor _deinit runs when the process exits between two calls.
_deinit(p) ==
    /\ pc[p] = "idle"
    /\ \/ /\ inited[p]
          /\ op' = [op EXCEPT ![p].type = "exit"]
          /\ Go(p, "lock_rel")
          /\ UNCHANGED <<map, inited, kv, curRev, try, ret, unl>>
       \/ ~inited[p] /\ Vanish(p)
    /\ UNCHANGED <<shmVars, flashVars, histVars, bounds>>

NoneLeft(p) == 0                            \* mutant: the reset of load_bootenv
OneLess(p) == refcnt[map[p]] - 1

ReleaseDec(p) ==
    /\ pc[p] = "rel_dec"
    /\ refcnt' = [refcnt EXCEPT ![map[p]] = OneLess(p)]
    /\ unl' = [unl EXCEPT ![p] = (OneLess(p) <= 0)]
    /\ Go(p, "unlock_rel")
    /\ UNCHANGED <<name, lock, revision, imgEnv, imgCrc, flashVars, map, inited,
                   kv, curRev, try, ret, op, histVars, bounds>>

\* munmap and unlink, after the lock was given back: the name is removed
\* whatever file it stands for by now, and a name that is already gone leaves
\* the pointer to the unmapped memory set.
ReleaseUnmap(p) ==
    /\ pc[p] = "rel_unmap"
    /\ name' = IF unl[p] THEN NoInode ELSE name
    /\ \/ op[p].type = "exit" /\ Vanish(p)
       \/ /\ op[p].type # "exit"
          /\ map' = [map EXCEPT ![p] = IF unl[p] /\ name = NoInode
                                         THEN Dangling ELSE NoInode]
          /\ NextTry(p)
          /\ UNCHANGED <<inited, kv, curRev, try, ret, unl, op>>
    /\ UNCHANGED <<lock, refcnt, revision, imgEnv, imgCrc, flashVars, histVars,
                   bounds>>

\* The process is killed wherever it is; a lock it holds stays taken.
ProcCrash(p) ==
    /\ pc[p] # "off"
    /\ crashes < MaxCrashes /\ crashes' = crashes + 1
    /\ torn' = (torn \/ (IsMtd /\ pc[p] = "write"))
    /\ Vanish(p)
    /\ UNCHANGED <<shmVars, flashVars, forced, split, dirty, inits, updates, faults>>

\* Power is lost: /dev/shm is empty again, and a write in progress is torn.
Reboot ==
    /\ crashes < MaxCrashes /\ crashes' = crashes + 1
    /\ name' = NoInode
    /\ \/ UNCHANGED flashVars
       \/ /\ \E p \in Procs : pc[p] = "write"
          /\ flashEnv' = EmptyEnv /\ flashCrc' = NoCrc
    /\ pc' = [p \in Procs |-> "off"]
    /\ map' = [p \in Procs |-> NoInode]
    /\ inited' = [p \in Procs |-> FALSE]
    /\ kv' = [p \in Procs |-> EmptyEnv]
    /\ curRev' = [p \in Procs |-> 0]
    /\ try' = [p \in Procs |-> 0]
    /\ ret' = [p \in Procs |-> 0]
    /\ unl' = [p \in Procs |-> FALSE]
    /\ op' = [p \in Procs |-> SomeOp]
    /\ forced' = FALSE /\ split' = FALSE /\ dirty' = FALSE
    /\ torn' = (torn \/ \E p \in Procs : pc[p] = "write")
    /\ UNCHANGED <<lock, refcnt, revision, imgEnv, imgCrc, inits, updates, faults>>

-----------------------------------------------------------------------------
\* The steps a call takes once it has begun.
Step(p) ==
    \/ acquire_envimg_buffer(p) \/ AcquireFails(p) \/ AcquireSegv(p)
    \/ envimg_buffer_lock(p) \/ LockTimeout(p)
    \/ envimg_buffer_unlock(p) \/ UnlockAborts(p)
    \/ LoadRead(p) \/ LoadReadFails(p) \/ LoadParse(p)
    \/ Check(p) \/ SerializeClear(p) \/ SerializeFill(p)
    \/ SaveCrc(p) \/ SaveErase(p) \/ SaveWrite(p)
    \/ ReleaseDec(p) \/ ReleaseUnmap(p)

Next ==
    \/ \E p \in Procs :
          \/ Step(p)
          \/ bootenv_init(p)
          \/ \E k \in Keys : bootenv_get(p, k)
          \/ \E k \in Keys, v \in Vals : bootenv_update(p, k, v)
          \/ _deinit(p)
          \/ ProcCrash(p)
    \/ Reboot

Spec == Init /\ [][Next]_vars

\* A process that is inside the library is scheduled again and again.
FairSpec == Spec /\ \A p \in Procs : WF_vars(Step(p))

-----------------------------------------------------------------------------
(* Properties.                                                             *)

\* Who counts in refcnt: from the increment of load_bootenv to the decrement
\* of release_envimg_buffer.
Users(i) ==
    {p \in Procs : /\ map[p] = i
                   /\ inited[p] \/ (pc[p] = "unlock_load" /\ ret[p] = 0)
                   /\ pc[p] \notin {"unlock_rel", "rel_unmap"}}

\* Between the first and the last change save_bootenv makes.
Saving == {"ser0", "ser1", "crc", "erase", "write"}

\* As long as nobody has run out of lock retries, a process between
\* envimg_buffer_lock and envimg_buffer_unlock owns the lock of the file it
\* maps, and no other process is there with the same file.
MutexUnlessForced ==
    ~forced =>
        /\ \A p \in Procs : pc[p] \in InLock => lock[map[p]] = 1
        /\ \A p, q \in Procs :
              p # q /\ pc[p] \in InLock /\ pc[q] \in InLock => map[p] # map[q]

\* Where a process must have the image mapped, and how far bootenv_init and
\* _deinit have come with gs_init_done: the facts MutexUnlessForced and TypeOK
\* rest on.
MapOK ==
    \A p \in Procs :
        /\ pc[p] \in LockPcs \cup InLock \cup {"rel_unmap"} => map[p] \in Inodes
        /\ inited[p] => map[p] \in Inodes
        /\ pc[p] \in {"off", "acquire", "lock_load", "load_read", "load_parse",
                      "unlock_load"} => ~inited[p]
        /\ pc[p] \in {"lock_rel", "rel_dec", "unlock_rel", "rel_unmap"}
           => op[p].type = "exit" \/ ~inited[p]

\* The revision is a sound test for a stale list (check_load_kv): a process
\* outside the lock whose gs_current_revision is the file's holds exactly the
\* content of the image whenever nobody is changing the image (and there was
\* only one shared file: another one's users can unlink and reload this one).
CacheCoherent ==
    ~forced /\ ~split => \A p \in Procs :
        /\ inited[p] /\ pc[p] \in {"idle", "lock_op", "check"}
        /\ curRev[p] = revision[map[p]]
        /\ \A q \in Procs \ {p} : map[q] = map[p] => pc[q] \notin Saving
        /\ lock[map[p]] = 0 \/ \E q \in Procs : map[q] = map[p] /\ pc[q] \in InLock
        => kv[p] = imgEnv[map[p]]

\* refcnt never falls below the number of processes that use the file, although
\* load_bootenv resets it to 0 on an error: no process unlinks the file, or
\* reads the partition over the image, while another one has it loaded.  (With
\* two files at once a process that found a bad CRC can still take away the
\* reference of one that loaded the file after the other file was saved.)
RefcntCoversUsers ==
    ~forced /\ ~split => \A i \in Inodes : Cardinality(Users(i)) <= refcnt[i] \/ Users(i) = {}

\* bootenv_update returns 0 only when the partition holds the value, under a
\* valid CRC.  The conditions name everything that can break this promise: a
\* lock passed by timeout, two shared files at once, and a call before this one
\* that set the value in the list but failed to save it.
UpdateReachesFlash ==
    ~forced /\ ~split /\ ~dirty => \A p \in Procs :
        pc[p] = "unlock_op" /\ op[p].type = "update" /\ ret[p] = 0
        => Shown(flashEnv[op[p].key]) = op[p].val /\ flashCrc = flashEnv

\* The partition carries content under its own CRC at every moment, also after a
\* process was killed or the device lost power anywhere else, except
\*   - between the erase and the write of an MTD partition, and
\*   - from a save that did not end properly (torn) until the next one that does:
\*     the process was killed or the power lost between the erase and the write,
\*     the write after the erase failed, power was lost during the write, or the
\*     writer shared the image with another one because a lock had timed out.
FlashValid ==
    \/ flashCrc = flashEnv
    \/ torn
    \/ IsMtd /\ \E p \in Procs : pc[p] = "write"

\* Every call of the library comes back (or its process ends), even when the
\* holder of the lock was killed.
CallsReturn ==
    \A p \in Procs : pc[p] \notin {"off", "idle"} ~> pc[p] \in {"off", "idle"}

\* The assertion of envimg_buffer_unlock holds: a process that unlocks finds
\* the lock taken.
UnlockAssertion ==
    \A p \in Procs : pc[p] \in UnlockPcs => lock[map[p]] = 1

=============================================================================
