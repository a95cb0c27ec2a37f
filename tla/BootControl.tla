----------------------------- MODULE BootControl -----------------------------
(***************************************************************************)
(* The misc partition (bootloader_message/bootloader_message.c and          *)
(* bootloader_avb.c): the recovery command with its OTA path, and the A/B   *)
(* slot metadata.  Every operation reads the partition, changes its copy    *)
(* and writes the copy back; nothing keeps two processes (urlmisc,          *)
(* bootloader_slot, users of the library) from doing so at the same time.   *)
(*                                                                         *)
(* Avb selects the build: with BOOTCTOL_AVB the slot metadata is an         *)
(* AvbABData that lies behind the bootloader_message and is only kept on    *)
(* eMMC; without it, the slot is a field of the bootloader_message, which   *)
(* on NAND (IsMtd) is erased before it is written.                          *)
(***************************************************************************)
EXTENDS Integers, FiniteSets

CONSTANTS Procs,        \* processes that use the library
          Urls,         \* OTA paths
          Slots,        \* SLOT_A and SLOT_B, as the numbers 0 and 1
          NoSlot,       \* no system is running
          Avb,          \* TRUE: built with BOOTCTOL_AVB
          IsMtd,        \* TRUE: get_store_device finds no eMMC
          MaxPriority,  \* AVB_AB_MAX_PRIORITY
          MaxTries,     \* AVB_AB_MAX_TRIES_REMAINING
          Works,        \* slots that hold a system that starts
          MaxOps,       \* bound: library calls
          MaxFaults,    \* bound: failing system calls
          MaxCrashes    \* bound: reboots of a running system

ASSUME SlotsAssumption == Slots = {0, 1} /\ NoSlot \notin Slots
ASSUME BuildAssumption == Avb \in BOOLEAN /\ IsMtd \in BOOLEAN /\ (Avb => ~IsMtd)
ASSUME ValuesAssumption ==
    /\ MaxPriority \in Nat \ {0, 1} /\ MaxTries \in Nat \ {0}
    /\ Works \subseteq Slots /\ Urls # {} /\ "" \notin Urls /\ "junk" \notin Urls
    /\ MaxOps \in Nat /\ MaxFaults \in Nat /\ MaxCrashes \in Nat

VARIABLES
    msg,      \* struct bootloader_message on the partition
    ab,       \* AvbABData on the partition
    pc,       \* where each process is
    op,       \* the call in progress
    seenMsg,  \* what the call read of msg
    seenAb,   \* what the call read of ab
    running,  \* slot of the running system, from the kernel command line
    want,     \* history: the contents the completed calls asked for
    booted,   \* history: slots whose system has started at least once
    lost,     \* history: a call wrote over a change it had not read
    torn,     \* history: an erased partition was not written
    ops, faults, crashes  \* counters for the bounds

miscVars == <<msg, ab>>
procVars == <<pc, op, seenMsg, seenAb>>
histVars == <<want, booted, lost, torn>>
bounds   == <<ops, faults, crashes>>
vars     == <<miscVars, procVars, running, histVars, bounds>>

-----------------------------------------------------------------------------
(* The data on the partition.                                              *)

SlotData == [priority : 0..MaxPriority, tries : 0..MaxTries, success : BOOLEAN]
AbData   == [valid : BOOLEAN, slots : [Slots -> SlotData]]
Message  == [command : {"", "boot-recovery", "junk"},
             recovery : Urls \cup {"", "junk"},
             active : Slots \cup {255}]

Fresh(prio) == [priority |-> prio, tries |-> MaxTries, success |-> FALSE]

\* An all-zero partition, and the one a factory or an earlier call left.
ZeroAb    == [valid |-> FALSE,
              slots |-> [s \in Slots |-> [priority |-> 0, tries |-> 0, success |-> FALSE]]]
ZeroMsg   == [command |-> "", recovery |-> "", active |-> 0]
ErasedMsg == [command |-> "junk", recovery |-> "junk", active |-> 255]

\* The better of the two slots, with ties going to t.
TopSlot(d, t) ==
    IF d.slots[t].priority >= d.slots[1 - t].priority THEN t ELSE 1 - t

\* get_active_slot_from_misc of the two builds.
ActiveSlot(m, d) == IF Avb THEN TopSlot(d, 1) ELSE m.active

boot_info_reset ==
    [valid |-> TRUE,
     slots |-> [s \in Slots |-> Fresh(IF s = 0 THEN MaxPriority ELSE MaxPriority - 1)]]

\* What a factory leaves behind, slot A running.
FactoryAb == [boot_info_reset EXCEPT !.slots[0].success = TRUE]

\* mutant: the metadata is reset whether it is valid or not
FromReset(d, slot) == [boot_info_reset EXCEPT !.slots[slot] = Fresh(MaxPriority),
                                              !.slots[1 - slot].priority = MaxPriority - 1]

\* mutant: the other slot keeps the highest priority
KeepOther(d, slot) == [d EXCEPT !.slots[slot] = Fresh(MaxPriority)]

\* mutant: the other slot is disabled
DisableOther(d, slot) == [d EXCEPT !.slots[slot] = Fresh(MaxPriority),
                                   !.slots[1 - slot].priority = 0]

boot_info_set_active_slot(d, slot) ==
    [d EXCEPT !.slots[slot] = Fresh(MaxPriority),
              !.slots[1 - slot].priority =
                  IF @ = MaxPriority THEN MaxPriority - 1 ELSE @]

-----------------------------------------------------------------------------
(* What a call makes of what it read.                                      *)

SlotOps == {"set_active_slot", "set_successful_boot"}
MsgOps  == {"set_recovery_otapath", "clean_recovery_otapath", "set_recovery",
            "clear_recovery"}
Ops     == [type : SlotOps \cup MsgOps, url : Urls, slot : Slots]

\* Calls that write the AvbABData, and the message behind it, back.
OnAb(o) == Avb /\ o.type \in SlotOps

NewAb(o, d) ==
    CASE o.type = "set_active_slot" ->
           boot_info_set_active_slot(IF d.valid THEN d ELSE boot_info_reset, o.slot)
      [] o.type = "set_successful_boot" ->
           [d EXCEPT !.slots[TopSlot(d, 0)].success = TRUE]

\* mutant: the whole message is built anew instead of changed
FreshMsg(o, m) ==
    CASE o.type = "set_recovery_otapath"   -> [ZeroMsg EXCEPT !.command = "boot-recovery",
                                                              !.recovery = o.url]
      [] o.type = "clean_recovery_otapath" -> ZeroMsg
      [] o.type = "set_recovery"           -> [ZeroMsg EXCEPT !.command = "boot-recovery"]
      [] o.type = "clear_recovery"         -> ZeroMsg
      [] o.type = "set_active_slot"        -> [ZeroMsg EXCEPT !.active = o.slot]

NewMsg(o, m) ==
    CASE o.type = "set_recovery_otapath"   -> [m EXCEPT !.command = "boot-recovery",
                                                        !.recovery = o.url]
      [] o.type = "clean_recovery_otapath" -> [m EXCEPT !.command = "", !.recovery = ""]
      [] o.type = "set_recovery"           -> [m EXCEPT !.command = "boot-recovery"]
      [] o.type = "clear_recovery"         -> [m EXCEPT !.command = ""]
      [] o.type = "set_active_slot"        -> [m EXCEPT !.active = o.slot]

\* set_successful_boot writes nothing for a slot that is marked already, and is
\* empty in the other build.
NothingToDo(o, d) ==
    o.type = "set_successful_boot" /\ (~Avb \/ d.slots[TopSlot(d, 0)].success)

-----------------------------------------------------------------------------
(* The calls.                                                              *)

Pcs == {"idle", "erase", "write"}

\* What the library promises its callers, as the effect on a simple record.
Requested(o, w) ==
    CASE o.type = "set_recovery_otapath"   -> [w EXCEPT !.command = "boot-recovery",
                                                        !.recovery = o.url]
      [] o.type = "clean_recovery_otapath" -> [w EXCEPT !.command = "", !.recovery = ""]
      [] o.type = "set_recovery"           -> [w EXCEPT !.command = "boot-recovery"]
      [] o.type = "clear_recovery"         -> [w EXCEPT !.command = ""]
      [] o.type = "set_active_slot"        -> [w EXCEPT !.slot = o.slot]
      [] o.type = "set_successful_boot"    -> w

NoOp == [type |-> "set_recovery", url |-> CHOOSE u \in Urls : TRUE, slot |-> 0]

Init ==
    /\ msg = ZeroMsg
    /\ ab \in IF Avb THEN {ZeroAb, FactoryAb} ELSE {ZeroAb}
    /\ pc = [p \in Procs |-> "idle"]
    /\ op = [p \in Procs |-> NoOp]
    /\ seenMsg = [p \in Procs |-> ZeroMsg]
    /\ seenAb = [p \in Procs |-> ZeroAb]
    /\ running = 0
    /\ want = [command |-> "", recovery |-> "", slot |-> ActiveSlot(msg, ab)]
    /\ booted = {0} /\ lost = FALSE /\ torn = FALSE
    /\ ops = 0 /\ faults = 0 /\ crashes = 0

TypeOK ==
    /\ msg \in Message /\ ab \in AbData
    /\ pc \in [Procs -> Pcs]
    /\ op \in [Procs -> Ops]
    /\ seenMsg \in [Procs -> Message] /\ seenAb \in [Procs -> AbData]
    /\ running \in Slots \cup {NoSlot}
    /\ want \in [command : {"", "boot-recovery"}, recovery : Urls \cup {""},
                 slot : Slots]
    /\ booted \subseteq Slots /\ lost \in BOOLEAN /\ torn \in BOOLEAN
    /\ ops \in Nat /\ faults \in Nat /\ crashes \in Nat

\* A system call of the library fails: bounded by MaxFaults.
Fault == faults < MaxFaults /\ faults' = faults + 1

\* The first half of a call: get_bootloader_message.  (A read that fails ends
\* the call without a trace.)
Read(p, o) ==
    /\ pc[p] = "idle" /\ running # NoSlot
    /\ ops < MaxOps /\ ops' = ops + 1
    /\ ~NothingToDo(o, ab)
    /\ op' = [op EXCEPT ![p] = o]
    /\ seenMsg' = [seenMsg EXCEPT ![p] = msg]
    /\ seenAb' = [seenAb EXCEPT ![p] = ab]
    /\ pc' = [pc EXCEPT ![p] = IF IsMtd THEN "erase" ELSE "write"]
    /\ UNCHANGED <<miscVars, running, histVars, faults, crashes>>

set_active_slot(p, s)        == Read(p, [NoOp EXCEPT !.type = "set_active_slot", !.slot = s])
set_successful_boot(p)       == Read(p, [NoOp EXCEPT !.type = "set_successful_boot"])
set_recovery_otapath(p, u)   == Read(p, [NoOp EXCEPT !.type = "set_recovery_otapath", !.url = u])
clean_recovery_otapath(p)    == Read(p, [NoOp EXCEPT !.type = "clean_recovery_otapath"])
set_recovery(p)              == Read(p, [NoOp EXCEPT !.type = "set_recovery"])
clear_recovery(p)            == Read(p, [NoOp EXCEPT !.type = "clear_recovery"])

\* The call is over, and nothing of it remains.
Return(p) ==
    /\ pc' = [pc EXCEPT ![p] = "idle"]
    /\ op' = [op EXCEPT ![p] = NoOp]
    /\ seenMsg' = [seenMsg EXCEPT ![p] = ZeroMsg]
    /\ seenAb' = [seenAb EXCEPT ![p] = ZeroAb]

\* nand_erase takes the whole partition; it can fail at a later block, when the
\* one with the message is erased already.
nand_erase(p) ==
    /\ pc[p] = "erase"
    /\ \/ /\ msg' = ErasedMsg
          /\ pc' = [pc EXCEPT ![p] = "write"]
          /\ lost' = (lost \/ msg # seenMsg[p])
          /\ UNCHANGED <<op, seenMsg, seenAb, torn, faults>>
       \/ /\ Fault
          /\ \/ UNCHANGED <<msg, lost, torn>>
             \/ /\ msg' = ErasedMsg /\ torn' = TRUE
                /\ lost' = (lost \/ msg # seenMsg[p])
          /\ Return(p)
    /\ UNCHANGED <<ab, running, want, booted, ops, crashes>>

\* The bootloader_message is written from the copy: nand_write, or fwrite to
\* /dev/misc.
WriteMsg(p) ==
    /\ pc[p] = "write" /\ ~OnAb(op[p])
    /\ \/ /\ msg' = NewMsg(op[p], seenMsg[p])
          /\ lost' = (lost \/ msg # IF IsMtd THEN ErasedMsg ELSE seenMsg[p])
          /\ want' = Requested(op[p], want)
          /\ UNCHANGED <<torn, faults>>
       \/ /\ Fault
          /\ torn' = (torn \/ IsMtd)
          /\ UNCHANGED <<msg, lost, want>>
    /\ Return(p)
    /\ UNCHANGED <<ab, running, booted, ops, crashes>>

\* set_bootloader_message_block of bootloader_avb.c: all MISCBUF_SIZE bytes are
\* written, the message that was read in front of the metadata included.
WriteAb(p) ==
    /\ pc[p] = "write" /\ OnAb(op[p])
    /\ \/ /\ ab' = NewAb(op[p], seenAb[p])
          /\ msg' = seenMsg[p]
          /\ lost' = (lost \/ msg # seenMsg[p] \/ ab # seenAb[p])
          /\ want' = Requested(op[p], want)
          /\ UNCHANGED faults
       \/ Fault /\ UNCHANGED <<ab, msg, lost, want>>
    /\ Return(p)
    /\ UNCHANGED <<running, booted, torn, ops, crashes>>

-----------------------------------------------------------------------------
(* The bootloader.  It is not part of the repository: this is what the      *)
(* comments on AvbABSlotData and the use of its fields ask of it.           *)

\* A slot with no tries left and no success mark becomes unbootable.
GiveUp(d) ==
    [d EXCEPT !.slots = [s \in Slots |->
        IF ~@[s].success /\ @[s].tries = 0 THEN [@[s] EXCEPT !.priority = 0] ELSE @[s]]]

Bootable(d) == {s \in Slots : d.slots[s].priority > 0}

\* s is booted rather than t.
Beats(d, s, t) ==
    \/ d.slots[s].priority > d.slots[t].priority
    \/ d.slots[s].priority = d.slots[t].priority /\ s <= t

\* The slot to boot from metadata d (after GiveUp): a set of at most one.
BootSlot(d) ==
    IF Avb /\ d.valid
      THEN {s \in Bootable(d) : \A t \in Bootable(d) : Beats(d, s, t)}
      ELSE {IF ~Avb /\ msg.active \in Slots THEN msg.active ELSE 0}

AlwaysUse(d, s) == [d EXCEPT !.slots[s].tries = @ - 1]    \* mutant

\* A try is used up unless the slot is known to work.
UseTry(d, s) ==
    IF d.slots[s].success THEN d ELSE [d EXCEPT !.slots[s].tries = @ - 1]

\* The device restarts, at any point of any call, and again and again while no
\* system comes up.
Boot ==
    /\ \/ running = NoSlot /\ UNCHANGED crashes
       \/ running # NoSlot /\ crashes < MaxCrashes /\ crashes' = crashes + 1
    /\ LET d == IF Avb /\ ab.valid THEN GiveUp(ab) ELSE ab IN
         \/ /\ BootSlot(d) = {}
            /\ ab' = d /\ running' = NoSlot /\ UNCHANGED booted
         \/ \E s \in BootSlot(d) :
              /\ ab' = IF Avb /\ ab.valid THEN UseTry(d, s) ELSE d
              /\ running' = IF s \in Works THEN s ELSE NoSlot
              /\ booted' = IF s \in Works THEN booted \cup {s} ELSE booted
    /\ want' = IF Avb THEN [want EXCEPT !.slot = ActiveSlot(msg, ab')] ELSE want
    /\ torn' = (torn \/ (IsMtd /\ \E p \in Procs : pc[p] = "write"))
    /\ pc' = [p \in Procs |-> "idle"]
    /\ op' = [p \in Procs |-> NoOp]
    /\ seenMsg' = [p \in Procs |-> ZeroMsg]
    /\ seenAb' = [p \in Procs |-> ZeroAb]
    /\ UNCHANGED <<msg, lost, ops, faults>>

-----------------------------------------------------------------------------
Next ==
    \/ \E p \in Procs :
          \/ \E s \in Slots : set_active_slot(p, s)
          \/ set_successful_boot(p)
          \/ \E u \in Urls : set_recovery_otapath(p, u)
          \/ clean_recovery_otapath(p)
          \/ set_recovery(p)
          \/ clear_recovery(p)
          \/ nand_erase(p)
          \/ WriteMsg(p)
          \/ WriteAb(p)
    \/ Boot

Spec == Init /\ [][Next]_vars

-----------------------------------------------------------------------------
(* Properties.                                                             *)

\* The partition holds what the calls that returned 0 asked for, all fields
\* taken together: an operation on the slot keeps the recovery command, and the
\* other way round.  It can only fail when a call wrote over a change made since
\* its read, or an erased partition was not written again.
RequestKept ==
    ~lost /\ ~torn /\ ~(IsMtd /\ \E p \in Procs : pc[p] = "write") =>
        /\ msg.command = want.command
        /\ msg.recovery = want.recovery
        /\ ActiveSlot(msg, ab) = want.slot

\* Valid metadata never ranks two bootable slots alike, whatever snapshots are
\* written over one another: get_active_slot_from_misc (which breaks a tie for
\* slot 1) and set_successful_boot (for slot 0) mean the same slot.
Ranked(d) == \/ d.slots[0].priority # d.slots[1].priority
             \/ \A s \in Slots : d.slots[s].priority = 0
NoTie == ab.valid => Ranked(ab)

\* The way back after a bad update: in valid metadata a slot with the success mark
\* can be booted, whatever slot was made active since, whatever snapshots were
\* written over one another, and however often slots that do not start used up
\* their tries.  set_successful_boot looks at no priority but the order of the
\* two, so it depends on what set_active_slot and boot_info_reset leave to the
\* other slot, and on a call never outliving the system that made it.
MarkBootable(d) == \A s \in Slots : d.slots[s].success => d.slots[s].priority > 0
FallbackBootable == ab.valid => MarkBootable(ab)

\* A slot loses its success mark only to a set_active_slot for that slot, a
\* reset of invalid metadata, or a lost update.
MarkKept ==
    [][\A s \in Slots : ab.slots[s].success /\ ~ab'.slots[s].success =>
          \/ lost'
          \/ \E p \in Procs : /\ pc[p] = "write" /\ op[p].type = "set_active_slot"
                              /\ op[p].slot = s \/ ~seenAb[p].valid]_vars

\* bootloader_avb.c:45 says of successful_boot: "Non-zero if this slot has
\* booted successfully, 0 otherwise."
SuccessfulMeansBooted ==
    ab.valid => \A s \in Slots : ab.slots[s].success => s \in booted

=============================================================================
