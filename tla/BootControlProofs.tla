-------------------------- MODULE BootControlProofs --------------------------
(***************************************************************************)
(* Valid A/B metadata always ranks the two slots (NoTie) and keeps a       *)
(* marked slot bootable (FallbackBootable), the partition holds what was   *)
(* asked for unless an update was lost or an erased partition left alone   *)
(* (RequestKept), and success marks stay (MarkKept), for any number of     *)
(* processes writing snapshots over one another, and for any               *)
(* AVB_AB_MAX_PRIORITY and AVB_AB_MAX_TRIES_REMAINING.                     *)
(***************************************************************************)
EXTENDS BootControl, TLAPS

\* Metadata that may be on the partition or in the hands of a call.
Good(d) == d \in AbData /\ (d.valid => Ranked(d))

IInv ==
    /\ Good(ab)
    /\ \A p \in Procs : Good(seenAb[p])
    /\ op \in [Procs -> Ops]
    /\ seenAb \in [Procs -> AbData]

\* The bounds of the metadata are numbers.
LEMMA Limits == MaxPriority \in Nat /\ MaxPriority > 1 /\ MaxTries \in Nat /\ MaxTries > 0
<1>1. MaxPriority \in Nat /\ MaxPriority # 0 /\ MaxPriority # 1  BY ValuesAssumption
<1>2. MaxTries \in Nat /\ MaxTries # 0  BY ValuesAssumption
<1>. QED  BY <1>1, <1>2

\* The metadata boot_info_set_active_slot and boot_info_reset start from.
LEMMA FreshType ==
    ASSUME NEW prio \in 0..MaxPriority PROVE Fresh(prio) \in SlotData
  BY Limits DEF Fresh, SlotData

\* boot_info_reset makes ranked metadata.
LEMMA ResetGood == Good(boot_info_reset)
<1>1. \A s \in Slots : Fresh(IF s = 0 THEN MaxPriority ELSE MaxPriority - 1) \in SlotData
  BY FreshType, Limits
<1>2. boot_info_reset \in AbData
  BY <1>1 DEF boot_info_reset, AbData
<1>3. Ranked(boot_info_reset)
  BY SlotsAssumption, Limits DEF Ranked, boot_info_reset, Fresh
<1>. QED  BY <1>2, <1>3 DEF Good

\* boot_info_set_active_slot ranks the requested slot first, whatever it got.
LEMMA SetActiveGood ==
    ASSUME NEW d \in AbData, NEW slot \in Slots
    PROVE  Good(boot_info_set_active_slot(d, slot))
<1>. DEFINE e == boot_info_set_active_slot(d, slot)
            other == [d.slots[1 - slot] EXCEPT !.priority =
                         IF @ = MaxPriority THEN MaxPriority - 1 ELSE @]
<1>1. 1 - slot \in Slots /\ 1 - slot # slot /\ Slots = {slot, 1 - slot}
  BY SlotsAssumption
<1>2. d.slots \in [Slots -> SlotData] /\ d.valid \in BOOLEAN
  BY DEF AbData
<1>3. Fresh(MaxPriority) \in SlotData
  BY FreshType, Limits
<1>4. other \in SlotData /\ other.priority # MaxPriority
  BY <1>1, <1>2, Limits DEF SlotData
<1>5. e.slots = [[d.slots EXCEPT ![slot] = Fresh(MaxPriority)] EXCEPT ![1 - slot] = other]
      /\ e.valid = d.valid
  BY <1>1, <1>2 DEF boot_info_set_active_slot, AbData
<1>6. e \in AbData
  BY <1>1, <1>2, <1>3, <1>4, <1>5 DEF boot_info_set_active_slot, AbData
<1>7. e.slots[slot].priority = MaxPriority /\ e.slots[1 - slot].priority # MaxPriority
  BY <1>1, <1>2, <1>4, <1>5 DEF Fresh
<1>8. Ranked(e)
  BY <1>1, <1>7, SlotsAssumption DEF Ranked
<1>. QED  BY <1>6, <1>8 DEF Good

\* Every write of the metadata makes good metadata of what was read.
LEMMA NewAbGood ==
    ASSUME NEW o \in Ops, o.type \in SlotOps, NEW d \in AbData, Good(d)
    PROVE  Good(NewAb(o, d))
<1>1. CASE o.type = "set_active_slot"
  <2>1. o.slot \in Slots  BY DEF Ops
  <2>2. (IF d.valid THEN d ELSE boot_info_reset) \in AbData
    BY ResetGood DEF Good
  <2>3. NewAb(o, d) = boot_info_set_active_slot(IF d.valid THEN d ELSE boot_info_reset,
                                                o.slot)
    BY <1>1 DEF NewAb
  <2>. QED  BY <2>1, <2>2, <2>3, SetActiveGood
<1>2. CASE o.type = "set_successful_boot"
  <2>. DEFINE t == TopSlot(d, 0)
  <2>1. NewAb(o, d) = [d EXCEPT !.slots[t].success = TRUE]
    BY <1>2 DEF NewAb
  <2>2. t \in Slots
    BY SlotsAssumption DEF TopSlot
  <2>3. d.slots \in [Slots -> SlotData] /\ d.valid \in BOOLEAN
    BY DEF AbData
  <2>. DEFINE e == [d EXCEPT !.slots[t].success = TRUE]
  <2>. HIDE DEF t
  <2>4. e \in AbData
    BY <2>2, <2>3 DEF AbData, SlotData
  <2>5. e.valid = d.valid /\ \A s \in Slots : e.slots[s].priority = d.slots[s].priority
    BY <2>2, <2>3 DEF AbData, SlotData
  <2>6. e.valid => Ranked(e)
    BY <2>5, SlotsAssumption DEF Good, Ranked
  <2>. QED  BY <2>1, <2>4, <2>6 DEF Good
<1>. QED  BY <1>1, <1>2 DEF SlotOps

\* The bootloader keeps the ranking when it gives up a slot ...
LEMMA GiveUpGood ==
    ASSUME NEW d \in AbData, Good(d)
    PROVE  /\ Good(GiveUp(d))
           /\ \A s \in Bootable(GiveUp(d)) : GiveUp(d).slots[s].success
                                              \/ GiveUp(d).slots[s].tries > 0
<1>. DEFINE e == GiveUp(d)
            New(s) == IF ~d.slots[s].success /\ d.slots[s].tries = 0
                        THEN [d.slots[s] EXCEPT !.priority = 0] ELSE d.slots[s]
<1>1. d.slots \in [Slots -> SlotData] /\ d.valid \in BOOLEAN
  BY DEF AbData
<1>2. e.slots = [s \in Slots |-> New(s)] /\ e.valid = d.valid
  BY <1>1 DEF GiveUp, AbData
<1>3. \A s \in Slots : /\ New(s) \in SlotData
                       /\ New(s).priority = d.slots[s].priority \/ New(s).priority = 0
                       /\ New(s).priority > 0 => New(s).success \/ New(s).tries > 0
  BY <1>1, Limits DEF SlotData
<1>4. e \in AbData
  BY <1>1, <1>2, <1>3 DEF GiveUp, AbData
<1>. HIDE DEF New, e
<1>5. \A s \in Slots : e.slots[s].priority = d.slots[s].priority \/ e.slots[s].priority = 0
  BY <1>2, <1>3
<1>6. d.valid => Ranked(e)
  BY <1>5, SlotsAssumption DEF Good, Ranked
<1>7. \A s \in Bootable(e) : e.slots[s].success \/ e.slots[s].tries > 0
  BY <1>2, <1>3 DEF Bootable
<1>. QED  BY <1>2, <1>4, <1>6, <1>7 DEF Good, e

\* ... and when it uses up a try.
LEMMA UseTryGood ==
    ASSUME NEW d \in AbData, Good(d), NEW s \in Slots,
           d.slots[s].success \/ d.slots[s].tries > 0
    PROVE  Good(UseTry(d, s))
<1>. DEFINE e == [d EXCEPT !.slots[s].tries = @ - 1]
<1>1. CASE d.slots[s].success
  BY <1>1 DEF UseTry
<1>2. CASE ~d.slots[s].success
  <2>1. d.slots \in [Slots -> SlotData] /\ d.valid \in BOOLEAN
    BY DEF AbData
  <2>2. d.slots[s].tries - 1 \in 0..MaxTries
    BY <1>2, <2>1, Limits DEF SlotData
  <2>3. e \in AbData
    BY <2>1, <2>2 DEF AbData, SlotData
  <2>4. e.valid = d.valid /\ \A t \in Slots : e.slots[t].priority = d.slots[t].priority
    BY <2>1 DEF AbData, SlotData
  <2>5. e.valid => Ranked(e)
    BY <2>4, SlotsAssumption DEF Good, Ranked
  <2>. QED  BY <1>2, <2>3, <2>5 DEF Good, UseTry
<1>. QED  BY <1>1, <1>2

\* The metadata of an empty partition, and of a call that is over.
LEMMA ZeroAbGood == Good(ZeroAb)
  BY Limits DEF Good, ZeroAb, AbData, SlotData

\* The arguments of every call are operations.
LEMMA NoOpType ==
    /\ NoOp \in Ops
    /\ \A s \in Slots : [NoOp EXCEPT !.type = "set_active_slot", !.slot = s] \in Ops
    /\ \A u \in Urls : [NoOp EXCEPT !.type = "set_recovery_otapath", !.url = u] \in Ops
    /\ \A t \in SlotOps \cup MsgOps : [NoOp EXCEPT !.type = t] \in Ops
<1>1. (CHOOSE u \in Urls : TRUE) \in Urls  BY ValuesAssumption
<1>2. 0 \in Slots  BY SlotsAssumption
<1>. QED  BY <1>1, <1>2 DEF NoOp, Ops, SlotOps, MsgOps

\* The initial states satisfy the inductive invariant.
LEMMA InitIInv == Init => IInv
<1>. SUFFICES ASSUME Init PROVE IInv  OBVIOUS
<1>1. Good(FactoryAb)
  <2>. DEFINE r == boot_info_reset
  <2>1. r \in AbData /\ Ranked(r)
    BY ResetGood DEF Good, boot_info_reset
  <2>2. FactoryAb = [r EXCEPT !.slots[0].success = TRUE]
    BY DEF FactoryAb
  <2>. HIDE DEF r
  <2>3. r.slots \in [Slots -> SlotData] /\ r.valid \in BOOLEAN /\ 0 \in Slots /\ 1 \in Slots
    BY <2>1, SlotsAssumption DEF AbData
  <2>4. FactoryAb \in AbData
    BY <2>1, <2>2, <2>3 DEF AbData, SlotData
  <2>5. \A s \in Slots : FactoryAb.slots[s].priority = r.slots[s].priority
    BY <2>1, <2>2, <2>3 DEF AbData, SlotData
  <2>. QED  BY <2>1, <2>3, <2>4, <2>5, SlotsAssumption DEF Good, Ranked
<1>2. ab = ZeroAb \/ ab = FactoryAb
  BY DEF Init
<1>3. op \in [Procs -> Ops] /\ seenAb \in [Procs -> AbData]
  BY NoOpType, ZeroAbGood DEF Init, Good
<1>4. \A p \in Procs : seenAb[p] = ZeroAb
  BY DEF Init
<1>. QED  BY <1>1, <1>2, <1>3, <1>4, ZeroAbGood DEF IInv

\* The first half of any call takes a copy of the metadata.
LEMMA ReadIInv ==
    ASSUME NEW p \in Procs, NEW o \in Ops, IInv, Read(p, o) PROVE IInv'
  BY DEF IInv, Read, miscVars, Good, Ranked

\* A call that is over holds the zeroed metadata.
LEMMA ReturnIInv ==
    ASSUME NEW p \in Procs, IInv, Return(p), Good(ab') PROVE IInv'
<1>1. op' \in [Procs -> Ops] /\ seenAb' \in [Procs -> AbData]
  BY NoOpType, ZeroAbGood DEF IInv, Return, Good
<1>2. \A q \in Procs : seenAb'[q] = ZeroAb \/ seenAb'[q] = seenAb[q]
  BY DEF IInv, Return
<1>. QED  BY <1>1, <1>2, ZeroAbGood DEF IInv, Good, Ranked

\* Erasing and writing the message leave the metadata alone.
LEMMA MessageIInv ==
    ASSUME NEW p \in Procs, IInv, nand_erase(p) \/ WriteMsg(p) PROVE IInv'
<1>1. ab' = ab
  BY DEF nand_erase, WriteMsg
<1>2. Good(ab')
  BY <1>1 DEF IInv
<1>3. CASE Return(p)
  BY <1>2, <1>3, ReturnIInv
<1>4. CASE UNCHANGED <<op, seenAb>>
  BY <1>1, <1>4 DEF IInv, Good, Ranked
<1>. QED  BY <1>3, <1>4 DEF nand_erase, WriteMsg

\* set_bootloader_message_block of the AVB build writes good metadata.
LEMMA WriteAbIInv ==
    ASSUME NEW p \in Procs, IInv, WriteAb(p) PROVE IInv'
<1>1. op[p] \in Ops /\ op[p].type \in SlotOps /\ seenAb[p] \in AbData /\ Good(seenAb[p])
  BY DEF IInv, WriteAb, OnAb
<1>2. ab' = NewAb(op[p], seenAb[p]) \/ ab' = ab
  BY DEF WriteAb
<1>3. Good(ab')
  BY <1>1, <1>2, NewAbGood DEF IInv
<1>4. Return(p)
  BY DEF WriteAb
<1>. QED  BY <1>3, <1>4, ReturnIInv

\* The bootloader, in whatever state the calls left the partition.
LEMMA BootIInv == ASSUME IInv, Boot PROVE IInv'
<1>. DEFINE d == IF Avb /\ ab.valid THEN GiveUp(ab) ELSE ab
<1>1. ab \in AbData /\ Good(ab)
  BY DEF IInv, Good
<1>2. Good(d) /\ d \in AbData
  BY <1>1, GiveUpGood DEF Good
<1>3. d.valid = ab.valid
  <2>1. GiveUp(ab).valid = ab.valid  BY <1>1 DEF GiveUp, AbData
  <2>. QED  BY <2>1
<1>4. \A s \in BootSlot(d) : s \in Slots
  BY SlotsAssumption DEF BootSlot, Bootable
<1>5. ASSUME Avb /\ ab.valid, NEW s \in BootSlot(d)
      PROVE  d.slots[s].success \/ d.slots[s].tries > 0
  <2>1. d = GiveUp(ab) /\ d.valid  BY <1>3, <1>5
  <2>2. s \in Bootable(d)  BY <1>5, <2>1 DEF BootSlot
  <2>. QED  BY <1>1, <2>1, <2>2, GiveUpGood
<1>6. ab' = d \/ \E s \in BootSlot(d) : ab' = IF Avb /\ ab.valid THEN UseTry(d, s) ELSE d
  BY DEF Boot
<1>. HIDE DEF d
<1>7. Good(ab')
  <2>1. CASE ab' = d  BY <1>2, <2>1
  <2>2. CASE \E s \in BootSlot(d) : ab' = IF Avb /\ ab.valid THEN UseTry(d, s) ELSE d
    <3>1. PICK s \in BootSlot(d) : ab' = IF Avb /\ ab.valid THEN UseTry(d, s) ELSE d
      BY <2>2
    <3>2. CASE Avb /\ ab.valid  BY <1>2, <1>4, <1>5, <3>1, <3>2, UseTryGood
    <3>3. CASE ~(Avb /\ ab.valid)  BY <1>2, <3>1, <3>3
    <3>. QED  BY <3>2, <3>3
  <2>. QED  BY <1>6, <2>1, <2>2
<1>8. op' = [p \in Procs |-> NoOp] /\ seenAb' = [p \in Procs |-> ZeroAb]
  BY DEF Boot
<1>9. op' \in [Procs -> Ops] /\ seenAb' \in [Procs -> AbData]
      /\ \A p \in Procs : seenAb'[p] = ZeroAb
  BY <1>8, NoOpType, ZeroAbGood DEF Good
<1>. QED  BY <1>7, <1>9, ZeroAbGood DEF IInv, Good, Ranked

\* Every step keeps the inductive invariant: one case per action.
LEMMA NextIInv == IInv /\ [Next]_vars => IInv'
<1>. SUFFICES ASSUME IInv, [Next]_vars PROVE IInv'  OBVIOUS
<1>1. CASE Boot  BY <1>1, BootIInv
<1>2. CASE UNCHANGED vars
  BY <1>2 DEF IInv, Good, Ranked, vars, miscVars, procVars
<1>3. ASSUME NEW p \in Procs, \E o \in Ops : Read(p, o) PROVE IInv'
  BY <1>3, ReadIInv
<1>4. ASSUME NEW p \in Procs, NEW s \in Slots, set_active_slot(p, s) PROVE IInv'
  BY <1>3, <1>4, NoOpType DEF set_active_slot
<1>5. ASSUME NEW p \in Procs, NEW u \in Urls, set_recovery_otapath(p, u) PROVE IInv'
  BY <1>3, <1>5, NoOpType DEF set_recovery_otapath
<1>6. ASSUME NEW p \in Procs,
             \/ set_successful_boot(p) \/ clean_recovery_otapath(p)
             \/ set_recovery(p) \/ clear_recovery(p)
      PROVE  IInv'
  <2>1. \E t \in SlotOps \cup MsgOps : Read(p, [NoOp EXCEPT !.type = t])
    BY <1>6 DEF set_successful_boot, clean_recovery_otapath, set_recovery,
                clear_recovery, SlotOps, MsgOps
  <2>. QED  BY <1>3, <2>1, NoOpType
<1>7. ASSUME NEW p \in Procs, nand_erase(p) \/ WriteMsg(p) PROVE IInv'
  BY <1>7, MessageIInv
<1>8. ASSUME NEW p \in Procs, WriteAb(p) PROVE IInv'
  BY <1>8, WriteAbIInv
<1>. QED  BY <1>1, <1>2, <1>4, <1>5, <1>6, <1>7, <1>8 DEF Next

-----------------------------------------------------------------------------
\* get_active_slot_from_misc and set_successful_boot, which break a tie of the
\* priorities differently, mean the same slot whenever the metadata is valid,
\* in every interleaving of the calls with each other and with restarts.
THEOREM SlotsRanked == Spec => []NoTie
<1>1. IInv => NoTie  BY DEF IInv, Good, NoTie
<1>. QED  BY <1>1, InitIInv, NextIInv, PTL DEF Spec

-----------------------------------------------------------------------------
(* The way back.                                                           *)

\* Metadata from which a system can start.
Alive(d) == \E s \in Slots : d.slots[s].priority > 0

\* A system that runs was started from a slot that can be booted, and every copy
\* in the hands of a call was read while it ran.
AInv ==
    /\ pc \in [Procs -> Pcs]
    /\ ab.valid => Avb /\ MarkBootable(ab)
    /\ ab.valid /\ running # NoSlot => Alive(ab)
    /\ \A p \in Procs : pc[p] # "idle" /\ seenAb[p].valid
                        => MarkBootable(seenAb[p]) /\ Alive(seenAb[p])

\* The factory marks the slot it ranks first.
LEMMA InitAInv == Init => AInv
<1>. SUFFICES ASSUME Init PROVE AInv  OBVIOUS
<1>1. ab = ZeroAb => ~ab.valid  BY DEF ZeroAb
<1>2. ASSUME Avb, ab = FactoryAb PROVE MarkBootable(ab) /\ Alive(ab)
  <2>. DEFINE f == [s \in Slots |-> Fresh(IF s = 0 THEN MaxPriority ELSE MaxPriority - 1)]
  <2>1. ab.slots = [f EXCEPT ![0].success = TRUE]  BY <1>2 DEF FactoryAb, boot_info_reset
  <2>2. 0 \in Slots  BY SlotsAssumption
  <2>3. ab.slots[0].priority = MaxPriority  BY <2>1, <2>2 DEF Fresh
  <2>4. \A s \in Slots : s # 0 => ~ab.slots[s].success  BY <2>1, <2>2 DEF Fresh
  <2>. QED  BY <2>2, <2>3, <2>4, Limits DEF MarkBootable, Alive
<1>3. ab = ZeroAb \/ (Avb /\ ab = FactoryAb)
  <2>1. ab \in IF Avb THEN {ZeroAb, FactoryAb} ELSE {ZeroAb}  BY DEF Init
  <2>2. CASE Avb  BY <2>1, <2>2
  <2>3. CASE ~Avb  BY <2>1, <2>3
  <2>. QED  BY <2>2, <2>3
<1>4. pc \in [Procs -> Pcs] /\ \A p \in Procs : pc[p] = "idle"  BY DEF Init, Pcs
<1>. QED  BY <1>1, <1>2, <1>3, <1>4 DEF AInv

\* A call reads what the running system was started from, or what came of it.
LEMMA ReadAInv ==
    ASSUME NEW p \in Procs, NEW o \in Ops, IInv, AInv, Read(p, o) PROVE AInv'
<1>1. UNCHANGED <<ab, running>> /\ running # NoSlot  BY DEF Read, miscVars
<1>2. seenAb'[p] = ab  BY DEF Read, IInv
<1>3. ASSUME NEW q \in Procs, q # p PROVE seenAb'[q] = seenAb[q] /\ (pc'[q] # "idle" => pc[q] # "idle")
  BY <1>3 DEF Read, IInv
<1>4. pc' \in [Procs -> Pcs]  BY DEF AInv, Read, Pcs
<1>. QED  BY <1>1, <1>2, <1>3, <1>4 DEF AInv, MarkBootable, Alive

\* The other steps of a call that leave the metadata alone.
LEMMA SameAInv ==
    ASSUME IInv, AInv, UNCHANGED <<ab, running>>, pc' \in [Procs -> Pcs],
           \A q \in Procs : pc'[q] # "idle" => pc[q] # "idle" /\ seenAb'[q] = seenAb[q]
    PROVE  AInv'
  BY DEF AInv, MarkBootable, Alive

\* What is written over the metadata can be booted, and marks what can be booted.
LEMMA NewAbAlive ==
    ASSUME NEW o \in Ops, o.type \in SlotOps, NEW d \in AbData,
           d.valid => MarkBootable(d) /\ Alive(d)
    PROVE  NewAb(o, d).valid => MarkBootable(NewAb(o, d)) /\ Alive(NewAb(o, d))
<1>1. CASE o.type = "set_active_slot"
  <2>. DEFINE b == IF d.valid THEN d ELSE boot_info_reset
              t == o.slot
              other == [b.slots[1 - t] EXCEPT !.priority =
                           IF @ = MaxPriority THEN MaxPriority - 1 ELSE @]
              e == boot_info_set_active_slot(b, t)
  <2>1. t \in Slots /\ 1 - t \in Slots /\ 1 - t # t /\ Slots = {t, 1 - t}
    BY SlotsAssumption DEF Ops
  <2>2. b \in AbData  BY ResetGood DEF Good
  <2>3. MarkBootable(b)
    <3>1. MarkBootable(boot_info_reset)
      BY SlotsAssumption DEF MarkBootable, boot_info_reset, Fresh
    <3>. QED  BY <3>1
  <2>4. NewAb(o, d) = e  BY <1>1 DEF NewAb
  <2>. HIDE DEF b, t
  <2>5. b.slots \in [Slots -> SlotData]  BY <2>2 DEF AbData
  <2>6. e.slots = [[b.slots EXCEPT ![t] = Fresh(MaxPriority)] EXCEPT ![1 - t] = other]
    BY <2>1, <2>2, <2>5 DEF boot_info_set_active_slot, AbData
  <2>7. e.slots[t] = Fresh(MaxPriority) /\ e.slots[1 - t] = other
    BY <2>1, <2>5, <2>6
  <2>8. b.slots[1 - t] \in SlotData  BY <2>1, <2>5
  <2>9. other.success = b.slots[1 - t].success
        /\ (b.slots[1 - t].priority > 0 => other.priority > 0)
    BY <2>8, Limits DEF SlotData
  <2>10. other.success => other.priority > 0
    BY <2>1, <2>3, <2>9 DEF MarkBootable
  <2>11. Fresh(MaxPriority).priority > 0 /\ ~Fresh(MaxPriority).success
    BY Limits DEF Fresh
  <2>. HIDE DEF e, other
  <2>. QED  BY <2>1, <2>4, <2>7, <2>10, <2>11 DEF MarkBootable, Alive
<1>2. CASE o.type = "set_successful_boot"
  <2>. DEFINE t == TopSlot(d, 0)
              e == [d EXCEPT !.slots[t].success = TRUE]
  <2>1. NewAb(o, d) = e  BY <1>2 DEF NewAb
  <2>2. t \in Slots  BY SlotsAssumption DEF TopSlot
  <2>3. d.slots \in [Slots -> SlotData]  BY DEF AbData
  <2>4. \A s \in Slots : d.slots[s].priority \in Int  BY <2>3, Limits DEF SlotData
  <2>5. \A s \in Slots : d.slots[t].priority >= d.slots[s].priority
    BY <2>4, SlotsAssumption DEF TopSlot
  <2>. HIDE DEF t
  <2>6. e.valid = d.valid
        /\ \A s \in Slots : /\ e.slots[s].priority = d.slots[s].priority
                            /\ s # t => e.slots[s].success = d.slots[s].success
    BY <2>2, <2>3 DEF AbData, SlotData
  <2>7. Alive(d) => d.slots[t].priority > 0  BY <2>2, <2>4, <2>5 DEF Alive
  <2>. HIDE DEF e
  <2>. QED  BY <2>1, <2>6, <2>7 DEF MarkBootable, Alive
<1>. QED  BY <1>1, <1>2 DEF SlotOps

\* set_bootloader_message_block writes over the metadata what it made of its copy.
LEMMA WriteAbAInv ==
    ASSUME NEW p \in Procs, IInv, AInv, WriteAb(p) PROVE AInv'
<1>1. op[p] \in Ops /\ op[p].type \in SlotOps /\ seenAb[p] \in AbData /\ pc[p] # "idle" /\ Avb
  BY DEF IInv, WriteAb, OnAb
<1>2. ab' = NewAb(op[p], seenAb[p]) \/ ab' = ab  BY DEF WriteAb
<1>3. running' = running  BY DEF WriteAb
<1>4. seenAb[p].valid => MarkBootable(seenAb[p]) /\ Alive(seenAb[p])  BY <1>1 DEF AInv
<1>5. pc' \in [Procs -> Pcs]
      /\ \A q \in Procs : pc'[q] # "idle" => pc[q] # "idle" /\ seenAb'[q] = seenAb[q]
  <2>1. Return(p)  BY DEF WriteAb
  <2>. QED  BY <2>1 DEF Return, IInv, AInv, Pcs
<1>6. CASE ab' = ab  BY <1>3, <1>5, <1>6, SameAInv
<1>7. CASE ab' = NewAb(op[p], seenAb[p])
  <2>1. ab'.valid => MarkBootable(ab') /\ Alive(ab')  BY <1>1, <1>4, <1>7, NewAbAlive
  <2>. QED  BY <1>1, <1>5, <2>1 DEF AInv, MarkBootable, Alive
<1>. QED  BY <1>2, <1>6, <1>7

\* The bootloader starts a slot that can be booted and gives up none with a mark.
LEMMA BootAInv == ASSUME IInv, AInv, Boot PROVE AInv'
<1>. DEFINE d == IF Avb /\ ab.valid THEN GiveUp(ab) ELSE ab
<1>1. pc' \in [Procs -> Pcs] /\ \A p \in Procs : pc'[p] = "idle"  BY DEF Boot, Pcs
<1>2. CASE ~ab.valid
  <2>1. ab' = ab  BY <1>2 DEF Boot
  <2>. QED  BY <1>1, <1>2, <2>1 DEF AInv
<1>3. CASE ab.valid
  <2>1. Avb /\ d = GiveUp(ab) /\ MarkBootable(ab)  BY <1>3 DEF AInv
  <2>2. ab.slots \in [Slots -> SlotData] /\ d.valid
    BY <1>3, <2>1 DEF IInv, Good, AbData, GiveUp
  <2>3. d.slots = [s \in Slots |-> IF ~ab.slots[s].success /\ ab.slots[s].tries = 0
                      THEN [ab.slots[s] EXCEPT !.priority = 0] ELSE ab.slots[s]]
    BY <2>1 DEF GiveUp, IInv, Good, AbData
  <2>4. \A s \in Slots : d.slots[s].success => d.slots[s].priority > 0
    <3>1. \A s \in Slots : ab.slots[s] \in SlotData  BY <2>2
    <3>. QED  BY <2>1, <2>3, <3>1 DEF MarkBootable, SlotData
  <2>5. d \in AbData  BY <2>1, GiveUpGood DEF IInv, Good
  <2>6. CASE BootSlot(d) = {} /\ ab' = d /\ running' = NoSlot
    BY <1>1, <2>1, <2>4, <2>6 DEF AInv, MarkBootable
  <2>7. CASE \E s \in BootSlot(d) : ab' = UseTry(d, s)
    <3>1. PICK s \in BootSlot(d) : ab' = UseTry(d, s)  BY <2>7
    <3>2. s \in Slots /\ d.slots[s].priority > 0
      BY <2>1, <2>2, <3>1 DEF BootSlot, Bootable
    <3>. HIDE DEF d
    <3>3. \A t \in Slots : /\ ab'.slots[t].priority = d.slots[t].priority
                           /\ ab'.slots[t].success = d.slots[t].success
      <4>1. d.slots \in [Slots -> SlotData]  BY <2>5 DEF AbData
      <4>. QED  BY <2>5, <3>1, <3>2, <4>1 DEF UseTry, AbData, SlotData
    <3>. QED  BY <1>1, <2>1, <2>4, <3>2, <3>3 DEF AInv, MarkBootable, Alive
  <2>. QED  BY <1>3, <2>1, <2>6, <2>7 DEF Boot
<1>. QED  BY <1>2, <1>3

\* Every step keeps the way back: one case per action.
LEMMA NextAInv == IInv /\ AInv /\ [Next]_vars => AInv'
<1>. SUFFICES ASSUME IInv, AInv, [Next]_vars PROVE AInv'  OBVIOUS
<1>1. CASE Boot  BY <1>1, BootAInv
<1>2. CASE UNCHANGED vars
  BY <1>2, SameAInv DEF vars, miscVars, procVars, AInv
<1>3. ASSUME NEW p \in Procs, \E o \in Ops : Read(p, o) PROVE AInv'
  BY <1>3, ReadAInv
<1>4. ASSUME NEW p \in Procs, NEW s \in Slots, set_active_slot(p, s) PROVE AInv'
  BY <1>3, <1>4, NoOpType DEF set_active_slot
<1>5. ASSUME NEW p \in Procs, NEW u \in Urls, set_recovery_otapath(p, u) PROVE AInv'
  BY <1>3, <1>5, NoOpType DEF set_recovery_otapath
<1>6. ASSUME NEW p \in Procs,
             \/ set_successful_boot(p) \/ clean_recovery_otapath(p)
             \/ set_recovery(p) \/ clear_recovery(p)
      PROVE  AInv'
  <2>1. \E t \in SlotOps \cup MsgOps : Read(p, [NoOp EXCEPT !.type = t])
    BY <1>6 DEF set_successful_boot, clean_recovery_otapath, set_recovery,
                clear_recovery, SlotOps, MsgOps
  <2>. QED  BY <1>3, <2>1, NoOpType
<1>7. ASSUME NEW p \in Procs, nand_erase(p) \/ WriteMsg(p) PROVE AInv'
  <2>1. UNCHANGED <<ab, running>>  BY <1>7 DEF nand_erase, WriteMsg
  <2>2. pc' \in [Procs -> Pcs]
        /\ \A q \in Procs : pc'[q] # "idle" => pc[q] # "idle" /\ seenAb'[q] = seenAb[q]
    <3>1. CASE Return(p)  BY <3>1 DEF Return, IInv, AInv, Pcs
    <3>2. CASE pc[p] = "erase" /\ pc' = [pc EXCEPT ![p] = "write"] /\ UNCHANGED seenAb
      BY <3>2 DEF AInv, Pcs
    <3>. QED  BY <1>7, <3>1, <3>2 DEF nand_erase, WriteMsg
  <2>. QED  BY <2>1, <2>2, SameAInv
<1>8. ASSUME NEW p \in Procs, WriteAb(p) PROVE AInv'
  BY <1>8, WriteAbAInv
<1>. QED  BY <1>1, <1>2, <1>4, <1>5, <1>6, <1>7, <1>8 DEF Next

\* A slot that carries the success mark can be booted, for any number of processes that
\* write their copies over one another, any restarts and any bounds of the priorities: the
\* slot an update replaces stays the one to fall back on until it is asked to be replaced.
THEOREM FallbackStays == Spec => []FallbackBootable
<1>1. AInv => FallbackBootable  BY DEF AInv, FallbackBootable
<1>. QED  BY <1>1, InitIInv, NextIInv, InitAInv, NextAInv, PTL DEF Spec

-----------------------------------------------------------------------------
(* Types.                                                                  *)

\* The messages a factory, an erase and a call leave on the partition.
LEMMA MessageTypes == ZeroMsg \in Message /\ ErasedMsg \in Message
<1>1. 0 \in Slots  BY SlotsAssumption
<1>. QED  BY <1>1 DEF ZeroMsg, ErasedMsg, Message

\* The fields of an operation.
LEMMA OpFields ==
    ASSUME NEW o \in Ops
    PROVE  /\ o.url \in Urls /\ o.url # "junk" /\ o.slot \in Slots /\ o.slot # 255
           /\ \/ o.type = "set_recovery_otapath" \/ o.type = "clean_recovery_otapath"
              \/ o.type = "set_recovery" \/ o.type = "clear_recovery"
              \/ o.type = "set_active_slot" \/ o.type = "set_successful_boot"
<1>1. o.url \in Urls /\ o.slot \in Slots /\ o.type \in SlotOps \cup MsgOps  BY DEF Ops
<1>2. o.url # "junk"  BY <1>1, ValuesAssumption
<1>3. o.slot # 255  BY <1>1, SlotsAssumption
<1>. QED  BY <1>1, <1>2, <1>3 DEF SlotOps, MsgOps

\* What a call does to the command and to the path.
CommandOf(o, c) ==
    IF o.type \in {"set_recovery_otapath", "set_recovery"} THEN "boot-recovery"
    ELSE IF o.type \in {"clean_recovery_otapath", "clear_recovery"} THEN "" ELSE c
PathOf(o, r) ==
    IF o.type = "set_recovery_otapath" THEN o.url
    ELSE IF o.type = "clean_recovery_otapath" THEN "" ELSE r
SlotOf(o, s) == IF o.type = "set_active_slot" THEN o.slot ELSE s

\* The message a call writes, field by field.
LEMMA NewMsgFields ==
    ASSUME NEW o \in Ops, NEW m \in Message, o.type # "set_successful_boot"
    PROVE  /\ NewMsg(o, m) \in Message
           /\ NewMsg(o, m).command = CommandOf(o, m.command)
           /\ NewMsg(o, m).recovery = PathOf(o, m.recovery)
           /\ NewMsg(o, m).active = SlotOf(o, m.active)
<1>. DEFINE Actives == Slots \cup {255}
            Msgs == [command : {"", "boot-recovery", "junk"},
                     recovery : Urls \cup {"", "junk"}, active : Actives]
<1>a. Message = Msgs  BY DEF Message
<1>b. o.slot \in Actives  BY OpFields
<1>. HIDE DEF Actives
<1>. USE <1>a, <1>b, OpFields DEF CommandOf, PathOf, SlotOf
<1>1. CASE o.type = "set_recovery_otapath"
  <2>1. NewMsg(o, m) = [m EXCEPT !.command = "boot-recovery", !.recovery = o.url]
    BY <1>1 DEF NewMsg
  <2>. QED  BY ZenonT(60), <1>1, <2>1
<1>2. CASE o.type = "clean_recovery_otapath"
  <2>1. NewMsg(o, m) = [m EXCEPT !.command = "", !.recovery = ""]  BY <1>2 DEF NewMsg
  <2>. QED  BY ZenonT(60), <1>2, <2>1
<1>3. CASE o.type = "set_recovery"
  <2>1. NewMsg(o, m) = [m EXCEPT !.command = "boot-recovery"]  BY <1>3 DEF NewMsg
  <2>. QED  BY ZenonT(60), <1>3, <2>1
<1>4. CASE o.type = "clear_recovery"
  <2>1. NewMsg(o, m) = [m EXCEPT !.command = ""]  BY <1>4 DEF NewMsg
  <2>. QED  BY ZenonT(60), <1>4, <2>1
<1>5. CASE o.type = "set_active_slot"
  <2>1. NewMsg(o, m) = [m EXCEPT !.active = o.slot]  BY <1>5 DEF NewMsg
  <2>. QED  BY ZenonT(60), <1>5, <2>1
<1>. QED  BY <1>1, <1>2, <1>3, <1>4, <1>5

\* What the calls asked for, and the effect of one more call on it.
Wants == [command : {"", "boot-recovery"}, recovery : Urls \cup {""}, slot : Slots]

\* What each request writes into the message.
LEMMA RequestedFields ==
    ASSUME NEW o \in Ops, NEW w \in Wants
    PROVE  /\ Requested(o, w) \in Wants
           /\ Requested(o, w).command = CommandOf(o, w.command)
           /\ Requested(o, w).recovery = PathOf(o, w.recovery)
           /\ Requested(o, w).slot = SlotOf(o, w.slot)
<1>. USE OpFields DEF Wants, CommandOf, PathOf, SlotOf
<1>1. CASE o.type = "set_recovery_otapath"
  <2>1. Requested(o, w) = [w EXCEPT !.command = "boot-recovery", !.recovery = o.url]
    BY <1>1 DEF Requested
  <2>. QED  BY ZenonT(60), <1>1, <2>1
<1>2. CASE o.type = "clean_recovery_otapath"
  <2>1. Requested(o, w) = [w EXCEPT !.command = "", !.recovery = ""]
    BY <1>2 DEF Requested
  <2>. QED  BY ZenonT(60), <1>2, <2>1
<1>3. CASE o.type = "set_recovery"
  <2>1. Requested(o, w) = [w EXCEPT !.command = "boot-recovery"]  BY <1>3 DEF Requested
  <2>. QED  BY ZenonT(60), <1>3, <2>1
<1>4. CASE o.type = "clear_recovery"
  <2>1. Requested(o, w) = [w EXCEPT !.command = ""]  BY <1>4 DEF Requested
  <2>. QED  BY ZenonT(60), <1>4, <2>1
<1>5. CASE o.type = "set_active_slot"
  <2>1. Requested(o, w) = [w EXCEPT !.slot = o.slot]  BY <1>5 DEF Requested
  <2>. QED  BY ZenonT(60), <1>5, <2>1
<1>6. CASE o.type = "set_successful_boot"
  <2>1. Requested(o, w) = w  BY <1>6 DEF Requested
  <2>. QED  BY <1>6, <2>1
<1>. QED  BY <1>1, <1>2, <1>3, <1>4, <1>5, <1>6

\* With BOOTCTOL_AVB, the active slot is one of the two.
LEMMA ActiveType == ASSUME Avb, NEW m, NEW d PROVE ActiveSlot(m, d) \in Slots
  BY SlotsAssumption DEF ActiveSlot, TopSlot

\* set_successful_boot writes metadata, never the message, and only NAND is erased.
Marks ==
    \A p \in Procs : /\ pc[p] # "idle" /\ op[p].type = "set_successful_boot" => Avb
                     /\ pc[p] = "erase" => IsMtd

TInv == TypeOK /\ Marks

\* The factory content has its type.
LEMMA InitTInv == Init => TInv
<1>. SUFFICES ASSUME Init PROVE TInv  OBVIOUS
<1>1. IInv  BY InitIInv
<1>2. 0 \in Slots  BY SlotsAssumption
<1>3. ActiveSlot(msg, ab) \in Slots
  BY <1>2, ActiveType DEF Init, ZeroMsg, ActiveSlot
<1>4. want \in Wants  BY <1>3 DEF Init, Wants
<1>5. seenMsg \in [Procs -> Message] /\ msg \in Message
  BY MessageTypes DEF Init
<1>6. pc \in [Procs -> Pcs] /\ running \in Slots \cup {NoSlot} /\ booted \subseteq Slots
      /\ lost \in BOOLEAN /\ torn \in BOOLEAN /\ ops \in Nat /\ faults \in Nat /\ crashes \in Nat
  BY <1>2 DEF Init, Pcs
<1>7. TypeOK  BY <1>1, <1>4, <1>5, <1>6 DEF TypeOK, IInv, Good, Wants
<1>8. Marks  BY DEF Init, Marks
<1>. QED  BY <1>7, <1>8 DEF TInv

\* A call that is over.
LEMMA ReturnTypes ==
    ASSUME NEW p \in Procs, TInv, Return(p)
    PROVE  pc' \in [Procs -> Pcs] /\ seenMsg' \in [Procs -> Message] /\ Marks'
<1>1. pc' \in [Procs -> Pcs] /\ seenMsg' \in [Procs -> Message]
  BY MessageTypes DEF TInv, TypeOK, Return, Pcs
<1>2. ASSUME NEW q \in Procs
      PROVE  pc'[q] # "idle" => pc'[q] = pc[q] /\ op'[q] = op[q]
  BY DEF TInv, TypeOK, Return
<1>3. Marks'  BY <1>2 DEF TInv, Marks
<1>. QED  BY <1>1, <1>3

\* Reading the misc partition changes no field.
LEMMA ReadTInv ==
    ASSUME NEW p \in Procs, NEW o \in Ops, TInv, IInv', Read(p, o) PROVE TInv'
<1>1. pc' \in [Procs -> Pcs] /\ seenMsg' \in [Procs -> Message]
  BY DEF TInv, TypeOK, Read, Pcs
<1>2. TypeOK'
  <2>1. UNCHANGED <<msg, ab, running, want, booted, lost, torn, faults, crashes>>
    BY DEF Read, miscVars, histVars
  <2>3. ops' \in Nat
    <3>1. ops' = ops + 1  BY DEF Read
    <3>2. ops \in Nat  BY DEF TInv, TypeOK
    <3>. QED  BY <3>1, <3>2
  <2>2. op' \in [Procs -> Ops] /\ seenAb' \in [Procs -> AbData]  BY DEF IInv
  <2>. QED  BY <1>1, <2>1, <2>2, <2>3 DEF TInv, TypeOK
<1>3. ASSUME NEW q \in Procs, pc'[q] # "idle", op'[q].type = "set_successful_boot" PROVE Avb
  BY <1>3 DEF TInv, TypeOK, Read, Marks, NothingToDo
<1>4. ASSUME NEW q \in Procs, pc'[q] = "erase" PROVE IsMtd
  BY <1>4 DEF TInv, TypeOK, Read, Marks
<1>5. Marks'  BY <1>3, <1>4 DEF Marks
<1>. QED  BY <1>2, <1>5 DEF TInv

\* Erasing the misc partition keeps the types.
LEMMA EraseTInv ==
    ASSUME NEW p \in Procs, TInv, IInv', nand_erase(p) PROVE TInv'
<1>1. CASE Return(p)
  <2>1. pc' \in [Procs -> Pcs] /\ seenMsg' \in [Procs -> Message]  BY <1>1, ReturnTypes
  <2>2. op' \in [Procs -> Ops] /\ seenAb' \in [Procs -> AbData]  BY DEF IInv
  <2>3. msg' \in Message  BY MessageTypes DEF TInv, TypeOK, nand_erase
  <2>4. UNCHANGED <<ab, running, want, booted, ops, crashes>>  BY DEF nand_erase
  <2>5. faults' \in Nat
    <3>1. faults' = faults \/ faults' = faults + 1  BY Zenon DEF nand_erase, Fault
    <3>2. faults \in Nat  BY DEF TInv, TypeOK
    <3>. QED  BY <3>1, <3>2
  <2>6. lost' \in BOOLEAN /\ torn' \in BOOLEAN
    <3>1. lost \in BOOLEAN /\ torn \in BOOLEAN  BY DEF TInv, TypeOK
    <3>. QED  BY <3>1, Zenon DEF nand_erase
  <2>7. TypeOK'  BY <2>1, <2>2, <2>3, <2>4, <2>5, <2>6 DEF TInv, TypeOK
  <2>. QED  BY <1>1, <2>7, ReturnTypes DEF TInv
<1>2. CASE /\ pc[p] = "erase" /\ pc' = [pc EXCEPT ![p] = "write"]
           /\ UNCHANGED <<op, seenMsg, seenAb, torn, faults>>
  <2>1. pc' \in [Procs -> Pcs]  BY <1>2 DEF TInv, TypeOK, Pcs
  <2>2. TypeOK'
    <3>1. lost' \in BOOLEAN
      <4>1. lost \in BOOLEAN  BY DEF TInv, TypeOK
      <4>. QED  BY <4>1, Zenon DEF nand_erase
    <3>2. msg' \in Message  BY MessageTypes DEF TInv, TypeOK, nand_erase
    <3>3. UNCHANGED <<ab, running, want, booted, ops, crashes>>  BY DEF nand_erase
    <3>. QED  BY <1>2, <2>1, <3>1, <3>2, <3>3 DEF TInv, TypeOK
  <2>3. Marks'  BY <1>2 DEF TInv, TypeOK, Marks
  <2>. QED  BY <2>2, <2>3 DEF TInv
<1>. QED  BY <1>1, <1>2 DEF nand_erase

\* Writing the message keeps the types.
LEMMA WriteMsgTInv ==
    ASSUME NEW p \in Procs, TInv, IInv', WriteMsg(p) PROVE TInv'
<1>1. op[p] \in Ops /\ seenMsg[p] \in Message /\ op[p].type # "set_successful_boot"
  BY DEF TInv, TypeOK, Marks, WriteMsg, OnAb, SlotOps
<1>2. msg' \in Message
  <2>1. msg \in Message  BY DEF TInv, TypeOK
  <2>2. msg' = msg \/ msg' = NewMsg(op[p], seenMsg[p])  BY DEF WriteMsg
  <2>. QED  BY <1>1, <2>1, <2>2, NewMsgFields
<1>3. want' \in Wants
  <2>1. want \in Wants  BY DEF TInv, TypeOK, Wants
  <2>2. want' = want \/ want' = Requested(op[p], want)  BY DEF WriteMsg
  <2>. QED  BY <1>1, <2>1, <2>2, RequestedFields
<1>4. Return(p) /\ pc' \in [Procs -> Pcs] /\ seenMsg' \in [Procs -> Message] /\ Marks'
  BY ReturnTypes DEF WriteMsg
<1>5. lost' \in BOOLEAN /\ torn' \in BOOLEAN /\ faults' \in Nat
  <2>1. lost \in BOOLEAN /\ torn \in BOOLEAN /\ IsMtd \in BOOLEAN
    BY BuildAssumption DEF TInv, TypeOK
  <2>2. lost' \in BOOLEAN /\ torn' \in BOOLEAN  BY <2>1, Zenon DEF WriteMsg
  <2>3. faults' \in Nat
    <3>1. faults' = faults \/ faults' = faults + 1  BY Zenon DEF WriteMsg, Fault
    <3>2. faults \in Nat  BY DEF TInv, TypeOK
    <3>. QED  BY <3>1, <3>2
  <2>. QED  BY <2>2, <2>3
<1>6. TypeOK'
  BY <1>2, <1>3, <1>4, <1>5 DEF TInv, TypeOK, WriteMsg, IInv, Good, Wants
<1>. QED  BY <1>4, <1>6 DEF TInv

\* Writing the slot data keeps the types.
LEMMA WriteAbTInv ==
    ASSUME NEW p \in Procs, TInv, IInv', WriteAb(p) PROVE TInv'
<1>1. op[p] \in Ops /\ seenMsg[p] \in Message
  BY DEF TInv, TypeOK
<1>2. msg' \in Message
  BY <1>1 DEF TInv, TypeOK, WriteAb
<1>3. want' \in Wants
  <2>1. want \in Wants  BY DEF TInv, TypeOK, Wants
  <2>2. want' = want \/ want' = Requested(op[p], want)  BY DEF WriteAb
  <2>. QED  BY <1>1, <2>1, <2>2, RequestedFields
<1>4. Return(p) /\ pc' \in [Procs -> Pcs] /\ seenMsg' \in [Procs -> Message] /\ Marks'
  BY ReturnTypes DEF WriteAb
<1>5. lost' \in BOOLEAN /\ faults' \in Nat
  <2>1. lost \in BOOLEAN  BY DEF TInv, TypeOK
  <2>2. lost' \in BOOLEAN  BY <2>1, Zenon DEF WriteAb
  <2>3. faults' \in Nat
    <3>1. faults' = faults \/ faults' = faults + 1  BY Zenon DEF WriteAb, Fault
    <3>2. faults \in Nat  BY DEF TInv, TypeOK
    <3>. QED  BY <3>1, <3>2
  <2>. QED  BY <2>2, <2>3
<1>6. TypeOK'
  BY <1>2, <1>3, <1>4, <1>5 DEF TInv, TypeOK, WriteAb, IInv, Good, Wants
<1>. QED  BY <1>4, <1>6 DEF TInv

\* The bootloader keeps the types.
LEMMA BootTInv == ASSUME TInv, IInv', Boot PROVE TInv'
<1>1. want' \in Wants
  BY ActiveType DEF TInv, TypeOK, Boot, Wants
<1>2. running' \in Slots \cup {NoSlot} /\ booted' \subseteq Slots
  <2>1. ASSUME NEW d, NEW s \in BootSlot(d) PROVE s \in Slots
    BY <2>1, SlotsAssumption DEF BootSlot, Bootable
  <2>2. (running' = NoSlot /\ booted' = booted)
        \/ \E d : \E s \in BootSlot(d) :
              (running' = s \/ running' = NoSlot)
              /\ (booted' = booted \/ booted' = booted \cup {s})
    BY Zenon DEF Boot
  <2>3. running \in Slots \cup {NoSlot} /\ booted \subseteq Slots  BY DEF TInv, TypeOK
  <2>4. CASE running' = NoSlot /\ booted' = booted  BY <2>3, <2>4
  <2>5. CASE \E d : \E s \in BootSlot(d) :
                (running' = s \/ running' = NoSlot)
                /\ (booted' = booted \/ booted' = booted \cup {s})
    <3>1. PICK d, s : s \in BootSlot(d) /\ (running' = s \/ running' = NoSlot)
                      /\ (booted' = booted \/ booted' = booted \cup {s})
      BY <2>5, Zenon
    <3>s. s \in Slots  BY <2>1, <3>1
    <3>2. running' \in Slots \/ running' = NoSlot  BY <3>s, <3>1
    <3>3. booted' \subseteq Slots  BY <2>3, <3>s, <3>1
    <3>. QED  BY <3>2, <3>3, Zenon
  <2>. QED  BY <2>2, <2>4, <2>5
<1>3. pc' \in [Procs -> Pcs] /\ seenMsg' \in [Procs -> Message]
  BY MessageTypes DEF Boot, Pcs
<1>4. torn' \in BOOLEAN /\ crashes' \in Nat
  <2>1. torn \in BOOLEAN  BY DEF TInv, TypeOK
  <2>2. torn' \in BOOLEAN  BY <2>1, Zenon DEF Boot
  <2>3. crashes' \in Nat
    <3>1. crashes' = crashes \/ crashes' = crashes + 1  BY Zenon DEF Boot
    <3>2. crashes \in Nat  BY DEF TInv, TypeOK
    <3>. QED  BY <3>1, <3>2
  <2>. QED  BY <2>2, <2>3
<1>5. TypeOK'
  BY <1>1, <1>2, <1>3, <1>4 DEF TInv, TypeOK, Boot, IInv, Good, Wants
<1>6. Marks'  BY DEF Boot, Marks
<1>. QED  BY <1>5, <1>6 DEF TInv

\* Each library call reads, with one of the operations.
LEMMA CallReads ==
    ASSUME NEW p \in Procs,
           \/ \E s \in Slots : set_active_slot(p, s)
           \/ \E u \in Urls : set_recovery_otapath(p, u)
           \/ set_successful_boot(p) \/ clean_recovery_otapath(p)
           \/ set_recovery(p) \/ clear_recovery(p)
    PROVE  \E o \in Ops : Read(p, o)
<1>1. \A t \in SlotOps \cup MsgOps : [NoOp EXCEPT !.type = t] \in Ops  BY NoOpType
<1>2. /\ [NoOp EXCEPT !.type = "set_successful_boot"] \in Ops
      /\ [NoOp EXCEPT !.type = "clean_recovery_otapath"] \in Ops
      /\ [NoOp EXCEPT !.type = "set_recovery"] \in Ops
      /\ [NoOp EXCEPT !.type = "clear_recovery"] \in Ops
  BY <1>1 DEF SlotOps, MsgOps
<1>. HIDE DEF NoOp
<1>. QED
  BY <1>2, NoOpType DEF set_active_slot, set_recovery_otapath, set_successful_boot,
     clean_recovery_otapath, set_recovery, clear_recovery

\* Every step keeps the types: one case per action.
LEMMA NextTInv == TInv /\ IInv' /\ [Next]_vars => TInv'
<1>. SUFFICES ASSUME TInv, IInv', [Next]_vars PROVE TInv'  OBVIOUS
<1>1. CASE UNCHANGED vars
  BY <1>1 DEF TInv, TypeOK, Marks, vars, miscVars, procVars, histVars, bounds
<1>2. ASSUME NEW p \in Procs, NEW o \in Ops, Read(p, o) PROVE TInv'
  BY <1>2, ReadTInv
<1>3. ASSUME NEW p \in Procs, nand_erase(p) \/ WriteMsg(p) \/ WriteAb(p) PROVE TInv'
  BY <1>3, EraseTInv, WriteMsgTInv, WriteAbTInv
<1>. QED  BY <1>1, <1>2, <1>3, CallReads, BootTInv DEF Next

\* Every variable keeps its type: no call leaves the message or the metadata with values
\* the next reader has no meaning for.
THEOREM TypeCorrect == Spec => []TypeOK
<1>1. TInv => TypeOK  BY DEF TInv
<1>. QED  BY <1>1, InitIInv, NextIInv, InitTInv, NextTInv, PTL DEF Spec

-----------------------------------------------------------------------------
(* What the calls asked for is on the partition.                           *)

Agrees(m, d, w) ==
    m.command = w.command /\ m.recovery = w.recovery /\ ActiveSlot(m, d) = w.slot

Writing(p) == pc[p] = "write"

\* On NAND: nobody is between erase and write; or one call is, and its copy is what was
\* asked for; or more calls were, and then one of them finds, when it writes, that the
\* partition is no longer erased.
Untouched == (\A p \in Procs : ~Writing(p)) /\ Agrees(msg, ab, want)
Held == \E p \in Procs : /\ Writing(p) /\ \A q \in Procs \ {p} : ~Writing(q)
                         /\ msg = ErasedMsg /\ Agrees(seenMsg[p], ab, want)
Overtaken == (\E p \in Procs : Writing(p)) /\ msg # ErasedMsg
Crowded == \E p \in Procs : \E q \in Procs \ {p} : Writing(p) /\ Writing(q) /\ msg = ErasedMsg

KInv ==
    ~lost /\ ~torn =>
        IF IsMtd THEN Untouched \/ Held \/ Overtaken \/ Crowded ELSE Agrees(msg, ab, want)

\* Writing the message on top of a copy that agrees.
LEMMA NewMsgAgrees ==
    ASSUME NEW o \in Ops, NEW m \in Message, NEW w \in Wants, NEW d,
           o.type # "set_successful_boot", Avb => o.type # "set_active_slot",
           Agrees(m, d, w)
    PROVE  Agrees(NewMsg(o, m), d, Requested(o, w))
<1>1. \A n : ActiveSlot(n, d) = IF Avb THEN TopSlot(d, 1) ELSE n.active  BY DEF ActiveSlot
<1>2. NewMsg(o, m).command = Requested(o, w).command
      /\ NewMsg(o, m).recovery = Requested(o, w).recovery
  BY NewMsgFields, RequestedFields DEF Agrees
<1>3. CASE Avb
  <2>1. Requested(o, w).slot = w.slot  BY <1>3, RequestedFields DEF SlotOf
  <2>. QED  BY <1>1, <1>2, <1>3, <2>1 DEF Agrees
<1>4. CASE ~Avb
  <2>1. NewMsg(o, m).active = Requested(o, w).slot
    BY <1>1, <1>4, NewMsgFields, RequestedFields DEF Agrees, SlotOf
  <2>. QED  BY <1>1, <1>2, <1>4, <2>1 DEF Agrees
<1>. QED  BY <1>3, <1>4

\* A call writes a message that does not look erased: its command is known, or its slot is.
LEMMA NewMsgNotErased ==
    ASSUME NEW o \in Ops, NEW m \in Message, o.type # "set_successful_boot"
    PROVE  NewMsg(o, m) # ErasedMsg
<1>1. ErasedMsg.command = "junk" /\ ErasedMsg.active = 255  BY DEF ErasedMsg
<1>2. NewMsg(o, m).command # "junk" \/ NewMsg(o, m).active # 255
  <2>1. NewMsg(o, m).command = CommandOf(o, m.command)
        /\ NewMsg(o, m).active = SlotOf(o, m.active)
    BY NewMsgFields
  <2>2. CASE o.type = "set_active_slot"
    <3>1. NewMsg(o, m).active = o.slot  BY <2>1, <2>2 DEF SlotOf
    <3>. QED  BY <3>1, OpFields
  <2>3. CASE o.type # "set_active_slot"
    <3>1. CommandOf(o, m.command) \in {"", "boot-recovery"}
      BY <2>3, OpFields DEF CommandOf
    <3>. QED  BY <2>1, <3>1
  <2>. QED  BY <2>2, <2>3
<1>. QED  BY <1>1, <1>2

\* Nothing has been asked for at first.
LEMMA InitKInv == Init => KInv
<1>. SUFFICES ASSUME Init PROVE Untouched
  BY DEF KInv, Untouched
<1>. QED  BY DEF Init, Untouched, Writing, Agrees, ZeroMsg

\* A read moves nobody to or from the write.
LEMMA ReadKInv ==
    ASSUME NEW p \in Procs, NEW o \in Ops, TInv, KInv, Read(p, o) PROVE KInv'
<1>1. UNCHANGED <<msg, ab, want, lost, torn>>  BY DEF Read, miscVars, histVars
<1>2. CASE IsMtd
  <2>1. \A q \in Procs : Writing(q)' = Writing(q)
    BY <1>2 DEF TInv, TypeOK, Read, Writing
  <2>2. \A q \in Procs : Writing(q) => seenMsg'[q] = seenMsg[q]
    BY DEF TInv, TypeOK, Read, Writing
  <2>. QED
    BY <1>1, <1>2, <2>1, <2>2 DEF KInv, Untouched, Held, Overtaken, Crowded, Agrees,
       ActiveSlot
<1>3. CASE ~IsMtd  BY <1>1, <1>3 DEF KInv, Agrees, ActiveSlot
<1>. QED  BY <1>2, <1>3

\* An erase over a copy that is not stale adds a writer.
LEMMA EraseKInv ==
    ASSUME NEW p \in Procs, TInv, KInv, nand_erase(p), ~lost', ~torn', IsMtd PROVE KInv'
<1>1. UNCHANGED <<ab, want>> /\ ~Writing(p)  BY DEF nand_erase, Writing
<1>2. ~lost /\ ~torn  BY DEF TInv, TypeOK, nand_erase
<1>3. CASE pc' = [pc EXCEPT ![p] = "write"] /\ seenMsg' = seenMsg /\ msg' = ErasedMsg
           /\ msg = seenMsg[p]
  <2>1. Writing(p)' /\ \A q \in Procs \ {p} : Writing(q)' = Writing(q)
    BY <1>3 DEF TInv, TypeOK, Writing
  <2>2. CASE \A q \in Procs \ {p} : ~Writing(q)
    <3>1. Agrees(msg, ab, want)
      BY <1>1, <1>2, <2>2 DEF KInv, Untouched, Held, Overtaken, Crowded
    <3>2. Held'
      BY <1>1, <1>3, <2>1, <2>2, <3>1 DEF Held, Agrees, ActiveSlot
    <3>. QED  BY <3>2 DEF KInv
  <2>3. CASE \E q \in Procs \ {p} : Writing(q)
    <3>1. Crowded'  BY <1>3, <2>1, <2>3 DEF Crowded
    <3>. QED  BY <3>1 DEF KInv
  <2>. QED  BY <2>2, <2>3
<1>4. CASE Return(p) /\ UNCHANGED msg
  <2>1. \A q \in Procs : Writing(q)' = Writing(q)
    BY <1>1, <1>4 DEF TInv, TypeOK, Return, Writing
  <2>2. \A q \in Procs : Writing(q) => seenMsg'[q] = seenMsg[q]
    BY <1>1, <1>4 DEF TInv, TypeOK, Return
  <2>. QED
    BY <1>1, <1>2, <1>4, <2>1, <2>2
       DEF KInv, Untouched, Held, Overtaken, Crowded, Agrees, ActiveSlot
<1>. QED  BY <1>3, <1>4 DEF nand_erase

\* A write of the message: it finds the partition as it left it, or is noticed.
LEMMA WriteMsgKInv ==
    ASSUME NEW p \in Procs, TInv, KInv, WriteMsg(p), ~lost', ~torn' PROVE KInv'
<1>1. op[p] \in Ops /\ seenMsg[p] \in Message /\ op[p].type # "set_successful_boot"
  BY DEF TInv, TypeOK, Marks, WriteMsg, OnAb, SlotOps
<1>2. Avb => op[p].type # "set_active_slot"
  BY DEF WriteMsg, OnAb, SlotOps
<1>3. want \in Wants /\ msg \in Message  BY DEF TInv, TypeOK, Wants
<1>4. ~lost /\ ~torn /\ UNCHANGED ab /\ Writing(p) /\ Return(p)
  <2>1. UNCHANGED ab /\ Writing(p) /\ Return(p)  BY DEF WriteMsg, Writing
  <2>2. ~lost
    <3>1. lost' = lost \/ lost' = (lost \/ msg # IF IsMtd THEN ErasedMsg ELSE seenMsg[p])
      BY DEF WriteMsg
    <3>. QED  BY <3>1, Zenon
  <2>3. ~torn
    <3>1. torn' = torn \/ torn' = (torn \/ IsMtd)  BY DEF WriteMsg
    <3>. QED  BY <3>1, Zenon
  <2>. QED  BY <2>1, <2>2, <2>3
<1>5. ~Writing(p)' /\ \A q \in Procs \ {p} : Writing(q)' = Writing(q)
  BY <1>4 DEF TInv, TypeOK, Return, Writing
<1>6. CASE ~IsMtd
  <2>1. Agrees(msg, ab, want)  BY <1>4, <1>6 DEF KInv
  <2>2. CASE /\ msg' = NewMsg(op[p], seenMsg[p]) /\ want' = Requested(op[p], want)
             /\ msg = seenMsg[p]
    <3>1. Agrees(NewMsg(op[p], msg), ab, Requested(op[p], want))
      BY <1>1, <1>2, <1>3, <2>1, NewMsgAgrees
    <3>. QED  BY <1>4, <1>6, <2>2, <3>1 DEF KInv, Agrees, ActiveSlot
  <2>3. CASE UNCHANGED <<msg, want>>
    BY <1>4, <1>6, <2>1, <2>3 DEF KInv, Agrees, ActiveSlot
  <2>. QED  BY <1>6, <2>2, <2>3 DEF WriteMsg
<1>7. CASE IsMtd
  <2>1. /\ msg' = NewMsg(op[p], seenMsg[p]) /\ want' = Requested(op[p], want)
        /\ msg = ErasedMsg
    BY <1>7 DEF WriteMsg
  <2>2. msg' # ErasedMsg'
    BY <1>1, <2>1, NewMsgNotErased DEF ErasedMsg
  <2>3. CASE \E q \in Procs \ {p} : Writing(q)
    <3>1. Overtaken'  BY <1>5, <2>2, <2>3 DEF Overtaken
    <3>. QED  BY <1>7, <3>1 DEF KInv
  <2>4. CASE \A q \in Procs \ {p} : ~Writing(q)
    <3>1. Agrees(seenMsg[p], ab, want)
      BY <1>4, <1>7, <2>1, <2>4 DEF KInv, Untouched, Held, Overtaken, Crowded
    <3>2. Agrees(NewMsg(op[p], seenMsg[p]), ab, Requested(op[p], want))
      BY <1>1, <1>2, <1>3, <3>1, NewMsgAgrees
    <3>3. Untouched'
      BY <1>4, <1>5, <2>1, <2>4, <3>2 DEF Untouched, Agrees, ActiveSlot
    <3>. QED  BY <1>7, <3>3 DEF KInv
  <2>. QED  BY <2>3, <2>4
<1>. QED  BY <1>6, <1>7

\* What the slot of NewAb becomes.
LEMMA NewAbActive ==
    ASSUME NEW o \in Ops, o.type \in SlotOps, NEW d \in AbData, Good(d), Avb, NEW m, NEW w \in Wants,
           ActiveSlot(m, d) = w.slot
    PROVE  ActiveSlot(m, NewAb(o, d)) = Requested(o, w).slot
<1>. DEFINE e == NewAb(o, d)
<1>1. CASE o.type = "set_active_slot"
  <2>1. o.slot \in Slots /\ 1 - o.slot \in Slots /\ 1 - o.slot # o.slot /\ 1 \in Slots
        /\ (o.slot = 1 \/ (o.slot = 0 /\ 1 - 1 = o.slot))
    BY SlotsAssumption DEF Ops
  <2>2. Requested(o, w).slot = o.slot  BY <1>1, RequestedFields DEF SlotOf
  <2>3. PICK b \in AbData : e = boot_info_set_active_slot(b, o.slot)
    <3>1. (IF d.valid THEN d ELSE boot_info_reset) \in AbData  BY ResetGood DEF Good
    <3>. QED  BY <1>1, <3>1 DEF NewAb
  <2>4. e.slots[o.slot].priority = MaxPriority /\ e.slots[1 - o.slot].priority < MaxPriority
    <3>1. b.slots \in [Slots -> SlotData]  BY DEF AbData
    <3>. DEFINE other == [b.slots[1 - o.slot] EXCEPT !.priority =
                             IF @ = MaxPriority THEN MaxPriority - 1 ELSE @]
    <3>2. e.slots = [[b.slots EXCEPT ![o.slot] = Fresh(MaxPriority)] EXCEPT ![1 - o.slot] = other]
      BY <2>1, <2>3, <3>1 DEF boot_info_set_active_slot, AbData
    <3>3. other.priority < MaxPriority
      BY SMTT(60), <2>1, <3>1, Limits DEF SlotData
    <3>. QED  BY <2>1, <3>1, <3>2, <3>3 DEF Fresh
  <2>5. TopSlot(e, 1) = o.slot
    <3>1. e.slots[1 - o.slot].priority \in Nat
      BY <1>1, <2>1, NewAbGood, Limits DEF Good, AbData, SlotData
    <3>. HIDE DEF e
    <3>2. CASE o.slot = 1  BY <2>4, <3>1, <3>2, Limits DEF TopSlot
    <3>3. CASE o.slot = 0  BY <2>4, <3>1, <3>3, Limits DEF TopSlot
    <3>. QED  BY <2>1, <3>2, <3>3
  <2>. QED  BY <2>2, <2>5 DEF ActiveSlot
<1>2. CASE o.type = "set_successful_boot"
  <2>. DEFINE t == TopSlot(d, 0)
  <2>1. e = [d EXCEPT !.slots[t].success = TRUE]  BY <1>2 DEF NewAb
  <2>2. t \in Slots  BY SlotsAssumption DEF TopSlot
  <2>3. d.slots \in [Slots -> SlotData]  BY DEF AbData
  <2>. HIDE DEF t
  <2>4. \A s \in Slots : e.slots[s].priority = d.slots[s].priority
    BY <2>1, <2>2, <2>3 DEF AbData, SlotData
  <2>. HIDE DEF e
  <2>5. TopSlot(e, 1) = TopSlot(d, 1)  BY <2>4, SlotsAssumption DEF TopSlot
  <2>6. Requested(o, w).slot = w.slot  BY <1>2, RequestedFields DEF SlotOf
  <2>. QED  BY <2>5, <2>6 DEF ActiveSlot, e
<1>. QED  BY <1>1, <1>2 DEF SlotOps

\* A write of the metadata puts the message it read back.
LEMMA WriteAbKInv ==
    ASSUME NEW p \in Procs, TInv, IInv, KInv, WriteAb(p), ~lost', ~torn' PROVE KInv'
<1>1. op[p] \in Ops /\ op[p].type \in SlotOps /\ Avb /\ ~IsMtd
  BY BuildAssumption DEF TInv, TypeOK, WriteAb, OnAb
<1>2. want \in Wants /\ ab \in AbData /\ Good(ab)  BY DEF TInv, TypeOK, Wants, IInv
<1>3. ~lost /\ ~torn
  <2>1. ~torn  BY DEF WriteAb
  <2>2. lost' = lost \/ lost' = (lost \/ msg # seenMsg[p] \/ ab # seenAb[p])
    BY DEF WriteAb
  <2>3. CASE lost' = lost  BY <2>1, <2>3
  <2>4. CASE lost' = (lost \/ (msg # seenMsg[p] \/ ab # seenAb[p]))  BY <2>1, <2>4, Zenon
  <2>. QED  BY <2>2, <2>3, <2>4
<1>4. Agrees(msg, ab, want)  BY <1>1, <1>3 DEF KInv
<1>5. CASE /\ ab' = NewAb(op[p], seenAb[p]) /\ want' = Requested(op[p], want)
           /\ msg' = msg /\ ab = seenAb[p]
  <2>1. ActiveSlot(msg, NewAb(op[p], ab)) = Requested(op[p], want).slot
    BY <1>1, <1>2, <1>4, NewAbActive DEF Agrees
  <2>2. /\ Requested(op[p], want).command = want.command
        /\ Requested(op[p], want).recovery = want.recovery
    BY <1>1, <1>2, RequestedFields DEF CommandOf, PathOf, SlotOps
  <2>. QED  BY <1>1, <1>4, <1>5, <2>1, <2>2 DEF KInv, Agrees, ActiveSlot
<1>6. CASE UNCHANGED <<ab, msg, want>>
  BY <1>1, <1>4, <1>6 DEF KInv, Agrees, ActiveSlot
<1>. QED  BY <1>5, <1>6 DEF WriteAb

\* A restart abandons every call; with one between erase and write, that shows.
LEMMA BootKInv == ASSUME TInv, KInv, Boot, ~lost', ~torn' PROVE KInv'
<1>1. UNCHANGED msg /\ ~lost /\ ~torn /\ (IsMtd => \A p \in Procs : ~Writing(p))
  BY DEF Boot, Writing
<1>2. Agrees(msg, ab, want)
  BY <1>1 DEF KInv, Untouched, Held, Overtaken, Crowded
<1>3. CASE Avb
  <2>1. want' = [want EXCEPT !.slot = ActiveSlot(msg, ab')] /\ want \in Wants
    BY <1>3 DEF Boot, TInv, TypeOK, Wants
  <2>2. /\ want'.command = want.command /\ want'.recovery = want.recovery
        /\ want'.slot = ActiveSlot(msg, ab')
    BY <2>1 DEF Wants
  <2>3. ~IsMtd  BY <1>3, BuildAssumption
  <2>. QED  BY <1>1, <1>2, <2>2, <2>3 DEF KInv, Agrees, ActiveSlot
<1>4. CASE ~Avb
  <2>1. want' = want  BY <1>4 DEF Boot
  <2>2. Agrees(msg', ab', want')  BY <1>1, <1>2, <1>4, <2>1 DEF Agrees, ActiveSlot
  <2>3. \A p \in Procs : ~Writing(p)'  BY DEF Boot, Writing
  <2>. QED  BY <2>2, <2>3 DEF KInv, Untouched, Agrees, ActiveSlot
<1>. QED  BY <1>3, <1>4

\* Every step keeps what was asked for: one case per action.
LEMMA NextKInv == TInv /\ IInv /\ KInv /\ [Next]_vars => KInv'
<1>. SUFFICES ASSUME TInv, IInv, KInv, [Next]_vars, ~lost', ~torn' PROVE KInv'
  BY DEF KInv
<1>1. CASE UNCHANGED vars
  BY <1>1 DEF KInv, Untouched, Held, Overtaken, Crowded, Writing, Agrees, ActiveSlot,
     vars, miscVars, procVars, histVars
<1>2. ASSUME NEW p \in Procs, nand_erase(p) PROVE KInv'
  <2>1. IsMtd  BY <1>2 DEF TInv, Marks, nand_erase
  <2>. QED  BY <1>2, <2>1, EraseKInv
<1>3. ASSUME NEW p \in Procs, NEW o \in Ops, Read(p, o) PROVE KInv'
  BY <1>3, ReadKInv
<1>4. ASSUME NEW p \in Procs, WriteMsg(p) \/ WriteAb(p) PROVE KInv'
  BY <1>4, WriteMsgKInv, WriteAbKInv
<1>. QED  BY <1>1, <1>2, <1>3, <1>4, CallReads, BootKInv DEF Next

\* Unless a call wrote over a change it had not read, or an erased partition was left
\* alone, the partition holds the recovery command, the path and the slot that all the
\* calls that returned 0 asked for, wherever the calls of any number of processes and the
\* restarts come in between.
THEOREM RequestsKept == Spec => []RequestKept
<1>1. TInv /\ KInv => RequestKept
  BY BuildAssumption DEF TInv, TypeOK, KInv, Untouched, Held, Overtaken, Crowded, Writing,
     Agrees, RequestKept
<1>. QED  BY <1>1, InitIInv, NextIInv, InitTInv, NextTInv, InitKInv, NextKInv, PTL DEF Spec

-----------------------------------------------------------------------------
(* Success marks.                                                          *)

\* The bootloader takes no mark away.
LEMMA BootKeepsMarks ==
    ASSUME IInv, Boot, NEW s \in Slots, ab.slots[s].success PROVE ab'.slots[s].success
<1>. DEFINE d == IF Avb /\ ab.valid THEN GiveUp(ab) ELSE ab
            New(t) == IF ~ab.slots[t].success /\ ab.slots[t].tries = 0
                        THEN [ab.slots[t] EXCEPT !.priority = 0] ELSE ab.slots[t]
<1>1. ab \in AbData /\ Good(ab)  BY DEF IInv, Good
<1>2. ab.slots \in [Slots -> SlotData]  BY <1>1 DEF AbData
<1>3. d \in AbData  BY <1>1, GiveUpGood DEF Good
<1>4. d.slots[s].success
  <2>1. CASE d = ab  BY <2>1
  <2>2. CASE d = GiveUp(ab)
    <3>1. d.slots = [t \in Slots |-> New(t)]  BY <1>1, <1>2, <2>2 DEF GiveUp, AbData
    <3>. HIDE DEF d
    <3>2. d.slots[s] = ab.slots[s]  BY <3>1
    <3>. QED  BY <3>2
  <2>. QED  BY <2>1, <2>2
<1>5. ab' = d \/ \E t : ab' = UseTry(d, t)
  BY Zenon DEF Boot
<1>. HIDE DEF d
<1>6. ASSUME NEW t PROVE UseTry(d, t).slots[s].success
  <2>1. d.slots \in [Slots -> SlotData]  BY <1>3 DEF AbData
  <2>2. CASE d.slots[t].success  BY <1>4, <2>2 DEF UseTry
  <2>3. CASE ~d.slots[t].success
    <3>1. t # s  BY <1>4, <2>3
    <3>2. UseTry(d, t).slots[s] = d.slots[s]  BY <1>3, <2>1, <2>3, <3>1 DEF UseTry, AbData
    <3>. QED  BY <1>4, <3>2
  <2>. QED  BY <2>2, <2>3
<1>. QED  BY <1>4, <1>5, <1>6

\* A call takes a mark away from the slot it activates, and from both when it resets.
LEMMA CallKeepsMarks ==
    ASSUME NEW o \in Ops, o.type \in SlotOps, NEW d \in AbData, NEW s \in Slots,
           d.slots[s].success, ~NewAb(o, d).slots[s].success
    PROVE  o.type = "set_active_slot" /\ (o.slot = s \/ ~d.valid)
<1>. DEFINE e == NewAb(o, d)
<1>1. d.slots \in [Slots -> SlotData]  BY DEF AbData
<1>2. CASE o.type = "set_successful_boot"
  <2>. DEFINE t == TopSlot(d, 0)
  <2>1. e = [d EXCEPT !.slots[t].success = TRUE]  BY <1>2 DEF NewAb
  <2>2. t \in Slots  BY SlotsAssumption DEF TopSlot
  <2>. HIDE DEF t
  <2>3. e.slots[s].success  BY <1>1, <2>1, <2>2 DEF AbData, SlotData
  <2>. QED  BY <2>3
<1>3. CASE o.type = "set_active_slot"
  <2>1. SUFFICES ASSUME d.valid, o.slot # s PROVE FALSE  BY <1>3
  <2>2. e = boot_info_set_active_slot(d, o.slot)  BY <1>3, <2>1 DEF NewAb
  <2>3. o.slot \in Slots /\ s = 1 - o.slot  BY <2>1, SlotsAssumption DEF Ops
  <2>. DEFINE other == [d.slots[s] EXCEPT !.priority =
                           IF @ = MaxPriority THEN MaxPriority - 1 ELSE @]
  <2>4. e.slots = [[d.slots EXCEPT ![o.slot] = Fresh(MaxPriority)] EXCEPT ![s] = other]
    BY <1>1, <2>2, <2>3 DEF boot_info_set_active_slot, AbData
  <2>5. other.success = d.slots[s].success  BY <1>1 DEF SlotData
  <2>. HIDE DEF e, other
  <2>6. e.slots[s] = other  BY <1>1, <2>4
  <2>. QED  BY <2>5, <2>6 DEF e
<1>. QED  BY <1>2, <1>3 DEF SlotOps

\* A slot that was found to work stays marked, whatever calls and restarts interleave,
\* until it is activated again, its invalid metadata is reset, or an update is lost.
THEOREM MarksKept == Spec => MarkKept
<1>. DEFINE Step == \A s \in Slots : ab.slots[s].success /\ ~ab'.slots[s].success =>
               \/ lost'
               \/ \E p \in Procs : /\ pc[p] = "write" /\ op[p].type = "set_active_slot"
                                   /\ op[p].slot = s \/ ~seenAb[p].valid
<1>1. ASSUME IInv, TInv, [Next]_vars PROVE [Step]_vars
  <2>1. SUFFICES ASSUME Next, NEW s \in Slots, ab.slots[s].success, ~ab'.slots[s].success,
                        ~lost'
                 PROVE  \E p \in Procs : /\ pc[p] = "write" /\ op[p].type = "set_active_slot"
                                         /\ op[p].slot = s \/ ~seenAb[p].valid
    BY <1>1
  <2>2. ~Boot  BY <1>1, <2>1, BootKeepsMarks
  <2>3. ASSUME NEW p \in Procs, (\E o \in Ops : Read(p, o)) \/ nand_erase(p) \/ WriteMsg(p)
        PROVE  FALSE
    <3>1. ab' = ab  BY <2>3 DEF Read, nand_erase, WriteMsg, miscVars
    <3>. QED  BY <2>1, <3>1
  <2>4. PICK p \in Procs : WriteAb(p)  BY <2>1, <2>2, <2>3, CallReads DEF Next
  <2>5. pc[p] = "write" /\ op[p] \in Ops /\ op[p].type \in SlotOps /\ seenAb[p] \in AbData
    BY <1>1, <2>4 DEF IInv, WriteAb, OnAb
  <2>6. ab' # ab  BY <2>1
  <2>7. ab' = NewAb(op[p], seenAb[p]) /\ ab = seenAb[p]
    <3>1. /\ ab' = NewAb(op[p], seenAb[p])
          /\ lost' = (lost \/ (msg # seenMsg[p] \/ ab # seenAb[p]))
      BY <2>4, <2>6 DEF WriteAb
    <3>. QED  BY <2>1, <3>1, Zenon
  <2>8. op[p].type = "set_active_slot" /\ (op[p].slot = s \/ ~seenAb[p].valid)
    BY <2>1, <2>5, <2>7, CallKeepsMarks
  <2>. QED  BY <2>5, <2>8
<1>2. Spec => [](IInv /\ TInv)
  BY InitIInv, NextIInv, InitTInv, NextTInv, PTL DEF Spec
<1>3. IInv /\ TInv /\ [Next]_vars => [Step]_vars  BY <1>1
<1>. QED  BY <1>2, <1>3, PTL DEF Spec, MarkKept

=============================================================================
