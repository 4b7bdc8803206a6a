---------------------------- MODULE TxQueueProofs -----------------------------
(***************************************************************************)
(* Theorems about TxQueue for every ring size, every kind of packets, and  *)
(* every threshold and bound.  The parts of the inductive invariant are    *)
(* kept each by itself, once the types, and the ring, are known to be.     *)
(***************************************************************************)
EXTENDS TxQueue, FiniteSetTheorems, TLAPS

-----------------------------------------------------------------------------
(***************************************************************************)
(* The inductive invariant                                                 *)
(***************************************************************************)
\* The types, with used, poll.missed and timer.new as numbers without a bound.
RingTypes ==
    /\ free_ids \in [Slots -> Ids] /\ next_to_use \in Slots /\ next_to_clean \in Slots
    /\ tx_info \in [Ids -> [descs : 0..(MaxBufs + 1), sent : 0..3, timed_out : BOOLEAN]]
    /\ used \in Int /\ used <= RingSize - 1 /\ pending \in Int
FlagTypes ==
    /\ stopped \in BOOLEAN /\ trigger_reset \in BOOLEAN /\ more \in BOOLEAN /\ SCHED \in BOOLEAN
    /\ xpc \in {"idle", "check", "recheck", "ring"}
    /\ npc \in {"idle", "clean", "ack", "wake", "lock", "end"}
PollTypes ==
    /\ poll \in [next_to_clean : Slots, pkts : 0..TxBudget, done : Nat, missed : Nat]
    /\ poll.missed <= poll.pkts
TimerTypes ==
    /\ timer \in [pc : {"idle", "look", "judge", "compare", "napi", "cq"}, left : SUBSET Ids,
                 slot : Ids \cup {NoSlot}, seen : 0..3, new : Nat, first : BOOLEAN]
    /\ timer.pc = "judge" => timer.slot \in Ids
DevTypes ==
    /\ unannounced \subseteq Ids /\ inDevice \subseteq Ids /\ cq \in Seq(Ids)
    /\ misreports \in 0..MaxMisreports
Types == RingTypes /\ FlagTypes /\ PollTypes /\ TimerTypes /\ DevTypes

\* The ring: position k of the free ids holds an id without a packet, and every
\* such id is at one position.
FreeCount == RingSize - Cardinality(InFlight)
At(k) == (next_to_use + k) % RingSize
IdRing ==
    /\ \A k \in 0..(FreeCount - 1) : free_ids[At(k)] \notin InFlight
    /\ \A id \in Ids \ InFlight : \E k \in 0..(FreeCount - 1) : free_ids[At(k)] = id
    /\ \A j, k \in 0..(FreeCount - 1) : free_ids[At(j)] = free_ids[At(k)] => j = k
    /\ At(FreeCount) = IF Cleaning THEN poll.next_to_clean ELSE next_to_clean

\* Room: what a sender past its checks relies on.
Room == xpc \in {"idle", "ring"} /\ ~stopped => HaveEnoughSpace(MaxBufs + 1)

\* Who may read the completion queue.
Readers ==
    /\ npc # "idle" => SCHED
    /\ timer.pc \in {"napi", "cq"} => trigger_reset
    /\ timer.pc = "cq" => npc # "clean"

\* The count of timed out packets is never below what it counts.
TimedOut == {id \in InFlight : tx_info[id].timed_out}
Count ==
    /\ timer.pc = "judge" => timer.slot \notin timer.left
    /\ timer.pc \notin {"look", "judge"} => timer.new = 0
    /\ timer.new + Cardinality(timer.left) + (IF timer.pc = "judge" THEN 1 ELSE 0) <= RingSize
    /\ timer.pc # "idle" \/ ~trigger_reset =>
          pending + timer.new >= Cardinality(TimedOut) + (IF Cleaning THEN poll.missed ELSE 0)

\* A packet is in one place on its way: not announced, with the device, completed.
OnTheWay ==
    /\ unannounced \cup inDevice \cup {cq[k] : k \in DOMAIN cq} \subseteq InFlight
    /\ unannounced \cap inDevice = {}
    /\ \A k \in DOMAIN cq : cq[k] \notin unannounced \cup inDevice
    /\ \A j, k \in DOMAIN cq : cq[j] = cq[k] => j = k

IInv == Types /\ IdRing /\ EntriesAccounted /\ Room /\ Readers /\ Count
        /\ (misreports = 0 => OnTheWay) /\ NothingHeldBack

-----------------------------------------------------------------------------
(***************************************************************************)
(* The constants and the arithmetic of the ring                            *)
(***************************************************************************)
\* A ring has room for a packet of any size and more.
LEMMA SizeType ==
    /\ RingSize \in Nat /\ MaxBufs \in Nat \ {0}
    /\ MaxBufs <= SglSize /\ MaxBufs <= MaxSkbFrags + 1
    /\ RingSize > MaxBufs + 1 /\ TxBudget \in Nat /\ 0 \in Slots
<1>1. RingSize \in Nat
  BY FS_CardinalityType, IdsAssumption DEF RingSize
<1>3. MaxBufs \in Nat \ {0} /\ MaxBufs <= SglSize /\ MaxBufs <= MaxSkbFrags + 1
  <2>1. CASE SglSize <= MaxSkbFrags + 1
    <3>1. Min({SglSize, MaxSkbFrags + 1}) = SglSize
      BY <2>1, SglAssumption DEF Min
    <3> QED
      BY <2>1, <3>1, SglAssumption DEF MaxBufs
  <2>2. CASE ~(SglSize <= MaxSkbFrags + 1)
    <3>1. Min({SglSize, MaxSkbFrags + 1}) = MaxSkbFrags + 1
      BY <2>2, SglAssumption DEF Min
    <3> QED
      BY <2>2, <3>1, SglAssumption DEF MaxBufs
  <2> QED
    BY <2>1, <2>2
<1>5. TxBudget \in Nat
  BY <1>1 DEF TxBudget
<1> QED
  BY <1>1, <1>3, <1>5, RingAssumption DEF Slots

\* A position of the ring, counted from next_to_use.
LEMMA AtIs ==
    ASSUME next_to_use \in Slots, NEW k \in 0..RingSize
    PROVE  At(k) = IF next_to_use + k < RingSize THEN next_to_use + k
                   ELSE next_to_use + k - RingSize
<1>1. RingSize \in Nat
  BY SizeType
<1> QED
  BY <1>1 DEF At, Slots

\* The entry after an entry of the ring is the next one, or the first.
LEMMA FollowingIs ==
    \A i \in Slots : /\ Following(i) \in Slots
                     /\ Following(i) = IF i + 1 = RingSize THEN 0 ELSE i + 1
  BY SizeType DEF Following, Slots

\* The ids with a packet are a finite set, and so are the late ones.
LEMMA Finite ==
    /\ IsFiniteSet(InFlight) /\ Cardinality(InFlight) \in 0..RingSize
    /\ IsFiniteSet(TimedOut) /\ Cardinality(TimedOut) \in Nat
    /\ FreeCount \in 0..RingSize
<1>1. InFlight \in SUBSET Ids /\ TimedOut \in SUBSET Ids
  BY DEF InFlight, TimedOut
<1>2. IsFiniteSet(InFlight) /\ Cardinality(InFlight) <= RingSize
  BY <1>1, FS_Subset, IdsAssumption DEF RingSize
<1>3. IsFiniteSet(TimedOut)
  BY <1>1, FS_Subset, IdsAssumption
<1>4. Cardinality(InFlight) \in Nat /\ Cardinality(TimedOut) \in Nat
  BY <1>2, <1>3, FS_CardinalityType
<1> QED
  BY <1>2, <1>3, <1>4, SizeType DEF FreeCount
-----------------------------------------------------------------------------
(***************************************************************************)
(* The types                                                               *)
(***************************************************************************)
\* A queue just set up has its types.
LEMMA TypesInit == Init => Types
<1> SUFFICES ASSUME Init PROVE Types
  OBVIOUS
<1> USE SizeType DEF Init
<1>1. RingTypes
  BY DEF RingTypes, FreshIds, Bijection, Injection, EmptySlot
<1>2. FlagTypes
  BY DEF FlagTypes
<1>3. PollTypes
  BY DEF PollTypes, NoPoll
<1>4. TimerTypes
  BY DEF TimerTypes, NoTimer, NoSlot
<1>5. DevTypes
  BY ThresholdAssumption DEF DevTypes
<1> QED
  BY <1>1, <1>2, <1>3, <1>4, <1>5 DEF Types

\* Variables that do not change keep their types.
LEMMA TypesFrame ==
    /\ RingTypes /\ UNCHANGED <<ringVars, pending>> => RingTypes'
    /\ FlagTypes /\ UNCHANGED <<xmitVars, trigger_reset, npc, SCHED>> => FlagTypes'
    /\ PollTypes /\ UNCHANGED poll => PollTypes'
    /\ TimerTypes /\ UNCHANGED timer => TimerTypes'
    /\ DevTypes /\ UNCHANGED devVars => DevTypes'
  BY DEF RingTypes, FlagTypes, PollTypes, TimerTypes, DevTypes, ringVars, xmitVars, devVars

\* The timer's verdict on a packet, as a new state of its scan: counted, to be
\* gone through again, or passed.
Looks == [timer EXCEPT !.pc = "look", !.seen = 0, !.slot = NoSlot]
LookType == [pc : {"look"}, left : SUBSET Ids, slot : {NoSlot}, seen : {0}, new : Nat,
             first : BOOLEAN]
LEMMA JudgesAs ==
    ASSUME Types, TimerJudges
    PROVE  /\ timer.pc = "judge" /\ timer.slot \in Ids /\ timer' \in LookType
           /\ Looks \in LookType /\ Looks.left = timer.left /\ Looks.new = timer.new
           /\ \/ /\ tx_info' = [tx_info EXCEPT ![timer.slot].timed_out = TRUE]
                 /\ timer'.left = timer.left /\ timer'.new = timer.new + 1
              \/ /\ UNCHANGED tx_info
                 /\ timer'.left = timer.left \cup {timer.slot} /\ timer'.new = timer.new
              \/ /\ UNCHANGED tx_info
                 /\ timer'.left = timer.left /\ timer'.new = timer.new
<1> DEFINE id == timer.slot
<1>1. timer.pc = "judge" /\ id \in Ids /\ Looks \in LookType /\ Looks.left = timer.left
      /\ Looks.new = timer.new /\ timer.left \in SUBSET Ids /\ timer.new \in Nat
  BY DEF TimerJudges, Types, TimerTypes, Looks, LookType
<1>2. \/ tx_info' = [tx_info EXCEPT ![id].timed_out = TRUE]
         /\ timer' = [Looks EXCEPT !.new = @ + 1]
      \/ tx_info' = tx_info /\ timer' = [Looks EXCEPT !.first = TRUE, !.left = @ \cup {id}]
      \/ tx_info' = tx_info /\ timer' = Looks
  BY DEF TimerJudges, Looks
<1> HIDE DEF id
<1>3. Looks.left \cup {id} \in SUBSET Ids /\ Looks.new + 1 \in Nat
  BY <1>1
<1>4. /\ [Looks EXCEPT !.new = @ + 1] \in LookType
      /\ [Looks EXCEPT !.new = @ + 1].left = Looks.left
      /\ [Looks EXCEPT !.new = @ + 1].new = Looks.new + 1
  BY <1>1, <1>3 DEF LookType
<1> DEFINE again == [Looks EXCEPT !.first = TRUE]
<1>5. again \in LookType /\ again.left = Looks.left /\ again.new = Looks.new
  BY <1>1 DEF LookType
<1>6. [again EXCEPT !.left = @ \cup {id}] = [Looks EXCEPT !.first = TRUE, !.left = @ \cup {id}]
  OBVIOUS
<1> HIDE DEF again
<1>7. /\ [again EXCEPT !.left = @ \cup {id}] \in LookType
      /\ [again EXCEPT !.left = @ \cup {id}].left = Looks.left \cup {id}
      /\ [again EXCEPT !.left = @ \cup {id}].new = Looks.new
  BY <1>1, <1>3, <1>5 DEF LookType
<1> QED
  BY <1>1, <1>2, <1>4, <1>6, <1>7 DEF id

\* A slot that is emptied stays a slot.
LEMMA EmptiedType ==
    ASSUME NEW Descs, NEW Ages, NEW Flags, 0 \in Descs, 0 \in Ages,
           NEW slot \in [descs : Descs, sent : Ages, timed_out : Flags]
    PROVE  [slot EXCEPT !.descs = 0, !.sent = 0] \in [descs : Descs, sent : Ages, timed_out : Flags]
  OBVIOUS

\* Every step keeps the types.
LEMMA TypesStep == Types /\ [Next]_vars => Types'
<1> SUFFICES ASSUME Types, [Next]_vars PROVE Types'
  OBVIOUS
<1>0. 0 \in 0..(MaxBufs + 1) /\ 0 \in 0..3
  BY SizeType
<1> USE SizeType, FollowingIs DEF Types
<1>1. ASSUME NEW p \in Packets, Drop(p) PROVE Types'
  <2>1. FlagTypes'
    BY <1>1, PacketsAssumption DEF Drop, RingsAfterDrop, Announce, KeepBack, FlagTypes,
       xmitVars, napiVars
  <2>2. DevTypes'
    BY <1>1 DEF Drop, RingsAfterDrop, Announce, KeepBack, DevTypes
  <2> QED
    BY <1>1, <2>1, <2>2, TypesFrame DEF Drop, ringVars, xmitVars, napiVars, devVars
<1>2. ASSUME NEW p \in Packets, Place(p) PROVE Types'
  <2>1. RingTypes'
    BY <1>2, PacketsAssumption DEF Place, HaveEnoughSpace, SlotOf, RingTypes
  <2>2. FlagTypes'
    BY <1>2, PacketsAssumption DEF Place, HaveEnoughSpace, SlotOf, FlagTypes, xmitVars,
       napiVars
  <2>3. DevTypes'
    BY <1>2, PacketsAssumption DEF Place, HaveEnoughSpace, SlotOf, DevTypes, RingTypes
  <2> QED
    BY <1>2, <2>1, <2>2, <2>3, TypesFrame DEF Place, ringVars, xmitVars, napiVars, devVars
<1>3. ASSUME StopIfFull PROVE Types'
  <2>1. FlagTypes'
    BY <1>3 DEF StopIfFull, FlagTypes, xmitVars, napiVars
  <2> QED
    BY <1>3, <2>1, TypesFrame DEF StopIfFull, ringVars, xmitVars, napiVars, devVars
<1>4. ASSUME Recheck PROVE Types'
  <2>1. FlagTypes'
    BY <1>4 DEF Recheck, FlagTypes, xmitVars, napiVars
  <2> QED
    BY <1>4, <2>1, TypesFrame DEF Recheck, ringVars, xmitVars, napiVars, devVars
<1>5. ASSUME Ring PROVE Types'
  <2>1. FlagTypes'
    BY <1>5 DEF Ring, RingsNow, Announce, KeepBack, FlagTypes, xmitVars, napiVars
  <2>2. DevTypes'
    BY <1>5 DEF Ring, RingsNow, Announce, KeepBack, DevTypes
  <2> QED
    BY <1>5, <2>1, <2>2, TypesFrame DEF Ring, ringVars, xmitVars, napiVars, devVars
<1>6. ASSUME Schedule PROVE Types'
  <2>1. FlagTypes'
    BY <1>6 DEF Schedule, FlagTypes, xmitVars, napiVars
  <2> QED
    BY <1>6, <2>1, TypesFrame DEF Schedule, ringVars, xmitVars, napiVars, devVars
<1>7. ASSUME StartPoll PROVE Types'
  <2>1. FlagTypes'
    BY <1>7 DEF StartPoll, MayPoll, CompleteDone, NoPoll, FlagTypes, xmitVars, napiVars
  <2>2. PollTypes'
    <3>1. poll' = poll
          \/ poll' = [next_to_clean |-> next_to_clean, pkts |-> 0, done |-> 0, missed |-> 0]
      BY <1>7 DEF StartPoll, MayPoll, NoPoll
    <3> QED
      BY <3>1 DEF PollTypes, RingTypes
  <2> QED
    BY <1>7, <2>1, <2>2, TypesFrame DEF StartPoll, ringVars, xmitVars, napiVars, devVars
<1>8. ASSUME Clean PROVE Types'
  <2> DEFINE id == Head(cq)
  <2>0. id \in Ids /\ Tail(cq) \in Seq(Ids)
    BY <1>8 DEF Clean, DevTypes
  <2>1. RingTypes'
    <3> DEFINE Slot == [descs : 0..(MaxBufs + 1), sent : 0..3, timed_out : BOOLEAN]
    <3>1. [tx_info[id] EXCEPT !.descs = 0, !.sent = 0] \in Slot
      BY <1>0, <2>0, EmptiedType DEF RingTypes
    <3>2. tx_info' = [tx_info EXCEPT ![id] = [tx_info[id] EXCEPT !.descs = 0, !.sent = 0]]
      BY <1>8, <2>0 DEF Clean, RingTypes
    <3>3. tx_info' \in [Ids -> Slot]
      BY <2>0, <3>1, <3>2 DEF RingTypes
    <3> QED
      BY <1>8, <2>0, <3>3 DEF Clean, RingTypes, PollTypes
  <2>2. PollTypes'
    <3>1. /\ poll.pkts \in 0..TxBudget /\ poll.pkts < TxBudget /\ poll.missed \in Nat
          /\ poll.missed <= poll.pkts /\ poll.done \in Nat /\ NextClean \in Slots
      BY <1>8 DEF Clean, PollTypes, NextClean
    <3>2. Acked(id) \in Nat
      BY <2>0 DEF Acked, RingTypes
    <3> DEFINE one == IF tx_info[id].timed_out THEN 1 ELSE 0
    <3>3. one \in 0..1
      OBVIOUS
    <3>4. poll' = [next_to_clean |-> NextClean, pkts |-> poll.pkts + 1,
                   done |-> poll.done + Acked(id), missed |-> poll.missed + one]
      BY <1>8 DEF Clean
    <3> HIDE DEF one, id
    <3> QED
      BY <3>1, <3>2, <3>3, <3>4 DEF PollTypes
  <2>3. DevTypes'
    BY <1>8, <2>0 DEF Clean, DevTypes
  <2> QED
    BY <1>8, <2>1, <2>2, <2>3, TypesFrame DEF Clean, ringVars, xmitVars, napiVars, devVars
<1>9. ASSUME CleanInvalid PROVE Types'
  <2>1. FlagTypes'
    BY <1>9 DEF CleanInvalid, FlagTypes, xmitVars, napiVars
  <2>2. DevTypes'
    BY <1>9 DEF CleanInvalid, DevTypes
  <2> QED
    BY <1>9, <2>1, <2>2, TypesFrame DEF CleanInvalid, ringVars, xmitVars, napiVars, devVars
<1>10. ASSUME CleanDone PROVE Types'
  <2>1. FlagTypes'
    BY <1>10 DEF CleanDone, FlagTypes, xmitVars, napiVars
  <2> QED
    BY <1>10, <2>1, TypesFrame DEF CleanDone, ringVars, xmitVars, napiVars, devVars
<1>11. ASSUME Ack PROVE Types'
  <2>1. RingTypes'
    BY <1>11 DEF Ack, RingTypes, PollTypes
  <2>2. FlagTypes'
    BY <1>11 DEF Ack, FlagTypes, xmitVars, napiVars
  <2> QED
    BY <1>11, <2>1, <2>2, TypesFrame DEF Ack, ringVars, xmitVars, napiVars, devVars
<1>12. ASSUME LookForWake PROVE Types'
  <2>1. FlagTypes'
    BY <1>12 DEF LookForWake, FlagTypes, xmitVars, napiVars
  <2> QED
    BY <1>12, <2>1, TypesFrame DEF LookForWake, ringVars, xmitVars, napiVars, devVars
<1>13. ASSUME Wake PROVE Types'
  <2>1. FlagTypes'
    BY <1>13 DEF Wake, FlagTypes, xmitVars, napiVars
  <2> QED
    BY <1>13, <2>1, TypesFrame DEF Wake, ringVars, xmitVars, napiVars, devVars
<1>14. ASSUME NEW rxDone \in BOOLEAN, EndPoll(rxDone) PROVE Types'
  <2>1. FlagTypes'
    BY <1>14 DEF EndPoll, CompleteDone, NoPoll, FlagTypes, xmitVars, napiVars
  <2>2. PollTypes'
    BY <1>14 DEF EndPoll, CompleteDone, NoPoll, PollTypes
  <2> QED
    BY <1>14, <2>1, <2>2, TypesFrame DEF EndPoll, ringVars, xmitVars, napiVars, devVars
<1>15. ASSUME TimerStart PROVE Types'
  <2>1. TimerTypes'
    <3>1. timer' = [pc |-> "look", left |-> Ids, slot |-> NoSlot, seen |-> 0, new |-> 0,
                    first |-> FALSE]
      BY <1>15 DEF TimerStart, NoTimer
    <3> QED
      BY <3>1 DEF TimerTypes
  <2> QED
    BY <1>15, <2>1, TypesFrame DEF TimerStart, ringVars, xmitVars, napiVars, devVars,
       timerUnchanged
<1>16. ASSUME NEW id \in Ids, TimerLooks(id) PROVE Types'
  <2>1. TimerTypes'
    BY <1>16 DEF TimerLooks, Remaining, TimerTypes, RingTypes, timerUnchanged
  <2> QED
    BY <1>16, <2>1, TypesFrame DEF TimerLooks, ringVars, xmitVars, napiVars, devVars,
       timerUnchanged
<1>17. ASSUME TimerJudges PROVE Types'
  <2> DEFINE id == timer.slot
  <2>0. id \in Ids /\ timer' \in LookType
    BY <1>17, JudgesAs
  <2>1. RingTypes'
    <3> DEFINE Slot == [descs : 0..(MaxBufs + 1), sent : 0..3, timed_out : BOOLEAN]
               timedOut == [tx_info[id] EXCEPT !.timed_out = TRUE]
    <3>1. timedOut \in Slot
      <4>1. tx_info[id] \in Slot
        BY <2>0 DEF RingTypes
      <4> HIDE DEF id
      <4> QED
        BY <4>1
    <3>2. tx_info' \in {tx_info, [tx_info EXCEPT ![id] = timedOut]}
      BY <1>17, JudgesAs
    <3> HIDE DEF id, timedOut
    <3> QED
      BY <1>17, <2>0, <3>1, <3>2 DEF TimerJudges, RingTypes
  <2>2. TimerTypes'
    BY <2>0 DEF TimerTypes, LookType
  <2> QED
    BY <1>17, <2>1, <2>2, TypesFrame DEF TimerJudges, ringVars, xmitVars, napiVars, devVars,
       timerUnchanged
<1>18. ASSUME TimerAdds PROVE Types'
  <2>1. RingTypes'
    <3>1. timer.new \in Nat
      BY DEF TimerTypes
    <3> QED
      BY <1>18, <3>1 DEF TimerAdds, RingTypes, timerUnchanged, ringVars
  <2>2. FlagTypes'
    BY <1>18 DEF TimerAdds, NoTimer, NoSlot, FlagTypes, timerUnchanged, xmitVars, napiVars
  <2>3. TimerTypes'
    <3>1. timer' = [pc |-> IF timer.first THEN "napi" ELSE "compare", left |-> {},
                    slot |-> NoSlot, seen |-> 0, new |-> 0, first |-> FALSE]
      BY <1>18 DEF TimerAdds, NoTimer
    <3> QED
      BY <3>1 DEF TimerTypes
  <2> QED
    BY <1>18, <2>1, <2>2, <2>3, TypesFrame DEF TimerAdds, ringVars, xmitVars, napiVars,
       devVars, timerUnchanged
<1>19. ASSUME TimerCompares PROVE Types'
  <2>1. FlagTypes'
    BY <1>19 DEF TimerCompares, AboveThreshold, FlagTypes, timerUnchanged, xmitVars, napiVars
  <2>2. TimerTypes'
    BY <1>19 DEF TimerCompares, AboveThreshold, TimerTypes, timerUnchanged
  <2> QED
    BY <1>19, <2>1, <2>2, TypesFrame DEF TimerCompares, ringVars, xmitVars, napiVars,
       devVars, timerUnchanged
<1>20. ASSUME TimerChecksNapi PROVE Types'
  <2>1. TimerTypes'
    BY <1>20 DEF TimerChecksNapi, TimerTypes, timerUnchanged
  <2> QED
    BY <1>20, <2>1, TypesFrame DEF TimerChecksNapi, ringVars, xmitVars, napiVars, devVars,
       timerUnchanged
<1>21. ASSUME TimerTakesCompletions PROVE Types'
  <2> DEFINE late == {k \in DOMAIN cq : tx_info[cq[k]].timed_out}
  <2>1. RingTypes'
    <3>1. DOMAIN cq = 1..Len(cq) /\ Len(cq) \in Nat
      BY DEF DevTypes
    <3>2. IsFiniteSet(1..Len(cq))
      BY <3>1, FS_Interval
    <3>3. late \in SUBSET (1..Len(cq))
      BY <3>1
    <3>4. Cardinality(late) \in Nat
      BY <3>2, <3>3, FS_Subset, FS_CardinalityType
    <3>5. pending' = pending - Cardinality(late)
      BY <1>21 DEF TimerTakesCompletions
    <3> HIDE DEF late
    <3> QED
      BY <1>21, <3>4, <3>5 DEF TimerTakesCompletions, RingTypes, ringVars
  <2>2. TimerTypes'
    BY <1>21 DEF TimerTakesCompletions, NoTimer, TimerTypes
  <2>3. DevTypes'
    BY <1>21 DEF TimerTakesCompletions, NoTimer, NoSlot, DevTypes, timerUnchanged
  <2> QED
    BY <1>21, <2>1, <2>2, <2>3, TypesFrame DEF TimerTakesCompletions, ringVars, xmitVars,
       napiVars, devVars, timerUnchanged
<1>22. ASSUME NEW id \in Ids, DeviceCompletes(id) PROVE Types'
  <2>1. DevTypes'
    BY <1>22 DEF DeviceCompletes, DevTypes
  <2> QED
    BY <1>22, <2>1, TypesFrame DEF DeviceCompletes, ringVars, xmitVars, napiVars, devVars
<1>23. ASSUME NEW id \in Ids, DeviceMisreports(id) PROVE Types'
  <2>1. DevTypes'
    BY <1>23, ThresholdAssumption DEF DeviceMisreports, DevTypes
  <2> QED
    BY <1>23, <2>1, TypesFrame DEF DeviceMisreports, ringVars, xmitVars, napiVars, devVars
<1>24. ASSUME Tick PROVE Types'
  <2>1. RingTypes'
    BY <1>24 DEF Tick, RingTypes
  <2> QED
    BY <1>24, <2>1, TypesFrame DEF Tick, ringVars, xmitVars, napiVars, devVars
<1>25. ASSUME Recreate PROVE Types'
  <2>1. RingTypes'
    BY <1>25 DEF Recreate, FreshIds, EmptySlot, RingTypes, Bijection, Injection
  <2>2. FlagTypes'
    BY <1>25 DEF Recreate, FreshIds, EmptySlot, FlagTypes, xmitVars, napiVars
  <2>3. DevTypes'
    BY <1>25 DEF Recreate, FreshIds, EmptySlot, DevTypes
  <2> QED
    BY <1>25, <2>1, <2>2, <2>3, TypesFrame DEF Recreate, ringVars, xmitVars, napiVars, devVars
<1>26. CASE UNCHANGED vars
  BY <1>26, TypesFrame DEF vars, ringVars, xmitVars, napiVars, devVars
<1> QED
  BY <1>1, <1>2, <1>3, <1>4, <1>5, <1>6, <1>7, <1>8, <1>9, <1>10, <1>11, <1>12, <1>13, <1>14,
     <1>15, <1>16, <1>17, <1>18, <1>19, <1>20, <1>21, <1>22, <1>23, <1>24, <1>25,
     <1>26 DEF Next, Xmit, Send, Poll, Timer, Device
-----------------------------------------------------------------------------
(***************************************************************************)
(* What the steps do to the slots                                          *)
(***************************************************************************)
\* Sending takes the slot of the id for the packet, which is not late yet.
LEMMA PlaceSlots ==
    ASSUME Types, NEW p \in Packets, Place(p)
    PROVE  LET id == free_ids[next_to_use] IN
           /\ id \in Ids /\ p.descs \in 1..(MaxBufs + 1)
           /\ InFlight' = InFlight \cup {id} /\ TimedOut' = TimedOut \ {id}
           /\ \A i \in Ids : tx_info'[i].descs = IF i = id THEN p.descs ELSE tx_info[i].descs
<1> DEFINE id == free_ids[next_to_use]
<1>1. id \in Ids /\ tx_info' = [tx_info EXCEPT ![id] = SlotOf(id, p.descs)]
  BY DEF Place, Types, RingTypes
<1>2. p.descs \in 1..(MaxBufs + 1)
  BY PacketsAssumption, SizeType
<1>3. \A i \in Ids : tx_info'[i] = IF i = id THEN SlotOf(id, p.descs) ELSE tx_info[i]
  BY <1>1 DEF Types, RingTypes
<1>4. SlotOf(id, p.descs).descs = p.descs /\ SlotOf(id, p.descs).timed_out = FALSE
  BY DEF SlotOf
<1>5. \A i \in Ids : tx_info'[i].descs = IF i = id THEN p.descs ELSE tx_info[i].descs
  BY <1>3, <1>4
<1>9. ~tx_info'[id].timed_out
  BY <1>1, <1>3, <1>4
<1>10. \A i \in Ids : i # id => tx_info'[i] = tx_info[i]
  BY <1>3
<1> HIDE DEF id
<1>6. p.descs # 0
  BY <1>2
<1>7. InFlight' = InFlight \cup {id}
  BY <1>1, <1>5, <1>6 DEF InFlight
<1>8. TimedOut' = TimedOut \ {id}
  <2>1. \A i : i \in TimedOut' <=> i \in InFlight' /\ tx_info'[i].timed_out
    BY DEF TimedOut
  <2>2. \A i : i \in TimedOut <=> i \in InFlight /\ tx_info[i].timed_out
    BY DEF TimedOut
  <2>3. InFlight \subseteq Ids
    BY DEF InFlight
  <2>4. \A i : i \in TimedOut' <=> i \in TimedOut \ {id}
    BY <1>7, <1>9, <1>10, <2>1, <2>2, <2>3
  <2> QED
    BY <2>4
<1> QED
  BY <1>1, <1>2, <1>5, <1>7, <1>8 DEF id

\* Cleaning empties the slot and leaves whether its packet was late.
LEMMA CleanSlots ==
    ASSUME Types, Clean
    PROVE  LET id == Head(cq) IN
           /\ id \in InFlight /\ Tail(cq) \in Seq(Ids)
           /\ InFlight' = InFlight \ {id} /\ TimedOut' = TimedOut \ {id}
           /\ \A i \in Ids : tx_info'[i].descs = IF i = id THEN 0 ELSE tx_info[i].descs
<1> DEFINE id == Head(cq)
<1>1. id \in Ids /\ Tail(cq) \in Seq(Ids) /\ tx_info[id].descs # 0
  BY DEF Clean, Types, DevTypes
<1>2. \A i \in Ids : /\ tx_info'[i].descs = IF i = id THEN 0 ELSE tx_info[i].descs
                     /\ tx_info'[i].timed_out = tx_info[i].timed_out
  BY <1>1 DEF Clean, Types, RingTypes
<1> HIDE DEF id
<1>3. id \in InFlight
  BY <1>1 DEF InFlight
<1>4. InFlight' = InFlight \ {id}
  BY <1>1, <1>2 DEF InFlight
<1>5. TimedOut' = TimedOut \ {id}
  <2>1. \A i \in Ids : i \in TimedOut' <=> i \in TimedOut /\ i # id
    BY <1>2 DEF TimedOut, InFlight
  <2> QED
    BY <2>1 DEF TimedOut, InFlight
<1> QED
  BY <1>1, <1>2, <1>3, <1>4, <1>5 DEF id

\* The clock and the timer leave the descriptors; the timer takes one packet more
\* for late.
LEMMA AgeSlots ==
    ASSUME Types, Tick \/ TimerJudges
    PROVE  /\ InFlight' = InFlight
           /\ \A i \in Ids : tx_info'[i].descs = tx_info[i].descs
           /\ Tick => TimedOut' = TimedOut
           /\ TimerJudges => TimedOut' \in SUBSET (TimedOut \cup {timer.slot})
           /\ TimerJudges /\ UNCHANGED tx_info => TimedOut' = TimedOut
<1>1. CASE Tick
  <2>1. \A i \in Ids : tx_info'[i] = [tx_info[i] EXCEPT !.sent = IF @ \in 1..2 THEN @ + 1 ELSE @]
    BY <1>1 DEF Tick
  <2>2. \A i \in Ids : /\ tx_info'[i].descs = tx_info[i].descs
                       /\ tx_info'[i].timed_out = tx_info[i].timed_out
    <3> SUFFICES ASSUME NEW i \in Ids
                 PROVE  /\ tx_info'[i].descs = tx_info[i].descs
                        /\ tx_info'[i].timed_out = tx_info[i].timed_out
      OBVIOUS
    <3> DEFINE rec == tx_info[i]
    <3>1. rec \in [descs : 0..(MaxBufs + 1), sent : 0..3, timed_out : BOOLEAN]
      BY DEF Types, RingTypes
    <3>2. tx_info'[i] = [rec EXCEPT !.sent = IF @ \in 1..2 THEN @ + 1 ELSE @]
      BY <2>1
    <3> HIDE DEF rec
    <3>3. tx_info'[i].descs = rec.descs /\ tx_info'[i].timed_out = rec.timed_out
      BY <3>1, <3>2
    <3> QED
      BY <3>3 DEF rec
  <2>3. ~TimerJudges
    BY <1>1 DEF Tick, TimerJudges
  <2> QED
    BY <1>1, <2>2, <2>3 DEF InFlight, TimedOut
<1>2. CASE TimerJudges
  <2> DEFINE id == timer.slot
  <2>1. tx_info' \in {tx_info, [tx_info EXCEPT ![id].timed_out = TRUE]}
    BY <1>2 DEF TimerJudges
  <2>2. \A i \in Ids : /\ tx_info'[i].descs = tx_info[i].descs
                       /\ i # id => tx_info'[i].timed_out = tx_info[i].timed_out
    BY <2>1 DEF Types, RingTypes
  <2>3. ~Tick
    BY <1>2 DEF Tick, TimerJudges
  <2> QED
    BY <1>2, <2>2, <2>3 DEF InFlight, TimedOut
<1> QED
  BY <1>1, <1>2

\* Nothing else changes a slot, until the queue is set up again.
LEMMA OtherSlots ==
    [Next]_vars => \/ \E p \in Packets : Place(p)
                   \/ Clean \/ Tick \/ TimerJudges \/ Recreate
                   \/ UNCHANGED <<free_ids, next_to_use, tx_info>>
  BY DEF Next, Xmit, Send, Poll, Timer, Device, Drop, StopIfFull, Recheck, Ring, Schedule,
     StartPoll, CleanInvalid, CleanDone, Ack, LookForWake, Wake, EndPoll, TimerStart,
     TimerLooks, TimerAdds, TimerCompares, TimerChecksNapi, TimerTakesCompletions,
     DeviceCompletes, DeviceMisreports, timerUnchanged, vars, ringVars

-----------------------------------------------------------------------------
(***************************************************************************)
(* The parts that do not need the others                                   *)
(***************************************************************************)
\* Every step keeps who may read the completion queue.
LEMMA ReadersStep == Types /\ Readers /\ [Next]_vars => Readers'
<1> SUFFICES ASSUME Types, Readers, [Next]_vars PROVE Readers'
  OBVIOUS
<1>1. CASE UNCHANGED <<npc, SCHED, timer, trigger_reset>>
  BY <1>1 DEF Readers
<1>2. CASE Schedule
  BY <1>2 DEF Schedule, Readers, xmitVars
<1>3. CASE StartPoll
  BY <1>3 DEF StartPoll, MayPoll, CompleteDone, Readers
<1>4. CASE Clean \/ CleanInvalid \/ CleanDone \/ Ack \/ LookForWake \/ Wake
  BY <1>4 DEF Clean, CleanInvalid, CleanDone, Ack, LookForWake, Wake, Readers
<1>5. ASSUME NEW rxDone \in BOOLEAN, EndPoll(rxDone) PROVE Readers'
  BY <1>5 DEF EndPoll, CompleteDone, Readers
<1>6. CASE Timer
  <2>3. UNCHANGED <<npc, SCHED>>
    BY <1>6 DEF Timer, TimerStart, TimerLooks, TimerJudges, TimerAdds, TimerCompares,
       TimerChecksNapi, TimerTakesCompletions, timerUnchanged, napiVars
  <2>4. CASE TimerAdds
    <3>1. timer'.pc = IF timer.first THEN "napi" ELSE "compare"
      BY <2>4 DEF TimerAdds, NoTimer
    <3>2. timer.first => trigger_reset'
      BY <2>4 DEF TimerAdds
    <3> QED
      BY <2>3, <3>1, <3>2 DEF Readers
  <2>5. CASE TimerCompares
    <3>1. timer'.pc = IF AboveThreshold THEN "napi" ELSE "idle"
      BY <2>5 DEF TimerCompares, Types, TimerTypes
    <3>2. AboveThreshold => trigger_reset'
      BY <2>5 DEF TimerCompares
    <3> QED
      BY <2>3, <3>1, <3>2 DEF Readers
  <2>6. CASE TimerChecksNapi
    <3>1. timer.pc = "napi" /\ timer'.pc = IF SCHED THEN "idle" ELSE "cq"
      BY <2>6 DEF TimerChecksNapi, Types, TimerTypes
    <3> QED
      BY <2>3, <2>6, <3>1 DEF TimerChecksNapi, Readers
  <2>7. CASE ~(TimerAdds \/ TimerCompares \/ TimerChecksNapi)
    <3>1. timer'.pc \in {"idle", "look", "judge"}
      <4>1. CASE TimerStart \/ TimerTakesCompletions
        <5>1. NoTimer.pc = "idle" /\ [NoTimer EXCEPT !.pc = "look", !.left = Ids].pc = "look"
          BY DEF NoTimer
        <5> QED
          BY <4>1, <5>1 DEF TimerStart, TimerTakesCompletions
      <4>2. ASSUME NEW id \in Ids, TimerLooks(id) PROVE timer'.pc = "judge"
        BY <4>2 DEF TimerLooks, Types, TimerTypes
      <4>3. CASE TimerJudges
        BY <4>3, JudgesAs DEF LookType
      <4> QED
        BY <1>6, <2>7, <4>1, <4>2, <4>3 DEF Timer
    <3> QED
      BY <2>3, <3>1 DEF Readers
  <2> QED
    BY <2>4, <2>5, <2>6, <2>7
<1>7. CASE Recreate
  BY <1>7 DEF Recreate, Readers
<1> QED
  BY <1>1, <1>2, <1>3, <1>4, <1>5, <1>6, <1>7 DEF Next, Xmit, Send, Drop, Place, StopIfFull,
     Recheck, Ring, Poll, Device, DeviceCompletes, DeviceMisreports, Tick, napiVars, vars

\* Every step keeps the room of a queue that is not stopped.
LEMMA RoomStep == Types /\ Room /\ [Next]_vars => Room'
<1> SUFFICES ASSUME Types, Room, [Next]_vars PROVE Room'
  OBVIOUS
<1>0. /\ RingSize \in Nat /\ MaxBufs \in Nat /\ MaxBufs <= SglSize /\ MaxBufs <= MaxSkbFrags + 1
      /\ RingSize > MaxBufs + 1 /\ SglSize \in Nat /\ MaxSkbFrags \in Nat
      /\ used \in Int /\ poll.done \in Nat
  BY SizeType, SglAssumption DEF Types, RingTypes, PollTypes
<1>1. CASE UNCHANGED <<xpc, stopped, used>>
  BY <1>1 DEF Room, HaveEnoughSpace
<1>2. ASSUME NEW p \in Packets, Place(p) PROVE Room'
  BY <1>2 DEF Place, Room
<1>3. CASE StopIfFull
  BY <1>0, <1>3 DEF StopIfFull, Room, HaveEnoughSpace, StopSpace, ringVars
<1>4. CASE Recheck
  <2>1. UNCHANGED used /\ (~stopped' => HaveEnoughSpace(WakeupThresh))
    BY <1>4 DEF Recheck, ringVars
  <2> QED
    BY <1>0, <2>1 DEF Room, HaveEnoughSpace, WakeupThresh
<1>5. CASE Ring
  BY <1>5 DEF Ring, Room, HaveEnoughSpace, ringVars
<1>6. CASE Ack
  BY <1>0, <1>6 DEF Ack, Room, HaveEnoughSpace, xmitVars
<1>7. CASE Wake
  <2>1. UNCHANGED <<used, xpc>> /\ (~stopped' => ~stopped \/ HaveEnoughSpace(WakeupThresh))
    BY <1>7 DEF Wake, WakeNeeded, ringVars
  <2> QED
    BY <1>0, <2>1 DEF Room, HaveEnoughSpace, WakeupThresh
<1>8. CASE Recreate
  BY <1>0, <1>8 DEF Recreate, Room, HaveEnoughSpace
<1> QED
  BY <1>1, <1>2, <1>3, <1>4, <1>5, <1>6, <1>7, <1>8 DEF Next, Xmit, Send, Drop, Schedule, Poll,
     StartPoll, Clean, CleanInvalid, CleanDone, LookForWake, EndPoll, Timer, TimerStart,
     TimerLooks, TimerJudges, TimerAdds, TimerCompares, TimerChecksNapi,
     TimerTakesCompletions, timerUnchanged, Device, DeviceCompletes, DeviceMisreports, Tick,
     ringVars, xmitVars, vars

-----------------------------------------------------------------------------
(***************************************************************************)
(* The entries of the submission queue                                     *)
(***************************************************************************)
Column(id, n) == {id} \X (1..n)

\* A packet of n descriptors takes n entries.
LEMMA ColumnSize ==
    ASSUME NEW id \in Ids, NEW n \in 0..(MaxBufs + 1)
    PROVE  IsFiniteSet(Column(id, n)) /\ Cardinality(Column(id, n)) = n
<1>1. IsFiniteSet({id}) /\ Cardinality({id}) = 1
  BY FS_Singleton
<1>2. n \in Nat /\ MaxBufs \in Nat
  BY SizeType
<1>3. IsFiniteSet(1..n) /\ Cardinality(1..n) = n
  BY <1>2, FS_Interval
<1> DEFINE one == {id}
           rows == 1..n
<1> HIDE DEF one, rows
<1>4. IsFiniteSet(one) /\ IsFiniteSet(rows) =>
        /\ IsFiniteSet(one \X rows)
        /\ Cardinality(one \X rows) = Cardinality(one) * Cardinality(rows)
  BY FS_Product
<1> QED
  BY <1>1, <1>2, <1>3, <1>4 DEF Column, one, rows

\* The entries in use are a finite set, at least one for each packet in flight.
LEMMA EntriesFinite ==
    ASSUME Types
    PROVE  /\ IsFiniteSet(Entries) /\ Cardinality(Entries) \in Nat
           /\ Cardinality(InFlight) <= Cardinality(Entries)
<1>1. MaxBufs + 1 \in Nat \ {0}
  BY SizeType
<1>2. IsFiniteSet(Ids \X (1..(MaxBufs + 1)))
  <2>1. IsFiniteSet(1..(MaxBufs + 1))
    BY <1>1, FS_Interval
  <2> QED
    BY <2>1, FS_Product, IdsAssumption
<1>3. Entries \in SUBSET (Ids \X (1..(MaxBufs + 1)))
  BY DEF Entries
<1>4. IsFiniteSet(Entries) /\ Cardinality(Entries) \in Nat
  BY <1>2, <1>3, FS_Subset, FS_CardinalityType
<1>5. IsFiniteSet({1}) /\ Cardinality({1}) = 1
  BY FS_Singleton
<1>6. Cardinality(InFlight \X {1}) = Cardinality(InFlight) * 1
  BY <1>5, Finite, FS_Product
<1>7. InFlight \X {1} \subseteq Entries
  <2>1. ASSUME NEW id \in InFlight PROVE <<id, 1>> \in Entries
    <3>1. id \in Ids /\ tx_info[id].descs \in 0..(MaxBufs + 1) /\ tx_info[id].descs # 0
      BY DEF InFlight, Types, RingTypes
    <3>2. 1 \in 1..(MaxBufs + 1) /\ 1 <= tx_info[id].descs
      BY <1>1, <3>1
    <3> QED
      BY <3>1, <3>2 DEF Entries
  <2> QED
    BY <2>1
<1>8. Cardinality(InFlight \X {1}) <= Cardinality(Entries)
  BY <1>4, <1>7, FS_Subset
<1> QED
  BY <1>4, <1>6, <1>8, Finite

\* Which entries a packet placed or cleaned has.
LEMMA EntriesChange ==
    /\ \A p \in Packets :
          Types /\ Place(p) /\ free_ids[next_to_use] \notin InFlight =>
              /\ Entries' = Entries \cup Column(free_ids[next_to_use], p.descs)
              /\ Entries \cap Column(free_ids[next_to_use], p.descs) = {}
    /\ Types /\ Clean =>
          /\ Entries' = Entries \ Column(Head(cq), tx_info[Head(cq)].descs)
          /\ Column(Head(cq), tx_info[Head(cq)].descs) \subseteq Entries
<1>1. ASSUME NEW p \in Packets, Types, Place(p), free_ids[next_to_use] \notin InFlight
      PROVE  /\ Entries' = Entries \cup Column(free_ids[next_to_use], p.descs)
             /\ Entries \cap Column(free_ids[next_to_use], p.descs) = {}
  <2> DEFINE id == free_ids[next_to_use]
  <2>1. /\ id \in Ids /\ p.descs \in 1..(MaxBufs + 1) /\ MaxBufs \in Nat
        /\ \A i \in Ids : tx_info'[i].descs = IF i = id THEN p.descs ELSE tx_info[i].descs
    BY <1>1, PlaceSlots, SizeType
  <2>2. tx_info[id].descs = 0
    BY <1>1, <2>1 DEF InFlight
  <2> HIDE DEF id
  <2>3. ASSUME NEW i \in Ids, NEW k \in 1..(MaxBufs + 1)
        PROVE  (<<i, k>> \in Entries') <=> (<<i, k>> \in Entries \/ (i = id /\ k \in 1..p.descs))
    <3>1. (<<i, k>> \in Entries') <=> k <= tx_info'[i].descs
      BY DEF Entries
    <3>2. (<<i, k>> \in Entries) <=> k <= tx_info[i].descs
      BY DEF Entries
    <3> QED
      BY <2>1, <2>2, <3>1, <3>2
  <2>4. /\ Entries \subseteq Ids \X (1..(MaxBufs + 1)) /\ Entries' \subseteq Ids \X (1..(MaxBufs + 1))
        /\ Column(id, p.descs) \subseteq Ids \X (1..(MaxBufs + 1))
    BY <2>1 DEF Entries, Column
  <2>5. \A i, k : (<<i, k>> \in Column(id, p.descs)) <=> (i = id /\ k \in 1..p.descs)
    BY DEF Column
  <2>6. Entries' = Entries \cup Column(id, p.descs)
    BY <2>3, <2>4, <2>5
  <2>7. Entries \cap Column(id, p.descs) = {}
    BY <2>1, <2>2, <2>4, <2>5 DEF Entries
  <2> QED
    BY <2>6, <2>7 DEF id
<1>2. ASSUME Types, Clean
      PROVE  /\ Entries' = Entries \ Column(Head(cq), tx_info[Head(cq)].descs)
             /\ Column(Head(cq), tx_info[Head(cq)].descs) \subseteq Entries
  <2> DEFINE id == Head(cq)
             n == tx_info[id].descs
  <2>1. /\ id \in Ids /\ MaxBufs \in Nat /\ n \in 0..(MaxBufs + 1)
        /\ \A i \in Ids : tx_info'[i].descs = IF i = id THEN 0 ELSE tx_info[i].descs
    BY <1>2, CleanSlots, SizeType DEF InFlight, Types, RingTypes
  <2>2. \A i \in Ids : i = id => tx_info[i].descs = n
    OBVIOUS
  <2> HIDE DEF id, n
  <2>3. ASSUME NEW i \in Ids, NEW k \in 1..(MaxBufs + 1)
        PROVE  /\ (<<i, k>> \in Entries') <=> (<<i, k>> \in Entries /\ ~(i = id /\ k \in 1..n))
               /\ i = id /\ k \in 1..n => <<i, k>> \in Entries
    <3>1. (<<i, k>> \in Entries') <=> k <= tx_info'[i].descs
      BY DEF Entries
    <3>2. (<<i, k>> \in Entries) <=> k <= tx_info[i].descs
      BY DEF Entries
    <3> QED
      BY <2>1, <2>2, <3>1, <3>2
  <2>4. /\ Entries \subseteq Ids \X (1..(MaxBufs + 1)) /\ Entries' \subseteq Ids \X (1..(MaxBufs + 1))
        /\ Column(id, n) \subseteq Ids \X (1..(MaxBufs + 1))
    BY <2>1 DEF Entries, Column
  <2>5. \A i, k : (<<i, k>> \in Column(id, n)) <=> (i = id /\ k \in 1..n)
    BY DEF Column
  <2>6. Entries' = Entries \ Column(id, n) /\ Column(id, n) \subseteq Entries
    BY <2>3, <2>4, <2>5
  <2> QED
    BY <2>6 DEF id, n
<1> QED
  BY <1>1, <1>2

-----------------------------------------------------------------------------
(***************************************************************************)
(* The ring of free ids                                                    *)
(***************************************************************************)
\* Positions less than a whole ring apart are different ones.
LEMMA AtInjective ==
    ASSUME next_to_use \in Slots, NEW j \in 0..(RingSize - 1), NEW k \in 0..(RingSize - 1),
           At(j) = At(k)
    PROVE  j = k
<1>1. RingSize \in Nat /\ next_to_use \in 0..(RingSize - 1)
  BY SizeType DEF Slots
<1>2. j \in 0..RingSize /\ k \in 0..RingSize
  BY <1>1
<1>3. At(j) = IF next_to_use + j < RingSize THEN next_to_use + j ELSE next_to_use + j - RingSize
  BY <1>2, AtIs
<1>4. At(k) = IF next_to_use + k < RingSize THEN next_to_use + k ELSE next_to_use + k - RingSize
  BY <1>2, AtIs
<1>5. \A r, n, a, b \in Int :
           /\ 0 <= a /\ a < r /\ 0 <= b /\ b < r
           /\ (IF n + a < r THEN n + a ELSE n + a - r) = (IF n + b < r THEN n + b ELSE n + b - r)
           => a = b
  OBVIOUS
<1>6. /\ next_to_use \in Int /\ RingSize \in Int /\ j \in Int /\ k \in Int
      /\ 0 <= j /\ j < RingSize /\ 0 <= k /\ k < RingSize
  BY <1>1
<1> QED
  BY <1>3, <1>4, <1>5, <1>6

\* The entry after a position, and where counting starts.
LEMMA AtSteps ==
    ASSUME next_to_use \in Slots
    PROVE  /\ At(0) = next_to_use /\ At(RingSize) = next_to_use
           /\ \A k \in 0..RingSize : At(k) \in Slots
           /\ \A k \in 0..(RingSize - 1) : Following(At(k)) = At(k + 1)
<1>1. RingSize \in Nat /\ RingSize > 0 /\ next_to_use \in 0..(RingSize - 1)
  BY SizeType DEF Slots
<1>2. 0 \in 0..RingSize /\ RingSize \in 0..RingSize
  BY <1>1
<1>3. At(0) = next_to_use /\ At(RingSize) = next_to_use
  <2>1. At(0) = IF next_to_use + 0 < RingSize THEN next_to_use + 0 ELSE next_to_use + 0 - RingSize
    BY <1>2, AtIs
  <2>2. At(RingSize) = IF next_to_use + RingSize < RingSize THEN next_to_use + RingSize
                       ELSE next_to_use + RingSize - RingSize
    BY <1>2, AtIs
  <2> QED
    BY <1>1, <2>1, <2>2
<1>4. ASSUME NEW k \in 0..RingSize PROVE At(k) \in Slots
  <2>1. At(k) = IF next_to_use + k < RingSize THEN next_to_use + k ELSE next_to_use + k - RingSize
    BY AtIs
  <2> QED
    BY <1>1, <2>1 DEF Slots
<1>5. ASSUME NEW k \in 0..(RingSize - 1) PROVE Following(At(k)) = At(k + 1)
  <2>1. k \in 0..RingSize /\ k + 1 \in 0..RingSize
    BY <1>1
  <2>2. At(k) = IF next_to_use + k < RingSize THEN next_to_use + k ELSE next_to_use + k - RingSize
    BY <2>1, AtIs
  <2>3. At(k + 1) = IF next_to_use + (k + 1) < RingSize THEN next_to_use + (k + 1)
                    ELSE next_to_use + (k + 1) - RingSize
    BY <2>1, AtIs
  <2>4. At(k) \in Slots
    BY <1>4, <2>1
  <2>5. Following(At(k)) = IF At(k) + 1 = RingSize THEN 0 ELSE At(k) + 1
    BY <2>4, FollowingIs
  <2> QED
    BY <1>1, <2>2, <2>3, <2>5
<1> QED
  BY <1>3, <1>4, <1>5

\* When the sender moves on, position k is what was position k + 1.
LEMMA AtMoves ==
    ASSUME next_to_use \in Slots, next_to_use' = Following(next_to_use),
           NEW k \in 0..(RingSize - 1)
    PROVE  At(k)' = At(k + 1)
<1>1. RingSize \in Nat /\ RingSize > 1 /\ next_to_use \in 0..(RingSize - 1)
  BY SizeType DEF Slots
<1>2. next_to_use' = IF next_to_use + 1 = RingSize THEN 0 ELSE next_to_use + 1
  BY FollowingIs
<1>3. At(k + 1) = IF next_to_use + (k + 1) < RingSize THEN next_to_use + (k + 1)
                  ELSE next_to_use + (k + 1) - RingSize
  <2>1. k + 1 \in 0..RingSize
    BY <1>1
  <2> QED
    BY <2>1, AtIs
<1>4. At(k)' = IF next_to_use' + k < RingSize THEN next_to_use' + k
               ELSE next_to_use' + k - RingSize
  <2>1. next_to_use' \in 0..(RingSize - 1)
    BY <1>1, <1>2
  <2> QED
    BY <1>1, <2>1 DEF At
<1> QED
  BY <1>1, <1>2, <1>3, <1>4

\* A ring just set up: every position has an id of its own.
FreshRing ==
    /\ free_ids \in FreshIds /\ next_to_use = 0 /\ next_to_clean = 0
    /\ tx_info = [id \in Ids |-> EmptySlot] /\ npc = "idle"
LEMMA IdRingFresh == FreshRing => IdRing /\ InFlight = {} /\ TimedOut = {} /\ Entries = {}
<1> SUFFICES ASSUME FreshRing PROVE IdRing /\ InFlight = {} /\ TimedOut = {} /\ Entries = {}
  OBVIOUS
<1>1. InFlight = {} /\ TimedOut = {} /\ Entries = {}
  <2>1. \A id \in Ids : tx_info[id].descs = 0
    BY DEF FreshRing, EmptySlot
  <2> QED
    BY <2>1 DEF InFlight, TimedOut, Entries
<1>2. RingSize \in Nat /\ RingSize > 0 /\ next_to_use \in Slots
  BY SizeType DEF FreshRing
<1>3. FreeCount = RingSize
  BY <1>1, <1>2, FS_EmptySet DEF FreeCount
<1>4. \A k \in 0..(RingSize - 1) : At(k) = k
  <2> SUFFICES ASSUME NEW k \in 0..(RingSize - 1) PROVE At(k) = k
    OBVIOUS
  <2>1. k \in 0..RingSize /\ next_to_use = 0
    BY <1>2 DEF FreshRing
  <2>2. At(k) = IF next_to_use + k < RingSize THEN next_to_use + k ELSE next_to_use + k - RingSize
    BY <1>2, <2>1, AtIs
  <2> QED
    BY <1>2, <2>1, <2>2
<1>5. /\ free_ids \in [Slots -> Ids]
      /\ \A j, k \in Slots : free_ids[j] = free_ids[k] => j = k
      /\ \A id \in Ids : \E k \in Slots : free_ids[k] = id
  BY DEF FreshRing, FreshIds, Bijection, Injection, Surjection, IsInjective
<1>6. At(RingSize) = next_to_clean
  BY <1>2, AtSteps DEF FreshRing
<1>7. ~Cleaning
  BY DEF Cleaning, FreshRing
<1> QED
  BY <1>1, <1>3, <1>4, <1>5, <1>6, <1>7 DEF IdRing, Slots

\* There is a free id for every packet there is room for.
LEMMA FreeIdLeft ==
    ASSUME Types, IdRing, EntriesAccounted, NEW p \in Packets, Place(p)
    PROVE  /\ FreeCount \in 1..RingSize /\ free_ids[next_to_use] \in Ids \ InFlight
           /\ At(0) = next_to_use /\ FreeCount' = FreeCount - 1
<1>1. /\ RingSize \in Nat /\ used \in Int /\ p.bufs \in Nat \ {0} /\ poll.done \in Nat
      /\ Cardinality(InFlight) \in 0..RingSize /\ Cardinality(Entries) \in Nat
      /\ Cardinality(InFlight) <= Cardinality(Entries)
  BY SizeType, Finite, EntriesFinite, PacketsAssumption DEF Types, RingTypes, PollTypes
<1>2. RingSize - 1 - used >= p.bufs + 1
  BY DEF Place, HaveEnoughSpace
<1>3. used >= Cardinality(Entries)
  <2>1. CASE Cleaning
    BY <1>1, <2>1 DEF EntriesAccounted
  <2>2. CASE ~Cleaning
    BY <1>1, <2>2 DEF EntriesAccounted
  <2> QED
    BY <2>1, <2>2
<1>4. FreeCount \in 1..RingSize /\ FreeCount = RingSize - Cardinality(InFlight)
  BY <1>1, <1>2, <1>3 DEF FreeCount
<1>5. At(0) = next_to_use
  BY AtSteps DEF Types, RingTypes
<1>6. 0 \in 0..(FreeCount - 1)
  BY <1>1, <1>4
<1>7. free_ids[next_to_use] \in Ids \ InFlight
  BY <1>5, <1>6 DEF IdRing, Types, RingTypes
<1>8. Cardinality(InFlight') = Cardinality(InFlight) + 1
  BY <1>7, PlaceSlots, Finite, FS_AddElement
<1>9. FreeCount' = FreeCount - 1
  BY <1>1, <1>4, <1>8 DEF FreeCount
<1> QED
  BY <1>4, <1>5, <1>7, <1>9

\* Sending keeps the ring of free ids.
LEMMA IdRingPlace ==
    ASSUME Types, IdRing, EntriesAccounted, NEW p \in Packets, Place(p)
    PROVE  IdRing'
<1> DEFINE id == free_ids[next_to_use]
<1>0. PICK n \in 1..RingSize : n = FreeCount
  BY FreeIdLeft
<1>1. /\ RingSize \in Nat /\ n \in 1..RingSize /\ id \in Ids \ InFlight /\ At(0) = next_to_use
      /\ FreeCount' = n - 1 /\ InFlight' = InFlight \cup {id}
  BY <1>0, SizeType, FreeIdLeft, PlaceSlots
<1>2. /\ \A k \in 0..(n - 1) : free_ids[At(k)] \notin InFlight
      /\ \A i \in Ids \ InFlight : \E k \in 0..(n - 1) : free_ids[At(k)] = i
      /\ \A j, k \in 0..(n - 1) : free_ids[At(j)] = free_ids[At(k)] => j = k
      /\ At(n) = IF Cleaning THEN poll.next_to_clean ELSE next_to_clean
  BY <1>0 DEF IdRing
<1>3. /\ UNCHANGED <<free_ids, next_to_clean, npc, poll>>
      /\ next_to_use \in Slots /\ next_to_use' = Following(next_to_use)
  BY DEF Place, napiVars, Types, RingTypes
<1>4. id = free_ids[At(0)]
  BY <1>1
<1> HIDE DEF id
<1>5. \A k \in 0..(n - 1) : At(k)' = At(k + 1)
  <2>1. \A k \in 0..(n - 1) : k \in 0..(RingSize - 1)
    BY <1>1
  <2> QED
    BY <1>3, <2>1, AtMoves
<1>6. ASSUME NEW k \in 0..(n - 2)
      PROVE  k \in 0..(n - 1) /\ k + 1 \in 0..(n - 1) /\ 0 \in 0..(n - 1) /\ k + 1 # 0
  BY <1>1
<1>7. ASSUME NEW k \in 0..(n - 2) PROVE free_ids[At(k)'] \notin InFlight'
  BY <1>1, <1>2, <1>4, <1>5, <1>6
<1>8. ASSUME NEW i \in Ids \ InFlight' PROVE \E k \in 0..(n - 2) : free_ids[At(k)'] = i
  <2>1. i \in Ids \ InFlight /\ i # id
    BY <1>1
  <2>2. PICK k \in 0..(n - 1) : free_ids[At(k)] = i
    BY <1>2, <2>1
  <2>3. k # 0
    BY <1>4, <2>1, <2>2
  <2>4. k - 1 \in 0..(n - 2) /\ (k - 1) + 1 = k /\ k - 1 \in 0..(n - 1)
    BY <1>1, <2>3
  <2>5. At(k - 1)' = At(k)
    BY <1>5, <2>4
  <2> QED
    BY <2>2, <2>4, <2>5
<1>9. ASSUME NEW j \in 0..(n - 2), NEW k \in 0..(n - 2), free_ids[At(j)'] = free_ids[At(k)']
      PROVE  j = k
  <2>1. j + 1 = k + 1
    BY <1>2, <1>5, <1>6, <1>9
  <2> QED
    BY <2>1
<1>10. At(n - 1)' = At(n)
  <2>1. n - 1 \in 0..(n - 1) /\ (n - 1) + 1 = n
    BY <1>1
  <2> QED
    BY <1>5, <2>1
<1>11. n - 1 - 1 = n - 2
  BY <1>1
<1>12. /\ \A k \in 0..(FreeCount' - 1) : free_ids'[At(k)'] \notin InFlight'
       /\ \A i \in Ids \ InFlight' : \E k \in 0..(FreeCount' - 1) : free_ids'[At(k)'] = i
       /\ \A j, k \in 0..(FreeCount' - 1) : free_ids'[At(j)'] = free_ids'[At(k)'] => j = k
  BY <1>1, <1>3, <1>7, <1>8, <1>9, <1>11
<1>13. At(n - 1)' = IF Cleaning' THEN poll'.next_to_clean ELSE next_to_clean'
  BY <1>2, <1>3, <1>10 DEF Cleaning
<1>14. (At(FreeCount))' = At(n - 1)'
  BY <1>1, <1>3 DEF At
<1> QED
  BY <1>12, <1>13, <1>14 DEF IdRing

\* Cleaning keeps the ring of free ids.
LEMMA IdRingClean ==
    ASSUME Types, IdRing, Clean
    PROVE  IdRing' /\ FreeCount' = FreeCount + 1
<1> DEFINE id == Head(cq)
           n == FreeCount
<1>1. /\ RingSize \in Nat /\ n \in 0..RingSize /\ id \in InFlight /\ InFlight \subseteq Ids
      /\ InFlight' = InFlight \ {id}
  BY SizeType, Finite, CleanSlots DEF InFlight
<1>2. n \in 0..(RingSize - 1) /\ FreeCount' = n + 1
  <2>1. Cardinality(InFlight') = Cardinality(InFlight) - 1
    BY <1>1, Finite, FS_RemoveElement
  <2>2. Cardinality(InFlight) # 0
    BY <1>1, Finite, FS_EmptySet
  <2> QED
    BY <1>1, <2>1, <2>2, Finite DEF FreeCount
<1>3. /\ \A k \in 0..(n - 1) : free_ids[At(k)] \notin InFlight
      /\ \A i \in Ids \ InFlight : \E k \in 0..(n - 1) : free_ids[At(k)] = i
      /\ \A j, k \in 0..(n - 1) : free_ids[At(j)] = free_ids[At(k)] => j = k
      /\ At(n) = IF Cleaning THEN poll.next_to_clean ELSE next_to_clean
  BY DEF IdRing
<1>4. /\ npc = "clean" /\ UNCHANGED <<next_to_use, npc>> /\ next_to_use \in Slots
      /\ free_ids' = [free_ids EXCEPT ![poll.next_to_clean] = id]
      /\ poll'.next_to_clean = Following(poll.next_to_clean)
  BY DEF Clean, NextClean, Types, RingTypes
<1>5. At(n) = poll.next_to_clean /\ free_ids \in [Slots -> Ids]
  BY <1>3, <1>4 DEF Cleaning, Types, RingTypes
<1> HIDE DEF id, n
<1>6. \A k \in 0..n : At(k) \in Slots /\ At(k)' = At(k)
  <2>1. \A k \in 0..n : k \in 0..RingSize
    BY <1>1
  <2> QED
    BY <1>4, <2>1, AtSteps DEF At
<1>7. ASSUME NEW k \in 0..n PROVE free_ids'[At(k)'] = IF k = n THEN id ELSE free_ids[At(k)]
  <2>1. k \in 0..(RingSize - 1)
    BY <1>1, <1>2
  <2>2. At(k) = At(n) => k = n
    BY <1>2, <1>4, <2>1, AtInjective
  <2> QED
    BY <1>4, <1>5, <1>6, <2>2
<1>8. ASSUME NEW k \in 0..n, k # n PROVE k \in 0..(n - 1)
  BY <1>1, <1>8
<1>9. n \in 0..n /\ (\A k \in 0..(n - 1) : k \in 0..n /\ k # n)
  BY <1>1
<1>10. ASSUME NEW k \in 0..n PROVE free_ids'[At(k)'] \notin InFlight'
  BY <1>1, <1>3, <1>7, <1>8
<1>11. ASSUME NEW i \in Ids \ InFlight' PROVE \E k \in 0..n : free_ids'[At(k)'] = i
  <2>1. CASE i = id
    BY <1>7, <1>9, <2>1
  <2>2. CASE i # id
    BY <1>1, <1>3, <1>7, <1>9, <2>2
  <2> QED
    BY <2>1, <2>2
<1>12. ASSUME NEW j \in 0..n, NEW k \in 0..n, free_ids'[At(j)'] = free_ids'[At(k)']
       PROVE  j = k
  BY <1>1, <1>3, <1>7, <1>8, <1>12
<1>13. FreeCount' - 1 = n
  BY <1>1, <1>2
<1>14. /\ \A k \in 0..(FreeCount' - 1) : free_ids'[At(k)'] \notin InFlight'
       /\ \A i \in Ids \ InFlight' : \E k \in 0..(FreeCount' - 1) : free_ids'[At(k)'] = i
       /\ \A j, k \in 0..(FreeCount' - 1) : free_ids'[At(j)'] = free_ids'[At(k)'] => j = k
  BY <1>10, <1>11, <1>12, <1>13
<1>15. At(n + 1) = poll'.next_to_clean
  BY <1>2, <1>4, <1>5, AtSteps
<1>16. (At(FreeCount))' = At(n + 1)
  BY <1>2, <1>4 DEF At
<1>17. Cleaning'
  BY <1>4 DEF Cleaning
<1> QED
  BY <1>2, <1>14, <1>15, <1>16, <1>17 DEF IdRing, n

\* Every step keeps the ring of free ids.
LEMMA IdRingStep == Types /\ IdRing /\ EntriesAccounted /\ [Next]_vars => IdRing'
<1> SUFFICES ASSUME Types, IdRing, EntriesAccounted, [Next]_vars PROVE IdRing'
  OBVIOUS
<1>1. ASSUME NEW p \in Packets, Place(p) PROVE IdRing'
  BY <1>1, IdRingPlace
<1>2. CASE Clean
  BY <1>2, IdRingClean
<1>3. CASE Recreate
  <2>1. FreshRing'
    BY <1>3 DEF FreshRing, Recreate
  <2> QED
    BY <2>1, IdRingFresh, PTL
<1>4. ASSUME InFlight' = InFlight, UNCHANGED <<free_ids, next_to_use>>,
             (IF Cleaning' THEN poll'.next_to_clean ELSE next_to_clean') =
                (IF Cleaning THEN poll.next_to_clean ELSE next_to_clean)
      PROVE  IdRing'
  <2>1. FreeCount' = FreeCount
    BY <1>4 DEF FreeCount
  <2>2. PICK n \in 0..RingSize : n = FreeCount
    BY Finite
  <2>3. \A k : At(k)' = At(k)
    BY <1>4 DEF At
  <2>4. At(FreeCount)' = At(FreeCount)
    BY <1>4, <2>1 DEF At
  <2> QED
    BY <1>4, <2>1, <2>3, <2>4 DEF IdRing
<1>5. CASE Tick \/ TimerJudges
  <2>1. InFlight' = InFlight
    BY <1>5, AgeSlots
  <2> QED
    BY <1>4, <1>5, <2>1 DEF Tick, TimerJudges, napiVars, Cleaning
<1>6. CASE UNCHANGED <<free_ids, next_to_use, tx_info>>
  <2>1. InFlight' = InFlight
    BY <1>6 DEF InFlight
  <2>2. CASE UNCHANGED <<npc, poll, next_to_clean>>
    BY <1>4, <1>6, <2>1, <2>2 DEF Cleaning
  <2>3. CASE StartPoll
    <3>1. \/ UNCHANGED <<npc, poll, next_to_clean>>
          \/ /\ npc = "idle" /\ npc' = "clean"
             /\ poll' = [NoPoll EXCEPT !.next_to_clean = next_to_clean]
      BY <2>3 DEF StartPoll, ringVars
    <3>2. [NoPoll EXCEPT !.next_to_clean = next_to_clean].next_to_clean = next_to_clean
      BY DEF NoPoll
    <3> QED
      BY <1>4, <1>6, <2>1, <2>2, <3>1, <3>2 DEF Cleaning
  <2>4. CASE Ack
    BY <1>4, <1>6, <2>1, <2>4 DEF Ack, Cleaning
  <2>5. CASE CleanInvalid \/ CleanDone
    BY <1>4, <1>6, <2>1, <2>5 DEF CleanInvalid, CleanDone, Cleaning, ringVars
  <2>6. CASE LookForWake \/ Wake
    BY <1>4, <1>6, <2>1, <2>6 DEF LookForWake, Wake, Cleaning, ringVars
  <2>7. ASSUME NEW rxDone \in BOOLEAN, EndPoll(rxDone) PROVE IdRing'
    BY <1>4, <1>6, <2>1, <2>7 DEF EndPoll, Cleaning, ringVars
  <2> QED
    BY <1>1, <1>2, <1>3, <1>5, <2>2, <2>3, <2>4, <2>5, <2>6, <2>7 DEF Next, Xmit, Send, Drop,
       StopIfFull, Recheck, Ring, Schedule, Poll, Timer, TimerStart, TimerLooks, TimerAdds,
       TimerCompares, TimerChecksNapi, TimerTakesCompletions, timerUnchanged, Device,
       DeviceCompletes, DeviceMisreports, ringVars, napiVars, vars
<1> QED
  BY <1>1, <1>2, <1>3, <1>5, <1>6, OtherSlots

\* Every step keeps the account of the entries.
LEMMA EntriesStep == Types /\ IdRing /\ EntriesAccounted /\ [Next]_vars => EntriesAccounted'
<1> SUFFICES ASSUME Types, IdRing, EntriesAccounted, [Next]_vars PROVE EntriesAccounted'
  OBVIOUS
<1>0. /\ IsFiniteSet(Entries) /\ Cardinality(Entries) \in Nat /\ used \in Int
      /\ poll.done \in Nat
      /\ used = Cardinality(Entries) + (IF Cleaning THEN poll.done ELSE 0)
  BY EntriesFinite DEF Types, RingTypes, PollTypes, EntriesAccounted
<1>1. ASSUME NEW p \in Packets, Place(p) PROVE EntriesAccounted'
  <2> DEFINE id == free_ids[next_to_use]
  <2>1. /\ id \in Ids /\ id \notin InFlight /\ p.descs \in 0..(MaxBufs + 1) /\ p.descs \in Nat
    BY <1>1, FreeIdLeft, PlaceSlots, SizeType
  <2>2. /\ IsFiniteSet(Column(id, p.descs)) /\ Cardinality(Column(id, p.descs)) = p.descs
    BY <2>1, ColumnSize
  <2>3. Entries' = Entries \cup Column(id, p.descs) /\ Entries \cap Column(id, p.descs) = {}
    BY <1>1, <2>1, EntriesChange
  <2>4. Cardinality(Entries') = Cardinality(Entries) + p.descs - Cardinality({})
    BY <1>0, <2>2, <2>3, FS_Union
  <2>5. Cardinality({}) = 0
    BY FS_EmptySet
  <2>6. used' = used + p.descs /\ UNCHANGED <<npc, poll>>
    BY <1>1 DEF Place, napiVars
  <2> QED
    BY <1>0, <2>1, <2>4, <2>5, <2>6 DEF EntriesAccounted, Cleaning
<1>2. CASE Clean
  <2> DEFINE id == Head(cq)
             n == tx_info[id].descs
  <2>1. id \in Ids /\ n \in 0..(MaxBufs + 1) /\ n \in Nat
    BY <1>2, CleanSlots, SizeType DEF InFlight, Types, RingTypes
  <2>2. IsFiniteSet(Column(id, n)) /\ Cardinality(Column(id, n)) = n
    BY <2>1, ColumnSize
  <2>3. Entries' = Entries \ Column(id, n) /\ Column(id, n) \subseteq Entries
    BY <1>2, EntriesChange
  <2>4. Cardinality(Entries') = Cardinality(Entries) - Cardinality(Entries \cap Column(id, n))
    BY <1>0, <2>3, FS_Difference
  <2>5. Entries \cap Column(id, n) = Column(id, n)
    BY <2>3
  <2>6. /\ poll'.done = poll.done + n /\ used' = used /\ npc = "clean" /\ npc' = npc
    BY <1>2 DEF Clean, Acked
  <2> HIDE DEF n, id
  <2>7. Cardinality(Entries') = Cardinality(Entries) - n
    BY <2>2, <2>4, <2>5
  <2>8. used = Cardinality(Entries) + poll.done
    BY <1>0, <2>6 DEF Cleaning
  <2>9. used' = Cardinality(Entries') + poll'.done
    BY <1>0, <2>1, <2>6, <2>7, <2>8
  <2> QED
    BY <2>6, <2>9 DEF EntriesAccounted, Cleaning
<1>3. CASE Recreate
  <2>0. FreshRing'
    BY <1>3 DEF FreshRing, Recreate
  <2>1. (Entries = {})'
    BY <2>0, IdRingFresh, PTL
  <2>2. used' = 0 /\ ~Cleaning'
    BY <1>3 DEF Recreate, Cleaning
  <2>3. Cardinality(Entries') = 0
    BY <2>1, FS_EmptySet
  <2> QED
    BY <2>1, <2>2, <2>3 DEF EntriesAccounted
<1>4. CASE Tick \/ TimerJudges
  <2>1. Entries' = Entries
    BY <1>4, AgeSlots DEF Entries
  <2> QED
    BY <1>4, <2>1 DEF EntriesAccounted, Tick, TimerJudges, napiVars, Cleaning
<1>5. CASE UNCHANGED <<free_ids, next_to_use, tx_info>>
  <2>1. Entries' = Entries
    BY <1>5 DEF Entries
  <2>2. CASE UNCHANGED <<npc, poll, used>>
    BY <2>1, <2>2 DEF EntriesAccounted, Cleaning
  <2>3. CASE StartPoll
    <3>1. \/ UNCHANGED <<npc, poll, used>>
          \/ /\ npc = "idle" /\ npc' = "clean" /\ used' = used
             /\ poll' = [NoPoll EXCEPT !.next_to_clean = next_to_clean]
      BY <2>3 DEF StartPoll, ringVars
    <3>2. [NoPoll EXCEPT !.next_to_clean = next_to_clean].done = 0
      BY DEF NoPoll
    <3> QED
      BY <1>0, <2>1, <2>2, <3>1, <3>2 DEF EntriesAccounted, Cleaning
  <2>4. CASE Ack
    <3>1. npc = "ack" /\ npc' = "wake" /\ used' = used - poll.done
      BY <2>4 DEF Ack
    <3> QED
      BY <1>0, <2>1, <3>1 DEF EntriesAccounted, Cleaning
  <2>5. CASE CleanInvalid \/ CleanDone
    BY <1>0, <2>1, <2>5 DEF EntriesAccounted, CleanInvalid, CleanDone, Cleaning, ringVars
  <2>6. CASE LookForWake \/ Wake
    BY <1>0, <2>1, <2>6 DEF EntriesAccounted, LookForWake, Wake, Cleaning, ringVars
  <2>7. ASSUME NEW rxDone \in BOOLEAN, EndPoll(rxDone) PROVE EntriesAccounted'
    BY <1>0, <2>1, <2>7 DEF EntriesAccounted, EndPoll, Cleaning, ringVars
  <2> QED
    BY <1>1, <1>2, <1>3, <1>4, <2>2, <2>3, <2>4, <2>5, <2>6, <2>7 DEF Next, Xmit, Send, Drop,
       StopIfFull, Recheck, Ring, Schedule, Poll, Timer, TimerStart, TimerLooks, TimerAdds,
       TimerCompares, TimerChecksNapi, TimerTakesCompletions, timerUnchanged, Device,
       DeviceCompletes, DeviceMisreports, ringVars, napiVars, vars
<1> QED
  BY <1>1, <1>2, <1>3, <1>4, <1>5, OtherSlots

-----------------------------------------------------------------------------
(***************************************************************************)
(* The packets on their way, and the count of the late ones                *)
(***************************************************************************)
\* While the device completes only packets it has, a packet stays in one place.
LEMMA OnTheWayStep ==
    /\ Types /\ IdRing /\ EntriesAccounted
    /\ misreports = 0 => OnTheWay
    /\ [Next]_vars
    => (misreports' = 0 => OnTheWay')
<1> SUFFICES ASSUME Types, IdRing, EntriesAccounted, misreports = 0 => OnTheWay,
                    [Next]_vars, misreports' = 0
             PROVE  OnTheWay'
  OBVIOUS
<1>1. CASE Recreate
  BY <1>1 DEF Recreate, OnTheWay
<1>2. ASSUME NEW id \in Ids, DeviceMisreports(id) PROVE OnTheWay'
  <2>1. misreports' = misreports + 1 /\ misreports \in Nat
    BY <1>2, ThresholdAssumption DEF DeviceMisreports, Types, DevTypes
  <2> QED
    BY <2>1
<1>3. CASE ~Recreate /\ ~\E id \in Ids : DeviceMisreports(id)
  <2>1. misreports' = misreports
    BY <1>3 DEF Next, Xmit, Send, Drop, Place, StopIfFull, Recheck, Ring, Schedule, Poll,
       StartPoll, Clean, CleanInvalid, CleanDone, Ack, LookForWake, Wake, EndPoll, Timer,
       TimerStart, TimerLooks, TimerJudges, TimerAdds, TimerCompares, TimerChecksNapi,
       TimerTakesCompletions, timerUnchanged, Device, DeviceCompletes, Tick, devVars, vars
  <2>2. OnTheWay /\ cq \in Seq(Ids) /\ DOMAIN cq = 1..Len(cq) /\ Len(cq) \in Nat
    BY <2>1 DEF Types, DevTypes
  <2>3. ASSUME InFlight' = InFlight, UNCHANGED cq, Announce \/ KeepBack PROVE OnTheWay'
    BY <2>2, <2>3 DEF OnTheWay, Announce, KeepBack
  <2>4. ASSUME NEW p \in Packets, Place(p) PROVE OnTheWay'
    <3>1. free_ids[next_to_use] \notin InFlight
      BY <2>4, FreeIdLeft
    <3>2. InFlight' = InFlight \cup {free_ids[next_to_use]}
      BY <2>4, PlaceSlots
    <3>3. unannounced' = unannounced \cup {free_ids[next_to_use]} /\ UNCHANGED <<inDevice, cq>>
      BY <2>4 DEF Place
    <3> QED
      BY <2>2, <3>1, <3>2, <3>3 DEF OnTheWay
  <2>5. ASSUME InFlight' \in {InFlight, InFlight \ {Head(cq)}}, cq # << >>, cq' = Tail(cq),
               UNCHANGED <<unannounced, inDevice>>
        PROVE  OnTheWay'
    <3>1. /\ Head(cq) = cq[1] /\ Len(cq) > 0 /\ DOMAIN cq' = 1..(Len(cq) - 1)
          /\ \A k \in 1..(Len(cq) - 1) : cq'[k] = cq[k + 1]
      BY <2>2, <2>5
    <3>2. \A k \in DOMAIN cq' : k + 1 \in DOMAIN cq /\ k + 1 # 1 /\ cq'[k] = cq[k + 1]
      BY <2>2, <3>1
    <3>3. 1 \in DOMAIN cq
      BY <2>2, <3>1
    <3>4. unannounced \cup inDevice \subseteq InFlight \ {Head(cq)}
      BY <2>2, <3>1, <3>3 DEF OnTheWay
    <3>5. \A k \in DOMAIN cq' : cq'[k] \in InFlight \ {Head(cq)}
      BY <2>2, <3>1, <3>2, <3>3 DEF OnTheWay
    <3>6. \A k \in DOMAIN cq' : cq'[k] \notin unannounced \cup inDevice
      BY <2>2, <3>2 DEF OnTheWay
    <3>7. ASSUME NEW j \in DOMAIN cq', NEW k \in DOMAIN cq', cq'[j] = cq'[k] PROVE j = k
      <4>1. j + 1 = k + 1
        BY <2>2, <3>2, <3>7 DEF OnTheWay
      <4> QED
        BY <3>1, <4>1
    <3> QED
      BY <2>2, <2>5, <3>4, <3>5, <3>6, <3>7 DEF OnTheWay
  <2>6. ASSUME NEW id \in Ids, DeviceCompletes(id) PROVE OnTheWay'
    <3>1. /\ id \in inDevice /\ inDevice' = inDevice \ {id} /\ cq' = Append(cq, id)
          /\ UNCHANGED <<tx_info, unannounced>>
      BY <2>6 DEF DeviceCompletes, ringVars
    <3>2. InFlight' = InFlight
      BY <3>1 DEF InFlight
    <3>3. /\ DOMAIN cq' = 1..(Len(cq) + 1)
          /\ \A k \in DOMAIN cq' : cq'[k] = IF k = Len(cq) + 1 THEN id ELSE cq[k]
          /\ \A k \in DOMAIN cq' : k # Len(cq) + 1 => k \in DOMAIN cq
      BY <2>2, <3>1
    <3>4. \A k \in DOMAIN cq' : cq'[k] \in InFlight /\ cq'[k] \notin unannounced \cup inDevice'
      BY <2>2, <3>1, <3>3 DEF OnTheWay
    <3>5. \A j, k \in DOMAIN cq' : cq'[j] = cq'[k] => j = k
      BY <2>2, <3>1, <3>3 DEF OnTheWay
    <3>6. unannounced' \cup inDevice' \subseteq InFlight' /\ unannounced' \cap inDevice' = {}
      BY <2>2, <3>1, <3>2 DEF OnTheWay
    <3> QED
      BY <3>1, <3>2, <3>4, <3>5, <3>6 DEF OnTheWay
  <2>7. CASE TimerTakesCompletions
    <3>1. cq' = << >> /\ UNCHANGED <<tx_info, unannounced, inDevice>>
      BY <2>7 DEF TimerTakesCompletions, ringVars
    <3> QED
      BY <2>2, <3>1 DEF OnTheWay, InFlight
  <2>8. CASE Clean
    <3>1. InFlight' = InFlight \ {Head(cq)}
      BY <2>8, CleanSlots
    <3> QED
      BY <2>5, <2>8, <3>1 DEF Clean
  <2>9. CASE CleanInvalid
    BY <2>5, <2>9 DEF CleanInvalid, ringVars, InFlight
  <2>10. CASE Tick \/ TimerJudges
    <3>1. InFlight' = InFlight
      BY <2>10, AgeSlots
    <3> QED
      BY <2>3, <2>10, <3>1 DEF Tick, TimerJudges, devVars, KeepBack
  <2>11. CASE \/ \E p \in Packets : Drop(p)
              \/ StopIfFull \/ Recheck \/ Ring \/ Schedule \/ StartPoll \/ CleanDone \/ Ack
              \/ LookForWake \/ Wake \/ (\E rxDone \in BOOLEAN : EndPoll(rxDone))
              \/ TimerStart \/ (\E id \in Ids : TimerLooks(id)) \/ TimerAdds
              \/ TimerCompares \/ TimerChecksNapi \/ UNCHANGED vars
    <3>1. UNCHANGED <<tx_info, cq>> /\ (Announce \/ KeepBack)
      BY <2>11 DEF Drop, StopIfFull, Recheck, Ring, Schedule, StartPoll, CleanDone, Ack,
         LookForWake, Wake, EndPoll, TimerStart, TimerLooks, TimerAdds, TimerCompares,
         TimerChecksNapi, timerUnchanged, devVars, ringVars, KeepBack, vars
    <3> QED
      BY <2>3, <3>1 DEF InFlight
  <2> QED
    BY <1>3, <2>4, <2>6, <2>7, <2>8, <2>9, <2>10, <2>11 DEF Next, Xmit, Send, Poll, Timer,
       Device
<1> QED
  BY <1>1, <1>2, <1>3

\* No step leaves a packet behind that the device was not told of.
LEMMA HeldBackStep ==
    /\ Types /\ EntriesAccounted /\ NothingHeldBack
    /\ misreports = 0 => OnTheWay
    /\ [Next]_vars
    => NothingHeldBack'
<1> SUFFICES ASSUME Types, EntriesAccounted, NothingHeldBack, misreports = 0 => OnTheWay,
                    [Next]_vars, xpc' = "idle", ~more', misreports' = 0
             PROVE  unannounced' = {}
  BY DEF NothingHeldBack
<1>1. CASE UNCHANGED <<xpc, more, misreports, unannounced>>
  BY <1>1 DEF NothingHeldBack
<1>2. ASSUME NEW p \in Packets, Drop(p) PROVE unannounced' = {}
  <2>1. misreports = 0 /\ ~p.more /\ unannounced \in SUBSET InFlight
    BY <1>2 DEF Drop, OnTheWay
  <2>2. CASE used > 0
    BY <1>2, <2>1, <2>2 DEF Drop, RingsAfterDrop, Announce
  <2>3. CASE ~(used > 0)
    <3>1. /\ used \in Int /\ poll.done \in Nat /\ Cardinality(Entries) \in Nat
          /\ Cardinality(InFlight) \in Nat /\ Cardinality(InFlight) <= Cardinality(Entries)
      BY EntriesFinite, Finite, SizeType DEF Types, RingTypes, PollTypes
    <3>2. used >= Cardinality(Entries)
      <4>1. CASE Cleaning
        BY <3>1, <4>1 DEF EntriesAccounted
      <4>2. CASE ~Cleaning
        BY <3>1, <4>2 DEF EntriesAccounted
      <4> QED
        BY <4>1, <4>2
    <3>3. Cardinality(InFlight) = 0
      BY <2>3, <3>1, <3>2
    <3>4. InFlight = {}
      BY <3>3, Finite, FS_EmptySet
    <3>5. unannounced' \in {unannounced, {}}
      BY <1>2 DEF Drop, Announce, KeepBack
    <3> QED
      BY <2>1, <3>4, <3>5
  <2> QED
    BY <2>2, <2>3
<1>3. CASE Ring
  BY <1>3 DEF Ring, RingsNow, Announce
<1>4. CASE Recreate
  BY <1>4 DEF Recreate
<1>5. ASSUME NEW id \in Ids, DeviceMisreports(id) PROVE unannounced' = {}
  BY <1>5, ThresholdAssumption DEF DeviceMisreports, Types, DevTypes
<1>6. ASSUME NEW p \in Packets, Place(p) PROVE unannounced' = {}
  BY <1>6 DEF Place
<1> QED
  BY <1>1, <1>2, <1>3, <1>4, <1>5, <1>6 DEF Next, Xmit, Send, StopIfFull, Recheck, Schedule,
     Poll, StartPoll, Clean, CleanInvalid, CleanDone, Ack, LookForWake, Wake, EndPoll, Timer,
     TimerStart, TimerLooks, TimerJudges, TimerAdds, TimerCompares, TimerChecksNapi,
     TimerTakesCompletions, timerUnchanged, Device, DeviceCompletes, Tick, xmitVars, devVars,
     vars

\* The timer's own part of the count: it counts no slot twice.
Scan ==
    /\ timer.pc = "judge" => timer.slot \notin timer.left
    /\ timer.pc \notin {"look", "judge"} => timer.new = 0
    /\ timer.new + Cardinality(timer.left) + (IF timer.pc = "judge" THEN 1 ELSE 0) <= RingSize
\* What the timer found, and what NAPI found to be done, is in the count.
Missed == IF Cleaning THEN poll.missed ELSE 0
Counted == pending + timer.new >= Cardinality(TimedOut) + Missed

LEMMA CountIs == Count <=> Scan /\ (timer.pc # "idle" \/ ~trigger_reset => Counted)
  BY DEF Count, Scan, Counted, Missed

\* The slots a scan has still to look at are finitely many.
LEMMA LeftFinite ==
    ASSUME TimerTypes
    PROVE  /\ IsFiniteSet(timer.left) /\ Cardinality(timer.left) \in Nat /\ timer.new \in Nat
           /\ timer.left \subseteq Ids
<1>1. timer.left \in SUBSET Ids /\ timer.new \in Nat
  BY DEF TimerTypes
<1> QED
  BY <1>1, IdsAssumption, FS_Subset, FS_CardinalityType

\* Every step of the timer keeps its own part.
LEMMA ScanStep == Types /\ Scan /\ [Next]_vars => Scan'
<1> SUFFICES ASSUME Types, Scan, [Next]_vars PROVE Scan'
  OBVIOUS
<1>0. RingSize \in Nat /\ IsFiniteSet(timer.left) /\ Cardinality(timer.left) \in Nat
      /\ timer.new \in Nat /\ timer.left \subseteq Ids
  BY SizeType, LeftFinite DEF Types
<1>1. CASE UNCHANGED timer
  BY <1>1 DEF Scan
<1>2. CASE TimerStart
  <2>1. timer' = [pc |-> "look", left |-> Ids, slot |-> NoSlot, seen |-> 0, new |-> 0,
                  first |-> FALSE]
    BY <1>2 DEF TimerStart, NoTimer
  <2> QED
    BY <1>0, <2>1 DEF Scan, RingSize
<1>3. ASSUME NEW id \in Ids, TimerLooks(id) PROVE Scan'
  <2>1. /\ timer.pc = "look" /\ timer'.pc = "judge" /\ timer'.left = Remaining \ {id}
        /\ timer'.slot = id /\ timer'.new = timer.new
    BY <1>3 DEF TimerLooks, Types, TimerTypes
  <2>2. Remaining \subseteq timer.left /\ id \in Remaining
    BY <1>3 DEF TimerLooks, Remaining
  <2>3. IsFiniteSet(timer.left \ {id}) /\ Cardinality(timer.left \ {id}) = Cardinality(timer.left) - 1
    BY <1>0, <2>2, FS_RemoveElement
  <2>4. Cardinality(timer'.left) <= Cardinality(timer.left \ {id})
        /\ Cardinality(timer'.left) \in Nat
    BY <2>1, <2>2, <2>3, FS_Subset, FS_CardinalityType
  <2>5. timer.new + Cardinality(timer.left) <= RingSize
    BY <1>0, <2>1 DEF Scan
  <2> QED
    BY <1>0, <2>1, <2>3, <2>4, <2>5 DEF Scan
<1>4. CASE TimerJudges
  <2> DEFINE id == timer.slot
  <2>1. /\ timer.pc = "judge" /\ timer'.pc = "look" /\ id \in Ids /\ id \notin timer.left
        /\ timer.new + Cardinality(timer.left) + 1 <= RingSize
    BY <1>4, JudgesAs DEF Scan, LookType
  <2>2. \/ timer'.left = timer.left /\ timer'.new \in {timer.new, timer.new + 1}
        \/ timer'.left = timer.left \cup {id} /\ timer'.new = timer.new
    BY <1>4, JudgesAs
  <2>3. Cardinality(timer.left \cup {id}) = Cardinality(timer.left) + 1
    BY <1>0, <2>1, FS_AddElement
  <2> HIDE DEF id
  <2>4. timer'.new + Cardinality(timer'.left) <= RingSize
    BY <1>0, <2>1, <2>2, <2>3
  <2>5. timer'.new \in Nat /\ Cardinality(timer'.left) \in Nat
    BY <1>0, <2>2, <2>3
  <2> QED
    BY <2>1, <2>4, <2>5 DEF Scan
<1>5. ASSUME timer'.pc \in {"idle", "compare", "napi", "cq"}, timer'.new = 0, timer'.left = {}
      PROVE  Scan'
  BY <1>0, <1>5, FS_EmptySet DEF Scan
<1>6. CASE TimerAdds
  <2>1. timer' = [pc |-> IF timer.first THEN "napi" ELSE "compare", left |-> {},
                  slot |-> NoSlot, seen |-> 0, new |-> 0, first |-> FALSE]
    BY <1>6 DEF TimerAdds, NoTimer
  <2> QED
    BY <1>5, <2>1
<1>7. CASE TimerTakesCompletions
  BY <1>5, <1>7 DEF TimerTakesCompletions, NoTimer
<1>8. CASE TimerCompares \/ TimerChecksNapi
  <2>1. timer.pc \notin {"look", "judge"} /\ timer'.pc \notin {"look", "judge"}
        /\ timer'.new = timer.new /\ timer'.left = timer.left
    BY <1>8 DEF TimerCompares, TimerChecksNapi, Types, TimerTypes
  <2> QED
    BY <2>1 DEF Scan
<1> QED
  BY <1>1, <1>2, <1>3, <1>4, <1>6, <1>7, <1>8 DEF Next, Xmit, Send, Drop, Place, StopIfFull,
     Recheck, Ring, Schedule, Poll, StartPoll, Clean, CleanInvalid, CleanDone, Ack, LookForWake,
     Wake, EndPoll, Timer, Device, DeviceCompletes, DeviceMisreports, Tick, Recreate, vars

\* The timer and NAPI never count a late packet less often than it is one.
LEMMA CountStep ==
    Types /\ IdRing /\ EntriesAccounted /\ Readers /\ Count /\ [Next]_vars => Count'
<1> SUFFICES ASSUME Types, IdRing, EntriesAccounted, Readers, Count, [Next]_vars PROVE Count'
  OBVIOUS
<1>0. /\ Scan /\ Scan' /\ pending \in Int /\ timer.new \in Nat /\ poll.missed \in Nat
      /\ IsFiniteSet(TimedOut) /\ Cardinality(TimedOut) \in Nat
      /\ timer.pc # "idle" \/ ~trigger_reset => Counted
  BY CountIs, ScanStep, LeftFinite, Finite DEF Types, RingTypes, PollTypes
<1> SUFFICES ASSUME timer'.pc # "idle" \/ ~trigger_reset' PROVE Counted'
  BY <1>0 DEF Count, Scan, Counted, Missed
<1> USE DEF Counted
<1>1. ASSUME TimedOut' = TimedOut, Missed' = Missed, pending' = pending, timer' = timer,
             trigger_reset => trigger_reset'
      PROVE  Counted'
  BY <1>0, <1>1
<1>2. ASSUME NEW p \in Packets, Place(p) PROVE Counted'
  <2>1. TimedOut' = TimedOut
    <3>1. free_ids[next_to_use] \notin TimedOut
      BY <1>2, FreeIdLeft DEF TimedOut
    <3> QED
      BY <1>2, <3>1, PlaceSlots
  <2> QED
    BY <1>1, <1>2, <2>1 DEF Place, napiVars, Missed, Cleaning
<1>3. CASE Clean
  <2> DEFINE id == Head(cq)
  <2>1. /\ npc = "clean" /\ UNCHANGED <<npc, pending, timer, trigger_reset>> /\ id \in InFlight
        /\ TimedOut' = TimedOut \ {id}
        /\ poll'.missed = poll.missed + IF tx_info[id].timed_out THEN 1 ELSE 0
    BY <1>3, CleanSlots DEF Clean
  <2>2. Missed = poll.missed /\ Missed' = poll'.missed
    BY <2>1 DEF Missed, Cleaning
  <2>3. (id \in TimedOut) <=> tx_info[id].timed_out
    BY <2>1 DEF TimedOut
  <2> HIDE DEF id
  <2>4. CASE id \in TimedOut
    <3>1. Cardinality(TimedOut') = Cardinality(TimedOut) - 1
      BY <1>0, <2>1, <2>4, FS_RemoveElement
    <3>2. poll'.missed = poll.missed + 1
      BY <2>1, <2>3, <2>4
    <3> QED
      BY <1>0, <2>1, <2>2, <3>1, <3>2
  <2>5. CASE id \notin TimedOut
    <3>1. TimedOut' = TimedOut /\ poll'.missed = poll.missed
      BY <1>0, <2>1, <2>3, <2>5
    <3>2. Missed' = Missed
      BY <2>2, <3>1
    <3> QED
      BY <1>1, <2>1, <3>1, <3>2
  <2> QED
    BY <2>4, <2>5
<1>4. CASE Tick
  <2>1. TimedOut' = TimedOut
    BY <1>4, AgeSlots
  <2> QED
    BY <1>1, <1>4, <2>1 DEF Tick, napiVars, Missed, Cleaning
<1>5. CASE TimerJudges
  <2>1. Missed' = Missed /\ UNCHANGED pending /\ timer.pc = "judge"
    BY <1>5 DEF TimerJudges, napiVars, Missed, Cleaning
  <2>2. \/ timer'.new = timer.new + 1
        \/ timer'.new = timer.new /\ UNCHANGED tx_info
    BY <1>5, JudgesAs
  <2>3. CASE timer'.new = timer.new + 1
    <3>1. TimedOut' \subseteq TimedOut \cup {timer.slot}
      BY <1>5, AgeSlots
    <3>2. /\ IsFiniteSet(TimedOut \cup {timer.slot})
          /\ Cardinality(TimedOut \cup {timer.slot}) <= Cardinality(TimedOut) + 1
      BY <1>0, FS_AddElement
    <3>3. /\ Cardinality(TimedOut') <= Cardinality(TimedOut \cup {timer.slot})
          /\ Cardinality(TimedOut') \in Nat /\ Cardinality(TimedOut \cup {timer.slot}) \in Nat
      BY <3>1, <3>2, FS_Subset, FS_CardinalityType
    <3>4. Missed \in Nat
      BY <1>0 DEF Missed
    <3> QED
      BY <1>0, <2>1, <2>3, <3>2, <3>3, <3>4
  <2>4. CASE timer'.new = timer.new /\ UNCHANGED tx_info
    <3>1. TimedOut' = TimedOut
      BY <1>5, <2>4, AgeSlots
    <3> QED
      BY <1>0, <2>1, <2>4, <3>1
  <2> QED
    BY <2>2, <2>3, <2>4
<1>6. CASE Recreate
  <2>1. FreshRing'
    BY <1>6 DEF FreshRing, Recreate
  <2>2. (TimedOut = {})'
    BY <2>1, IdRingFresh, PTL
  <2>3. Cardinality(TimedOut') = 0
    BY <2>2, FS_EmptySet
  <2>4. Missed' = 0 /\ pending' = 0 /\ timer'.new = 0
    BY <1>0, <1>6 DEF Recreate, Missed, Cleaning, Scan
  <2> QED
    BY <2>3, <2>4
<1>7. CASE UNCHANGED <<free_ids, next_to_use, tx_info>>
  <2>0. TimedOut' = TimedOut
    BY <1>7 DEF TimedOut, InFlight
  <2>1. CASE UNCHANGED <<npc, poll, pending, timer>> /\ (trigger_reset => trigger_reset')
    BY <1>1, <2>0, <2>1 DEF Missed, Cleaning
  <2>2. CASE StartPoll
    <3>1. [NoPoll EXCEPT !.next_to_clean = next_to_clean].missed = 0
      BY DEF NoPoll
    <3>2. \/ UNCHANGED <<npc, poll>>
          \/ /\ npc = "idle" /\ npc' = "clean"
             /\ poll' = [NoPoll EXCEPT !.next_to_clean = next_to_clean]
      BY <2>2 DEF StartPoll
    <3>3. Missed' = Missed
      <4>1. CASE UNCHANGED <<npc, poll>>
        BY <4>1 DEF Missed, Cleaning
      <4>2. CASE npc = "idle" /\ npc' = "clean" /\ poll'.missed = 0
        BY <4>2 DEF Missed, Cleaning
      <4> QED
        BY <3>1, <3>2, <4>1, <4>2
    <3> QED
      BY <1>1, <2>0, <2>2, <3>3 DEF StartPoll
  <2>3. CASE CleanInvalid \/ CleanDone
    <3>1. Missed' = Missed
      BY <2>3 DEF CleanInvalid, CleanDone, Missed, Cleaning
    <3> QED
      BY <1>1, <2>0, <2>3, <3>1 DEF CleanInvalid, CleanDone
  <2>4. CASE Ack
    <3>1. Missed = poll.missed /\ Missed' = 0 /\ pending' = pending - poll.missed
          /\ UNCHANGED <<timer, trigger_reset>>
      BY <2>4 DEF Ack, Missed, Cleaning
    <3> QED
      BY <1>0, <2>0, <3>1
  <2>5. CASE LookForWake \/ Wake \/ (\E rxDone \in BOOLEAN : EndPoll(rxDone))
    <3>1. Missed' = Missed
      BY <2>5 DEF LookForWake, Wake, EndPoll, Missed, Cleaning
    <3> QED
      BY <1>1, <2>0, <2>5, <3>1 DEF LookForWake, Wake, EndPoll
  <2>6. CASE Timer /\ ~TimerJudges
    <3>1. Missed' = Missed
      BY <2>6 DEF Timer, TimerStart, TimerLooks, TimerAdds, TimerCompares, TimerChecksNapi,
         TimerTakesCompletions, timerUnchanged, napiVars, Missed, Cleaning
    <3>2. CASE TimerStart
      <4>1. [NoTimer EXCEPT !.pc = "look", !.left = Ids].new = 0
        BY DEF NoTimer
      <4>2. timer.new = 0 /\ timer'.new = 0 /\ UNCHANGED pending /\ ~trigger_reset
        BY <1>0, <3>2, <4>1 DEF TimerStart, Scan
      <4> QED
        BY <1>0, <2>0, <3>1, <4>2
    <3>3. ASSUME NEW id \in Ids, TimerLooks(id) PROVE Counted'
      <4>1. timer'.new = timer.new /\ UNCHANGED pending /\ timer.pc = "look"
        BY <3>3 DEF TimerLooks, Types, TimerTypes
      <4> QED
        BY <1>0, <2>0, <3>1, <4>1
    <3>4. CASE TimerAdds
      <4>1. [NoTimer EXCEPT !.pc = IF timer.first THEN "napi" ELSE "compare"].new = 0
        BY DEF NoTimer
      <4>2. timer'.new = 0 /\ pending' = pending + timer.new /\ timer.pc = "look"
        BY <3>4, <4>1 DEF TimerAdds
      <4> QED
        BY <1>0, <2>0, <3>1, <4>2
    <3>5. CASE TimerCompares \/ TimerChecksNapi
      <4>1. timer'.new = timer.new /\ UNCHANGED pending /\ timer.pc # "idle"
        BY <3>5 DEF TimerCompares, TimerChecksNapi, Types, TimerTypes
      <4> QED
        BY <1>0, <2>0, <3>1, <4>1
    <3>6. CASE TimerTakesCompletions
      <4>1. trigger_reset' /\ timer'.pc = "idle"
        BY <3>6 DEF TimerTakesCompletions, NoTimer, Readers
      <4> QED
        BY <4>1
    <3> QED
      BY <2>6, <3>2, <3>3, <3>4, <3>5, <3>6 DEF Timer
  <2> QED
    BY <1>2, <1>3, <1>4, <1>5, <1>6, <2>1, <2>2, <2>3, <2>4, <2>5, <2>6 DEF Next, Xmit, Send,
       Drop, StopIfFull, Recheck, Ring, Schedule, Poll, Device, DeviceCompletes,
       DeviceMisreports, napiVars, vars
<1> QED
  BY <1>2, <1>3, <1>4, <1>5, <1>6, <1>7, OtherSlots

-----------------------------------------------------------------------------
(***************************************************************************)
(* The theorems                                                            *)
(***************************************************************************)
LEMMA IInvInit == Init => IInv
<1> SUFFICES ASSUME Init PROVE IInv
  OBVIOUS
<1>1. Types
  BY TypesInit
<1>2. IdRing /\ InFlight = {} /\ TimedOut = {} /\ Entries = {}
  BY IdRingFresh DEF FreshRing, Init
<1>3. Cardinality(Entries) = 0 /\ Cardinality(TimedOut) = 0 /\ Cardinality({}) = 0
  BY <1>2, FS_EmptySet
<1>4. ~Cleaning /\ used = 0
  BY DEF Init, Cleaning
<1>5. EntriesAccounted
  BY <1>3, <1>4 DEF EntriesAccounted
<1>6. Room
  BY <1>4, SizeType DEF Room, HaveEnoughSpace
<1>7. Readers
  BY DEF Readers, Init, NoTimer
<1>8. Scan
  BY <1>3, SizeType DEF Scan, Init, NoTimer
<1>9. Counted
  BY <1>3, <1>4 DEF Counted, Missed, Init, NoTimer
<1>10. Count
  BY <1>8, <1>9, CountIs
<1>11. OnTheWay /\ NothingHeldBack
  BY <1>2 DEF OnTheWay, NothingHeldBack, Init
<1> QED
  BY <1>1, <1>2, <1>5, <1>6, <1>7, <1>10, <1>11 DEF IInv

LEMMA IInvStep == IInv /\ [Next]_vars => IInv'
  BY TypesStep, IdRingStep, EntriesStep, RoomStep, ReadersStep, CountStep, OnTheWayStep,
     HeldBackStep DEF IInv

LEMMA IInvAlways == Spec => []IInv
  BY IInvInit, IInvStep, PTL DEF Spec

\* The queue, the sender, NAPI, the timer and the device keep their types; the
\* entries in use stay within the ring, the counters of a poll and of a scan
\* within what one poll and one scan can count.
THEOREM TypeCorrect == Spec => []TypeOK
<1>1. ASSUME IInv PROVE TypeOK
  <2>1. used \in 0..(RingSize - 1)
    <3>1. used \in Int /\ used <= RingSize - 1 /\ poll.done \in Nat /\ RingSize \in Nat
          /\ Cardinality(Entries) \in Nat
      BY <1>1, EntriesFinite, SizeType DEF IInv, Types, RingTypes, PollTypes
    <3>2. used \in Nat
      BY <1>1, <3>1 DEF IInv, EntriesAccounted
    <3> QED
      BY <3>1, <3>2
  <2>2. poll.missed \in 0..TxBudget
    BY <1>1, SizeType DEF IInv, Types, PollTypes
  <2>3. poll \in [next_to_clean : Slots, pkts : 0..TxBudget, done : Nat, missed : 0..TxBudget]
    BY <1>1, <2>2 DEF IInv, Types, PollTypes
  <2>4. timer.new \in 0..RingSize
    <3>1. Scan /\ Cardinality(timer.left) \in Nat /\ timer.new \in Nat /\ RingSize \in Nat
      BY <1>1, CountIs, LeftFinite, SizeType DEF IInv, Types
    <3> QED
      BY <3>1 DEF Scan
  <2>5. timer \in [pc : {"idle", "look", "judge", "compare", "napi", "cq"}, left : SUBSET Ids,
                   slot : Ids \cup {NoSlot}, seen : 0..3, new : 0..RingSize, first : BOOLEAN]
    BY <1>1, <2>4 DEF IInv, Types, TimerTypes
  <2> QED
    BY <1>1, <2>1, <2>3, <2>5 DEF IInv, Types, RingTypes, FlagTypes, DevTypes, TypeOK
<1> QED
  BY <1>1, IInvAlways, PTL

\* Between sender, handler and device no request id and no entry of the
\* submission queue is lost or given out twice, whatever the device completes.
THEOREM NothingLost == Spec => []NothingIsLost
<1>1. ASSUME IInv PROVE NothingIsLost
  <2>1. IdRing /\ EntriesAccounted /\ free_ids \in [Slots -> Ids] /\ next_to_use \in Slots
        /\ FreeCount \in 0..RingSize /\ RingSize \in Nat
    BY <1>1, Finite, SizeType DEF IInv, Types, RingTypes
  <2> DEFINE free == RingSize - Cardinality(InFlight)
             window == {(next_to_use + k) % RingSize : k \in 0..(free - 1)}
  <2>2. free = FreeCount /\ window = {At(k) : k \in 0..(FreeCount - 1)}
    BY DEF FreeCount, At
  <2>3. \A k \in 0..(FreeCount - 1) : At(k) \in Slots
    BY <2>1, AtSteps
  <2> HIDE DEF window, free
  <2>4. \A i \in window : free_ids[i] \in Ids \ InFlight
    BY <2>1, <2>2, <2>3 DEF IdRing
  <2>5. \A id \in Ids \ InFlight : \E i \in window : free_ids[i] = id
    BY <2>1, <2>2 DEF IdRing
  <2>6. {free_ids[i] : i \in window} = Ids \ InFlight
    BY <2>4, <2>5
  <2>7. (next_to_use + free) % RingSize = IF Cleaning THEN poll.next_to_clean ELSE next_to_clean
    BY <2>1, <2>2 DEF IdRing, At
  <2>8. IdsAccounted
    BY <2>6, <2>7 DEF IdsAccounted, window, free
  <2> QED
    BY <2>1, <2>8 DEF NothingIsLost
<1> QED
  BY <1>1, IInvAlways, PTL

\* A queue the stack may send on has room for any packet.
THEOREM RoomWhenOpen == Spec => []OpenMeansRoom
<1>1. IInv => OpenMeansRoom
  BY DEF IInv, Room, OpenMeansRoom
<1> QED
  BY <1>1, IInvAlways, PTL

\* A stack that has nothing more to send has told the device of everything.
THEOREM DoorbellRung == Spec => []NothingHeldBack
<1>1. IInv => NothingHeldBack
  BY DEF IInv
<1> QED
  BY <1>1, IInvAlways, PTL

\* NAPI and the timer never read the completion queue at once.
THEOREM OneReader == Spec => []OneCompletionReader
<1>1. IInv => OneCompletionReader
  BY DEF IInv, Readers, OneCompletionReader
<1> QED
  BY <1>1, IInvAlways, PTL

\* The timer never compares a negative count with its threshold, in whatever
\* order it and NAPI add and subtract.
THEOREM NeverNegative == Spec => []CountNotNegative
<1>1. ASSUME IInv PROVE CountNotNegative
  <2> SUFFICES ASSUME timer.pc = "compare" PROVE pending >= 0
    BY DEF CountNotNegative
  <2>1. Scan /\ Counted
    BY <1>1, CountIs DEF IInv
  <2>2. timer.new = 0 /\ Cardinality(TimedOut) \in Nat /\ poll.missed \in Nat /\ pending \in Int
    BY <1>1, <2>1, Finite DEF Scan, IInv, Types, PollTypes, RingTypes
  <2> QED
    BY <2>1, <2>2 DEF Counted, Missed
<1> QED
  BY <1>1, IInvAlways, PTL
=============================================================================
