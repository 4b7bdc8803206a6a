-------------------------------- MODULE TxQueue --------------------------------
(***************************************************************************)
(* A transmit queue of the Linux driver (src/kernel/linux/ena/             *)
(* ena_netdev.c): ena_start_xmit() under the queue's transmit lock, the    *)
(* completion handler ena_clean_tx_irq() in NAPI context, and the timer    *)
(* that looks for missing completions.  They share the ring of free        *)
(* request ids, the slots of the packets and the queue's state without a   *)
(* common lock.                                                            *)
(*                                                                         *)
(* Descriptors are only counted here: TxSq says how they are placed and    *)
(* when a count of free ones is enough.  That NAPI is scheduled when there *)
(* are completions is what IoIntr shows of the interrupts.                 *)
(***************************************************************************)
EXTENDS Integers, Sequences, FiniteSets, FiniteSetsExt, Functions, SequencesExt

CONSTANTS
    Ids,           \* request ids: ring_size of them, also the submission queue's q_depth
    SglSize,       \* sgl_size: what the device takes for a packet
    MaxSkbFrags,   \* MAX_SKB_FRAGS: a packet has that many fragments and a head
    Packets,       \* what the stack sends: [bufs, descs, more], more for xmit_more
    Threshold,     \* missing_tx_completion_threshold
    Watched,       \* FALSE for missing_tx_completion_to = ENA_HW_HINTS_NO_TIMEOUT
    MaxMisreports  \* bound: completions of packets the device does not have

ASSUME IdsAssumption == IsFiniteSet(Ids) /\ Ids # {}
ASSUME SglAssumption == SglSize \in Nat \ {0} /\ MaxSkbFrags \in Nat
ASSUME ThresholdAssumption == Threshold \in Nat /\ MaxMisreports \in Nat
ASSUME WatchedAssumption == Watched \in BOOLEAN

RingSize == Cardinality(Ids)
\* ena_check_and_linearize_skb(), ena_tx_map_skb(): the most buffers of a packet.
MaxBufs == Min({SglSize, MaxSkbFrags + 1})

\* Every buffer takes a descriptor, and the meta one if it is sent.
ASSUME PacketsAssumption ==
    \A p \in Packets :
        p.bufs \in 1..MaxBufs /\ p.descs \in {p.bufs, p.bufs + 1} /\ p.more \in BOOLEAN

\* The smallest ring, ENA_MIN_RING_SIZE, is many times the largest packet.
ASSUME RingAssumption == RingSize > MaxBufs + 1

Slots == 0..(RingSize - 1)

VARIABLES
    \* struct ena_ring
    free_ids, next_to_use, next_to_clean,
    tx_info,         \* [descs : tx_descs, 0 when total_tx_size is; sent : age of
                     \*  tx_sent_jiffies, 0 when it is 0; timed_out]
    used,            \* tail - next_to_comp of the submission queue
    pending,         \* tx_stats.pending_timedout_pkts
    stopped,         \* the stack's queue is stopped
    trigger_reset,   \* ENA_FLAG_TRIGGER_RESET
    \* ena_start_xmit(): where it is, netdev_xmit_more() of the packet it sends
    xpc, more,
    \* ena_io_poll(): where it is, and its locals
    npc, poll,
    SCHED,           \* NAPIF_STATE_SCHED
    timer,           \* check_missing_comp_in_tx_queue()
    \* the device: packets placed and not announced, announced, the completion
    \* queue, bad completions so far
    unannounced, inDevice, cq, misreports

ringVars == <<free_ids, next_to_use, next_to_clean, tx_info, used>>
xmitVars == <<stopped, xpc, more>>
napiVars == <<npc, poll, SCHED>>
devVars == <<unannounced, inDevice, cq, misreports>>
vars == <<ringVars, pending, trigger_reset, xmitVars, napiVars, timer, devVars>>

\* Mutant: the index runs on behind the end of the ring.
FollowingRunsOn(i) == i + 1
\* ENA_TX_RING_IDX_NEXT
Following(i) == (i + 1) % RingSize

\* The check of the host memory placement; TxSq treats both.
HaveEnoughSpace(required) == RingSize - 1 - used >= required

\* Mutant: the header and the meta descriptor are forgotten.
StopSpaceBare == SglSize
StopSpace == SglSize + 2

\* ENA_TX_WAKEUP_THRESH
WakeupThresh == MaxSkbFrags + 2

EmptySlot == [descs |-> 0, sent |-> 0, timed_out |-> FALSE]
NoPoll == [next_to_clean |-> 0, pkts |-> 0, done |-> 0, missed |-> 0]
NoSlot == "none"
NoTimer == [pc |-> "idle", left |-> {}, slot |-> NoSlot, seen |-> 0, new |-> 0, first |-> FALSE]

\* ena_setup_tx_resources() numbers the free ids; which number is which id does
\* not matter.
FreshIds == Bijection(Slots, Ids)

\* The end of ena_up() schedules NAPI.
Init ==
    /\ free_ids \in FreshIds /\ next_to_use = 0 /\ next_to_clean = 0
    /\ tx_info = [id \in Ids |-> EmptySlot] /\ used = 0 /\ pending = 0
    /\ stopped = FALSE /\ trigger_reset = FALSE
    /\ xpc = "idle" /\ more = FALSE
    /\ npc = "idle" /\ poll = NoPoll
    /\ SCHED = TRUE /\ timer = NoTimer
    /\ unannounced = {} /\ inDevice = {} /\ cq = << >> /\ misreports = 0

-----------------------------------------------------------------------------
(***************************************************************************)
(* Sending: ena_start_xmit(), which holds the transmit lock while xpc is   *)
(* not "idle".                                                             *)
(***************************************************************************)
\* ena_ring_tx_doorbell()
Announce == inDevice' = inDevice \cup unannounced /\ unannounced' = {}
KeepBack == UNCHANGED <<inDevice, unannounced>>

\* Mutant: a dropped packet takes the doorbell of the ones before it with it.
RingsAfterDropNever(p) == FALSE
RingsAfterDrop(p) == ~p.more /\ used > 0

\* The packet cannot be mapped for DMA, or there is no room for it (-ENOMEM).
Drop(p) ==
    /\ xpc = "idle" /\ ~stopped
    /\ IF RingsAfterDrop(p) THEN Announce ELSE KeepBack
    /\ more' = p.more
    /\ UNCHANGED <<ringVars, pending, stopped, trigger_reset, xpc, napiVars, timer, cq,
                   misreports>>

\* Mutant: timed_out is left as the slot's last packet had it.
SlotOfStale(id, n) == [descs |-> n, sent |-> 1, timed_out |-> tx_info[id].timed_out]
SlotOf(id, n) == [descs |-> n, sent |-> 1, timed_out |-> FALSE]

\* ena_xmit_common() places the packet.
Place(p) ==
    LET id == free_ids[next_to_use] IN
    /\ xpc = "idle" /\ ~stopped
    /\ HaveEnoughSpace(p.bufs + 1)
    /\ used' = used + p.descs
    /\ tx_info' = [tx_info EXCEPT ![id] = SlotOf(id, p.descs)]
    /\ next_to_use' = Following(next_to_use)
    /\ unannounced' = unannounced \cup {id}
    /\ more' = p.more
    /\ xpc' = "check"
    /\ UNCHANGED <<free_ids, next_to_clean, pending, stopped, trigger_reset, napiVars,
                   timer, inDevice, cq, misreports>>

StopIfFull ==
    /\ xpc = "check"
    /\ IF HaveEnoughSpace(StopSpace)
       THEN xpc' = "ring" /\ UNCHANGED stopped
       ELSE xpc' = "recheck" /\ stopped' = TRUE
    /\ UNCHANGED <<ringVars, pending, trigger_reset, more, napiVars, timer, devVars>>

Recheck ==
    /\ xpc = "recheck"
    /\ xpc' = "ring"
    /\ stopped' = ~HaveEnoughSpace(WakeupThresh)
    /\ UNCHANGED <<ringVars, pending, trigger_reset, more, napiVars, timer, devVars>>

\* Mutant: the doorbell waits for the packet to come although the queue is stopped.
RingsNowIfLast == ~more
RingsNow == stopped \/ ~more

Ring ==
    /\ xpc = "ring"
    /\ xpc' = "idle"
    /\ IF RingsNow THEN Announce ELSE KeepBack
    /\ more' = (more /\ ~stopped)
    /\ UNCHANGED <<ringVars, pending, stopped, trigger_reset, napiVars, timer, cq,
                   misreports>>

Send == \E p \in Packets : Drop(p) \/ Place(p)

-----------------------------------------------------------------------------
(***************************************************************************)
(* NAPI: ena_io_poll() and ena_clean_tx_irq()                              *)
(***************************************************************************)
\* ENA_TX_POLL_BUDGET_DIVIDER is 4.
TxBudget == RingSize \div 4

\* An interrupt or a busy poller schedules NAPI.  The kernel does so at any time.
Schedule ==
    /\ ~SCHED
    /\ SCHED' = TRUE
    /\ UNCHANGED <<ringVars, pending, trigger_reset, xmitVars, npc, poll, timer, devVars>>

\* napi_complete_done(), unless NAPI was scheduled again meanwhile.
CompleteDone == SCHED' \in BOOLEAN

\* Mutant: the completion queue is polled whatever the reset flag says.
MayPollAlways == TRUE
MayPoll == ~trigger_reset

StartPoll ==
    /\ SCHED /\ npc = "idle"
    /\ IF MayPoll
       THEN /\ npc' = "clean"
            /\ poll' = [NoPoll EXCEPT !.next_to_clean = next_to_clean]
            /\ UNCHANGED SCHED
       ELSE CompleteDone /\ UNCHANGED <<npc, poll>>
    /\ UNCHANGED <<ringVars, pending, trigger_reset, xmitVars, timer, devVars>>

Acked(id) == tx_info[id].descs

\* Mutant: the next free id goes over this one.
NextCleanStuck == poll.next_to_clean
NextClean == Following(poll.next_to_clean)

\* One completion: ena_com_tx_comp_metadata_get(), validate_tx_req_id() and the
\* body of the loop.
Clean ==
    LET id == Head(cq) IN
    /\ npc = "clean" /\ cq # << >> /\ poll.pkts < TxBudget
    /\ tx_info[id].descs # 0
    /\ cq' = Tail(cq)
    /\ poll' = [next_to_clean |-> NextClean,
                pkts |-> poll.pkts + 1,
                done |-> poll.done + Acked(id),
                missed |-> poll.missed + IF tx_info[id].timed_out THEN 1 ELSE 0]
    /\ tx_info' = [tx_info EXCEPT ![id].descs = 0, ![id].sent = 0]
    /\ free_ids' = [free_ids EXCEPT ![poll.next_to_clean] = id]
    /\ UNCHANGED <<next_to_use, next_to_clean, used, pending, trigger_reset, xmitVars, npc,
                   SCHED, timer, unannounced, inDevice, misreports>>

\* The id is not a packet's: handle_invalid_req_id() asks for a reset.
CleanInvalid ==
    /\ npc = "clean" /\ cq # << >> /\ poll.pkts < TxBudget
    /\ tx_info[Head(cq)].descs = 0
    /\ cq' = Tail(cq)
    /\ trigger_reset' = TRUE
    /\ npc' = "ack"
    /\ UNCHANGED <<ringVars, pending, xmitVars, poll, SCHED, timer,
                   unannounced, inDevice, misreports>>

CleanDone ==
    /\ npc = "clean" /\ (cq = << >> \/ poll.pkts = TxBudget)
    /\ npc' = "ack"
    /\ UNCHANGED <<ringVars, pending, trigger_reset, xmitVars, poll, SCHED, timer, devVars>>

\* ena_com_comp_ack() after next_to_clean and the counter of timed out packets.
Ack ==
    /\ npc = "ack"
    /\ pending' = pending - poll.missed
    /\ next_to_clean' = poll.next_to_clean
    /\ used' = used - poll.done
    /\ npc' = "wake"
    /\ UNCHANGED <<free_ids, next_to_use, tx_info, trigger_reset, xmitVars, poll, SCHED, timer, devVars>>

\* First without the transmit lock, then, if the queue looks stopped for no
\* reason, again with it.
WakeNeeded == stopped /\ HaveEnoughSpace(WakeupThresh)

LookForWake ==
    /\ npc = "wake"
    /\ npc' = IF WakeNeeded THEN "lock" ELSE "end"
    /\ UNCHANGED <<ringVars, pending, trigger_reset, xmitVars, poll, SCHED, timer, devVars>>

Wake ==
    /\ npc = "lock" /\ xpc = "idle"
    /\ stopped' = (stopped /\ ~WakeNeeded)
    /\ npc' = "end"
    /\ UNCHANGED <<ringVars, pending, trigger_reset, xpc, more, poll, SCHED, timer, devVars>>

\* The end of the poll; rxDone says whether the receive side kept within its
\* budget.  A poll that returns its budget is repeated.
EndPoll(rxDone) ==
    /\ npc = "end"
    /\ npc' = "idle" /\ poll' = NoPoll
    /\ IF trigger_reset \/ (rxDone /\ poll.pkts < TxBudget)
       THEN CompleteDone
       ELSE UNCHANGED SCHED
    /\ UNCHANGED <<ringVars, pending, trigger_reset, xmitVars, timer, devVars>>

-----------------------------------------------------------------------------
(***************************************************************************)
(* The device                                                              *)
(***************************************************************************)
DeviceCompletes(id) ==
    /\ id \in inDevice
    /\ inDevice' = inDevice \ {id}
    /\ cq' = Append(cq, id)
    /\ UNCHANGED <<ringVars, pending, trigger_reset, xmitVars, napiVars, timer,
                   unannounced, misreports>>

\* A completion of a packet the device does not have.
DeviceMisreports(id) ==
    /\ misreports < MaxMisreports
    /\ misreports' = misreports + 1
    /\ id \notin inDevice /\ Len(cq) < RingSize
    /\ cq' = Append(cq, id)
    /\ UNCHANGED <<ringVars, pending, trigger_reset, xmitVars, napiVars, timer,
                   unannounced, inDevice>>

-----------------------------------------------------------------------------
(***************************************************************************)
(* The timer: check_missing_comp_in_tx_queue().  Time passes in units of   *)
(* missing_tx_completion_to_jiffies; a packet is sent at age 1, is late at *)
(* age 2 and beyond the graceful timeout at age 3.  An age of 0, read from *)
(* a slot that was just cleaned, is a time long ago.                       *)
(***************************************************************************)
Late(age) == age # 1
VeryLate(age) == age \in {0, 3}

Tick ==
    /\ Watched /\ timer.pc = "idle"     \* bound: a scan takes no time
    /\ \E id \in Ids : tx_info[id].sent \in 1..2
    /\ tx_info' = [id \in Ids |->
                      [tx_info[id] EXCEPT !.sent = IF @ \in 1..2 THEN @ + 1 ELSE @]]
    /\ UNCHANGED <<free_ids, next_to_use, next_to_clean, used, pending, trigger_reset,
                   xmitVars, napiVars, timer, devVars>>

timerUnchanged == <<ringVars, xmitVars, napiVars, devVars>>

TimerStart ==
    /\ Watched /\ timer.pc = "idle" /\ ~trigger_reset
    /\ timer' = [NoTimer EXCEPT !.pc = "look", !.left = Ids]
    /\ UNCHANGED <<timerUnchanged, pending, trigger_reset>>

\* The next slot with a packet, in check_pending_pkts_in_txsq() with one that was
\* not counted yet.  The code goes through the slots in their order, the model
\* in any; it passes the ones without a packet at once.
Occupied(id) == tx_info[id].sent # 0 /\ ~(timer.first /\ tx_info[id].timed_out)
Remaining == {id \in timer.left : Occupied(id)}

TimerLooks(id) ==
    /\ timer.pc = "look" /\ id \in Remaining
    /\ timer' = [timer EXCEPT !.pc = "judge", !.seen = tx_info[id].sent,
                              !.left = Remaining \ {id}, !.slot = id]
    /\ UNCHANGED <<timerUnchanged, pending, trigger_reset>>

\* Is the packet late?  tx_sent_jiffies is written without a lock: the code
\* reads it twice, and the compiler may use the value of the first read for
\* both.  last_intr_jiffies may still be 0, or last_napi_jiffies old.
TimerJudges ==
    LET id == timer.slot
        look == [timer EXCEPT !.pc = "look", !.seen = 0, !.slot = NoSlot]
        Count == /\ tx_info' = [tx_info EXCEPT ![id].timed_out = TRUE]
                 /\ timer' = [look EXCEPT !.new = @ + 1]
    IN
    /\ timer.pc = "judge"
    /\ \E age \in {timer.seen, tx_info[id].sent}, noInterrupt, napiLate \in BOOLEAN :
        IF ~timer.first /\ noInterrupt /\ VeryLate(age)
        THEN timer' = [look EXCEPT !.first = TRUE, !.left = @ \cup {id}] /\ UNCHANGED tx_info
        ELSE IF /\ Late(age) /\ (timer.first \/ ~tx_info[id].timed_out)
                /\ timer.first \/ ~(napiLate /\ SCHED) \/ VeryLate(age)
             THEN Count
             ELSE timer' = look /\ UNCHANGED tx_info
    /\ UNCHANGED <<free_ids, next_to_use, next_to_clean, used, pending, trigger_reset,
                   xmitVars, napiVars, devVars>>

\* The end of the scan.  Without a first interrupt the device is reset anyway.
TimerAdds ==
    /\ timer.pc = "look" /\ Remaining = {}
    /\ pending' = pending + timer.new
    /\ timer' = [NoTimer EXCEPT !.pc = IF timer.first THEN "napi" ELSE "compare"]
    /\ trigger_reset' = (trigger_reset \/ timer.first)
    /\ UNCHANGED timerUnchanged

\* int against u32: a negative count would be above any threshold.
AboveThreshold == pending < 0 \/ pending > Threshold

TimerCompares ==
    /\ timer.pc = "compare"
    /\ timer' = [timer EXCEPT !.pc = IF AboveThreshold THEN "napi" ELSE "idle"]
    /\ trigger_reset' = (trigger_reset \/ AboveThreshold)
    /\ UNCHANGED <<timerUnchanged, pending>>

\* With the reset flag set NAPI leaves the completions alone, unless it runs.
\* ena_reset_device() then only adds the reason.
TimerChecksNapi ==
    /\ timer.pc = "napi"
    /\ timer' = [timer EXCEPT !.pc = IF SCHED THEN "idle" ELSE "cq"]
    /\ UNCHANGED <<timerUnchanged, pending, trigger_reset>>

\* check_cdesc_in_tx_cq() takes the completions to tell the reason of the reset.
TimerTakesCompletions ==
    /\ timer.pc = "cq"
    /\ pending' = pending - Cardinality({k \in DOMAIN cq : tx_info[cq[k]].timed_out})
    /\ cq' = << >>
    /\ timer' = NoTimer
    /\ UNCHANGED <<ringVars, trigger_reset, xmitVars, napiVars, unannounced, inDevice,
                   misreports>>

\* The reset: the timer is stopped, NAPI disabled, the queue freed, and set up
\* again (ena_destroy_device, ena_down, ena_up).
Recreate ==
    /\ trigger_reset
    /\ xpc = "idle" /\ npc = "idle" /\ ~SCHED /\ timer.pc = "idle"
    /\ free_ids' \in FreshIds /\ next_to_use' = 0 /\ next_to_clean' = 0
    /\ tx_info' = [id \in Ids |-> EmptySlot] /\ used' = 0 /\ pending' = 0
    /\ stopped' = FALSE /\ trigger_reset' = FALSE /\ more' = FALSE
    /\ SCHED' = TRUE
    /\ unannounced' = {} /\ inDevice' = {} /\ cq' = << >>
    /\ UNCHANGED <<xpc, npc, poll, timer, misreports>>

-----------------------------------------------------------------------------
Xmit == Send \/ StopIfFull \/ Recheck \/ Ring
Poll == \/ StartPoll \/ Clean \/ CleanInvalid \/ CleanDone \/ Ack \/ LookForWake \/ Wake
        \/ \E rxDone \in BOOLEAN : EndPoll(rxDone)
Timer == \/ TimerStart \/ (\E id \in Ids : TimerLooks(id)) \/ TimerJudges \/ TimerAdds
         \/ TimerCompares \/ TimerChecksNapi \/ TimerTakesCompletions
Device == \E id \in Ids : DeviceCompletes(id) \/ DeviceMisreports(id)

Next == \/ Xmit \/ Schedule \/ Poll
        \/ Timer \/ Device \/ Tick \/ Recreate

Spec == Init /\ [][Next]_vars

\* The kernel runs what it scheduled: a transmit goes on, and the stack sends the
\* packet it announced with xmit_more; NAPI is scheduled when there are
\* completions (IoIntr); the device completes every packet.  Nothing is assumed
\* of new packets, the clock and the timer.
Fairness ==
    /\ WF_vars(StopIfFull \/ Recheck \/ Ring)
    /\ WF_vars(more /\ Send)
    /\ WF_vars(cq # << >> /\ Schedule)
    /\ WF_vars(Poll)
    /\ \A id \in Ids : WF_vars(DeviceCompletes(id))

LiveSpec == Spec /\ Fairness

-----------------------------------------------------------------------------
(***************************************************************************)
(* Properties                                                              *)
(***************************************************************************)
\* The ring, the sender, NAPI, the timer and the device keep their types, and no
\* more entries are in use than the submission queue has.
TypeOK ==
    /\ free_ids \in [Slots -> Ids] /\ next_to_use \in Slots /\ next_to_clean \in Slots
    /\ tx_info \in [Ids -> [descs : 0..(MaxBufs + 1), sent : 0..3, timed_out : BOOLEAN]]
    /\ used \in 0..(RingSize - 1) /\ pending \in Int
    /\ stopped \in BOOLEAN /\ trigger_reset \in BOOLEAN /\ more \in BOOLEAN
    /\ xpc \in {"idle", "check", "recheck", "ring"}
    /\ npc \in {"idle", "clean", "ack", "wake", "lock", "end"}
    /\ poll \in [next_to_clean : Slots, pkts : 0..TxBudget, done : Nat, missed : 0..TxBudget]
    /\ SCHED \in BOOLEAN
    /\ timer \in [pc : {"idle", "look", "judge", "compare", "napi", "cq"}, left : SUBSET Ids,
                  slot : Ids \cup {NoSlot}, seen : 0..3, new : 0..RingSize,
                  first : BOOLEAN]
    /\ unannounced \subseteq Ids /\ inDevice \subseteq Ids /\ cq \in Seq(Ids)
    /\ misreports \in 0..MaxMisreports

InFlight == {id \in Ids : tx_info[id].descs # 0}
\* Each descriptor of theirs, as its packet's id and its number in the packet.
Entries == {e \in Ids \X (1..(MaxBufs + 1)) : e[2] <= tx_info[e[1]].descs}
Cleaning == npc \in {"clean", "ack"}

\* The ring of free ids and the slots of the packets agree: the ids between
\* next_to_use and where the handler puts the next one are exactly those no
\* packet has, each once, so that ena_start_xmit() never takes a slot in use
\* (its WARN "TX descriptor is still in use"), even when the device completes
\* packets it does not have.
IdsAccounted ==
    LET free == RingSize - Cardinality(InFlight)
        window == {(next_to_use + k) % RingSize : k \in 0..(free - 1)}
    IN
    /\ {free_ids[i] : i \in window} = Ids \ InFlight
    /\ (next_to_use + free) % RingSize =
          IF Cleaning THEN poll.next_to_clean ELSE next_to_clean

\* The submission queue's entries in use are those of the packets in flight and
\* of the ones cleaned but not yet acknowledged.
EntriesAccounted == used = Cardinality(Entries) + (IF Cleaning THEN poll.done ELSE 0)

\* Nothing is lost and nothing given out twice on the way of a packet through the
\* queue: neither its id nor its entries.
NothingIsLost == IdsAccounted /\ EntriesAccounted

\* While the stack may send there is room for any packet: none is dropped with
\* -ENOMEM, whoever woke the queue.
OpenMeansRoom == xpc = "idle" /\ ~stopped => HaveEnoughSpace(MaxBufs + 1)

\* When the stack has nothing more to send, the device knows of every packet,
\* also when the last one was dropped or the queue was stopped in a burst (as
\* long as it completes only packets it was told of).
NothingHeldBack == xpc = "idle" /\ ~more /\ misreports = 0 => unannounced = {}

\* The timer takes completions only when NAPI does not: "to prevent it from
\* accessing CQ concurrently with check_cdesc_in_tx_cq()".
OneCompletionReader == ~(npc = "clean" /\ timer.pc = "cq")

\* The timer and NAPI add and subtract timed out packets in any order, but what
\* the timer compares, as an unsigned number, is never negative: no reset
\* without a packet that is late.
CountNotNegative == timer.pc = "compare" => pending >= 0

\* "accurate statistics of currently pending timed out packets": with the timer
\* and NAPI at rest the counter says how many packets in flight are timed out.
PendingIsAccurate ==
    timer.pc = "idle" /\ ~Cleaning /\ ~trigger_reset =>
        pending = Cardinality({id \in InFlight : tx_info[id].timed_out})

\* A stopped queue is woken, unless a reset was asked for: the handler's
\* acknowledgement and the sender's stop are never both missed ("The queue will
\* remain stopped forever").
StoppedIsWoken == stopped ~> (~stopped \/ trigger_reset)
=============================================================================
