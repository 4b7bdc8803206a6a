------------------------------ MODULE AfXdpQueue ------------------------------
(***************************************************************************)
(* A queue pair of the Linux driver that an AF_XDP socket is bound to      *)
(* (src/kernel/linux/ena/ena_xdp.c): ena_af_xdp_io_poll(), which sends     *)
(* from the socket's ring, returns what was sent in the order in which it  *)
(* was handed over, and receives to the socket's frames; and the flags by  *)
(* which the driver asks the application to wake it.                       *)
(*                                                                         *)
(* A frame of the socket's memory has one holder: the application, one of  *)
(* the socket's rings, or a slot of the driver.  The stack sends on the    *)
(* same transmit ring under the queue's lock; the application, the device  *)
(* and NAPI share nothing but the rings.                                   *)
(***************************************************************************)
EXTENDS Naturals, Sequences, FiniteSets, SequencesExt, FiniteSetsExt

CONSTANTS
    TxSize,     \* ring_size of the transmit ring, and q_depth of its queue
    RxSize,     \* ring_size of the receive ring, likewise
    SglSize,    \* sgl_size of the transmit ring
    Frames,     \* frames of the socket's memory
    NoFrame,
    Other,      \* a packet of the stack, or of XDP_TX: its memory is not the socket's
    Budget,     \* of a poll
    MaxOthers,  \* bound: packets that are not the socket's
    MaxFaults   \* bound: completions the device gets wrong

ASSUME SizesAssumption ==
    TxSize \in Nat \ {0} /\ RxSize \in Nat \ {0, 1} /\ SglSize \in Nat \ {0}
ASSUME FramesAssumption == IsFiniteSet(Frames) /\ {NoFrame, Other} \cap Frames = {}
                           /\ NoFrame # Other
\* The kernel's budget of a poll is 64.
ASSUME BudgetAssumption == Budget \in Nat /\ Budget > 1
ASSUME BoundsAssumption == MaxOthers \in Nat /\ MaxFaults \in Nat

VARIABLES
    uses_need_wakeup,   \* the application sleeps unless a flag asks it to wake
    \* the socket: frames the application has, handed over to be sent, sent and not
    \* given back yet, to receive to
    app, tx_desc, reserved, fill,
    need_wakeup,        \* the flags, by direction
    kick,               \* the application is about to call ena_xdp_xsk_wakeup()
    \* the transmit ring: tx_buffer_info by slot, acked, tail - next_to_comp
    tx_info, acked, next_to_use, next_to_clean, used,
    unrung, inDevice, tx_cq,    \* slots the device was not told of, was, and is done with
    \* the receive ring: rx_buffer_info by id, the ids from next_to_use up to
    \* next_to_clean, tail - next_to_comp, the ids with the device, packets
    rx_info, free_ids, rx_used, posted, rx_cq,
    napi, missed, event,    \* NAPI, and completions the device did not interrupt for yet
    poll,       \* its locals
    trigger_reset, others, faults

socketVars == <<app, tx_desc, reserved, fill>>
flagVars == <<need_wakeup, kick>>
txRingVars == <<tx_info, acked, next_to_use, next_to_clean, used>>
txDevVars == <<unrung, inDevice, tx_cq>>
rxVars == <<rx_info, free_ids, rx_used, posted, rx_cq>>
napiVars == <<napi, missed, poll>>
vars == <<uses_need_wakeup, socketVars, flagVars, txRingVars, txDevVars, rxVars, napiVars,
          event, trigger_reset, others, faults>>

Slots == 0..(TxSize - 1)
RxIds == 0..(RxSize - 1)
BadSlot == TxSize
Malformed == <<>>   \* a packet ena_com_rx_pkt() refuses

\* ena_xdp_clean_tx_zc() and its count of frames and entries; what it and
\* ena_xdp_xmit_irq_zc() say of needs_wakeup; the packets received, an error and a doorbell
\* to be rung.
NoPoll == [zc |-> 0, done |-> 0, needs_wakeup |-> TRUE, work |-> 0, error |-> FALSE,
           xdp_tx |-> FALSE]

\* ena_up() posts what frames there are and schedules NAPI.  A socket starts with a
\* flag that asks to be woken for the first packet.
Init ==
    /\ uses_need_wakeup \in BOOLEAN
    /\ app = Frames /\ tx_desc = <<>> /\ reserved = <<>> /\ fill = {}
    /\ need_wakeup = [tx |-> TRUE, rx |-> FALSE] /\ kick = FALSE
    /\ tx_info = [s \in Slots |-> NoFrame] /\ acked = {}
    /\ next_to_use = 0 /\ next_to_clean = 0 /\ used = 0
    /\ unrung = {} /\ inDevice = {} /\ tx_cq = {}
    /\ rx_info = [i \in RxIds |-> NoFrame] /\ free_ids = [i \in 1..RxSize |-> i - 1]
    /\ rx_used = 0 /\ posted = <<>> /\ rx_cq = <<>>
    /\ napi = "scheduled" /\ missed = FALSE /\ event = FALSE /\ poll = NoPoll
    /\ trigger_reset = FALSE /\ others = 0 /\ faults = 0
-----------------------------------------------------------------------------
\* The transmit ring.  Each packet takes one entry, and the slots are used in turn:
\* nothing is ever written to free_ids.
After(slot, n) == (slot + n) % TxSize
HaveSpace(n) == TxSize - 1 - used >= n
StopSpace == SglSize + 2

\* ena_xmit_common(), packet after packet.
SlotsFor(n) == {After(next_to_use, k) : k \in 0..(n - 1)}
Place(packets) ==
    LET packetOf(s) == packets[1 + ((s + TxSize - next_to_use) % TxSize)]
    IN  /\ tx_info' = [s \in Slots |-> IF s \in SlotsFor(Len(packets)) THEN packetOf(s)
                                       ELSE tx_info[s]]
        /\ next_to_use' = After(next_to_use, Len(packets))
        /\ used' = used + Len(packets)
Doorbell(slots) == inDevice' = inDevice \cup slots /\ unrung' = {}
HoldBack(slots) == unrung' = slots /\ UNCHANGED inDevice

\* A packet of the stack, which is dropped and not kept waiting where there is no room
\* for any, or a frame of another queue's XDP_REDIRECT; the next one may have the doorbell.
XdpSpace == 2
OtherSends ==
    /\ others < MaxOthers
    /\ HaveSpace(StopSpace) \/ HaveSpace(XdpSpace)
    /\ others' = others + 1
    /\ Place(<<Other>>)
    /\ LET slots == unrung \cup SlotsFor(1) IN Doorbell(slots) \/ HoldBack(slots)
    /\ UNCHANGED <<uses_need_wakeup, socketVars, flagVars, acked, next_to_clean, tx_cq,
                   rxVars, napiVars, event, trigger_reset, faults>>
-----------------------------------------------------------------------------
\* The application.
AppSends(f) ==
    /\ f \in app
    /\ app' = app \ {f}
    /\ tx_desc' = Append(tx_desc, f)
    /\ kick' = (kick \/ ~uses_need_wakeup \/ need_wakeup.tx)
    /\ UNCHANGED <<uses_need_wakeup, reserved, fill, need_wakeup, txRingVars, txDevVars,
                   rxVars, napiVars, event, trigger_reset, others, faults>>

AppFills(f) ==
    /\ f \in app
    /\ app' = app \ {f}
    /\ fill' = fill \cup {f}
    /\ kick' = (kick \/ (uses_need_wakeup /\ need_wakeup.rx))
    /\ UNCHANGED <<uses_need_wakeup, tx_desc, reserved, need_wakeup, txRingVars, txDevVars,
                   rxVars, napiVars, event, trigger_reset, others, faults>>

\* It looks at the flags again as long as something waits.
AppLooks ==
    /\ uses_need_wakeup /\ ~kick
    /\ (need_wakeup.tx /\ tx_desc # <<>>) \/ (need_wakeup.rx /\ fill # {})
    /\ kick' = TRUE
    /\ UNCHANGED <<uses_need_wakeup, socketVars, need_wakeup, txRingVars, txDevVars,
                   rxVars, napiVars, event, trigger_reset, others, faults>>

\* ena_xdp_xsk_wakeup()
Wakeup ==
    /\ kick
    /\ kick' = FALSE
    /\ IF napi = "idle"
       THEN napi' = "scheduled" /\ UNCHANGED missed
       ELSE missed' = TRUE /\ UNCHANGED napi
    /\ UNCHANGED <<uses_need_wakeup, socketVars, need_wakeup, txRingVars, txDevVars,
                   rxVars, poll, event, trigger_reset, others, faults>>
-----------------------------------------------------------------------------
\* NAPI: ena_af_xdp_io_poll().
StartPoll ==
    /\ napi = "scheduled"
    /\ napi' = IF ~trigger_reset THEN "clean" ELSE IF missed THEN "scheduled" ELSE "idle"
    /\ missed' = (missed /\ ~trigger_reset)
    /\ UNCHANGED <<uses_need_wakeup, socketVars, flagVars, txRingVars, txDevVars, rxVars,
                   poll, event, trigger_reset, others, faults>>

\* Packets that are cleaned: those from next_to_clean on that are acked, which
\* "forces ordering", although the device completes in any order.
Run(done) ==
    Max({n \in 0..used : \A k \in 0..(n - 1) : After(next_to_clean, k) \in done})
Cleaned(done) == {After(next_to_clean, k) : k \in 0..(Run(done) - 1)}
\* Mutant: as many frames as the device completed, in whatever order.
FramesAcked(done) == {s \in done : tx_info[s] \in Frames}
FramesDone(done) == {s \in Cleaned(done) : tx_info[s] \in Frames}

\* ena_xdp_clean_tx_zc(): a bad completion ends it.
CleanTx ==
    /\ napi = "clean"
    /\ \E now \in SUBSET (tx_cq \ {BadSlot}), bad \in BOOLEAN :
          LET done == acked \cup now
          IN  /\ IF bad THEN BadSlot \in tx_cq /\ Cardinality(now) < Budget
                 ELSE Cardinality(now) = Min({Budget, Cardinality(tx_cq)})
              /\ tx_cq' = (tx_cq \ now) \ (IF bad THEN {BadSlot} ELSE {})
              /\ acked' = done \ Cleaned(done)
              /\ tx_info' = [s \in Slots |-> IF s \in Cleaned(done) THEN NoFrame
                                             ELSE tx_info[s]]
              /\ next_to_clean' = After(next_to_clean, Run(done))
              /\ poll' = [poll EXCEPT !.zc = Cardinality(FramesDone(done)),
                                      !.done = Run(done),
                                      !.needs_wakeup = Cardinality(now) < Budget]
              /\ trigger_reset' = (trigger_reset \/ bad)
    /\ napi' = "ack"
    /\ UNCHANGED <<uses_need_wakeup, socketVars, flagVars, next_to_use, used, unrung,
                   inDevice, rxVars, missed, event, others, faults>>

\* ena_com_comp_ack(); and xsk_tx_completed(), which gives back the oldest frames.
Ack ==
    /\ napi = "ack"
    /\ used' = used - poll.done
    /\ app' = app \cup ToSet(SubSeq(reserved, 1, poll.zc))
    /\ reserved' = SubSeq(reserved, poll.zc + 1, Len(reserved))
    /\ poll' = [poll EXCEPT !.zc = 0, !.done = 0]
    /\ napi' = "xmit"
    /\ UNCHANGED <<uses_need_wakeup, tx_desc, fill, flagVars, tx_info, acked, next_to_use,
                   next_to_clean, txDevVars, rxVars, missed, event, trigger_reset, others,
                   faults>>

\* ena_xdp_xmit_irq_zc(): as much as the budget allows and there is room for, and the
\* doorbell, with what others left behind.
Sendable ==
    Max({n \in 0..Min({Budget, Len(tx_desc)}) : n = 0 \/ HaveSpace(StopSpace + n - 1)})
XmitZc ==
    /\ napi = "xmit"
    /\ Place(SubSeq(tx_desc, 1, Sendable))
    /\ tx_desc' = SubSeq(tx_desc, Sendable + 1, Len(tx_desc))
    /\ reserved' = reserved \o SubSeq(tx_desc, 1, Sendable)
    /\ IF Sendable > 0 THEN Doorbell(unrung \cup SlotsFor(Sendable))
                       ELSE UNCHANGED <<unrung, inDevice>>
    /\ poll' = [poll EXCEPT !.needs_wakeup = @ /\ Sendable < Budget]
    /\ napi' = "txflag"
    /\ UNCHANGED <<uses_need_wakeup, app, fill, flagVars, acked, next_to_clean, tx_cq,
                   rxVars, missed, event, trigger_reset, others, faults>>

SetTxFlag ==
    /\ napi = "txflag"
    /\ need_wakeup' = [need_wakeup EXCEPT !.tx = poll.needs_wakeup]
    /\ napi' = "rx"
    /\ UNCHANGED <<uses_need_wakeup, socketVars, kick, txRingVars, txDevVars, rxVars,
                   missed, poll, event, trigger_reset, others, faults>>
-----------------------------------------------------------------------------
\* ena_xdp_clean_rx_irq_zc().  What becomes of a packet: its frame goes to the socket,
\* or back to the socket's memory, after XDP_TX, which sends a copy if there is room, or
\* a redirect that failed; or the frame stays where it is, when the packet is dropped,
\* is copied for the stack, or has several.
Fates == {"redirected", "sent", "returned", "kept"}
Freed(fate) == fate \in {"sent", "returned"}
\* Mutant: the slot keeps the frame that went to the socket.
SlotAfterKept(fate, f) == IF Freed(fate) THEN NoFrame ELSE f
SlotAfter(fate, f) == IF fate = "kept" THEN f ELSE NoFrame

SendsCopy(fate) == fate = "sent" /\ others < MaxOthers /\ HaveSpace(XdpSpace)
\* The loop runs while work_done <= budget.
MayTake == poll.work <= Budget /\ ~poll.error
TakePacket ==
    /\ napi = "rx" /\ MayTake /\ rx_cq # <<>> /\ Head(rx_cq) # Malformed
    /\ \E fate \in IF Len(Head(rx_cq)) > 1 THEN {"kept"} ELSE Fates :
          LET id == Head(rx_cq)[1]
              f == rx_info[id]
          IN  /\ rx_info' = [rx_info EXCEPT ![id] = SlotAfter(fate, f)]
              /\ app' = IF fate = "redirected" THEN app \cup {f} ELSE app
              /\ fill' = IF Freed(fate) THEN fill \cup {f} ELSE fill
              /\ IF SendsCopy(fate)
                 THEN Place(<<Other>>) /\ HoldBack(unrung \cup SlotsFor(1))
                      /\ others' = others + 1
                 ELSE UNCHANGED <<others, tx_info, next_to_use, used, unrung, inDevice>>
              /\ poll' = [poll EXCEPT !.work = @ + 1, !.xdp_tx = @ \/ fate = "sent"]
    /\ free_ids' = free_ids \o Head(rx_cq)
    /\ rx_used' = rx_used - Len(Head(rx_cq))
    /\ rx_cq' = Tail(rx_cq)
    /\ UNCHANGED <<uses_need_wakeup, tx_desc, reserved, flagVars, acked, next_to_clean,
                   tx_cq, posted, napi, missed, event, trigger_reset, faults>>

\* No memory to copy a packet for the stack: it is lost, its ids are not.
NoMemory ==
    /\ napi = "rx" /\ MayTake /\ rx_cq # <<>> /\ Head(rx_cq) # Malformed
    /\ faults < MaxFaults /\ faults' = faults + 1
    /\ Len(Head(rx_cq)) = 1
    /\ free_ids' = free_ids \o Head(rx_cq)
    /\ rx_used' = rx_used - Len(Head(rx_cq))
    /\ rx_cq' = Tail(rx_cq)
    /\ poll' = [poll EXCEPT !.error = TRUE]
    /\ UNCHANGED <<uses_need_wakeup, socketVars, flagVars, txRingVars, txDevVars, rx_info,
                   posted, napi, missed, event, trigger_reset, others>>

\* A reset is requested, after the refill.
BadPacket ==
    /\ napi = "rx" /\ MayTake /\ rx_cq # <<>> /\ Head(rx_cq) = Malformed
    /\ rx_cq' = Tail(rx_cq)
    /\ poll' = [poll EXCEPT !.error = TRUE]
    /\ trigger_reset' = TRUE
    /\ UNCHANGED <<uses_need_wakeup, socketVars, flagVars, txRingVars, txDevVars, rx_info,
                   free_ids, rx_used, posted, napi, missed, event, others, faults>>

\* ena_refill_rx_bufs(): ids in their turn, until no entry or no frame is left.
Needing(ids, info) == {i \in ToSet(ids) : info[i] = NoFrame}
Refilled(info, free, n, frames) ==
    LET count == Max({k \in 0..n : Cardinality(Needing(SubSeq(free, 1, k), info))
                                      <= Cardinality(frames)})
        ids == SubSeq(free, 1, count)
        need == Needing(ids, info)
    IN  {[ids |-> ids, free |-> SubSeq(free, count + 1, Len(free)),
          info |-> [i \in RxIds |-> IF i \in need THEN got[i] ELSE info[i]],
          fill |-> frames \ {got[i] : i \in need}]
         : got \in {g \in [need -> frames] : IsInjective(g)}}

FreeRxEntries == RxSize - 1 - rx_used
Refill ==
    /\ napi = "rx" /\ (rx_cq = <<>> \/ ~MayTake)
    /\ \E r \in Refilled(rx_info, free_ids, FreeRxEntries, fill) :
          /\ posted' = posted \o r.ids /\ rx_used' = rx_used + Len(r.ids)
          /\ free_ids' = r.free
          /\ rx_info' = r.info /\ fill' = r.fill
    /\ IF poll.xdp_tx THEN Doorbell(unrung) ELSE UNCHANGED <<unrung, inDevice>>
    /\ napi' = "rxflag"
    /\ UNCHANGED <<uses_need_wakeup, app, tx_desc, reserved, flagVars, txRingVars, tx_cq,
                   rx_cq, missed, poll, event, trigger_reset, others, faults>>

SetRxFlag ==
    /\ napi = "rxflag"
    /\ need_wakeup' = [need_wakeup EXCEPT !.rx = poll.error \/ poll.work < Budget]
    /\ napi' = "end"
    /\ UNCHANGED <<uses_need_wakeup, socketVars, kick, txRingVars, txDevVars, rxVars,
                   missed, poll, event, trigger_reset, others, faults>>

\* What ena_xdp_clean_rx_irq_zc() returns is a bool, which ena_af_xdp_io_poll() compares
\* with the budget: the receive side never has the poll repeated.
RxReturns == IF ~poll.error /\ poll.work < Budget THEN 1 ELSE 0
EndPoll ==
    /\ napi = "end"
    /\ IF poll.needs_wakeup /\ RxReturns < Budget
       THEN napi' = (IF missed THEN "scheduled" ELSE "idle") /\ missed' = FALSE
       ELSE napi' = "scheduled" /\ UNCHANGED missed
    /\ poll' = NoPoll
    /\ UNCHANGED <<uses_need_wakeup, socketVars, flagVars, txRingVars, txDevVars, rxVars,
                   event, trigger_reset, others, faults>>
-----------------------------------------------------------------------------
\* The device sends packets in any order, and receives to the frames it has, more
\* than one if the MTU is not honoured.
DeviceSends(s) ==
    /\ s \in inDevice
    /\ inDevice' = inDevice \ {s}
    /\ tx_cq' = tx_cq \cup {s}
    /\ event' = TRUE
    /\ UNCHANGED <<uses_need_wakeup, socketVars, flagVars, txRingVars, unrung, rxVars,
                   napiVars, trigger_reset, others, faults>>

DeviceReceives ==
    /\ \E n \in 1..Min({2, Len(posted)}) :
          /\ rx_cq' = Append(rx_cq, SubSeq(posted, 1, n))
          /\ posted' = SubSeq(posted, n + 1, Len(posted))
    /\ event' = TRUE
    /\ UNCHANGED <<uses_need_wakeup, socketVars, flagVars, txRingVars, txDevVars, rx_info,
                   free_ids, rx_used, napiVars, trigger_reset, others, faults>>

DeviceErrs ==
    /\ faults < MaxFaults /\ faults' = faults + 1
    /\ \/ tx_cq' = tx_cq \cup {BadSlot} /\ UNCHANGED rx_cq
       \/ rx_cq' = Append(rx_cq, Malformed) /\ UNCHANGED tx_cq
    /\ event' = TRUE
    /\ UNCHANGED <<uses_need_wakeup, socketVars, flagVars, txRingVars, unrung, inDevice,
                   rx_info, free_ids, rx_used, posted, napiVars, trigger_reset, others>>

\* An interrupt that comes while NAPI is at work waits until it is unmasked (IoIntr).
Interrupt ==
    /\ event /\ napi = "idle"
    /\ event' = FALSE
    /\ napi' = "scheduled"
    /\ UNCHANGED <<uses_need_wakeup, socketVars, flagVars, txRingVars, txDevVars, rxVars,
                   missed, poll, trigger_reset, others, faults>>

\* The reset: ena_down() gives back what was being sent, as one count, and frees the
\* frames to receive to; ena_up() follows, as in Init.
Reset ==
    /\ trigger_reset /\ napi = "idle"
    /\ LET sent == Cardinality({s \in Slots : tx_info[s] \in Frames})
           frames == fill \cup ({rx_info[i] : i \in RxIds} \ {NoFrame})
           ids == [i \in 1..RxSize |-> i - 1]
       IN  /\ app' = app \cup ToSet(SubSeq(reserved, 1, sent))
           /\ reserved' = SubSeq(reserved, sent + 1, Len(reserved))
           /\ \E r \in Refilled([i \in RxIds |-> NoFrame], ids, RxSize - 1, frames) :
                 /\ posted' = r.ids /\ rx_used' = Len(r.ids) /\ free_ids' = r.free
                 /\ rx_info' = r.info /\ fill' = r.fill
    /\ tx_info' = [s \in Slots |-> NoFrame] /\ acked' = {}
    /\ next_to_use' = 0 /\ next_to_clean' = 0 /\ used' = 0
    /\ unrung' = {} /\ inDevice' = {} /\ tx_cq' = {} /\ rx_cq' = <<>>
    /\ napi' = "scheduled" /\ missed' = FALSE /\ event' = FALSE
    /\ trigger_reset' = FALSE
    /\ UNCHANGED <<uses_need_wakeup, tx_desc, flagVars, poll, others, faults>>
-----------------------------------------------------------------------------
App == (\E f \in Frames : AppSends(f) \/ AppFills(f)) \/ AppLooks \/ Wakeup
Napi == StartPoll \/ CleanTx \/ Ack \/ XmitZc \/ SetTxFlag \/ TakePacket \/ NoMemory
        \/ BadPacket \/ Refill \/ SetRxFlag \/ EndPoll
Device == (\E s \in Slots : DeviceSends(s)) \/ DeviceReceives \/ DeviceErrs \/ Interrupt
Next == App \/ Napi \/ Device \/ OtherSends \/ Reset

Spec == Init /\ [][Next]_vars

\* NAPI is a softirq, the device sends what it was told of and interrupts, a reset
\* that was requested happens (Lifecycle); the application looks at the flags, and
\* makes the call it is about to make.
Fairness ==
    /\ WF_vars(Napi) /\ WF_vars(Interrupt) /\ WF_vars(Reset)
    /\ \A s \in Slots : WF_vars(DeviceSends(s))
    /\ WF_vars(AppLooks) /\ WF_vars(Wakeup)

LiveSpec == Spec /\ Fairness
-----------------------------------------------------------------------------
TypeOK ==
    /\ uses_need_wakeup \in BOOLEAN /\ kick \in BOOLEAN
    /\ need_wakeup \in [tx : BOOLEAN, rx : BOOLEAN]
    /\ app \subseteq Frames /\ fill \subseteq Frames
    /\ tx_desc \in Seq(Frames) /\ reserved \in Seq(Frames)
    /\ tx_info \in [Slots -> Frames \cup {NoFrame, Other}] /\ acked \subseteq Slots
    /\ next_to_use \in Slots /\ next_to_clean \in Slots /\ used \in 0..(TxSize - 1)
    /\ unrung \subseteq Slots /\ inDevice \subseteq Slots
    /\ tx_cq \subseteq Slots \cup {BadSlot}
    /\ rx_info \in [RxIds -> Frames \cup {NoFrame}]
    /\ free_ids \in Seq(RxIds) /\ rx_used \in 0..(RxSize - 1)
    /\ posted \in Seq(RxIds) /\ rx_cq \in Seq(Seq(RxIds))
    /\ napi \in {"idle", "scheduled", "clean", "ack", "xmit", "txflag", "rx", "rxflag",
                 "end"}
    /\ missed \in BOOLEAN /\ event \in BOOLEAN /\ trigger_reset \in BOOLEAN
    /\ poll \in [zc : 0..(TxSize - 1), done : 0..(TxSize - 1), needs_wakeup : BOOLEAN,
                 work : 0..(Budget + 1), error : BOOLEAN, xdp_tx : BOOLEAN]
    /\ others \in 0..MaxOthers /\ faults \in 0..MaxFaults

\* "AF XDP expects the completions to be ordered but HW doesn't guarantee this": the
\* socket gives frames back by their number, the oldest first, so that the numbers
\* ena_xdp_clean_tx_zc() and ena_free_tx_bufs() report must be those of the frames at the
\* front, between packets of others and in whatever order the device is done with them.
\* What is left are the frames of the ring in their turn, and the device has none that
\* was given back.
GivenBackInOrder ==
    LET left == (poll.zc + 1)..Len(reserved)
        ring == {k \in 0..(TxSize - 1) : After(next_to_use, TxSize - next_to_clean) > k}
        packet(k) == tx_info[After(next_to_clean, k)]
    IN  \E turn \in [left -> ring] :
            /\ \A i, j \in left : i < j => turn[i] < turn[j]
            /\ \A i \in left : packet(turn[i]) = reserved[i]
            /\ \A k \in ring : packet(k) \in Frames => \E i \in left : turn[i] = k

\* A frame has one holder: what the device may write is not with the application, and
\* nothing the application handed over is lost, through verdicts, drops, failures and
\* resets.
Holders(f) ==
    {<<"app", x>> : x \in app \cap {f}} \cup {<<"fill", x>> : x \in fill \cap {f}}
    \cup {<<"tx_desc", k>> : k \in {j \in DOMAIN tx_desc : tx_desc[j] = f}}
    \cup {<<"reserved", k>> : k \in {j \in DOMAIN reserved : reserved[j] = f}}
    \cup {<<"rx_info", i>> : i \in {j \in RxIds : rx_info[j] = f}}
FrameHasOneHolder == \A f \in Frames : Cardinality(Holders(f)) = 1

\* A receive ring that has run empty is filled again once the application has provided
\* frames and looks at the flag (check_for_empty_rx_ring(): "This case will lead to a
\* deadlock", but the timer leaves the rings of a socket out).
ProvidedIsTaken ==
    uses_need_wakeup => (rx_used = 0 /\ fill # {} ~> rx_used > 0)
=============================================================================
