------------------------------- MODULE RxQueue -------------------------------
(***************************************************************************)
(* One receive queue of the Linux driver: the buffers posted to the        *)
(* device, NAPI taking packets from them, the refill, the pages behind     *)
(* them with the local page cache, and the timer's check for an empty      *)
(* ring.  The build is the one without page_pool.                          *)
(*                                                                         *)
(* A page has two halves; a buffer starts at one of them and runs to the   *)
(* end of the page.  NAPI runs on one CPU at a time; the device, the       *)
(* network stack, which frees what it was given, and the timer run beside. *)
(***************************************************************************)
EXTENDS Naturals, Sequences, FiniteSets, SequencesExt

CONSTANTS
    RingSize,       \* ring_size, and q_depth of the submission queue
    SglSize,        \* sgl_size: buffers a packet may take
    Pages,          \* pages of memory
    NoPage,
    CacheSize,      \* max_size of the local page cache
    Budget,         \* packets in a poll
    Modes,          \* "plain", "lpc": with the page cache, "xdp": with a program
    MaxHeld,        \* bound: parts of pages with the network stack, or about to be
    MaxFailures,    \* bound: allocations that fail while there is a page
    MaxFaults       \* bound: completions the device gets wrong

ASSUME RingSizeAssumption == RingSize \in Nat /\ RingSize > 1 /\ SglSize \in Nat \ {0}
ASSUME PagesAssumption == IsFiniteSet(Pages) /\ NoPage \notin Pages
ASSUME CacheAssumption == CacheSize \in Nat \ {0} /\ Budget \in Nat \ {0}
ASSUME ModesAssumption == Modes \subseteq {"plain", "lpc", "xdp"}
ASSUME BoundsAssumption == MaxHeld \in Nat /\ MaxFailures \in Nat /\ MaxFaults \in Nat

VARIABLES
    mode,
    ring,       \* struct ena_ring: empty_rx_queue; free_ids from next_to_use up to
                \* next_to_clean
    used,       \* of the submission queue: tail - next_to_comp
    rx_info,    \* rx_buffer_info: the page of each id, and the half it is at
    sq, rung,   \* ids posted and not filled; how many of them the device knows of
    cq, taken,  \* completions; those of an unfinished packet that were read already
    mem,        \* pages: page_ref_count(), mapped for DMA, and the page cache
    stack,      \* the parts of pages that the network stack holds
    failures,   \* allocations that failed
    napi, missed,       \* NAPI: where it is, and whether it has to run again
    poll,       \* its locals: packets taken, ids taken (up to its own next_to_clean),
                \* buffers to post
    trigger_reset, faults,
    oops        \* the kernel has stopped on a bad pointer

deviceVars == <<sq, rung, cq, taken, faults>>
vars == <<mode, ring, used, rx_info, deviceVars, mem, stack, failures,
          napi, missed, poll, trigger_reset, oops>>

Ids == 0..(RingSize - 1)
BadId == RingSize
Halves == {0, 1}
NoBuffer == [page |-> NoPage, half |-> 0, lpc |-> FALSE]
\* Mutant: without the entry that is never used.
FreeEntriesOneMore == RingSize - used
FreeEntries == RingSize - 1 - used

\* "copy": at most rx_copybreak; "small": leaves room in the page for another.
Sizes == {"copy", "small", "large"}
Completions == [id : Ids \cup {BadId}, size : Sizes, first : BOOLEAN, last : BOOLEAN]

TypeOK ==
    /\ mode \in Modes
    /\ ring.free_ids \in Seq(Ids)
    /\ ring.empty_rx_queue \in 0..1
    /\ used \in 0..(RingSize - 1)
    /\ rx_info \in [Ids -> [page : Pages \cup {NoPage}, half : Halves, lpc : BOOLEAN]]
    /\ sq \in Seq(Ids) /\ rung \in 0..Len(sq)
    /\ cq \in Seq(Completions) /\ taken \in Seq(Completions)
    /\ mem.refs \in [Pages -> Nat] /\ mem.mapped \subseteq Pages
    /\ mem.cache \in Seq(Pages) /\ Len(mem.cache) <= CacheSize /\ mem.head \in 0..CacheSize
    /\ mem.error \in BOOLEAN
    /\ stack \subseteq [page : Pages, halves : SUBSET Halves]
    /\ failures \in 0..MaxFailures
    /\ napi \in {"off", "idle", "scheduled", "poll", "refill"}
    /\ missed \in BOOLEAN
    /\ poll.work \in 0..Budget /\ poll.todo \in 0..(RingSize - 1)
    /\ poll.ids \in Seq(Ids)
    /\ trigger_reset \in BOOLEAN /\ faults \in 0..MaxFaults /\ oops \in BOOLEAN

\* What ena_up() creates, before it posts all buffers but one.
NewRing == [free_ids |-> [i \in 1..RingSize |-> i - 1], empty_rx_queue |-> 0]
FirstRefill == [work |-> 0, ids |-> <<>>, todo |-> RingSize - 1]

Init ==
    /\ mode \in Modes
    /\ ring = NewRing /\ used = 0 /\ rx_info = [i \in Ids |-> NoBuffer]
    /\ sq = <<>> /\ rung = 0 /\ cq = <<>> /\ taken = <<>> /\ faults = 0
    /\ mem = [refs |-> [p \in Pages |-> 0], mapped |-> {}, cache |-> <<>>, head |-> 0,
              error |-> FALSE]
    /\ stack = {}
    /\ failures = 0
    /\ napi = "off" /\ missed = FALSE /\ poll = FirstRefill
    /\ trigger_reset = FALSE /\ oops = FALSE
-----------------------------------------------------------------------------
\* Memory.
Allocated == {p \in Pages : mem.refs[p] = 0}
MayFail == failures < MaxFailures
Failed == failures' = IF MayFail THEN failures + 1 ELSE failures
WithPage(m, p, n) == [m EXCEPT !.refs[p] = n, !.mapped = @ \cup {p}]
PutPage(m, p) == [m EXCEPT !.refs[p] = @ - 1]

\* The same for the buffers of a set of ids, of which no two have the same page.
Holding(ids, p) == {i \in ids : rx_info[i].page = p}
Unmapped(m, ids) ==
    [m EXCEPT !.mapped = @ \ {rx_info[i].page : i \in {j \in ids : ~rx_info[j].lpc}}]
FreeRxPages(m, ids) ==
    [Unmapped(m, ids) EXCEPT
        !.refs = [p \in Pages |-> @[p] - Cardinality(Holding(ids, p))]]

\* A page for a buffer: the memory with it and the buffer, or none.
Fails(m) == [mem |-> m, buf |-> NoBuffer]
AllocMapPage ==
    {[mem |-> WithPage(mem, p, 1), buf |-> [page |-> p, half |-> 0, lpc |-> FALSE]]
     : p \in Allocated}
    \cup IF MayFail \/ Allocated = {} THEN {Fails(mem)} ELSE {}

\* The page cache.  It hands out the page at its head if nobody else holds it,
\* or, when that is of another NUMA node, a new one in its place if there is one.
OwnCachePage(m, next) ==
    LET p == m.cache[m.head + 1]
    IN  [mem |-> [m EXCEPT !.refs[p] = @ + 1, !.head = next],
         buf |-> [page |-> p, half |-> 0, lpc |-> TRUE]]
Replaced(p) ==
    LET old == mem.cache[mem.head + 1]
        without == [PutPage(mem, old) EXCEPT !.mapped = @ \ {old}]
    IN  [WithPage(without, p, 1) EXCEPT !.cache[mem.head + 1] = p]
ReturnCachePage(next) ==
    {OwnCachePage(m, next) : m \in {mem} \cup {Replaced(p) : p \in Allocated}}
HeadIsFree == mem.cache # <<>> /\ mem.refs[mem.cache[mem.head + 1]] = 1
\* Mutant: without the reference of the cache.
WarmUpUncounted ==
    {[mem |-> [WithPage(mem, p, 1) EXCEPT !.cache = Append(@, p), !.error = FALSE],
      buf |-> [page |-> p, half |-> 0, lpc |-> TRUE]] : p \in Allocated}
    \cup IF MayFail \/ Allocated = {} THEN {Fails([mem EXCEPT !.error = mem.cache = <<>>])}
         ELSE {}
WarmUp ==
    {[mem |-> [WithPage(mem, p, 2) EXCEPT !.cache = Append(@, p), !.error = FALSE],
      buf |-> [page |-> p, half |-> 0, lpc |-> TRUE]] : p \in Allocated}
    \cup IF MayFail \/ Allocated = {} THEN {Fails([mem EXCEPT !.error = mem.cache = <<>>])}
         ELSE {}
LpcGetPage ==
    LET size == Len(mem.cache)
    IN  IF size < CacheSize
        THEN IF HeadIsFree THEN ReturnCachePage((mem.head + 1) % size) ELSE WarmUp
        ELSE IF HeadIsFree THEN ReturnCachePage((mem.head + 1) % CacheSize)
             ELSE AllocMapPage
GetPage == IF mode = "lpc" THEN LpcGetPage ELSE AllocMapPage

\* The first slot, empty but for the error of the allocation before, is taken for
\* a page and its reference count read.
ReadsError == mode = "lpc" /\ mem.cache = <<>> /\ mem.error
-----------------------------------------------------------------------------
\* Refill: one buffer after the other, until no page or no entry is left; the
\* doorbell at the end.
Refilling == napi \in {"off", "refill"} /\ ~oops
Candidate == Head(ring.free_ids)
NeedsPage == rx_info[Candidate].page = NoPage

Post(id, buf, m) ==
    /\ rx_info' = [rx_info EXCEPT ![id] = buf]
    /\ mem' = m
    /\ sq' = Append(sq, id)
    /\ used' = used + 1
    /\ ring' = [ring EXCEPT !.free_ids = Tail(@)]
    /\ poll' = [poll EXCEPT !.todo = @ - 1]
    /\ UNCHANGED <<failures, oops>>
StopRefill(m) ==
    /\ mem' = m
    /\ poll' = [poll EXCEPT !.todo = 0]
    /\ Failed
    /\ UNCHANGED <<ring, used, rx_info, sq, oops>>

RefillOne ==
    /\ Refilling /\ poll.todo > 0
    /\ \/ /\ ~NeedsPage
          /\ Post(Candidate, rx_info[Candidate], mem)
       \/ /\ NeedsPage /\ ~ReadsError
          /\ \E got \in GetPage :
                IF got.buf = NoBuffer THEN StopRefill(got.mem)
                ELSE Post(Candidate, got.buf, got.mem)
       \/ /\ NeedsPage /\ ReadsError
          /\ oops' = TRUE
          /\ UNCHANGED <<ring, used, rx_info, sq, mem, failures, poll>>
    /\ UNCHANGED <<mode, rung, cq, taken, faults, stack, napi, missed, trigger_reset>>

\* A poll that used its budget, or that was asked for again, is not the last one.
\* ena_up() schedules one for what came in before.
AfterPoll == IF missed \/ poll.work = Budget THEN "scheduled" ELSE "idle"
FinishRefill ==
    /\ Refilling /\ poll.todo = 0
    /\ rung' = Len(sq)
    /\ napi' = IF napi = "off" THEN "scheduled"
               ELSE IF trigger_reset THEN "idle" ELSE AfterPoll
    /\ missed' = FALSE
    /\ poll' = [poll EXCEPT !.work = 0]
    /\ UNCHANGED <<mode, ring, used, rx_info, sq, cq, taken, faults, mem, stack,
                   failures, trigger_reset, oops>>
-----------------------------------------------------------------------------
\* NAPI.  A poll that finds a reset requested does nothing.
MayPoll == ~trigger_reset
BeginPoll ==
    /\ napi = "scheduled" /\ ~oops
    /\ IF MayPoll
       THEN napi' = "poll"
       ELSE napi' = "idle"
    /\ UNCHANGED <<mode, ring, used, rx_info, deviceVars, mem, stack, failures,
                   missed, poll, trigger_reset, oops>>

\* The completions up to the end of the next packet; the ones the code takes, if
\* it meets one it refuses.
Waiting == taken \o cq
Refused(i) ==
    \/ Waiting[i].first /\ i > 1
    \/ Waiting[i].id = BadId
RefusedAt == {i \in (Len(taken) + 1)..Len(Waiting) : Refused(i)}
LastAt == {i \in (Len(taken) + 1)..Len(Waiting) : Waiting[i].last}
PacketNext == LastAt # {} /\ \A i \in RefusedAt : \E j \in LastAt : j < i
PacketEnd == Min(LastAt)
Packet == SubSeq(Waiting, 1, PacketEnd)

\* What is left of the poll, once it takes no more: the refill, if it is worth it.
RefillThreshold == RingSize \div 8
ToRefill(ids, free) ==
    /\ napi' = "refill"
    /\ ring' = [ring EXCEPT !.free_ids = @ \o ids]
    /\ poll' = [poll EXCEPT !.ids = <<>>,
                            !.todo = IF free > RefillThreshold THEN free ELSE 0]

NoPacket ==
    /\ napi = "poll" /\ ~oops /\ poll.work < Budget
    /\ LastAt = {} /\ RefusedAt = {}
    /\ taken' = Waiting /\ cq' = <<>>
    /\ ToRefill(poll.ids, FreeEntries)
    /\ UNCHANGED <<mode, used, rx_info, sq, rung, faults, mem, stack, failures,
                   missed, trigger_reset, oops>>
BudgetUsed ==
    /\ napi = "poll" /\ ~oops /\ poll.work = Budget
    /\ ToRefill(poll.ids, FreeEntries)
    /\ UNCHANGED <<mode, used, rx_info, deviceVars, mem, stack, failures, missed,
                   trigger_reset, oops>>

\* -EIO, -EFAULT and, for a packet of too many buffers, -ENOSPC: next_to_clean is
\* not stored and nothing posted, because a reset is to follow.
BadCompletion ==
    /\ napi = "poll" /\ ~oops /\ poll.work < Budget
    /\ \/ /\ RefusedAt # {} /\ ~PacketNext
          /\ cq' = SubSeq(Waiting, Min(RefusedAt), Len(Waiting))
          /\ UNCHANGED taken
       \/ /\ PacketNext /\ PacketEnd > SglSize
          /\ cq' = SubSeq(Waiting, PacketEnd + 1, Len(Waiting))
          /\ taken' = <<>>
    /\ trigger_reset' = TRUE
    /\ napi' = "idle"
    /\ missed' = FALSE
    /\ poll' = [poll EXCEPT !.work = 0, !.ids = <<>>]
    /\ UNCHANGED <<mode, ring, used, rx_info, sq, rung, faults, mem, stack, failures,
                   oops>>
-----------------------------------------------------------------------------
\* A packet.  Its ids return to the ring, whatever becomes of its buffers.
\* Mutant: only the id of its first buffer.
TakenWithFirst(pkt) == poll.ids \o <<pkt[1].id>>
TakenWith(pkt) == poll.ids \o [k \in DOMAIN pkt |-> pkt[k].id]

\* What buffers become: shared with the stack, their second half left to the next
\* packet; given away as a whole; or freed.
Outcome == [mem |-> mem, rx_info |-> rx_info, stack |-> stack]
IdsOf(pkt) == {pkt[k].id : k \in DOMAIN pkt}
Reused(c) == c.size # "large" /\ rx_info[c.id].half = 0
Rest(b) == {h \in Halves : h >= b.half}
Emptied(info, ids) == [i \in Ids |-> IF i \in ids THEN NoBuffer ELSE info[i]]
MoreRefs(m, ids) ==
    [m EXCEPT !.refs = [p \in Pages |-> @[p] + Cardinality(Holding(ids, p))]]
FirstHalves(ids) == {[page |-> rx_info[i].page, halves |-> {0}] : i \in ids}
\* Mutant: the address stays where it was.
SharedInPlace(o, ids) ==
    [mem |-> MoreRefs(o.mem, ids), rx_info |-> o.rx_info,
     stack |-> o.stack \cup FirstHalves(ids)]
Shared(o, ids) ==
    [mem |-> MoreRefs(o.mem, ids),
     rx_info |-> [i \in Ids |-> IF i \in ids THEN [o.rx_info[i] EXCEPT !.half = 1]
                                 ELSE o.rx_info[i]],
     stack |-> o.stack \cup FirstHalves(ids)]
Given(o, ids) ==
    [mem |-> Unmapped(o.mem, ids), rx_info |-> Emptied(o.rx_info, ids),
     stack |-> o.stack
               \cup {[page |-> rx_info[i].page, halves |-> Rest(rx_info[i])] : i \in ids}]
Released(o, ids) ==
    [mem |-> FreeRxPages(o.mem, ids), rx_info |-> Emptied(o.rx_info, ids),
     stack |-> o.stack]
ToStack(pkt) ==
    LET reused == {pkt[k].id : k \in {j \in DOMAIN pkt : Reused(pkt[j])}}
    IN  Given(Shared(Outcome, reused), IdsOf(pkt) \ reused)

\* The socket buffer may be short of memory too.  By then a buffer that is not to
\* be shared has been unmapped.
UnmappedForNothing(pkt) ==
    IF Reused(pkt[1]) THEN Outcome
    ELSE [Outcome EXCEPT !.mem = Unmapped(mem, {pkt[1].id})]

\* Copied; and the page dropped if it is of another NUMA node.
Copied(pkt) == {Outcome, Released(Outcome, {pkt[1].id})}
IsCopied(pkt) == Len(pkt) = 1 /\ pkt[1].size = "copy"

\* Ends of a packet: what it made of the memory, and whether the poll goes on.
GoesOn(o) == [out |-> o, on |-> TRUE]
NoMemory(o) == [out |-> o, on |-> FALSE]
RxSkb(pkt) ==
    IF IsCopied(pkt) THEN {GoesOn(o) : o \in Copied(pkt)} ELSE {GoesOn(ToStack(pkt))}
RxSkbFails(pkt) == NoMemory(IF IsCopied(pkt) THEN Outcome ELSE UnmappedForNothing(pkt))

\* With a program, which may shorten the packet and with it drop buffers at its end:
\* passed, sent or redirected; dropped because that failed; or left where it is.  (One
\* that is copied is left or, of another NUMA node, dropped.)  A buffer is never shared.
Trims(pkt) ==
    {[out |-> Released(Outcome, IdsOf(SubSeq(pkt, k + 1, Len(pkt)))),
      ids |-> IdsOf(SubSeq(pkt, 1, k))] : k \in DOMAIN pkt}
RxXdp(pkt) ==
    UNION {{GoesOn(Given(t.out, t.ids)), GoesOn(Released(t.out, t.ids)), GoesOn(t.out)}
           : t \in Trims(pkt)}
RxXdpFails(pkt) == {NoMemory(t.out) : t \in Trims(pkt)}
Handled(pkt) == IF mode = "xdp" THEN RxXdp(pkt) ELSE RxSkb(pkt)
NotHandled(pkt) == IF mode = "xdp" THEN RxXdpFails(pkt) ELSE {RxSkbFails(pkt)}

TakePacket ==
    /\ napi = "poll" /\ ~oops /\ poll.work < Budget
    /\ PacketNext /\ PacketEnd <= SglSize
    /\ taken' = <<>>
    /\ cq' = SubSeq(Waiting, PacketEnd + 1, Len(Waiting))
    /\ used' = used - Len(Packet)
    /\ \E h \in Handled(Packet) \cup IF MayFail THEN NotHandled(Packet) ELSE {} :
          /\ mem' = h.out.mem
          /\ rx_info' = h.out.rx_info
          /\ stack' = h.out.stack
          /\ IF h.on
             THEN /\ poll' = [poll EXCEPT !.work = @ + 1, !.ids = TakenWith(Packet)]
                  /\ UNCHANGED <<napi, ring, failures>>
             ELSE ToRefill(TakenWith(Packet), FreeEntries + Len(Packet)) /\ Failed
    /\ UNCHANGED <<mode, sq, rung, faults, missed, trigger_reset, oops>>
-----------------------------------------------------------------------------
\* The device fills any of the buffers it knows of.  A packet may be told in parts.
Open == IF cq # <<>> THEN ~Last(cq).last ELSE taken # <<>>
OpenLength ==
    LET all == Waiting
        ends == {i \in DOMAIN all : all[i].last}
    IN  Len(all) - Cardinality(ends)
Fills(k, c) ==
    /\ sq' = RemoveAt(sq, k)
    /\ rung' = rung - 1
    /\ cq' = Append(cq, c)
DeviceFills ==
    /\ ~oops /\ Cardinality(stack) + Len(Waiting) < MaxHeld
    /\ \E k \in 1..rung, size \in Sizes, last \in BOOLEAN :
          /\ size = "copy" => ~Open /\ last
          /\ Fills(k, [id |-> sq[k], size |-> size, first |-> ~Open, last |-> last])
          /\ IF last \/ OpenLength + 1 < SglSize THEN UNCHANGED faults
             ELSE faults < MaxFaults /\ faults' = faults + 1
    /\ UNCHANGED <<mode, ring, used, rx_info, taken, mem, stack, failures, napi,
                   missed, poll, trigger_reset, oops>>
DeviceErrs ==
    /\ ~oops /\ faults < MaxFaults
    /\ faults' = faults + 1
    /\ \/ /\ cq' = Append(cq, [id |-> BadId, size |-> "large", first |-> ~Open,
                               last |-> TRUE])
          /\ UNCHANGED <<sq, rung>>
       \/ /\ rung > 0 /\ Open
          /\ Fills(1, [id |-> sq[1], size |-> "large", first |-> TRUE, last |-> TRUE])
    /\ UNCHANGED <<mode, ring, used, rx_info, taken, mem, stack, failures, napi,
                   missed, poll, trigger_reset, oops>>

\* Its interrupt, or the timer if that was lost, schedules NAPI.
Interrupt ==
    /\ ~oops /\ cq # <<>> /\ napi = "idle"
    /\ napi' = "scheduled"
    /\ UNCHANGED <<mode, ring, used, rx_info, deviceVars, mem, stack, failures,
                   missed, poll, trigger_reset, oops>>

\* check_for_empty_rx_ring(): the second time in a row, NAPI is scheduled.
RefillAfter == 2
\* Mutant: the entry that is never used is expected to be free.
RingIsEmptyOffByOne == FreeEntries = RingSize
RingIsEmpty == FreeEntries = RingSize - 1
TimerChecks ==
    /\ ~oops /\ napi # "off" /\ ~trigger_reset
    /\ LET again == RingIsEmpty /\ ring.empty_rx_queue + 1 >= RefillAfter
       IN  /\ ring' = [ring EXCEPT !.empty_rx_queue =
                                      IF RingIsEmpty /\ ~again THEN @ + 1 ELSE 0]
           /\ napi' = IF again /\ napi = "idle" THEN "scheduled" ELSE napi
           /\ missed' = (missed \/ (again /\ napi \in {"poll", "refill"}))
    /\ UNCHANGED <<mode, used, rx_info, deviceVars, mem, stack, failures, poll,
                   trigger_reset, oops>>

\* The network stack is done with a part of a page.
StackFrees ==
    /\ ~oops
    /\ \E part \in stack :
          /\ stack' = stack \ {part}
          /\ mem' = PutPage(mem, part.page)
    /\ UNCHANGED <<mode, ring, used, rx_info, deviceVars, failures, napi, missed,
                   poll, trigger_reset, oops>>

\* ena_down() frees the buffers, and then the pages of the cache; ena_up() follows.
AfterFreeing ==
    LET buffers == FreeRxPages(mem, Ids)
        cached(p) == {k \in DOMAIN mem.cache : mem.cache[k] = p}
    IN  [buffers EXCEPT !.refs = [p \in Pages |-> @[p] - Cardinality(cached(p))],
                        !.mapped = @ \ ToSet(mem.cache),
                        !.cache = <<>>, !.head = 0, !.error = FALSE]
Reset ==
    /\ ~oops /\ trigger_reset /\ napi = "idle"
    /\ mem' = AfterFreeing
    /\ rx_info' = [i \in Ids |-> NoBuffer]
    /\ ring' = NewRing /\ used' = 0 /\ sq' = <<>> /\ rung' = 0
    /\ cq' = <<>> /\ taken' = <<>>
    /\ napi' = "off" /\ missed' = FALSE /\ poll' = FirstRefill
    /\ trigger_reset' = FALSE
    /\ UNCHANGED <<mode, stack, failures, faults, oops>>
-----------------------------------------------------------------------------
Napi == BeginPoll \/ TakePacket \/ NoPacket \/ BudgetUsed \/ BadCompletion \/ RefillOne
        \/ FinishRefill
Device == DeviceFills \/ DeviceErrs \/ Interrupt
Next == Napi \/ Device \/ TimerChecks \/ StackFrees \/ Reset

\* NAPI is a softirq and the timer rearms itself; a reset that was requested
\* happens (Lifecycle); applications read their packets.
Fairness ==
    /\ WF_vars(Napi) /\ WF_vars(TimerChecks) /\ WF_vars(Reset)
    /\ WF_vars(StackFrees)

Spec == Init /\ [][Next]_vars
LiveSpec == Spec /\ Fairness
-----------------------------------------------------------------------------
\* No buffer is lost and none is posted twice: an id is free, with the device, or
\* in a completion that was not taken, and the count of free entries, by which
\* ena_refill_rx_bufs() takes ids, agrees with them.  (Not once a reset is requested:
\* the error path of ena_clean_rx_irq() does not store next_to_clean, and what keeps
\* the ids from being used again is the test in ena_io_poll().)
BuffersAccounted ==
    ~trigger_reset =>
        LET free == ToSet(ring.free_ids) \cup ToSet(poll.ids)
            inFlight == (ToSet(sq) \cup {c.id : c \in ToSet(Waiting)}) \ {BadId}
        IN  /\ free \cap inFlight = {}
            /\ free \cup inFlight = Ids
            /\ Cardinality(inFlight) = used
            /\ Len(ring.free_ids) + Len(poll.ids) = Cardinality(free)

\* No two parties hold the same part of a page: the network stack does not read what
\* the device may write, and the cache hands out no page that somebody still uses
\* (the reference counts in ena_lpc_get_page(), ena_try_rx_buf_page_reuse()).
OneOwner ==
    LET byDriver(i) == {<<rx_info[i].page, h>> : h \in Rest(rx_info[i])}
        byStack(s) == {<<s.page, h>> : h \in s.halves}
        Held == {i \in Ids : rx_info[i].page # NoPage}
    IN  /\ \A i \in Held, s \in stack : byDriver(i) \cap byStack(s) = {}
        /\ \A i, j \in Held : i # j => rx_info[i].page # rx_info[j].page
        /\ \A s, t \in stack : s # t => byStack(s) \cap byStack(t) = {}

\* A page has as many references as holders: none is leaked and none is freed early,
\* through sharing, copying, the cache, failures and resets.
RefsAccounted ==
    \A p \in Pages : mem.refs[p] =
        Cardinality({i \in Ids : rx_info[i].page = p})
        + Cardinality({i \in DOMAIN mem.cache : mem.cache[i] = p})
        + Cardinality({s \in stack : s.page = p})

\* A receive ring that has run empty is filled again once there is memory, although
\* the device interrupts no more (check_for_empty_rx_ring(): "This case will lead to
\* a deadlock").
EmptyRingIsRefilled == used = 0 ~> (used > 0 \/ oops)
=============================================================================
