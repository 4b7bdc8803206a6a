--------------------------------- MODULE TxSq ---------------------------------
(***************************************************************************)
(* An ENA transmit submission queue (src/kernel/linux/common/ena_com/      *)
(* ena_eth_com.c and ena_eth_com.h): ena_com_prepare_tx() turns a packet   *)
(* into descriptors, in host memory or, in LLQ mode, packed into entries   *)
(* of device memory through a bounce buffer, while the device reads what   *)
(* the doorbell announced and completions are acknowledged.                *)
(*                                                                         *)
(* The transmit lock makes one packet at a time pass through here; only    *)
(* next_to_comp moves under it.  tail and next_to_comp are u16 counters    *)
(* that wrap at CounterSize; everything else about the ring is masked.     *)
(***************************************************************************)
EXTENDS Integers, Sequences, FiniteSets, Bags, SequencesExt

CONSTANTS
    Depth,         \* q_depth, a power of two
    CounterSize,   \* 2^16 in the code: a multiple of Depth, and larger
    Configs,       \* what a queue may be created with, see llq_info
    NoMeta,        \* the meta of a packet with meta_valid unset
    ZeroMeta,      \* the meta the cache and the device start from
    Packets        \* packets to send: [bufs : num_bufs, meta : ena_meta]

ASSUME DepthAssumption == Depth \in Nat \ {0}
ASSUME CounterAssumption ==
    CounterSize \in Nat /\ CounterSize > Depth /\ CounterSize % Depth = 0
\* ena_com_config_llq_info(); in host memory llq_info is all zero.
ASSUME ConfigsAssumption ==
    \A c \in Configs :
        /\ c.llq \in BOOLEAN /\ c.disable_meta_caching \in BOOLEAN
        /\ c.descs_per_entry \in Nat /\ c.descs_num_before_header \in Nat
        /\ c.max_entries_in_tx_burst \in Nat
        /\ c.llq => c.descs_per_entry > 0 /\ c.descs_num_before_header > 0
        /\ ~c.llq => c.max_entries_in_tx_burst = 0 /\ ~c.disable_meta_caching
ASSUME PacketsAssumption == \A p \in Packets : p.bufs \in Nat
\* A burst has room for any packet with its meta: the driver takes the limit
\* from the device (ena_com_config_llq_info) and relies on it.
ASSUME BurstAssumption ==
    \A c \in Configs : c.llq /\ c.max_entries_in_tx_burst > 0 =>
        \A p \in Packets :
            p.bufs + 1 <= c.descs_num_before_header
                          + (c.max_entries_in_tx_burst - 1) * c.descs_per_entry

VARIABLES
    \* struct ena_com_io_sq; llq_info also says whether the queue is in LLQ mode
    llq_info,
    tail, next_to_comp, phase, entries_in_tx_burst_left, cached_tx_meta,
    idx, descs_left_in_line, curr_bounce_buf,
    \* the run of ena_com_prepare_tx(): where, its packet, start_tail, the
    \* data descriptors placed
    pc, pkt, start_tail, placed,
    \* the ring's memory and the tail the doorbell announced
    ring, doorbell,
    \* the device: its position, the phase it expects, the descriptors of a
    \* packet it has not read to the end, its copy of the meta, and tx_descs of
    \* the packets it has read and that are not acknowledged
    head, devPhase, partial, devMeta, inDevice,
    \* history: packets prepared that the device has not read to the end; entries
    \* written that are not read; entries of unacknowledged packets
    sent, unread, unacked

sqVars == <<llq_info, tail, next_to_comp, phase, entries_in_tx_burst_left, cached_tx_meta>>
lineVars == <<idx, descs_left_in_line, curr_bounce_buf>>
runVars == <<pc, pkt, start_tail, placed>>
devVars == <<head, devPhase, partial, devMeta, inDevice>>
ghostVars == <<sent, unread, unacked>>
vars == <<sqVars, lineVars, runVars, ring, doorbell, devVars, ghostVars>>

Llq == llq_info.llq
DescsPerEntry == llq_info.descs_per_entry
DescsBeforeHeader == llq_info.descs_num_before_header
MaxBurst == llq_info.max_entries_in_tx_burst
DisableMetaCaching == llq_info.disable_meta_caching

\* A packet the driver hands to this queue: it has a buffer unless the header
\* holds it all, which takes LLQ, and with meta caching disabled ena_tx_csum()
\* gives it a meta.
Sendable(p) ==
    /\ ~Llq => p.bufs > 0
    /\ DisableMetaCaching => p.meta # NoMeta

\* Descriptors of a packet: the first one also describes the header, so there
\* is one even when everything is in the header.
DataDescs(p) == IF p.bufs = 0 THEN 1 ELSE p.bufs

Ceil(a, b) == (a + b - 1) \div b

Slots == 0..(Depth - 1)
Counters == 0..(CounterSize - 1)
NoPacket == [bufs |-> 0, meta |-> NoMeta]
NoEntry == [phase |-> FALSE, descs |-> << >>]
MetaDesc(m) == [kind |-> "meta", meta |-> m, last |-> FALSE]
DataDesc(last) == [kind |-> "data", meta |-> NoMeta, last |-> last]

Init ==
    /\ llq_info \in Configs
    /\ tail = 0 /\ next_to_comp = 0 /\ phase = TRUE
    /\ entries_in_tx_burst_left = llq_info.max_entries_in_tx_burst
    /\ cached_tx_meta = ZeroMeta
    /\ idx = 0 /\ curr_bounce_buf = << >>
    /\ descs_left_in_line = llq_info.descs_num_before_header
    /\ pc = "idle" /\ pkt = NoPacket /\ start_tail = 0 /\ placed = 0
    /\ ring = [s \in Slots |-> NoEntry] /\ doorbell = 0
    /\ head = 0 /\ devPhase = TRUE /\ partial = << >> /\ devMeta = ZeroMeta
    /\ inDevice = EmptyBag
    /\ sent = << >> /\ unread = 0 /\ unacked = 0

-----------------------------------------------------------------------------
(***************************************************************************)
(* The arithmetic of ena_eth_com.h                                         *)
(***************************************************************************)
UsedEntries == (tail - next_to_comp) % CounterSize
FreeEntries == Depth - 1 - UsedEntries

\* Mutant: the rounding of the division is not compensated.
HaveEnoughSpaceExact(required) ==
    IF Llq THEN FreeEntries >= required \div DescsPerEntry ELSE FreeEntries >= required

HaveEnoughSpace(required) ==
    IF Llq THEN FreeEntries > required \div DescsPerEntry + 2
           ELSE FreeEntries >= required

MetaChanged(p) == p.meta # NoMeta /\ p.meta # cached_tx_meta
SendsMeta(p) == DisableMetaCaching \/ MetaChanged(p)
BurstLimited == Llq /\ MaxBurst > 0

\* Mutant: the meta descriptor is forgotten.
EntriesNeededNoMeta(p) ==
    IF p.bufs > DescsBeforeHeader
    THEN 1 + Ceil(p.bufs - DescsBeforeHeader, DescsPerEntry) ELSE 1

\* What ena_com_is_doorbell_needed() expects a packet to take.
EntriesNeeded(p) ==
    LET descs == p.bufs + IF SendsMeta(p) THEN 1 ELSE 0 IN
    IF descs > DescsBeforeHeader
    THEN 1 + Ceil(descs - DescsBeforeHeader, DescsPerEntry) ELSE 1

DoorbellNeeded(p) ==
    BurstLimited /\ EntriesNeeded(p) > entries_in_tx_burst_left

-----------------------------------------------------------------------------
(***************************************************************************)
(* Sending: ena_xmit_common() and ena_com_prepare_tx()                     *)
(***************************************************************************)

\* ena_com_write_tx_sq_doorbell(), rung first when the burst is used up.
RingFirst(p) ==
    IF DoorbellNeeded(p)
    THEN doorbell' = tail /\ entries_in_tx_burst_left' = MaxBurst
    ELSE UNCHANGED <<doorbell, entries_in_tx_burst_left>>

\* -ENOMEM: the packet is dropped and nothing has been placed.
Drop(p) ==
    /\ pc = "idle"
    /\ Sendable(p)
    /\ RingFirst(p)
    /\ ~HaveEnoughSpace(p.bufs + 1)
    /\ UNCHANGED <<llq_info, tail, next_to_comp, phase, cached_tx_meta, lineVars, runVars,
                   ring, devVars, ghostVars>>

Begin(p) ==
    /\ pc = "idle"
    /\ Sendable(p)
    /\ RingFirst(p)
    /\ HaveEnoughSpace(p.bufs + 1)
    /\ pc' = IF SendsMeta(p) THEN "meta" ELSE "data"
    /\ pkt' = p /\ start_tail' = tail /\ placed' = 0
    /\ UNCHANGED <<llq_info, tail, next_to_comp, phase, cached_tx_meta, lineVars, ring,
                   devVars, ghostVars>>

\* Mutant: the phase bit does not flip when the tail wraps.
PhaseAfterStuck(t) == phase
PhaseAfter(t) == IF t % Depth = 0 THEN ~phase ELSE phase

\* An entry goes to the ring and the tail moves on.
WriteEntry(descs) ==
    LET next == (tail + 1) % CounterSize IN
    /\ ring' = [ring EXCEPT ![tail % Depth] = [phase |-> phase, descs |-> descs]]
    /\ tail' = next
    /\ phase' = PhaseAfter(next)
    /\ unread' = unread + 1
    /\ unacked' = unacked + 1

\* ena_com_write_bounce_buffer_to_dev(), but for the error of a used up burst.
WriteLine(descs) ==
    /\ WriteEntry(descs)
    /\ IF BurstLimited
       THEN /\ entries_in_tx_burst_left > 0
            /\ entries_in_tx_burst_left' = entries_in_tx_burst_left - 1
       ELSE UNCHANGED entries_in_tx_burst_left

\* get_tx_sq_desc() and ena_com_sq_update_tail(): a descriptor takes an entry of
\* its own, or its place in the line, which is written when it is full.
Place(desc) ==
    \/ /\ ~Llq
       /\ WriteEntry(<<desc>>)
       /\ UNCHANGED <<entries_in_tx_burst_left, lineVars>>
    \/ /\ Llq
       /\ descs_left_in_line > 1
       /\ idx' = idx + 1
       /\ descs_left_in_line' = descs_left_in_line - 1
       /\ curr_bounce_buf' = Append(curr_bounce_buf, desc)
       /\ UNCHANGED <<tail, phase, entries_in_tx_burst_left, ring, unread, unacked>>
    \/ /\ Llq
       /\ descs_left_in_line = 1
       /\ WriteLine(Append(curr_bounce_buf, desc))
       /\ idx' = 0
       /\ descs_left_in_line' = DescsPerEntry
       /\ curr_bounce_buf' = << >>

\* ena_com_create_and_store_tx_meta_desc(): what the cache holds afterwards.
Cache(m) == IF DisableMetaCaching THEN cached_tx_meta ELSE m

PlaceMeta ==
    /\ pc = "meta"
    /\ Place(MetaDesc(pkt.meta))
    /\ cached_tx_meta' = Cache(pkt.meta)
    /\ pc' = "data"
    /\ UNCHANGED <<llq_info, next_to_comp, pkt, start_tail, placed, doorbell, devVars, sent>>

PlaceData ==
    LET last == placed + 1 = DataDescs(pkt) IN
    /\ pc = "data"
    /\ Place(DataDesc(last))
    /\ placed' = placed + 1
    /\ pc' = IF last THEN "close" ELSE "data"
    /\ UNCHANGED <<llq_info, next_to_comp, cached_tx_meta, pkt, start_tail, doorbell,
                   devVars, sent>>

\* Mutant: the next line is laid out like one in the middle of a packet.
NextLineRunsOn == DescsPerEntry
\* The descriptors the first line of a packet takes.
FirstLine == DescsBeforeHeader

\* ena_com_close_bounce_buffer(): a line that was begun is written, the next
\* packet starts one of its own.  nb_hw_desc becomes the packet's tx_descs.
Close ==
    /\ pc = "close"
    /\ IF Llq /\ idx > 0
       THEN WriteLine(curr_bounce_buf)
       ELSE UNCHANGED <<ring, tail, phase, entries_in_tx_burst_left, unread, unacked>>
    /\ IF Llq
       THEN idx' = 0 /\ descs_left_in_line' = FirstLine /\ curr_bounce_buf' = << >>
       ELSE UNCHANGED lineVars
    /\ sent' = Append(sent, [bufs |-> DataDescs(pkt), meta |-> pkt.meta,
                             tx_descs |-> (tail' - start_tail) % CounterSize])
    /\ pc' = "idle" /\ pkt' = NoPacket /\ start_tail' = 0 /\ placed' = 0
    /\ UNCHANGED <<llq_info, next_to_comp, cached_tx_meta, doorbell, devVars>>

\* The line is full, or closed, and the burst used up: -ENOSPC in the middle of a
\* packet.
OutOfBurst ==
    /\ BurstLimited
    /\ entries_in_tx_burst_left = 0
    /\ \/ pc \in {"meta", "data"} /\ descs_left_in_line = 1
       \/ pc = "close" /\ idx > 0
    /\ pc' = "failed"
    /\ cached_tx_meta' = IF pc = "meta" THEN Cache(pkt.meta) ELSE cached_tx_meta
    /\ UNCHANGED <<llq_info, tail, next_to_comp, phase, entries_in_tx_burst_left, lineVars,
                   pkt, start_tail, placed, ring, doorbell, devVars, ghostVars>>

\* ena_xmit_common() then asks for a device reset, which, like any other, destroys
\* the queue and creates it again.
Recreate ==
    /\ pc \in {"idle", "failed"}
    /\ tail' = 0 /\ next_to_comp' = 0 /\ phase' = TRUE
    /\ entries_in_tx_burst_left' = MaxBurst
    /\ cached_tx_meta' = ZeroMeta
    /\ idx' = 0 /\ curr_bounce_buf' = << >>
    /\ descs_left_in_line' = DescsBeforeHeader
    /\ pc' = "idle" /\ pkt' = NoPacket /\ start_tail' = 0 /\ placed' = 0
    /\ ring' = [s \in Slots |-> NoEntry] /\ doorbell' = 0
    /\ head' = 0 /\ devPhase' = TRUE /\ partial' = << >> /\ devMeta' = ZeroMeta
    /\ inDevice' = EmptyBag
    /\ sent' = << >> /\ unread' = 0 /\ unacked' = 0
    /\ UNCHANGED llq_info

\* The doorbell after a packet: ena_start_xmit() may put it off.
RingDoorbell ==
    /\ pc = "idle"
    /\ doorbell' = tail
    /\ entries_in_tx_burst_left' = MaxBurst
    /\ UNCHANGED <<llq_info, tail, next_to_comp, phase, cached_tx_meta, lineVars, runVars,
                   ring, devVars, ghostVars>>

-----------------------------------------------------------------------------
(***************************************************************************)
(* The device reads the announced entries in order and keeps the last meta *)
(* it was given; completions come in any order.                            *)
(***************************************************************************)
LastMeta(descs, m) ==
    IF \E i \in DOMAIN descs : descs[i].kind = "meta"
    THEN descs[CHOOSE i \in DOMAIN descs : descs[i].kind = "meta"].meta ELSE m

DeviceReads ==
    LET e == ring[head % Depth]
        next == (head + 1) % CounterSize
    IN
    /\ head # doorbell
    /\ e.phase = devPhase
    /\ head' = next
    /\ devPhase' = IF next % Depth = 0 THEN ~devPhase ELSE devPhase
    /\ devMeta' = LastMeta(e.descs, devMeta)
    /\ IF e.descs # << >> /\ e.descs[Len(e.descs)].last /\ sent # << >>
       THEN /\ partial' = << >>
            /\ sent' = Tail(sent)
            /\ inDevice' = inDevice (+) SetToBag({Head(sent).tx_descs})
       ELSE /\ partial' = partial \o e.descs
            /\ UNCHANGED <<sent, inDevice>>
    /\ unread' = unread - 1
    /\ UNCHANGED <<sqVars, lineVars, runVars, ring, doorbell, unacked>>

\* ena_com_comp_ack() by the completion handler, one packet at a time.
CompAck ==
    \E n \in BagToSet(inDevice) :
        /\ inDevice' = inDevice (-) SetToBag({n})
        /\ next_to_comp' = (next_to_comp + n) % CounterSize
        /\ unacked' = unacked - n
        /\ UNCHANGED <<llq_info, tail, phase, entries_in_tx_burst_left, cached_tx_meta,
                       lineVars, runVars, ring, doorbell, head, devPhase,
                       partial, devMeta, sent, unread>>

Next ==
    \/ \E p \in Packets : Drop(p) \/ Begin(p)
    \/ PlaceMeta \/ PlaceData \/ Close \/ OutOfBurst
    \/ RingDoorbell \/ Recreate
    \/ DeviceReads \/ CompAck

Spec == Init /\ [][Next]_vars

-----------------------------------------------------------------------------
(***************************************************************************)
(* Properties                                                              *)
(***************************************************************************)
Metas == {p.meta : p \in Packets} \cup {NoMeta, ZeroMeta}
Descs == [kind : {"meta", "data"}, meta : Metas, last : BOOLEAN]

\* The queue, the run of ena_com_prepare_tx(), the ring and the device keep their
\* types, and no more entries of a burst are left than the device allows.
TypeOK ==
    /\ llq_info \in Configs
    /\ tail \in Counters /\ next_to_comp \in Counters /\ phase \in BOOLEAN
    /\ entries_in_tx_burst_left \in 0..MaxBurst
    /\ cached_tx_meta \in Metas /\ devMeta \in Metas
    /\ idx \in Nat /\ descs_left_in_line \in Nat /\ curr_bounce_buf \in Seq(Descs)
    /\ pc \in {"idle", "meta", "data", "close", "failed"}
    /\ pkt \in Packets \cup {NoPacket}
    /\ start_tail \in Counters /\ placed \in Nat
    /\ \A s \in Slots : ring[s].phase \in BOOLEAN /\ ring[s].descs \in Seq(Descs)
    /\ doorbell \in Counters /\ head \in Counters /\ devPhase \in BOOLEAN
    /\ partial \in Seq(Descs)
    /\ unread \in Nat /\ unacked \in Nat

\* The space check is enough, although in LLQ mode it only estimates how many
\* entries a packet takes (the comment in ena_com_sq_have_enough_space): no
\* entry is written over one of a packet that is not acknowledged, one slot
\* stays free, and the wrapping counters still tell how many are in use.
RingNotOverrun ==
    /\ unread <= unacked
    /\ unacked <= Depth - 1
    /\ UsedEntries = unacked

\* Preparing a packet never runs into the end of the burst: the driver treats
\* "trying to send more packets than tx burst allows" (the message of
\* ena_com_write_bounce_buffer_to_dev) as fatal, and rings the doorbell before.
BurstSuffices == pc # "failed"

\* ena_com_is_doorbell_needed() foresees every entry of a packet when the meta
\* and the first descriptor fit before the header.
BurstSufficesForTwo == DescsBeforeHeader >= 2 => BurstSuffices

\* The header is put into the line before the descriptors are: no descriptor of
\* the packet's first line reaches the header's place, and a packet never
\* begins in a line that another one has begun.
HeaderIsKept ==
    Llq => /\ (pc # "idle" /\ tail = start_tail) => idx <= DescsBeforeHeader
           /\ pc = "idle" => idx = 0 /\ descs_left_in_line <= DescsBeforeHeader

\* The entries the device has not read, in its order, and their descriptors.
UnreadEntries == [n \in 1..unread |-> ring[(head + n - 1) % Depth]]
Unread == FoldLeft(LAMBDA descs, e : descs \o e.descs, << >>, UnreadEntries)

\* Reading on from state r: the meta in force, the data descriptors of the
\* packet so far, and the packets read to the end.
ReadOn(r, d) ==
    CASE d.kind = "meta"            -> [r EXCEPT !.meta = d.meta]
      [] d.kind = "data" /\ ~d.last -> [r EXCEPT !.bufs = @ + 1]
      [] OTHER -> [r EXCEPT !.bufs = 0,
                            !.packets = Append(@, [bufs |-> r.bufs + 1, meta |-> r.meta])]

\* Whatever the packing, the wrap-arounds and the caching of the meta, the
\* device will read the packets that were sent, in order, each with its own
\* number of buffers and, if it needs one, with its own meta (the comment on
\* cached metas in ena_com_create_and_store_tx_meta_desc); and every entry
\* carries the phase the device expects there.
DeviceReadsWhatWasSent ==
    LET start == [meta |-> devMeta, packets |-> << >>,
                  bufs |-> Cardinality({i \in DOMAIN partial : partial[i].kind = "data"})]
        seen == FoldLeft(ReadOn, start, Unread).packets
    IN
    /\ \A n \in 1..unread :
          UnreadEntries[n].phase = IF (head % Depth) + n > Depth THEN ~devPhase ELSE devPhase
    /\ pc = "idle" =>
          /\ Len(seen) = Len(sent)
          /\ \A i \in DOMAIN sent :
                /\ seen[i].bufs = sent[i].bufs
                /\ sent[i].meta # NoMeta => seen[i].meta = sent[i].meta
=============================================================================
