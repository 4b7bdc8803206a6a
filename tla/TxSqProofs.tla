------------------------------ MODULE TxSqProofs ------------------------------
(***************************************************************************)
(* Theorems about TxSq, for every depth of the ring, every width of its    *)
(* counters, every configuration of LLQ lines and bursts, and every size   *)
(* of packets.                                                             *)
(*                                                                         *)
(* The counters of the code wrap; the invariant speaks of the counters     *)
(* that do not (T, of all entries ever written, and D, of those announced) *)
(* and of where in them the packets end.  They are not variables: there    *)
(* are such numbers, in every state.                                       *)
(***************************************************************************)
EXTENDS TxSq, TLAPS, FiniteSetTheorems

-----------------------------------------------------------------------------
(***************************************************************************)
(* The inductive invariant                                                 *)
(***************************************************************************)
\* TypeOK without the counters, and the packets the device is yet to read or
\* has read.
SentPacket == [bufs : Nat, meta : Metas, tx_descs : Nat \ {0}]
Types ==
    /\ llq_info \in Configs
    /\ phase \in BOOLEAN /\ devPhase \in BOOLEAN
    /\ entries_in_tx_burst_left \in 0..MaxBurst
    /\ cached_tx_meta \in Metas /\ devMeta \in Metas
    /\ idx \in Nat /\ descs_left_in_line \in Nat /\ curr_bounce_buf \in Seq(Descs)
    /\ pc \in {"idle", "meta", "data", "close", "failed"}
    /\ pkt \in Packets \cup {NoPacket}
    /\ start_tail \in Counters /\ placed \in Nat
    /\ ring \in [Slots -> [phase : BOOLEAN, descs : Seq(Descs)]]
    /\ partial \in Seq(Descs)
    /\ sent \in Seq(SentPacket)
    /\ DOMAIN inDevice \subseteq Nat \ {0}
    /\ inDevice \in [DOMAIN inDevice -> Nat \ {0}]

\* The counters of the code are T and D, less what is unacknowledged or unread.
Counts(T, D) ==
    /\ unread \in Nat /\ unacked \in Nat
    /\ unread <= unacked /\ unacked <= T /\ unacked <= Depth - 1
    /\ tail = T % CounterSize /\ next_to_comp = (T - unacked) % CounterSize
    /\ head = (T - unread) % CounterSize /\ doorbell = D % CounterSize
    /\ T - unread <= D

\* Packet i of sent goes up to ends[i], and begins where the one before it ends.
\* The device reads the first one; what follows the last is the packet at work.
Bounds(T, D, ends) ==
    /\ ends \in [0..Len(sent) -> Nat]
    /\ ends[0] <= T - unread
    /\ \A i \in 1..Len(sent) : /\ ends[i] = ends[i - 1] + sent[i].tx_descs
                               /\ T - unread < ends[i]
    /\ \A i \in 0..Len(sent) : ends[i] <= ends[Len(sent)]
    /\ ends[Len(sent)] <= T /\ D <= ends[Len(sent)]
    /\ pc = "idle" => ends[Len(sent)] = T
    /\ pc # "idle" => start_tail = ends[Len(sent)] % CounterSize

\* The entries that end with the last descriptor of a packet are those.
Ends(descs) == descs # << >> /\ descs[Len(descs)].last
Ending(T, ends) ==
    /\ \A a \in Nat : T - unread <= a /\ a < T =>
          (Ends(ring[a % Depth].descs) <=>
             \/ \E i \in 1..Len(sent) : ends[i] = a + 1
             \/ pc = "close" /\ idx = 0 /\ a + 1 = T)
    /\ pc = "close" /\ idx > 0 => Ends(curr_bounce_buf)

\* The entries of packets the device has read: for each number of entries, as
\* many packets as the bag has.
CellsOf(bag) == {x \in Nat \X Nat \X Nat : /\ x[1] \in DOMAIN bag
                                           /\ x[2] \in 1..bag[x[1]]
                                           /\ x[3] \in 1..x[1]}
Cells == CellsOf(inDevice)
Accounts(T, ends) == IsFiniteSet(Cells) /\ unacked = Cardinality(Cells) + (T - ends[0])

\* The line being filled, when w entries of the packet at work are written.
Line(w) ==
    /\ Llq => /\ descs_left_in_line >= 1
              /\ idx + descs_left_in_line = IF w = 0 THEN DescsBeforeHeader ELSE DescsPerEntry
    /\ ~Llq \/ pc = "idle" => idx = 0

\* The descriptors placed are those of w entries and the line.  With the meta
\* descriptor, if there is to be one, they are what the burst was found to be enough
\* for, and the ring.
DescsIn(w) ==
    IF ~Llq THEN w
    ELSE IF w = 0 THEN idx ELSE DescsBeforeHeader + (w - 1) * DescsPerEntry + idx
EntriesFor(n) ==
    IF n > DescsBeforeHeader THEN 1 + Ceil(n - DescsBeforeHeader, DescsPerEntry) ELSE 1
AtWork == pc \in {"meta", "data", "close"}
Progress(w) ==
    AtWork =>
        /\ pkt \in Packets /\ Sendable(pkt)
        /\ pc = "data" => placed < DataDescs(pkt)
        /\ pc = "close" => placed = DataDescs(pkt)
        /\ \E m \in {0, 1} :
              /\ pc = "meta" => m = 1 /\ placed = 0
              /\ DescsIn(w) = placed + (IF pc = "meta" THEN 0 ELSE m)
              /\ BurstLimited /\ DescsBeforeHeader >= 2 =>
                    entries_in_tx_burst_left + w >= EntriesFor(DataDescs(pkt) + m)
Room(p) == IF Llq THEN (p.bufs + 1) \div DescsPerEntry + 3 ELSE p.bufs + 1
Space(w) == AtWork => unacked - w + Room(pkt) <= Depth - 1

Places(T, D, ends) ==
    /\ Counts(T, D) /\ Bounds(T, D, ends) /\ Ending(T, ends) /\ Accounts(T, ends)
    /\ Line(T - ends[Len(sent)]) /\ Progress(T - ends[Len(sent)]) /\ Space(T - ends[Len(sent)])
Somewhere == \E T, D \in Nat : \E ends \in [0..Len(sent) -> Nat] : Places(T, D, ends)
IInv == Types /\ BurstSufficesForTwo /\ Somewhere

-----------------------------------------------------------------------------
(***************************************************************************)
(* Division and remainder                                                  *)
(***************************************************************************)
\* What the remainder and the quotient are.
LEMMA DivMod ==
    ASSUME NEW a \in Int, NEW m \in Nat \ {0}
    PROVE  a % m \in 0..(m - 1) /\ a \div m \in Int /\ a = (a \div m) * m + (a % m)
  OBVIOUS

\* There is no other quotient with such a remainder.
LEMMA DivModUnique ==
    ASSUME NEW a \in Int, NEW m \in Nat \ {0}, NEW q \in Int, NEW r \in 0..(m - 1),
           a = q * m + r
    PROVE  a % m = r /\ a \div m = q
<1> DEFINE p == a \div m
           s == a % m
<1>1. p \in Int /\ s \in 0..(m - 1) /\ p * m + s = q * m + r
  BY DivMod
<1> HIDE DEF p, s
<1>2. (p - q) * m = r - s
  BY <1>1
<1>3. p = q
  <2>1. CASE p > q
    <3>1. (p - q) * m >= 1 * m
      BY <1>1, <2>1
    <3> QED
      BY <1>1, <1>2, <3>1
  <2>2. CASE p < q
    <3>1. (q - p) * m >= 1 * m
      BY <1>1, <2>2
    <3>2. (q - p) * m = s - r
      BY <1>1
    <3> QED
      BY <1>1, <3>1, <3>2
  <2> QED
    BY <1>1, <2>1, <2>2
<1> QED
  BY <1>1, <1>2, <1>3 DEF p, s

\* A counter that wraps can be wrapped at each step or at the end.
LEMMA ModSum ==
    ASSUME NEW a \in Int, NEW n \in Int, NEW m \in Nat \ {0}
    PROVE  ((a % m) + n) % m = (a + n) % m
<1> DEFINE p == a \div m
           s == a % m
           q == (s + n) \div m
           r == (s + n) % m
<1>1. p \in Int /\ s \in Int /\ a = p * m + s
  BY DivMod
<1>2. s + n \in Int
  BY <1>1
<1>3. q \in Int /\ r \in 0..(m - 1) /\ s + n = q * m + r
  BY <1>2, DivMod
<1> HIDE DEF p, s, q, r
<1>4. a + n = (p + q) * m + r /\ p + q \in Int /\ a + n \in Int
  BY <1>1, <1>3
<1>5. (a + n) % m = r
  BY <1>3, <1>4, DivModUnique
<1> QED
  BY <1>5 DEF r, s

\* The difference of two wrapped counters tells how far apart they are.
LEMMA ModDifference ==
    ASSUME NEW a \in Int, NEW b \in Int, NEW m \in Nat \ {0}, b <= a, a - b < m
    PROVE  ((a % m) - (b % m)) % m = a - b
<1> DEFINE p == a \div m
           s == a % m
           q == b \div m
           r == b % m
<1>1. p \in Int /\ s \in Int /\ a = p * m + s
  BY DivMod
<1>2. q \in Int /\ r \in Int /\ b = q * m + r
  BY DivMod
<1> HIDE DEF p, s, q, r
<1>3. s - r = (q - p) * m + (a - b) /\ a - b \in 0..(m - 1) /\ q - p \in Int /\ s - r \in Int
  BY <1>1, <1>2
<1>4. (s - r) % m = a - b
  BY <1>3, DivModUnique
<1> QED
  BY <1>4 DEF r, s

\* So counters less than a turn apart are different ones.
LEMMA ModInjective ==
    ASSUME NEW a \in Int, NEW b \in Int, NEW m \in Nat \ {0}, b <= a, a - b < m,
           a % m = b % m
    PROVE  a = b
<1>1. ((a % m) - (b % m)) % m = a - b
  BY ModDifference
<1>2. b % m \in Int
  BY DivMod
<1>3. (a % m) - (b % m) = 0
  BY <1>2
<1>4. 0 % m = 0
  <2>1. 0 \in 0..(m - 1) /\ 0 = 0 * m + 0
    OBVIOUS
  <2> QED
    BY <2>1, DivModUnique
<1> QED
  BY <1>1, <1>3, <1>4

\* The slot of a counter is that of the counter it is wrapped from.
LEMMA SlotOfCounter ==
    ASSUME NEW a \in Int
    PROVE  (a % CounterSize) % Depth = a % Depth
<1> DEFINE p == a \div CounterSize
           s == a % CounterSize
           k == CounterSize \div Depth
           q == s \div Depth
           r == s % Depth
<1>1. Depth \in Nat \ {0} /\ CounterSize \in Nat \ {0} /\ CounterSize \in Int
  BY DepthAssumption, CounterAssumption
<1>2. p \in Int /\ s \in Int /\ a = p * CounterSize + s
  BY <1>1, DivMod
<1>3. k \in Int /\ CounterSize = k * Depth + (CounterSize % Depth)
  BY <1>1, DivMod
<1>4. CounterSize % Depth = 0
  BY CounterAssumption
<1>5. q \in Int /\ r \in 0..(Depth - 1) /\ s = q * Depth + r
  BY <1>1, <1>2, DivMod
<1> HIDE DEF p, s, k, q, r
<1>6. CounterSize = k * Depth
  BY <1>1, <1>3, <1>4
<1>7. p * CounterSize = (p * k) * Depth
  BY <1>1, <1>2, <1>3, <1>6
<1>8. a = (p * k + q) * Depth + r /\ p * k + q \in Int
  BY <1>1, <1>2, <1>3, <1>5, <1>7
<1>9. a % Depth = r
  BY <1>1, <1>5, <1>8, DivModUnique
<1> QED
  BY <1>9 DEF r, s

\* A quotient by its bounds.
LEMMA DivAtLeast ==
    ASSUME NEW a \in Int, NEW m \in Nat \ {0}, NEW w \in Int, w * m <= a
    PROVE  w <= a \div m
<1> DEFINE p == a \div m
           s == a % m
<1>1. p \in Int /\ s \in 0..(m - 1) /\ a = p * m + s
  BY DivMod
<1> HIDE DEF p, s
<1>2. CASE p < w
  <2>1. (w - p) * m >= 1 * m
    BY <1>1, <1>2
  <2>2. w * m - p * m >= m
    BY <1>1, <2>1
  <2> QED
    BY <1>1, <2>2
<1> QED
  BY <1>1, <1>2 DEF p

\* The same from above.
LEMMA DivAtMost ==
    ASSUME NEW a \in Int, NEW m \in Nat \ {0}, NEW w \in Int, a < (w + 1) * m
    PROVE  a \div m <= w
<1> DEFINE p == a \div m
           s == a % m
<1>1. p \in Int /\ s \in 0..(m - 1) /\ a = p * m + s
  BY DivMod
<1> HIDE DEF p, s
<1>2. CASE p > w
  <2>1. (p - (w + 1)) * m >= 0
    BY <1>1, <1>2
  <2>2. p * m >= (w + 1) * m
    BY <1>1, <2>1
  <2> QED
    BY <1>1, <2>2
<1> QED
  BY <1>1, <1>2 DEF p

-----------------------------------------------------------------------------
(***************************************************************************)
(* What the invariant says of the numbers                                  *)
(***************************************************************************)
\* The sizes of the ring and of its counters.
LEMMA SizeType ==
    /\ Depth \in Nat \ {0} /\ CounterSize \in Nat \ {0} /\ Depth < CounterSize
    /\ Slots = 0..(Depth - 1) /\ Counters = 0..(CounterSize - 1)
  BY DepthAssumption, CounterAssumption DEF Slots, Counters

\* What a queue is created with, as ConfigsAssumption has it.
LEMMA ConfigType ==
    ASSUME Types
    PROVE  /\ Llq \in BOOLEAN /\ DisableMetaCaching \in BOOLEAN
           /\ DescsPerEntry \in Nat /\ DescsBeforeHeader \in Nat /\ MaxBurst \in Nat
           /\ Llq => DescsPerEntry \in Nat \ {0} /\ DescsBeforeHeader \in Nat \ {0}
           /\ ~Llq => MaxBurst = 0 /\ ~DisableMetaCaching
  BY ConfigsAssumption
     DEF Types, Llq, DisableMetaCaching, DescsPerEntry, DescsBeforeHeader, MaxBurst

\* A packet's buffers, with the one descriptor of a packet that is all header.
LEMMA PacketType ==
    \A p \in Packets : /\ p.bufs \in Nat /\ DataDescs(p) \in Nat \ {0}
                       /\ DataDescs(p) = IF p.bufs = 0 THEN 1 ELSE p.bufs
                       /\ p.meta \in Metas
  BY PacketsAssumption DEF DataDescs, Metas

\* The code's counters and what they tell.
LEMMA CountsType ==
    ASSUME Types, NEW T \in Nat, NEW D \in Nat, NEW ends \in [0..Len(sent) -> Nat],
           Places(T, D, ends)
    PROVE  /\ tail \in Counters /\ next_to_comp \in Counters /\ head \in Counters
           /\ doorbell \in Counters
           /\ Len(sent) \in Nat /\ 0 \in 0..Len(sent) /\ Len(sent) \in 0..Len(sent)
           /\ ends[0] \in Nat /\ ends[Len(sent)] \in Nat
           /\ unread \in Nat /\ unacked \in Nat
           /\ T - ends[Len(sent)] \in 0..unread
           /\ UsedEntries = unacked
           /\ FreeEntries = Depth - 1 - unacked
<1> USE DEF Places, Counts
<1>1. T \in Int /\ T - unacked \in Int /\ T - unread \in Int /\ D \in Int
  OBVIOUS
<1>2. tail \in Counters /\ next_to_comp \in Counters /\ head \in Counters /\ doorbell \in Counters
  BY <1>1, SizeType, DivMod
<1>3. Len(sent) \in Nat
  BY DEF Types
<1>4. 0 \in 0..Len(sent) /\ Len(sent) \in 0..Len(sent)
  BY <1>3
<1>5. ends[0] \in Nat /\ ends[Len(sent)] \in Nat
  BY <1>4
<1>6. T - ends[Len(sent)] \in 0..unread
  BY <1>5 DEF Bounds
<1>7. UsedEntries = unacked
  <2>1. T - unacked <= T /\ T - (T - unacked) < CounterSize /\ T - (T - unacked) = unacked
    BY SizeType
  <2>2. (tail - next_to_comp) % CounterSize = T - (T - unacked)
    BY <1>1, <2>1, SizeType, ModDifference
  <2> QED
    BY <2>1, <2>2 DEF UsedEntries
<1> QED
  BY <1>2, <1>3, <1>4, <1>5, <1>6, <1>7 DEF FreeEntries

\* Room is what the space check asked for, with the rounding and the entry of a line
\* that is closed before it is full: before each entry there is room for one.
LEMMA RoomToWrite ==
    ASSUME Types, NEW w \in Nat, Line(w), Progress(w), AtWork, pc = "close" => Llq
    PROVE  Room(pkt) \in Nat /\ w + 1 <= Room(pkt)
<1>1. /\ pkt \in Packets /\ Sendable(pkt)
      /\ pc = "data" => placed < DataDescs(pkt)
      /\ pc = "close" => placed = DataDescs(pkt)
  BY DEF Progress
<1>2. PICK m \in {0, 1} : /\ pc = "meta" => m = 1 /\ placed = 0
                          /\ DescsIn(w) = placed + (IF pc = "meta" THEN 0 ELSE m)
  BY DEF Progress
<1>3. /\ pkt.bufs \in Nat /\ DataDescs(pkt) \in Nat /\ placed \in Nat /\ idx \in Nat
      /\ DataDescs(pkt) = IF pkt.bufs = 0 THEN 1 ELSE pkt.bufs
  BY <1>1, PacketType DEF Types
<1>4. placed + (IF pc = "meta" THEN 0 ELSE m) <= pkt.bufs + 2
  BY <1>1, <1>2, <1>3 DEF AtWork
<1>5. CASE ~Llq
  <2>1. w = placed + (IF pc = "meta" THEN 0 ELSE m) /\ pkt.bufs > 0 /\ pc # "close"
    BY <1>1, <1>2, <1>3, <1>5 DEF DescsIn, Sendable
  <2>2. w <= pkt.bufs
    BY <1>1, <1>2, <1>3, <2>1 DEF AtWork
  <2> QED
    BY <1>3, <1>5, <2>2 DEF Room
<1>6. CASE Llq
  <2>1. DescsPerEntry \in Nat \ {0} /\ DescsBeforeHeader \in Nat \ {0}
    BY <1>6, ConfigType
  <2>2. 0 <= (pkt.bufs + 1) \div DescsPerEntry /\ (pkt.bufs + 1) \div DescsPerEntry \in Int
    <3>1. 0 * DescsPerEntry <= pkt.bufs + 1 /\ pkt.bufs + 1 \in Int
      BY <1>3, <2>1
    <3> QED
      BY <2>1, <3>1, DivAtLeast, DivMod, SMTT(30)
  <2>3. w - 1 <= (pkt.bufs + 1) \div DescsPerEntry
    <3>1. CASE w = 0
      BY <2>2, <3>1
    <3>2. CASE w # 0
      <4>1. DescsIn(w) = DescsBeforeHeader + (w - 1) * DescsPerEntry + idx
        BY <1>6, <3>2 DEF DescsIn
      <4>2. (w - 1) * DescsPerEntry \in Int
        BY <2>1
      <4>3. (w - 1) * DescsPerEntry <= pkt.bufs + 1
        BY <1>2, <1>3, <1>4, <2>1, <4>1, <4>2
      <4>4. w - 1 \in Int /\ pkt.bufs + 1 \in Int
        BY <1>3
      <4> QED
        BY <2>1, <4>3, <4>4, DivAtLeast
    <3> QED
      BY <3>1, <3>2
  <2>4. Room(pkt) = (pkt.bufs + 1) \div DescsPerEntry + 3
    BY <1>6 DEF Room
  <2> QED
    BY <2>2, <2>3, <2>4
<1> QED
  BY <1>5, <1>6, ConfigType

\* An entry is written behind the others.
LEMMA EntryWritten ==
    ASSUME Types, NEW T \in Nat, NEW D \in Nat, NEW ends \in [0..Len(sent) -> Nat],
           Places(T, D, ends), AtWork, pc = "close" => Llq,
           NEW descs \in Seq(Descs), WriteEntry(descs), UNCHANGED <<next_to_comp, doorbell, devVars>>
    PROVE  /\ Counts(T + 1, D)' /\ Accounts(T + 1, ends)'
           /\ (T + 1) - unread' = T - unread
           /\ ring' \in [Slots -> [phase : BOOLEAN, descs : Seq(Descs)]]
           /\ phase' \in BOOLEAN
           /\ \A a \in Nat : T - unread <= a /\ a < T => ring'[a % Depth].descs = ring[a % Depth].descs
           /\ ring'[T % Depth].descs = descs
<1> DEFINE w == T - ends[Len(sent)]
<1>1. /\ w \in Nat /\ w <= unread /\ unread <= unacked /\ unread \in Nat /\ unacked \in Nat
      /\ ends[0] \in Nat
  <2>1. w \in 0..unread /\ unread \in Nat /\ unacked \in Nat /\ ends[0] \in Nat
    BY CountsType
  <2>2. unread <= unacked
    BY DEF Places, Counts
  <2> QED
    BY <2>1, <2>2
<1>2. Room(pkt) \in Nat /\ w + 1 <= Room(pkt)
  BY <1>1, RoomToWrite DEF Places
<1>3. unacked - w + Room(pkt) <= Depth - 1
  BY DEF Places, Space
<1> HIDE DEF w
<1>4. unacked + 1 <= Depth - 1
  BY <1>1, <1>2, <1>3, SizeType
<1>5. /\ tail' = (tail + 1) % CounterSize /\ unread' = unread + 1 /\ unacked' = unacked + 1
      /\ ring' = [ring EXCEPT ![tail % Depth] = [phase |-> phase, descs |-> descs]]
      /\ phase' = PhaseAfter((tail + 1) % CounterSize)
  BY DEF WriteEntry
<1>6. tail' = (T + 1) % CounterSize
  <2>1. tail = T % CounterSize /\ T \in Int
    BY DEF Places, Counts
  <2>2. ((T % CounterSize) + 1) % CounterSize = (T + 1) % CounterSize
    <3>1. 1 \in Int
      OBVIOUS
    <3> QED
      BY <2>1, <3>1, ModSum, SizeType
  <2> QED
    BY <1>5, <2>1, <2>2
<1>7. (T + 1) - unread' = T - unread /\ (T + 1) - unacked' = T - unacked
  BY <1>1, <1>5
<1>8. Counts(T + 1, D)'
  <2>1. /\ head' = ((T + 1) - unread') % CounterSize
        /\ next_to_comp' = ((T + 1) - unacked') % CounterSize
        /\ doorbell' = D % CounterSize
    BY <1>7 DEF Places, Counts, devVars
  <2>2. /\ unread' \in Nat /\ unacked' \in Nat /\ unread' <= unacked' /\ unacked' <= T + 1
        /\ unacked' <= Depth - 1 /\ (T + 1) - unread' <= D
    BY <1>1, <1>4, <1>5, <1>7 DEF Places, Counts
  <2> QED
    BY <1>6, <2>1, <2>2 DEF Counts
<1>9. Accounts(T + 1, ends)'
  <2>1. Cells' = Cells
    BY DEF Cells, devVars
  <2>2. IsFiniteSet(Cells) /\ unacked = Cardinality(Cells) + (T - ends[0])
    BY DEF Places, Accounts
  <2>3. Cardinality(Cells) \in Nat
    BY <2>2, FS_CardinalityType
  <2>4. unacked' = Cardinality(Cells) + (T + 1 - ends[0])
    BY <1>1, <1>5, <2>2, <2>3, SMTT(30)
  <2> QED
    BY <2>1, <2>2, <2>4 DEF Accounts
<1>10. tail % Depth = T % Depth
  <2>1. tail = T % CounterSize /\ T \in Int
    BY DEF Places, Counts
  <2> QED
    BY <2>1, SlotOfCounter
<1>11. T \in Int /\ T % Depth \in Slots
  <2>1. T \in Int
    OBVIOUS
  <2> QED
    BY <2>1, DivMod, SizeType
<1>12. [phase |-> phase, descs |-> descs] \in [phase : BOOLEAN, descs : Seq(Descs)]
  BY DEF Types
<1>13. ring' \in [Slots -> [phase : BOOLEAN, descs : Seq(Descs)]] /\ ring'[T % Depth].descs = descs
  BY <1>5, <1>10, <1>11, <1>12 DEF Types
<1>14. ASSUME NEW a \in Nat, T - unread <= a, a < T
       PROVE  ring'[a % Depth].descs = ring[a % Depth].descs
  <2>1. a <= T /\ T - a < Depth /\ T # a /\ a \in Int /\ T \in Int
    BY <1>1, <1>4, <1>14, SizeType
  <2>2. T % Depth # a % Depth
    BY <2>1, ModInjective, SizeType
  <2>3. a % Depth \in Slots
    BY <2>1, DivMod, SizeType
  <2> QED
    BY <1>5, <1>10, <2>2, <2>3 DEF Types
<1>15. phase' \in BOOLEAN
  BY <1>5 DEF PhaseAfter, Types
<1> QED
  BY <1>7, <1>8, <1>9, <1>13, <1>14, <1>15

-----------------------------------------------------------------------------
(***************************************************************************)
(* A new queue, and steps between packets                                  *)
(***************************************************************************)
\* A new queue is empty.
LEMMA NewQueue == Init => IInv
<1> SUFFICES ASSUME Init PROVE IInv
  OBVIOUS
<1> USE DEF Init
<1>1. Types
  <2>1. MaxBurst \in Nat /\ ZeroMeta \in Metas /\ NoMeta \in Metas
    BY ConfigsAssumption DEF MaxBurst, Metas
  <2>2. DescsBeforeHeader \in Nat
    BY ConfigsAssumption DEF DescsBeforeHeader
  <2>3. NoEntry \in [phase : BOOLEAN, descs : Seq(Descs)]
    BY DEF NoEntry
  <2>4. 0 \in Counters
    BY SizeType
  <2>5. inDevice = [e \in {} |-> 1]
    BY DEF EmptyBag, SetToBag
  <2>6. entries_in_tx_burst_left \in 0..MaxBurst
    BY <2>1 DEF MaxBurst
  <2> QED
    BY <2>1, <2>2, <2>3, <2>4, <2>5, <2>6 DEF Types, DescsBeforeHeader
<1>2. BurstSufficesForTwo
  BY DEF BurstSufficesForTwo, BurstSuffices
<1>3. Somewhere
  <2> DEFINE ends == [i \in 0..0 |-> 0]
  <2>1. Len(sent) = 0 /\ ends \in [0..Len(sent) -> Nat] /\ ends[Len(sent)] = 0 /\ ends[0] = 0
    OBVIOUS
  <2>2. Counts(0, 0)
    <3>1. 0 % CounterSize = 0
      <4>1. 0 \in 0..(CounterSize - 1) /\ 0 = 0 * CounterSize + 0
        BY SizeType
      <4> QED
        BY <4>1, SizeType, DivModUnique
    <3>2. 0 - unacked = 0 /\ 0 - unread = 0
      OBVIOUS
    <3> QED
      BY <3>1, <3>2, SizeType DEF Counts
  <2>3. Bounds(0, 0, ends)
    BY <2>1 DEF Bounds
  <2>4. Ending(0, ends)
    BY DEF Ending
  <2>5. Accounts(0, ends)
    <3>1. Cells = {}
      BY DEF Cells, CellsOf, EmptyBag, SetToBag
    <3> QED
      BY <2>1, <3>1, FS_EmptySet DEF Accounts
  <2> HIDE DEF ends
  <2>6. 0 - ends[Len(sent)] = 0
    BY <2>1
  <2>7. Line(0) /\ Progress(0) /\ Space(0)
    <3>1. llq_info \in Configs
      BY DEF Init
    <3>2. Llq => DescsBeforeHeader \in Nat \ {0}
      BY <1>1, ConfigType
    <3> QED
      BY <3>2 DEF Line, Progress, Space, AtWork, DescsBeforeHeader
  <2>8. Places(0, 0, ends)
    BY <2>2, <2>3, <2>4, <2>5, <2>6, <2>7 DEF Places
  <2> QED
    BY <2>1, <2>8 DEF Somewhere
<1> QED
  BY <1>1, <1>2, <1>3 DEF IInv

\* So is one that is made anew.
LEMMA RecreateInv == Types /\ Recreate => Init'
  BY DEF Types, Recreate, Init, MaxBurst, DescsBeforeHeader

\* What a step keeps that writes no entry and reads none.
LEMMA Unmoved ==
    ASSUME Types, NEW T \in Nat, NEW D \in Nat, NEW ends \in [0..Len(sent) -> Nat],
           Places(T, D, ends), NEW D1 \in {D, T}, doorbell' = D1 % CounterSize,
           UNCHANGED <<llq_info, tail, next_to_comp, phase, ring, devVars, ghostVars>>
    PROVE  /\ Counts(T, D1)' /\ Accounts(T, ends)'
           /\ ends \in [0..Len(sent') -> Nat]
<1> USE DEF devVars, ghostVars
<1>1. Counts(T, D1)'
  BY DEF Places, Counts
<1>2. Cells' = Cells
  BY DEF Cells
<1>3. Accounts(T, ends)'
  BY <1>2 DEF Places, Accounts
<1> QED
  BY <1>1, <1>3

\* Between packets the doorbell may be rung, and nothing else.
LEMMA BetweenPackets ==
    ASSUME Types, NEW T \in Nat, NEW D \in Nat, NEW ends \in [0..Len(sent) -> Nat],
           Places(T, D, ends), pc = "idle",
           \/ doorbell' = tail /\ entries_in_tx_burst_left' = MaxBurst
           \/ UNCHANGED <<doorbell, entries_in_tx_burst_left>>,
           UNCHANGED <<llq_info, tail, next_to_comp, phase, lineVars, ring, devVars, ghostVars>>
    PROVE  /\ entries_in_tx_burst_left' \in 0..MaxBurst'
           /\ \E D1 \in {D, T} : Counts(T, D1)' /\ D1 <= ends[Len(sent)]
           /\ Accounts(T, ends)' /\ ends \in [0..Len(sent') -> Nat]
           /\ T = ends[Len(sent)]
<1>1. entries_in_tx_burst_left' \in 0..MaxBurst'
  BY ConfigType, SMTT(30) DEF Types, MaxBurst
<1>2. T = ends[Len(sent)] /\ D <= ends[Len(sent)]
  BY DEF Places, Bounds
<1>3. \E D1 \in {D, T} : doorbell' = D1 % CounterSize /\ D1 <= ends[Len(sent)]
  BY <1>2 DEF Places, Counts
<1>4. PICK D1 \in {D, T} : doorbell' = D1 % CounterSize /\ D1 <= ends[Len(sent)]
  BY <1>3
<1>5. /\ Counts(T, D1)' /\ Accounts(T, ends)' /\ ends \in [0..Len(sent') -> Nat]
  BY <1>4, Unmoved
<1> QED
  BY <1>1, <1>2, <1>4, <1>5

\* A packet is dropped, or a doorbell is rung.
LEMMA IdleInv ==
    ASSUME IInv, RingDoorbell \/ \E p \in Packets : Drop(p)
    PROVE  IInv'
<1> USE DEF IInv
<1>1. PICK T \in Nat, D \in Nat : \E ends \in [0..Len(sent) -> Nat] : Places(T, D, ends)
  BY DEF Somewhere
<1>2. PICK ends \in [0..Len(sent) -> Nat] : Places(T, D, ends)
  BY <1>1
<1>3. /\ pc = "idle"
      /\ \/ doorbell' = tail /\ entries_in_tx_burst_left' = MaxBurst
         \/ UNCHANGED <<doorbell, entries_in_tx_burst_left>>
      /\ UNCHANGED <<llq_info, tail, next_to_comp, phase, cached_tx_meta, lineVars, runVars,
                     ring, devVars, ghostVars>>
  BY DEF RingDoorbell, Drop, RingFirst
<1>4. /\ entries_in_tx_burst_left' \in 0..MaxBurst'
      /\ Accounts(T, ends)' /\ ends \in [0..Len(sent') -> Nat]
  BY <1>2, <1>3, BetweenPackets
<1>5. PICK D1 \in {D, T} : Counts(T, D1)' /\ D1 <= ends[Len(sent)]
  BY <1>2, <1>3, BetweenPackets
<1> USE DEF lineVars, runVars, devVars, ghostVars
<1>6. Types'
  BY <1>3, <1>4 DEF Types
<1>7. BurstSufficesForTwo'
  BY <1>3 DEF BurstSufficesForTwo, BurstSuffices
<1>8. Bounds(T, D1, ends)'
  BY <1>2, <1>3, <1>5 DEF Places, Bounds
<1>9. Ending(T, ends)'
  BY <1>2, <1>3 DEF Places, Ending
<1>10. /\ Line(T - ends[Len(sent)])' /\ Progress(T - ends[Len(sent)])' /\ Space(T - ends[Len(sent)])'
  BY <1>2, <1>3 DEF Places, Line, Progress, Space, AtWork, Llq, DescsBeforeHeader, DescsPerEntry
<1>11. Places(T, D1, ends)'
  BY <1>4, <1>5, <1>8, <1>9, <1>10 DEF Places
<1>12. Somewhere'
  BY <1>4, <1>11 DEF Somewhere
<1> QED
  BY <1>6, <1>7, <1>12

-----------------------------------------------------------------------------
(***************************************************************************)
(* The first entry of a packet                                             *)
(***************************************************************************)
\* ena_com_is_doorbell_needed() counts what a packet takes, and where the burst is used
\* up and begins anew it is enough for any packet.
LEMMA BurstIsEnough ==
    ASSUME Types, NEW p \in Packets, NEW m \in {0, 1}, m = (IF SendsMeta(p) THEN 1 ELSE 0),
           BurstLimited, DescsBeforeHeader >= 2
    PROVE  /\ EntriesFor(DataDescs(p) + m) = EntriesNeeded(p)
           /\ EntriesNeeded(p) <= MaxBurst /\ EntriesNeeded(p) \in Int
<1>1. /\ DescsPerEntry \in Nat \ {0} /\ DescsBeforeHeader \in Nat /\ MaxBurst \in Nat /\ MaxBurst > 0
      /\ p.bufs \in Nat /\ DataDescs(p) = IF p.bufs = 0 THEN 1 ELSE p.bufs
  BY ConfigType, PacketType DEF BurstLimited
<1>2. EntriesNeeded(p) = EntriesFor(p.bufs + m)
  BY DEF EntriesNeeded, EntriesFor
<1>3. EntriesFor(DataDescs(p) + m) = EntriesFor(p.bufs + m)
  <2>1. CASE p.bufs = 0
    <3>1. EntriesFor(1 + m) = 1 /\ EntriesFor(0 + m) = 1
      BY <1>1 DEF EntriesFor
    <3> QED
      BY <1>1, <2>1, <3>1
  <2>2. CASE p.bufs # 0
    BY <1>1, <2>2
  <2> QED
    BY <2>1, <2>2
<1>4. EntriesFor(p.bufs + m) <= MaxBurst /\ EntriesFor(p.bufs + m) \in Int
  <2>1. CASE p.bufs + m <= DescsBeforeHeader
    BY <1>1, <2>1 DEF EntriesFor
  <2>2. CASE p.bufs + m > DescsBeforeHeader
    <3>1. p.bufs + 1 <= DescsBeforeHeader + (MaxBurst - 1) * DescsPerEntry
      BY BurstAssumption DEF BurstLimited, Types, Llq, DescsBeforeHeader, MaxBurst, DescsPerEntry
    <3> DEFINE a == ((p.bufs + m) - DescsBeforeHeader) + DescsPerEntry - 1
    <3>2. a \in Int /\ MaxBurst - 1 \in Int
      BY <1>1
    <3>3. (MaxBurst - 1) * DescsPerEntry \in Int
      BY <1>1
    <3>4. a < (MaxBurst - 1) * DescsPerEntry + DescsPerEntry
      BY <1>1, <3>1, <3>3
    <3>5. ((MaxBurst - 1) + 1) * DescsPerEntry = (MaxBurst - 1) * DescsPerEntry + DescsPerEntry
      BY <1>1
    <3>6. EntriesFor(p.bufs + m) = 1 + (a \div DescsPerEntry)
      BY <2>2 DEF EntriesFor, Ceil
    <3> HIDE DEF a
    <3>7. a \div DescsPerEntry <= MaxBurst - 1 /\ a \div DescsPerEntry \in Int
      BY <1>1, <3>2, <3>4, <3>5, DivAtMost, DivMod
    <3> QED
      BY <1>1, <3>6, <3>7
  <2> QED
    BY <1>1, <2>1, <2>2
<1> QED
  BY <1>2, <1>3, <1>4

\* A packet begins: there is room for it, and the burst is enough.
LEMMA BeginInv ==
    ASSUME IInv, NEW p \in Packets, Begin(p)
    PROVE  IInv'
<1> USE DEF IInv
<1>1. PICK T \in Nat, D \in Nat : \E ends \in [0..Len(sent) -> Nat] : Places(T, D, ends)
  BY DEF Somewhere
<1>2. PICK ends \in [0..Len(sent) -> Nat] : Places(T, D, ends)
  BY <1>1
<1>3. /\ pc = "idle" /\ Sendable(p) /\ RingFirst(p) /\ HaveEnoughSpace(p.bufs + 1)
      /\ pc' = (IF SendsMeta(p) THEN "meta" ELSE "data")
      /\ pkt' = p /\ start_tail' = tail /\ placed' = 0
      /\ UNCHANGED <<llq_info, tail, next_to_comp, phase, cached_tx_meta, lineVars, ring,
                     devVars, ghostVars>>
  BY DEF Begin
<1>4. \/ doorbell' = tail /\ entries_in_tx_burst_left' = MaxBurst
      \/ UNCHANGED <<doorbell, entries_in_tx_burst_left>>
  BY <1>3 DEF RingFirst
<1>5. /\ entries_in_tx_burst_left' \in 0..MaxBurst'
      /\ Accounts(T, ends)' /\ ends \in [0..Len(sent') -> Nat] /\ T = ends[Len(sent)]
  BY <1>2, <1>3, <1>4, BetweenPackets
<1>6. PICK D1 \in {D, T} : Counts(T, D1)' /\ D1 <= ends[Len(sent)]
  BY <1>2, <1>3, <1>4, BetweenPackets
<1>7. tail \in Counters /\ FreeEntries = Depth - 1 - unacked /\ unacked \in Nat
  BY <1>2, CountsType
<1>8. p.bufs \in Nat /\ DataDescs(p) \in Nat \ {0}
  BY PacketType
<1> USE DEF lineVars, devVars, ghostVars
<1>9. Types'
  BY <1>3, <1>5, <1>7 DEF Types
<1>10. BurstSufficesForTwo'
  BY <1>3 DEF BurstSufficesForTwo, BurstSuffices
<1>11. Bounds(T, D1, ends)'
  BY <1>2, <1>3, <1>5, <1>6 DEF Places, Bounds, Counts
<1>12. Ending(T, ends)'
  BY <1>2, <1>3 DEF Places, Ending
<1>13. T - ends[Len(sent)] = 0 /\ Len(sent') = Len(sent)
  BY <1>3, <1>5
<1>14. Llq' = Llq /\ DescsBeforeHeader' = DescsBeforeHeader /\ DescsPerEntry' = DescsPerEntry
       /\ MaxBurst' = MaxBurst /\ DisableMetaCaching' = DisableMetaCaching
  BY <1>3 DEF Llq, DescsBeforeHeader, DescsPerEntry, MaxBurst, DisableMetaCaching
<1>15. Line(0)
  BY <1>2, <1>13 DEF Places
<1>16. Line(0)'
  BY <1>3, <1>14, <1>15 DEF Line
<1>17. Progress(0)'
  <2> DEFINE m == IF SendsMeta(p) THEN 1 ELSE 0
  <2>1. m \in {0, 1} /\ (pc' = "meta" => m = 1) /\ (pc' # "meta" => m = 0)
    BY <1>3
  <2>2. DescsIn(0)' = 0
    BY <1>3, <1>14, <1>15 DEF DescsIn, Line
  <2>3. ASSUME BurstLimited', (DescsBeforeHeader >= 2)'
        PROVE  entries_in_tx_burst_left' + 0 >= EntriesFor(DataDescs(p) + m)
    <3>1. BurstLimited /\ DescsBeforeHeader >= 2
      BY <1>14, <2>3 DEF BurstLimited
    <3>2. /\ EntriesFor(DataDescs(p) + m) = EntriesNeeded(p) /\ EntriesNeeded(p) <= MaxBurst
      BY <2>1, <3>1, BurstIsEnough
    <3>3. entries_in_tx_burst_left' \in Nat
      BY <1>5, <1>14, ConfigType
    <3>4. CASE DoorbellNeeded(p)
      BY <1>3, <3>2, <3>3, <3>4 DEF RingFirst
    <3>5. CASE ~DoorbellNeeded(p)
      <4>1. EntriesNeeded(p) \in Int
        BY <2>1, <3>1, BurstIsEnough
      <4>2. /\ ~(EntriesNeeded(p) > entries_in_tx_burst_left)
            /\ entries_in_tx_burst_left' = entries_in_tx_burst_left
        BY <1>3, <3>1, <3>5 DEF DoorbellNeeded, RingFirst
      <4> QED
        BY <3>2, <3>3, <4>1, <4>2
    <3> QED
      BY <3>4, <3>5
  <2>4. EntriesFor(DataDescs(p) + m)' = EntriesFor(DataDescs(p) + m')
    BY <1>14 DEF EntriesFor
  <2>5. Sendable(p)' /\ pkt' = p
    BY <1>3, <1>14 DEF Sendable
  <2> HIDE DEF m
  <2>6. \A n \in {0, 1} : EntriesFor(DataDescs(p) + n)' = EntriesFor(DataDescs(p) + n)
    BY <1>14 DEF EntriesFor
  <2>7. PICK n \in {0, 1} : n = m
    BY <2>1
  <2>8. DescsIn(0)' = placed' + (IF pc' = "meta" THEN 0 ELSE n)
    BY <1>3, <2>1, <2>2, <2>7
  <2>9. (BurstLimited /\ DescsBeforeHeader >= 2)' =>
           entries_in_tx_burst_left' + 0 >= EntriesFor(DataDescs(p) + n)'
    BY <2>3, <2>6, <2>7
  <2> QED
    BY <1>3, <1>8, <2>1, <2>5, <2>7, <2>8, <2>9 DEF Progress
<1>18. Space(0)'
  <2>1. Llq => (p.bufs + 1) \div DescsPerEntry \in Int
    <3>1. p.bufs + 1 \in Int /\ (Llq => DescsPerEntry \in Nat \ {0})
      BY <1>8, ConfigType
    <3> QED
      BY <3>1, DivMod
  <2>2. Room(p)' = Room(p)
    BY <1>14 DEF Room
  <2>3. unacked + Room(p) <= Depth - 1
    <3>1. CASE Llq
      <4>1. FreeEntries > (p.bufs + 1) \div DescsPerEntry + 2
        BY <1>3, <3>1 DEF HaveEnoughSpace
      <4>2. (p.bufs + 1) \div DescsPerEntry \in Int
        BY <2>1, <3>1
      <4> QED
        BY <1>7, <3>1, <4>1, <4>2, SizeType DEF Room
    <3>2. CASE ~Llq
      BY <1>3, <1>7, <1>8, <3>2, SizeType DEF HaveEnoughSpace, Room
    <3> QED
      BY <3>1, <3>2
  <2>4. Room(p) \in Int
    BY <1>8, <2>1 DEF Room
  <2>5. unacked' = unacked /\ pkt' = p
    BY <1>3
  <2>6. unacked' - 0 + Room(pkt)' <= Depth - 1
    BY <1>7, <2>2, <2>3, <2>4, <2>5
  <2> QED
    BY <2>6 DEF Space
<1>19. (T - ends[Len(sent)])' = 0
  BY <1>13
<1>20. Line(T - ends[Len(sent)])' /\ Progress(T - ends[Len(sent)])' /\ Space(T - ends[Len(sent)])'
  BY <1>16, <1>17, <1>18, <1>19 DEF Line, Progress, Space, DescsIn
<1>21. Places(T, D1, ends)'
  BY <1>5, <1>6, <1>11, <1>12, <1>20 DEF Places
<1>22. Somewhere'
  BY <1>5, <1>21 DEF Somewhere
<1> QED
  BY <1>9, <1>10, <1>22

-----------------------------------------------------------------------------
(***************************************************************************)
(* A descriptor is placed                                                  *)
(***************************************************************************)
\* The types of what placing a descriptor changes.
LineTypes ==
    /\ phase \in BOOLEAN /\ entries_in_tx_burst_left \in 0..MaxBurst
    /\ idx \in Nat /\ descs_left_in_line \in Nat /\ curr_bounce_buf \in Seq(Descs)
    /\ ring \in [Slots -> [phase : BOOLEAN, descs : Seq(Descs)]]

\* What is kept when an entry has been written, or none, and a packet is at work.
LEMMA BoundsKept ==
    ASSUME Types, NEW T \in Nat, NEW D \in Nat, NEW ends \in [0..Len(sent) -> Nat],
           Places(T, D, ends), NEW T1 \in Nat, T <= T1, T1 - unread' = T - unread,
           pc # "idle", pc' # "idle", sent' = sent, start_tail' = start_tail
    PROVE  Bounds(T1, D, ends)'
<1>1. ends[Len(sent)] \in Nat
  BY CountsType
<1> QED
  BY <1>1 DEF Places, Bounds

\* When an entry is written: it ends a packet if its last descriptor does, and the
\* others are as before.
LEMMA EndingWritten ==
    ASSUME Types, NEW T \in Nat, NEW D \in Nat, NEW ends \in [0..Len(sent) -> Nat],
           Places(T, D, ends), NEW descs \in Seq(Descs),
           \A a \in Nat : T - unread <= a /\ a < T => ring'[a % Depth].descs = ring[a % Depth].descs,
           ring'[T % Depth].descs = descs, (T + 1) - unread' = T - unread,
           pc \in {"meta", "data"}, pc' \in {"data", "close"}, sent' = sent,
           Ends(descs) <=> pc' = "close", idx' = 0
    PROVE  Ending(T + 1, ends)'
<1>1. Len(sent) \in Nat /\ \A i \in 1..Len(sent) : ends[i] \in Nat /\ ends[i] <= T
  <2>1. Len(sent) \in Nat /\ ends[Len(sent)] \in Nat /\ ends[Len(sent)] <= T
    BY CountsType DEF Places, Bounds
  <2>2. ASSUME NEW i \in 1..Len(sent) PROVE ends[i] \in Nat /\ ends[i] <= T
    <3>1. i \in 0..Len(sent)
      BY <2>1
    <3> QED
      BY <2>1, <3>1 DEF Places, Bounds
  <2> QED
    BY <2>1, <2>2
<1>2. ASSUME NEW a \in Nat, (T + 1) - unread' <= a, a < T + 1
      PROVE  Ends(ring'[a % Depth].descs) <=>
               \/ \E i \in 1..Len(sent') : ends[i] = a + 1
               \/ pc' = "close" /\ idx' = 0 /\ a + 1 = T + 1
  <2>1. CASE a = T
    BY <1>1, <2>1
  <2>2. CASE a # T
    <3>1. T - unread <= a /\ a < T
      <4>1. (T + 1) - unread' = T - unread
        OBVIOUS
      <4> QED
        BY <1>2, <2>2, <4>1
    <3>2. Ends(ring[a % Depth].descs) <=> \E i \in 1..Len(sent) : ends[i] = a + 1
      BY <3>1 DEF Places, Ending
    <3> QED
      BY <2>2, <3>1, <3>2
  <2> QED
    BY <2>1, <2>2
<1> QED
  BY <1>2 DEF Ending

\* A descriptor takes an entry, or its place in the line, which may fill an entry.
LEMMA PlaceMoves ==
    ASSUME Types, NEW T \in Nat, NEW D \in Nat, NEW ends \in [0..Len(sent) -> Nat],
           Places(T, D, ends), NEW e \in Nat, e = ends[Len(sent)],
           pc \in {"meta", "data"}, pc' \in {"data", "close"},
           NEW desc \in Descs, desc.last <=> pc' = "close", Place(desc),
           UNCHANGED <<llq_info, next_to_comp, pkt, start_tail, doorbell, devVars, sent>>
    PROVE  \E T1 \in {T, T + 1} :
              /\ Counts(T1, D)' /\ Bounds(T1, D, ends)' /\ Ending(T1, ends)' /\ Accounts(T1, ends)'
              /\ Line(T1 - e)' /\ LineTypes'
              /\ DescsIn(T1 - e)' = DescsIn(T - e) + 1
              /\ unacked' - (T1 - e) = unacked - (T - e)
              /\ BurstLimited => entries_in_tx_burst_left' + (T1 - e)
                                   = entries_in_tx_burst_left + (T - e)
<1>1. /\ e \in Nat /\ T - e \in Nat /\ unread \in Nat /\ unacked \in Nat
  BY CountsType
<1>2. Llq' = Llq /\ DescsBeforeHeader' = DescsBeforeHeader /\ DescsPerEntry' = DescsPerEntry
      /\ MaxBurst' = MaxBurst
  BY DEF Llq, DescsBeforeHeader, DescsPerEntry, MaxBurst
<1>3. /\ Llq => DescsPerEntry \in Nat \ {0} /\ DescsBeforeHeader \in Nat \ {0}
      /\ MaxBurst \in Nat /\ Llq \in BOOLEAN
  BY ConfigType
<1>4. Line(T - e)
  BY DEF Places
<1>5. AtWork /\ pc # "close"
  BY DEF AtWork
<1>6. /\ idx \in Nat /\ descs_left_in_line \in Nat /\ curr_bounce_buf \in Seq(Descs)
      /\ entries_in_tx_burst_left \in 0..MaxBurst
  BY DEF Types
<1>7. T \in Nat /\ D \in Nat /\ T <= T + 1
  OBVIOUS
<1>8. Ends(<<desc>>) <=> desc.last
  BY DEF Ends
<1>9. /\ Append(curr_bounce_buf, desc) \in Seq(Descs) /\ <<desc>> \in Seq(Descs)
      /\ Ends(Append(curr_bounce_buf, desc)) <=> desc.last
  BY <1>6, SMTT(30) DEF Ends
<1>10. ASSUME NEW descs \in Seq(Descs), WriteEntry(descs), Ends(descs) <=> desc.last, idx' = 0
       PROVE  /\ Counts(T + 1, D)' /\ Bounds(T + 1, D, ends)' /\ Ending(T + 1, ends)'
              /\ Accounts(T + 1, ends)' /\ unacked' = unacked + 1
              /\ ring' \in [Slots -> [phase : BOOLEAN, descs : Seq(Descs)]] /\ phase' \in BOOLEAN
  <2>1. /\ Counts(T + 1, D)' /\ Accounts(T + 1, ends)'
        /\ (T + 1) - unread' = T - unread
        /\ ring' \in [Slots -> [phase : BOOLEAN, descs : Seq(Descs)]]
        /\ phase' \in BOOLEAN
        /\ \A a \in Nat : T - unread <= a /\ a < T => ring'[a % Depth].descs = ring[a % Depth].descs
        /\ ring'[T % Depth].descs = descs
    BY <1>5, <1>10, EntryWritten
  <2>2. Bounds(T + 1, D, ends)'
    BY <2>1, BoundsKept
  <2>3. Ending(T + 1, ends)'
    BY <1>10, <2>1, EndingWritten
  <2> QED
    BY <1>10, <2>1, <2>2, <2>3 DEF WriteEntry
<1>11. CASE ~Llq
  <2>1. WriteEntry(<<desc>>) /\ UNCHANGED <<entries_in_tx_burst_left, lineVars>>
    BY <1>11 DEF Place
  <2>2. idx' = 0
    BY <1>4, <1>11, <2>1 DEF Line, lineVars
  <2>3. /\ Counts(T + 1, D)' /\ Bounds(T + 1, D, ends)' /\ Ending(T + 1, ends)'
        /\ Accounts(T + 1, ends)' /\ unacked' = unacked + 1
        /\ ring' \in [Slots -> [phase : BOOLEAN, descs : Seq(Descs)]] /\ phase' \in BOOLEAN
    BY <1>8, <1>9, <1>10, <2>1, <2>2
  <2>4. LineTypes'
    BY <1>2, <1>6, <2>1, <2>3 DEF LineTypes, lineVars
  <2>5. Line((T + 1) - e)'
    BY <1>2, <1>11, <2>2 DEF Line
  <2>6. DescsIn((T + 1) - e)' = DescsIn(T - e) + 1
    BY <1>1, <1>2, <1>11 DEF DescsIn
  <2>7. ~BurstLimited
    BY <1>11 DEF BurstLimited
  <2> QED
    BY <1>1, <1>7, <2>3, <2>4, <2>5, <2>6, <2>7
<1>12. CASE Llq /\ descs_left_in_line # 1
  <2>1. /\ descs_left_in_line > 1 /\ idx' = idx + 1
        /\ descs_left_in_line' = descs_left_in_line - 1
        /\ curr_bounce_buf' = Append(curr_bounce_buf, desc)
        /\ UNCHANGED <<tail, phase, entries_in_tx_burst_left, ring, unread, unacked>>
    BY <1>12 DEF Place
  <2>2. doorbell' = D % CounterSize /\ UNCHANGED ghostVars
    BY <2>1 DEF Places, Counts, ghostVars
  <2>3. Counts(T, D)' /\ Accounts(T, ends)'
    BY <2>1, <2>2, Unmoved
  <2>4. Bounds(T, D, ends)'
    BY <2>1, BoundsKept
  <2>5. Ending(T, ends)'
    BY <1>6, <1>9, <2>1 DEF Places, Ending
  <2>6. LineTypes'
    BY <1>2, <1>6, <1>9, <2>1, SMTT(30) DEF LineTypes, Types
  <2>7. Line(T - e)'
    BY <1>2, <1>4, <1>6, <1>12, <2>1 DEF Line
  <2>8. DescsIn(T - e)' = DescsIn(T - e) + 1
    <3>1. CASE T - e = 0
      BY <1>2, <1>6, <1>12, <2>1, <3>1 DEF DescsIn
    <3>2. CASE T - e # 0
      <4>1. /\ DescsIn(T - e)' = DescsBeforeHeader + ((T - e) - 1) * DescsPerEntry + (idx + 1)
            /\ DescsIn(T - e) = DescsBeforeHeader + ((T - e) - 1) * DescsPerEntry + idx
        BY <1>2, <1>12, <2>1, <3>2 DEF DescsIn
      <4> DEFINE lines == ((T - e) - 1) * DescsPerEntry
      <4>2. lines \in Int
        BY <1>1, <1>3, <1>12
      <4>3. /\ DescsIn(T - e)' = DescsBeforeHeader + lines + (idx + 1)
            /\ DescsIn(T - e) = DescsBeforeHeader + lines + idx
        BY <4>1
      <4> HIDE DEF lines
      <4> QED
        BY <1>3, <1>6, <1>12, <4>2, <4>3
    <3> QED
      BY <3>1, <3>2
  <2> QED
    BY <1>1, <1>7, <2>1, <2>3, <2>4, <2>5, <2>6, <2>7, <2>8
<1>13. CASE Llq /\ descs_left_in_line = 1
  <2>1. /\ WriteLine(Append(curr_bounce_buf, desc)) /\ idx' = 0
        /\ descs_left_in_line' = DescsPerEntry /\ curr_bounce_buf' = << >>
    BY <1>13 DEF Place
  <2>2. WriteEntry(Append(curr_bounce_buf, desc))
    BY <2>1 DEF WriteLine
  <2>3. /\ Counts(T + 1, D)' /\ Bounds(T + 1, D, ends)' /\ Ending(T + 1, ends)'
        /\ Accounts(T + 1, ends)' /\ unacked' = unacked + 1
        /\ ring' \in [Slots -> [phase : BOOLEAN, descs : Seq(Descs)]] /\ phase' \in BOOLEAN
    BY <1>9, <1>10, <2>1, <2>2
  <2>4. entries_in_tx_burst_left' \in 0..MaxBurst
        /\ (BurstLimited => entries_in_tx_burst_left' = entries_in_tx_burst_left - 1)
    BY <1>3, <1>6, <2>1 DEF WriteLine
  <2>5. LineTypes'
    BY <1>2, <1>3, <1>13, <2>1, <2>3, <2>4 DEF LineTypes
  <2>6. Line((T + 1) - e)'
    BY <1>1, <1>2, <1>3, <1>13, <2>1 DEF Line
  <2>7. DescsIn((T + 1) - e)' = DescsIn(T - e) + 1
    <3>1. DescsIn((T + 1) - e)' = DescsBeforeHeader + (((T + 1) - e) - 1) * DescsPerEntry + 0
      BY <1>1, <1>2, <1>13, <2>1 DEF DescsIn
    <3>2. CASE T - e = 0
      <4>1. idx + 1 = DescsBeforeHeader
        BY <1>4, <1>13, <3>2 DEF Line
      <4>2. (((T + 1) - e) - 1) * DescsPerEntry = 0
        BY <1>1, <1>3, <1>13, <3>2
      <4> QED
        BY <1>3, <1>6, <1>13, <3>1, <3>2, <4>1, <4>2 DEF DescsIn
    <3>3. CASE T - e # 0
      <4>1. idx + 1 = DescsPerEntry
        BY <1>4, <1>13, <3>3 DEF Line
      <4> DEFINE lines == ((T - e) - 1) * DescsPerEntry
                 after == (((T + 1) - e) - 1) * DescsPerEntry
      <4>2. after = lines + DescsPerEntry
        BY <1>1, <1>3, <1>13
      <4>3. lines \in Int
        BY <1>1, <1>3, <1>13
      <4>4. /\ DescsIn(T - e) = DescsBeforeHeader + lines + idx
            /\ DescsIn((T + 1) - e)' = DescsBeforeHeader + after + 0
        BY <1>13, <3>1, <3>3 DEF DescsIn
      <4>5. DescsBeforeHeader \in Int /\ idx \in Int /\ DescsPerEntry \in Int
        BY <1>3, <1>6, <1>13
      <4>6. DescsBeforeHeader + after + 0 = DescsBeforeHeader + lines + idx + 1
        <5> HIDE DEF lines, after
        <5> QED
          BY <4>1, <4>2, <4>3, <4>5
      <4> QED
        BY <4>4, <4>6
    <3> QED
      BY <3>2, <3>3
  <2>8. BurstLimited => entries_in_tx_burst_left' + ((T + 1) - e) = entries_in_tx_burst_left + (T - e)
    BY <1>1, <1>6, <2>4
  <2> QED
    BY <1>1, <1>7, <2>3, <2>5, <2>6, <2>7, <2>8
<1> QED
  BY <1>3, <1>11, <1>12, <1>13

\* The meta descriptor is placed, or a data descriptor.
LEMMA PlaceInv ==
    ASSUME IInv, PlaceMeta \/ PlaceData
    PROVE  IInv'
<1> USE DEF IInv
<1>1. PICK T \in Nat, D \in Nat : \E ends \in [0..Len(sent) -> Nat] : Places(T, D, ends)
  BY DEF Somewhere
<1>2. PICK ends \in [0..Len(sent) -> Nat] : Places(T, D, ends)
  BY <1>1
<1>3. ends[Len(sent)] \in Nat /\ T - ends[Len(sent)] \in Nat /\ unacked \in Nat
  BY <1>2, CountsType
<1>4. PICK e \in Nat : e = ends[Len(sent)]
  BY <1>3
<1>5. /\ UNCHANGED <<llq_info, next_to_comp, pkt, start_tail, doorbell, devVars, sent>>
      /\ AtWork /\ pc \in {"meta", "data"} /\ pc' \in {"data", "close"}
      /\ cached_tx_meta' \in {cached_tx_meta, pkt.meta}
  BY DEF PlaceMeta, PlaceData, AtWork, Cache
<1>6. /\ pkt \in Packets /\ Sendable(pkt)
      /\ pc = "data" => placed < DataDescs(pkt)
      /\ \E m \in {0, 1} :
              /\ pc = "meta" => m = 1 /\ placed = 0
              /\ DescsIn(T - e) = placed + (IF pc = "meta" THEN 0 ELSE m)
              /\ BurstLimited /\ DescsBeforeHeader >= 2 =>
                    entries_in_tx_burst_left + (T - e) >= EntriesFor(DataDescs(pkt) + m)
  BY <1>2, <1>4, <1>5 DEF Places, Progress
<1>7. /\ DataDescs(pkt) \in Nat \ {0} /\ pkt.meta \in Metas /\ placed \in Nat /\ pkt.bufs \in Nat
  BY <1>6, PacketType DEF Types
<1>8. /\ pc = "meta" => placed' = placed /\ pc' = "data"
      /\ pc = "data" => /\ placed' = placed + 1
                        /\ pc' = IF placed + 1 = DataDescs(pkt) THEN "close" ELSE "data"
  BY DEF PlaceMeta, PlaceData
<1>9. \E desc \in Descs : (desc.last <=> pc' = "close") /\ Place(desc)
  <2>1. CASE PlaceMeta
    <3>1. MetaDesc(pkt.meta) \in Descs /\ ~MetaDesc(pkt.meta).last
      BY <1>7 DEF MetaDesc, Descs
    <3> QED
      BY <2>1, <3>1 DEF PlaceMeta
  <2>2. CASE PlaceData
    <3>1. NoMeta \in Metas
      BY DEF Metas
    <3>2. \A last \in BOOLEAN : DataDesc(last) \in Descs /\ DataDesc(last).last = last
      BY <3>1 DEF DataDesc, Descs
    <3> DEFINE last == placed + 1 = DataDescs(pkt)
    <3>3. Place(DataDesc(last)) /\ pc' = (IF last THEN "close" ELSE "data") /\ last \in BOOLEAN
      BY <2>2 DEF PlaceData
    <3> HIDE DEF last
    <3> QED
      BY <3>2, <3>3
  <2> QED
    BY <2>1, <2>2
<1>10. PICK desc \in Descs : (desc.last <=> pc' = "close") /\ Place(desc)
  BY <1>9
<1>11. PICK T1 \in {T, T + 1} :
              /\ Counts(T1, D)' /\ Bounds(T1, D, ends)' /\ Ending(T1, ends)' /\ Accounts(T1, ends)'
              /\ Line(T1 - e)' /\ LineTypes'
              /\ DescsIn(T1 - e)' = DescsIn(T - e) + 1
              /\ unacked' - (T1 - e) = unacked - (T - e)
              /\ BurstLimited => entries_in_tx_burst_left' + (T1 - e)
                                   = entries_in_tx_burst_left + (T - e)
  BY <1>2, <1>4, <1>5, <1>10, PlaceMoves
<1>12. Types'
  <2>1. /\ placed' \in Nat /\ cached_tx_meta' \in Metas
        /\ pc' \in {"idle", "meta", "data", "close", "failed"}
    BY <1>5, <1>7, <1>8 DEF Types
  <2>2. LineTypes'
    BY <1>11
  <2> QED
    BY <1>5, <2>1, <2>2 DEF LineTypes, Types, devVars
<1>13. BurstSufficesForTwo'
  BY <1>5 DEF BurstSufficesForTwo, BurstSuffices
<1>14. /\ BurstLimited' = BurstLimited /\ DescsBeforeHeader' = DescsBeforeHeader
       /\ Room(pkt)' = Room(pkt) /\ Sendable(pkt)' = Sendable(pkt)
       /\ \A n : EntriesFor(DataDescs(pkt) + n)' = EntriesFor(DataDescs(pkt) + n)
       /\ DataDescs(pkt)' = DataDescs(pkt)
  BY <1>5 DEF BurstLimited, Llq, MaxBurst, DescsBeforeHeader, DescsPerEntry, DisableMetaCaching,
              Room, Sendable, EntriesFor, DataDescs
<1>15. Progress(T1 - e)'
  <2>1. PICK m \in {0, 1} :
              /\ pc = "meta" => m = 1 /\ placed = 0
              /\ DescsIn(T - e) = placed + (IF pc = "meta" THEN 0 ELSE m)
              /\ BurstLimited /\ DescsBeforeHeader >= 2 =>
                    entries_in_tx_burst_left + (T - e) >= EntriesFor(DataDescs(pkt) + m)
    BY <1>6
  <2>2. /\ pc' = "data" => placed' < DataDescs(pkt)
        /\ pc' = "close" => placed' = DataDescs(pkt)
    BY <1>5, <1>6, <1>7, <1>8, <2>1
  <2>3. DescsIn(T1 - e)' = placed' + m
    BY <1>5, <1>7, <1>8, <1>11, <2>1
  <2>4. BurstLimited /\ DescsBeforeHeader >= 2 =>
           entries_in_tx_burst_left' + (T1 - e) >= EntriesFor(DataDescs(pkt) + m)
    BY <1>11, <2>1
  <2>5. (BurstLimited /\ DescsBeforeHeader >= 2)' =>
           entries_in_tx_burst_left' + (T1 - e) >= EntriesFor(DataDescs(pkt) + m)'
    BY <1>14, <2>4
  <2> QED
    BY <1>5, <1>6, <1>14, <2>2, <2>3, <2>5 DEF Progress
<1>16. Space(T1 - e)'
  <2>1. unacked - (T - e) + Room(pkt) <= Depth - 1
    BY <1>2, <1>4, <1>5 DEF Places, Space
  <2> QED
    BY <1>11, <1>14, <2>1 DEF Space
<1>17. (T1 - ends[Len(sent)])' = T1 - e /\ ends \in [0..Len(sent') -> Nat] /\ T1 \in Nat
  BY <1>4, <1>5
<1>18. Line(T1 - ends[Len(sent)])' /\ Progress(T1 - ends[Len(sent)])' /\ Space(T1 - ends[Len(sent)])'
  BY <1>11, <1>15, <1>16, <1>17 DEF Line, Progress, Space, DescsIn
<1>19. Places(T1, D, ends)'
  BY <1>11, <1>18 DEF Places
<1>20. Somewhere'
  BY <1>17, <1>19 DEF Somewhere
<1> QED
  BY <1>12, <1>13, <1>20

-----------------------------------------------------------------------------
(***************************************************************************)
(* The end of the burst                                                    *)
(***************************************************************************)
\* When a line is to be written, the burst is not used up: the packet takes more
\* entries than those written so far, and the burst was found to be enough.
LEMMA LineInBurst ==
    ASSUME Types, NEW w \in Nat, Line(w), Progress(w), AtWork,
           BurstLimited, DescsBeforeHeader >= 2,
           \/ pc \in {"meta", "data"} /\ descs_left_in_line = 1
           \/ pc = "close" /\ idx > 0
    PROVE  entries_in_tx_burst_left >= 1
<1>1. /\ pkt \in Packets
      /\ pc = "data" => placed < DataDescs(pkt)
      /\ pc = "close" => placed = DataDescs(pkt)
  BY DEF Progress
<1>2. PICK m \in {0, 1} : /\ pc = "meta" => m = 1 /\ placed = 0
                          /\ DescsIn(w) = placed + (IF pc = "meta" THEN 0 ELSE m)
                          /\ entries_in_tx_burst_left + w >= EntriesFor(DataDescs(pkt) + m)
  BY DEF Progress
<1>3. /\ DataDescs(pkt) \in Nat \ {0} /\ placed \in Nat /\ idx \in Nat
      /\ entries_in_tx_burst_left \in Int
  BY <1>1, ConfigType, PacketType DEF Types
<1>4. Llq /\ DescsPerEntry \in Nat \ {0} /\ DescsBeforeHeader \in Nat \ {0}
  BY ConfigType DEF BurstLimited
<1>5. PICK n \in Nat : n = DataDescs(pkt) + m
  BY <1>3
<1>6. pc # "close" => DescsIn(w) <= n - 1
  BY <1>1, <1>2, <1>3, <1>5 DEF AtWork
<1>7. pc = "close" => DescsIn(w) = n
  BY <1>1, <1>2, <1>3, <1>5
<1> DEFINE a == (n - DescsBeforeHeader) + DescsPerEntry - 1
<1>8. EntriesFor(n) = IF n > DescsBeforeHeader THEN 1 + (a \div DescsPerEntry) ELSE 1
  BY DEF EntriesFor, Ceil
<1>9. a \in Int /\ a = ((n - DescsBeforeHeader) + DescsPerEntry) - 1
  BY <1>4
<1> HIDE DEF a
<1>10. a \div DescsPerEntry \in Int
  BY <1>4, <1>9, DivMod
<1>11. EntriesFor(n) \in Int /\ EntriesFor(n) > w
  <2>1. CASE w = 0
    <3>1. n > DescsBeforeHeader => 0 <= a \div DescsPerEntry
      <4>1. n > DescsBeforeHeader => 0 * DescsPerEntry <= a
        BY <1>4, <1>9
      <4> QED
        BY <1>4, <1>9, <4>1, DivAtLeast
    <3> QED
      BY <1>8, <1>10, <2>1, <3>1
  <2>2. CASE w # 0
    <3> DEFINE lines == (w - 1) * DescsPerEntry
    <3>1. /\ lines \in Int /\ lines >= 0
          /\ w * DescsPerEntry = lines + DescsPerEntry
          /\ DescsIn(w) = DescsBeforeHeader + lines + idx
      <4>1. lines \in Int /\ w * DescsPerEntry = lines + DescsPerEntry
        BY <1>4
      <4>2. lines >= 0
        BY <1>4, <2>2
      <4>3. DescsIn(w) = DescsBeforeHeader + lines + idx
        BY <1>4, <2>2 DEF DescsIn
      <4> QED
        BY <4>1, <4>2, <4>3
    <3> HIDE DEF lines
    <3>2. n > DescsBeforeHeader /\ w * DescsPerEntry <= a
      <4>1. CASE pc = "close" /\ idx > 0
        BY <1>3, <1>4, <1>7, <1>9, <3>1, <4>1
      <4>2. CASE pc \in {"meta", "data"} /\ descs_left_in_line = 1
        <5>1. idx + 1 = DescsPerEntry
          BY <1>4, <2>2, <4>2 DEF Line
        <5> QED
          BY <1>3, <1>4, <1>6, <1>9, <3>1, <4>2, <5>1
      <4> QED
        BY <4>1, <4>2
    <3>3. w <= a \div DescsPerEntry
      BY <1>4, <1>9, <3>2, DivAtLeast
    <3> QED
      BY <1>8, <1>10, <3>2, <3>3
  <2> QED
    BY <2>1, <2>2
<1> QED
  BY <1>2, <1>3, <1>5, <1>11

\* The burst is used up in the middle of a packet: only where the meta and the first
\* descriptor do not both fit before the header.
LEMMA OutOfBurstInv ==
    ASSUME IInv, OutOfBurst
    PROVE  IInv'
<1> USE DEF IInv
<1>1. PICK T \in Nat, D \in Nat : \E ends \in [0..Len(sent) -> Nat] : Places(T, D, ends)
  BY DEF Somewhere
<1>2. PICK ends \in [0..Len(sent) -> Nat] : Places(T, D, ends)
  BY <1>1
<1>3. T - ends[Len(sent)] \in Nat
  BY <1>2, CountsType
<1>4. /\ BurstLimited /\ entries_in_tx_burst_left = 0 /\ pc' = "failed"
      /\ \/ pc \in {"meta", "data"} /\ descs_left_in_line = 1
         \/ pc = "close" /\ idx > 0
      /\ UNCHANGED <<llq_info, tail, next_to_comp, phase, entries_in_tx_burst_left, lineVars,
                     pkt, start_tail, placed, ring, doorbell, devVars, ghostVars>>
  BY DEF OutOfBurst
<1>5. AtWork
  BY <1>4 DEF AtWork
<1>6. cached_tx_meta' \in Metas
  <2>1. pkt \in Packets
    BY <1>2, <1>5 DEF Places, Progress
  <2> QED
    BY <2>1, PacketType DEF OutOfBurst, Cache, Types
<1>7. ~(DescsBeforeHeader >= 2)
  BY <1>2, <1>3, <1>4, <1>5, LineInBurst DEF Places
<1>8. DescsBeforeHeader' = DescsBeforeHeader
  BY <1>4 DEF DescsBeforeHeader
<1>9. Types'
  BY <1>4, <1>6 DEF Types, lineVars, devVars, ghostVars, MaxBurst
<1>10. BurstSufficesForTwo'
  BY <1>7, <1>8 DEF BurstSufficesForTwo
<1>11. doorbell' = D % CounterSize /\ D \in {D, T}
  BY <1>2, <1>4 DEF Places, Counts
<1>12. Counts(T, D)' /\ Accounts(T, ends)' /\ ends \in [0..Len(sent') -> Nat]
  BY <1>2, <1>4, <1>11, Unmoved
<1>13. Bounds(T, D, ends)'
  BY <1>2, <1>4 DEF Places, Bounds, ghostVars
<1>14. Ending(T, ends)'
  BY <1>2, <1>4 DEF Places, Ending, ghostVars, lineVars
<1>15. /\ Line(T - ends[Len(sent)])' /\ Progress(T - ends[Len(sent)])' /\ Space(T - ends[Len(sent)])'
  BY <1>2, <1>4 DEF Places, Line, Progress, Space, AtWork, Llq, DescsBeforeHeader, DescsPerEntry,
                    lineVars, ghostVars, BurstLimited
<1>16. Places(T, D, ends)'
  BY <1>12, <1>13, <1>14, <1>15 DEF Places
<1>17. Somewhere'
  BY <1>12, <1>16 DEF Somewhere
<1> QED
  BY <1>9, <1>10, <1>17

-----------------------------------------------------------------------------
(***************************************************************************)
(* A packet is closed                                                      *)
(***************************************************************************)
\* The step from T to T1 entries that ends a packet.
Closes(T, D, ends, e, T1) ==
    /\ Counts(T1, D)' /\ Accounts(T1, ends)'
    /\ T1 - unread' = T - unread /\ T1 - e >= 1
    /\ phase' \in BOOLEAN /\ entries_in_tx_burst_left' \in 0..MaxBurst
    /\ ring' \in [Slots -> [phase : BOOLEAN, descs : Seq(Descs)]]
    /\ \A a \in Nat : T - unread <= a /\ a < T1 =>
          (Ends(ring'[a % Depth].descs) <=>
             (\E i \in 1..Len(sent) : ends[i] = a + 1) \/ a + 1 = T1)

\* A line that was begun is written, so a packet has an entry, and the last of its
\* entries is the one that ends with its last descriptor.
LEMMA CloseWrites ==
    ASSUME Types, NEW T \in Nat, NEW D \in Nat, NEW ends \in [0..Len(sent) -> Nat],
           Places(T, D, ends), NEW e \in Nat, e = ends[Len(sent)], Close
    PROVE  \E T1 \in {T, T + 1} : Closes(T, D, ends, e, T1)
<1>1. T - e \in Nat /\ unread \in Nat /\ unacked \in Nat /\ Len(sent) \in Nat
  BY CountsType
<1>2. /\ pc = "close" /\ AtWork
      /\ UNCHANGED <<next_to_comp, doorbell, devVars>>
  BY DEF Close, AtWork
<1>3. idx \in Nat /\ curr_bounce_buf \in Seq(Descs) /\ Llq \in BOOLEAN
  BY ConfigType DEF Types
<1>4. T - e = 0 => Llq /\ idx > 0
  <2>1. pkt \in Packets /\ placed = DataDescs(pkt) /\ \E m \in {0, 1} : DescsIn(T - e) = placed + m
    BY <1>2 DEF Places, Progress
  <2>2. DataDescs(pkt) \in Nat \ {0}
    BY <2>1, PacketType
  <2>3. T - e = 0 => DescsIn(T - e) = IF Llq THEN idx ELSE 0
    BY <1>3 DEF DescsIn
  <2> QED
    BY <1>3, <2>1, <2>2, <2>3
<1>5. CASE Llq /\ idx > 0
  <2>1. WriteEntry(curr_bounce_buf) /\ entries_in_tx_burst_left' \in 0..MaxBurst
    <3>1. WriteLine(curr_bounce_buf)
      BY <1>5 DEF Close
    <3>2. MaxBurst \in Nat /\ entries_in_tx_burst_left \in 0..MaxBurst
      BY ConfigType DEF Types
    <3> QED
      BY <3>1, <3>2 DEF WriteLine
  <2>2. /\ Counts(T + 1, D)' /\ Accounts(T + 1, ends)'
        /\ (T + 1) - unread' = T - unread
        /\ ring' \in [Slots -> [phase : BOOLEAN, descs : Seq(Descs)]]
        /\ phase' \in BOOLEAN
        /\ \A a \in Nat : T - unread <= a /\ a < T => ring'[a % Depth].descs = ring[a % Depth].descs
        /\ ring'[T % Depth].descs = curr_bounce_buf
    BY <1>2, <1>3, <1>5, <2>1, EntryWritten
  <2>3. ASSUME NEW a \in Nat, T - unread <= a, a < T + 1
        PROVE  Ends(ring'[a % Depth].descs) <=>
                 (\E i \in 1..Len(sent) : ends[i] = a + 1) \/ a + 1 = T + 1
    <3>1. CASE a = T
      BY <1>2, <1>5, <2>2, <3>1 DEF Places, Ending
    <3>2. CASE a # T
      <4>1. a < T /\ a + 1 # T + 1
        BY <2>3, <3>2
      <4>2. Ends(ring[a % Depth].descs) <=> \E i \in 1..Len(sent) : ends[i] = a + 1
        BY <1>5, <2>3, <4>1 DEF Places, Ending
      <4> QED
        BY <2>2, <2>3, <4>1, <4>2
    <3> QED
      BY <3>1, <3>2
  <2>4. (T + 1) - e >= 1
    BY <1>1
  <2>5. \A a \in Nat : T - unread <= a /\ a < T + 1 =>
           (Ends(ring'[a % Depth].descs) <=>
              (\E i \in 1..Len(sent) : ends[i] = a + 1) \/ a + 1 = T + 1)
    BY <2>3
  <2> QED
    BY <2>1, <2>2, <2>4, <2>5 DEF Closes
<1>6. CASE ~(Llq /\ idx > 0)
  <2>1. UNCHANGED <<ring, tail, phase, entries_in_tx_burst_left, unread, unacked>>
    BY <1>6 DEF Close
  <2>2. idx = 0
    BY <1>3, <1>6 DEF Places, Line
  <2>3. Counts(T, D)'
    BY <1>2, <2>1 DEF Places, Counts, devVars
  <2>4. Accounts(T, ends)'
    <3>1. Cells' = Cells
      BY <1>2 DEF Cells, devVars
    <3> QED
      BY <2>1, <3>1 DEF Places, Accounts
  <2>5. ASSUME NEW a \in Nat, T - unread <= a, a < T
        PROVE  Ends(ring'[a % Depth].descs) <=>
                 (\E i \in 1..Len(sent) : ends[i] = a + 1) \/ a + 1 = T
    BY <1>2, <2>1, <2>2, <2>5 DEF Places, Ending
  <2>6. T - e >= 1
    BY <1>1, <1>4, <1>6
  <2> QED
    BY <2>1, <2>3, <2>4, <2>5, <2>6 DEF Closes, Types
<1> QED
  BY <1>5, <1>6

\* The packet joins those that are sent, with as many entries as it took.
LEMMA CloseInv ==
    ASSUME IInv, Close
    PROVE  IInv'
<1> USE DEF IInv
<1>1. PICK T \in Nat, D \in Nat : \E ends \in [0..Len(sent) -> Nat] : Places(T, D, ends)
  BY DEF Somewhere
<1>2. PICK ends \in [0..Len(sent) -> Nat] : Places(T, D, ends)
  BY <1>1
<1>3. ends[Len(sent)] \in Nat /\ Len(sent) \in Nat /\ unread \in Nat /\ ends[0] \in Nat
  BY <1>2, CountsType
<1>4. PICK e \in Nat : e = ends[Len(sent)]
  BY <1>3
<1>5. PICK l \in Nat : l = Len(sent)
  BY <1>3
<1>6. PICK T1 \in {T, T + 1} : Closes(T, D, ends, e, T1)
  <2>1. Types
    OBVIOUS
  <2> QED
    BY <1>2, <1>4, <2>1, CloseWrites
<1> USE DEF Closes
<1>7. T1 \in Nat /\ T1 >= T /\ unread' \in Nat /\ unacked' \in Nat /\ T1 - e \in Nat \ {0}
  BY <1>6 DEF Counts
<1>8. pc = "close" /\ start_tail = e % CounterSize /\ T - unread <= D /\ D <= e
  BY <1>2, <1>4 DEF Close, Places, Bounds, Counts
<1>9. T1 - unread' < T1
  <2>1. T1 - unread' = T - unread /\ T - unread <= e
    BY <1>3, <1>6, <1>8
  <2>2. T1 - unread' <= e
    BY <2>1
  <2>3. e < T1
    BY <1>7
  <2>4. T1 - unread' \in Int /\ T1 \in Int
    BY <1>7
  <2> QED
    BY <2>2, <2>3, <2>4
<1>10. (tail' - start_tail) % CounterSize = T1 - e
  <2>1. tail' = T1 % CounterSize /\ unread' <= unacked' /\ unacked' <= Depth - 1
    BY <1>6 DEF Counts
  <2>2. e <= T1 /\ T1 - e < CounterSize /\ T1 \in Int /\ e \in Int
    BY <1>6, <1>7, <1>8, <2>1, SizeType
  <2> QED
    BY <1>8, <2>1, <2>2, ModDifference, SizeType
<1>11. pkt \in Packets
  BY <1>2, <1>8 DEF Places, Progress, AtWork
<1> DEFINE new == [bufs |-> DataDescs(pkt), meta |-> pkt.meta, tx_descs |-> T1 - e]
<1>12. sent' = Append(sent, new) /\ new \in SentPacket
  BY <1>7, <1>10, <1>11, PacketType DEF Close, SentPacket
<1>13. new.tx_descs = T1 - e
  OBVIOUS
<1> HIDE DEF new
<1>14. /\ sent' \in Seq(SentPacket) /\ Len(sent') = l + 1
       /\ \A i \in 1..l : sent'[i] = sent[i]
       /\ sent'[l + 1] = new
  BY <1>5, <1>12 DEF Types
<1> DEFINE ends1 == [i \in 0..(l + 1) |-> IF i = l + 1 THEN T1 ELSE ends[i]]
<1>15. /\ ends1 \in [0..(l + 1) -> Nat] /\ ends1[l + 1] = T1
       /\ \A i \in 0..l : ends1[i] = ends[i] /\ ends[i] \in Nat
  <2>1. \A i \in 0..l : ends[i] \in Nat /\ i # l + 1 /\ i \in 0..(l + 1)
    BY <1>5
  <2>2. \A i \in 0..(l + 1) : i # l + 1 => i \in 0..l
    OBVIOUS
  <2>3. l + 1 \in 0..(l + 1)
    OBVIOUS
  <2>4. ends1 \in [0..(l + 1) -> Nat]
    BY <1>7, <2>1, <2>2
  <2> QED
    BY <2>1, <2>3, <2>4
<1> HIDE DEF ends1
<1>16. PICK ends2 \in [0..(l + 1) -> Nat] : ends2 = ends1
  BY <1>15
<1>17. /\ ends2[l + 1] = T1 /\ ends2[0] = ends[0] /\ ends2[l] = e
       /\ \A i \in 0..l : ends2[i] = ends[i] /\ ends[i] \in Nat
  BY <1>4, <1>5, <1>15, <1>16
<1>18. /\ pc' = "idle" /\ pkt' = NoPacket /\ start_tail' = 0 /\ placed' = 0
       /\ UNCHANGED <<llq_info, next_to_comp, cached_tx_meta, doorbell, devVars>>
       /\ IF Llq THEN idx' = 0 /\ descs_left_in_line' = DescsBeforeHeader /\ curr_bounce_buf' = << >>
                 ELSE UNCHANGED lineVars
  BY DEF Close, FirstLine
<1>19. Types'
  <2>1. /\ idx' \in Nat /\ descs_left_in_line' \in Nat /\ curr_bounce_buf' \in Seq(Descs)
    <3>1. DescsBeforeHeader \in Nat /\ Types /\ << >> \in Seq(Descs)
      BY ConfigType
    <3>2. CASE Llq
      BY <1>18, <3>1, <3>2 DEF Types
    <3>3. CASE ~Llq
      BY <1>18, <3>1, <3>3 DEF Types, lineVars
    <3> QED
      BY <3>2, <3>3
  <2>2. 0 \in Counters
    BY SizeType
  <2>3. MaxBurst' = MaxBurst
    BY <1>18 DEF MaxBurst
  <2>4. sent' \in Seq(SentPacket)
    BY <1>14
  <2>5. entries_in_tx_burst_left' \in 0..MaxBurst'
    BY <1>6, <2>3
  <2>6. /\ phase' \in BOOLEAN
        /\ ring' \in [Slots -> [phase : BOOLEAN, descs : Seq(Descs)]]
    BY <1>6
  <2> QED
    BY <1>18, <2>1, <2>2, <2>4, <2>5, <2>6 DEF Types, devVars
<1>20. BurstSufficesForTwo'
  BY <1>18 DEF BurstSufficesForTwo, BurstSuffices
<1>21. Bounds(T1, D, ends2)'
  <2>1. ends[0] <= T - unread /\ e <= T
    BY <1>2, <1>4 DEF Places, Bounds
  <2>2. ASSUME NEW i \in 1..(l + 1)
        PROVE  ends2[i] = ends2[i - 1] + sent'[i].tx_descs /\ T1 - unread' < ends2[i]
    <3>1. CASE i \in 1..l
      <4>1. i \in 0..l /\ i - 1 \in 0..l
        BY <3>1
      <4>2. ends[i] = ends[i - 1] + sent[i].tx_descs /\ T - unread < ends[i]
        BY <1>2, <1>5, <3>1 DEF Places, Bounds
      <4>3. ends2[i] = ends[i] /\ ends2[i - 1] = ends[i - 1]
        BY <1>17, <4>1
      <4>4. sent'[i] = sent[i]
        BY <1>14, <3>1
      <4>5. T1 - unread' < ends[i]
        BY <1>6, <4>2
      <4> QED
        BY <4>2, <4>3, <4>4, <4>5
    <3>2. CASE i = l + 1
      <4>1. ends2[i] = T1 /\ ends2[i - 1] = e /\ sent'[i].tx_descs = T1 - e
        BY <1>13, <1>14, <1>17, <3>2
      <4>2. T1 = e + (T1 - e)
        BY <1>6
      <4> QED
        BY <1>9, <4>1, <4>2
    <3> QED
      BY <3>1, <3>2
  <2>3. ASSUME NEW i \in 0..(l + 1) PROVE ends2[i] <= T1
    <3>1. CASE i \in 0..l
      <4>1. ends[i] <= e /\ ends2[i] = ends[i] /\ ends[i] \in Nat
        BY <1>2, <1>4, <1>5, <1>17, <3>1 DEF Places, Bounds
      <4> QED
        BY <1>7, <2>1, <4>1
    <3>2. CASE i = l + 1
      BY <1>7, <1>17, <3>2
    <3> QED
      BY <3>1, <3>2
  <2>4. ends2[0] <= T1 - unread' /\ D <= T1 /\ T1 <= T1
    BY <1>6, <1>7, <1>8, <1>17, <2>1
  <2> QED
    BY <1>14, <1>17, <1>18, <2>2, <2>3, <2>4 DEF Bounds
<1>22. Ending(T1, ends2)'
  <2>1. ASSUME NEW a \in Nat, T1 - unread' <= a, a < T1
        PROVE  Ends(ring'[a % Depth].descs) <=> \E i \in 1..(l + 1) : ends2[i] = a + 1
    <3>1. Ends(ring'[a % Depth].descs) <=> (\E i \in 1..l : ends[i] = a + 1) \/ a + 1 = T1
      BY <1>5, <1>6, <2>1
    <3>2. (\E i \in 1..(l + 1) : ends2[i] = a + 1) <=>
             (\E i \in 1..l : ends2[i] = a + 1) \/ ends2[l + 1] = a + 1
      OBVIOUS
    <3>3. \A i \in 1..l : ends2[i] = ends[i]
      BY <1>17
    <3> QED
      BY <1>17, <3>1, <3>2, <3>3
  <2> QED
    BY <1>14, <1>18, <2>1 DEF Ending
<1>23. Accounts(T1, ends2)'
  BY <1>6, <1>17 DEF Accounts
<1>24. (T1 - ends2[Len(sent)])' = 0
  BY <1>7, <1>14, <1>17
<1>25. Line(0)' /\ Progress(0)' /\ Space(0)'
  <2>1. Llq' = Llq /\ DescsBeforeHeader' = DescsBeforeHeader
    BY <1>18 DEF Llq, DescsBeforeHeader
  <2>2. ~Llq => idx = 0
    BY <1>2 DEF Places, Line
  <2>3. Llq => DescsBeforeHeader \in Nat \ {0}
    BY ConfigType
  <2>4. Line(0)'
    BY <1>18, <2>1, <2>2, <2>3 DEF Line, lineVars
  <2> QED
    BY <1>18, <2>4 DEF Progress, Space, AtWork
<1>26. /\ Line(T1 - ends2[Len(sent)])' /\ Progress(T1 - ends2[Len(sent)])'
       /\ Space(T1 - ends2[Len(sent)])'
  BY <1>24, <1>25 DEF Line, Progress, Space, DescsIn
<1>27. Places(T1, D, ends2)'
  BY <1>6, <1>21, <1>22, <1>23, <1>26 DEF Places
<1>28. Somewhere'
  BY <1>7, <1>14, <1>16, <1>27 DEF Somewhere
<1> QED
  BY <1>19, <1>20, <1>28

-----------------------------------------------------------------------------
(***************************************************************************)
(* The entries of the packets the device has read                          *)
(***************************************************************************)
IsBag(bag) == DOMAIN bag \subseteq Nat \ {0} /\ bag \in [DOMAIN bag -> Nat \ {0}]

\* The entries of one packet of n, the c-th of that number.
Layer(n, c) == {x \in Nat \X Nat \X Nat : x[1] = n /\ x[2] = c /\ x[3] \in 1..n}

\* There are n of them.
LEMMA LayerSize ==
    ASSUME NEW n \in Nat, NEW c \in Nat
    PROVE  IsFiniteSet(Layer(n, c)) /\ Cardinality(Layer(n, c)) = n
<1> DEFINE f == [i \in 1..n |-> <<n, c, i>>]
<1>1. f \in Bijection(1..n, Layer(n, c))
  <2>1. \A i \in 1..n : f[i] \in Layer(n, c)
    BY DEF Layer
  <2>2. \A i, j \in 1..n : f[i] = f[j] => i = j
    OBVIOUS
  <2>3. \A x \in Layer(n, c) : x[3] \in 1..n /\ f[x[3]] = x
    BY DEF Layer
  <2> HIDE DEF f
  <2>4. f \in [1..n -> Layer(n, c)]
    BY <2>1 DEF f
  <2> QED
    BY <2>2, <2>3, <2>4 DEF Bijection, Injection, Surjection, IsInjective
<1>2. ExistsBijection(1..n, Layer(n, c))
  BY <1>1 DEF ExistsBijection
<1>3. IsFiniteSet(1..n) /\ Cardinality(1..n) = n
  <2>1. 1 \in Int /\ n \in Int /\ n - 1 + 1 = n
    OBVIOUS
  <2> QED
    BY <2>1, FS_Interval
<1> QED
  BY <1>2, <1>3, FS_Bijection

\* A packet of n entries joins them.
LEMMA CellsGained ==
    ASSUME NEW bag, IsBag(bag), NEW n \in Nat \ {0}, IsFiniteSet(CellsOf(bag)),
           NEW more, more = bag (+) SetToBag({n})
    PROVE  /\ IsBag(more) /\ IsFiniteSet(CellsOf(more))
           /\ Cardinality(CellsOf(more)) = Cardinality(CellsOf(bag)) + n
<1> DEFINE c == IF n \in DOMAIN bag THEN bag[n] + 1 ELSE 1
<1>1. /\ DOMAIN more = DOMAIN bag \cup {n}
      /\ more[n] = c /\ c \in Nat \ {0}
      /\ \A x \in DOMAIN bag : x # n => more[x] = bag[x]
      /\ more = [x \in DOMAIN more |-> more[x]]
  BY DEF IsBag, SetToBag, (+)
<1>2. n \in DOMAIN bag => bag[n] = c - 1
  BY DEF IsBag
<1>3. n \notin DOMAIN bag => c = 1
  OBVIOUS
<1> HIDE DEF c
<1>4. IsBag(more)
  <2>1. \A x \in DOMAIN more : x \in Nat \ {0} /\ more[x] \in Nat \ {0}
    BY <1>1 DEF IsBag
  <2> QED
    BY <1>1, <2>1 DEF IsBag
<1>5. CellsOf(more) = CellsOf(bag) \cup Layer(n, c)
  <2>1. ASSUME NEW x \in Nat \X Nat \X Nat
        PROVE  x \in CellsOf(more) <=> x \in CellsOf(bag) \/ x \in Layer(n, c)
    <3>1. CASE x[1] # n
      BY <1>1, <3>1 DEF CellsOf, Layer
    <3>2. CASE x[1] = n
      <4>1. x \in CellsOf(more) <=> x[2] \in 1..c /\ x[3] \in 1..n
        BY <1>1, <3>2 DEF CellsOf
      <4>2. x \in Layer(n, c) <=> x[2] = c /\ x[3] \in 1..n
        BY <3>2 DEF Layer
      <4>3. x \in CellsOf(bag) <=> x[2] \in 1..(c - 1) /\ x[3] \in 1..n
        <5>1. CASE n \in DOMAIN bag
          BY <1>2, <3>2, <5>1 DEF CellsOf
        <5>2. CASE n \notin DOMAIN bag
          <6>1. 1..(c - 1) = {}
            BY <1>3, <5>2
          <6> QED
            BY <3>2, <5>2, <6>1 DEF CellsOf
        <5> QED
          BY <5>1, <5>2
      <4>4. x[2] \in 1..c <=> x[2] \in 1..(c - 1) \/ x[2] = c
        BY <1>1
      <4> QED
        BY <4>1, <4>2, <4>3, <4>4
    <3> QED
      BY <3>1, <3>2
  <2> QED
    BY <2>1 DEF CellsOf, Layer
<1>6. CellsOf(bag) \cap Layer(n, c) = {}
  <2>1. ASSUME NEW x \in CellsOf(bag), x \in Layer(n, c) PROVE FALSE
    BY <1>1, <1>2, <2>1 DEF CellsOf, Layer
  <2> QED
    BY <2>1
<1>7. IsFiniteSet(Layer(n, c)) /\ Cardinality(Layer(n, c)) = n
  BY <1>1, LayerSize
<1>8. Cardinality(CellsOf(bag)) \in Nat /\ Cardinality({}) = 0
  BY FS_CardinalityType, FS_EmptySet
<1>9. /\ IsFiniteSet(CellsOf(more))
      /\ Cardinality(CellsOf(more)) = Cardinality(CellsOf(bag)) + n - Cardinality({})
  BY <1>5, <1>6, <1>7, FS_Union
<1> QED
  BY <1>4, <1>8, <1>9

\* One leaves them.
LEMMA CellsLost ==
    ASSUME NEW bag, IsBag(bag), NEW n \in DOMAIN bag, IsFiniteSet(CellsOf(bag)),
           NEW rest, rest = bag (-) SetToBag({n})
    PROVE  /\ IsBag(rest) /\ IsFiniteSet(CellsOf(rest)) /\ Cardinality(CellsOf(rest)) \in Nat
           /\ Cardinality(CellsOf(bag)) = Cardinality(CellsOf(rest)) + n
<1>1. n \in Nat \ {0} /\ bag[n] \in Nat \ {0}
  BY DEF IsBag
<1>2. /\ DOMAIN rest = IF bag[n] = 1 THEN DOMAIN bag \ {n} ELSE DOMAIN bag
      /\ \A x \in DOMAIN rest : rest[x] = IF x = n THEN bag[n] - 1 ELSE bag[x]
      /\ rest = [x \in DOMAIN rest |-> rest[x]]
  <2> DEFINE less == [x \in DOMAIN bag |-> IF x = n THEN bag[x] - 1 ELSE bag[x]]
  <2>1. rest = [x \in {d \in DOMAIN bag : less[d] > 0} |-> less[x]]
    BY DEF SetToBag, (-)
  <2>2. \A x \in DOMAIN bag : less[x] > 0 <=> ~(x = n /\ bag[n] = 1)
    BY <1>1 DEF IsBag
  <2> QED
    BY <1>1, <2>1, <2>2
<1>3. IsBag(rest)
  <2>1. \A x \in DOMAIN rest : x \in Nat \ {0} /\ rest[x] \in Nat \ {0}
    BY <1>1, <1>2 DEF IsBag
  <2> QED
    BY <1>2, <2>1 DEF IsBag
<1>4. CellsOf(rest) = CellsOf(bag) \ Layer(n, bag[n])
  <2>1. ASSUME NEW x \in Nat \X Nat \X Nat
        PROVE  x \in CellsOf(rest) <=> x \in CellsOf(bag) /\ x \notin Layer(n, bag[n])
    <3>1. CASE x[1] # n
      BY <1>2, <3>1 DEF CellsOf, Layer
    <3>2. CASE x[1] = n
      <4>1. x \in CellsOf(bag) <=> x[2] \in 1..bag[n] /\ x[3] \in 1..n
        BY <3>2 DEF CellsOf
      <4>2. x \in Layer(n, bag[n]) <=> x[2] = bag[n] /\ x[3] \in 1..n
        BY <3>2 DEF Layer
      <4>3. x \in CellsOf(rest) <=> x[2] \in 1..(bag[n] - 1) /\ x[3] \in 1..n
        <5>1. CASE bag[n] = 1
          <6>1. 1..(bag[n] - 1) = {}
            BY <5>1
          <6> QED
            BY <1>2, <3>2, <5>1, <6>1 DEF CellsOf
        <5>2. CASE bag[n] # 1
          BY <1>2, <3>2, <5>2 DEF CellsOf
        <5> QED
          BY <5>1, <5>2
      <4>4. x[2] \in 1..(bag[n] - 1) <=> x[2] \in 1..bag[n] /\ x[2] # bag[n]
        BY <1>1
      <4> QED
        BY <4>1, <4>2, <4>3, <4>4
    <3> QED
      BY <3>1, <3>2
  <2> QED
    BY <2>1 DEF CellsOf, Layer
<1>5. CellsOf(bag) \cap Layer(n, bag[n]) = Layer(n, bag[n])
  <2>1. ASSUME NEW x \in Layer(n, bag[n]) PROVE x \in CellsOf(bag)
    BY <1>1 DEF CellsOf, Layer
  <2> QED
    BY <2>1
<1>6. IsFiniteSet(Layer(n, bag[n])) /\ Cardinality(Layer(n, bag[n])) = n
  BY <1>1, LayerSize
<1>7. /\ IsFiniteSet(CellsOf(rest))
      /\ Cardinality(CellsOf(rest)) = Cardinality(CellsOf(bag)) - n
  BY <1>4, <1>5, <1>6, FS_Difference
<1>8. Cardinality(CellsOf(bag)) \in Nat /\ Cardinality(CellsOf(rest)) \in Nat
  BY <1>7, FS_CardinalityType
<1> QED
  BY <1>1, <1>3, <1>7, <1>8

-----------------------------------------------------------------------------
(***************************************************************************)
(* The device, and the completions                                         *)
(***************************************************************************)
\* A packet that is sent has entries.
LEMMA SentEntries ==
    ASSUME Types
    PROVE  \A i \in 1..Len(sent) : sent[i].tx_descs \in Nat \ {0}
<1>1. \A i \in 1..Len(sent) : sent[i] \in SentPacket
  BY DEF Types
<1> QED
  BY <1>1 DEF SentPacket

\* What is announced and not read is of a packet that is sent: the first one, of which
\* the device is at an entry, and perhaps the last.
LEMMA EntryOfFirst ==
    ASSUME Types, NEW T \in Nat, NEW D \in Nat, NEW ends \in [0..Len(sent) -> Nat],
           Places(T, D, ends), head # doorbell, NEW a \in Nat, a = T - unread
    PROVE  /\ a < D /\ a < T /\ head % Depth = a % Depth
           /\ 1 \in 1..Len(sent) /\ a < ends[1] /\ ends[1] \in Nat
           /\ Ends(ring[a % Depth].descs) <=> ends[1] = a + 1
           /\ \A i \in 1..Len(sent) : ends[i] \in Nat /\ (i # 1 => ends[i] > a + 1)
<1>1. /\ head = a % CounterSize /\ doorbell = D % CounterSize /\ a <= D
      /\ D <= ends[Len(sent)] /\ ends[Len(sent)] <= T
      /\ ends[0] <= a /\ a \in Int
  BY DEF Places, Counts, Bounds
<1>2. Len(sent) \in Nat /\ ends[Len(sent)] \in Nat /\ ends[0] \in Nat /\ unread \in Nat
  BY CountsType
<1>3. a < D
  <2>1. a # D
    BY <1>1
  <2> QED
    BY <1>1, <2>1
<1>4. a < ends[Len(sent)]
  BY <1>1, <1>2, <1>3
<1>5. 1 \in 1..Len(sent)
  <2>1. Len(sent) # 0
    BY <1>1, <1>2, <1>4
  <2> QED
    BY <1>2, <2>1
<1>6. \A i \in 1..Len(sent) : ends[i] \in Nat /\ a < ends[i]
  BY <1>2, SMTT(30) DEF Places, Bounds
<1>7. ASSUME NEW i \in 1..Len(sent), i # 1 PROVE ends[i] > a + 1
  <2>1. i - 1 \in 1..Len(sent)
    BY <1>2, <1>7
  <2>2. ends[i] = ends[i - 1] + sent[i].tx_descs
    BY <1>2 DEF Places, Bounds
  <2>3. sent[i].tx_descs \in Nat \ {0}
    BY SentEntries
  <2>4. ends[i - 1] \in Nat /\ a < ends[i - 1]
    BY <1>6, <2>1
  <2> QED
    BY <2>2, <2>3, <2>4
<1>8. head % Depth = a % Depth
  BY <1>1, SlotOfCounter
<1>9. Ends(ring[a % Depth].descs) <=>
        \/ \E i \in 1..Len(sent) : ends[i] = a + 1
        \/ pc = "close" /\ idx = 0 /\ a + 1 = T
  BY <1>1, <1>2, <1>4 DEF Places, Ending
<1>10. ~(pc = "close" /\ idx = 0 /\ a + 1 = T)
  <2> SUFFICES ASSUME pc = "close", idx = 0, a + 1 = T PROVE FALSE
    OBVIOUS
  <2>1. T - ends[Len(sent)] = 0
    BY <1>1, <1>2, <1>4
  <2>2. DescsIn(T - ends[Len(sent)]) = 0
    BY <2>1 DEF DescsIn
  <2>3. /\ pkt \in Packets /\ placed = DataDescs(pkt)
        /\ \E m \in {0, 1} : DescsIn(T - ends[Len(sent)]) = placed + m
    BY DEF Places, Progress, AtWork
  <2>4. DataDescs(pkt) \in Nat \ {0}
    BY <2>3, PacketType
  <2> QED
    BY <2>2, <2>3, <2>4
<1>11. (\E i \in 1..Len(sent) : ends[i] = a + 1) <=> ends[1] = a + 1
  <2>1. \A i \in 1..Len(sent) : ends[i] = a + 1 => i = 1
    BY <1>6, <1>7
  <2> QED
    BY <1>5, <2>1
<1>12. a < T
  BY <1>1, <1>2, <1>4
<1> QED
  BY <1>3, <1>5, <1>6, <1>7, <1>8, <1>9, <1>10, <1>11, <1>12


\* The device reads an entry: it is of the first packet sent, whose entries are
\* acknowledged together when it has read the last.
LEMMA DeviceReadsInv ==
    ASSUME IInv, DeviceReads
    PROVE  IInv'
<1> USE DEF IInv
<1>1. PICK T \in Nat, D \in Nat : \E ends \in [0..Len(sent) -> Nat] : Places(T, D, ends)
  BY DEF Somewhere
<1>2. PICK ends \in [0..Len(sent) -> Nat] : Places(T, D, ends)
  BY <1>1
<1>3. /\ ends[Len(sent)] \in Nat /\ Len(sent) \in Nat /\ ends[0] \in Nat
      /\ unread \in Nat /\ unacked \in Nat /\ T - unread \in Nat
      /\ unread <= unacked /\ unacked <= T
  BY <1>2, CountsType DEF Places, Counts
<1>4. PICK a \in Nat : a = T - unread
  BY <1>3
<1>5. PICK l \in Nat : l = Len(sent)
  BY <1>3
<1>6. head # doorbell
  BY DEF DeviceReads
<1>7. /\ a < D /\ a < T /\ head % Depth = a % Depth
      /\ 1 \in 1..l /\ a < ends[1] /\ ends[1] \in Nat
      /\ Ends(ring[a % Depth].descs) <=> ends[1] = a + 1
      /\ \A i \in 1..l : ends[i] \in Nat /\ (i # 1 => ends[i] > a + 1)
  BY <1>2, <1>4, <1>5, <1>6, EntryOfFirst
<1>8. a < D /\ a < T /\ a < ends[1]
  BY <1>7
<1>9. \A i \in 1..l : ends[i] \in Nat /\ (i # 1 => ends[i] > a + 1)
  BY <1>7
<1>10. /\ unread' \in Nat /\ T - unread' = a + 1 /\ unread' <= unacked'
       /\ unread' = unread - 1 /\ unacked' = unacked
  BY <1>3, <1>4, <1>8 DEF DeviceReads
<1>11. T - unread' <= D /\ ends[0] <= T - unread'
  <2>1. ends[0] <= a
    BY <1>2, <1>4 DEF Places, Bounds
  <2> QED
    BY <1>3, <1>8, <1>10, <2>1
<1>12. PICK e : e = ring[head % Depth]
  OBVIOUS
<1>13. e \in [phase : BOOLEAN, descs : Seq(Descs)]
  <2>1. a % Depth \in Slots
    <3>1. a \in Int
      OBVIOUS
    <3> QED
      BY <3>1, SizeType, DivMod
  <2> QED
    BY <1>7, <1>12, <2>1 DEF Types
<1>14. /\ head' = (head + 1) % CounterSize
       /\ devPhase' = IF ((head + 1) % CounterSize) % Depth = 0 THEN ~devPhase ELSE devPhase
       /\ devMeta' = LastMeta(e.descs, devMeta)
       /\ IF Ends(e.descs) /\ sent # << >>
          THEN /\ partial' = << >>
               /\ sent' = Tail(sent)
               /\ inDevice' = inDevice (+) SetToBag({Head(sent).tx_descs})
          ELSE /\ partial' = partial \o e.descs
               /\ UNCHANGED <<sent, inDevice>>
       /\ unread' = unread - 1
       /\ UNCHANGED <<sqVars, lineVars, runVars, ring, doorbell, unacked>>
  BY <1>12 DEF DeviceReads, Ends
<1>15. Counts(T, D)'
  <2>1. head' = (T - unread') % CounterSize
    <3>1. ((a % CounterSize) + 1) % CounterSize = (a + 1) % CounterSize
      <4>1. a \in Int /\ 1 \in Int
        OBVIOUS
      <4> QED
        BY <4>1, ModSum, SizeType
    <3>2. head = a % CounterSize
      BY <1>2, <1>4 DEF Places, Counts
    <3> QED
      BY <1>10, <1>14, <3>1, <3>2
  <2> QED
    BY <1>2, <1>10, <1>11, <1>14, <2>1 DEF Places, Counts, sqVars
<1>16. /\ devMeta' \in Metas /\ partial' \in Seq(Descs)
  <2>1. e.descs \in Seq(Descs)
    BY <1>13
  <2>2. \A i \in DOMAIN e.descs : e.descs[i].meta \in Metas
    <3>1. \A i \in DOMAIN e.descs : e.descs[i] \in Descs
      BY <2>1
    <3> QED
      BY <3>1 DEF Descs
  <2>3. devMeta' \in Metas
    BY <1>14, <2>2 DEF LastMeta, Types
  <2>4. partial \o e.descs \in Seq(Descs)
    BY <2>1 DEF Types
  <2>5. partial' = << >> \/ partial' = partial \o e.descs
    BY <1>14
  <2>6. << >> \in Seq(Descs)
    OBVIOUS
  <2>7. partial' \in Seq(Descs)
    BY <2>4, <2>5, <2>6
  <2> QED
    BY <2>3, <2>7
<1>17. devPhase' \in BOOLEAN
  BY <1>14 DEF Types
<1>18. BurstSufficesForTwo'
  BY <1>14 DEF BurstSufficesForTwo, BurstSuffices, DescsBeforeHeader, runVars, sqVars
<1>19. \A w \in Int : Line(w)' = Line(w) /\ Progress(w)' = Progress(w) /\ Space(w)' = Space(w)
  BY <1>14 DEF Line, Progress, Space, AtWork, Sendable, DataDescs, DescsIn, EntriesFor, BurstLimited,
              Room, Llq, DescsBeforeHeader, DescsPerEntry, MaxBurst, DisableMetaCaching,
              sqVars, lineVars, runVars
<1>20. /\ \A i \in 1..l : /\ ends[i] = ends[i - 1] + sent[i].tx_descs
                          /\ sent[i].tx_descs \in Nat \ {0}
       /\ ends[l] <= T /\ D <= ends[l]
       /\ \A i \in 0..l : ends[i] <= ends[l]
       /\ pc = "idle" => ends[l] = T
       /\ pc # "idle" => start_tail = ends[l] % CounterSize
       /\ ends[0] <= a
  <2>1. \A i \in 1..l : sent[i].tx_descs \in Nat \ {0}
    BY <1>5, SentEntries
  <2> QED
    BY <1>2, <1>4, <1>5, <2>1 DEF Places, Bounds
<1>21. IsBag(inDevice)
  BY DEF Types, IsBag
<1>22. IsFiniteSet(Cells) /\ unacked = Cardinality(Cells) + (T - ends[0]) /\ Cardinality(Cells) \in Nat
  BY <1>2, FS_CardinalityType DEF Places, Accounts
<1>23. ASSUME NEW b \in Nat, T - unread' <= b, b < T
       PROVE  /\ ring'[b % Depth] = ring[b % Depth]
              /\ Ends(ring[b % Depth].descs) <=>
                   \/ \E i \in 1..l : ends[i] = b + 1
                   \/ pc = "close" /\ idx = 0 /\ b + 1 = T
              /\ ends[1] = a + 1 => ends[1] # b + 1
  <2>1. a + 1 <= b
    BY <1>10, <1>23
  <2>2. T - unread <= b
    BY <1>4, <2>1
  <2>3. Ends(ring[b % Depth].descs) <=>
          \/ \E i \in 1..l : ends[i] = b + 1
          \/ pc = "close" /\ idx = 0 /\ b + 1 = T
    BY <1>2, <1>5, <1>23, <2>2 DEF Places, Ending
  <2>4. ring' = ring
    BY <1>14
  <2> QED
    BY <2>1, <2>3, <2>4
<1>24. /\ pc' = pc /\ idx' = idx /\ start_tail' = start_tail
       /\ curr_bounce_buf' = curr_bounce_buf
       /\ (pc = "close" /\ idx > 0 => Ends(curr_bounce_buf))
  BY <1>2, <1>14 DEF runVars, lineVars, Places, Ending
<1>25. CASE ~Ends(e.descs)
  <2>1. sent' = sent /\ inDevice' = inDevice
    BY <1>14, <1>25
  <2>2. Types'
    BY <1>14, <1>16, <1>17, <2>1 DEF Types, MaxBurst, sqVars, lineVars, runVars
  <2>3. ends[1] # a + 1
    BY <1>7, <1>12, <1>25
  <2>4. ASSUME NEW i \in 1..l PROVE T - unread' < ends[i]
    <3>1. ends[i] > a + 1
      <4>1. CASE i = 1
        BY <1>8, <1>9, <2>3, <4>1
      <4>2. CASE i # 1
        BY <1>9, <4>2
      <4> QED
        BY <4>1, <4>2
    <3> QED
      BY <1>10, <3>1
  <2>5. Bounds(T, D, ends)'
    BY <1>5, <1>11, <1>20, <1>24, <2>1, <2>4 DEF Bounds
  <2>6. Ending(T, ends)'
    BY <1>5, <1>23, <1>24, <2>1 DEF Ending
  <2>7. Accounts(T, ends)'
    BY <1>14, <1>22, <2>1 DEF Accounts, Cells
  <2>8. Line(T - ends[Len(sent)])' /\ Progress(T - ends[Len(sent)])' /\ Space(T - ends[Len(sent)])'
    BY <1>2, <1>3, <1>19, <2>1 DEF Places, Line, Progress, Space, DescsIn
  <2>9. Places(T, D, ends)'
    BY <1>15, <2>5, <2>6, <2>7, <2>8 DEF Places
  <2>10. Somewhere'
    BY <2>1, <2>9 DEF Somewhere
  <2> QED
    BY <1>18, <2>2, <2>10
<1>26. CASE Ends(e.descs)
  <2>1. sent # << >> /\ sent \in Seq(SentPacket)
    BY <1>5, <1>7 DEF Types
  <2>2. sent[1].tx_descs \in Nat \ {0} /\ sent[1] = Head(sent)
    <3>1. 1 \in 1..l
      BY <1>7
    <3> QED
      BY <1>20, <3>1
  <2>3. PICK n \in Nat \ {0} : n = sent[1].tx_descs
    BY <2>2
  <2>4. /\ sent' = Tail(sent) /\ inDevice' = inDevice (+) SetToBag({n})
    BY <1>14, <1>26, <2>1, <2>2, <2>3
  <2>5. PICK k \in Nat : l = k + 1
    <3>1. 1 \in 1..l
      BY <1>7
    <3>2. l - 1 \in Nat /\ l = (l - 1) + 1
      BY <3>1
    <3> QED
      BY <3>2
  <2>6. /\ Len(sent') = k /\ sent' \in Seq(SentPacket)
        /\ \A i \in 1..k : sent'[i] = sent[i + 1]
    <3>1. Tail(sent) \in Seq(SentPacket) /\ Len(Tail(sent)) = Len(sent) - 1
      BY <2>1
    <3>2. \A i \in 1..Len(Tail(sent)) : Tail(sent)[i] = sent[i + 1]
      BY <2>1
    <3>3. Len(Tail(sent)) = k
      BY <1>5, <2>5, <3>1
    <3> QED
      BY <2>4, <3>1, <3>2, <3>3, Zenon
  <2>7. ends[1] = a + 1 /\ ends[1] = ends[0] + n
    <3>1. ends[1] = a + 1
      BY <1>7, <1>12, <1>26
    <3>2. ends[1] = ends[1 - 1] + sent[1].tx_descs
      BY <1>7, <1>20
    <3> QED
      BY <2>3, <3>1, <3>2
  <2> DEFINE next == [i \in 0..k |-> ends[i + 1]]
  <2>8. /\ next \in [0..k -> Nat]
        /\ \A i \in 0..k : next[i] = ends[i + 1] /\ i + 1 \in 0..l /\ i + 1 \in 1..l
    <3>1. \A i \in 0..k : i + 1 \in 0..l /\ i + 1 \in 1..l
      BY <2>5
    <3>2. \A i \in 0..k : ends[i + 1] \in Nat
      BY <1>7, <3>1
    <3> QED
      BY <3>1, <3>2
  <2> HIDE DEF next
  <2>9. PICK ends1 \in [0..k -> Nat] :
              \A i \in 0..k : ends1[i] = ends[i + 1] /\ i + 1 \in 0..l /\ i + 1 \in 1..l
    BY <2>8
  <2>10. ends1[k] = ends[l] /\ ends1[0] = a + 1
    <3>1. k \in 0..k /\ 0 \in 0..k /\ 0 + 1 = 1
      OBVIOUS
    <3> QED
      BY <2>5, <2>7, <2>9, <3>1
  <2>11. IsBag(inDevice') /\ IsFiniteSet(Cells') /\ Cardinality(Cells') = Cardinality(Cells) + n
    BY <1>21, <1>22, <2>4, CellsGained DEF Cells
  <2>12. Types'
    BY <1>14, <1>16, <1>17, <2>6, <2>11 DEF Types, IsBag, MaxBurst, sqVars, lineVars, runVars
  <2>13. Bounds(T, D, ends1)'
    <3>1. ASSUME NEW i \in 1..k
          PROVE  ends1[i] = ends1[i - 1] + sent'[i].tx_descs /\ T - unread' < ends1[i]
      <4>1. i \in 0..k /\ i - 1 \in 0..k /\ (i - 1) + 1 = i /\ (i + 1) - 1 = i /\ i + 1 # 1
        OBVIOUS
      <4>2. ends1[i] = ends[i + 1] /\ ends1[i - 1] = ends[i] /\ i + 1 \in 1..l
        BY <2>9, <4>1
      <4>3. ends[i + 1] = ends[i] + sent[i + 1].tx_descs
        BY <1>20, <4>1, <4>2
      <4>4. ends[i + 1] > a + 1
        BY <1>9, <4>1, <4>2
      <4> QED
        BY <1>10, <2>6, <4>2, <4>3, <4>4
    <3>2. \A i \in 0..k : ends1[i] <= ends1[k]
      BY <1>20, <2>9, <2>10
    <3>3. ends1[0] = T - unread'
      BY <1>10, <2>10
    <3>4. ends1[0] <= T - unread'
      BY <1>10, <3>3
    <3> QED
      BY <1>20, <1>24, <2>6, <2>10, <3>1, <3>2, <3>4 DEF Bounds
  <2>14. Ending(T, ends1)'
    <3>1. ASSUME NEW b \in Nat, T - unread' <= b, b < T
          PROVE  (\E i \in 1..l : ends[i] = b + 1) <=> (\E i \in 1..k : ends1[i] = b + 1)
      <4>1. ASSUME NEW i \in 1..k, ends1[i] = b + 1 PROVE \E j \in 1..l : ends[j] = b + 1
        <5>1. ends[i + 1] = b + 1 /\ i + 1 \in 1..l
          <6>1. i \in 0..k
            OBVIOUS
          <6> QED
            BY <2>9, <4>1, <6>1
        <5> QED
          BY <5>1
      <4>2. ASSUME NEW i \in 1..l, ends[i] = b + 1 PROVE \E j \in 1..k : ends1[j] = b + 1
        <5>1. i # 1
          BY <1>23, <2>7, <3>1, <4>2
        <5>2. i - 1 \in 1..k /\ i - 1 \in 0..k /\ (i - 1) + 1 = i
          BY <2>5, <5>1
        <5>3. ends1[i - 1] = ends[i]
          BY <2>9, <5>2
        <5> QED
          BY <4>2, <5>2, <5>3
      <4> QED
        BY <4>1, <4>2
    <3>2. ASSUME NEW b \in Nat, T - unread' <= b, b < T
          PROVE  Ends(ring'[b % Depth].descs) <=>
                   \/ \E i \in 1..k : ends1[i] = b + 1
                   \/ pc' = "close" /\ idx' = 0 /\ b + 1 = T
      BY <1>23, <1>24, <3>1, <3>2
    <3> QED
      BY <1>24, <2>6, <3>2 DEF Ending
  <2>15. Accounts(T, ends1)'
    <3>1. unacked = Cardinality(Cells) + (T - ends[0]) /\ ends1[0] = ends[0] + n
      BY <1>22, <2>7, <2>10
    <3>2. unacked' = Cardinality(Cells') + (T - ends1[0])
      BY <1>3, <1>10, <1>22, <2>11, <3>1, SMTT(30)
    <3> QED
      BY <2>11, <3>2 DEF Accounts
  <2>16. (T - ends1[Len(sent)])' = T - ends[Len(sent)]
    BY <1>5, <2>6, <2>10
  <2>17. Line(T - ends[Len(sent)]) /\ Progress(T - ends[Len(sent)]) /\ Space(T - ends[Len(sent)])
    BY <1>2 DEF Places
  <2>18. PICK w \in Int : w = T - ends[Len(sent)]
    BY <1>3
  <2>19. Line(w)' /\ Progress(w)' /\ Space(w)'
    BY <1>19, <2>17, <2>18
  <2>20. /\ Line(T - ends1[Len(sent)])' /\ Progress(T - ends1[Len(sent)])'
         /\ Space(T - ends1[Len(sent)])'
    BY <2>16, <2>18, <2>19 DEF Line, Progress, Space, DescsIn
  <2>21. Places(T, D, ends1)'
    BY <1>15, <2>13, <2>14, <2>15, <2>20 DEF Places
  <2>22. Somewhere'
    BY <2>6, <2>9, <2>21 DEF Somewhere
  <2> QED
    BY <1>18, <2>12, <2>22
<1> QED
  BY <1>25, <1>26

\* A packet's entries are acknowledged, all of them and only once.
LEMMA CompAckInv ==
    ASSUME IInv, CompAck
    PROVE  IInv'
<1> USE DEF IInv
<1>1. PICK T \in Nat, D \in Nat : \E ends \in [0..Len(sent) -> Nat] : Places(T, D, ends)
  BY DEF Somewhere
<1>2. PICK ends \in [0..Len(sent) -> Nat] : Places(T, D, ends)
  BY <1>1
<1>3. /\ ends[Len(sent)] \in Nat /\ Len(sent) \in Nat /\ ends[0] \in Nat
      /\ unread \in Nat /\ unacked \in Nat
  BY <1>2, CountsType
<1>4. ends[0] <= T - unread /\ unread <= unacked /\ unacked <= T /\ unacked <= Depth - 1
  BY <1>2 DEF Places, Counts, Bounds
<1>5. PICK n \in DOMAIN inDevice :
           /\ inDevice' = inDevice (-) SetToBag({n})
           /\ next_to_comp' = (next_to_comp + n) % CounterSize
           /\ unacked' = unacked - n
           /\ UNCHANGED <<llq_info, tail, phase, entries_in_tx_burst_left, cached_tx_meta,
                          lineVars, runVars, ring, doorbell, head, devPhase,
                          partial, devMeta, sent, unread>>
  BY DEF CompAck, BagToSet
<1>6. IsBag(inDevice) /\ n \in Nat \ {0}
  BY DEF Types, IsBag
<1>7. IsFiniteSet(Cells) /\ unacked = Cardinality(Cells) + (T - ends[0])
  BY <1>2 DEF Places, Accounts
<1>8. /\ IsBag(inDevice') /\ IsFiniteSet(Cells') /\ Cardinality(Cells') \in Nat
      /\ Cardinality(Cells) = Cardinality(Cells') + n
  BY <1>5, <1>6, <1>7, CellsLost DEF Cells
<1>9. unacked' = Cardinality(Cells') + (T - ends[0])
  BY <1>3, <1>5, <1>6, <1>7, <1>8
<1>10. unacked' \in Nat /\ unread <= unacked' /\ unacked' <= unacked
  BY <1>3, <1>4, <1>5, <1>6, <1>8, <1>9
<1>11. Counts(T, D)'
  <2>1. next_to_comp' = (T - unacked') % CounterSize
    <3>1. next_to_comp = (T - unacked) % CounterSize /\ T - unacked \in Int /\ n \in Int
      BY <1>2, <1>3, <1>6 DEF Places, Counts
    <3>2. (((T - unacked) % CounterSize) + n) % CounterSize = ((T - unacked) + n) % CounterSize
      BY <3>1, ModSum, SizeType
    <3>3. (T - unacked) + n = T - unacked'
      BY <1>3, <1>5, <1>6
    <3> QED
      BY <1>5, <3>1, <3>2, <3>3
  <2>2. unacked' <= T /\ unacked' <= Depth - 1
    BY <1>3, <1>4, <1>10, SizeType
  <2> QED
    BY <1>2, <1>5, <1>10, <2>1, <2>2 DEF Places, Counts
<1>12. Types'
  BY <1>5, <1>8 DEF Types, IsBag, MaxBurst, lineVars, runVars
<1>13. BurstSufficesForTwo'
  BY <1>5 DEF BurstSufficesForTwo, BurstSuffices, DescsBeforeHeader, runVars
<1>14. Bounds(T, D, ends)'
  BY <1>2, <1>5 DEF Places, Bounds, runVars
<1>15. Ending(T, ends)'
  BY <1>2, <1>5 DEF Places, Ending, runVars, lineVars
<1>16. Accounts(T, ends)'
  BY <1>8, <1>9 DEF Accounts
<1>17. Line(T - ends[Len(sent)])' /\ Progress(T - ends[Len(sent)])'
  BY <1>2, <1>5 DEF Places, Line, Progress, AtWork, Sendable, DataDescs, DescsIn, EntriesFor,
              BurstLimited, Llq, DescsBeforeHeader, DescsPerEntry, MaxBurst, DisableMetaCaching,
              lineVars, runVars
<1>18. Space(T - ends[Len(sent)])'
  <2>1. ASSUME AtWork
        PROVE  unacked' - (T - ends[Len(sent)]) + Room(pkt) <= Depth - 1
    <3>1. pkt \in Packets
      BY <1>2, <2>1 DEF Places, Progress
    <3>2. pkt.bufs \in Nat
      BY <3>1, PacketType
    <3>3. Room(pkt) \in Int
      <4>1. Llq => DescsPerEntry \in Nat \ {0}
        BY ConfigType
      <4>2. pkt.bufs + 1 \in Int
        BY <3>2
      <4>3. Llq => (pkt.bufs + 1) \div DescsPerEntry \in Int
        BY <4>1, <4>2, DivMod
      <4> QED
        BY <4>2, <4>3 DEF Room
    <3>4. unacked - (T - ends[Len(sent)]) + Room(pkt) <= Depth - 1
      BY <1>2, <2>1 DEF Places, Space
    <3> QED
      BY <1>3, <1>10, <3>3, <3>4, SizeType
  <2>2. AtWork' = AtWork /\ Room(pkt)' = Room(pkt)
    BY <1>5 DEF AtWork, Room, Llq, DescsPerEntry, runVars
  <2> QED
    BY <1>5, <2>1, <2>2 DEF Space
<1>19. Places(T, D, ends)'
  BY <1>11, <1>14, <1>15, <1>16, <1>17, <1>18 DEF Places
<1>20. Somewhere'
  BY <1>5, <1>19 DEF Somewhere
<1> QED
  BY <1>12, <1>13, <1>20

-----------------------------------------------------------------------------
(***************************************************************************)
(* The theorems                                                            *)
(***************************************************************************)
\* A step that changes nothing.
LEMMA StutterInv == IInv /\ UNCHANGED vars => IInv'
<1> SUFFICES ASSUME IInv, UNCHANGED vars PROVE IInv'
  OBVIOUS
<1> USE DEF vars, sqVars, lineVars, runVars, devVars, ghostVars
<1>1. Types'
  BY DEF IInv, Types, MaxBurst
<1>2. BurstSufficesForTwo'
  BY DEF IInv, BurstSufficesForTwo, BurstSuffices, DescsBeforeHeader
<1>3. PICK T \in Nat, D \in Nat : \E ends \in [0..Len(sent) -> Nat] : Places(T, D, ends)
  BY DEF IInv, Somewhere
<1>4. PICK ends \in [0..Len(sent) -> Nat] : Places(T, D, ends)
  BY <1>3
<1>5. Counts(T, D)' /\ Bounds(T, D, ends)' /\ Ending(T, ends)' /\ Accounts(T, ends)'
  BY <1>4 DEF Places, Counts, Bounds, Ending, Accounts, Cells
<1>6. Line(T - ends[Len(sent)])' /\ Progress(T - ends[Len(sent)])' /\ Space(T - ends[Len(sent)])'
  BY <1>4 DEF Places, Line, Progress, Space, AtWork, Sendable, DataDescs, DescsIn, EntriesFor,
              Room, BurstLimited, Llq, DescsBeforeHeader, DescsPerEntry, MaxBurst,
              DisableMetaCaching
<1>7. Places(T, D, ends)'
  BY <1>5, <1>6 DEF Places
<1> QED
  BY <1>1, <1>2, <1>7 DEF IInv, Somewhere

\* The invariant is inductive.
LEMMA Inductive == Spec => []IInv
<1>1. Init => IInv
  BY NewQueue
<1>2. (Init => IInv)'
  BY NewQueue, PTL
<1>3. IInv /\ [Next]_vars => IInv'
  <2> SUFFICES ASSUME IInv, [Next]_vars PROVE IInv'
    OBVIOUS
  <2>1. CASE \E p \in Packets : Drop(p)
    BY <2>1, IdleInv
  <2>2. CASE \E p \in Packets : Begin(p)
    BY <2>2, BeginInv
  <2>3. CASE PlaceMeta \/ PlaceData
    BY <2>3, PlaceInv
  <2>4. CASE Close
    BY <2>4, CloseInv
  <2>5. CASE OutOfBurst
    BY <2>5, OutOfBurstInv
  <2>6. CASE RingDoorbell
    BY <2>6, IdleInv
  <2>7. CASE Recreate
    <3>1. Init'
      BY <2>7, RecreateInv DEF IInv
    <3> QED
      BY <1>2, <3>1
  <2>8. CASE DeviceReads
    BY <2>8, DeviceReadsInv
  <2>9. CASE CompAck
    BY <2>9, CompAckInv
  <2>10. CASE UNCHANGED vars
    BY <2>10, StutterInv
  <2> QED
    BY <2>1, <2>2, <2>3, <2>4, <2>5, <2>6, <2>7, <2>8, <2>9, <2>10 DEF Next
<1> QED
  BY <1>1, <1>3, PTL DEF Spec

\* What the invariant says of the state alone.
LEMMA Shown == IInv => TypeOK /\ RingNotOverrun /\ BurstSufficesForTwo /\ HeaderIsKept
<1> SUFFICES ASSUME IInv PROVE TypeOK /\ RingNotOverrun /\ HeaderIsKept
  BY DEF IInv
<1>1. Types
  BY DEF IInv
<1>2. PICK T \in Nat, D \in Nat : \E ends \in [0..Len(sent) -> Nat] : Places(T, D, ends)
  BY DEF IInv, Somewhere
<1>3. PICK ends \in [0..Len(sent) -> Nat] : Places(T, D, ends)
  BY <1>2
<1>4. /\ tail \in Counters /\ next_to_comp \in Counters /\ head \in Counters
      /\ doorbell \in Counters
      /\ ends[Len(sent)] \in Nat
      /\ unread \in Nat /\ unacked \in Nat
      /\ T - ends[Len(sent)] \in 0..unread
      /\ UsedEntries = unacked
  BY <1>1, <1>3, CountsType
<1>5. TypeOK
  <2>1. \A s \in Slots : ring[s].phase \in BOOLEAN /\ ring[s].descs \in Seq(Descs)
    BY <1>1 DEF Types
  <2> QED
    BY <1>1, <1>4, <2>1 DEF Types, TypeOK
<1>6. unread <= unacked /\ unacked <= Depth - 1
  BY <1>3 DEF Places, Counts
<1>7. RingNotOverrun
  BY <1>4, <1>6 DEF RingNotOverrun
<1>8. HeaderIsKept
  <2> SUFFICES ASSUME Llq
               PROVE  /\ (pc # "idle" /\ tail = start_tail) => idx <= DescsBeforeHeader
                      /\ pc = "idle" => idx = 0 /\ descs_left_in_line <= DescsBeforeHeader
    BY DEF HeaderIsKept
  <2>1. /\ idx \in Nat /\ descs_left_in_line \in Nat /\ DescsBeforeHeader \in Nat
    BY <1>1, ConfigType DEF Types
  <2>2. /\ pc = "idle" => T - ends[Len(sent)] = 0
        /\ pc # "idle" => start_tail = ends[Len(sent)] % CounterSize
        /\ tail = T % CounterSize
    BY <1>3, <1>4 DEF Places, Bounds, Counts
  <2>3. T - ends[Len(sent)] = 0 => idx + descs_left_in_line = DescsBeforeHeader
    BY <1>3 DEF Places, Line
  <2>4. pc = "idle" => idx = 0
    BY <1>3 DEF Places, Line
  <2>5. pc # "idle" /\ tail = start_tail => T - ends[Len(sent)] = 0
    <3>1. /\ T \in Int /\ ends[Len(sent)] \in Int
          /\ ends[Len(sent)] <= T /\ T - ends[Len(sent)] < CounterSize
      BY <1>4, <1>6, SizeType
    <3>2. T % CounterSize = ends[Len(sent)] % CounterSize => T = ends[Len(sent)]
      BY <3>1, ModInjective, SizeType
    <3> QED
      BY <2>2, <3>1, <3>2
  <2> QED
    BY <2>1, <2>2, <2>3, <2>4, <2>5
<1> QED
  BY <1>5, <1>7, <1>8

\* The queue, the run that prepares a packet, the ring and the device keep their types,
\* and no more of a burst is left than the device allows.
THEOREM TypeCorrect == Spec => []TypeOK
<1>1. IInv => TypeOK
  BY Shown
<1> QED
  BY <1>1, Inductive, PTL

\* ena_com_sq_have_enough_space() is enough, whatever the packet, the layout of a line
\* and the turns of the counters: no entry is written over one that is not acknowledged.
THEOREM NeverOverrun == Spec => []RingNotOverrun
<1>1. IInv => RingNotOverrun
  BY Shown
<1> QED
  BY <1>1, Inductive, PTL

\* Where the meta and the first descriptor fit before the header,
\* ena_com_is_doorbell_needed() foresees every entry of a packet and the burst is never
\* used up inside one.
THEOREM BurstLasts == Spec => []BurstSufficesForTwo
<1>1. IInv => BurstSufficesForTwo
  BY Shown
<1> QED
  BY <1>1, Inductive, PTL

\* No descriptor of a packet's first line is put where its header is, and a packet
\* always begins a line of its own (ena_com_close_bounce_buffer).
THEOREM HeaderStays == Spec => []HeaderIsKept
<1>1. IInv => HeaderIsKept
  BY Shown
<1> QED
  BY <1>1, Inductive, PTL
=============================================================================
