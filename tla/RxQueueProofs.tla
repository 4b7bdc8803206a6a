----------------------------- MODULE RxQueueProofs -----------------------------
(***************************************************************************)
(* Theorems about RxQueue, for every size of the ring, of packets and of   *)
(* the page cache, every budget and all modes: no buffer is lost or posted *)
(* twice, no two parties hold the same part of a page, and a page has as   *)
(* many references as holders.                                             *)
(*                                                                         *)
(* The invariant has two halves that meet in one point.  The ids: those    *)
(* that are free, posted, and in completions are distinct and together all *)
(* ids, and used counts those that are not free.  The memory: holders and  *)
(* references agree, and holders are disjoint.  They meet in that an id    *)
(* that is not free has a page, which is what a packet's buffers become    *)
(* something else by.                                                      *)
(***************************************************************************)
EXTENDS RxQueue, FiniteSetTheorems, SequenceTheorems, WellFoundedInduction, TLAPS

\* The ids.
GoodIds(w) == {w[k].id : k \in DOMAIN w} \ {BadId}
Distinct(w) == \A i, j \in DOMAIN w : w[i].id = w[j].id /\ w[i].id # BadId => i = j

FreeIds == ToSet(ring.free_ids) \cup ToSet(poll.ids)
InFlight == ToSet(sq) \cup GoodIds(Waiting)

FreeApart ==
    /\ IsInjective(ring.free_ids) /\ IsInjective(poll.ids)
    /\ ToSet(ring.free_ids) \cap ToSet(poll.ids) = {}
    /\ used + Len(ring.free_ids) + Len(poll.ids) = RingSize
FlightApart ==
    /\ IsInjective(sq) /\ Distinct(Waiting)
    /\ ToSet(sq) \cap GoodIds(Waiting) = {}
Parted == FreeIds \cap InFlight = {} /\ FreeIds \cup InFlight = Ids
ReadWell == \A k \in DOMAIN taken : taken[k].id # BadId
RefillFits ==
    napi \in {"off", "refill"} => poll.ids = << >> /\ poll.todo + used < RingSize
HavePages == \A i \in InFlight : rx_info[i].page # NoPage

IdsInv == FreeApart /\ FlightApart /\ Parted /\ ReadWell /\ RefillFits /\ HavePages
QueueInv == IF trigger_reset THEN napi \in {"idle", "scheduled"} ELSE IdsInv

\* The memory, that of a state or of a packet's outcome.
HalfSets == {{0}, {1}, {0, 1}}
Buffers == [page : Pages \cup {NoPage}, half : Halves, lpc : BOOLEAN]
Memories == [refs : [Pages -> Nat], mapped : SUBSET Pages, cache : Seq(Pages), head : Nat,
             error : BOOLEAN]
Parts == [page : Pages, halves : HalfSets]

At(info, p) == {i \in Ids : info[i].page = p}
CachedAt(m, p) == {k \in DOMAIN m.cache : m.cache[k] = p}
PartsOf(st, p) == {s \in st : s.page = p}

Typed(m, info, st) == m \in Memories /\ info \in [Ids -> Buffers] /\ st \in SUBSET Parts
CacheFits(m) ==
    /\ Len(m.cache) <= CacheSize
    /\ m.head < Len(m.cache) \/ (m.cache = << >> /\ m.head = 0)
Counted(m, info, st) ==
    \A p \in Pages :
        m.refs[p] = Cardinality(At(info, p)) + Cardinality(CachedAt(m, p))
                    + Cardinality(PartsOf(st, p))
Owned(info, st) ==
    /\ \A i \in Ids, s \in st : info[i].page = s.page => info[i].half = 1 /\ 1 \notin s.halves
    /\ \A i, j \in Ids : info[i].page = info[j].page /\ info[i].page # NoPage => i = j
    /\ \A s, t \in st : s.page = t.page /\ s.halves \cap t.halves # {} => s = t
Sound(m, info, st) ==
    Typed(m, info, st) /\ CacheFits(m) /\ Counted(m, info, st) /\ Owned(info, st)

MemoryInv == Sound(mem, rx_info, stack)

\* The rest of the types.
QueueTypes ==
    /\ mode \in Modes
    /\ ring \in [free_ids : Seq(Ids), empty_rx_queue : 0..1]
    /\ used \in 0..(RingSize - 1)
    /\ sq \in Seq(Ids) /\ rung \in 0..Len(sq)
    /\ cq \in Seq(Completions) /\ taken \in Seq(Completions)
    /\ failures \in 0..MaxFailures /\ faults \in 0..MaxFaults
    /\ napi \in {"off", "idle", "scheduled", "poll", "refill"}
    /\ poll \in [work : 0..Budget, ids : Seq(Ids), todo : 0..(RingSize - 1)]
    /\ missed \in BOOLEAN /\ trigger_reset \in BOOLEAN /\ oops \in BOOLEAN

IInv == QueueTypes /\ QueueInv /\ MemoryInv

-----------------------------------------------------------------------------
(***************************************************************************)
(* Sequences in which nothing comes twice                                  *)
(***************************************************************************)
LEMMA InSequence ==
    ASSUME NEW S, NEW s \in Seq(S)
    PROVE  /\ ToSet(s) \in SUBSET S /\ DOMAIN s = 1..Len(s) /\ Len(s) \in Nat
           /\ \A x : x \in ToSet(s) <=> \E k \in 1..Len(s) : s[k] = x
  BY LenProperties, ElementOfSeq DEF ToSet

LEMMA InjectiveCount ==
    ASSUME NEW S, NEW s \in Seq(S), IsInjective(s)
    PROVE  IsFiniteSet(ToSet(s)) /\ Cardinality(ToSet(s)) = Len(s)
<1> DEFINE n == Len(s)
<1>1. n \in Nat /\ s \in [1..n -> ToSet(s)]
  BY LenProperties DEF ToSet
<1>2. \A x \in ToSet(s) : \E k \in 1..n : s[k] = x
  BY InSequence
<1>3. s \in Bijection(1..n, ToSet(s))
  <2> HIDE DEF n
  <2> QED
    BY <1>1, <1>2 DEF Bijection, Injection, Surjection
<1>4. ExistsBijection(1..n, ToSet(s))
  BY <1>3 DEF ExistsBijection
<1> QED
  BY <1>1, <1>4, FS_CountingElements, FS_NatBijection

LEMMA TailApart ==
    ASSUME NEW S, NEW s \in Seq(S), s # << >>, IsInjective(s)
    PROVE  /\ Tail(s) \in Seq(S) /\ Len(Tail(s)) = Len(s) - 1 /\ IsInjective(Tail(s))
           /\ Head(s) \in ToSet(s) /\ ToSet(Tail(s)) = ToSet(s) \ {Head(s)}
<1> DEFINE t == Tail(s)
<1>1. /\ t \in Seq(S) /\ Len(t) = Len(s) - 1 /\ Len(s) \in Nat \ {0} /\ Head(s) = s[1]
      /\ \A k \in 1..Len(t) : t[k] = s[k + 1]
  BY HeadTailProperties, EmptySeq
<1> HIDE DEF t
<1>2. /\ DOMAIN s = 1..Len(s) /\ DOMAIN t = 1..Len(t)
      /\ \A x : x \in ToSet(s) <=> \E k \in 1..Len(s) : s[k] = x
      /\ \A x : x \in ToSet(t) <=> \E k \in 1..Len(t) : t[k] = x
  BY <1>1, InSequence
<1>3. IsInjective(t)
  <2> SUFFICES ASSUME NEW i \in 1..Len(t), NEW j \in 1..Len(t), t[i] = t[j]
               PROVE  i = j
    BY <1>2 DEF IsInjective
  <2>1. i + 1 \in 1..Len(s) /\ j + 1 \in 1..Len(s) /\ s[i + 1] = s[j + 1]
    BY <1>1
  <2>2. i + 1 = j + 1
    BY <1>2, <2>1 DEF IsInjective
  <2> QED
    BY <2>2
<1>4. Head(s) \in ToSet(s)
  BY <1>1, <1>2
<1>5. ASSUME NEW x
      PROVE  x \in ToSet(t) <=> x \in ToSet(s) /\ x # Head(s)
  <2>1. ASSUME NEW k \in 1..Len(t), t[k] = x
        PROVE  x \in ToSet(s) /\ x # Head(s)
    <3>1. k + 1 \in 1..Len(s) /\ s[k + 1] = x /\ 1 \in 1..Len(s) /\ k + 1 # 1
      BY <1>1, <2>1
    <3> QED
      BY <1>1, <1>2, <3>1 DEF IsInjective
  <2>2. ASSUME NEW k \in 1..Len(s), s[k] = x, x # Head(s)
        PROVE  x \in ToSet(t)
    <3>1. k # 1
      BY <1>1, <2>2
    <3>2. k - 1 \in 1..Len(t) /\ k = (k - 1) + 1
      BY <1>1, <3>1
    <3>3. t[k - 1] = x
      BY <1>1, <2>2, <3>2
    <3> QED
      BY <1>2, <3>2, <3>3
  <2> QED
    BY <1>2, <2>1, <2>2
<1> QED
  BY <1>1, <1>3, <1>4, <1>5 DEF t

LEMMA AppendApart ==
    ASSUME NEW S, NEW s \in Seq(S), NEW x \in S
    PROVE  /\ Append(s, x) \in Seq(S) /\ Len(Append(s, x)) = Len(s) + 1
           /\ ToSet(Append(s, x)) = ToSet(s) \cup {x}
           /\ IsInjective(s) /\ x \notin ToSet(s) => IsInjective(Append(s, x))
<1> DEFINE t == Append(s, x)
<1>1. /\ t \in Seq(S) /\ Len(t) = Len(s) + 1 /\ Len(s) \in Nat
      /\ \A k \in 1..Len(s) : t[k] = s[k]
      /\ t[Len(s) + 1] = x
  BY AppendProperties, LenProperties
<1>2. /\ DOMAIN s = 1..Len(s) /\ DOMAIN t = 1..Len(t)
      /\ \A y : y \in ToSet(s) <=> \E k \in 1..Len(s) : s[k] = y
      /\ \A y : y \in ToSet(t) <=> \E k \in 1..Len(t) : t[k] = y
  BY <1>1, InSequence
<1> HIDE DEF t
<1>3. \A k \in 1..Len(t) : k \in 1..Len(s) \/ k = Len(s) + 1
  BY <1>1
<1>4. ToSet(t) = ToSet(s) \cup {x}
  <2>1. \A y : y \in ToSet(t) => y \in ToSet(s) \cup {x}
    BY <1>1, <1>2, <1>3
  <2>2. \A k \in 1..Len(s) : k \in 1..Len(t)
    BY <1>1
  <2>3. Len(s) + 1 \in 1..Len(t)
    BY <1>1
  <2>4. \A y : y \in ToSet(s) \cup {x} => y \in ToSet(t)
    BY <1>1, <1>2, <2>2, <2>3
  <2> QED
    BY <2>1, <2>4
<1>5. IsInjective(s) /\ x \notin ToSet(s) => IsInjective(t)
  <2> SUFFICES ASSUME IsInjective(s), x \notin ToSet(s),
                      NEW i \in 1..Len(t), NEW j \in 1..Len(t), t[i] = t[j]
               PROVE  i = j
    BY <1>2 DEF IsInjective
  <2>1. CASE i \in 1..Len(s) /\ j \in 1..Len(s)
    BY <1>1, <1>2, <2>1 DEF IsInjective
  <2>2. CASE i = Len(s) + 1 \/ j = Len(s) + 1
    BY <1>1, <1>2, <1>3, <2>2
  <2> QED
    BY <1>3, <2>1, <2>2
<1> QED
  BY <1>1, <1>4, <1>5 DEF t

LEMMA ConcatApart ==
    ASSUME NEW S, NEW s \in Seq(S), NEW t \in Seq(S)
    PROVE  /\ s \o t \in Seq(S) /\ Len(s \o t) = Len(s) + Len(t)
           /\ ToSet(s \o t) = ToSet(s) \cup ToSet(t)
           /\ IsInjective(s) /\ IsInjective(t) /\ ToSet(s) \cap ToSet(t) = {}
                => IsInjective(s \o t)
<1> DEFINE u == s \o t
           m == Len(s)
           n == Len(t)
<1>1. /\ u \in Seq(S) /\ Len(u) = m + n /\ m \in Nat /\ n \in Nat
      /\ \A k \in 1..(m + n) : u[k] = IF k <= m THEN s[k] ELSE t[k - m]
  BY ConcatProperties, LenProperties
<1>2. /\ DOMAIN s = 1..m /\ DOMAIN t = 1..n /\ DOMAIN u = 1..(m + n)
      /\ \A y : y \in ToSet(s) <=> \E k \in 1..m : s[k] = y
      /\ \A y : y \in ToSet(t) <=> \E k \in 1..n : t[k] = y
      /\ \A y : y \in ToSet(u) <=> \E k \in 1..(m + n) : u[k] = y
  BY <1>1, InSequence
<1> HIDE DEF u, m, n
<1>3. /\ \A k \in 1..m : k \in 1..(m + n) /\ u[k] = s[k]
      /\ \A k \in 1..n : k + m \in 1..(m + n) /\ u[k + m] = t[k]
  <2>1. \A k \in 1..m : k \in 1..(m + n) /\ u[k] = s[k]
    BY <1>1
  <2>2. ASSUME NEW k \in 1..n
        PROVE  k + m \in 1..(m + n) /\ u[k + m] = t[k]
    <3>1. k + m \in 1..(m + n) /\ ~(k + m <= m) /\ (k + m) - m = k
      BY <1>1
    <3> QED
      BY <1>1, <3>1
  <2> QED
    BY <2>1, <2>2
<1>4. \A k \in 1..(m + n) : k \in 1..m \/ \E l \in 1..n : k = l + m
  <2> SUFFICES ASSUME NEW k \in 1..(m + n), k \notin 1..m
               PROVE  \E l \in 1..n : k = l + m
    OBVIOUS
  <2>1. k - m \in 1..n /\ k = (k - m) + m
    BY <1>1
  <2> QED
    BY <2>1
<1>5. ToSet(u) = ToSet(s) \cup ToSet(t)
  <2>1. \A y : y \in ToSet(u) => y \in ToSet(s) \cup ToSet(t)
    BY <1>2, <1>3, <1>4
  <2>2. \A y : y \in ToSet(s) \cup ToSet(t) => y \in ToSet(u)
    BY <1>2, <1>3
  <2> QED
    BY <2>1, <2>2
<1>6. ASSUME IsInjective(s), IsInjective(t), ToSet(s) \cap ToSet(t) = {}
      PROVE  IsInjective(u)
  <2> SUFFICES ASSUME NEW i \in 1..(m + n), NEW j \in 1..(m + n), u[i] = u[j]
               PROVE  i = j
    BY <1>2 DEF IsInjective
  <2>1. CASE i \in 1..m /\ j \in 1..m
    BY <1>2, <1>3, <1>6, <2>1 DEF IsInjective
  <2>2. ASSUME NEW k \in 1..n, NEW l \in 1..n, i = k + m, j = l + m
        PROVE  i = j
    BY <1>2, <1>3, <1>6, <2>2 DEF IsInjective
  <2>3. ASSUME NEW k \in 1..n, i \in 1..m, j = k + m
        PROVE  FALSE
    BY <1>2, <1>3, <1>6, <2>3
  <2>4. ASSUME NEW k \in 1..n, j \in 1..m, i = k + m
        PROVE  FALSE
    BY <1>2, <1>3, <1>6, <2>4
  <2> QED
    BY <1>4, <2>1, <2>2, <2>3, <2>4
<1> QED
  BY <1>1, <1>5, <1>6 DEF u, m, n

LEMMA Piece ==
    ASSUME NEW S, NEW s \in Seq(S), NEW a \in 1..(Len(s) + 1), NEW b \in 0..Len(s), a <= b + 1
    PROVE  /\ SubSeq(s, a, b) \in Seq(S) /\ Len(SubSeq(s, a, b)) = b - a + 1
           /\ \A k \in 1..(b - a + 1) : /\ SubSeq(s, a, b)[k] = s[a + k - 1]
                                        /\ a + k - 1 \in a..b /\ a + k - 1 \in 1..Len(s)
<1>1. Len(s) \in Nat /\ \A k \in a..b : k \in 1..Len(s) /\ s[k] \in S
  BY LenProperties, ElementOfSeq
<1>2. /\ SubSeq(s, a, b) \in Seq(S)
      /\ Len(SubSeq(s, a, b)) = IF a <= b THEN b - a + 1 ELSE 0
      /\ \A k \in 1..(b - a + 1) : SubSeq(s, a, b)[k] = s[a + k - 1]
  BY <1>1, SubSeqProperties
<1>3. (IF a <= b THEN b - a + 1 ELSE 0) = b - a + 1
  BY <1>1
<1>4. \A k \in 1..(b - a + 1) : a + k - 1 \in a..b /\ a + k - 1 \in 1..Len(s)
  BY <1>1
<1> QED
  BY <1>2, <1>3, <1>4

LEMMA FrontAndRest ==
    ASSUME NEW S, NEW s \in Seq(S), NEW n \in 0..Len(s)
    PROVE  LET u == SubSeq(s, 1, n)
               v == SubSeq(s, n + 1, Len(s))
           IN  /\ u \in Seq(S) /\ Len(u) = n
               /\ \A k \in 1..n : u[k] = s[k] /\ k \in 1..Len(s)
               /\ v \in Seq(S) /\ Len(v) = Len(s) - n
               /\ \A k \in 1..(Len(s) - n) : v[k] = s[n + k] /\ n + k \in 1..Len(s)
<1>0. Len(s) \in Nat
  BY LenProperties
<1>1. /\ SubSeq(s, 1, n) \in Seq(S) /\ Len(SubSeq(s, 1, n)) = n - 1 + 1
      /\ \A k \in 1..(n - 1 + 1) : /\ SubSeq(s, 1, n)[k] = s[1 + k - 1]
                                   /\ 1 + k - 1 \in 1..Len(s)
  <2>1. 1 \in 1..(Len(s) + 1) /\ 1 <= n + 1
    BY <1>0
  <2> QED
    BY <2>1, Piece
<1>2. PICK a \in 1..(Len(s) + 1) : a = n + 1
  BY <1>0
<1>3. PICK b \in 0..Len(s) : b = Len(s)
  BY <1>0
<1>4. /\ SubSeq(s, a, b) \in Seq(S) /\ Len(SubSeq(s, a, b)) = b - a + 1
      /\ \A k \in 1..(b - a + 1) : /\ SubSeq(s, a, b)[k] = s[a + k - 1]
                                   /\ a + k - 1 \in 1..Len(s)
  <2>1. a <= b + 1
    BY <1>0, <1>2, <1>3
  <2> QED
    BY <2>1, Piece
<1>5. b - a + 1 = Len(s) - n /\ \A k \in 1..(Len(s) - n) : a + k - 1 = n + k
  BY <1>0, <1>2, <1>3
<1>6. n - 1 + 1 = n /\ \A k \in 1..n : 1 + k - 1 = k
  BY <1>0
<1> QED
  BY <1>1, <1>2, <1>3, <1>4, <1>5, <1>6

LEMMA RemoveAtApart ==
    ASSUME NEW S, NEW s \in Seq(S), NEW k \in 1..Len(s)
    PROVE  /\ RemoveAt(s, k) \in Seq(S) /\ Len(RemoveAt(s, k)) = Len(s) - 1
           /\ IsInjective(s) => /\ IsInjective(RemoveAt(s, k))
                                /\ ToSet(RemoveAt(s, k)) = ToSet(s) \ {s[k]}
<1> DEFINE a == SubSeq(s, 1, k - 1)
           b == SubSeq(s, k + 1, Len(s))
<1>0. Len(s) \in Nat /\ DOMAIN s = 1..Len(s)
  BY LenProperties
<1>1. /\ a \in Seq(S) /\ Len(a) = k - 1
      /\ \A i \in 1..(k - 1) : a[i] = s[i] /\ i \in 1..Len(s)
  <2>1. k - 1 \in 0..Len(s)
    BY <1>0
  <2> QED
    BY <2>1, FrontAndRest
<1>2. /\ b \in Seq(S) /\ Len(b) = Len(s) - k
      /\ \A i \in 1..(Len(s) - k) : b[i] = s[k + i] /\ k + i \in (k + 1)..Len(s)
                                   /\ k + i \in 1..Len(s)
  <2>1. \A i \in 1..(Len(s) - k) : k + i \in (k + 1)..Len(s)
    BY <1>0
  <2>2. k \in 0..Len(s)
    BY <1>0
  <2> QED
    BY <2>1, <2>2, FrontAndRest
<1> HIDE DEF a, b
<1>3. RemoveAt(s, k) = a \o b
  BY DEF RemoveAt, a, b
<1>4. /\ a \o b \in Seq(S) /\ Len(a \o b) = Len(s) - 1
      /\ ToSet(a \o b) = ToSet(a) \cup ToSet(b)
      /\ IsInjective(a) /\ IsInjective(b) /\ ToSet(a) \cap ToSet(b) = {} => IsInjective(a \o b)
  <2>1. /\ a \o b \in Seq(S) /\ Len(a \o b) = Len(a) + Len(b)
        /\ ToSet(a \o b) = ToSet(a) \cup ToSet(b)
        /\ IsInjective(a) /\ IsInjective(b) /\ ToSet(a) \cap ToSet(b) = {}
             => IsInjective(a \o b)
    BY <1>1, <1>2, ConcatApart
  <2>2. Len(a) + Len(b) = Len(s) - 1
    BY <1>0, <1>1, <1>2
  <2> QED
    BY <2>1, <2>2
<1>5. /\ DOMAIN a = 1..(k - 1) /\ DOMAIN b = 1..(Len(s) - k)
      /\ \A y : y \in ToSet(s) <=> \E i \in 1..Len(s) : s[i] = y
      /\ \A y : y \in ToSet(a) <=> \E i \in 1..(k - 1) : a[i] = y
      /\ \A y : y \in ToSet(b) <=> \E i \in 1..(Len(s) - k) : b[i] = y
  BY <1>1, <1>2, InSequence
<1>6. ASSUME IsInjective(s)
      PROVE  /\ IsInjective(a) /\ IsInjective(b) /\ ToSet(a) \cap ToSet(b) = {}
             /\ ToSet(a) \cup ToSet(b) = ToSet(s) \ {s[k]}
  <2>0. \A i, j \in 1..Len(s) : s[i] = s[j] => i = j
    BY <1>0, <1>6 DEF IsInjective
  <2>1. IsInjective(a)
    BY <1>1, <1>5, <2>0 DEF IsInjective
  <2>2. IsInjective(b)
    <3> SUFFICES ASSUME NEW i \in 1..(Len(s) - k), NEW j \in 1..(Len(s) - k), b[i] = b[j]
                 PROVE  i = j
      BY <1>5 DEF IsInjective
    <3>1. k + i = k + j
      BY <1>2, <2>0
    <3> QED
      BY <1>0, <3>1
  <2>3. ToSet(a) \cap ToSet(b) = {}
    <3> SUFFICES ASSUME NEW i \in 1..(k - 1), NEW j \in 1..(Len(s) - k), a[i] = b[j]
                 PROVE  FALSE
      BY <1>5
    <3>1. i = k + j
      BY <1>1, <1>2, <2>0
    <3> QED
      BY <1>0, <3>1
  <2>4. ASSUME NEW y \in ToSet(a) \cup ToSet(b)
        PROVE  y \in ToSet(s) \ {s[k]}
    <3>1. ASSUME NEW i \in 1..(k - 1), a[i] = y
          PROVE  y \in ToSet(s) /\ y # s[k]
      <4>1. i # k
        BY <1>0
      <4> QED
        BY <1>1, <1>5, <2>0, <3>1, <4>1
    <3>2. ASSUME NEW i \in 1..(Len(s) - k), b[i] = y
          PROVE  y \in ToSet(s) /\ y # s[k]
      <4>1. k + i # k
        BY <1>0
      <4> QED
        BY <1>2, <1>5, <2>0, <3>2, <4>1
    <3> QED
      BY <1>5, <2>4, <3>1, <3>2
  <2>5. ASSUME NEW y \in ToSet(s) \ {s[k]}
        PROVE  y \in ToSet(a) \cup ToSet(b)
    <3>1. PICK i \in 1..Len(s) : s[i] = y
      BY <1>5, <2>5
    <3>2. CASE i < k
      <4>1. i \in 1..(k - 1)
        BY <1>0, <3>2
      <4> QED
        BY <1>1, <1>5, <3>1, <4>1
    <3>3. CASE i > k
      <4>1. i - k \in 1..(Len(s) - k) /\ k + (i - k) = i
        BY <1>0, <3>3
      <4> QED
        BY <1>2, <1>5, <3>1, <4>1
    <3>4. i # k
      BY <2>5, <3>1
    <3> QED
      BY <1>0, <3>2, <3>3, <3>4
  <2> QED
    BY <2>1, <2>2, <2>3, <2>4, <2>5
<1> QED
  BY <1>3, <1>4, <1>6

-----------------------------------------------------------------------------
(***************************************************************************)
(* Completions                                                             *)
(***************************************************************************)
LEMMA InCompletions ==
    ASSUME NEW w \in Seq(Completions)
    PROVE  /\ Len(w) \in Nat /\ DOMAIN w = 1..Len(w)
           /\ \A k \in 1..Len(w) : w[k] \in Completions
           /\ \A x : x \in GoodIds(w) <=> x # BadId /\ \E k \in 1..Len(w) : w[k].id = x
           /\ GoodIds(w) \subseteq Ids
<1>1. /\ Len(w) \in Nat /\ DOMAIN w = 1..Len(w)
      /\ \A k \in 1..Len(w) : w[k] \in Completions
  BY LenProperties, ElementOfSeq
<1> QED
  BY <1>1 DEF GoodIds, Completions

LEMMA AppendCompletion ==
    ASSUME NEW w \in Seq(Completions), NEW c \in Completions
    PROVE  /\ Append(w, c) \in Seq(Completions)
           /\ GoodIds(Append(w, c)) = GoodIds(w) \cup ({c.id} \ {BadId})
           /\ Distinct(w) /\ c.id \notin GoodIds(w) => Distinct(Append(w, c))
<1> DEFINE t == Append(w, c)
<1>1. /\ t \in Seq(Completions) /\ Len(t) = Len(w) + 1
      /\ \A k \in 1..Len(w) : t[k] = w[k]
      /\ t[Len(w) + 1] = c
  BY AppendProperties, LenProperties
<1> HIDE DEF t
<1>2. /\ Len(w) \in Nat /\ DOMAIN w = 1..Len(w) /\ DOMAIN t = 1..Len(t)
      /\ \A x : x \in GoodIds(w) <=> x # BadId /\ \E k \in 1..Len(w) : w[k].id = x
      /\ \A x : x \in GoodIds(t) <=> x # BadId /\ \E k \in 1..Len(t) : t[k].id = x
  BY <1>1, InCompletions
<1>3. /\ \A k \in 1..Len(t) : k \in 1..Len(w) \/ k = Len(w) + 1
      /\ \A k \in 1..Len(w) : k \in 1..Len(t)
      /\ Len(w) + 1 \in 1..Len(t)
  BY <1>1, <1>2
<1>4. ASSUME NEW x
      PROVE  x \in GoodIds(t) <=> x \in GoodIds(w) \cup ({c.id} \ {BadId})
  BY <1>1, <1>2, <1>3
<1>5. ASSUME Distinct(w), c.id \notin GoodIds(w)
      PROVE  Distinct(t)
  <2> SUFFICES ASSUME NEW i \in 1..Len(t), NEW j \in 1..Len(t), t[i].id = t[j].id,
                      t[i].id # BadId
               PROVE  i = j
    BY <1>2 DEF Distinct
  <2>1. CASE i \in 1..Len(w) /\ j \in 1..Len(w)
    BY <1>1, <1>2, <1>5, <2>1 DEF Distinct
  <2>2. CASE i = Len(w) + 1 \/ j = Len(w) + 1
    BY <1>1, <1>2, <1>3, <1>5, <2>2
  <2> QED
    BY <1>3, <2>1, <2>2
<1> QED
  BY <1>1, <1>4, <1>5 DEF t

\* The completions up to n and those from there on.
LEMMA SplitCompletions ==
    ASSUME NEW w \in Seq(Completions), NEW n \in 0..Len(w)
    PROVE  LET u == SubSeq(w, 1, n)
               v == SubSeq(w, n + 1, Len(w))
           IN  /\ u \in Seq(Completions) /\ v \in Seq(Completions) /\ Len(u) = n
               /\ \A k \in 1..n : u[k] = w[k]
               /\ GoodIds(w) = GoodIds(u) \cup GoodIds(v)
               /\ Distinct(w) => /\ Distinct(u) /\ Distinct(v)
                                 /\ GoodIds(u) \cap GoodIds(v) = {}
<1> DEFINE u == SubSeq(w, 1, n)
           v == SubSeq(w, n + 1, Len(w))
           l == Len(w) - n
<1>0. Len(w) \in Nat /\ DOMAIN w = 1..Len(w) /\ n \in Nat /\ l \in Nat
  BY InCompletions
<1>1. /\ u \in Seq(Completions) /\ Len(u) = n
      /\ \A k \in 1..n : u[k] = w[k] /\ k \in 1..Len(w)
  BY FrontAndRest
<1>2. /\ v \in Seq(Completions) /\ Len(v) = l
      /\ \A k \in 1..l : v[k] = w[n + k] /\ n + k \in 1..Len(w)
  BY FrontAndRest
<1>3. \A k \in 1..Len(w) : k \in 1..n \/ \E j \in 1..l : k = n + j
  <2> SUFFICES ASSUME NEW k \in 1..Len(w), k \notin 1..n
               PROVE  \E j \in 1..l : k = n + j
    OBVIOUS
  <2>1. k - n \in 1..l /\ k = n + (k - n)
    BY <1>0
  <2> QED
    BY <2>1
<1>4. l = Len(w) - n
  OBVIOUS
<1> HIDE DEF u, v, l
<1>5. /\ DOMAIN u = 1..n /\ DOMAIN v = 1..l
      /\ \A x : x \in GoodIds(w) <=> x # BadId /\ \E k \in 1..Len(w) : w[k].id = x
      /\ \A x : x \in GoodIds(u) <=> x # BadId /\ \E k \in 1..n : u[k].id = x
      /\ \A x : x \in GoodIds(v) <=> x # BadId /\ \E k \in 1..l : v[k].id = x
  BY <1>1, <1>2, InCompletions
<1>6. GoodIds(w) = GoodIds(u) \cup GoodIds(v)
  <2>1. ASSUME NEW x \in GoodIds(w)
        PROVE  x \in GoodIds(u) \cup GoodIds(v)
    <3>1. PICK k \in 1..Len(w) : w[k].id = x
      BY <1>5
    <3>2. ASSUME k \in 1..n
          PROVE  x \in GoodIds(u)
      BY <1>1, <1>5, <2>1, <3>1, <3>2
    <3>3. ASSUME NEW j \in 1..l, k = n + j
          PROVE  x \in GoodIds(v)
      BY <1>2, <1>5, <2>1, <3>1, <3>3
    <3> QED
      BY <1>3, <3>2, <3>3
  <2>2. \A x \in GoodIds(u) : x \in GoodIds(w)
    BY <1>1, <1>5
  <2>3. ASSUME NEW x \in GoodIds(v)
        PROVE  x \in GoodIds(w)
    <3>1. PICK k \in 1..l : v[k].id = x
      BY <1>5
    <3>2. n + k \in 1..Len(w) /\ w[n + k].id = x /\ x # BadId
      BY <1>2, <1>5, <3>1
    <3> QED
      BY <1>5, <3>2
  <2> QED
    BY <2>1, <2>2, <2>3
<1>7. ASSUME Distinct(w)
      PROVE  Distinct(u) /\ Distinct(v) /\ GoodIds(u) \cap GoodIds(v) = {}
  <2>0. \A i, j \in 1..Len(w) : w[i].id = w[j].id /\ w[i].id # BadId => i = j
    BY <1>0, <1>7 DEF Distinct
  <2>1. Distinct(u)
    BY <1>1, <1>5, <2>0 DEF Distinct
  <2>2. Distinct(v)
    <3> SUFFICES ASSUME NEW i \in 1..l, NEW j \in 1..l, v[i].id = v[j].id, v[i].id # BadId
                 PROVE  i = j
      BY <1>5 DEF Distinct
    <3>1. n + i = n + j
      BY <1>2, <2>0
    <3> QED
      BY <1>0, <3>1
  <2>3. GoodIds(u) \cap GoodIds(v) = {}
    <3> SUFFICES ASSUME NEW i \in 1..n, NEW j \in 1..l, u[i].id = v[j].id, u[i].id # BadId
                 PROVE  FALSE
      BY <1>5
    <3>1. i = n + j
      BY <1>1, <1>2, <2>0
    <3> QED
      BY <1>0, <3>1
  <2> QED
    BY <2>1, <2>2, <2>3
<1> QED
  BY <1>1, <1>2, <1>6, <1>7 DEF u, v

-----------------------------------------------------------------------------
(***************************************************************************)
(* Counting holders                                                        *)
(***************************************************************************)
LEMMA Without ==
    ASSUME NEW A, IsFiniteSet(A), NEW B \in SUBSET A
    PROVE  /\ IsFiniteSet(A \ B) /\ IsFiniteSet(B)
           /\ Cardinality(A) \in Nat /\ Cardinality(B) \in Nat
           /\ Cardinality(B) <= Cardinality(A)
           /\ Cardinality(A \ B) = Cardinality(A) - Cardinality(B)
<1>1. IsFiniteSet(B) /\ Cardinality(B) <= Cardinality(A)
  BY FS_Subset
<1>2. A \cap B = B
  OBVIOUS
<1>3. IsFiniteSet(A \ B) /\ Cardinality(A \ B) = Cardinality(A) - Cardinality(A \cap B)
  BY FS_Difference
<1> QED
  BY <1>1, <1>2, <1>3, FS_CardinalityType

LEMMA With ==
    ASSUME NEW A, IsFiniteSet(A), NEW x, x \notin A
    PROVE  /\ IsFiniteSet(A \cup {x}) /\ Cardinality(A) \in Nat
           /\ Cardinality(A \cup {x}) = Cardinality(A) + 1
  BY FS_AddElement, FS_CardinalityType

LEMMA HoldersFinite ==
    ASSUME NEW m, NEW info, NEW st, Typed(m, info, st), NEW p \in Pages
    PROVE  /\ IsFiniteSet(At(info, p)) /\ Cardinality(At(info, p)) \in Nat
           /\ IsFiniteSet(CachedAt(m, p)) /\ Cardinality(CachedAt(m, p)) \in Nat
           /\ IsFiniteSet(PartsOf(st, p)) /\ Cardinality(PartsOf(st, p)) \in Nat
<1>1. IsFiniteSet(At(info, p))
  <2>1. IsFiniteSet(Ids) /\ At(info, p) \in SUBSET Ids
    BY FS_Interval, RingSizeAssumption DEF Ids, At
  <2> QED
    BY <2>1, FS_Subset
<1>2. IsFiniteSet(CachedAt(m, p))
  <2>1. m.cache \in Seq(Pages)
    BY DEF Typed, Memories
  <2>2. DOMAIN m.cache = 1..Len(m.cache) /\ Len(m.cache) \in Nat
    BY <2>1, LenProperties
  <2>3. IsFiniteSet(1..Len(m.cache)) /\ CachedAt(m, p) \in SUBSET (1..Len(m.cache))
    BY <2>2, FS_Interval DEF CachedAt
  <2> QED
    BY <2>3, FS_Subset
<1>3. IsFiniteSet(PartsOf(st, p))
  <2> DEFINE x == [page |-> p, halves |-> {0}]
             y == [page |-> p, halves |-> {1}]
             z == [page |-> p, halves |-> {0, 1}]
  <2>1. PartsOf(st, p) \in SUBSET (({x} \cup {y}) \cup {z})
    BY DEF PartsOf, Typed, Parts, HalfSets
  <2> HIDE DEF x, y, z
  <2>2. IsFiniteSet(({x} \cup {y}) \cup {z})
    BY FS_Singleton, FS_AddElement
  <2> QED
    BY <2>1, <2>2, FS_Subset
<1> QED
  BY <1>1, <1>2, <1>3, FS_CardinalityType

\* What the operators that release and keep make of the memory, field by field.
LEMMA FreedFields ==
    ASSUME NEW m \in Memories, NEW ids \in SUBSET Ids
    PROVE  /\ FreeRxPages(m, ids) = [refs |-> [p \in Pages |-> m.refs[p] - Cardinality(Holding(ids, p))],
                                    mapped |-> Unmapped(m, ids).mapped, cache |-> m.cache,
                                    head |-> m.head, error |-> m.error]
           /\ Unmapped(m, ids) = [refs |-> m.refs, mapped |-> Unmapped(m, ids).mapped,
                                 cache |-> m.cache, head |-> m.head, error |-> m.error]
           /\ Unmapped(m, ids).mapped \in SUBSET Pages
           /\ MoreRefs(m, ids) = [refs |-> [p \in Pages |-> m.refs[p] + Cardinality(Holding(ids, p))],
                                 mapped |-> m.mapped, cache |-> m.cache,
                                 head |-> m.head, error |-> m.error]
<1> DEFINE gone == {rx_info[i].page : i \in {j \in ids : ~rx_info[j].lpc}}
           fewer == [p \in Pages |-> m.refs[p] - Cardinality(Holding(ids, p))]
           more == [p \in Pages |-> m.refs[p] + Cardinality(Holding(ids, p))]
<1>1. Unmapped(m, ids) = [m EXCEPT !.mapped = m.mapped \ gone]
  BY DEF Unmapped
<1>2. /\ FreeRxPages(m, ids) = [Unmapped(m, ids) EXCEPT !.refs = [p \in Pages |->
                                  Unmapped(m, ids).refs[p] - Cardinality(Holding(ids, p))]]
      /\ MoreRefs(m, ids) = [m EXCEPT !.refs = more]
  BY DEF FreeRxPages, MoreRefs
<1> HIDE DEF gone, more
<1>3. Unmapped(m, ids) = [refs |-> m.refs, mapped |-> m.mapped \ gone, cache |-> m.cache,
                          head |-> m.head, error |-> m.error]
  BY <1>1 DEF Memories
<1>4. /\ Unmapped(m, ids).refs = m.refs /\ Unmapped(m, ids).mapped = m.mapped \ gone
      /\ m.mapped \ gone \in SUBSET Pages
  BY <1>3 DEF Memories
<1>5. FreeRxPages(m, ids) = [refs |-> fewer, mapped |-> m.mapped \ gone, cache |-> m.cache,
                             head |-> m.head, error |-> m.error]
  <2>1. FreeRxPages(m, ids) = [Unmapped(m, ids) EXCEPT !.refs = fewer]
    BY <1>2, <1>4
  <2> HIDE DEF fewer
  <2> QED
    BY <1>3, <2>1
<1>6. MoreRefs(m, ids) = [refs |-> more, mapped |-> m.mapped, cache |-> m.cache,
                          head |-> m.head, error |-> m.error]
  BY <1>2 DEF Memories
<1> QED
  BY <1>3, <1>4, <1>5, <1>6 DEF more

LEMMA EmptiedAt ==
    ASSUME NEW info \in [Ids -> Buffers], NEW ids \in SUBSET Ids,
           \A i \in ids : info[i] = rx_info[i], NEW p \in Pages
    PROVE  /\ Emptied(info, ids) \in [Ids -> Buffers]
           /\ At(Emptied(info, ids), p) = At(info, p) \ Holding(ids, p)
           /\ Holding(ids, p) \in SUBSET At(info, p)
<1>1. NoBuffer \in Buffers /\ NoBuffer.page # p
  BY PagesAssumption DEF NoBuffer, Buffers, Halves
<1>2. Emptied(info, ids) \in [Ids -> Buffers]
  BY <1>1 DEF Emptied
<1>3. Holding(ids, p) \in SUBSET At(info, p)
  BY DEF Holding, At
<1>4. At(Emptied(info, ids), p) = At(info, p) \ Holding(ids, p)
  BY <1>1 DEF Holding, At, Emptied
<1> QED
  BY <1>2, <1>3, <1>4

LEMMA ReleasedSound ==
    ASSUME NEW o, Sound(o.mem, o.rx_info, o.stack), NEW ids \in SUBSET Ids,
           \A i \in ids : o.rx_info[i] = rx_info[i]
    PROVE  LET r == Released(o, ids)
           IN  /\ r = [mem |-> FreeRxPages(o.mem, ids), rx_info |-> Emptied(o.rx_info, ids),
                       stack |-> o.stack]
               /\ Sound(r.mem, r.rx_info, r.stack)
<1> DEFINE m == o.mem
           info == o.rx_info
           st == o.stack
           m2 == FreeRxPages(m, ids)
           info2 == Emptied(info, ids)
<1>1. Typed(m, info, st) /\ CacheFits(m) /\ Counted(m, info, st) /\ Owned(info, st)
  BY DEF Sound
<1>2. /\ m \in Memories /\ info \in [Ids -> Buffers] /\ st \in SUBSET Parts
      /\ \A i \in ids : info[i] = rx_info[i]
  BY <1>1 DEF Typed
<1>3. Released(o, ids) = [mem |-> m2, rx_info |-> info2, stack |-> st]
  BY DEF Released
<1> HIDE DEF m, info, st, m2, info2
<1>4. /\ m2 = [refs |-> [p \in Pages |-> m.refs[p] - Cardinality(Holding(ids, p))],
               mapped |-> Unmapped(m, ids).mapped, cache |-> m.cache,
               head |-> m.head, error |-> m.error]
      /\ Unmapped(m, ids).mapped \in SUBSET Pages
  BY <1>2, FreedFields DEF m2
<1>5. ASSUME NEW p \in Pages
      PROVE  /\ info2 \in [Ids -> Buffers]
             /\ At(info2, p) = At(info, p) \ Holding(ids, p)
             /\ Holding(ids, p) \in SUBSET At(info, p)
  BY <1>2, EmptiedAt DEF info2
<1>6. info2 \in [Ids -> Buffers]
  BY <1>2, PagesAssumption DEF info2, Emptied, NoBuffer, Buffers, Halves
<1>7. ASSUME NEW p \in Pages
      PROVE  /\ m2.refs[p] \in Nat
             /\ m2.refs[p] = Cardinality(At(info2, p)) + Cardinality(CachedAt(m2, p))
                              + Cardinality(PartsOf(st, p))
  <2>1. /\ IsFiniteSet(At(info, p)) /\ Cardinality(CachedAt(m, p)) \in Nat
        /\ Cardinality(PartsOf(st, p)) \in Nat
    BY <1>1, HoldersFinite
  <2>2. /\ Cardinality(At(info, p)) \in Nat /\ Cardinality(Holding(ids, p)) \in Nat
        /\ Cardinality(Holding(ids, p)) <= Cardinality(At(info, p))
        /\ Cardinality(At(info2, p)) = Cardinality(At(info, p)) - Cardinality(Holding(ids, p))
    BY <1>5, <2>1, Without
  <2>3. CachedAt(m2, p) = CachedAt(m, p)
    BY <1>4 DEF CachedAt
  <2>4. m.refs[p] = Cardinality(At(info, p)) + Cardinality(CachedAt(m, p))
                    + Cardinality(PartsOf(st, p))
    BY <1>1 DEF Counted
  <2>5. m2.refs[p] = m.refs[p] - Cardinality(Holding(ids, p))
    BY <1>4
  <2> QED
    BY <2>1, <2>2, <2>3, <2>4, <2>5
<1>8. Typed(m2, info2, st)
  <2>1. m2.refs \in [Pages -> Nat]
    BY <1>4, <1>7
  <2> QED
    BY <1>2, <1>4, <1>6, <2>1 DEF Typed, Memories
<1>9. CacheFits(m2)
  BY <1>1, <1>4 DEF CacheFits
<1>10. Owned(info2, st)
  <2>1. \A i \in Ids : info2[i] = NoBuffer \/ info2[i] = info[i]
    BY DEF info2, Emptied
  <2>2. NoBuffer.page = NoPage /\ \A s \in st : s.page # NoPage
    BY <1>2, PagesAssumption DEF NoBuffer, Parts
  <2> QED
    BY <1>1, <2>1, <2>2 DEF Owned
<1>11. Counted(m2, info2, st)
  BY <1>7 DEF Counted
<1> QED
  BY <1>3, <1>8, <1>9, <1>10, <1>11 DEF Sound, m, info, st, m2, info2

\* A page has at most one buffer.
LEMMA OneHolding ==
    ASSUME NEW info \in [Ids -> Buffers], NEW st, Owned(info, st), NEW ids \in SUBSET Ids,
           \A i \in ids : info[i] = rx_info[i], NEW p \in Pages
    PROVE  \/ Holding(ids, p) = {} /\ Cardinality(Holding(ids, p)) = 0
           \/ \E i \in ids : /\ rx_info[i].page = p /\ Holding(ids, p) = {i}
                             /\ Cardinality(Holding(ids, p)) = 1
<1>1. \A i, j \in Holding(ids, p) : i = j
  BY PagesAssumption DEF Holding, Owned
<1>2. CASE Holding(ids, p) = {}
  BY <1>2, FS_EmptySet
<1>3. CASE Holding(ids, p) # {}
  <2>1. PICK i \in Holding(ids, p) : TRUE
    BY <1>3
  <2>2. Holding(ids, p) = {i} /\ i \in ids /\ rx_info[i].page = p
    BY <1>1, <2>1 DEF Holding
  <2> QED
    BY <2>2, FS_Singleton
<1> QED
  BY <1>2, <1>3

LEMMA SharedSound ==
    ASSUME NEW o, Sound(o.mem, o.rx_info, o.stack), NEW ids \in SUBSET Ids,
           \A i \in ids : /\ o.rx_info[i] = rx_info[i] /\ rx_info[i].half = 0
                          /\ rx_info[i].page # NoPage
    PROVE  LET r == Shared(o, ids)
           IN  /\ Sound(r.mem, r.rx_info, r.stack)
               /\ \A i \in Ids \ ids : r.rx_info[i] = o.rx_info[i]
               /\ \A i \in Ids : r.rx_info[i].page = o.rx_info[i].page
<1> DEFINE m == o.mem
           info == o.rx_info
           st == o.stack
           m2 == MoreRefs(m, ids)
           info2 == [i \in Ids |-> IF i \in ids THEN [info[i] EXCEPT !.half = 1] ELSE info[i]]
           st2 == st \cup FirstHalves(ids)
<1>1. Typed(m, info, st) /\ CacheFits(m) /\ Counted(m, info, st) /\ Owned(info, st)
  BY DEF Sound
<1>2. /\ m \in Memories /\ info \in [Ids -> Buffers] /\ st \in SUBSET Parts
      /\ \A i \in ids : /\ info[i] = rx_info[i] /\ rx_info[i].half = 0
                        /\ rx_info[i].page \in Pages
  <2>1. \A i \in Ids : info[i] \in Buffers
    BY <1>1 DEF Typed
  <2> QED
    BY <1>1, <2>1 DEF Typed, Buffers
<1>3. Shared(o, ids) = [mem |-> m2, rx_info |-> info2, stack |-> st2]
  BY DEF Shared
<1> HIDE DEF m, info, st, m2
<1>4. m2 = [refs |-> [p \in Pages |-> m.refs[p] + Cardinality(Holding(ids, p))],
            mapped |-> m.mapped, cache |-> m.cache, head |-> m.head, error |-> m.error]
  BY <1>2, FreedFields DEF m2
<1>5. /\ info2 \in [Ids -> Buffers]
      /\ \A i \in Ids : /\ info2[i].page = info[i].page
                        /\ i \notin ids => info2[i] = info[i]
                        /\ i \in ids => info2[i].half = 1
                        /\ info[i].half = 1 => info2[i].half = 1
  BY <1>2 DEF Buffers, Halves
<1> HIDE DEF info2
<1>6. st2 \in SUBSET Parts
  BY <1>2 DEF st2, FirstHalves, Parts, HalfSets
<1>7. \A x : x \in st2 <=> \/ x \in st
                         \/ \E i \in ids : x = [page |-> rx_info[i].page, halves |-> {0}]
  BY DEF st2, FirstHalves
<1> HIDE DEF st2
<1>8. \A i \in ids, s \in st : s.page # rx_info[i].page
  BY <1>1, <1>2 DEF Owned
<1>9. ASSUME NEW p \in Pages
      PROVE  /\ m2.refs[p] \in Nat
             /\ m2.refs[p] = Cardinality(At(info2, p)) + Cardinality(CachedAt(m2, p))
                              + Cardinality(PartsOf(st2, p))
  <2>1. /\ Cardinality(At(info, p)) \in Nat /\ Cardinality(CachedAt(m, p)) \in Nat
        /\ IsFiniteSet(PartsOf(st, p)) /\ Cardinality(PartsOf(st, p)) \in Nat
    BY <1>1, HoldersFinite
  <2>2. At(info2, p) = At(info, p)
    BY <1>5 DEF At
  <2>3. CachedAt(m2, p) = CachedAt(m, p)
    BY <1>4 DEF CachedAt
  <2>4. m.refs[p] = Cardinality(At(info, p)) + Cardinality(CachedAt(m, p))
                    + Cardinality(PartsOf(st, p))
    BY <1>1 DEF Counted
  <2>5. m2.refs[p] = m.refs[p] + Cardinality(Holding(ids, p))
    BY <1>4
  <2>6. /\ Cardinality(Holding(ids, p)) \in Nat
        /\ Cardinality(PartsOf(st2, p)) = Cardinality(PartsOf(st, p)) + Cardinality(Holding(ids, p))
    <3>1. CASE Holding(ids, p) = {} /\ Cardinality(Holding(ids, p)) = 0
      <4>1. PartsOf(st2, p) = PartsOf(st, p)
        BY <1>7, <3>1 DEF PartsOf, Holding
      <4> QED
        BY <2>1, <3>1, <4>1
    <3>2. ASSUME NEW i \in ids, rx_info[i].page = p, Holding(ids, p) = {i},
                 Cardinality(Holding(ids, p)) = 1
          PROVE  /\ Cardinality(Holding(ids, p)) \in Nat
                 /\ Cardinality(PartsOf(st2, p)) =
                      Cardinality(PartsOf(st, p)) + Cardinality(Holding(ids, p))
      <4> DEFINE x == [page |-> p, halves |-> {0}]
      <4>1. PartsOf(st2, p) = PartsOf(st, p) \cup {x} /\ x \notin PartsOf(st, p)
        BY <1>7, <1>8, <3>2 DEF PartsOf
      <4> HIDE DEF x
      <4> QED
        BY <2>1, <3>2, <4>1, With
    <3>3. \/ Holding(ids, p) = {} /\ Cardinality(Holding(ids, p)) = 0
          \/ \E i \in ids : /\ rx_info[i].page = p /\ Holding(ids, p) = {i}
                            /\ Cardinality(Holding(ids, p)) = 1
      BY <1>1, <1>2, OneHolding
    <3> QED
      BY <3>1, <3>2, <3>3
  <2> QED
    BY <2>1, <2>2, <2>3, <2>4, <2>5, <2>6
<1>10. Typed(m2, info2, st2)
  <2>1. m2.refs \in [Pages -> Nat]
    BY <1>4, <1>9
  <2> QED
    BY <1>2, <1>4, <1>5, <1>6, <2>1 DEF Typed, Memories
<1>11. CacheFits(m2)
  BY <1>1, <1>4 DEF CacheFits
<1>12. Owned(info2, st2)
  <2>1. \A i, j \in Ids : info2[i].page = info2[j].page /\ info2[i].page # NoPage => i = j
    BY <1>1, <1>5 DEF Owned
  <2>2. ASSUME NEW i \in Ids, NEW s \in st2, info2[i].page = s.page
        PROVE  info2[i].half = 1 /\ 1 \notin s.halves
    <3>1. CASE s \in st
      BY <1>1, <1>5, <2>2, <3>1 DEF Owned
    <3>2. ASSUME NEW j \in ids, s = [page |-> rx_info[j].page, halves |-> {0}]
          PROVE  info2[i].half = 1 /\ 1 \notin s.halves
      <4>1. i = j
        BY <1>2, <1>5, <2>1, <2>2, <3>2, PagesAssumption
      <4> QED
        BY <1>5, <3>2, <4>1
    <3> QED
      BY <1>7, <3>1, <3>2
  <2>3. ASSUME NEW s \in st2, NEW t \in st2, s.page = t.page, s.halves \cap t.halves # {}
        PROVE  s = t
    <3>1. CASE s \in st /\ t \in st
      BY <1>1, <2>3, <3>1 DEF Owned
    <3>2. ASSUME NEW i \in ids, s = [page |-> rx_info[i].page, halves |-> {0}], t \in st
          PROVE  FALSE
      BY <1>8, <2>3, <3>2
    <3>3. ASSUME NEW i \in ids, t = [page |-> rx_info[i].page, halves |-> {0}], s \in st
          PROVE  FALSE
      BY <1>8, <2>3, <3>3
    <3>4. ASSUME NEW i \in ids, NEW j \in ids, s = [page |-> rx_info[i].page, halves |-> {0}],
                 t = [page |-> rx_info[j].page, halves |-> {0}]
          PROVE  s = t
      BY <2>3, <3>4
    <3> QED
      BY <1>7, <3>1, <3>2, <3>3, <3>4
  <2> QED
    BY <2>1, <2>2, <2>3 DEF Owned
<1>13. Counted(m2, info2, st2)
  BY <1>9 DEF Counted
<1> QED
  BY <1>3, <1>5, <1>10, <1>11, <1>12, <1>13 DEF Sound, info

LEMMA GivenSound ==
    ASSUME NEW o, Sound(o.mem, o.rx_info, o.stack), NEW ids \in SUBSET Ids,
           \A i \in ids : o.rx_info[i] = rx_info[i] /\ rx_info[i].page # NoPage
    PROVE  LET r == Given(o, ids)
           IN  Sound(r.mem, r.rx_info, r.stack)
<1> DEFINE m == o.mem
           info == o.rx_info
           st == o.stack
           m2 == Unmapped(m, ids)
           info2 == Emptied(info, ids)
           part(i) == [page |-> rx_info[i].page, halves |-> Rest(rx_info[i])]
           st2 == st \cup {part(i) : i \in ids}
<1>1. Typed(m, info, st) /\ CacheFits(m) /\ Counted(m, info, st) /\ Owned(info, st)
  BY DEF Sound
<1>2. /\ m \in Memories /\ info \in [Ids -> Buffers] /\ st \in SUBSET Parts
      /\ \A i \in ids : /\ info[i] = rx_info[i] /\ rx_info[i].half \in Halves
                        /\ rx_info[i].page \in Pages
  <2>1. \A i \in Ids : info[i] \in Buffers
    BY <1>1 DEF Typed
  <2> QED
    BY <1>1, <2>1 DEF Typed, Buffers
<1>3. Given(o, ids) = [mem |-> m2, rx_info |-> info2, stack |-> st2]
  BY DEF Given
<1> HIDE DEF m, info, st, m2, info2
<1>4. /\ m2 = [refs |-> m.refs, mapped |-> Unmapped(m, ids).mapped, cache |-> m.cache,
               head |-> m.head, error |-> m.error]
      /\ Unmapped(m, ids).mapped \in SUBSET Pages
  BY <1>2, FreedFields DEF m2
<1>5. /\ info2 \in [Ids -> Buffers]
      /\ \A i \in Ids : i \notin ids => info2[i] = info[i]
      /\ \A i \in ids : info2[i].page = NoPage
  BY <1>2, PagesAssumption DEF info2, Emptied, NoBuffer, Buffers, Halves
<1>6. ASSUME NEW i \in ids
      PROVE  /\ part(i).page = rx_info[i].page /\ part(i).page \in Pages
             /\ part(i) \in Parts /\ 1 \in part(i).halves
             /\ rx_info[i].half = 1 => part(i).halves = {1}
  <2>1. rx_info[i].half \in {0, 1} /\ rx_info[i].page \in Pages
    BY <1>2 DEF Halves
  <2>2. Rest(rx_info[i]) = IF rx_info[i].half = 0 THEN {0, 1} ELSE {1}
    BY <2>1 DEF Rest, Halves
  <2> QED
    BY <2>1, <2>2 DEF Parts, HalfSets
<1>7. \A x : x \in st2 <=> x \in st \/ \E i \in ids : x = part(i)
  OBVIOUS
<1> HIDE DEF st2, part
<1>8. ASSUME NEW i \in ids, NEW s \in st, s.page = rx_info[i].page
      PROVE  rx_info[i].half = 1 /\ 1 \notin s.halves
  BY <1>1, <1>2, <1>8 DEF Owned
<1>9. st2 \in SUBSET Parts
  BY <1>2, <1>6, <1>7
<1>10. ASSUME NEW p \in Pages
       PROVE  /\ m2.refs[p] \in Nat
              /\ m2.refs[p] = Cardinality(At(info2, p)) + Cardinality(CachedAt(m2, p))
                               + Cardinality(PartsOf(st2, p))
  <2>1. /\ IsFiniteSet(At(info, p)) /\ Cardinality(CachedAt(m, p)) \in Nat
        /\ IsFiniteSet(PartsOf(st, p)) /\ Cardinality(PartsOf(st, p)) \in Nat
    BY <1>1, HoldersFinite
  <2>2. /\ At(info2, p) = At(info, p) \ Holding(ids, p)
        /\ Holding(ids, p) \in SUBSET At(info, p)
    BY <1>2, EmptiedAt DEF info2
  <2>3. /\ Cardinality(At(info, p)) \in Nat /\ Cardinality(Holding(ids, p)) \in Nat
        /\ Cardinality(Holding(ids, p)) <= Cardinality(At(info, p))
        /\ Cardinality(At(info2, p)) = Cardinality(At(info, p)) - Cardinality(Holding(ids, p))
    BY <2>1, <2>2, Without
  <2>4. CachedAt(m2, p) = CachedAt(m, p)
    BY <1>4 DEF CachedAt
  <2>5. m.refs[p] = Cardinality(At(info, p)) + Cardinality(CachedAt(m, p))
                    + Cardinality(PartsOf(st, p))
    BY <1>1 DEF Counted
  <2>6. m2.refs[p] = m.refs[p]
    BY <1>4
  <2>7. Cardinality(PartsOf(st2, p)) = Cardinality(PartsOf(st, p)) + Cardinality(Holding(ids, p))
    <3>1. CASE Holding(ids, p) = {} /\ Cardinality(Holding(ids, p)) = 0
      <4>1. PartsOf(st2, p) = PartsOf(st, p)
        BY <1>6, <1>7, <3>1 DEF PartsOf, Holding
      <4> QED
        BY <2>1, <3>1, <4>1
    <3>2. ASSUME NEW i \in ids, rx_info[i].page = p, Holding(ids, p) = {i},
                 Cardinality(Holding(ids, p)) = 1
          PROVE  Cardinality(PartsOf(st2, p)) =
                   Cardinality(PartsOf(st, p)) + Cardinality(Holding(ids, p))
      <4>1. part(i) \notin PartsOf(st, p)
        BY <1>6, <1>8 DEF PartsOf
      <4>2. \A j \in ids : part(j).page = p => j = i
        BY <1>6, <3>2 DEF Holding
      <4>3. PartsOf(st2, p) = PartsOf(st, p) \cup {part(i)}
        BY <1>6, <1>7, <3>2, <4>2 DEF PartsOf
      <4> QED
        BY <2>1, <3>2, <4>1, <4>3, With
    <3>3. \/ Holding(ids, p) = {} /\ Cardinality(Holding(ids, p)) = 0
          \/ \E i \in ids : /\ rx_info[i].page = p /\ Holding(ids, p) = {i}
                            /\ Cardinality(Holding(ids, p)) = 1
      BY <1>1, <1>2, OneHolding
    <3> QED
      BY <3>1, <3>2, <3>3
  <2>8. m.refs[p] \in Nat
    BY <1>2 DEF Memories
  <2> QED
    BY <2>1, <2>3, <2>4, <2>5, <2>6, <2>7, <2>8
<1>11. Typed(m2, info2, st2)
  <2>1. m2.refs \in [Pages -> Nat]
    BY <1>2, <1>4 DEF Memories
  <2> QED
    BY <1>2, <1>4, <1>5, <1>9, <2>1 DEF Typed, Memories
<1>12. CacheFits(m2)
  BY <1>1, <1>4 DEF CacheFits
<1>13. Owned(info2, st2)
  <2>1. \A i, j \in Ids : info2[i].page = info2[j].page /\ info2[i].page # NoPage => i = j
    BY <1>1, <1>5 DEF Owned
  <2>2. ASSUME NEW i \in Ids, NEW s \in st2, info2[i].page = s.page
        PROVE  info2[i].half = 1 /\ 1 \notin s.halves
    <3>1. i \notin ids /\ info2[i] = info[i] /\ s.page # NoPage
      BY <1>5, <1>9, <2>2, PagesAssumption DEF Parts
    <3>2. CASE s \in st
      BY <1>1, <2>2, <3>1, <3>2 DEF Owned
    <3>3. ASSUME NEW j \in ids, s = part(j)
          PROVE  FALSE
      <4>1. info[i].page = info[j].page /\ info[i].page # NoPage
        BY <1>2, <1>6, <2>2, <3>1, <3>3
      <4>2. i = j
        BY <1>1, <4>1 DEF Owned
      <4> QED
        BY <3>1, <4>2
    <3> QED
      BY <1>7, <3>2, <3>3
  <2>3. ASSUME NEW s \in st2, NEW t \in st2, s.page = t.page, s.halves \cap t.halves # {}
        PROVE  s = t
    <3>1. CASE s \in st /\ t \in st
      BY <1>1, <2>3, <3>1 DEF Owned
    <3>2. ASSUME NEW i \in ids, s = part(i), t \in st
          PROVE  FALSE
      BY <1>6, <1>8, <2>3, <3>2
    <3>3. ASSUME NEW i \in ids, t = part(i), s \in st
          PROVE  FALSE
      BY <1>6, <1>8, <2>3, <3>3
    <3>4. ASSUME NEW i \in ids, NEW j \in ids, s = part(i), t = part(j)
          PROVE  s = t
      <4>1. info[i].page = info[j].page /\ info[i].page # NoPage
        BY <1>2, <1>6, <2>3, <3>4, PagesAssumption
      <4>2. i = j
        BY <1>1, <4>1 DEF Owned
      <4> QED
        BY <3>4, <4>2
    <3> QED
      BY <1>7, <3>1, <3>2, <3>3, <3>4
  <2> QED
    BY <2>1, <2>2, <2>3 DEF Owned
<1>14. Counted(m2, info2, st2)
  BY <1>10 DEF Counted
<1> QED
  BY <1>3, <1>11, <1>12, <1>13, <1>14 DEF Sound

LEMMA UnmappedSound ==
    ASSUME NEW m, NEW info, NEW st, Sound(m, info, st), NEW ids \in SUBSET Ids
    PROVE  Sound(Unmapped(m, ids), info, st)
<1> DEFINE m2 == Unmapped(m, ids)
<1>1. m \in Memories
  BY DEF Sound, Typed
<1>2. /\ m2 = [refs |-> m.refs, mapped |-> Unmapped(m, ids).mapped, cache |-> m.cache,
               head |-> m.head, error |-> m.error]
      /\ Unmapped(m, ids).mapped \in SUBSET Pages
  BY <1>1, FreedFields
<1> HIDE DEF m2
<1>3. m2 \in Memories /\ m2.refs = m.refs /\ m2.cache = m.cache /\ m2.head = m.head
  BY <1>1, <1>2 DEF Memories
<1>4. Typed(m2, info, st) /\ CacheFits(m2)
  BY <1>3 DEF Sound, Typed, CacheFits
<1>5. Counted(m2, info, st)
  BY <1>3 DEF Sound, Counted, CachedAt
<1> QED
  BY <1>4, <1>5 DEF Sound, m2

-----------------------------------------------------------------------------
(***************************************************************************)
(* What a packet becomes                                                   *)
(***************************************************************************)
\* The completions of a packet NAPI takes: ids of different buffers with pages.
TakenOf(pkt) ==
    /\ pkt \in Seq(Completions) /\ pkt # << >> /\ Distinct(pkt)
    /\ BadId \notin IdsOf(pkt)
    /\ \A i \in IdsOf(pkt) : rx_info[i].page # NoPage

LEMMA PacketIds ==
    ASSUME NEW pkt, TakenOf(pkt)
    PROVE  /\ IdsOf(pkt) = GoodIds(pkt) /\ IdsOf(pkt) \in SUBSET Ids
           /\ DOMAIN pkt = 1..Len(pkt) /\ Len(pkt) \in Nat /\ Len(pkt) >= 1
           /\ \A k \in 1..Len(pkt) : pkt[k] \in Completions /\ pkt[k].id \in IdsOf(pkt)
<1>1. /\ Len(pkt) \in Nat /\ DOMAIN pkt = 1..Len(pkt) /\ GoodIds(pkt) \subseteq Ids
      /\ \A k \in 1..Len(pkt) : pkt[k] \in Completions
  BY InCompletions DEF TakenOf
<1>2. IdsOf(pkt) = GoodIds(pkt)
  BY DEF TakenOf, IdsOf, GoodIds
<1>3. Len(pkt) # 0
  BY EmptySeq DEF TakenOf
<1> QED
  BY <1>1, <1>2, <1>3 DEF IdsOf

LEMMA TrimSound ==
    ASSUME MemoryInv, NEW pkt, TakenOf(pkt), NEW t \in Trims(pkt)
    PROVE  /\ Sound(t.out.mem, t.out.rx_info, t.out.stack)
           /\ t.ids \in SUBSET IdsOf(pkt)
           /\ \A i \in t.ids : t.out.rx_info[i] = rx_info[i]
           /\ \A i \in Ids \ IdsOf(pkt) : t.out.rx_info[i] = rx_info[i]
<1>1. /\ IdsOf(pkt) = GoodIds(pkt) /\ IdsOf(pkt) \in SUBSET Ids
      /\ DOMAIN pkt = 1..Len(pkt) /\ Len(pkt) \in Nat
  BY PacketIds
<1>2. PICK n \in 1..Len(pkt) :
        t = [out |-> Released(Outcome, IdsOf(SubSeq(pkt, n + 1, Len(pkt)))),
             ids |-> IdsOf(SubSeq(pkt, 1, n))]
  BY <1>1 DEF Trims
<1> DEFINE u == SubSeq(pkt, 1, n)
           v == SubSeq(pkt, n + 1, Len(pkt))
<1>3. /\ u \in Seq(Completions) /\ v \in Seq(Completions)
      /\ GoodIds(pkt) = GoodIds(u) \cup GoodIds(v)
      /\ GoodIds(u) \cap GoodIds(v) = {}
  <2>1. n \in 0..Len(pkt) /\ pkt \in Seq(Completions) /\ Distinct(pkt)
    BY <1>1 DEF TakenOf
  <2> QED
    BY <2>1, SplitCompletions
<1>4. /\ \A k \in DOMAIN u : \E j \in DOMAIN pkt : u[k] = pkt[j]
      /\ \A k \in DOMAIN v : \E j \in DOMAIN pkt : v[k] = pkt[j]
  <2>1. n \in 0..Len(pkt) /\ pkt \in Seq(Completions)
    BY <1>1 DEF TakenOf
  <2>2. /\ Len(u) = n /\ \A k \in 1..n : u[k] = pkt[k] /\ k \in 1..Len(pkt)
        /\ Len(v) = Len(pkt) - n
        /\ \A k \in 1..(Len(pkt) - n) : v[k] = pkt[n + k] /\ n + k \in 1..Len(pkt)
    BY <2>1, FrontAndRest
  <2>3. DOMAIN u = 1..Len(u) /\ DOMAIN v = 1..Len(v)
    BY <1>3, InCompletions
  <2> QED
    BY <1>1, <2>2, <2>3
<1> HIDE DEF u, v
<1>5. IdsOf(u) = GoodIds(u) /\ IdsOf(v) = GoodIds(v)
  BY <1>4 DEF TakenOf, IdsOf, GoodIds
<1>6. t.out = Released(Outcome, IdsOf(v)) /\ t.ids = IdsOf(u)
  BY <1>2 DEF u, v
<1>7. /\ Outcome.mem = mem /\ Outcome.rx_info = rx_info /\ Outcome.stack = stack
  BY DEF Outcome
<1>8. IdsOf(v) \in SUBSET Ids
  BY <1>1, <1>3, <1>5
<1> DEFINE o == Outcome
<1>9. Sound(o.mem, o.rx_info, o.stack)
  BY <1>7 DEF MemoryInv
<1> HIDE DEF o
<1>10. LET r == Released(o, IdsOf(v))
       IN  /\ r = [mem |-> FreeRxPages(o.mem, IdsOf(v)),
                   rx_info |-> Emptied(o.rx_info, IdsOf(v)), stack |-> o.stack]
           /\ Sound(r.mem, r.rx_info, r.stack)
  <2>1. \A i \in IdsOf(v) : o.rx_info[i] = rx_info[i]
    BY <1>7 DEF o
  <2> QED
    BY <1>8, <1>9, <2>1, ReleasedSound
<1>11. t.out.rx_info = Emptied(rx_info, IdsOf(v))
  BY <1>6, <1>7, <1>10 DEF o
<1>12. \A i \in Ids \ IdsOf(v) : t.out.rx_info[i] = rx_info[i]
  BY <1>11 DEF Emptied
<1> QED
  BY <1>1, <1>3, <1>5, <1>6, <1>10, <1>12 DEF o

\* The skb path: shared or given away as a whole, copied, or left.
LEMMA StackSound ==
    ASSUME MemoryInv, NEW pkt, TakenOf(pkt)
    PROVE  LET o == ToStack(pkt)
           IN  /\ Sound(o.mem, o.rx_info, o.stack)
               /\ \A i \in Ids \ IdsOf(pkt) : o.rx_info[i] = rx_info[i]
<1> DEFINE reused == {pkt[k].id : k \in {j \in DOMAIN pkt : Reused(pkt[j])}}
           others == IdsOf(pkt) \ reused
           a == Outcome
           b == Shared(a, reused)
           c == Given(b, others)
<1>1. ToStack(pkt) = c
  BY DEF ToStack
<1>2. /\ IdsOf(pkt) \in SUBSET Ids
      /\ reused \in SUBSET IdsOf(pkt)
      /\ \A i \in reused : rx_info[i].half = 0
      /\ \A i \in IdsOf(pkt) : rx_info[i].page # NoPage
  BY PacketIds DEF IdsOf, Reused, TakenOf
<1>3. /\ Outcome.mem = mem /\ Outcome.rx_info = rx_info /\ Outcome.stack = stack
  BY DEF Outcome
<1> HIDE DEF reused
<1>4. others \in SUBSET Ids /\ others \cap reused = {} /\ reused \in SUBSET Ids
      /\ others \in SUBSET IdsOf(pkt)
  BY <1>2
<1> HIDE DEF others, a
<1>5. Sound(a.mem, a.rx_info, a.stack) /\ a.rx_info = rx_info
  BY <1>3 DEF a, MemoryInv
<1>6. /\ Sound(b.mem, b.rx_info, b.stack)
      /\ \A i \in Ids \ reused : b.rx_info[i] = a.rx_info[i]
  <2>1. \A i \in reused : /\ a.rx_info[i] = rx_info[i] /\ rx_info[i].half = 0
                          /\ rx_info[i].page # NoPage
    BY <1>2, <1>5
  <2> QED
    BY <1>4, <1>5, <2>1, SharedSound
<1> HIDE DEF b
<1>7. Sound(c.mem, c.rx_info, c.stack)
  <2>1. \A i \in others : b.rx_info[i] = rx_info[i] /\ rx_info[i].page # NoPage
    BY <1>2, <1>4, <1>5, <1>6
  <2> QED
    BY <1>4, <1>6, <2>1, GivenSound
<1>8. c.rx_info = Emptied(b.rx_info, others)
  BY DEF Given
<1>9. \A i \in Ids \ IdsOf(pkt) : c.rx_info[i] = rx_info[i]
  BY <1>2, <1>4, <1>5, <1>6, <1>8 DEF Emptied
<1> QED
  BY <1>1, <1>7, <1>9

LEMMA SkbSound ==
    ASSUME MemoryInv, NEW pkt, TakenOf(pkt),
           NEW o \in {ToStack(pkt), UnmappedForNothing(pkt)} \cup Copied(pkt) \cup {Outcome}
    PROVE  /\ Sound(o.mem, o.rx_info, o.stack)
           /\ \A i \in Ids \ IdsOf(pkt) : o.rx_info[i] = rx_info[i]
<1> DEFINE a == Outcome
           one == {pkt[1].id}
<1>1. /\ a.mem = mem /\ a.rx_info = rx_info /\ a.stack = stack
      /\ a = [mem |-> mem, rx_info |-> rx_info, stack |-> stack]
  BY DEF Outcome
<1>2. one \in SUBSET IdsOf(pkt) /\ one \in SUBSET Ids
  BY PacketIds
<1> HIDE DEF a, one
<1>3. Sound(a.mem, a.rx_info, a.stack)
  BY <1>1 DEF MemoryInv
<1>4. CASE o = ToStack(pkt)
  BY <1>4, StackSound
<1>5. CASE o = a
  BY <1>1, <1>3, <1>5
<1>6. CASE o = [a EXCEPT !.mem = Unmapped(mem, one)]
  <2>1. o.mem = Unmapped(mem, one) /\ o.rx_info = rx_info /\ o.stack = stack
    BY <1>1, <1>6
  <2> QED
    BY <1>1, <1>2, <1>3, <2>1, UnmappedSound
<1>7. CASE o = Released(a, one)
  <2>1. LET r == Released(a, one)
        IN  /\ r = [mem |-> FreeRxPages(a.mem, one),
                    rx_info |-> Emptied(a.rx_info, one), stack |-> a.stack]
            /\ Sound(r.mem, r.rx_info, r.stack)
    <3>1. \A i \in one : a.rx_info[i] = rx_info[i]
      BY <1>1
    <3> QED
      BY <1>2, <1>3, <3>1, ReleasedSound
  <2>2. o.rx_info = Emptied(rx_info, one)
    BY <1>1, <1>7, <2>1
  <2> QED
    BY <1>2, <1>7, <2>1, <2>2 DEF Emptied
<1> QED
  BY <1>4, <1>5, <1>6, <1>7 DEF UnmappedForNothing, Copied, a, one

LEMMA XdpSound ==
    ASSUME MemoryInv, NEW pkt, TakenOf(pkt), NEW t \in Trims(pkt),
           NEW o \in {Given(t.out, t.ids), Released(t.out, t.ids), t.out}
    PROVE  /\ Sound(o.mem, o.rx_info, o.stack)
           /\ \A i \in Ids \ IdsOf(pkt) : o.rx_info[i] = rx_info[i]
<1> DEFINE a == t.out
           ids == t.ids
<1>1. /\ Sound(a.mem, a.rx_info, a.stack)
      /\ ids \in SUBSET IdsOf(pkt) /\ ids \in SUBSET Ids
      /\ \A i \in ids : a.rx_info[i] = rx_info[i] /\ rx_info[i].page # NoPage
      /\ \A i \in Ids \ IdsOf(pkt) : a.rx_info[i] = rx_info[i]
  BY TrimSound, PacketIds DEF TakenOf
<1> HIDE DEF a, ids
<1>2. CASE o = a
  BY <1>1, <1>2
<1>3. CASE o = Given(a, ids)
  <2>1. Sound(o.mem, o.rx_info, o.stack)
    BY <1>1, <1>3, GivenSound
  <2>2. o.rx_info = Emptied(a.rx_info, ids)
    BY <1>3 DEF Given
  <2> QED
    BY <1>1, <2>1, <2>2 DEF Emptied
<1>4. CASE o = Released(a, ids)
  <2>1. Sound(o.mem, o.rx_info, o.stack)
    BY <1>1, <1>4, ReleasedSound
  <2>2. o.rx_info = Emptied(a.rx_info, ids)
    BY <1>4 DEF Released
  <2> QED
    BY <1>1, <2>1, <2>2 DEF Emptied
<1> QED
  BY <1>2, <1>3, <1>4 DEF a, ids

LEMMA Ends ==
    \A o : /\ GoesOn(o).out = o /\ GoesOn(o).on \in BOOLEAN
          /\ NoMemory(o).out = o /\ NoMemory(o).on \in BOOLEAN
  BY DEF GoesOn, NoMemory

\* Whatever becomes of a packet, holders and references agree, and the other buffers
\* are what they were.
LEMMA PacketSound ==
    ASSUME MemoryInv, NEW pkt, TakenOf(pkt), NEW h \in Handled(pkt) \cup NotHandled(pkt)
    PROVE  /\ Sound(h.out.mem, h.out.rx_info, h.out.stack)
           /\ \A i \in Ids \ IdsOf(pkt) : h.out.rx_info[i] = rx_info[i]
           /\ h.on \in BOOLEAN
<1>1. CASE mode = "xdp"
  <2>1. PICK t \in Trims(pkt) :
          h \in {GoesOn(Given(t.out, t.ids)), GoesOn(Released(t.out, t.ids)), GoesOn(t.out),
                 NoMemory(t.out)}
    BY <1>1 DEF Handled, NotHandled, RxXdp, RxXdpFails
  <2>2. h.out \in {Given(t.out, t.ids), Released(t.out, t.ids), t.out} /\ h.on \in BOOLEAN
    BY <2>1, Ends
  <2> DEFINE o == h.out
  <2>3. o \in {Given(t.out, t.ids), Released(t.out, t.ids), t.out}
    BY <2>2
  <2> HIDE DEF o
  <2>4. /\ Sound(o.mem, o.rx_info, o.stack)
        /\ \A i \in Ids \ IdsOf(pkt) : o.rx_info[i] = rx_info[i]
    BY <2>3, XdpSound
  <2> QED
    BY <2>2, <2>4 DEF o
<1>2. CASE mode # "xdp"
  <2>1. h \in RxSkb(pkt) \cup {RxSkbFails(pkt)}
    BY <1>2 DEF Handled, NotHandled
  <2>2. h.on \in BOOLEAN
        /\ h.out \in {ToStack(pkt), UnmappedForNothing(pkt)} \cup Copied(pkt) \cup {Outcome}
    BY <2>1, Ends DEF RxSkb, RxSkbFails
  <2> DEFINE o == h.out
  <2>3. o \in {ToStack(pkt), UnmappedForNothing(pkt)} \cup Copied(pkt) \cup {Outcome}
    BY <2>2
  <2> HIDE DEF o
  <2>4. /\ Sound(o.mem, o.rx_info, o.stack)
        /\ \A i \in Ids \ IdsOf(pkt) : o.rx_info[i] = rx_info[i]
    BY <2>3, SkbSound
  <2> QED
    BY <2>2, <2>4 DEF o
<1> QED
  BY <1>1, <1>2

-----------------------------------------------------------------------------
(***************************************************************************)
(* Pages for buffers                                                       *)
(***************************************************************************)
Empty(p) == /\ \A i \in Ids : rx_info[i].page # p
            /\ \A s \in stack : s.page # p

\* References and holders agree but for one reference to p, which is a buffer's to be.
OneMore(m, p) ==
    \A q \in Pages :
        m.refs[q] = Cardinality(At(rx_info, q)) + Cardinality(CachedAt(m, q))
                    + Cardinality(PartsOf(stack, q)) + (IF q = p THEN 1 ELSE 0)

LEMMA FilledSound ==
    ASSUME MemoryInv, NEW m \in Memories, CacheFits(m), NEW p \in Pages, OneMore(m, p), Empty(p),
           NEW c \in Ids, rx_info[c].page = NoPage,
           NEW b \in Buffers, b.page = p
    PROVE  Sound(m, [rx_info EXCEPT ![c] = b], stack)
<1> DEFINE info2 == [rx_info EXCEPT ![c] = b]
<1>1. Typed(mem, rx_info, stack) /\ Owned(rx_info, stack) /\ p # NoPage
  BY PagesAssumption DEF MemoryInv, Sound
<1>2. rx_info \in [Ids -> Buffers] /\ stack \in SUBSET Parts
  BY <1>1 DEF Typed
<1>3. /\ info2 \in [Ids -> Buffers] /\ info2[c] = b
      /\ \A i \in Ids : i # c => info2[i] = rx_info[i]
  BY <1>2
<1> HIDE DEF info2
<1>4. ASSUME NEW q \in Pages
      PROVE  Cardinality(At(info2, q)) = Cardinality(At(rx_info, q)) + (IF q = p THEN 1 ELSE 0)
  <2>1. IsFiniteSet(At(rx_info, q)) /\ Cardinality(At(rx_info, q)) \in Nat
    BY <1>1, HoldersFinite
  <2>2. c \notin At(rx_info, q)
    BY PagesAssumption DEF At
  <2>3. CASE q = p
    <3>1. At(info2, q) = At(rx_info, q) \cup {c}
      BY <1>3, <2>3 DEF At
    <3> QED
      BY <2>1, <2>2, <2>3, <3>1, With
  <2>4. CASE q # p
    <3>1. At(info2, q) = At(rx_info, q)
      BY <1>3, <2>2, <2>4 DEF At
    <3> QED
      BY <2>1, <2>4, <3>1
  <2> QED
    BY <2>3, <2>4
<1>5. Counted(m, info2, stack)
  <2> SUFFICES ASSUME NEW q \in Pages
               PROVE  m.refs[q] = Cardinality(At(info2, q)) + Cardinality(CachedAt(m, q))
                                  + Cardinality(PartsOf(stack, q))
    BY DEF Counted
  <2>1. m.refs[q] = Cardinality(At(rx_info, q)) + Cardinality(CachedAt(m, q))
                    + Cardinality(PartsOf(stack, q)) + (IF q = p THEN 1 ELSE 0)
    BY DEF OneMore
  <2>2. /\ Cardinality(At(rx_info, q)) \in Nat /\ Cardinality(CachedAt(m, q)) \in Nat
        /\ Cardinality(PartsOf(stack, q)) \in Nat
    <3>1. Typed(m, rx_info, stack)
      BY <1>2 DEF Typed
    <3> QED
      BY <3>1, HoldersFinite
  <2> QED
    BY <1>4, <2>1, <2>2
<1>6. Owned(info2, stack)
  <2>1. \A i \in Ids : i # c => rx_info[i].page # p
    BY DEF Empty
  <2>2. \A s \in stack : s.page # p
    BY DEF Empty
  <2>3. \A i \in Ids, s \in stack : info2[i].page = s.page => info2[i].half = 1 /\ 1 \notin s.halves
    BY <1>1, <1>3, <2>2 DEF Owned
  <2>4. \A i, j \in Ids : info2[i].page = info2[j].page /\ info2[i].page # NoPage => i = j
    BY <1>1, <1>3, <2>1 DEF Owned
  <2> QED
    BY <1>1, <2>3, <2>4 DEF Owned
<1>7. Typed(m, info2, stack)
  BY <1>2, <1>3 DEF Typed
<1> QED
  BY <1>5, <1>6, <1>7 DEF Sound, info2

\* A page nobody has a reference to has no holder.
LEMMA FreePage ==
    ASSUME MemoryInv, NEW p \in Pages, mem.refs[p] = 0
    PROVE  Empty(p) /\ CachedAt(mem, p) = {}
<1>1. Typed(mem, rx_info, stack) /\ Counted(mem, rx_info, stack)
  BY DEF MemoryInv, Sound
<1>2. /\ IsFiniteSet(At(rx_info, p)) /\ Cardinality(At(rx_info, p)) \in Nat
      /\ IsFiniteSet(CachedAt(mem, p)) /\ Cardinality(CachedAt(mem, p)) \in Nat
      /\ IsFiniteSet(PartsOf(stack, p)) /\ Cardinality(PartsOf(stack, p)) \in Nat
  BY <1>1, HoldersFinite
<1>3. Cardinality(At(rx_info, p)) = 0 /\ Cardinality(CachedAt(mem, p)) = 0
        /\ Cardinality(PartsOf(stack, p)) = 0
  BY <1>1, <1>2 DEF Counted
<1>4. At(rx_info, p) = {} /\ CachedAt(mem, p) = {} /\ PartsOf(stack, p) = {}
  BY <1>2, <1>3, FS_EmptySet
<1> QED
  BY <1>4 DEF Empty, At, PartsOf

LEMMA SetPage ==
    ASSUME NEW m \in Memories, NEW p \in Pages, NEW n \in Nat
    PROVE  WithPage(m, p, n) = [refs |-> [m.refs EXCEPT ![p] = n], mapped |-> m.mapped \cup {p},
                               cache |-> m.cache, head |-> m.head, error |-> m.error]
<1> DEFINE r == [m.refs EXCEPT ![p] = n]
           s == m.mapped \cup {p}
<1>1. WithPage(m, p, n) = [[m EXCEPT !.refs = r] EXCEPT !.mapped = s]
  BY DEF WithPage, Memories
<1> HIDE DEF r, s
<1>2. WithPage(m, p, n) = [refs |-> r, mapped |-> s, cache |-> m.cache, head |-> m.head,
                           error |-> m.error]
  BY <1>1 DEF Memories
<1> QED
  BY <1>2 DEF r, s

LEMMA DropPage ==
    ASSUME NEW m \in Memories, NEW p \in Pages
    PROVE  PutPage(m, p) = [refs |-> [m.refs EXCEPT ![p] = m.refs[p] - 1], mapped |-> m.mapped,
                           cache |-> m.cache, head |-> m.head, error |-> m.error]
<1> DEFINE r == [m.refs EXCEPT ![p] = m.refs[p] - 1]
<1>1. PutPage(m, p) = [m EXCEPT !.refs = r]
  BY DEF PutPage, Memories
<1> HIDE DEF r
<1>2. PutPage(m, p) = [refs |-> r, mapped |-> m.mapped, cache |-> m.cache, head |-> m.head,
                       error |-> m.error]
  BY <1>1 DEF Memories
<1> QED
  BY <1>2 DEF r

LEMMA AllocatedSound ==
    ASSUME MemoryInv, NEW p \in Allocated, NEW c \in Ids, rx_info[c].page = NoPage
    PROVE  Sound(WithPage(mem, p, 1),
                 [rx_info EXCEPT ![c] = [page |-> p, half |-> 0, lpc |-> FALSE]], stack)
<1> DEFINE m2 == WithPage(mem, p, 1)
           b == [page |-> p, half |-> 0, lpc |-> FALSE]
<1>1. p \in Pages /\ mem.refs[p] = 0 /\ mem \in Memories
  BY DEF Allocated, MemoryInv, Sound, Typed
<1>2. m2 = [refs |-> [mem.refs EXCEPT ![p] = 1], mapped |-> mem.mapped \cup {p},
            cache |-> mem.cache, head |-> mem.head, error |-> mem.error]
  BY <1>1, SetPage
<1>3. Empty(p) /\ CachedAt(mem, p) = {}
  BY <1>1, FreePage
<1>4. b \in Buffers /\ b.page = p
  BY <1>1 DEF Buffers, Halves
<1> HIDE DEF m2, b
<1>5. m2 \in Memories /\ CacheFits(m2) /\ \A q \in Pages : CachedAt(m2, q) = CachedAt(mem, q)
  BY <1>1, <1>2 DEF Memories, MemoryInv, Sound, CacheFits, CachedAt
<1>6. OneMore(m2, p)
  <2> SUFFICES ASSUME NEW q \in Pages
               PROVE  m2.refs[q] = Cardinality(At(rx_info, q)) + Cardinality(CachedAt(m2, q))
                                   + Cardinality(PartsOf(stack, q)) + (IF q = p THEN 1 ELSE 0)
    BY DEF OneMore
  <2>1. /\ mem.refs[q] = Cardinality(At(rx_info, q)) + Cardinality(CachedAt(mem, q))
                         + Cardinality(PartsOf(stack, q))
        /\ mem.refs \in [Pages -> Nat]
    BY <1>1 DEF MemoryInv, Sound, Counted, Memories
  <2>2. m2.refs[q] = mem.refs[q] + (IF q = p THEN 1 ELSE 0)
    BY <1>1, <1>2, <2>1
  <2>3. CachedAt(m2, q) = CachedAt(mem, q)
    BY <1>5
  <2>4. /\ Cardinality(At(rx_info, q)) \in Nat /\ Cardinality(CachedAt(mem, q)) \in Nat
        /\ Cardinality(PartsOf(stack, q)) \in Nat
    BY HoldersFinite DEF MemoryInv, Sound
  <2> QED
    BY <2>1, <2>2, <2>3, <2>4
<1> QED
  BY <1>1, <1>3, <1>4, <1>5, <1>6, FilledSound DEF m2, b

\* A page whose one reference is the cache's is nobody else's.
LEMMA CacheOnly ==
    ASSUME NEW m, Sound(m, rx_info, stack), NEW k \in 1..Len(m.cache), m.refs[m.cache[k]] = 1
    PROVE  m.cache[k] \in Pages /\ Empty(m.cache[k]) /\ CachedAt(m, m.cache[k]) = {k}
<1> DEFINE p == m.cache[k]
<1>1. Typed(m, rx_info, stack) /\ Counted(m, rx_info, stack)
  BY DEF Sound
<1>2. p \in Pages /\ k \in CachedAt(m, p)
  <2>1. m.cache \in Seq(Pages)
    BY <1>1 DEF Typed, Memories
  <2>2. DOMAIN m.cache = 1..Len(m.cache)
    BY <2>1, LenProperties
  <2> QED
    BY <2>1, <2>2, ElementOfSeq DEF CachedAt
<1> HIDE DEF p
<1>3. /\ IsFiniteSet(At(rx_info, p)) /\ Cardinality(At(rx_info, p)) \in Nat
      /\ IsFiniteSet(CachedAt(m, p)) /\ Cardinality(CachedAt(m, p)) \in Nat
      /\ IsFiniteSet(PartsOf(stack, p)) /\ Cardinality(PartsOf(stack, p)) \in Nat
  BY <1>1, <1>2, HoldersFinite
<1> DEFINE C == CachedAt(m, p)
           K == {k}
<1>4. IsFiniteSet(K) /\ Cardinality(K) = 1 /\ K \in SUBSET C
  BY <1>2, FS_Singleton
<1> HIDE DEF C, K
<1>5. /\ IsFiniteSet(C \ K) /\ 1 <= Cardinality(C)
      /\ Cardinality(C \ K) = Cardinality(C) - 1
  BY <1>3, <1>4, Without DEF C
<1>6. Cardinality(At(rx_info, p)) + Cardinality(C) + Cardinality(PartsOf(stack, p)) = 1
  BY <1>1, <1>2 DEF Counted, C, p
<1>7. Cardinality(At(rx_info, p)) = 0 /\ Cardinality(PartsOf(stack, p)) = 0
        /\ Cardinality(C \ K) = 0
  BY <1>3, <1>5, <1>6 DEF C
<1>8. At(rx_info, p) = {} /\ PartsOf(stack, p) = {} /\ C \ K = {}
  BY <1>3, <1>5, <1>7, FS_EmptySet
<1>9. C = {k}
  BY <1>4, <1>8 DEF K
<1> QED
  BY <1>2, <1>8, <1>9 DEF Empty, At, PartsOf, p, C

LEMMA OwnSound ==
    ASSUME MemoryInv, NEW m, Sound(m, rx_info, stack), m.cache # << >>,
           m.refs[m.cache[m.head + 1]] = 1, NEW next \in 0..(Len(m.cache) - 1),
           NEW c \in Ids, rx_info[c].page = NoPage
    PROVE  LET g == OwnCachePage(m, next)
           IN  /\ g.buf.page \in Pages
               /\ Sound(g.mem, [rx_info EXCEPT ![c] = g.buf], stack)
<1> DEFINE p == m.cache[m.head + 1]
           k == m.head + 1
           m2 == [m EXCEPT !.refs = [m.refs EXCEPT ![p] = m.refs[p] + 1], !.head = next]
           b == [page |-> p, half |-> 0, lpc |-> TRUE]
<1>1. m \in Memories /\ Len(m.cache) \in Nat /\ k \in 1..Len(m.cache) /\ m.head < Len(m.cache)
  <2>1. m \in Memories /\ m.head < Len(m.cache)
    BY DEF Sound, Typed, CacheFits
  <2>2. Len(m.cache) \in Nat /\ m.head \in Nat
    BY <2>1, LenProperties DEF Memories
  <2> QED
    BY <2>1, <2>2
<1>2. OwnCachePage(m, next) = [mem |-> m2, buf |-> b]
  BY <1>1 DEF OwnCachePage, Memories
<1>3. p \in Pages /\ Empty(p)
  BY <1>1, CacheOnly
<1>4. b \in Buffers /\ b.page = p
  BY <1>3 DEF Buffers, Halves
<1> DEFINE r == [m.refs EXCEPT ![p] = m.refs[p] + 1]
<1>5. /\ r \in [Pages -> Nat] /\ r[p] = m.refs[p] + 1
      /\ \A q \in Pages : q # p => r[q] = m.refs[q]
  BY <1>1, <1>3 DEF Memories
<1>55. m2 = [m EXCEPT !.refs = r, !.head = next]
  OBVIOUS
<1> HIDE DEF r, m2, b, p
<1>6. m2 = [refs |-> r, mapped |-> m.mapped, cache |-> m.cache, head |-> next,
            error |-> m.error]
  BY <1>1, <1>55 DEF Memories
<1>7. m2 \in Memories /\ CacheFits(m2) /\ \A q \in Pages : CachedAt(m2, q) = CachedAt(m, q)
  <2>1. m2.cache = m.cache /\ m2.head = next /\ next \in Nat /\ next < Len(m.cache)
    BY <1>1, <1>6
  <2>2. m2 \in Memories
    BY <1>1, <1>5, <1>6, <2>1 DEF Memories
  <2>3. CacheFits(m2)
    BY <2>1 DEF Sound, CacheFits
  <2>4. \A q \in Pages : CachedAt(m2, q) = CachedAt(m, q)
    BY <2>1 DEF CachedAt
  <2> QED
    BY <2>2, <2>3, <2>4
<1>8. OneMore(m2, p)
  <2> SUFFICES ASSUME NEW q \in Pages
               PROVE  m2.refs[q] = Cardinality(At(rx_info, q)) + Cardinality(CachedAt(m2, q))
                                   + Cardinality(PartsOf(stack, q)) + (IF q = p THEN 1 ELSE 0)
    BY DEF OneMore
  <2>1. /\ m.refs[q] = Cardinality(At(rx_info, q)) + Cardinality(CachedAt(m, q))
                       + Cardinality(PartsOf(stack, q))
        /\ m.refs[q] \in Nat
    BY <1>1 DEF Sound, Counted, Memories
  <2>2. m2.refs[q] = m.refs[q] + (IF q = p THEN 1 ELSE 0)
    BY <1>5, <1>6, <2>1
  <2>3. CachedAt(m2, q) = CachedAt(m, q)
    BY <1>7
  <2>4. /\ Cardinality(At(rx_info, q)) \in Nat /\ Cardinality(CachedAt(m, q)) \in Nat
        /\ Cardinality(PartsOf(stack, q)) \in Nat
    BY HoldersFinite DEF Sound
  <2> QED
    BY <2>1, <2>2, <2>3, <2>4
<1>9. Sound(m2, [rx_info EXCEPT ![c] = b], stack)
  BY <1>3, <1>4, <1>7, <1>8, FilledSound
<1> QED
  BY <1>2, <1>3, <1>4, <1>9

\* A page of the cache that nobody else holds may be replaced by a new one.
LEMMA ReplacedSound ==
    ASSUME MemoryInv, HeadIsFree, NEW p \in Allocated
    PROVE  LET m == Replaced(p)
           IN  /\ Sound(m, rx_info, stack) /\ m.cache # << >> /\ Len(m.cache) = Len(mem.cache)
               /\ m.head = mem.head /\ m.refs[m.cache[m.head + 1]] = 1
<1> DEFINE k == mem.head + 1
           old == mem.cache[k]
           a == PutPage(mem, old)
           b == [a EXCEPT !.mapped = @ \ {old}]
           c == WithPage(b, p, 1)
           m == [c EXCEPT !.cache[k] = p]
           r1 == [mem.refs EXCEPT ![old] = mem.refs[old] - 1]
           r2 == [r1 EXCEPT ![p] = 1]
           rest == mem.mapped \ {old}
           s == rest \cup {p}
           new == [mem.cache EXCEPT ![k] = p]
<1>0. Typed(mem, rx_info, stack) /\ CacheFits(mem) /\ Counted(mem, rx_info, stack)
        /\ Owned(rx_info, stack)
  BY DEF MemoryInv, Sound
<1>1. /\ mem \in Memories /\ mem.cache # << >> /\ mem.refs[old] = 1
      /\ p \in Pages /\ mem.refs[p] = 0 /\ Len(mem.cache) \in Nat /\ k \in 1..Len(mem.cache)
  <2>1. /\ mem \in Memories /\ mem.cache # << >> /\ mem.refs[old] = 1
        /\ p \in Pages /\ mem.refs[p] = 0 /\ mem.head < Len(mem.cache)
    BY <1>0 DEF Typed, CacheFits, HeadIsFree, Allocated
  <2>2. Len(mem.cache) \in Nat /\ mem.head \in Nat
    BY <2>1, LenProperties DEF Memories
  <2> QED
    BY <2>1, <2>2
<1>2. /\ old \in Pages /\ Empty(old) /\ CachedAt(mem, old) = {k}
      /\ Empty(p) /\ CachedAt(mem, p) = {} /\ old # p
  <2>1. Sound(mem, rx_info, stack)
    BY DEF MemoryInv
  <2>2. old \in Pages /\ Empty(old) /\ CachedAt(mem, old) = {k}
    BY <1>1, <2>1, CacheOnly
  <2>3. Empty(p) /\ CachedAt(mem, p) = {}
    BY <1>1, FreePage
  <2> QED
    BY <1>1, <2>2, <2>3
<1>3. Replaced(p) = m
  BY DEF Replaced
<1>4. a = [refs |-> r1, mapped |-> mem.mapped, cache |-> mem.cache, head |-> mem.head,
           error |-> mem.error]
  BY <1>1, <1>2, DropPage
<1>5. /\ new \in Seq(Pages) /\ Len(new) = Len(mem.cache) /\ new[k] = p
      /\ \A j \in 1..Len(mem.cache) : j # k => new[j] = mem.cache[j]
  BY <1>1, ExceptSeq DEF Memories
<1>6. /\ r2 \in [Pages -> Nat] /\ r1 \in [Pages -> Nat] /\ r2[p] = 1 /\ r2[old] = 0
      /\ \A q \in Pages : q # p /\ q # old => r2[q] = mem.refs[q]
  BY <1>1, <1>2 DEF Memories
<1> HIDE DEF a, r1
<1>66. b = [a EXCEPT !.mapped = rest] /\ rest \in SUBSET Pages
  BY <1>1, <1>4 DEF Memories
<1> HIDE DEF rest, b
<1>7. b = [refs |-> r1, mapped |-> rest, cache |-> mem.cache, head |-> mem.head,
           error |-> mem.error]
  BY <1>4, <1>66
<1>8. b \in Memories
  BY <1>1, <1>6, <1>7, <1>66 DEF Memories
<1>9. c = [refs |-> r2, mapped |-> s, cache |-> mem.cache, head |-> mem.head,
           error |-> mem.error]
  BY <1>1, <1>7, <1>8, SetPage
<1> HIDE DEF c, r2, s
<1>10. m = [refs |-> r2, mapped |-> s, cache |-> new, head |-> mem.head, error |-> mem.error]
  BY <1>9
<1> HIDE DEF m
<1>11. s \in SUBSET Pages
  BY <1>1, <1>66 DEF s
<1>12. m \in Memories /\ m.cache = new /\ m.head = mem.head /\ m.refs = r2
  BY <1>1, <1>5, <1>6, <1>10, <1>11 DEF Memories
<1>13. new # << >>
  BY <1>1, <1>5, EmptySeq
<1> HIDE DEF new
<1>14. CacheFits(m) /\ Typed(m, rx_info, stack)
  BY <1>0, <1>1, <1>5, <1>12 DEF CacheFits, Typed
<1>15. /\ CachedAt(m, p) = {k} /\ CachedAt(m, old) = {}
       /\ \A q \in Pages : q # p /\ q # old => CachedAt(m, q) = CachedAt(mem, q)
  <2>1. DOMAIN new = 1..Len(mem.cache) /\ DOMAIN mem.cache = 1..Len(mem.cache)
    BY <1>1, <1>5, LenProperties DEF Memories
  <2>2. \A j \in 1..Len(mem.cache) : mem.cache[j] # p /\ (mem.cache[j] = old => j = k)
    BY <1>2, <2>1 DEF CachedAt
  <2>3. \A q : CachedAt(m, q) = {j \in 1..Len(mem.cache) : new[j] = q}
    BY <1>12, <2>1 DEF CachedAt
  <2>4. \A q : CachedAt(mem, q) = {j \in 1..Len(mem.cache) : mem.cache[j] = q}
    BY <2>1 DEF CachedAt
  <2>5. CachedAt(m, p) = {k}
    BY <1>1, <1>5, <2>2, <2>3
  <2>6. CachedAt(m, old) = {}
    BY <1>2, <1>5, <2>2, <2>3
  <2>7. ASSUME NEW q \in Pages, q # p, q # old
        PROVE  CachedAt(m, q) = CachedAt(mem, q)
    <3>1. \A j \in 1..Len(mem.cache) : new[j] = q <=> mem.cache[j] = q
      BY <1>1, <1>5, <2>7
    <3> QED
      BY <2>3, <2>4, <3>1
  <2> QED
    BY <2>5, <2>6, <2>7
<1>16. Counted(m, rx_info, stack)
  <2> SUFFICES ASSUME NEW q \in Pages
               PROVE  m.refs[q] = Cardinality(At(rx_info, q)) + Cardinality(CachedAt(m, q))
                                  + Cardinality(PartsOf(stack, q))
    BY DEF Counted
  <2>1. CASE q # p /\ q # old
    <3>1. mem.refs[q] = Cardinality(At(rx_info, q)) + Cardinality(CachedAt(mem, q))
                        + Cardinality(PartsOf(stack, q))
      BY <1>0 DEF Counted
    <3> QED
      BY <1>6, <1>12, <1>15, <2>1, <3>1
  <2>2. CASE q = p \/ q = old
    <3>1. At(rx_info, q) = {} /\ PartsOf(stack, q) = {}
      BY <1>2, <2>2 DEF Empty, At, PartsOf
    <3>2. Cardinality(At(rx_info, q)) = 0 /\ Cardinality(PartsOf(stack, q)) = 0
      BY <3>1, FS_EmptySet
    <3>3. Cardinality(CachedAt(m, q)) = IF q = p THEN 1 ELSE 0
      BY <1>2, <1>15, <2>2, FS_EmptySet, FS_Singleton
    <3> QED
      BY <1>2, <1>6, <1>12, <2>2, <3>2, <3>3
  <2> QED
    BY <2>1, <2>2
<1>17. Sound(m, rx_info, stack)
  BY <1>0, <1>14, <1>16 DEF Sound
<1> QED
  BY <1>3, <1>5, <1>6, <1>12, <1>13, <1>17

\* A page that is new to the cache gets a reference for it and one for the buffer.
LEMMA WarmUpSound ==
    ASSUME MemoryInv, NEW p \in Allocated, NEW c \in Ids, rx_info[c].page = NoPage,
           Len(mem.cache) < CacheSize
    PROVE  Sound([WithPage(mem, p, 2) EXCEPT !.cache = Append(@, p), !.error = FALSE],
                 [rx_info EXCEPT ![c] = [page |-> p, half |-> 0, lpc |-> TRUE]], stack)
<1> DEFINE a == WithPage(mem, p, 2)
           new == Append(mem.cache, p)
           m2 == [a EXCEPT !.cache = Append(@, p), !.error = FALSE]
           b == [page |-> p, half |-> 0, lpc |-> TRUE]
           r == [mem.refs EXCEPT ![p] = 2]
           s == mem.mapped \cup {p}
           n == Len(mem.cache)
<1>1. /\ p \in Pages /\ mem.refs[p] = 0 /\ mem \in Memories /\ mem.cache \in Seq(Pages)
      /\ n \in Nat /\ CacheFits(mem) /\ CacheSize \in Nat
  BY LenProperties, CacheAssumption DEF Allocated, MemoryInv, Sound, Typed, Memories
<1>2. a = [refs |-> r, mapped |-> s, cache |-> mem.cache, head |-> mem.head, error |-> mem.error]
  BY <1>1, SetPage
<1>3. Empty(p) /\ CachedAt(mem, p) = {}
  BY <1>1, FreePage
<1>4. b \in Buffers /\ b.page = p
  BY <1>1 DEF Buffers, Halves
<1>5. /\ new \in Seq(Pages) /\ Len(new) = n + 1 /\ new[n + 1] = p
      /\ \A j \in 1..n : new[j] = mem.cache[j]
  BY <1>1, AppendProperties
<1>6. /\ r \in [Pages -> Nat] /\ s \in SUBSET Pages
      /\ \A q \in Pages : r[q] = IF q = p THEN 2 ELSE mem.refs[q]
  BY <1>1 DEF Memories
<1> HIDE DEF r, s
<1>7. m2 = [a EXCEPT !.cache = new, !.error = FALSE]
  <2>1. a.cache = mem.cache
    BY <1>2
  <2> HIDE DEF a
  <2> QED
    BY <2>1
<1> HIDE DEF a, m2, b, new, n
<1>8. m2 = [refs |-> r, mapped |-> s, cache |-> new, head |-> mem.head, error |-> FALSE]
  BY <1>2, <1>7
<1>9. mem.head \in Nat /\ (mem.head < n \/ (n = 0 /\ mem.head = 0)) /\ n < CacheSize
  <2>1. mem.head \in Nat /\ n < CacheSize
    BY <1>1 DEF Memories, n
  <2>2. mem.cache = << >> => n = 0
    BY DEF n
  <2> QED
    BY <1>1, <2>1, <2>2 DEF CacheFits, n
<1>10. m2 \in Memories /\ CacheFits(m2)
  <2>1. m2 \in Memories /\ m2.cache = new /\ m2.head = mem.head
    BY <1>5, <1>6, <1>8, <1>9 DEF Memories
  <2>2. Len(new) <= CacheSize /\ mem.head < Len(new)
    BY <1>1, <1>5, <1>9
  <2> QED
    BY <2>1, <2>2 DEF CacheFits
<1>11. ASSUME NEW q \in Pages
       PROVE  CachedAt(m2, q) = IF q = p THEN {n + 1} ELSE CachedAt(mem, q)
  <2>1. DOMAIN new = 1..(n + 1) /\ DOMAIN mem.cache = 1..n
    BY <1>1, <1>5, LenProperties DEF n
  <2>2. CachedAt(m2, q) = {j \in 1..(n + 1) : new[j] = q}
    BY <1>8, <2>1 DEF CachedAt
  <2>3. CachedAt(mem, q) = {j \in 1..n : mem.cache[j] = q}
    BY <2>1 DEF CachedAt
  <2>4. \A j \in 1..(n + 1) : j \in 1..n \/ j = n + 1
    BY <1>1
  <2>5. (\A j \in 1..n : j \in 1..(n + 1) /\ j # n + 1) /\ n + 1 \in 1..(n + 1)
    BY <1>1
  <2>6. CASE q = p
    <3>1. \A j \in 1..n : mem.cache[j] # p
      BY <1>3, <2>1 DEF CachedAt
    <3> QED
      BY <1>5, <2>2, <2>4, <2>5, <2>6, <3>1
  <2>7. CASE q # p
    BY <1>5, <2>2, <2>3, <2>4, <2>5, <2>7
  <2> QED
    BY <2>6, <2>7
<1>12. OneMore(m2, p)
  <2> SUFFICES ASSUME NEW q \in Pages
               PROVE  m2.refs[q] = Cardinality(At(rx_info, q)) + Cardinality(CachedAt(m2, q))
                                   + Cardinality(PartsOf(stack, q)) + (IF q = p THEN 1 ELSE 0)
    BY DEF OneMore
  <2>1. /\ Cardinality(At(rx_info, q)) \in Nat /\ Cardinality(CachedAt(mem, q)) \in Nat
        /\ Cardinality(PartsOf(stack, q)) \in Nat
    BY HoldersFinite DEF MemoryInv, Sound
  <2>2. mem.refs[q] = Cardinality(At(rx_info, q)) + Cardinality(CachedAt(mem, q))
                      + Cardinality(PartsOf(stack, q))
    BY DEF MemoryInv, Sound, Counted
  <2>3. m2.refs[q] = r[q]
    BY <1>8
  <2>4. CASE q = p
    <3>1. Cardinality(CachedAt(m2, q)) = 1
      BY <1>11, <2>4, FS_Singleton
    <3>2. Cardinality(At(rx_info, q)) = 0 /\ Cardinality(PartsOf(stack, q)) = 0
      <4>1. At(rx_info, q) = {} /\ PartsOf(stack, q) = {}
        BY <1>3, <2>4 DEF Empty, At, PartsOf
      <4> QED
        BY <4>1, FS_EmptySet
    <3> QED
      BY <1>6, <2>3, <2>4, <3>1, <3>2
  <2>5. CASE q # p
    <3>1. CachedAt(m2, q) = CachedAt(mem, q) /\ r[q] = mem.refs[q]
      BY <1>6, <1>11, <2>5
    <3> QED
      BY <2>1, <2>2, <2>3, <2>5, <3>1
  <2> QED
    BY <2>4, <2>5
<1>13. Sound(m2, [rx_info EXCEPT ![c] = b], stack)
  BY <1>1, <1>3, <1>4, <1>10, <1>12, FilledSound
<1> QED
  BY <1>13 DEF m2, a, b

\* Memory that was asked for a page in vain.
LEMMA FailsSound ==
    ASSUME MemoryInv, NEW e \in BOOLEAN
    PROVE  Sound([mem EXCEPT !.error = e], rx_info, stack)
<1> DEFINE m == [mem EXCEPT !.error = e]
<1>1. mem \in Memories
  BY DEF MemoryInv, Sound, Typed
<1>2. m \in Memories /\ m.refs = mem.refs /\ m.cache = mem.cache /\ m.head = mem.head
  BY <1>1 DEF Memories
<1> HIDE DEF m
<1>3. Typed(m, rx_info, stack) /\ CacheFits(m) /\ Owned(rx_info, stack)
  BY <1>2 DEF MemoryInv, Sound, Typed, CacheFits
<1>4. Counted(m, rx_info, stack)
  BY <1>2 DEF MemoryInv, Sound, Counted, CachedAt
<1> QED
  BY <1>3, <1>4 DEF Sound, m

\* A buffer that is short of a page gets one that has no other holder, or none.
GotSound(got, c) ==
    \/ got.buf = NoBuffer /\ Sound(got.mem, rx_info, stack)
    \/ got.buf.page \in Pages /\ Sound(got.mem, [rx_info EXCEPT ![c] = got.buf], stack)

LEMMA AllocMapSound ==
    ASSUME MemoryInv, NEW c \in Ids, rx_info[c].page = NoPage, NEW got \in AllocMapPage
    PROVE  GotSound(got, c)
<1>1. CASE got = Fails(mem)
  BY <1>1 DEF Fails, GotSound, MemoryInv
<1>2. ASSUME NEW p \in Allocated,
             got = [mem |-> WithPage(mem, p, 1), buf |-> [page |-> p, half |-> 0, lpc |-> FALSE]]
      PROVE  GotSound(got, c)
  <2>1. got.mem = WithPage(mem, p, 1) /\ got.buf = [page |-> p, half |-> 0, lpc |-> FALSE]
          /\ got.buf.page = p /\ p \in Pages
    BY <1>2 DEF Allocated
  <2> QED
    BY <2>1, AllocatedSound DEF GotSound
<1> QED
  BY <1>1, <1>2 DEF AllocMapPage

LEMMA WarmUpGot ==
    ASSUME MemoryInv, NEW c \in Ids, rx_info[c].page = NoPage, Len(mem.cache) < CacheSize,
           NEW got \in WarmUp
    PROVE  GotSound(got, c)
<1>1. CASE got = Fails([mem EXCEPT !.error = (mem.cache = << >>)])
  <2> DEFINE m == [mem EXCEPT !.error = (mem.cache = << >>)]
  <2>1. Sound(m, rx_info, stack)
    BY FailsSound
  <2> HIDE DEF m
  <2> QED
    BY <1>1, <2>1 DEF Fails, GotSound, m
<1>2. ASSUME NEW p \in Allocated,
             got = [mem |-> [WithPage(mem, p, 2) EXCEPT !.cache = Append(@, p), !.error = FALSE],
                    buf |-> [page |-> p, half |-> 0, lpc |-> TRUE]]
      PROVE  GotSound(got, c)
  <2> DEFINE m == [WithPage(mem, p, 2) EXCEPT !.cache = Append(@, p), !.error = FALSE]
             b == [page |-> p, half |-> 0, lpc |-> TRUE]
  <2>1. Sound(m, [rx_info EXCEPT ![c] = b], stack)
    BY WarmUpSound
  <2>2. b.page \in Pages
    BY DEF Allocated
  <2>3. got = [mem |-> m, buf |-> b]
    BY <1>2
  <2> HIDE DEF m, b
  <2> QED
    BY <2>1, <2>2, <2>3 DEF GotSound
<1> QED
  BY <1>1, <1>2 DEF WarmUp

LEMMA ReturnGot ==
    ASSUME MemoryInv, HeadIsFree, NEW c \in Ids, rx_info[c].page = NoPage,
           NEW next \in 0..(Len(mem.cache) - 1), NEW got \in ReturnCachePage(next)
    PROVE  GotSound(got, c)
<1>1. ASSUME NEW m, Sound(m, rx_info, stack), m.cache # << >>, Len(m.cache) = Len(mem.cache),
             m.refs[m.cache[m.head + 1]] = 1, got = OwnCachePage(m, next)
      PROVE  GotSound(got, c)
  <2>1. next \in 0..(Len(m.cache) - 1)
    BY <1>1
  <2>2. LET g == OwnCachePage(m, next)
        IN  /\ g.buf.page \in Pages
            /\ Sound(g.mem, [rx_info EXCEPT ![c] = g.buf], stack)
    BY <1>1, <2>1, OwnSound
  <2> QED
    BY <1>1, <2>2 DEF GotSound
<1>2. CASE got = OwnCachePage(mem, next)
  BY <1>1, <1>2 DEF MemoryInv, HeadIsFree
<1>3. ASSUME NEW p \in Allocated, got = OwnCachePage(Replaced(p), next)
      PROVE  GotSound(got, c)
  <2> DEFINE m == Replaced(p)
  <2>1. /\ Sound(m, rx_info, stack) /\ m.cache # << >> /\ Len(m.cache) = Len(mem.cache)
        /\ m.refs[m.cache[m.head + 1]] = 1
    BY ReplacedSound
  <2> HIDE DEF m
  <2> QED
    BY <1>1, <1>3, <2>1 DEF m
<1> QED
  BY <1>2, <1>3 DEF ReturnCachePage

LEMMA GetPageSound ==
    ASSUME MemoryInv, NEW c \in Ids, rx_info[c].page = NoPage, NEW got \in GetPage
    PROVE  GotSound(got, c)
<1>1. Len(mem.cache) \in Nat /\ Len(mem.cache) <= CacheSize /\ CacheSize \in Nat \ {0}
        /\ mem.head \in Nat /\ mem.cache \in Seq(Pages)
  BY LenProperties, CacheAssumption DEF MemoryInv, Sound, Typed, CacheFits, Memories
<1>2. CASE got \in AllocMapPage
  BY <1>2, AllocMapSound
<1>3. CASE Len(mem.cache) < CacheSize /\ got \in WarmUp
  BY <1>3, WarmUpGot
<1>4. ASSUME HeadIsFree, NEW n \in Nat, n = Len(mem.cache),
             got \in ReturnCachePage((mem.head + 1) % n)
      PROVE  GotSound(got, c)
  <2>1. n # 0
    BY <1>1, <1>4, EmptySeq DEF HeadIsFree
  <2>2. (mem.head + 1) % n \in 0..(n - 1)
    BY <1>1, <2>1
  <2> DEFINE next == (mem.head + 1) % n
  <2> HIDE DEF next
  <2> QED
    BY <1>4, <2>2, ReturnGot DEF next
<1>5. CASE Len(mem.cache) < CacheSize /\ HeadIsFree
             /\ got \in ReturnCachePage((mem.head + 1) % Len(mem.cache))
  BY <1>1, <1>4, <1>5
<1>6. CASE ~(Len(mem.cache) < CacheSize) /\ HeadIsFree
             /\ got \in ReturnCachePage((mem.head + 1) % CacheSize)
  <2>1. CacheSize = Len(mem.cache)
    BY <1>1, <1>6
  <2> QED
    BY <1>1, <1>4, <1>6, <2>1
<1> QED
  BY <1>2, <1>3, <1>5, <1>6 DEF GetPage, LpcGetPage

-----------------------------------------------------------------------------
(***************************************************************************)
(* What is freed                                                           *)
(***************************************************************************)
LEMMA StackFreesSound ==
    ASSUME MemoryInv, NEW part \in stack
    PROVE  Sound(PutPage(mem, part.page), rx_info, stack \ {part})
<1> DEFINE p == part.page
           m == PutPage(mem, p)
           st == stack \ {part}
           r == [mem.refs EXCEPT ![p] = mem.refs[p] - 1]
<1>1. /\ Typed(mem, rx_info, stack) /\ CacheFits(mem) /\ Counted(mem, rx_info, stack)
      /\ Owned(rx_info, stack) /\ mem \in Memories /\ p \in Pages /\ stack \in SUBSET Parts
  BY DEF MemoryInv, Sound, Typed, Parts
<1>2. m = [refs |-> r, mapped |-> mem.mapped, cache |-> mem.cache, head |-> mem.head,
           error |-> mem.error]
  BY <1>1, DropPage
<1>3. \A q \in Pages : r[q] = mem.refs[q] - (IF q = p THEN 1 ELSE 0)
  BY <1>1 DEF Memories
<1>4. r = [q \in Pages |-> r[q]]
  BY <1>1 DEF Memories
<1> HIDE DEF m, r
<1>5. ASSUME NEW q \in Pages
      PROVE  /\ m.refs[q] \in Nat
             /\ m.refs[q] = Cardinality(At(rx_info, q)) + Cardinality(CachedAt(m, q))
                            + Cardinality(PartsOf(st, q))
  <2>1. /\ Cardinality(At(rx_info, q)) \in Nat /\ Cardinality(CachedAt(mem, q)) \in Nat
        /\ IsFiniteSet(PartsOf(stack, q)) /\ Cardinality(PartsOf(stack, q)) \in Nat
    BY <1>1, HoldersFinite
  <2>2. mem.refs[q] = Cardinality(At(rx_info, q)) + Cardinality(CachedAt(mem, q))
                      + Cardinality(PartsOf(stack, q))
    BY <1>1 DEF Counted
  <2>3. m.refs[q] = mem.refs[q] - (IF q = p THEN 1 ELSE 0) /\ CachedAt(m, q) = CachedAt(mem, q)
    BY <1>2, <1>3 DEF CachedAt
  <2>4. CASE q = p
    <3> DEFINE A == PartsOf(stack, q)
               B == {part}
    <3>1. B \in SUBSET A /\ PartsOf(st, q) = A \ B /\ Cardinality(B) = 1
      <4>1. part \in A /\ Cardinality(B) = 1
        BY <2>4, FS_Singleton DEF PartsOf
      <4>2. PartsOf(st, q) = A \ B
        BY DEF PartsOf
      <4> QED
        BY <4>1, <4>2
    <3> HIDE DEF A, B
    <3>2. 1 <= Cardinality(A) /\ Cardinality(A \ B) = Cardinality(A) - 1
      BY <2>1, <3>1, Without DEF A
    <3>3. Cardinality(PartsOf(st, q)) = Cardinality(PartsOf(stack, q)) - 1
            /\ 1 <= Cardinality(PartsOf(stack, q))
      BY <3>1, <3>2 DEF A
    <3>4. m.refs[q] = mem.refs[q] - 1 /\ CachedAt(m, q) = CachedAt(mem, q)
      BY <2>3, <2>4
    <3> QED
      BY <2>1, <2>2, <3>3, <3>4
  <2>5. CASE q # p
    <3>1. PartsOf(st, q) = PartsOf(stack, q)
      BY <2>5 DEF PartsOf
    <3> QED
      BY <2>1, <2>2, <2>3, <2>5, <3>1
  <2> QED
    BY <2>4, <2>5
<1>6. m.refs \in [Pages -> Nat]
  BY <1>2, <1>4, <1>5
<1>7. Typed(m, rx_info, st)
  BY <1>1, <1>2, <1>6 DEF Typed, Memories
<1>8. CacheFits(m) /\ Owned(rx_info, st)
  BY <1>1, <1>2 DEF CacheFits, Owned
<1>9. Counted(m, rx_info, st)
  BY <1>5 DEF Counted
<1> QED
  BY <1>7, <1>8, <1>9 DEF Sound, m

\* When the buffers and the cache are freed, what is left are the stack's references.
LEMMA ResetSound ==
    ASSUME MemoryInv
    PROVE  Sound(AfterFreeing, [i \in Ids |-> NoBuffer], stack)
<1> DEFINE a == FreeRxPages(mem, Ids)
           info == [i \in Ids |-> NoBuffer]
           r == [p \in Pages |-> a.refs[p] - Cardinality(CachedAt(mem, p))]
           s == a.mapped \ ToSet(mem.cache)
           m == [a EXCEPT !.refs = r, !.mapped = s, !.cache = << >>, !.head = 0, !.error = FALSE]
<1>1. /\ Typed(mem, rx_info, stack) /\ Counted(mem, rx_info, stack) /\ Owned(rx_info, stack)
      /\ mem \in Memories /\ stack \in SUBSET Parts
  BY DEF MemoryInv, Sound, Typed
<1>2. /\ a = [refs |-> [p \in Pages |-> mem.refs[p] - Cardinality(Holding(Ids, p))],
              mapped |-> Unmapped(mem, Ids).mapped, cache |-> mem.cache,
              head |-> mem.head, error |-> mem.error]
      /\ Unmapped(mem, Ids).mapped \in SUBSET Pages
  BY <1>1, FreedFields
<1> HIDE DEF a
<1>3. AfterFreeing = m
  <2>1. [a EXCEPT !.refs = [p \in Pages |-> @[p] - Cardinality(CachedAt(mem, p))],
                  !.mapped = @ \ ToSet(mem.cache), !.cache = << >>, !.head = 0,
                  !.error = FALSE] = m
    BY <1>2
  <2> QED
    BY <2>1 DEF AfterFreeing, CachedAt, a
<1>4. ASSUME NEW p \in Pages
      PROVE  r[p] = Cardinality(PartsOf(stack, p)) /\ r[p] \in Nat
  <2>1. /\ Cardinality(At(rx_info, p)) \in Nat /\ Cardinality(CachedAt(mem, p)) \in Nat
        /\ Cardinality(PartsOf(stack, p)) \in Nat
    BY <1>1, HoldersFinite
  <2>2. mem.refs[p] = Cardinality(At(rx_info, p)) + Cardinality(CachedAt(mem, p))
                      + Cardinality(PartsOf(stack, p))
    BY <1>1 DEF Counted
  <2>3. Holding(Ids, p) = At(rx_info, p)
    BY DEF Holding, At
  <2>4. a.refs[p] = mem.refs[p] - Cardinality(At(rx_info, p))
    BY <1>2, <2>3
  <2>5. r[p] = a.refs[p] - Cardinality(CachedAt(mem, p))
    OBVIOUS
  <2> HIDE DEF r
  <2> QED
    BY <2>1, <2>2, <2>4, <2>5
<1>5. r \in [Pages -> Nat] /\ s \in SUBSET Pages
  <2>1. \A p \in Pages : r[p] \in Nat
    BY <1>4
  <2>2. r = [p \in Pages |-> r[p]]
    OBVIOUS
  <2> HIDE DEF r
  <2>3. r \in [Pages -> Nat]
    BY <2>1, <2>2
  <2> QED
    BY <1>2, <2>3
<1> HIDE DEF r, s
<1>6. m = [refs |-> r, mapped |-> s, cache |-> << >>, head |-> 0, error |-> FALSE]
  <2> DEFINE f == [p \in Pages |-> mem.refs[p] - Cardinality(Holding(Ids, p))]
             d == Unmapped(mem, Ids).mapped
  <2> HIDE DEF f, d
  <2>1. a = [refs |-> f, mapped |-> d, cache |-> mem.cache, head |-> mem.head,
             error |-> mem.error]
    BY <1>2 DEF f, d
  <2>2. m = [a EXCEPT !.refs = r, !.mapped = s, !.cache = << >>, !.head = 0, !.error = FALSE]
    OBVIOUS
  <2> HIDE DEF m
  <2> QED
    BY <2>1, <2>2
<1> HIDE DEF m
<1>7. m \in Memories
  BY <1>5, <1>6 DEF Memories
<1>8. info \in [Ids -> Buffers] /\ \A i \in Ids : info[i].page = NoPage
  BY DEF NoBuffer, Buffers, Halves
<1> HIDE DEF info
<1>9. Typed(m, info, stack)
  BY <1>1, <1>7, <1>8 DEF Typed
<1>10. CacheFits(m)
  <2>1. m.cache = << >> /\ m.head = 0 /\ Len(<< >>) = 0 /\ 0 <= CacheSize
    BY <1>6, CacheAssumption
  <2> QED
    BY <2>1 DEF CacheFits
<1>11. Owned(info, stack)
  BY <1>1, <1>8, PagesAssumption DEF Owned, Parts
<1>12. Counted(m, info, stack)
  <2> SUFFICES ASSUME NEW p \in Pages
               PROVE  m.refs[p] = Cardinality(At(info, p)) + Cardinality(CachedAt(m, p))
                                  + Cardinality(PartsOf(stack, p))
    BY DEF Counted
  <2>1. At(info, p) = {} /\ CachedAt(m, p) = {}
    BY <1>6, <1>8, PagesAssumption DEF At, CachedAt
  <2>2. Cardinality(At(info, p)) = 0 /\ Cardinality(CachedAt(m, p)) = 0
    BY <2>1, FS_EmptySet
  <2>3. m.refs[p] = Cardinality(PartsOf(stack, p)) /\ m.refs[p] \in Nat
    BY <1>4, <1>6
  <2> QED
    BY <2>2, <2>3
<1> QED
  BY <1>3, <1>9, <1>10, <1>11, <1>12 DEF Sound, info

-----------------------------------------------------------------------------
(***************************************************************************)
(* The next packet                                                         *)
(***************************************************************************)
LEMMA MinExists ==
    ASSUME NEW T \in SUBSET Nat, T # {}
    PROVE  Min(T) \in T /\ \A y \in T : Min(T) <= y
<1> DEFINE R == OpToRel(<, Nat)
<1>1. IsWellFoundedOn(R, Nat)
  BY NatLessThanWellFounded
<1>2. \A x, y \in Nat : y < x => <<y, x>> \in R
  BY DEF OpToRel
<1> HIDE DEF R
<1>3. \E x \in T : \A y \in T : ~(<<y, x>> \in R)
  BY <1>1, WFMin
<1>4. PICK x \in T : \A y \in T : ~(<<y, x>> \in R)
  BY <1>3
<1>5. ASSUME NEW y \in T
      PROVE  x <= y
  <2>1. x \in Nat /\ y \in Nat
    OBVIOUS
  <2>2. ~(y < x)
    BY <1>2, <1>4, <2>1
  <2> QED
    BY <2>1, <2>2
<1> QED
  BY <1>5 DEF Min

LEMMA WaitingType ==
    ASSUME QueueTypes
    PROVE  /\ Waiting \in Seq(Completions) /\ Len(taken) \in Nat /\ Len(Waiting) \in Nat
           /\ Len(taken) <= Len(Waiting)
           /\ \A k \in 1..Len(taken) : Waiting[k] = taken[k]
           /\ LastAt \in SUBSET Nat /\ RefusedAt \in SUBSET Nat
           /\ LastAt \in SUBSET (1..Len(Waiting)) /\ RefusedAt \in SUBSET (1..Len(Waiting))
<1>1. taken \in Seq(Completions) /\ cq \in Seq(Completions)
  BY DEF QueueTypes
<1>2. /\ Waiting \in Seq(Completions) /\ Len(Waiting) = Len(taken) + Len(cq)
      /\ \A k \in 1..(Len(taken) + Len(cq)) :
           Waiting[k] = IF k <= Len(taken) THEN taken[k] ELSE cq[k - Len(taken)]
  BY <1>1, ConcatProperties DEF Waiting
<1>3. Len(taken) \in Nat /\ Len(cq) \in Nat
  BY <1>1, LenProperties
<1>4. Len(Waiting) \in Nat /\ Len(taken) <= Len(Waiting)
  BY <1>2, <1>3
<1>5. \A k \in 1..Len(taken) : Waiting[k] = taken[k]
  BY <1>2, <1>3
<1>6. \A k \in (Len(taken) + 1)..Len(Waiting) : k \in 1..Len(Waiting) /\ k \in Nat
  BY <1>3, <1>4
<1> QED
  BY <1>2, <1>3, <1>4, <1>5, <1>6 DEF LastAt, RefusedAt

\* A packet that is complete and of which the driver refuses nothing.
LEMMA PacketFacts ==
    ASSUME QueueTypes, IdsInv, PacketNext
    PROVE  /\ PacketEnd \in 1..Len(Waiting) /\ Len(Packet) = PacketEnd
           /\ TakenOf(Packet)
           /\ SubSeq(Waiting, PacketEnd + 1, Len(Waiting)) \in Seq(Completions)
           /\ LET rest == SubSeq(Waiting, PacketEnd + 1, Len(Waiting))
              IN  /\ GoodIds(Waiting) = IdsOf(Packet) \cup GoodIds(rest)
                  /\ IdsOf(Packet) \cap GoodIds(rest) = {} /\ Distinct(rest)
<1>1. PacketEnd \in LastAt /\ \A j \in LastAt : PacketEnd <= j
  BY WaitingType, MinExists DEF PacketNext, PacketEnd
<1> DEFINE n == PacketEnd
           u == SubSeq(Waiting, 1, n)
           v == SubSeq(Waiting, n + 1, Len(Waiting))
<1>2. n \in 1..Len(Waiting) /\ n \in 0..Len(Waiting) /\ n > Len(taken) /\ n \in Nat
  BY <1>1, WaitingType DEF LastAt
<1> HIDE DEF n
<1>3. /\ u \in Seq(Completions) /\ v \in Seq(Completions) /\ Len(u) = n
      /\ \A k \in 1..n : u[k] = Waiting[k]
      /\ GoodIds(Waiting) = GoodIds(u) \cup GoodIds(v)
      /\ Distinct(u) /\ Distinct(v) /\ GoodIds(u) \cap GoodIds(v) = {}
  BY <1>2, WaitingType, SplitCompletions DEF IdsInv, FlightApart
<1> HIDE DEF u, v
<1>4. ASSUME NEW k \in 1..n
      PROVE  u[k].id # BadId
  <2>1. u[k] = Waiting[k]
    BY <1>3
  <2>2. CASE k \in 1..Len(taken)
    <3>1. DOMAIN taken = 1..Len(taken)
      BY LenProperties DEF QueueTypes
    <3> QED
      BY <2>1, <2>2, <3>1, WaitingType DEF IdsInv, ReadWell
  <2>3. CASE k \notin 1..Len(taken)
    <3>1. k \in (Len(taken) + 1)..Len(Waiting)
      BY <1>2, <2>3, WaitingType
    <3>2. ASSUME Waiting[k].id = BadId
          PROVE  FALSE
      <4>1. k \in RefusedAt
        BY <3>1, <3>2 DEF RefusedAt, Refused
      <4>2. PICK j \in LastAt : j < k
        BY <4>1 DEF PacketNext
      <4>3. n <= j /\ j \in Nat
        BY <1>1, WaitingType DEF n
      <4> QED
        BY <1>2, <4>2, <4>3
    <3> QED
      BY <2>1, <3>2
  <2> QED
    BY <2>2, <2>3
<1>5. DOMAIN u = 1..n
  BY <1>3, InCompletions
<1>6. BadId \notin IdsOf(u) /\ IdsOf(u) = GoodIds(u)
  BY <1>4, <1>5 DEF IdsOf, GoodIds
<1>7. u # << >>
  BY <1>2, <1>3
<1>8. \A i \in IdsOf(u) : rx_info[i].page # NoPage
  BY <1>3, <1>6 DEF IdsInv, HavePages, InFlight
<1>9. TakenOf(u)
  BY <1>3, <1>6, <1>7, <1>8 DEF TakenOf
<1> QED
  BY <1>2, <1>3, <1>6, <1>9 DEF Packet, u, v, n

\* The ids of a packet in its order.
IdSeq(pkt) == [k \in DOMAIN pkt |-> pkt[k].id]

LEMMA PacketIdSeq ==
    ASSUME NEW pkt, TakenOf(pkt)
    PROVE  /\ IdSeq(pkt) \in Seq(Ids) /\ Len(IdSeq(pkt)) = Len(pkt)
           /\ IsInjective(IdSeq(pkt)) /\ ToSet(IdSeq(pkt)) = IdsOf(pkt)
<1> DEFINE s == IdSeq(pkt)
           n == Len(pkt)
<1>1. /\ IdsOf(pkt) \in SUBSET Ids /\ DOMAIN pkt = 1..n /\ n \in Nat
      /\ \A k \in 1..n : pkt[k].id \in IdsOf(pkt)
  BY PacketIds
<1>2. s = [k \in 1..n |-> pkt[k].id]
  BY <1>1 DEF IdSeq
<1> HIDE DEF s, n
<1>3. \A k \in 1..n : s[k] = pkt[k].id /\ s[k] \in Ids
  BY <1>1, <1>2
<1>4. s \in [1..n -> Ids]
  BY <1>2, <1>3
<1>5. s \in Seq(Ids) /\ Len(s) = n /\ DOMAIN s = 1..n
  BY <1>1, <1>4, SeqDef
<1>6. IsInjective(s)
  BY <1>1, <1>3, <1>5 DEF IsInjective, TakenOf, Distinct, IdsOf
<1>7. ToSet(s) = IdsOf(pkt)
  BY <1>1, <1>3, <1>5 DEF ToSet, IdsOf
<1> QED
  BY <1>5, <1>6, <1>7 DEF s, n

-----------------------------------------------------------------------------
(***************************************************************************)
(* The steps that leave the buffers alone                                  *)
(***************************************************************************)
LEMMA MemorySame ==
    ASSUME MemoryInv, UNCHANGED <<mem, rx_info, stack>>
    PROVE  MemoryInv'
  BY DEF MemoryInv, Sound, Typed, CacheFits, Counted, Owned, At, CachedAt, PartsOf

\* The ids where they are, whatever NAPI does but a refill.
LEMMA IdsSame ==
    ASSUME IdsInv, UNCHANGED <<used, rx_info, sq, cq, taken>>, ring'.free_ids = ring.free_ids,
           poll'.ids = poll.ids,
           (napi' = napi /\ poll' = poll) \/ napi' \notin {"off", "refill"}
    PROVE  IdsInv'
<1>1. FreeIds' = FreeIds /\ Waiting' = Waiting /\ InFlight' = InFlight
  BY DEF FreeIds, Waiting, InFlight, GoodIds
<1>2. FreeApart' /\ FlightApart' /\ Parted' /\ ReadWell' /\ HavePages'
  BY <1>1 DEF IdsInv, FreeApart, FlightApart, Parted, ReadWell, HavePages
<1>3. RefillFits'
  BY DEF IdsInv, RefillFits
<1> QED
  BY <1>2, <1>3 DEF IdsInv

LEMMA BeginPollKeeps ==
    ASSUME IInv, BeginPoll
    PROVE  IInv'
<1>1. /\ UNCHANGED <<mode, ring, used, rx_info, sq, rung, cq, taken, faults, mem, stack, failures,
                     missed, poll, trigger_reset, oops>>
      /\ napi' \in {"poll", "idle"} /\ (trigger_reset => napi' = "idle")
  BY DEF BeginPoll, MayPoll, deviceVars
<1>2. QueueTypes' /\ MemoryInv'
  BY <1>1, MemorySame DEF IInv, QueueTypes
<1>3. QueueInv'
  BY <1>1, IdsSame DEF IInv, QueueInv
<1> QED
  BY <1>2, <1>3 DEF IInv

LEMMA InterruptKeeps ==
    ASSUME IInv, Interrupt
    PROVE  IInv'
<1>1. /\ UNCHANGED <<mode, ring, used, rx_info, sq, rung, cq, taken, faults, mem, stack, failures,
                     missed, poll, trigger_reset, oops>>
      /\ napi' = "scheduled"
  BY DEF Interrupt, deviceVars
<1>2. QueueTypes' /\ MemoryInv'
  BY <1>1, MemorySame DEF IInv, QueueTypes
<1>3. QueueInv'
  BY <1>1, IdsSame DEF IInv, QueueInv
<1> QED
  BY <1>2, <1>3 DEF IInv

LEMMA TimerChecksKeeps ==
    ASSUME IInv, TimerChecks
    PROVE  IInv'
<1>1. /\ UNCHANGED <<mode, used, rx_info, sq, rung, cq, taken, faults, mem, stack, failures,
                     poll, trigger_reset, oops>>
      /\ ~trigger_reset /\ (napi' = napi \/ napi' = "scheduled") /\ missed' \in BOOLEAN
      /\ \E e : /\ ring' = [ring EXCEPT !.empty_rx_queue = e]
                /\ e = 0 \/ (e = ring.empty_rx_queue + 1 /\ ~(ring.empty_rx_queue + 1 >= 2))
  BY DEF TimerChecks, RefillAfter, deviceVars, IInv, QueueTypes
<1>2. /\ ring' \in [free_ids : Seq(Ids), empty_rx_queue : 0..1]
      /\ ring'.free_ids = ring.free_ids
  <2>1. ring \in [free_ids : Seq(Ids), empty_rx_queue : 0..1] /\ ring.empty_rx_queue \in 0..1
    BY DEF IInv, QueueTypes
  <2>2. PICK e : /\ ring' = [ring EXCEPT !.empty_rx_queue = e]
                 /\ e = 0 \/ (e = ring.empty_rx_queue + 1 /\ ~(ring.empty_rx_queue + 1 >= 2))
    BY <1>1
  <2>3. e \in 0..1
    BY <2>1, <2>2
  <2> QED
    BY <2>1, <2>2, <2>3
<1>3. QueueTypes' /\ MemoryInv'
  BY <1>1, <1>2, MemorySame DEF IInv, QueueTypes
<1>4. QueueInv'
  BY <1>1, <1>2, IdsSame DEF IInv, QueueInv
<1> QED
  BY <1>3, <1>4 DEF IInv

LEMMA StackFreesKeeps ==
    ASSUME IInv, StackFrees
    PROVE  IInv'
<1>1. UNCHANGED <<mode, ring, used, rx_info, sq, rung, cq, taken, faults, failures, napi, missed,
                  poll, trigger_reset, oops>>
  BY DEF StackFrees, deviceVars
<1>2. MemoryInv'
  <2>1. PICK part \in stack : stack' = stack \ {part} /\ mem' = PutPage(mem, part.page)
    BY DEF StackFrees
  <2>2. Sound(PutPage(mem, part.page), rx_info, stack \ {part})
    BY StackFreesSound DEF IInv
  <2>3. Sound(mem', rx_info', stack')
    BY <1>1, <2>1, <2>2
  <2> QED
    BY <2>3 DEF MemoryInv
<1>3. QueueTypes'
  BY <1>1 DEF IInv, QueueTypes
<1>4. QueueInv'
  BY <1>1, IdsSame DEF IInv, QueueInv
<1> QED
  BY <1>2, <1>3, <1>4 DEF IInv

LEMMA FinishRefillKeeps ==
    ASSUME IInv, FinishRefill
    PROVE  IInv'
<1>1. /\ UNCHANGED <<mode, ring, used, rx_info, sq, cq, taken, faults, mem, stack, failures,
                     trigger_reset, oops>>
      /\ napi' \in {"scheduled", "idle"} /\ rung' = Len(sq) /\ missed' = FALSE
      /\ poll' = [poll EXCEPT !.work = 0]
  BY DEF FinishRefill, AfterPoll
<1>2. /\ poll' \in [work : 0..Budget, ids : Seq(Ids), todo : 0..(RingSize - 1)]
      /\ poll'.ids = poll.ids
  <2>1. 0 \in 0..Budget
    BY CacheAssumption
  <2>2. poll \in [work : 0..Budget, ids : Seq(Ids), todo : 0..(RingSize - 1)]
    BY DEF IInv, QueueTypes
  <2> QED
    BY <1>1, <2>1, <2>2
<1>3. Len(sq) \in 0..Len(sq)
  BY LenProperties DEF IInv, QueueTypes
<1>4. QueueTypes' /\ MemoryInv'
  BY <1>1, <1>2, <1>3, MemorySame DEF IInv, QueueTypes
<1>5. QueueInv'
  BY <1>1, <1>2, IdsSame DEF IInv, QueueInv
<1> QED
  BY <1>4, <1>5 DEF IInv

-----------------------------------------------------------------------------
(***************************************************************************)
(* A poll ends: its ids return to the ring                                 *)
(***************************************************************************)
\* The entries that are not used are free ids, those of the poll included.
LEMMA Returned ==
    ASSUME QueueTypes, IdsInv, NEW ids \in Seq(Ids), IsInjective(ids),
           ToSet(ring.free_ids) \cap ToSet(ids) = {}
    PROVE  /\ ring.free_ids \o ids \in Seq(Ids) /\ IsInjective(ring.free_ids \o ids)
           /\ Len(ring.free_ids \o ids) = Len(ring.free_ids) + Len(ids)
           /\ ToSet(ring.free_ids \o ids) = ToSet(ring.free_ids) \cup ToSet(ids)
<1>1. ring.free_ids \in Seq(Ids) /\ IsInjective(ring.free_ids)
  BY DEF QueueTypes, IdsInv, FreeApart
<1> QED
  BY <1>1, ConcatApart

\* What ToRefill makes of the ring and the poll, with n entries free.
LEMMA ToRefillFields ==
    ASSUME QueueTypes, NEW ids \in Seq(Ids), NEW n \in 0..(RingSize - 1), ToRefill(ids, n),
           ring.free_ids \o ids \in Seq(Ids)
    PROVE  /\ ring' \in [free_ids : Seq(Ids), empty_rx_queue : 0..1]
           /\ ring'.free_ids = ring.free_ids \o ids
           /\ poll' \in [work : 0..Budget, ids : Seq(Ids), todo : 0..(RingSize - 1)]
           /\ poll'.ids = << >> /\ poll'.todo \in {0, n} /\ napi' = "refill"
<1>1. /\ ring' = [ring EXCEPT !.free_ids = ring.free_ids \o ids]
      /\ poll' = [poll EXCEPT !.ids = << >>, !.todo = IF n > RefillThreshold THEN n ELSE 0]
      /\ napi' = "refill"
  BY DEF ToRefill, QueueTypes
<1>2. << >> \in Seq(Ids) /\ RingSize \in Nat /\ RingSize > 1
  BY RingSizeAssumption
<1> DEFINE t == IF n > RefillThreshold THEN n ELSE 0
           u == ring.free_ids \o ids
<1>3. t \in {0, n} /\ t \in 0..(RingSize - 1)
  BY <1>2
<1> HIDE DEF t, u
<1>4. ring' = [ring EXCEPT !.free_ids = u] /\ poll' = [poll EXCEPT !.ids = << >>, !.todo = t]
        /\ u \in Seq(Ids)
  BY <1>1 DEF t, u
<1>5. /\ ring' \in [free_ids : Seq(Ids), empty_rx_queue : 0..1] /\ ring'.free_ids = u
      /\ poll' \in [work : 0..Budget, ids : Seq(Ids), todo : 0..(RingSize - 1)]
      /\ poll'.ids = << >> /\ poll'.todo = t
  BY <1>2, <1>3, <1>4 DEF QueueTypes
<1> QED
  BY <1>1, <1>3, <1>5 DEF u

\* The ids in use and those that are free are all ids there are.
LEMMA FreeEntriesType ==
    ASSUME QueueTypes
    PROVE  /\ FreeEntries \in 0..(RingSize - 1) /\ FreeEntries + used = RingSize - 1
           /\ RingSize \in Nat /\ RingSize > 1 /\ used \in Nat
  BY RingSizeAssumption DEF QueueTypes, FreeEntries

LEMMA Regroup ==
    ASSUME NEW a \in Nat, NEW b \in Nat, NEW c \in Nat
    PROVE  a + (b + c) + 0 = a + b + c
  OBVIOUS

LEMMA PollEndsIds ==
    ASSUME QueueTypes, IdsInv, ToRefill(poll.ids, FreeEntries),
           UNCHANGED <<used, rx_info, sq>>, Waiting' = Waiting,
           \A k \in DOMAIN taken' : taken'[k].id # BadId
    PROVE  /\ ring' \in [free_ids : Seq(Ids), empty_rx_queue : 0..1]
           /\ poll' \in [work : 0..Budget, ids : Seq(Ids), todo : 0..(RingSize - 1)]
           /\ napi' = "refill" /\ IdsInv'
<1>1. /\ poll.ids \in Seq(Ids) /\ IsInjective(poll.ids)
      /\ ToSet(ring.free_ids) \cap ToSet(poll.ids) = {}
  BY DEF QueueTypes, IdsInv, FreeApart
<1>2. /\ ring.free_ids \o poll.ids \in Seq(Ids) /\ IsInjective(ring.free_ids \o poll.ids)
      /\ Len(ring.free_ids \o poll.ids) = Len(ring.free_ids) + Len(poll.ids)
      /\ ToSet(ring.free_ids \o poll.ids) = ToSet(ring.free_ids) \cup ToSet(poll.ids)
  BY <1>1, Returned
<1>3. /\ ring' \in [free_ids : Seq(Ids), empty_rx_queue : 0..1]
      /\ ring'.free_ids = ring.free_ids \o poll.ids
      /\ poll' \in [work : 0..Budget, ids : Seq(Ids), todo : 0..(RingSize - 1)]
      /\ poll'.ids = << >> /\ poll'.todo \in {0, FreeEntries} /\ napi' = "refill"
  BY <1>1, <1>2, FreeEntriesType, ToRefillFields
<1>4. ToSet(<< >>) = {} /\ IsInjective(<< >>) /\ Len(<< >>) = 0
  BY DEF ToSet, IsInjective
<1>5. FreeIds' = FreeIds /\ InFlight' = InFlight
  BY <1>2, <1>3, <1>4 DEF FreeIds, InFlight, GoodIds
<1>6. Len(ring.free_ids) \in Nat /\ Len(poll.ids) \in Nat
  BY LenProperties DEF QueueTypes
<1>7. FreeApart'
  <2>1. IsInjective(ring'.free_ids) /\ IsInjective(poll'.ids)
    BY <1>2, <1>3, <1>4
  <2>2. ToSet(ring'.free_ids) \cap ToSet(poll'.ids) = {}
    BY <1>3, <1>4
  <2>3. Len(ring'.free_ids) = Len(ring.free_ids) + Len(poll.ids) /\ Len(poll'.ids) = 0
    BY <1>2, <1>3, <1>4
  <2>4. used' + Len(ring'.free_ids) + Len(poll'.ids) = RingSize
    <3>1. used' = used /\ used \in Nat
      BY FreeEntriesType
    <3>2. used + Len(ring.free_ids) + Len(poll.ids) = RingSize
      BY DEF IdsInv, FreeApart
    <3>3. used + (Len(ring.free_ids) + Len(poll.ids)) + 0 = RingSize
      BY <1>6, <3>1, <3>2, Regroup
    <3> QED
      BY <2>3, <3>1, <3>3
  <2> QED
    BY <2>1, <2>2, <2>4 DEF FreeApart
<1>8. FlightApart' /\ Parted' /\ HavePages' /\ ReadWell'
  BY <1>5 DEF IdsInv, FlightApart, Parted, HavePages, ReadWell, Distinct, GoodIds
<1>9. RefillFits'
  BY <1>3, FreeEntriesType DEF RefillFits
<1> QED
  BY <1>3, <1>7, <1>8, <1>9 DEF IdsInv

LEMMA BudgetUsedKeeps ==
    ASSUME IInv, BudgetUsed
    PROVE  IInv'
<1>1. /\ UNCHANGED <<mode, used, rx_info, sq, rung, cq, taken, faults, mem, stack, failures,
                     missed, trigger_reset, oops>>
      /\ ToRefill(poll.ids, FreeEntries) /\ napi = "poll"
  BY DEF BudgetUsed, deviceVars
<1>2. ~trigger_reset /\ IdsInv /\ QueueTypes
  BY <1>1 DEF IInv, QueueInv
<1>3. Waiting' = Waiting /\ \A k \in DOMAIN taken' : taken'[k].id # BadId
  BY <1>1, <1>2 DEF Waiting, IdsInv, ReadWell
<1>4. /\ ring' \in [free_ids : Seq(Ids), empty_rx_queue : 0..1]
      /\ poll' \in [work : 0..Budget, ids : Seq(Ids), todo : 0..(RingSize - 1)]
      /\ napi' = "refill" /\ IdsInv'
  BY <1>1, <1>2, <1>3, PollEndsIds
<1>5. QueueTypes' /\ MemoryInv'
  BY <1>1, <1>4, MemorySame DEF IInv, QueueTypes
<1> QED
  BY <1>1, <1>2, <1>4, <1>5 DEF IInv, QueueInv

LEMMA NoPacketKeeps ==
    ASSUME IInv, NoPacket
    PROVE  IInv'
<1>1. /\ UNCHANGED <<mode, used, rx_info, sq, rung, faults, mem, stack, failures,
                     missed, trigger_reset, oops>>
      /\ ToRefill(poll.ids, FreeEntries) /\ napi = "poll" /\ RefusedAt = {}
      /\ taken' = Waiting /\ cq' = << >>
  BY DEF NoPacket
<1>2. ~trigger_reset /\ IdsInv /\ QueueTypes
  BY <1>1 DEF IInv, QueueInv
<1>3. Waiting \in Seq(Completions) /\ DOMAIN Waiting = 1..Len(Waiting)
  BY <1>2, WaitingType, InCompletions
<1>4. Waiting' = Waiting
  <2>1. Waiting \o << >> = Waiting
    BY <1>3, ConcatEmptySeq
  <2> QED
    BY <1>1, <2>1 DEF Waiting
<1>5. ASSUME NEW k \in 1..Len(Waiting)
      PROVE  Waiting[k].id # BadId
  <2>1. CASE k \in 1..Len(taken)
    <3>1. DOMAIN taken = 1..Len(taken) /\ Waiting[k] = taken[k]
      BY <1>2, <2>1, WaitingType, LenProperties DEF QueueTypes
    <3> QED
      BY <1>2, <2>1, <3>1 DEF IdsInv, ReadWell
  <2>2. CASE k \notin 1..Len(taken)
    <3>1. k \in (Len(taken) + 1)..Len(Waiting)
      BY <1>2, <2>2, WaitingType
    <3> QED
      BY <1>1, <3>1 DEF RefusedAt, Refused
  <2> QED
    BY <2>1, <2>2
<1>6. \A k \in DOMAIN taken' : taken'[k].id # BadId
  BY <1>1, <1>3, <1>5
<1>7. /\ ring' \in [free_ids : Seq(Ids), empty_rx_queue : 0..1]
      /\ poll' \in [work : 0..Budget, ids : Seq(Ids), todo : 0..(RingSize - 1)]
      /\ napi' = "refill" /\ IdsInv'
  BY <1>1, <1>2, <1>4, <1>6, PollEndsIds
<1>8. QueueTypes' /\ MemoryInv'
  <2>1. << >> \in Seq(Completions)
    OBVIOUS
  <2> QED
    BY <1>1, <1>3, <1>7, <2>1, MemorySame DEF IInv, QueueTypes
<1> QED
  BY <1>1, <1>2, <1>7, <1>8 DEF IInv, QueueInv

LEMMA BadCompletionKeeps ==
    ASSUME IInv, BadCompletion
    PROVE  IInv'
<1>1. /\ UNCHANGED <<mode, ring, used, rx_info, sq, rung, faults, mem, stack, failures, oops>>
      /\ trigger_reset' = TRUE /\ napi' = "idle" /\ missed' = FALSE
      /\ poll' = [poll EXCEPT !.work = 0, !.ids = << >>] /\ napi = "poll"
  BY DEF BadCompletion
<1>2. ~trigger_reset /\ IdsInv /\ QueueTypes
  BY <1>1 DEF IInv, QueueInv
<1>3. cq' \in Seq(Completions) /\ taken' \in Seq(Completions)
  <2>1. CASE /\ RefusedAt # {} /\ cq' = SubSeq(Waiting, Min(RefusedAt), Len(Waiting))
             /\ taken' = taken
    <3>1. Min(RefusedAt) \in 1..Len(Waiting) /\ Waiting \in Seq(Completions)
      BY <1>2, <2>1, WaitingType, MinExists
    <3> DEFINE a == Min(RefusedAt)
               b == Len(Waiting)
    <3>2. a \in 1..(b + 1) /\ b \in 0..b /\ a <= b + 1
      BY <1>2, <3>1, WaitingType
    <3> HIDE DEF a
    <3>3. SubSeq(Waiting, a, b) \in Seq(Completions)
      BY <3>1, <3>2, Piece
    <3> QED
      BY <1>2, <2>1, <3>3 DEF a, QueueTypes
  <2>2. CASE /\ PacketNext /\ cq' = SubSeq(Waiting, PacketEnd + 1, Len(Waiting))
             /\ taken' = << >>
    <3>1. SubSeq(Waiting, PacketEnd + 1, Len(Waiting)) \in Seq(Completions)
      BY <1>2, <2>2, PacketFacts
    <3> QED
      BY <2>2, <3>1
  <2> QED
    BY <2>1, <2>2 DEF BadCompletion
<1>4. poll' \in [work : 0..Budget, ids : Seq(Ids), todo : 0..(RingSize - 1)]
  <2>1. 0 \in 0..Budget /\ << >> \in Seq(Ids)
    BY CacheAssumption
  <2>2. poll \in [work : 0..Budget, ids : Seq(Ids), todo : 0..(RingSize - 1)]
    BY DEF IInv, QueueTypes
  <2> QED
    BY <1>1, <2>1, <2>2
<1>5. QueueTypes' /\ MemoryInv'
  BY <1>1, <1>2, <1>3, <1>4, MemorySame DEF IInv, QueueTypes
<1> QED
  BY <1>1, <1>5 DEF IInv, QueueInv

-----------------------------------------------------------------------------
(***************************************************************************)
(* A buffer is posted, or none is                                          *)
(***************************************************************************)
\* The next buffer to post is of a free id.
LEMMA CandidateFree ==
    ASSUME QueueTypes, IdsInv, napi \in {"off", "refill"}, poll.todo > 0
    PROVE  /\ ring.free_ids \in Seq(Ids) /\ ring.free_ids # << >> /\ IsInjective(ring.free_ids)
           /\ Candidate \in Ids /\ Candidate \in ToSet(ring.free_ids)
           /\ poll.ids = << >> /\ poll.todo - 1 \in 0..(RingSize - 1)
           /\ used + 1 \in 0..(RingSize - 1) /\ poll.todo - 1 + (used + 1) < RingSize
<1>1. /\ poll.todo \in 0..(RingSize - 1) /\ used \in 0..(RingSize - 1)
      /\ ring.free_ids \in Seq(Ids) /\ IsInjective(ring.free_ids)
      /\ poll.ids = << >> /\ poll.todo + used < RingSize
      /\ used + Len(ring.free_ids) + Len(poll.ids) = RingSize
  BY DEF QueueTypes, IdsInv, FreeApart, RefillFits
<1>2. Len(poll.ids) = 0
  BY <1>1
<1>3. Len(ring.free_ids) \in Nat /\ RingSize \in Nat /\ RingSize > 1
  BY <1>1, LenProperties, RingSizeAssumption
<1>4. Len(ring.free_ids) # 0
  <2> DEFINE n == Len(ring.free_ids)
  <2>1. used + n + 0 = RingSize /\ n \in Nat
    BY <1>1, <1>2, <1>3
  <2> HIDE DEF n
  <2>2. n # 0
    BY <1>1, <1>3, <2>1
  <2> QED
    BY <2>2 DEF n
<1>5. ring.free_ids # << >>
  BY <1>4
<1>6. Candidate \in ToSet(ring.free_ids)
  BY <1>1, <1>5, TailApart DEF Candidate
<1>7. Candidate \in Ids
  BY <1>1, <1>6, InSequence
<1>8. poll.todo - 1 \in 0..(RingSize - 1) /\ used + 1 \in 0..(RingSize - 1)
      /\ poll.todo - 1 + (used + 1) < RingSize
  BY <1>1, <1>3
<1> QED
  BY <1>1, <1>5, <1>6, <1>7, <1>8

LEMMA PostIds ==
    ASSUME QueueTypes, IdsInv, rx_info \in [Ids -> Buffers], UNCHANGED <<cq, taken, napi>>,
           napi \in {"off", "refill"}, poll.todo > 0,
           NEW buf, buf.page # NoPage, NEW m, Post(Candidate, buf, m)
    PROVE  /\ ring' \in [free_ids : Seq(Ids), empty_rx_queue : 0..1]
           /\ poll' \in [work : 0..Budget, ids : Seq(Ids), todo : 0..(RingSize - 1)]
           /\ used' \in 0..(RingSize - 1) /\ sq' \in Seq(Ids) /\ Len(sq') = Len(sq) + 1
           /\ IdsInv'
<1> DEFINE c == Candidate
           t == Tail(ring.free_ids)
<1>1. /\ ring.free_ids \in Seq(Ids) /\ ring.free_ids # << >> /\ IsInjective(ring.free_ids)
      /\ c \in Ids /\ c \in ToSet(ring.free_ids) /\ c = Head(ring.free_ids)
      /\ poll.ids = << >> /\ poll.todo - 1 \in 0..(RingSize - 1)
      /\ used + 1 \in 0..(RingSize - 1) /\ poll.todo - 1 + (used + 1) < RingSize
  BY CandidateFree DEF Candidate
<1>2. /\ t \in Seq(Ids) /\ Len(t) = Len(ring.free_ids) - 1 /\ IsInjective(t)
      /\ ToSet(t) = ToSet(ring.free_ids) \ {c}
  BY <1>1, TailApart
<1>3. /\ rx_info' = [rx_info EXCEPT ![c] = buf] /\ sq' = Append(sq, c) /\ used' = used + 1
      /\ ring' = [ring EXCEPT !.free_ids = t] /\ poll' = [poll EXCEPT !.todo = @ - 1]
  BY DEF Post
<1> HIDE DEF c, t
<1>4. /\ ring' \in [free_ids : Seq(Ids), empty_rx_queue : 0..1] /\ ring'.free_ids = t
      /\ poll' \in [work : 0..Budget, ids : Seq(Ids), todo : 0..(RingSize - 1)]
      /\ poll'.ids = << >> /\ poll'.todo = poll.todo - 1
  <2>1. ring' \in [free_ids : Seq(Ids), empty_rx_queue : 0..1] /\ ring'.free_ids = t
    BY <1>2, <1>3 DEF QueueTypes
  <2>2. /\ poll' \in [work : 0..Budget, ids : Seq(Ids), todo : 0..(RingSize - 1)]
        /\ poll'.ids = poll.ids /\ poll'.todo = poll.todo - 1
    BY <1>1, <1>3 DEF QueueTypes
  <2> QED
    BY <1>1, <2>1, <2>2
<1>5. /\ c \notin ToSet(poll.ids) /\ c \in FreeIds /\ c \notin InFlight
      /\ c \notin ToSet(sq) /\ c \notin GoodIds(Waiting)
  <2>1. c \in FreeIds /\ c \notin ToSet(poll.ids)
    BY <1>1 DEF FreeIds, IdsInv, FreeApart
  <2> QED
    BY <2>1 DEF IdsInv, Parted, InFlight
<1>6. sq \in Seq(Ids) /\ IsInjective(sq)
  BY DEF QueueTypes, IdsInv, FlightApart
<1>7. /\ sq' \in Seq(Ids) /\ Len(sq') = Len(sq) + 1 /\ ToSet(sq') = ToSet(sq) \cup {c}
      /\ IsInjective(sq')
  BY <1>1, <1>3, <1>5, <1>6, AppendApart
<1>8. Waiting' = Waiting
  BY DEF Waiting
<1>9. FreeIds' = FreeIds \ {c} /\ InFlight' = InFlight \cup {c}
  <2>1. FreeIds' = FreeIds \ {c}
    BY <1>1, <1>2, <1>4, <1>5 DEF FreeIds
  <2>2. InFlight' = InFlight \cup {c}
    BY <1>7, <1>8 DEF InFlight, GoodIds
  <2> QED
    BY <2>1, <2>2
<1>10. FreeApart'
  <2>1. IsInjective(ring'.free_ids) /\ IsInjective(poll'.ids)
    BY <1>1, <1>2, <1>4 DEF IdsInv, FreeApart
  <2>2. ToSet(ring'.free_ids) \cap ToSet(poll'.ids) = {}
    BY <1>1, <1>2, <1>4 DEF IdsInv, FreeApart
  <2>3. used' + Len(ring'.free_ids) + Len(poll'.ids) = RingSize
    <3> DEFINE n == Len(ring.free_ids)
    <3>1. n \in Nat /\ Len(<< >>) = 0 /\ used \in Nat
      BY <1>1, LenProperties, RingSizeAssumption DEF QueueTypes
    <3>2. used + n + 0 = RingSize
      BY <1>1, <3>1 DEF IdsInv, FreeApart
    <3>3. Len(ring'.free_ids) = n - 1 /\ Len(poll'.ids) = 0 /\ used' = used + 1
      BY <1>2, <1>3, <1>4, <3>1
    <3> HIDE DEF n
    <3>4. (used + 1) + (n - 1) + 0 = RingSize
      BY <3>1, <3>2
    <3> QED
      BY <3>3, <3>4
  <2> QED
    BY <2>1, <2>2, <2>3 DEF FreeApart
<1>11. FlightApart'
  <2>1. Distinct(Waiting') /\ GoodIds(Waiting)' = GoodIds(Waiting) /\ IsInjective(sq')
    BY <1>7, <1>8 DEF IdsInv, FlightApart, GoodIds
  <2>2. ToSet(sq') \cap GoodIds(Waiting) = {}
    BY <1>5, <1>7 DEF IdsInv, FlightApart
  <2> QED
    BY <1>8, <2>1, <2>2 DEF FlightApart, Distinct
<1>12. Parted'
  BY <1>1, <1>5, <1>9 DEF IdsInv, Parted
<1>13. ReadWell'
  BY DEF IdsInv, ReadWell
<1>14. RefillFits'
  BY <1>1, <1>3, <1>4 DEF RefillFits
<1>15. HavePages'
  <2> SUFFICES ASSUME NEW i \in InFlight'
               PROVE  rx_info'[i].page # NoPage
    BY DEF HavePages
  <2>1. CASE i = c
    BY <1>1, <1>3, <2>1
  <2>2. CASE i # c
    <3>1. i \in InFlight
      BY <1>9, <2>2
    <3>2. i \in Ids /\ rx_info[i].page # NoPage
      BY <3>1 DEF IdsInv, Parted, HavePages
    <3> QED
      BY <1>3, <2>2, <3>2
  <2> QED
    BY <2>1, <2>2
<1>16. used' \in 0..(RingSize - 1)
  BY <1>1, <1>3
<1> QED
  BY <1>4, <1>7, <1>10, <1>11, <1>12, <1>13, <1>14, <1>15, <1>16 DEF IdsInv

LEMMA RefillOneKeeps ==
    ASSUME IInv, RefillOne
    PROVE  IInv'
<1>1. /\ UNCHANGED <<mode, rung, cq, taken, faults, stack, napi, missed, trigger_reset>>
      /\ napi \in {"off", "refill"} /\ poll.todo > 0
  BY DEF RefillOne, Refilling
<1>2. ~trigger_reset /\ IdsInv /\ QueueTypes /\ MemoryInv
  BY <1>1 DEF IInv, QueueInv
<1>3. /\ Candidate \in Ids /\ rx_info \in [Ids -> Buffers] /\ rung \in 0..Len(sq)
      /\ Len(sq) \in Nat
  BY <1>1, <1>2, CandidateFree, LenProperties DEF MemoryInv, Sound, Typed, QueueTypes
<1>4. ASSUME NEW buf, NEW m, Post(Candidate, buf, m), buf.page # NoPage,
             Sound(m, [rx_info EXCEPT ![Candidate] = buf], stack)
      PROVE  IInv'
  <2>1. /\ ring' \in [free_ids : Seq(Ids), empty_rx_queue : 0..1]
        /\ poll' \in [work : 0..Budget, ids : Seq(Ids), todo : 0..(RingSize - 1)]
        /\ used' \in 0..(RingSize - 1) /\ sq' \in Seq(Ids) /\ Len(sq') = Len(sq) + 1
        /\ IdsInv'
    BY <1>1, <1>2, <1>3, <1>4, PostIds
  <2>2. UNCHANGED <<failures, oops>> /\ rung' \in 0..Len(sq')
    BY <1>1, <1>3, <1>4, <2>1 DEF Post
  <2>3. QueueTypes'
    BY <1>1, <1>2, <2>1, <2>2 DEF QueueTypes
  <2>4. mem' = m /\ rx_info' = [rx_info EXCEPT ![Candidate] = buf] /\ stack' = stack
    BY <1>1, <1>4 DEF Post
  <2>5. Sound(mem', rx_info', stack')
    BY <1>4, <2>4
  <2>6. MemoryInv'
    BY <2>5 DEF MemoryInv
  <2> QED
    BY <1>1, <1>2, <2>1, <2>3, <2>6 DEF IInv, QueueInv
<1>5. CASE ~NeedsPage /\ Post(Candidate, rx_info[Candidate], mem)
  <2>1. rx_info[Candidate].page # NoPage
    BY <1>5 DEF NeedsPage
  <2>2. rx_info = [rx_info EXCEPT ![Candidate] = rx_info[Candidate]]
    BY <1>3
  <2>3. Sound(mem, [rx_info EXCEPT ![Candidate] = rx_info[Candidate]], stack)
    BY <1>2, <2>2 DEF MemoryInv
  <2> QED
    BY <1>4, <1>5, <2>1, <2>3
<1>6. CASE /\ NeedsPage
           /\ \E got \in GetPage : IF got.buf = NoBuffer THEN StopRefill(got.mem)
                                   ELSE Post(Candidate, got.buf, got.mem)
  <2>1. PICK got \in GetPage : IF got.buf = NoBuffer THEN StopRefill(got.mem)
                               ELSE Post(Candidate, got.buf, got.mem)
    BY <1>6
  <2>2. GotSound(got, Candidate)
    BY <1>2, <1>3, <1>6, GetPageSound DEF NeedsPage
  <2>3. CASE got.buf # NoBuffer
    <3>1. /\ got.buf.page \in Pages
          /\ Sound(got.mem, [rx_info EXCEPT ![Candidate] = got.buf], stack)
      BY <2>2, <2>3 DEF GotSound
    <3>2. got.buf.page # NoPage
      BY <3>1, PagesAssumption
    <3>3. Post(Candidate, got.buf, got.mem)
      BY <2>1, <2>3
    <3> QED
      BY <1>4, <3>1, <3>2, <3>3
  <2>4. CASE got.buf = NoBuffer
    <3>1. got.buf.page \notin Pages
      BY <2>4, PagesAssumption DEF NoBuffer
    <3>2. Sound(got.mem, rx_info, stack)
      BY <2>2, <3>1 DEF GotSound
    <3>3. /\ mem' = got.mem /\ poll' = [poll EXCEPT !.todo = 0] /\ Failed
          /\ UNCHANGED <<ring, used, rx_info, sq, oops>>
      BY <2>1, <2>4 DEF StopRefill
    <3>4. failures' \in 0..MaxFailures
      <4>1. failures \in 0..MaxFailures /\ MaxFailures \in Nat
        BY <1>2, BoundsAssumption DEF QueueTypes
      <4>2. failures' = IF failures < MaxFailures THEN failures + 1 ELSE failures
        BY <3>3 DEF Failed, MayFail
      <4> QED
        BY <4>1, <4>2
    <3>5. /\ poll' \in [work : 0..Budget, ids : Seq(Ids), todo : 0..(RingSize - 1)]
          /\ poll'.ids = poll.ids /\ poll'.todo = 0
      <4>1. 0 \in 0..(RingSize - 1)
        BY RingSizeAssumption
      <4> QED
        BY <1>2, <3>3, <4>1 DEF QueueTypes
    <3>6. QueueTypes'
      BY <1>1, <1>2, <3>3, <3>4, <3>5 DEF QueueTypes
    <3>7. Sound(mem', rx_info', stack')
      BY <1>1, <3>2, <3>3
    <3>8. FreeIds' = FreeIds /\ Waiting' = Waiting /\ InFlight' = InFlight
      BY <1>1, <3>3, <3>5 DEF FreeIds, Waiting, InFlight, GoodIds
    <3>9. FreeApart' /\ FlightApart' /\ Parted' /\ ReadWell' /\ HavePages'
      BY <1>1, <1>2, <3>3, <3>5, <3>8
         DEF IdsInv, FreeApart, FlightApart, Parted, ReadWell, HavePages, Distinct, GoodIds
    <3>10. RefillFits'
      <4>1. used \in 0..(RingSize - 1) /\ poll.ids = << >>
        BY <1>1, <1>2 DEF QueueTypes, IdsInv, RefillFits
      <4>2. 0 + used < RingSize
        BY <4>1, RingSizeAssumption
      <4> QED
        BY <3>3, <3>5, <4>1, <4>2 DEF RefillFits
    <3> QED
      BY <1>1, <1>2, <3>6, <3>7, <3>9, <3>10 DEF IInv, QueueInv, IdsInv, MemoryInv
  <2> QED
    BY <2>3, <2>4
<1>7. CASE /\ oops' = TRUE
           /\ UNCHANGED <<ring, used, rx_info, sq, mem, failures, poll>>
  <2>1. QueueTypes' /\ MemoryInv'
    BY <1>1, <1>2, <1>7, MemorySame DEF QueueTypes
  <2>2. IdsInv'
    BY <1>1, <1>2, <1>7, IdsSame
  <2> QED
    BY <1>1, <1>2, <2>1, <2>2 DEF IInv, QueueInv
<1> QED
  BY <1>5, <1>6, <1>7 DEF RefillOne

-----------------------------------------------------------------------------
(***************************************************************************)
(* A packet is taken                                                       *)
(***************************************************************************)
LEMMA IdsCount == IsFiniteSet(Ids) /\ Cardinality(Ids) = RingSize /\ BadId \notin Ids
<1>1. RingSize \in Nat /\ RingSize > 1
  BY RingSizeAssumption
<1>2. 0 \in Int /\ RingSize - 1 \in Int /\ ~(0 > RingSize - 1)
  BY <1>1
<1>3. IsFiniteSet(0..(RingSize - 1)) /\ Cardinality(0..(RingSize - 1)) = (RingSize - 1) - 0 + 1
  BY <1>2, FS_Interval
<1>4. BadId \notin Ids
  BY <1>1 DEF BadId, Ids
<1> QED
  BY <1>1, <1>3, <1>4 DEF Ids

\* The ids of a packet join those the poll has taken.
LEMMA TakenIds ==
    ASSUME QueueTypes, IdsInv, PacketNext
    PROVE  LET ids == TakenWith(Packet)
               n == Len(Packet)
           IN  /\ ids \in Seq(Ids) /\ IsInjective(ids)
               /\ n \in Nat /\ n > 0 /\ Len(ids) = Len(poll.ids) + n
               /\ ToSet(ids) = ToSet(poll.ids) \cup IdsOf(Packet)
               /\ ToSet(ring.free_ids) \cap ToSet(ids) = {}
               /\ n <= used
               /\ IdsOf(Packet) \subseteq InFlight
<1> DEFINE pkt == Packet
           s == IdSeq(pkt)
           p == poll.ids
           f == ring.free_ids
           ids == p \o s
           n == Len(pkt)
<1>1. PacketEnd \in 1..Len(Waiting) /\ Len(pkt) = PacketEnd /\ TakenOf(pkt)
      /\ IdsOf(pkt) \subseteq GoodIds(Waiting)
  BY PacketFacts
<1> HIDE DEF pkt
<1>2. s \in Seq(Ids) /\ Len(s) = n /\ IsInjective(s) /\ ToSet(s) = IdsOf(pkt)
  BY <1>1, PacketIdSeq
<1>3. n \in Nat /\ n > 0
  BY <1>1, WaitingType
<1>4. TakenWith(Packet) = ids
  BY DEF TakenWith, IdSeq, pkt
<1> HIDE DEF s
<1>5. /\ p \in Seq(Ids) /\ IsInjective(p) /\ f \in Seq(Ids) /\ IsInjective(f)
      /\ ToSet(f) \cap ToSet(p) = {} /\ used + Len(f) + Len(p) = RingSize
  BY DEF QueueTypes, IdsInv, FreeApart
<1>6. IdsOf(pkt) \subseteq InFlight /\ FreeIds = ToSet(f) \cup ToSet(p) /\ FreeIds \cap InFlight = {}
  BY <1>1 DEF InFlight, FreeIds, IdsInv, Parted
<1> HIDE DEF p, f
<1>7. ToSet(p) \cap ToSet(s) = {} /\ ToSet(f) \cap ToSet(s) = {}
  BY <1>2, <1>6
<1>8. ids \in Seq(Ids) /\ IsInjective(ids) /\ Len(ids) = Len(p) + n
      /\ ToSet(ids) = ToSet(p) \cup ToSet(s)
  BY <1>2, <1>5, <1>7, ConcatApart
<1> HIDE DEF ids
<1>9. ToSet(f) \cap ToSet(ids) = {}
  BY <1>5, <1>7, <1>8
<1> DEFINE all == f \o ids
<1>10. all \in Seq(Ids) /\ IsInjective(all) /\ Len(all) = Len(f) + Len(ids)
  BY <1>5, <1>8, <1>9, ConcatApart
<1> HIDE DEF all
<1>11. Len(all) <= RingSize
  <2>1. ToSet(all) \in SUBSET Ids
    BY <1>10, InSequence
  <2>2. Cardinality(ToSet(all)) = Len(all)
    BY <1>10, InjectiveCount
  <2>3. Cardinality(ToSet(all)) <= Cardinality(Ids)
    BY <2>1, IdsCount, Without
  <2> QED
    BY <2>2, <2>3, IdsCount
<1>12. n <= used
  <2>1. Len(f) \in Nat /\ Len(p) \in Nat /\ used \in Nat /\ RingSize \in Nat
    BY <1>5, LenProperties, RingSizeAssumption DEF QueueTypes
  <2> DEFINE a == Len(f)
             b == Len(p)
  <2>2. a \in Nat /\ b \in Nat /\ used \in Nat /\ RingSize \in Nat /\ used + a + b = RingSize
        /\ a + (b + n) <= RingSize
    BY <1>5, <1>8, <1>10, <1>11, <2>1
  <2> HIDE DEF a, b, n
  <2> QED
    BY <1>3, <2>2
<1> QED
  BY <1>2, <1>3, <1>4, <1>6, <1>8, <1>9, <1>12 DEF p, f, n, pkt

\* The ids, once the packet's completions are gone and its ids are free, in the poll
\* or already in the ring.
LEMMA TakenApart ==
    ASSUME QueueTypes, IdsInv, PacketNext,
           taken' = << >>, cq' = SubSeq(Waiting, PacketEnd + 1, Len(Waiting)), sq' = sq,
           used' = used - Len(Packet),
           \A i \in Ids \ IdsOf(Packet) : rx_info'[i] = rx_info[i],
           ring'.free_ids \in Seq(Ids), poll'.ids \in Seq(Ids),
           IsInjective(ring'.free_ids), IsInjective(poll'.ids),
           ToSet(ring'.free_ids) \cap ToSet(poll'.ids) = {},
           ToSet(ring'.free_ids) \cup ToSet(poll'.ids)
              = ToSet(ring.free_ids) \cup ToSet(TakenWith(Packet)),
           Len(ring'.free_ids) + Len(poll'.ids) = Len(ring.free_ids) + Len(TakenWith(Packet)),
           RefillFits'
    PROVE  IdsInv' /\ used' \in 0..(RingSize - 1) /\ cq' \in Seq(Completions)
<1> DEFINE ids == TakenWith(Packet)
           pkt == Packet
           n == Len(pkt)
<1>1. /\ ids \in Seq(Ids) /\ n \in Nat /\ n > 0 /\ Len(ids) = Len(poll.ids) + n
      /\ ToSet(ids) = ToSet(poll.ids) \cup IdsOf(pkt)
      /\ n <= used /\ IdsOf(pkt) \subseteq InFlight
  BY TakenIds
<1>2. /\ cq' \in Seq(Completions)
      /\ GoodIds(Waiting) = IdsOf(pkt) \cup GoodIds(cq')
      /\ IdsOf(pkt) \cap GoodIds(cq') = {} /\ Distinct(cq')
  BY PacketFacts
<1> HIDE DEF ids, pkt
<1>3. Waiting' = cq'
  <2>1. << >> \o cq' = cq'
    BY <1>2, ConcatEmptySeq
  <2> QED
    BY <2>1 DEF Waiting
<1>4. GoodIds(Waiting)' = GoodIds(cq')
  BY <1>3 DEF GoodIds
<1>5. ToSet(sq) \cap GoodIds(Waiting) = {} /\ IsInjective(sq)
  BY DEF IdsInv, FlightApart
<1>6. FlightApart'
  <2>1. IsInjective(sq') /\ Distinct(Waiting')
    BY <1>2, <1>3, <1>5
  <2>2. ToSet(sq') \cap GoodIds(Waiting)' = {}
    BY <1>2, <1>4, <1>5
  <2> QED
    BY <2>1, <2>2 DEF FlightApart, Distinct
<1>7. InFlight' = InFlight \ IdsOf(pkt)
  BY <1>2, <1>4, <1>5 DEF InFlight
<1>8. FreeIds' = FreeIds \cup IdsOf(pkt)
  BY <1>1 DEF FreeIds, ids
<1>9. Parted'
  BY <1>1, <1>7, <1>8 DEF IdsInv, Parted
<1>10. /\ used \in Nat /\ RingSize \in Nat /\ used <= RingSize - 1 /\ used' = used - n
       /\ Len(ring.free_ids) \in Nat /\ Len(poll.ids) \in Nat
       /\ Len(ring'.free_ids) \in Nat /\ Len(poll'.ids) \in Nat
       /\ used + Len(ring.free_ids) + Len(poll.ids) = RingSize
       /\ Len(ring'.free_ids) + Len(poll'.ids) = Len(ring.free_ids) + Len(ids)
  <2>1. /\ used \in Nat /\ RingSize \in Nat /\ used <= RingSize - 1
        /\ ring.free_ids \in Seq(Ids) /\ poll.ids \in Seq(Ids)
        /\ used + Len(ring.free_ids) + Len(poll.ids) = RingSize
    BY RingSizeAssumption DEF QueueTypes, IdsInv, FreeApart
  <2>2. /\ Len(ring.free_ids) \in Nat /\ Len(poll.ids) \in Nat
        /\ Len(ring'.free_ids) \in Nat /\ Len(poll'.ids) \in Nat
    BY <2>1, LenProperties
  <2> QED
    BY <2>1, <2>2 DEF ids, pkt
<1>11. used' \in 0..(RingSize - 1) /\ used' + Len(ring'.free_ids) + Len(poll'.ids) = RingSize
  <2> DEFINE a == Len(ring.free_ids)
             b == Len(poll.ids)
             c == Len(ring'.free_ids)
             d == Len(poll'.ids)
             u == used'
  <2>1. /\ a \in Nat /\ b \in Nat /\ c \in Nat /\ d \in Nat /\ u = used - n
        /\ used + a + b = RingSize /\ c + d = a + (b + n)
    BY <1>1, <1>10
  <2> HIDE DEF a, b, c, d, n, u
  <2>2. u \in 0..(RingSize - 1) /\ u + c + d = RingSize
    BY <1>1, <1>10, <2>1
  <2> QED
    BY <2>2 DEF c, d, u
<1>12. FreeApart'
  BY <1>11 DEF FreeApart
<1>13. ReadWell'
  BY DEF ReadWell
<1>14. HavePages'
  <2> SUFFICES ASSUME NEW i \in InFlight'
               PROVE  rx_info'[i].page # NoPage
    BY DEF HavePages
  <2>1. i \in InFlight /\ i \notin IdsOf(pkt) /\ i \in Ids
    BY <1>7 DEF IdsInv, Parted
  <2> QED
    BY <2>1 DEF IdsInv, HavePages, pkt
<1> QED
  BY <1>2, <1>6, <1>9, <1>11, <1>12, <1>13, <1>14 DEF IdsInv

LEMMA TakePacketKeeps ==
    ASSUME IInv, TakePacket
    PROVE  IInv'
<1> DEFINE ids == TakenWith(Packet)
           n == Len(Packet)
<1>1. PICK h \in Handled(Packet) \cup NotHandled(Packet) :
           /\ mem' = h.out.mem /\ rx_info' = h.out.rx_info /\ stack' = h.out.stack
           /\ IF h.on
              THEN /\ poll' = [poll EXCEPT !.work = @ + 1, !.ids = ids]
                   /\ UNCHANGED <<napi, ring, failures>>
              ELSE ToRefill(ids, FreeEntries + n) /\ Failed
  BY DEF TakePacket
<1>2. /\ napi = "poll" /\ poll.work < Budget /\ PacketNext
      /\ taken' = << >> /\ cq' = SubSeq(Waiting, PacketEnd + 1, Len(Waiting))
      /\ used' = used - n
      /\ UNCHANGED <<mode, sq, rung, faults, missed, trigger_reset, oops>>
  BY DEF TakePacket
<1>3. ~trigger_reset /\ IdsInv /\ QueueTypes /\ MemoryInv
  BY <1>2 DEF IInv, QueueInv
<1>4. TakenOf(Packet)
  BY <1>2, <1>3, PacketFacts
<1>5. /\ Sound(h.out.mem, h.out.rx_info, h.out.stack)
      /\ \A i \in Ids \ IdsOf(Packet) : h.out.rx_info[i] = rx_info[i]
      /\ h.on \in BOOLEAN
  BY <1>3, <1>4, PacketSound
<1>6. MemoryInv' /\ \A i \in Ids \ IdsOf(Packet) : rx_info'[i] = rx_info[i]
  <2>1. Sound(mem', rx_info', stack')
    BY <1>1, <1>5
  <2> QED
    BY <1>1, <1>5, <2>1 DEF MemoryInv
<1>7. /\ ids \in Seq(Ids) /\ IsInjective(ids) /\ ToSet(ring.free_ids) \cap ToSet(ids) = {}
      /\ n \in Nat /\ n <= used
  BY <1>2, <1>3, TakenIds
<1>8. /\ ring \in [free_ids : Seq(Ids), empty_rx_queue : 0..1]
      /\ ring.free_ids \in Seq(Ids) /\ IsInjective(ring.free_ids)
      /\ poll \in [work : 0..Budget, ids : Seq(Ids), todo : 0..(RingSize - 1)]
      /\ failures \in 0..MaxFailures
  BY <1>3 DEF QueueTypes, IdsInv, FreeApart
<1>9. taken' \in Seq(Completions)
  BY <1>2
<1> HIDE DEF ids, n
<1>10. CASE h.on
  <2>1. /\ poll' = [poll EXCEPT !.work = @ + 1, !.ids = ids]
        /\ UNCHANGED <<napi, ring, failures>>
    BY <1>1, <1>10
  <2>2. poll.work + 1 \in 0..Budget
    BY <1>2, <1>8, CacheAssumption
  <2>3. /\ poll' \in [work : 0..Budget, ids : Seq(Ids), todo : 0..(RingSize - 1)]
        /\ poll'.ids = ids
    BY <1>7, <1>8, <2>1, <2>2
  <2>4. RefillFits'
    BY <1>2, <2>1 DEF RefillFits
  <2>5. IdsInv' /\ used' \in 0..(RingSize - 1) /\ cq' \in Seq(Completions)
    <3>1. /\ ring'.free_ids = ring.free_ids /\ poll'.ids = TakenWith(Packet)
          /\ ring'.free_ids \in Seq(Ids) /\ poll'.ids \in Seq(Ids)
          /\ IsInjective(ring'.free_ids) /\ IsInjective(poll'.ids)
          /\ ToSet(ring'.free_ids) \cap ToSet(poll'.ids) = {}
      BY <1>7, <1>8, <2>1, <2>3 DEF ids
    <3>2. used' = used - Len(Packet)
      BY <1>2 DEF n
    <3>3. /\ ToSet(ring'.free_ids) \cup ToSet(poll'.ids)
               = ToSet(ring.free_ids) \cup ToSet(TakenWith(Packet))
          /\ Len(ring'.free_ids) + Len(poll'.ids)
               = Len(ring.free_ids) + Len(TakenWith(Packet))
      BY <3>1
    <3> QED
      BY <1>2, <1>3, <1>6, <2>4, <3>1, <3>2, <3>3, TakenApart
  <2>6. QueueTypes'
    BY <1>2, <1>3, <1>9, <2>1, <2>3, <2>5 DEF QueueTypes
  <2> QED
    BY <1>2, <1>3, <1>6, <2>5, <2>6 DEF IInv, QueueInv
<1>11. CASE ~h.on
  <2>1. ToRefill(ids, FreeEntries + n) /\ Failed
    BY <1>1, <1>11
  <2>2. FreeEntries + n \in 0..(RingSize - 1) /\ FreeEntries + n + used' < RingSize
    <3>1. FreeEntries \in Nat /\ FreeEntries + used = RingSize - 1 /\ RingSize \in Nat
          /\ used \in Nat
      BY <1>3, FreeEntriesType
    <3> QED
      BY <1>2, <1>7, <3>1
  <2>3. /\ ring.free_ids \o ids \in Seq(Ids) /\ IsInjective(ring.free_ids \o ids)
        /\ Len(ring.free_ids \o ids) = Len(ring.free_ids) + Len(ids)
        /\ ToSet(ring.free_ids \o ids) = ToSet(ring.free_ids) \cup ToSet(ids)
    BY <1>7, <1>8, ConcatApart
  <2>4. /\ ring' \in [free_ids : Seq(Ids), empty_rx_queue : 0..1]
        /\ ring'.free_ids = ring.free_ids \o ids
        /\ poll' \in [work : 0..Budget, ids : Seq(Ids), todo : 0..(RingSize - 1)]
        /\ poll'.ids = << >> /\ poll'.todo \in {0, FreeEntries + n} /\ napi' = "refill"
    BY <1>3, <1>7, <2>1, <2>2, <2>3, ToRefillFields
  <2>5. /\ ToSet(<< >>) = {} /\ IsInjective(<< >>) /\ Len(<< >>) = 0
        /\ Len(ring.free_ids) \in Nat /\ Len(ids) \in Nat
    BY <1>7, <1>8, LenProperties DEF ToSet, IsInjective
  <2>6. RefillFits'
    <3>1. CASE poll'.todo = FreeEntries + n
      BY <2>2, <2>4, <3>1 DEF RefillFits
    <3>2. CASE poll'.todo = 0
      <4>1. used \in Nat /\ RingSize \in Nat /\ used < RingSize
        BY <1>3, RingSizeAssumption DEF QueueTypes
      <4>2. 0 + used' < RingSize
        BY <1>2, <1>7, <4>1
      <4> QED
        BY <2>4, <3>2, <4>2 DEF RefillFits
    <3> QED
      BY <2>4, <3>1, <3>2
  <2>7. IdsInv' /\ used' \in 0..(RingSize - 1) /\ cq' \in Seq(Completions)
    <3>1. /\ ring'.free_ids \in Seq(Ids) /\ poll'.ids \in Seq(Ids)
          /\ IsInjective(ring'.free_ids) /\ IsInjective(poll'.ids)
      BY <2>3, <2>4, <2>5
    <3>2. ToSet(ring'.free_ids) \cap ToSet(poll'.ids) = {}
      BY <2>4, <2>5
    <3>3. /\ ToSet(ring'.free_ids) \cup ToSet(poll'.ids)
               = ToSet(ring.free_ids) \cup ToSet(TakenWith(Packet))
          /\ Len(ring'.free_ids) = Len(ring.free_ids) + Len(TakenWith(Packet))
          /\ Len(poll'.ids) = 0
      BY <2>3, <2>4, <2>5 DEF ids
    <3>4. Len(ring'.free_ids) + Len(poll'.ids) = Len(ring.free_ids) + Len(TakenWith(Packet))
      BY <2>5, <3>3 DEF ids
    <3>5. used' = used - Len(Packet)
      BY <1>2 DEF n
    <3> QED
      BY <1>2, <1>3, <1>6, <2>6, <3>1, <3>2, <3>3, <3>4, <3>5, TakenApart
  <2>8. failures' \in 0..MaxFailures
    BY <1>8, <2>1, BoundsAssumption DEF Failed, MayFail
  <2>9. QueueTypes'
    BY <1>2, <1>3, <1>9, <2>4, <2>7, <2>8 DEF QueueTypes
  <2> QED
    BY <1>2, <1>3, <1>6, <2>7, <2>9 DEF IInv, QueueInv
<1> QED
  BY <1>5, <1>10, <1>11

-----------------------------------------------------------------------------
(***************************************************************************)
(* The device completes a buffer, or tells of one there is not             *)
(***************************************************************************)
LEMMA WaitingGrows ==
    ASSUME QueueTypes, NEW c \in Completions, cq' = Append(cq, c), taken' = taken
    PROVE  /\ cq' \in Seq(Completions)
           /\ Waiting' = Append(Waiting, c) /\ Waiting' \in Seq(Completions)
           /\ GoodIds(Waiting)' = GoodIds(Waiting) \cup ({c.id} \ {BadId})
           /\ Distinct(Waiting) /\ c.id \notin GoodIds(Waiting) => Distinct(Waiting')
<1>1. cq \in Seq(Completions) /\ taken \in Seq(Completions)
  BY DEF QueueTypes
<1>2. cq' \in Seq(Completions)
  BY <1>1, AppendProperties
<1>3. Waiting \in Seq(Completions)
  BY WaitingType
<1>4. Append(cq, c) = cq \o <<c>> /\ Append(taken \o cq, c) = (taken \o cq) \o <<c>>
  <2>1. taken \o cq \in Seq(Completions)
    BY <1>1, ConcatProperties
  <2> QED
    BY <1>1, <2>1, AppendIsConcat
<1>5. <<c>> \in Seq(Completions)
  OBVIOUS
<1>6. (taken \o cq) \o <<c>> = taken \o (cq \o <<c>>)
  BY <1>1, <1>5, ConcatAssociative
<1>7. Waiting' = Append(Waiting, c)
  BY <1>4, <1>6 DEF Waiting
<1>8. /\ Append(Waiting, c) \in Seq(Completions)
      /\ GoodIds(Append(Waiting, c)) = GoodIds(Waiting) \cup ({c.id} \ {BadId})
      /\ Distinct(Waiting) /\ c.id \notin GoodIds(Waiting) => Distinct(Append(Waiting, c))
  BY <1>3, AppendCompletion
<1>9. GoodIds(Waiting)' = GoodIds(Append(Waiting, c))
  BY <1>7 DEF GoodIds
<1> QED
  BY <1>2, <1>7, <1>8, <1>9

LEMMA FillsKeeps ==
    ASSUME IInv, NEW k \in 1..rung, NEW c \in Completions, c.id = sq[k], Fills(k, c),
           UNCHANGED <<mode, ring, used, rx_info, taken, mem, stack, failures, napi, missed,
                       poll, trigger_reset, oops>>,
           faults' \in 0..MaxFaults
    PROVE  IInv'
<1>1. sq' = RemoveAt(sq, k) /\ rung' = rung - 1 /\ cq' = Append(cq, c)
  BY DEF Fills
<1>2. QueueTypes /\ sq \in Seq(Ids) /\ rung \in 0..Len(sq) /\ Len(sq) \in Nat
  BY LenProperties DEF IInv, QueueTypes
<1>3. k \in 1..Len(sq)
  BY <1>2
<1>4. sq[k] \in Ids /\ sq[k] \in ToSet(sq) /\ sq[k] # BadId
  BY <1>2, <1>3, InSequence, IdsCount, ElementOfSeq
<1>5. /\ sq' \in Seq(Ids) /\ Len(sq') = Len(sq) - 1
      /\ IsInjective(sq) => IsInjective(sq') /\ ToSet(sq') = ToSet(sq) \ {sq[k]}
  BY <1>1, <1>2, <1>3, RemoveAtApart
<1>6. /\ cq' \in Seq(Completions)
      /\ Waiting' = Append(Waiting, c) /\ Waiting' \in Seq(Completions)
      /\ GoodIds(Waiting)' = GoodIds(Waiting) \cup ({c.id} \ {BadId})
      /\ Distinct(Waiting) /\ c.id \notin GoodIds(Waiting) => Distinct(Waiting')
  BY <1>1, <1>2, WaitingGrows
<1>7. rung' \in 0..Len(sq')
  BY <1>1, <1>2, <1>5
<1>8. QueueTypes'
  BY <1>2, <1>5, <1>6, <1>7 DEF QueueTypes
<1>9. MemoryInv'
  BY MemorySame DEF IInv
<1>10. CASE trigger_reset
  BY <1>8, <1>9, <1>10 DEF IInv, QueueInv
<1>11. CASE ~trigger_reset
  <2>1. /\ IsInjective(sq) /\ Distinct(Waiting) /\ ToSet(sq) \cap GoodIds(Waiting) = {} /\ IdsInv
    BY <1>11 DEF IInv, QueueInv, IdsInv, FlightApart
  <2>2. /\ IsInjective(sq') /\ ToSet(sq') = ToSet(sq) \ {sq[k]}
        /\ GoodIds(Waiting)' = GoodIds(Waiting) \cup {sq[k]}
        /\ Distinct(Waiting')
    BY <1>4, <1>5, <1>6, <2>1
  <2>3. FlightApart'
    <3>1. ToSet(sq') \cap GoodIds(Waiting)' = {}
      BY <2>1, <2>2
    <3> QED
      BY <2>2, <3>1 DEF FlightApart, Distinct
  <2>4. InFlight' = InFlight /\ FreeIds' = FreeIds
    BY <1>4, <2>2 DEF InFlight, FreeIds
  <2>5. FreeApart' /\ Parted' /\ ReadWell' /\ RefillFits' /\ HavePages'
    BY <2>1, <2>4 DEF IdsInv, FreeApart, Parted, ReadWell, RefillFits, HavePages
  <2> QED
    BY <1>8, <1>9, <1>11, <2>3, <2>5 DEF IInv, QueueInv, IdsInv
<1> QED
  BY <1>10, <1>11

LEMMA DeviceFillsKeeps ==
    ASSUME IInv, DeviceFills
    PROVE  IInv'
<1>1. PICK k \in 1..rung, size \in Sizes, last \in BOOLEAN :
           /\ Fills(k, [id |-> sq[k], size |-> size, first |-> ~Open, last |-> last])
           /\ IF last \/ OpenLength + 1 < SglSize THEN UNCHANGED faults
              ELSE faults < MaxFaults /\ faults' = faults + 1
  BY DEF DeviceFills
<1> DEFINE c == [id |-> sq[k], size |-> size, first |-> ~Open, last |-> last]
<1>2. c \in Completions /\ c.id = sq[k]
  <2>1. sq[k] \in Ids
    <3>1. sq \in Seq(Ids) /\ rung \in 0..Len(sq) /\ Len(sq) \in Nat
      BY LenProperties DEF IInv, QueueTypes
    <3>2. k \in 1..Len(sq)
      BY <3>1
    <3> QED
      BY <3>1, <3>2, ElementOfSeq
  <2>2. (~Open) \in BOOLEAN
    OBVIOUS
  <2> QED
    BY <2>1, <2>2 DEF Completions
<1>3. Fills(k, c)
  BY <1>1
<1> HIDE DEF c
<1>4. faults' \in 0..MaxFaults
  <2>1. faults \in 0..MaxFaults /\ MaxFaults \in Nat
    BY BoundsAssumption DEF IInv, QueueTypes
  <2>2. faults' = faults \/ (faults < MaxFaults /\ faults' = faults + 1)
    BY <1>1
  <2> QED
    BY <2>1, <2>2
<1>5. UNCHANGED <<mode, ring, used, rx_info, taken, mem, stack, failures, napi, missed, poll,
                  trigger_reset, oops>>
  BY DEF DeviceFills
<1> QED
  BY <1>2, <1>3, <1>4, <1>5, FillsKeeps

LEMMA DeviceErrsKeeps ==
    ASSUME IInv, DeviceErrs
    PROVE  IInv'
<1>1. UNCHANGED <<mode, ring, used, rx_info, taken, mem, stack, failures, napi, missed, poll,
                  trigger_reset, oops>>
  BY DEF DeviceErrs
<1>2. faults' \in 0..MaxFaults
  <2>1. faults \in 0..MaxFaults /\ MaxFaults \in Nat
    BY BoundsAssumption DEF IInv, QueueTypes
  <2>2. faults < MaxFaults /\ faults' = faults + 1
    BY DEF DeviceErrs
  <2> QED
    BY <2>1, <2>2
<1>3. (~Open) \in BOOLEAN /\ "large" \in Sizes /\ BadId \in Ids \cup {BadId}
  BY DEF Sizes
<1>4. CASE /\ cq' = Append(cq, [id |-> BadId, size |-> "large", first |-> ~Open,
                                last |-> TRUE])
           /\ UNCHANGED <<sq, rung>>
  <2> DEFINE c == [id |-> BadId, size |-> "large", first |-> ~Open, last |-> TRUE]
  <2>1. c \in Completions /\ c.id = BadId
    BY <1>3 DEF Completions
  <2>2. cq' = Append(cq, c) /\ QueueTypes
    BY <1>4 DEF IInv
  <2> HIDE DEF c
  <2>3. /\ cq' \in Seq(Completions)
        /\ GoodIds(Waiting)' = GoodIds(Waiting) \cup ({c.id} \ {BadId})
        /\ Distinct(Waiting) /\ c.id \notin GoodIds(Waiting) => Distinct(Waiting')
    BY <1>1, <2>1, <2>2, WaitingGrows
  <2>4. BadId \notin GoodIds(Waiting)
    BY DEF GoodIds
  <2>5. GoodIds(Waiting)' = GoodIds(Waiting) /\ (Distinct(Waiting) => Distinct(Waiting'))
    BY <2>1, <2>3, <2>4
  <2>6. QueueTypes' /\ MemoryInv'
    BY <1>1, <1>2, <1>4, <2>2, <2>3, MemorySame DEF IInv, QueueTypes
  <2>7. CASE trigger_reset
    BY <1>1, <2>6, <2>7 DEF IInv, QueueInv
  <2>8. CASE ~trigger_reset
    <3>1. InFlight' = InFlight /\ FreeIds' = FreeIds /\ IdsInv
      BY <1>1, <1>4, <2>5, <2>8 DEF InFlight, FreeIds, IInv, QueueInv
    <3>2. FreeApart' /\ Parted' /\ ReadWell' /\ RefillFits' /\ HavePages'
      BY <1>1, <3>1 DEF IdsInv, FreeApart, Parted, ReadWell, RefillFits, HavePages
    <3>3. FlightApart'
      <4>1. IsInjective(sq) /\ Distinct(Waiting) /\ ToSet(sq) \cap GoodIds(Waiting) = {}
        BY <3>1 DEF IdsInv, FlightApart
      <4>2. IsInjective(sq') /\ Distinct(Waiting') /\ ToSet(sq') \cap GoodIds(Waiting)' = {}
        BY <1>4, <2>5, <4>1
      <4> QED
        BY <4>2 DEF FlightApart, Distinct
    <3> QED
      BY <1>1, <2>6, <2>8, <3>2, <3>3 DEF IInv, QueueInv, IdsInv
  <2> QED
    BY <2>7, <2>8
<1>5. CASE /\ rung > 0
           /\ Fills(1, [id |-> sq[1], size |-> "large", first |-> TRUE, last |-> TRUE])
  <2> DEFINE c == [id |-> sq[1], size |-> "large", first |-> TRUE, last |-> TRUE]
  <2>1. sq \in Seq(Ids) /\ rung \in 0..Len(sq) /\ Len(sq) \in Nat
    BY LenProperties DEF IInv, QueueTypes
  <2>2. 1 \in 1..Len(sq) /\ 1 \in 1..rung
    BY <1>5, <2>1
  <2>3. sq[1] \in Ids
    BY <2>1, <2>2, ElementOfSeq
  <2>4. c \in Completions /\ c.id = sq[1]
    BY <1>3, <2>3 DEF Completions
  <2>5. Fills(1, c)
    BY <1>5
  <2> HIDE DEF c
  <2> QED
    BY <1>1, <1>2, <2>2, <2>4, <2>5, FillsKeeps
<1> QED
  BY <1>4, <1>5 DEF DeviceErrs

-----------------------------------------------------------------------------
(***************************************************************************)
(* A new ring                                                              *)
(***************************************************************************)
LEMMA NewIds ==
    /\ NewRing \in [free_ids : Seq(Ids), empty_rx_queue : 0..1]
    /\ IsInjective(NewRing.free_ids) /\ ToSet(NewRing.free_ids) = Ids
    /\ Len(NewRing.free_ids) = RingSize
    /\ FirstRefill \in [work : 0..Budget, ids : Seq(Ids), todo : 0..(RingSize - 1)]
    /\ FirstRefill.ids = << >> /\ FirstRefill.todo = RingSize - 1
<1> DEFINE s == [i \in 1..RingSize |-> i - 1]
<1>1. RingSize \in Nat /\ RingSize > 1
  BY RingSizeAssumption
<1>2. \A i \in 1..RingSize : i - 1 \in Ids
  BY <1>1 DEF Ids
<1>3. s \in [1..RingSize -> Ids] /\ DOMAIN s = 1..RingSize /\ \A i \in 1..RingSize : s[i] = i - 1
  BY <1>2
<1> HIDE DEF s
<1>4. s \in Seq(Ids) /\ Len(s) = RingSize
  BY <1>1, <1>3, SeqDef
<1>5. IsInjective(s)
  BY <1>1, <1>3 DEF IsInjective
<1>6. \A x \in Ids : x + 1 \in 1..RingSize /\ s[x + 1] = x
  BY <1>1, <1>3 DEF Ids
<1>7. ToSet(s) = Ids
  BY <1>3, <1>6 DEF ToSet
<1>8. NewRing = [free_ids |-> s, empty_rx_queue |-> 0]
  BY DEF NewRing, s
<1>9. FirstRefill \in [work : 0..Budget, ids : Seq(Ids), todo : 0..(RingSize - 1)]
  <2>1. 0 \in 0..Budget /\ << >> \in Seq(Ids) /\ RingSize - 1 \in 0..(RingSize - 1)
    BY <1>1, CacheAssumption
  <2> QED
    BY <2>1 DEF FirstRefill
<1>10. FirstRefill.ids = << >> /\ FirstRefill.todo = RingSize - 1
  BY DEF FirstRefill
<1> QED
  BY <1>4, <1>5, <1>7, <1>8, <1>9, <1>10

\* Every id is free and nothing is with the device.
Fresh ==
    /\ ring = NewRing /\ used = 0 /\ sq = << >> /\ rung = 0 /\ cq = << >> /\ taken = << >>
    /\ napi = "off" /\ missed = FALSE /\ poll = FirstRefill /\ trigger_reset = FALSE

LEMMA FreshIds ==
    ASSUME Fresh
    PROVE  IdsInv
<1>1. /\ ring.free_ids = NewRing.free_ids /\ poll.ids = << >> /\ poll.todo = RingSize - 1
      /\ used = 0 /\ sq = << >> /\ cq = << >> /\ taken = << >>
      /\ RingSize \in Nat /\ RingSize > 1
  BY NewIds, RingSizeAssumption DEF Fresh
<1>2. ToSet(<< >>) = {} /\ IsInjective(<< >>) /\ Len(<< >>) = 0
  BY DEF ToSet, IsInjective
<1>3. Waiting = << >>
  BY <1>1 DEF Waiting
<1>4. GoodIds(Waiting) = {} /\ Distinct(Waiting)
  BY <1>3 DEF GoodIds, Distinct
<1>5. FreeIds = Ids /\ InFlight = {}
  BY <1>1, <1>2, <1>4, NewIds DEF FreeIds, InFlight
<1>6. FreeApart
  BY <1>1, <1>2, NewIds DEF FreeApart
<1>7. FlightApart
  BY <1>1, <1>2, <1>4 DEF FlightApart
<1>8. Parted /\ HavePages
  BY <1>5 DEF Parted, HavePages
<1>9. ReadWell
  BY <1>1 DEF ReadWell
<1>10. RefillFits
  BY <1>1 DEF RefillFits
<1> QED
  BY <1>6, <1>7, <1>8, <1>9, <1>10 DEF IdsInv

LEMMA FreshTypes ==
    ASSUME Fresh, mode \in Modes, failures \in 0..MaxFailures, faults \in 0..MaxFaults,
           oops \in BOOLEAN
    PROVE  QueueTypes
<1>1. << >> \in Seq(Ids) /\ << >> \in Seq(Completions) /\ Len(<< >>) = 0 /\ 0 \in 0..0
      /\ 0 \in 0..(RingSize - 1)
  BY RingSizeAssumption
<1>2. rung \in 0..Len(sq)
  BY <1>1 DEF Fresh
<1> QED
  BY <1>1, <1>2, NewIds DEF Fresh, QueueTypes

LEMMA ResetKeeps ==
    ASSUME IInv, Reset
    PROVE  IInv'
<1>1. Fresh' /\ UNCHANGED <<mode, stack, failures, faults, oops>>
      /\ mem' = AfterFreeing /\ rx_info' = [i \in Ids |-> NoBuffer]
  BY DEF Reset, Fresh
<1>2. (Fresh => IdsInv)'
  BY FreshIds, PTL
<1>3. ((Fresh /\ mode \in Modes /\ failures \in 0..MaxFailures /\ faults \in 0..MaxFaults
         /\ oops \in BOOLEAN) => QueueTypes)'
  BY FreshTypes, PTL
<1>4. QueueTypes'
  BY <1>1, <1>3 DEF IInv, QueueTypes
<1>5. Sound(mem', rx_info', stack')
  BY <1>1, ResetSound DEF IInv
<1> QED
  BY <1>1, <1>2, <1>4, <1>5 DEF IInv, QueueInv, MemoryInv, Fresh

LEMMA InitKeeps ==
    ASSUME Init
    PROVE  IInv
<1>1. Fresh /\ mode \in Modes /\ failures = 0 /\ faults = 0 /\ oops = FALSE
  BY DEF Init, Fresh
<1>2. QueueTypes
  <2>1. 0 \in 0..MaxFailures /\ 0 \in 0..MaxFaults
    BY BoundsAssumption
  <2>2. failures \in 0..MaxFailures /\ faults \in 0..MaxFaults /\ oops \in BOOLEAN
    BY <1>1, <2>1
  <2> QED
    BY <1>1, <2>2, FreshTypes
<1>3. QueueInv
  BY <1>1, FreshIds DEF QueueInv, Fresh
<1>4. /\ mem = [refs |-> [p \in Pages |-> 0], mapped |-> {}, cache |-> << >>, head |-> 0,
                error |-> FALSE]
      /\ rx_info = [i \in Ids |-> NoBuffer] /\ stack = {}
  BY DEF Init
<1>5. Typed(mem, rx_info, stack)
  <2>1. mem \in Memories
    BY <1>4 DEF Memories
  <2>2. NoBuffer \in Buffers
    BY DEF NoBuffer, Buffers, Halves
  <2>3. rx_info \in [Ids -> Buffers]
    BY <1>4, <2>2
  <2> QED
    BY <1>4, <2>1, <2>3 DEF Typed
<1>6. CacheFits(mem)
  BY <1>4, CacheAssumption DEF CacheFits
<1>7. Counted(mem, rx_info, stack)
  <2> SUFFICES ASSUME NEW p \in Pages
               PROVE  mem.refs[p] = Cardinality(At(rx_info, p)) + Cardinality(CachedAt(mem, p))
                                    + Cardinality(PartsOf(stack, p))
    BY DEF Counted
  <2>1. At(rx_info, p) = {}
    BY <1>4, PagesAssumption DEF At, NoBuffer
  <2>2. CachedAt(mem, p) = {} /\ PartsOf(stack, p) = {}
    BY <1>4 DEF CachedAt, PartsOf
  <2>3. mem.refs[p] = 0
    BY <1>4
  <2> QED
    BY <2>1, <2>2, <2>3, FS_EmptySet
<1>8. Owned(rx_info, stack)
  BY <1>4 DEF Owned, NoBuffer
<1> QED
  BY <1>2, <1>3, <1>5, <1>6, <1>7, <1>8 DEF IInv, MemoryInv, Sound

-----------------------------------------------------------------------------
(***************************************************************************)
(* The theorems                                                            *)
(***************************************************************************)
LEMMA StutterKeeps ==
    ASSUME IInv, UNCHANGED vars
    PROVE  IInv'
<1>1. UNCHANGED <<mode, ring, used, rx_info, sq, rung, cq, taken, faults, mem, stack, failures,
                  napi, missed, poll, trigger_reset, oops>>
  BY DEF vars, deviceVars
<1>2. QueueTypes' /\ MemoryInv'
  BY <1>1, MemorySame DEF IInv, QueueTypes
<1>3. QueueInv'
  BY <1>1, IdsSame DEF IInv, QueueInv
<1> QED
  BY <1>2, <1>3 DEF IInv

LEMMA NextKeeps ==
    ASSUME IInv, Next
    PROVE  IInv'
<1>1. CASE BeginPoll
  BY <1>1, BeginPollKeeps
<1>2. CASE TakePacket
  BY <1>2, TakePacketKeeps
<1>3. CASE NoPacket
  BY <1>3, NoPacketKeeps
<1>4. CASE BudgetUsed
  BY <1>4, BudgetUsedKeeps
<1>5. CASE BadCompletion
  BY <1>5, BadCompletionKeeps
<1>6. CASE RefillOne
  BY <1>6, RefillOneKeeps
<1>7. CASE FinishRefill
  BY <1>7, FinishRefillKeeps
<1>8. CASE DeviceFills
  BY <1>8, DeviceFillsKeeps
<1>9. CASE DeviceErrs
  BY <1>9, DeviceErrsKeeps
<1>10. CASE Interrupt
  BY <1>10, InterruptKeeps
<1>11. CASE TimerChecks
  BY <1>11, TimerChecksKeeps
<1>12. CASE StackFrees
  BY <1>12, StackFreesKeeps
<1>13. CASE Reset
  BY <1>13, ResetKeeps
<1> QED
  BY <1>1, <1>2, <1>3, <1>4, <1>5, <1>6, <1>7, <1>8, <1>9, <1>10, <1>11, <1>12, <1>13
     DEF Next, Napi, Device

\* The invariant holds in every state of every behaviour.
LEMMA Inductive == Spec => []IInv
<1>1. Init => IInv
  BY InitKeeps
<1>2. IInv /\ [Next]_vars => IInv'
  BY NextKeeps, StutterKeeps
<1> QED
  BY <1>1, <1>2, PTL DEF Spec

\* Every variable keeps its type; among it, the indices that the code computes with:
\* used never below zero (ena_com_comp_ack() takes as many as the packet has) nor above
\* what the ring may hold, the page cache never longer than max_size.
THEOREM TypeCorrect == Spec => []TypeOK
<1>1. IInv => TypeOK
  <2> SUFFICES ASSUME IInv
               PROVE  TypeOK
    OBVIOUS
  <2>1. QueueTypes /\ Typed(mem, rx_info, stack) /\ CacheFits(mem)
    BY DEF IInv, MemoryInv, Sound
  <2>2. /\ mem.refs \in [Pages -> Nat] /\ mem.mapped \subseteq Pages
        /\ mem.cache \in Seq(Pages) /\ mem.head \in Nat /\ mem.error \in BOOLEAN
    BY <2>1 DEF Typed, Memories
  <2>3. Len(mem.cache) <= CacheSize /\ mem.head \in 0..CacheSize
    <3>1. Len(mem.cache) \in Nat /\ CacheSize \in Nat
      BY <2>2, LenProperties, CacheAssumption
    <3> QED
      BY <2>1, <2>2, <3>1 DEF CacheFits
  <2>4. rx_info \in [Ids -> [page : Pages \cup {NoPage}, half : Halves, lpc : BOOLEAN]]
    BY <2>1 DEF Typed, Buffers
  <2>5. stack \subseteq [page : Pages, halves : SUBSET Halves]
    <3>1. HalfSets \subseteq SUBSET Halves
      BY DEF HalfSets, Halves
    <3> QED
      BY <2>1, <3>1 DEF Typed, Parts
  <2>6. /\ ring.free_ids \in Seq(Ids) /\ ring.empty_rx_queue \in 0..1
        /\ poll.work \in 0..Budget /\ poll.todo \in 0..(RingSize - 1) /\ poll.ids \in Seq(Ids)
    BY <2>1 DEF QueueTypes
  <2> QED
    BY <2>1, <2>2, <2>3, <2>4, <2>5, <2>6 DEF QueueTypes, TypeOK
<1> QED
  BY <1>1, Inductive, PTL

\* No receive buffer is lost and none is posted twice, whatever the device completes,
\* fails to complete or completes wrongly, until the reset that this asks for
\* (ena_refill_rx_bufs(), ena_clean_rx_irq()).
THEOREM NoBufferLost == Spec => []BuffersAccounted
<1>1. IInv => BuffersAccounted
  <2> SUFFICES ASSUME IInv, ~trigger_reset
               PROVE  LET free == ToSet(ring.free_ids) \cup ToSet(poll.ids)
                          inFlight == (ToSet(sq) \cup {c.id : c \in ToSet(Waiting)})
                                      \ {BadId}
                      IN  /\ free \cap inFlight = {}
                          /\ free \cup inFlight = Ids
                          /\ Cardinality(inFlight) = used
                          /\ Len(ring.free_ids) + Len(poll.ids) = Cardinality(free)
    BY DEF BuffersAccounted
  <2> DEFINE free == ToSet(ring.free_ids) \cup ToSet(poll.ids)
             inFlight == (ToSet(sq) \cup {c.id : c \in ToSet(Waiting)}) \ {BadId}
             a == Len(ring.free_ids)
             b == Len(poll.ids)
  <2>1. QueueTypes /\ IdsInv
    BY DEF IInv, QueueInv
  <2>2. /\ ring.free_ids \in Seq(Ids) /\ poll.ids \in Seq(Ids) /\ sq \in Seq(Ids)
        /\ IsInjective(ring.free_ids) /\ IsInjective(poll.ids)
        /\ ToSet(ring.free_ids) \cap ToSet(poll.ids) = {} /\ used + a + b = RingSize
        /\ FreeIds \cap InFlight = {} /\ FreeIds \cup InFlight = Ids
    BY <2>1 DEF QueueTypes, IdsInv, FreeApart, Parted
  <2>3. inFlight = InFlight
    <3>1. BadId \notin ToSet(sq)
      BY <2>2, InSequence, IdsCount
    <3>2. {c.id : c \in ToSet(Waiting)} = {Waiting[k].id : k \in DOMAIN Waiting}
      BY DEF ToSet
    <3> QED
      BY <3>1, <3>2 DEF InFlight, GoodIds
  <2>4. free = FreeIds
    BY DEF FreeIds
  <2>5. Cardinality(free) = a + b
    <3> DEFINE all == ring.free_ids \o poll.ids
    <3>1. all \in Seq(Ids) /\ Len(all) = a + b /\ ToSet(all) = free /\ IsInjective(all)
      BY <2>2, ConcatApart
    <3> HIDE DEF all, free, a, b
    <3> QED
      BY <3>1, InjectiveCount
  <2> HIDE DEF inFlight, free
  <2>6. free \subseteq Ids /\ inFlight = Ids \ free
    BY <2>2, <2>3, <2>4
  <2>7. Cardinality(inFlight) = RingSize - Cardinality(free)
    BY <2>6, IdsCount, Without
  <2>8. a \in Nat /\ b \in Nat /\ used \in Nat /\ RingSize \in Nat
    BY <2>1, <2>2, LenProperties, RingSizeAssumption DEF QueueTypes
  <2> HIDE DEF a, b
  <2>9. Cardinality(inFlight) = used
    BY <2>2, <2>5, <2>7, <2>8
  <2> QED
    BY <2>2, <2>3, <2>4, <2>5, <2>9 DEF inFlight, free, a, b
<1> QED
  BY <1>1, Inductive, PTL

\* The network stack and the device never hold the same part of a page, no two buffers
\* are in one page, and no part is given to the stack twice.
THEOREM DisjointOwners == Spec => []OneOwner
<1>1. IInv => OneOwner
  <2> SUFFICES ASSUME IInv
               PROVE  OneOwner
    OBVIOUS
  <2>1. Owned(rx_info, stack) /\ stack \in SUBSET Parts
    BY DEF IInv, MemoryInv, Sound, Typed
  <2>2. ASSUME NEW i \in Ids, NEW s \in stack
        PROVE  {<<rx_info[i].page, h>> : h \in Rest(rx_info[i])}
                 \cap {<<s.page, h>> : h \in s.halves} = {}
    <3> SUFFICES ASSUME NEW h \in Rest(rx_info[i]), h \in s.halves, rx_info[i].page = s.page
                 PROVE  FALSE
      OBVIOUS
    <3>1. rx_info[i].half = 1 /\ 1 \notin s.halves
      BY <2>1 DEF Owned
    <3>2. h = 1
      BY <3>1 DEF Rest, Halves
    <3> QED
      BY <3>1, <3>2
  <2>3. ASSUME NEW i \in Ids, NEW j \in Ids, rx_info[i].page # NoPage, i # j
        PROVE  rx_info[i].page # rx_info[j].page
    BY <2>1, <2>3 DEF Owned
  <2>4. ASSUME NEW s \in stack, NEW t \in stack, s # t
        PROVE  {<<s.page, h>> : h \in s.halves} \cap {<<t.page, h>> : h \in t.halves} = {}
    <3> SUFFICES ASSUME NEW h \in s.halves, h \in t.halves, s.page = t.page
                 PROVE  FALSE
      OBVIOUS
    <3>1. s.halves \cap t.halves # {}
      OBVIOUS
    <3> QED
      BY <2>1, <2>4, <3>1 DEF Owned
  <2> QED
    BY <2>2, <2>3, <2>4 DEF OneOwner
<1> QED
  BY <1>1, Inductive, PTL

\* The reference count of a page is the number of its holders, in every mode: a page is
\* freed when the last of them lets go, and not before.
THEOREM ReferencesMatch == Spec => []RefsAccounted
<1>1. IInv => RefsAccounted
  BY DEF IInv, MemoryInv, Sound, Counted, At, CachedAt, PartsOf, RefsAccounted
<1> QED
  BY <1>1, Inductive, PTL
=============================================================================
