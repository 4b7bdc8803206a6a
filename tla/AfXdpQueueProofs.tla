--------------------------- MODULE AfXdpQueueProofs ---------------------------
(***************************************************************************)
(* Theorems about AfXdpQueue, for every size of the two rings, all frames, *)
(* every budget and every bound: the socket's frames are given back in the *)
(* order in which they were handed over, and each has one holder.          *)
(*                                                                         *)
(* The invariant has three parts besides the types.  The transmit ring:    *)
(* what is left of the frames handed over is, in this order, what the      *)
(* slots from next_to_clean on hold.  The ids of the receive ring: they    *)
(* are in one place, and one that the device has, or had, has a frame.     *)
(* The frames: the places where one can be are apart.                      *)
(***************************************************************************)
EXTENDS AfXdpQueue, FiniteSetTheorems, SequenceTheorems, WellFoundedInduction, TLAPS

\* The slots from next_to_clean up to next_to_use, while those cleaned may not have been
\* acknowledged.
Window == used - poll.done

\* What a sequence has from one place on is, in its order, what the n slots from
\* another on hold, and no other slot holds a frame.
InTurn(turn, from, seq, n, first, info) ==
    /\ turn \in [from..Len(seq) -> 0..(n - 1)]
    /\ \A i, j \in from..Len(seq) : i < j => turn[i] < turn[j]
    /\ \A i \in from..Len(seq) : info[After(first, turn[i])] = seq[i]
    /\ \A s \in Slots : info[s] \in Frames =>
          \E i \in from..Len(seq) : s = After(first, turn[i])
Ordered(from, seq, n, first, info) ==
    \E turn \in [from..Len(seq) -> 0..(n - 1)] : InTurn(turn, from, seq, n, first, info)

RingInv ==
    /\ poll.done <= used /\ next_to_use = After(next_to_clean, Window)
    /\ poll.zc <= Len(reserved) /\ (napi # "ack" => poll.zc = 0 /\ poll.done = 0)
    /\ Ordered(poll.zc + 1, reserved, Window, next_to_clean, tx_info)

\* The ids.
IdsApart(free, out, packets) ==
    /\ IsInjective(free) /\ IsInjective(out) /\ ToSet(free) \cap ToSet(out) = {}
    /\ \A k \in DOMAIN packets :
          /\ IsInjective(packets[k]) /\ ToSet(packets[k]) \cap ToSet(free) = {}
          /\ ToSet(packets[k]) \cap ToSet(out) = {}
    /\ \A k, l \in DOMAIN packets : k # l => ToSet(packets[k]) \cap ToSet(packets[l]) = {}
HaveFrames(info, out, packets) ==
    /\ \A i \in ToSet(out) : info[i] \in Frames
    /\ \A k \in DOMAIN packets : \A i \in ToSet(packets[k]) : info[i] \in Frames

IdsInv ==
    /\ IdsApart(free_ids, posted, rx_cq) /\ Len(free_ids) + rx_used = RxSize
    /\ HaveFrames(rx_info, posted, rx_cq)

\* The frames.
Received(info) == {info[i] : i \in RxIds} \ {NoFrame}
OneSlot(info) == \A i, j \in RxIds : info[i] = info[j] /\ info[i] # NoFrame => i = j
Parted(A, B, C, D, E) ==
    /\ A \cap (B \cup C \cup D \cup E) = {} /\ B \cap (C \cup D \cup E) = {}
    /\ C \cap (D \cup E) = {} /\ D \cap E = {}
    /\ A \cup B \cup C \cup D \cup E = Frames

FramesInv ==
    /\ IsInjective(tx_desc) /\ IsInjective(reserved) /\ OneSlot(rx_info)
    /\ Parted(app, fill, ToSet(tx_desc), ToSet(reserved), Received(rx_info))

\* The types.
SocketTypes ==
    app \subseteq Frames /\ fill \subseteq Frames /\ tx_desc \in Seq(Frames)
    /\ reserved \in Seq(Frames)
TxTypes ==
    /\ tx_info \in [Slots -> Frames \cup {NoFrame, Other}] /\ acked \subseteq Slots
    /\ next_to_use \in Slots /\ next_to_clean \in Slots /\ used \in 0..(TxSize - 1)
DevTypes ==
    unrung \subseteq Slots /\ inDevice \subseteq Slots /\ tx_cq \subseteq Slots \cup {BadSlot}
RxTypes ==
    /\ rx_info \in [RxIds -> Frames \cup {NoFrame}] /\ free_ids \in Seq(RxIds)
    /\ rx_used \in 0..(RxSize - 1) /\ posted \in Seq(RxIds) /\ rx_cq \in Seq(Seq(RxIds))
Polls == [zc : 0..(TxSize - 1), done : 0..(TxSize - 1), needs_wakeup : BOOLEAN,
          work : 0..(Budget + 1), error : BOOLEAN, xdp_tx : BOOLEAN]
NapiTypes ==
    /\ napi \in {"idle", "scheduled", "clean", "ack", "xmit", "txflag", "rx", "rxflag",
                 "end"}
    /\ missed \in BOOLEAN /\ poll \in Polls
FlagTypes ==
    /\ uses_need_wakeup \in BOOLEAN /\ kick \in BOOLEAN
    /\ need_wakeup \in [tx : BOOLEAN, rx : BOOLEAN]
    /\ event \in BOOLEAN /\ trigger_reset \in BOOLEAN
Counts == others \in 0..MaxOthers /\ faults \in 0..MaxFaults

QueueTypes == TxTypes /\ DevTypes /\ RxTypes /\ NapiTypes
Types == SocketTypes /\ QueueTypes /\ FlagTypes /\ Counts

IInv == Types /\ RingInv /\ IdsInv /\ FramesInv

-----------------------------------------------------------------------------
(***************************************************************************)
(* The slots of a ring                                                     *)
(***************************************************************************)
\* A slot of the ring, counted from another.
LEMMA AfterIs ==
    ASSUME NEW a \in Slots, NEW k \in 0..TxSize
    PROVE  /\ After(a, k) \in Slots
           /\ After(a, k) = IF a + k < TxSize THEN a + k ELSE a + k - TxSize
<1>0. TxSize \in Nat /\ TxSize # 0 /\ a \in 0..(TxSize - 1)
  BY SizesAssumption DEF Slots
<1>1. CASE a + k < TxSize
  <2>1. (a + k) % TxSize = a + k
    BY <1>0, <1>1
  <2> QED
    BY <1>0, <1>1, <2>1 DEF After, Slots
<1>2. CASE ~(a + k < TxSize)
  <2>1. (a + k) % TxSize = a + k - TxSize
    BY <1>0, <1>2
  <2> QED
    BY <1>0, <1>2, <2>1 DEF After, Slots
<1> QED
  BY <1>1, <1>2

\* Slots fewer than the ring has are different ones.
LEMMA AfterApart ==
    ASSUME NEW a \in Slots, NEW j \in 0..(TxSize - 1), NEW k \in 0..(TxSize - 1),
           After(a, j) = After(a, k)
    PROVE  j = k
<1>0. TxSize \in Nat /\ TxSize # 0 /\ a \in 0..(TxSize - 1)
  BY SizesAssumption DEF Slots
<1>1. j \in 0..TxSize /\ k \in 0..TxSize
  BY <1>0
<1>2. /\ After(a, j) = IF a + j < TxSize THEN a + j ELSE a + j - TxSize
      /\ After(a, k) = IF a + k < TxSize THEN a + k ELSE a + k - TxSize
  BY <1>1, AfterIs
<1>3. (IF a + j < TxSize THEN a + j ELSE a + j - TxSize)
          = (IF a + k < TxSize THEN a + k ELSE a + k - TxSize)
  BY <1>2
<1> QED
  BY <1>0, <1>3

\* Counting on.
LEMMA AfterAfter ==
    ASSUME NEW a \in Slots, NEW m \in Nat, NEW n \in Nat, m + n < TxSize
    PROVE  /\ After(a, m) \in Slots /\ After(a, m + n) \in Slots
           /\ After(After(a, m), n) = After(a, m + n)
<1>0. TxSize \in Nat /\ TxSize # 0 /\ a \in 0..(TxSize - 1)
  BY SizesAssumption DEF Slots
<1>1. m \in 0..TxSize /\ n \in 0..TxSize /\ m + n \in 0..TxSize
  BY <1>0
<1>2. /\ After(a, m) \in Slots
      /\ After(a, m) = IF a + m < TxSize THEN a + m ELSE a + m - TxSize
      /\ After(a, m + n) \in Slots
      /\ After(a, m + n) = IF a + (m + n) < TxSize THEN a + (m + n)
                           ELSE a + (m + n) - TxSize
  BY <1>1, AfterIs
<1> DEFINE b == After(a, m)
<1> HIDE DEF b
<1>3. b \in Slots /\ b = IF a + m < TxSize THEN a + m ELSE a + m - TxSize
  BY <1>2 DEF b
<1>4. After(b, n) = IF b + n < TxSize THEN b + n ELSE b + n - TxSize
  BY <1>1, <1>3, AfterIs
<1>5. After(b, n) = After(a, m + n)
  BY <1>0, <1>1, <1>2, <1>3, <1>4
<1> QED
  BY <1>2, <1>5 DEF b

\* How far on a slot is.
LEMMA Distance ==
    ASSUME NEW a \in Slots, NEW k \in 0..(TxSize - 1)
    PROVE  (After(a, k) + TxSize - a) % TxSize = k
<1>0. TxSize \in Nat /\ TxSize # 0 /\ a \in 0..(TxSize - 1)
  BY SizesAssumption DEF Slots
<1>1. k \in 0..TxSize
  BY <1>0
<1>2. After(a, k) = IF a + k < TxSize THEN a + k ELSE a + k - TxSize
  BY <1>1, AfterIs
<1>3. CASE a + k < TxSize
  <2>1. After(a, k) + TxSize - a = TxSize + k
    BY <1>0, <1>2, <1>3
  <2>2. (TxSize + k) % TxSize = k
    BY <1>0
  <2> QED
    BY <2>1, <2>2
<1>4. CASE ~(a + k < TxSize)
  <2>1. After(a, k) + TxSize - a = k
    BY <1>0, <1>2, <1>4
  <2>2. k % TxSize = k
    BY <1>0
  <2> QED
    BY <2>1, <2>2
<1> QED
  BY <1>3, <1>4

(***************************************************************************)
(* Numbers                                                                 *)
(***************************************************************************)
LEMMA MinExists ==
    ASSUME NEW T \in SUBSET Nat, T # {}
    PROVE  Min(T) \in T /\ \A y \in T : Min(T) <= y
<1> DEFINE R == OpToRel(<, Nat)
<1>1. IsWellFoundedOn(R, Nat)
  BY NatLessThanWellFounded
<1>2. \A x, y \in Nat : y < x => <<y, x>> \in R
  BY DEF OpToRel
<1> HIDE DEF R
<1>3. \E x \in T : \A y \in T : ~(<<y, x>> \in R)
  BY <1>1, WFMin
<1>4. PICK x \in T : \A y \in T : ~(<<y, x>> \in R)
  BY <1>3
<1>5. ASSUME NEW y \in T
      PROVE  x <= y
  <2>1. x \in Nat /\ y \in Nat
    OBVIOUS
  <2>2. ~(y < x)
    BY <1>2, <1>4, <2>1
  <2> QED
    BY <2>1, <2>2
<1> QED
  BY <1>5 DEF Min

LEMMA MaxExists ==
    ASSUME NEW n \in Nat, NEW T \in SUBSET (0..n), T # {}
    PROVE  Max(T) \in T /\ \A y \in T : y <= Max(T)
<1> DEFINE U == {x \in 0..n : n - x \in T}
<1>1. U \in SUBSET Nat
  OBVIOUS
<1>2. U # {}
  <2>1. PICK y \in T : TRUE
    OBVIOUS
  <2>2. n - y \in 0..n /\ n - (n - y) = y
    BY <2>1
  <2> QED
    BY <2>1, <2>2
<1>3. PICK m : m \in U /\ \A y \in U : m <= y
  <2> HIDE DEF U
  <2>1. Min(U) \in U /\ \A y \in U : Min(U) <= y
    BY <1>1, <1>2, MinExists
  <2> QED
    BY <2>1
<1>4. n - m \in T
  BY <1>3
<1>5. ASSUME NEW y \in T
      PROVE  n - m >= y
  <2>1. y \in 0..n /\ n - y \in 0..n /\ n - (n - y) = y
    OBVIOUS
  <2>2. m <= n - y
    BY <1>3, <2>1
  <2> QED
    BY <1>3, <2>1, <2>2
<1>6. \E x \in T : \A y \in T : x >= y
  BY <1>4, <1>5
<1>7. Max(T) \in T /\ \A y \in T : Max(T) >= y
  BY <1>6 DEF Max
<1>8. \A y \in T : Max(T) >= y => y <= Max(T)
  BY <1>7
<1> QED
  BY <1>7, <1>8

\* A set of numbers with everything below each of them.
LEMMA ClosedBelow ==
    ASSUME NEW n \in Nat, NEW T \in SUBSET (1..n), \A i \in T : \A j \in 1..i : j \in T
    PROVE  /\ Cardinality(T) \in 0..n /\ T = 1..Cardinality(T)
           /\ IsFiniteSet(T)
<1>1. \E d \in 0..n : T = 1..d
  <2>1. CASE T = {}
    <3>1. T = 1..0 /\ 0 \in 0..n
      BY <2>1
    <3> QED
      BY <3>1
  <2>2. CASE T # {}
    <3>1. T \in SUBSET (0..n)
      OBVIOUS
    <3>2. Max(T) \in T /\ \A y \in T : y <= Max(T)
      BY <2>2, <3>1, MaxExists
    <3>3. PICK d : d = Max(T)
      OBVIOUS
    <3>4. d \in T /\ (\A y \in T : y <= d) /\ d \in 1..n
      BY <3>2, <3>3
    <3>5. \A j \in 1..d : j \in T
      BY <3>4
    <3>6. ASSUME NEW j \in T
          PROVE  j \in 1..d
      <4>1. j \in 1..n /\ j <= d
        BY <3>4
      <4> QED
        BY <3>4, <4>1
    <3>7. T = 1..d
      BY <3>5, <3>6
    <3>8. d \in 0..n
      BY <3>4
    <3> QED
      BY <3>7, <3>8
  <2> QED
    BY <2>1, <2>2
<1>2. PICK d \in 0..n : T = 1..d
  BY <1>1
<1>3. IsFiniteSet(1..d) /\ Cardinality(1..d) = d
  <2>1. IsFiniteSet(1..d) /\ Cardinality(1..d) = IF 1 > d THEN 0 ELSE d - 1 + 1
    BY FS_Interval
  <2> QED
    BY <2>1
<1> QED
  BY <1>2, <1>3

-----------------------------------------------------------------------------
-----------------------------------------------------------------------------
(***************************************************************************)
(* Sequences in which nothing comes twice                                  *)
(***************************************************************************)
LEMMA InSequence ==
    ASSUME NEW S, NEW s \in Seq(S)
    PROVE  /\ ToSet(s) \in SUBSET S /\ DOMAIN s = 1..Len(s) /\ Len(s) \in Nat
           /\ \A x : x \in ToSet(s) <=> \E k \in 1..Len(s) : s[k] = x
  BY LenProperties, ElementOfSeq DEF ToSet

LEMMA InjectiveCount ==
    ASSUME NEW S, NEW s \in Seq(S), IsInjective(s)
    PROVE  IsFiniteSet(ToSet(s)) /\ Cardinality(ToSet(s)) = Len(s)
<1> DEFINE n == Len(s)
<1>1. n \in Nat /\ s \in [1..n -> ToSet(s)]
  BY LenProperties DEF ToSet
<1>2. \A x \in ToSet(s) : \E k \in 1..n : s[k] = x
  BY InSequence
<1>3. s \in Bijection(1..n, ToSet(s))
  <2> HIDE DEF n
  <2> QED
    BY <1>1, <1>2 DEF Bijection, Injection, Surjection
<1>4. ExistsBijection(1..n, ToSet(s))
  BY <1>3 DEF ExistsBijection
<1> QED
  BY <1>1, <1>4, FS_CountingElements, FS_NatBijection

LEMMA TailApart ==
    ASSUME NEW S, NEW s \in Seq(S), s # << >>, IsInjective(s)
    PROVE  /\ Tail(s) \in Seq(S) /\ Len(Tail(s)) = Len(s) - 1 /\ IsInjective(Tail(s))
           /\ Head(s) \in ToSet(s) /\ ToSet(Tail(s)) = ToSet(s) \ {Head(s)}
<1> DEFINE t == Tail(s)
<1>1. /\ t \in Seq(S) /\ Len(t) = Len(s) - 1 /\ Len(s) \in Nat \ {0} /\ Head(s) = s[1]
      /\ \A k \in 1..Len(t) : t[k] = s[k + 1]
  BY HeadTailProperties, EmptySeq
<1> HIDE DEF t
<1>2. /\ DOMAIN s = 1..Len(s) /\ DOMAIN t = 1..Len(t)
      /\ \A x : x \in ToSet(s) <=> \E k \in 1..Len(s) : s[k] = x
      /\ \A x : x \in ToSet(t) <=> \E k \in 1..Len(t) : t[k] = x
  BY <1>1, InSequence
<1>3. IsInjective(t)
  <2> SUFFICES ASSUME NEW i \in 1..Len(t), NEW j \in 1..Len(t), t[i] = t[j]
               PROVE  i = j
    BY <1>2 DEF IsInjective
  <2>1. i + 1 \in 1..Len(s) /\ j + 1 \in 1..Len(s) /\ s[i + 1] = s[j + 1]
    BY <1>1
  <2>2. i + 1 = j + 1
    BY <1>2, <2>1 DEF IsInjective
  <2> QED
    BY <2>2
<1>4. Head(s) \in ToSet(s)
  BY <1>1, <1>2
<1>5. ASSUME NEW x
      PROVE  x \in ToSet(t) <=> x \in ToSet(s) /\ x # Head(s)
  <2>1. ASSUME NEW k \in 1..Len(t), t[k] = x
        PROVE  x \in ToSet(s) /\ x # Head(s)
    <3>1. k + 1 \in 1..Len(s) /\ s[k + 1] = x /\ 1 \in 1..Len(s) /\ k + 1 # 1
      BY <1>1, <2>1
    <3> QED
      BY <1>1, <1>2, <3>1 DEF IsInjective
  <2>2. ASSUME NEW k \in 1..Len(s), s[k] = x, x # Head(s)
        PROVE  x \in ToSet(t)
    <3>1. k # 1
      BY <1>1, <2>2
    <3>2. k - 1 \in 1..Len(t) /\ k = (k - 1) + 1
      BY <1>1, <3>1
    <3>3. t[k - 1] = x
      BY <1>1, <2>2, <3>2
    <3> QED
      BY <1>2, <3>2, <3>3
  <2> QED
    BY <1>2, <2>1, <2>2
<1> QED
  BY <1>1, <1>3, <1>4, <1>5 DEF t

LEMMA AppendApart ==
    ASSUME NEW S, NEW s \in Seq(S), NEW x \in S
    PROVE  /\ Append(s, x) \in Seq(S) /\ Len(Append(s, x)) = Len(s) + 1
           /\ ToSet(Append(s, x)) = ToSet(s) \cup {x}
           /\ IsInjective(s) /\ x \notin ToSet(s) => IsInjective(Append(s, x))
<1> DEFINE t == Append(s, x)
<1>1. /\ t \in Seq(S) /\ Len(t) = Len(s) + 1 /\ Len(s) \in Nat
      /\ \A k \in 1..Len(s) : t[k] = s[k]
      /\ t[Len(s) + 1] = x
  BY AppendProperties, LenProperties
<1>2. /\ DOMAIN s = 1..Len(s) /\ DOMAIN t = 1..Len(t)
      /\ \A y : y \in ToSet(s) <=> \E k \in 1..Len(s) : s[k] = y
      /\ \A y : y \in ToSet(t) <=> \E k \in 1..Len(t) : t[k] = y
  BY <1>1, InSequence
<1> HIDE DEF t
<1>3. \A k \in 1..Len(t) : k \in 1..Len(s) \/ k = Len(s) + 1
  BY <1>1
<1>4. ToSet(t) = ToSet(s) \cup {x}
  <2>1. \A y : y \in ToSet(t) => y \in ToSet(s) \cup {x}
    BY <1>1, <1>2, <1>3
  <2>2. \A k \in 1..Len(s) : k \in 1..Len(t)
    BY <1>1
  <2>3. Len(s) + 1 \in 1..Len(t)
    BY <1>1
  <2>4. \A y : y \in ToSet(s) \cup {x} => y \in ToSet(t)
    BY <1>1, <1>2, <2>2, <2>3
  <2> QED
    BY <2>1, <2>4
<1>5. IsInjective(s) /\ x \notin ToSet(s) => IsInjective(t)
  <2> SUFFICES ASSUME IsInjective(s), x \notin ToSet(s),
                      NEW i \in 1..Len(t), NEW j \in 1..Len(t), t[i] = t[j]
               PROVE  i = j
    BY <1>2 DEF IsInjective
  <2>1. CASE i \in 1..Len(s) /\ j \in 1..Len(s)
    BY <1>1, <1>2, <2>1 DEF IsInjective
  <2>2. CASE i = Len(s) + 1 \/ j = Len(s) + 1
    BY <1>1, <1>2, <1>3, <2>2
  <2> QED
    BY <1>3, <2>1, <2>2
<1> QED
  BY <1>1, <1>4, <1>5 DEF t

LEMMA ConcatApart ==
    ASSUME NEW S, NEW s \in Seq(S), NEW t \in Seq(S)
    PROVE  /\ s \o t \in Seq(S) /\ Len(s \o t) = Len(s) + Len(t)
           /\ ToSet(s \o t) = ToSet(s) \cup ToSet(t)
           /\ IsInjective(s) /\ IsInjective(t) /\ ToSet(s) \cap ToSet(t) = {}
                => IsInjective(s \o t)
<1> DEFINE u == s \o t
           m == Len(s)
           n == Len(t)
<1>1. /\ u \in Seq(S) /\ Len(u) = m + n /\ m \in Nat /\ n \in Nat
      /\ \A k \in 1..(m + n) : u[k] = IF k <= m THEN s[k] ELSE t[k - m]
  BY ConcatProperties, LenProperties
<1>2. /\ DOMAIN s = 1..m /\ DOMAIN t = 1..n /\ DOMAIN u = 1..(m + n)
      /\ \A y : y \in ToSet(s) <=> \E k \in 1..m : s[k] = y
      /\ \A y : y \in ToSet(t) <=> \E k \in 1..n : t[k] = y
      /\ \A y : y \in ToSet(u) <=> \E k \in 1..(m + n) : u[k] = y
  BY <1>1, InSequence
<1> HIDE DEF u, m, n
<1>3. /\ \A k \in 1..m : k \in 1..(m + n) /\ u[k] = s[k]
      /\ \A k \in 1..n : k + m \in 1..(m + n) /\ u[k + m] = t[k]
  <2>1. \A k \in 1..m : k \in 1..(m + n) /\ u[k] = s[k]
    BY <1>1
  <2>2. ASSUME NEW k \in 1..n
        PROVE  k + m \in 1..(m + n) /\ u[k + m] = t[k]
    <3>1. k + m \in 1..(m + n) /\ ~(k + m <= m) /\ (k + m) - m = k
      BY <1>1
    <3> QED
      BY <1>1, <3>1
  <2> QED
    BY <2>1, <2>2
<1>4. \A k \in 1..(m + n) : k \in 1..m \/ \E l \in 1..n : k = l + m
  <2> SUFFICES ASSUME NEW k \in 1..(m + n), k \notin 1..m
               PROVE  \E l \in 1..n : k = l + m
    OBVIOUS
  <2>1. k - m \in 1..n /\ k = (k - m) + m
    BY <1>1
  <2> QED
    BY <2>1
<1>5. ToSet(u) = ToSet(s) \cup ToSet(t)
  <2>1. \A y : y \in ToSet(u) => y \in ToSet(s) \cup ToSet(t)
    BY <1>2, <1>3, <1>4
  <2>2. \A y : y \in ToSet(s) \cup ToSet(t) => y \in ToSet(u)
    BY <1>2, <1>3
  <2> QED
    BY <2>1, <2>2
<1>6. ASSUME IsInjective(s), IsInjective(t), ToSet(s) \cap ToSet(t) = {}
      PROVE  IsInjective(u)
  <2> SUFFICES ASSUME NEW i \in 1..(m + n), NEW j \in 1..(m + n), u[i] = u[j]
               PROVE  i = j
    BY <1>2 DEF IsInjective
  <2>1. CASE i \in 1..m /\ j \in 1..m
    BY <1>2, <1>3, <1>6, <2>1 DEF IsInjective
  <2>2. ASSUME NEW k \in 1..n, NEW l \in 1..n, i = k + m, j = l + m
        PROVE  i = j
    BY <1>2, <1>3, <1>6, <2>2 DEF IsInjective
  <2>3. ASSUME NEW k \in 1..n, i \in 1..m, j = k + m
        PROVE  FALSE
    BY <1>2, <1>3, <1>6, <2>3
  <2>4. ASSUME NEW k \in 1..n, j \in 1..m, i = k + m
        PROVE  FALSE
    BY <1>2, <1>3, <1>6, <2>4
  <2> QED
    BY <1>4, <2>1, <2>2, <2>3, <2>4
<1> QED
  BY <1>1, <1>5, <1>6 DEF u, m, n

LEMMA Piece ==
    ASSUME NEW S, NEW s \in Seq(S), NEW a \in 1..(Len(s) + 1), NEW b \in 0..Len(s), a <= b + 1
    PROVE  /\ SubSeq(s, a, b) \in Seq(S) /\ Len(SubSeq(s, a, b)) = b - a + 1
           /\ \A k \in 1..(b - a + 1) : /\ SubSeq(s, a, b)[k] = s[a + k - 1]
                                        /\ a + k - 1 \in a..b /\ a + k - 1 \in 1..Len(s)
<1>1. Len(s) \in Nat /\ \A k \in a..b : k \in 1..Len(s) /\ s[k] \in S
  BY LenProperties, ElementOfSeq
<1>2. /\ SubSeq(s, a, b) \in Seq(S)
      /\ Len(SubSeq(s, a, b)) = IF a <= b THEN b - a + 1 ELSE 0
      /\ \A k \in 1..(b - a + 1) : SubSeq(s, a, b)[k] = s[a + k - 1]
  BY <1>1, SubSeqProperties
<1>3. (IF a <= b THEN b - a + 1 ELSE 0) = b - a + 1
  BY <1>1
<1>4. \A k \in 1..(b - a + 1) : a + k - 1 \in a..b /\ a + k - 1 \in 1..Len(s)
  BY <1>1
<1> QED
  BY <1>2, <1>3, <1>4

LEMMA FrontAndRest ==
    ASSUME NEW S, NEW s \in Seq(S), NEW n \in 0..Len(s)
    PROVE  LET u == SubSeq(s, 1, n)
               v == SubSeq(s, n + 1, Len(s))
           IN  /\ u \in Seq(S) /\ Len(u) = n
               /\ \A k \in 1..n : u[k] = s[k] /\ k \in 1..Len(s)
               /\ v \in Seq(S) /\ Len(v) = Len(s) - n
               /\ \A k \in 1..(Len(s) - n) : v[k] = s[n + k] /\ n + k \in 1..Len(s)
<1>0. Len(s) \in Nat
  BY LenProperties
<1>1. /\ SubSeq(s, 1, n) \in Seq(S) /\ Len(SubSeq(s, 1, n)) = n - 1 + 1
      /\ \A k \in 1..(n - 1 + 1) : /\ SubSeq(s, 1, n)[k] = s[1 + k - 1]
                                   /\ 1 + k - 1 \in 1..Len(s)
  <2>1. 1 \in 1..(Len(s) + 1) /\ 1 <= n + 1
    BY <1>0
  <2> QED
    BY <2>1, Piece
<1>2. PICK a \in 1..(Len(s) + 1) : a = n + 1
  BY <1>0
<1>3. PICK b \in 0..Len(s) : b = Len(s)
  BY <1>0
<1>4. /\ SubSeq(s, a, b) \in Seq(S) /\ Len(SubSeq(s, a, b)) = b - a + 1
      /\ \A k \in 1..(b - a + 1) : /\ SubSeq(s, a, b)[k] = s[a + k - 1]
                                   /\ a + k - 1 \in 1..Len(s)
  <2>1. a <= b + 1
    BY <1>0, <1>2, <1>3
  <2> QED
    BY <2>1, Piece
<1>5. b - a + 1 = Len(s) - n /\ \A k \in 1..(Len(s) - n) : a + k - 1 = n + k
  BY <1>0, <1>2, <1>3
<1>6. n - 1 + 1 = n /\ \A k \in 1..n : 1 + k - 1 = k
  BY <1>0
<1> QED
  BY <1>1, <1>2, <1>3, <1>4, <1>5, <1>6

-----------------------------------------------------------------------------
(***************************************************************************)
(* The transmit ring                                                       *)
(***************************************************************************)
Packets == Frames \cup {NoFrame, Other}
PlacedAt(to, m) == {After(to, k) : k \in 0..(m - 1)}
PacketFor(s, to, packets) == packets[1 + ((s + TxSize - to) % TxSize)]

Load(packets) == Len(packets) \in Nat /\ \A k \in 1..Len(packets) : packets[k] \in Packets
Placed(info, to, packets) ==
    [s \in Slots |-> IF s \in PlacedAt(to, Len(packets)) THEN PacketFor(s, to, packets)
                     ELSE info[s]]

PlacedBehind(new, info, first, n, packets) ==
    /\ new \in [Slots -> Packets]
    /\ \A k \in 0..(n - 1) : /\ After(first, k) \in Slots
                             /\ new[After(first, k)] = info[After(first, k)]
    /\ \A k \in 1..Len(packets) : /\ After(first, n + k - 1) \in Slots
                                  /\ new[After(first, n + k - 1)] = packets[k]
    /\ \A s \in Slots : \/ new[s] = info[s]
                        \/ \E k \in 1..Len(packets) : s = After(first, n + k - 1)

\* What the slots hold after packets have been placed behind a window.
LEMMA PlacedSlots ==
    ASSUME NEW first \in Slots, NEW n \in Nat, NEW info \in [Slots -> Packets],
           NEW packets, Load(packets), n + Len(packets) < TxSize
    PROVE  PlacedBehind(Placed(info, After(first, n), packets), info, first, n, packets)
<1> DEFINE m == Len(packets)
           to == After(first, n)
           new == Placed(info, to, packets)
<1>0. TxSize \in Nat /\ TxSize # 0 /\ m \in Nat /\ n + m < TxSize
  BY SizesAssumption DEF Load
<1>a. to = After(first, n)
  OBVIOUS
<1>b. new = [s \in Slots |-> IF s \in PlacedAt(to, m) THEN PacketFor(s, to, packets)
                             ELSE info[s]]
  BY DEF Placed
<1>3. \A k \in 1..m : packets[k] \in Packets
  BY DEF Load
<1> HIDE DEF m, to, new
<1>1. to \in Slots /\ \A k \in 0..(m - 1) : After(to, k) = After(first, n + k)
                                            /\ After(to, k) \in Slots
  <2>1. ASSUME NEW k \in 0..(m - 1)
        PROVE  k \in Nat /\ n + k < TxSize
    BY <1>0
  <2>2. to \in Slots
    <3>1. n \in 0..TxSize
      BY <1>0
    <3> QED
      BY <1>a, <3>1, AfterIs
  <2>3. ASSUME NEW k \in 0..(m - 1)
        PROVE  After(to, k) = After(first, n + k) /\ After(to, k) \in Slots
    BY <1>a, <2>1, AfterAfter
  <2> QED
    BY <2>2, <2>3
<1>2. ASSUME NEW k \in 0..(m - 1)
      PROVE  PacketFor(After(to, k), to, packets) = packets[k + 1]
  <2>1. k \in 0..(TxSize - 1)
    BY <1>0
  <2>2. (After(to, k) + TxSize - to) % TxSize = k
    BY <1>1, <2>1, Distance
  <2>3. 1 + k = k + 1
    OBVIOUS
  <2> QED
    BY <2>2, <2>3 DEF PacketFor
<1>4. ASSUME NEW s \in Slots
      PROVE  new[s] = IF s \in PlacedAt(to, m) THEN PacketFor(s, to, packets) ELSE info[s]
  BY <1>b
<1>5. ASSUME NEW k \in 1..m
      PROVE  /\ After(first, n + k - 1) \in Slots
             /\ new[After(first, n + k - 1)] = packets[k]
             /\ After(first, n + k - 1) \in PlacedAt(to, m)
  <2>1. PICK j \in 0..(m - 1) : j = k - 1
    BY <1>0
  <2>2. n + k - 1 = n + j /\ k = j + 1
    BY <2>1
  <2>3. After(first, n + k - 1) = After(to, j) /\ After(to, j) \in Slots
    BY <1>1, <2>2
  <2>4. After(to, j) \in PlacedAt(to, m)
    BY DEF PlacedAt
  <2>5. new[After(to, j)] = packets[j + 1]
    BY <1>2, <1>4, <2>3, <2>4
  <2> QED
    BY <2>2, <2>3, <2>4, <2>5
<1>6. ASSUME NEW s \in PlacedAt(to, m)
      PROVE  \E k \in 1..m : s = After(first, n + k - 1)
  <2>1. PICK j \in 0..(m - 1) : s = After(to, j)
    BY DEF PlacedAt
  <2>2. j + 1 \in 1..m /\ n + (j + 1) - 1 = n + j
    BY <1>0
  <2>3. s = After(first, n + (j + 1) - 1)
    BY <1>1, <2>1, <2>2
  <2> QED
    BY <2>2, <2>3
<1>7. \A s \in Slots : \/ new[s] = info[s]
                       \/ \E k \in 1..m : s = After(first, n + k - 1)
  BY <1>4, <1>6
<1>8. ASSUME NEW k \in 0..(n - 1)
      PROVE  /\ After(first, k) \in Slots
             /\ new[After(first, k)] = info[After(first, k)]
  <2>1. k \in 0..TxSize /\ k \in 0..(TxSize - 1)
    BY <1>0
  <2>2. After(first, k) \in Slots
    BY <2>1, AfterIs
  <2>3. ASSUME NEW j \in 1..m, After(first, k) = After(first, n + j - 1)
        PROVE  FALSE
    <3>1. PICK l \in 0..(TxSize - 1) : l = n + j - 1
      BY <1>0
    <3>2. k = l
      BY <2>1, <2>3, <3>1, AfterApart
    <3> QED
      BY <3>1, <3>2
  <2> QED
    BY <1>7, <2>2, <2>3
<1>9. new \in [Slots -> Packets]
  <2>1. ASSUME NEW s \in Slots
        PROVE  new[s] \in Packets
    <3>1. CASE s \in PlacedAt(to, m)
      <4>1. PICK k \in 1..m : s = After(first, n + k - 1)
        BY <1>6, <3>1
      <4> QED
        BY <1>3, <1>5, <4>1
    <3>2. CASE s \notin PlacedAt(to, m)
      BY <1>4, <3>2
    <3> QED
      BY <3>1, <3>2
  <2> QED
    BY <1>b, <2>1
<1> QED
  BY <1>5, <1>7, <1>8, <1>9 DEF PlacedBehind, m, to, new

\* A packet of others changes nothing in what the socket's are.
LEMMA OrderedOther ==
    ASSUME NEW first \in Slots, NEW n \in Nat, n + 1 < TxSize,
           NEW info \in [Slots -> Packets], NEW from \in Nat, NEW seq \in Seq(Frames),
           Ordered(from, seq, n, first, info)
    PROVE  LET new == Placed(info, After(first, n), <<Other>>)
           IN  new \in [Slots -> Packets] /\ Ordered(from, seq, n + 1, first, new)
<1> DEFINE new == Placed(info, After(first, n), <<Other>>)
<1>1. PICK turn \in [from..Len(seq) -> 0..(n - 1)] : InTurn(turn, from, seq, n, first, info)
  BY DEF Ordered
<1>2. /\ Len(<<Other>>) = 1 /\ <<Other>>[1] = Other
      /\ Load(<<Other>>)
  BY DEF Packets, Load
<1>3. /\ new \in [Slots -> Packets]
      /\ \A k \in 0..(n - 1) : new[After(first, k)] = info[After(first, k)]
      /\ \A k \in 1..1 : new[After(first, n + k - 1)] = <<Other>>[k]
      /\ \A s \in Slots : \/ new[s] = info[s]
                          \/ \E k \in 1..1 : s = After(first, n + k - 1)
  <2>1. PICK one : one = <<Other>>
    OBVIOUS
  <2>2. Len(one) = 1 /\ Load(one) /\ n + Len(one) < TxSize
    BY <1>2, <2>1
  <2>3. PlacedBehind(Placed(info, After(first, n), one), info, first, n, one)
    BY <2>2, PlacedSlots
  <2>4. new = Placed(info, After(first, n), one)
    BY <2>1
  <2> HIDE DEF new
  <2>5. PlacedBehind(new, info, first, n, one)
    BY <2>3, <2>4
  <2> QED
    BY <2>1, <2>2, <2>5 DEF PlacedBehind
<1> HIDE DEF new
<1>4. turn \in [from..Len(seq) -> 0..((n + 1) - 1)]
  <2>1. \A i \in from..Len(seq) : turn[i] \in 0..((n + 1) - 1)
    OBVIOUS
  <2> QED
    BY <2>1
<1>5. \A i \in from..Len(seq) : new[After(first, turn[i])] = seq[i]
  BY <1>1, <1>3 DEF InTurn
<1>6. ASSUME NEW s \in Slots, new[s] \in Frames
      PROVE  \E i \in from..Len(seq) : s = After(first, turn[i])
  <2>1. ASSUME NEW k \in 1..1, s = After(first, n + k - 1)
        PROVE  FALSE
    <3>1. new[s] = Other
      BY <1>2, <1>3, <2>1
    <3> QED
      BY <1>6, <3>1, FramesAssumption
  <2>2. new[s] = info[s]
    BY <1>3, <2>1
  <2> QED
    BY <1>1, <1>6, <2>2 DEF InTurn
<1>7. InTurn(turn, from, seq, n + 1, first, new)
  BY <1>1, <1>4, <1>5, <1>6 DEF InTurn
<1> QED
  BY <1>3, <1>4, <1>7 DEF Ordered, new

\* Frames that are handed over follow those that were.
LEMMA OrderedSent ==
    ASSUME NEW first \in Slots, NEW n \in Nat, NEW info \in [Slots -> Packets],
           NEW from \in Nat \ {0}, NEW seq \in Seq(Frames), from <= Len(seq) + 1,
           NEW more \in Seq(Frames), n + Len(more) < TxSize,
           Ordered(from, seq, n, first, info)
    PROVE  LET new == Placed(info, After(first, n), more)
           IN  /\ new \in [Slots -> Packets]
               /\ Ordered(from, seq \o more, n + Len(more), first, new)
<1>1. PICK turn \in [from..Len(seq) -> 0..(n - 1)] : InTurn(turn, from, seq, n, first, info)
  BY DEF Ordered
<1> DEFINE l == Len(seq)
           m == Len(more)
           new == Placed(info, After(first, n), more)
           both == seq \o more
           top == Len(both)
           next == [i \in from..top |-> IF i <= l THEN turn[i] ELSE n + (i - l) - 1]
<1>2. /\ l \in Nat /\ m \in Nat /\ top = l + m
      /\ \A i \in 1..(l + m) : both[i] = IF i <= l THEN seq[i] ELSE more[i - l]
  BY LenProperties, ConcatProperties
<1>3. /\ new \in [Slots -> Packets]
      /\ \A k \in 0..(n - 1) : new[After(first, k)] = info[After(first, k)]
      /\ \A k \in 1..m : new[After(first, n + k - 1)] = more[k]
      /\ \A s \in Slots : \/ new[s] = info[s]
                          \/ \E k \in 1..m : s = After(first, n + k - 1)
  <2>1. Load(more)
    BY ElementOfSeq, LenProperties DEF Packets, Load
  <2>2. PlacedBehind(new, info, first, n, more)
    BY <2>1, PlacedSlots
  <2> HIDE DEF new
  <2> QED
    BY <2>2 DEF PlacedBehind
<1>a. /\ \A i, j \in from..l : i < j => turn[i] < turn[j]
      /\ \A i \in from..l : info[After(first, turn[i])] = seq[i]
      /\ \A s \in Slots : info[s] \in Frames => \E i \in from..l : s = After(first, turn[i])
      /\ \A i \in from..l : turn[i] \in 0..(n - 1)
  BY <1>1 DEF InTurn
<1> HIDE DEF l, both, m, new, top
<1>4. \A i \in from..top : next[i] = IF i <= l THEN turn[i] ELSE n + (i - l) - 1
  OBVIOUS
<1>5. /\ \A i \in from..l : i \in from..top /\ next[i] = turn[i]
      /\ \A k \in 1..m : k + l \in from..top /\ next[k + l] = n + k - 1
  <2>1. \A i \in from..l : i \in from..top /\ next[i] = turn[i]
    BY <1>2, <1>4
  <2>2. ASSUME NEW k \in 1..m
        PROVE  k + l \in from..top /\ next[k + l] = n + k - 1
    <3>1. from <= l + 1
      BY DEF l
    <3>2. k + l \in from..top /\ ~(k + l <= l) /\ (k + l) - l = k
      BY <1>2, <3>1
    <3> QED
      BY <1>4, <3>2
  <2> QED
    BY <2>1, <2>2
<1>6. \A i \in from..top : i \in from..l \/ \E k \in 1..m : i = k + l
  <2> SUFFICES ASSUME NEW i \in from..top, i \notin from..l
               PROVE  \E k \in 1..m : i = k + l
    OBVIOUS
  <2>1. i - l \in 1..m /\ i = (i - l) + l
    BY <1>2
  <2> QED
    BY <2>1
<1>b. next = [i \in from..top |-> next[i]]
  OBVIOUS
<1> HIDE DEF next
<1>7. next \in [from..top -> 0..((n + m) - 1)]
  <2>1. ASSUME NEW i \in from..top
        PROVE  next[i] \in 0..((n + m) - 1)
    <3>1. CASE i \in from..l
      <4>1. next[i] \in 0..(n - 1)
        BY <1>5, <1>a, <3>1
      <4> QED
        BY <1>2, <4>1
    <3>2. ASSUME NEW k \in 1..m, i = k + l
          PROVE  next[i] \in 0..((n + m) - 1)
      <4>1. next[i] = n + k - 1
        BY <1>5, <3>2
      <4>2. n \in Nat /\ m \in Nat
        BY <1>2
      <4> QED
        BY <4>1, <4>2
    <3> QED
      BY <1>6, <3>1, <3>2
  <2> QED
    BY <1>b, <2>1
<1>8. ASSUME NEW i \in from..top, NEW j \in from..top, i < j
      PROVE  next[i] < next[j]
  <2>1. CASE i \in from..l /\ j \in from..l
    BY <1>5, <1>8, <1>a, <2>1
  <2>2. ASSUME i \in from..l, NEW k \in 1..m, j = k + l
        PROVE  next[i] < next[j]
    <3>1. next[i] \in 0..(n - 1) /\ next[j] = n + k - 1
      BY <1>5, <1>a, <2>2
    <3> QED
      BY <3>1
  <2>3. ASSUME NEW k1 \in 1..m, NEW k2 \in 1..m, i = k1 + l, j = k2 + l
        PROVE  next[i] < next[j]
    <3>1. next[i] = n + k1 - 1 /\ next[j] = n + k2 - 1
      BY <1>5, <2>3
    <3>2. k1 < k2
      BY <1>2, <1>8, <2>3
    <3> QED
      BY <3>1, <3>2
  <2>4. ASSUME NEW k \in 1..m, i = k + l, j \in from..l
        PROVE  FALSE
    BY <1>2, <1>8, <2>4
  <2> QED
    BY <1>6, <2>1, <2>2, <2>3, <2>4
<1>9. ASSUME NEW i \in from..top
      PROVE  new[After(first, next[i])] = both[i]
  <2>1. CASE i \in from..l
    <3>1. next[i] = turn[i] /\ turn[i] \in 0..(n - 1) /\ both[i] = seq[i]
      BY <1>2, <1>5, <1>a, <2>1
    <3> QED
      BY <1>3, <1>a, <2>1, <3>1
  <2>2. ASSUME NEW k \in 1..m, i = k + l
        PROVE  new[After(first, next[i])] = both[i]
    <3>1. i \in 1..(l + m) /\ ~(i <= l) /\ i - l = k
      BY <1>2, <2>2
    <3>2. both[i] = more[k] /\ next[i] = n + k - 1
      BY <1>2, <1>5, <2>2, <3>1
    <3> QED
      BY <1>3, <3>2
  <2> QED
    BY <1>6, <2>1, <2>2
<1>10. ASSUME NEW s \in Slots, new[s] \in Frames
       PROVE  \E i \in from..top : s = After(first, next[i])
  <2>1. CASE new[s] = info[s]
    <3>1. PICK i \in from..l : s = After(first, turn[i])
      BY <1>10, <1>a, <2>1
    <3> QED
      BY <1>5, <3>1
  <2>2. ASSUME NEW k \in 1..m, s = After(first, n + k - 1)
        PROVE  \E i \in from..top : s = After(first, next[i])
    BY <1>5, <2>2
  <2> QED
    BY <1>3, <2>1, <2>2
<1>11. InTurn(next, from, both, n + m, first, new)
  <2>1. next \in [from..Len(both) -> 0..((n + m) - 1)]
    BY <1>7 DEF top
  <2>2. \A i, j \in from..Len(both) : i < j => next[i] < next[j]
    BY <1>8 DEF top
  <2>3. \A i \in from..Len(both) : new[After(first, next[i])] = both[i]
    BY <1>9 DEF top
  <2>4. \A s \in Slots : new[s] \in Frames =>
           \E i \in from..Len(both) : s = After(first, next[i])
    BY <1>10 DEF top
  <2> QED
    BY <2>1, <2>2, <2>3, <2>4, Zenon DEF InTurn
<1>12. Ordered(from, both, n + m, first, new)
  BY <1>11, Zenon DEF Ordered, InTurn
<1> QED
  BY <1>3, <1>12 DEF both, m, new

Held(info, first, r) == {s \in {After(first, k) : k \in 0..(r - 1)} : info[s] \in Frames}

\* The frames of the first slots of a window are the oldest: those up to their number.
LEMMA HeldCount ==
    ASSUME NEW first \in Slots, NEW n \in 0..(TxSize - 1), NEW r \in 0..n,
           NEW info, NEW seq \in Seq(Frames), NEW turn, InTurn(turn, 1, seq, n, first, info)
    PROVE  /\ Cardinality(Held(info, first, r)) \in 0..Len(seq)
           /\ Cardinality(Held(info, first, r)) <= r
           /\ \A i \in 1..Len(seq) : turn[i] < r <=> i <= Cardinality(Held(info, first, r))
<1> DEFINE l == Len(seq)
           H == Held(info, first, r)
           D == {i \in 1..l : turn[i] < r}
<1>0. TxSize \in Nat /\ l \in Nat /\ n \in Nat /\ r \in Nat
  BY SizesAssumption, LenProperties
<1>1. /\ \A i \in 1..l : turn[i] \in 0..(n - 1) /\ seq[i] \in Frames
      /\ \A i, j \in 1..l : i < j => turn[i] < turn[j]
      /\ \A i \in 1..l : info[After(first, turn[i])] = seq[i]
      /\ \A s \in Slots : info[s] \in Frames => \E i \in 1..l : s = After(first, turn[i])
  BY ElementOfSeq DEF InTurn
<1> HIDE DEF l
<1>2. \A i \in D : \A j \in 1..i : j \in D
  <2> SUFFICES ASSUME NEW i \in D, NEW j \in 1..i
               PROVE  j \in D
    OBVIOUS
  <2>1. i \in 1..l /\ j \in 1..l /\ turn[i] < r /\ (j < i \/ j = i)
    BY <1>0
  <2>2. turn[j] < r
    <3>1. CASE j < i
      <4>1. turn[j] < turn[i] /\ turn[i] \in 0..(n - 1) /\ turn[j] \in 0..(n - 1)
        BY <1>1, <2>1, <3>1
      <4> QED
        BY <1>0, <2>1, <4>1
    <3>2. CASE j = i
      BY <2>1, <3>2
    <3> QED
      BY <2>1, <3>1, <3>2
  <2> QED
    BY <2>1, <2>2
<1>3. D \in SUBSET (1..l)
  OBVIOUS
<1>4. Cardinality(D) \in 0..l /\ D = 1..Cardinality(D) /\ IsFiniteSet(D)
  <2> HIDE DEF D
  <2> QED
    BY <1>0, <1>2, <1>3, ClosedBelow
<1>5. \A i, j \in 1..l : turn[i] = turn[j] => i = j
  <2> SUFFICES ASSUME NEW i \in 1..l, NEW j \in 1..l, turn[i] = turn[j]
               PROVE  i = j
    OBVIOUS
  <2>1. turn[i] \in Int /\ ~(turn[i] < turn[i])
    BY <1>1
  <2>2. ~(i < j) /\ ~(j < i)
    BY <1>1, <2>1
  <2> QED
    BY <2>2
<1>6. ASSUME NEW i \in D
      PROVE  /\ i \in 1..l /\ turn[i] \in 0..(r - 1) /\ turn[i] \in 0..(TxSize - 1)
             /\ After(first, turn[i]) \in H
  <2>1. i \in 1..l /\ turn[i] \in 0..(r - 1) /\ turn[i] \in 0..(TxSize - 1)
    BY <1>0, <1>1
  <2>2. info[After(first, turn[i])] \in Frames
    BY <1>1, <2>1
  <2> QED
    BY <2>1, <2>2 DEF Held
<1>7. ASSUME NEW s \in H
      PROVE  \E i \in D : s = After(first, turn[i])
  <2>1. PICK k \in 0..(r - 1) : s = After(first, k)
    BY DEF Held
  <2>2. info[s] \in Frames
    BY DEF Held
  <2>3. k \in 0..TxSize /\ k \in 0..(TxSize - 1)
    BY <1>0
  <2>4. s \in Slots
    BY <2>1, <2>3, AfterIs
  <2>5. PICK i \in 1..l : s = After(first, turn[i])
    BY <1>1, <2>2, <2>4
  <2>6. turn[i] \in 0..(TxSize - 1)
    <3>1. turn[i] \in 0..(n - 1)
      BY <1>1
    <3> QED
      BY <1>0, <3>1
  <2>7. k = turn[i]
    BY <2>1, <2>3, <2>5, <2>6, AfterApart
  <2>8. i \in D
    BY <1>0, <2>7
  <2> QED
    BY <2>5, <2>8
<1> DEFINE f == [i \in D |-> After(first, turn[i])]
<1>8. Cardinality(H) = Cardinality(D)
  <2>1. \A i \in D : f[i] = After(first, turn[i])
    OBVIOUS
  <2>2. f \in [D -> H]
    BY <1>6
  <2> HIDE DEF f, D, H
  <2>3. ASSUME NEW i \in D, NEW j \in D, f[i] = f[j]
        PROVE  i = j
    <3>1. After(first, turn[i]) = After(first, turn[j])
      BY <2>1, <2>3
    <3>2. turn[i] \in 0..(TxSize - 1) /\ turn[j] \in 0..(TxSize - 1) /\ i \in 1..l /\ j \in 1..l
      BY <1>6
    <3>3. turn[i] = turn[j]
      BY <3>1, <3>2, AfterApart
    <3> QED
      BY <1>5, <3>2, <3>3
  <2>4. \A s \in H : \E i \in D : f[i] = s
    BY <1>7, <2>1
  <2>5. f \in Bijection(D, H)
    BY <2>2, <2>3, <2>4 DEF Bijection, Injection, Surjection, IsInjective
  <2>6. ExistsBijection(D, H)
    BY <2>5 DEF ExistsBijection
  <2> QED
    BY <1>4, <2>6, FS_Bijection
<1>9. Cardinality(D) <= r
  <2> DEFINE g == [i \in D |-> turn[i]]
  <2>1. g \in [D -> 0..(r - 1)] /\ \A i \in D : g[i] = turn[i]
    BY <1>6
  <2> HIDE DEF g, D
  <2>2. \A i, j \in D : g[i] = g[j] => i = j
    BY <1>5, <1>6, <2>1
  <2>3. g \in Injection(D, 0..(r - 1))
    BY <2>1, <2>2 DEF Injection, IsInjective
  <2>4. IsFiniteSet(0..(r - 1)) /\ Cardinality(0..(r - 1)) = r
    <3>1. r - 1 \in Int
      BY <1>0
    <3>2. /\ IsFiniteSet(0..(r - 1))
          /\ Cardinality(0..(r - 1)) = IF 0 > r - 1 THEN 0 ELSE (r - 1) - 0 + 1
      BY <3>1, FS_Interval
    <3> QED
      BY <1>0, <3>2
  <2> QED
    BY <2>3, <2>4, FS_Injection
<1>10. \A i \in 1..l : turn[i] < r <=> i <= Cardinality(D)
  <2>1. \A i \in 1..l : turn[i] < r <=> i \in D
    OBVIOUS
  <2> HIDE DEF D
  <2>2. PICK d : d = Cardinality(D)
    OBVIOUS
  <2>3. d \in Nat /\ D = 1..d
    BY <1>4, <2>2
  <2>4. \A i \in 1..l : i \in D <=> i <= d
    BY <2>3
  <2> QED
    BY <2>1, <2>2, <2>4
<1> QED
  BY <1>4, <1>8, <1>9, <1>10 DEF l

Clear(info, first, r) ==
    [s \in Slots |-> IF s \in {After(first, k) : k \in 0..(r - 1)} THEN NoFrame ELSE info[s]]

\* The slots cleaned had the oldest frames, and what is left is in turn from there on.
LEMMA OrderedCleaned ==
    ASSUME NEW first \in Slots, NEW n \in 0..(TxSize - 1), NEW r \in 0..n,
           NEW info \in [Slots -> Packets], NEW seq \in Seq(Frames),
           Ordered(1, seq, n, first, info)
    PROVE  LET m == Cardinality(Held(info, first, r))
               new == Clear(info, first, r)
           IN  /\ m \in 0..Len(seq) /\ m <= r /\ new \in [Slots -> Packets]
               /\ Ordered(m + 1, seq, n - r, After(first, r), new)
<1> DEFINE l == Len(seq)
           m == Cardinality(Held(info, first, r))
           gone == {After(first, k) : k \in 0..(r - 1)}
           new == Clear(info, first, r)
           then == After(first, r)
<1>1. PICK turn : InTurn(turn, 1, seq, n, first, info)
  BY DEF Ordered
<1>0. TxSize \in Nat /\ l \in Nat /\ n \in Nat /\ r \in Nat /\ n < TxSize
  BY SizesAssumption, LenProperties
<1>2. m \in 0..l /\ m <= r /\ \A i \in 1..l : turn[i] < r <=> i <= m
  BY <1>1, HeldCount
<1>3. /\ \A i \in 1..l : turn[i] \in 0..(n - 1)
      /\ \A i, j \in 1..l : i < j => turn[i] < turn[j]
      /\ \A i \in 1..l : info[After(first, turn[i])] = seq[i]
      /\ \A s \in Slots : info[s] \in Frames => \E i \in 1..l : s = After(first, turn[i])
  BY <1>1 DEF InTurn
<1>4. /\ new \in [Slots -> Packets]
      /\ \A s \in Slots : new[s] = IF s \in gone THEN NoFrame ELSE info[s]
  BY DEF Clear, Packets
<1> HIDE DEF l, m, new
<1> DEFINE next == [i \in (m + 1)..l |-> turn[i] - r]
<1>5. ASSUME NEW i \in (m + 1)..l
      PROVE  /\ i \in 1..l /\ turn[i] \in r..(n - 1) /\ turn[i] - r \in 0..((n - r) - 1)
             /\ next[i] = turn[i] - r
  <2>1. i \in 1..l /\ ~(i <= m)
    BY <1>0, <1>2
  <2>2. ~(turn[i] < r) /\ turn[i] \in 0..(n - 1)
    BY <1>2, <1>3, <2>1
  <2> QED
    BY <1>0, <2>1, <2>2
<1>6. next \in [(m + 1)..l -> 0..((n - r) - 1)]
  BY <1>5
<1> HIDE DEF next
<1>7. ASSUME NEW i \in (m + 1)..l
      PROVE  After(then, next[i]) = After(first, turn[i])
  <2>1. PICK t : t = turn[i]
    OBVIOUS
  <2>2. t \in r..(n - 1) /\ t - r \in Nat /\ r + (t - r) = t /\ r + (t - r) < TxSize
    <3>1. t \in r..(n - 1)
      BY <1>5, <2>1
    <3> QED
      BY <1>0, <3>1
  <2>3. After(After(first, r), t - r) = After(first, r + (t - r))
    BY <1>0, <2>2, AfterAfter
  <2> QED
    BY <1>5, <2>1, <2>2, <2>3
<1>8. ASSUME NEW i \in (m + 1)..l
      PROVE  After(first, turn[i]) \in Slots /\ After(first, turn[i]) \notin gone
  <2>1. turn[i] \in r..(n - 1) /\ turn[i] \in 0..(TxSize - 1) /\ turn[i] \in 0..TxSize
    <3>1. turn[i] \in r..(n - 1)
      BY <1>5
    <3> QED
      BY <1>0, <3>1
  <2>2. ASSUME NEW k \in 0..(r - 1), After(first, turn[i]) = After(first, k)
        PROVE  FALSE
    <3>1. k \in 0..(TxSize - 1)
      BY <1>0
    <3>2. turn[i] = k
      BY <2>1, <2>2, <3>1, AfterApart
    <3> QED
      BY <1>0, <2>1, <3>2
  <2> QED
    BY <2>1, <2>2, AfterIs
<1>9. \A i \in (m + 1)..l : new[After(then, next[i])] = seq[i]
  <2> HIDE DEF gone, then
  <2> QED
    BY <1>3, <1>4, <1>5, <1>7, <1>8
<1>10. ASSUME NEW i \in (m + 1)..l, NEW j \in (m + 1)..l, i < j
       PROVE  next[i] < next[j]
  <2>1. turn[i] < turn[j] /\ turn[i] \in Int /\ turn[j] \in Int
    BY <1>3, <1>5, <1>10
  <2>2. next[i] = turn[i] - r /\ next[j] = turn[j] - r /\ r \in Int
    BY <1>0, <1>5
  <2> QED
    BY <2>1, <2>2
<1>11. ASSUME NEW s \in Slots, new[s] \in Frames
       PROVE  \E i \in (m + 1)..l : s = After(then, next[i])
  <2>1. s \notin gone /\ info[s] \in Frames
    <3> HIDE DEF gone
    <3> QED
      BY <1>4, <1>11, FramesAssumption
  <2>2. PICK i \in 1..l : s = After(first, turn[i])
    BY <1>3, <2>1
  <2>3. ~(turn[i] < r)
    <3>1. turn[i] \in 0..(n - 1)
      BY <1>3
    <3>2. CASE turn[i] < r
      <4>1. turn[i] \in 0..(r - 1)
        BY <1>0, <3>1, <3>2
      <4> QED
        BY <2>1, <2>2, <4>1
    <3> QED
      BY <3>2
  <2>4. i \in (m + 1)..l
    <3>1. ~(i <= m)
      BY <1>2, <2>3
    <3> QED
      BY <1>0, <1>2, <3>1
  <2> QED
    BY <1>7, <2>2, <2>4
<1>12. \A i, j \in (m + 1)..l : i < j => next[i] < next[j]
  BY <1>10
<1>13. \A s \in Slots : new[s] \in Frames => \E i \in (m + 1)..l : s = After(then, next[i])
  BY <1>11
<1>14. Ordered(m + 1, seq, n - r, then, new)
  <2> HIDE DEF then
  <2> QED
    BY <1>6, <1>9, <1>12, <1>13, Zenon DEF Ordered, InTurn, l
<1> QED
  BY <1>2, <1>4, <1>14 DEF l, m, new

\* All of the ring is given back as one count.
LEMMA AllHeld ==
    ASSUME NEW first \in Slots, NEW n \in 0..(TxSize - 1),
           NEW info, NEW seq \in Seq(Frames), Ordered(1, seq, n, first, info)
    PROVE  Cardinality({s \in Slots : info[s] \in Frames}) = Len(seq)
<1> DEFINE l == Len(seq)
           H == Held(info, first, n)
<1>0. TxSize \in Nat /\ l \in Nat /\ n \in Nat /\ n \in 0..n
  BY SizesAssumption, LenProperties
<1>1. PICK turn : InTurn(turn, 1, seq, n, first, info)
  BY DEF Ordered
<1>2. /\ \A i \in 1..l : turn[i] \in 0..(n - 1)
      /\ \A s \in Slots : info[s] \in Frames => \E i \in 1..l : s = After(first, turn[i])
  BY <1>1 DEF InTurn
<1>3. Cardinality(H) \in 0..l /\ \A i \in 1..l : turn[i] < n <=> i <= Cardinality(H)
  BY <1>0, <1>1, HeldCount
<1>4. H = {s \in Slots : info[s] \in Frames}
  <2>1. ASSUME NEW k \in 0..(n - 1)
        PROVE  After(first, k) \in Slots
    <3>1. k \in 0..TxSize
      BY <1>0
    <3> QED
      BY <3>1, AfterIs
  <2>2. ASSUME NEW s \in Slots, info[s] \in Frames
        PROVE  s \in H
    BY <1>2, <2>2 DEF Held
  <2> QED
    BY <2>1, <2>2 DEF Held
<1> HIDE DEF l, H
<1>5. Cardinality(H) = l
  <2>1. CASE l = 0
    BY <1>3, <2>1
  <2>2. CASE l # 0
    <3>1. l \in 1..l
      BY <1>0, <2>2
    <3>2. turn[l] < n
      <4>1. turn[l] \in 0..(n - 1)
        BY <1>2, <3>1
      <4> QED
        BY <1>0, <4>1
    <3>3. l <= Cardinality(H)
      BY <1>3, <3>1, <3>2
    <3> QED
      BY <1>0, <1>3, <3>3
  <2> QED
    BY <2>1, <2>2
<1> QED
  BY <1>4, <1>5 DEF l

\* What was given back is taken from the front.
LEMMA OrderedGiven ==
    ASSUME NEW seq \in Seq(Frames), NEW z \in 0..Len(seq), NEW n, NEW first, NEW info,
           Ordered(z + 1, seq, n, first, info)
    PROVE  Ordered(1, SubSeq(seq, z + 1, Len(seq)), n, first, info)
<1> DEFINE l == Len(seq)
           rest == SubSeq(seq, z + 1, l)
           top == Len(rest)
<1>1. /\ l \in Nat /\ z \in 0..l /\ top = l - z
      /\ \A k \in 1..top : rest[k] = seq[z + k]
  <2>1. /\ Len(SubSeq(seq, z + 1, Len(seq))) = Len(seq) - z
        /\ \A k \in 1..(Len(seq) - z) : SubSeq(seq, z + 1, Len(seq))[k] = seq[z + k]
    BY FrontAndRest
  <2>2. l \in Nat
    BY LenProperties
  <2> HIDE DEF rest
  <2>3. top = l - z /\ \A k \in 1..(l - z) : rest[k] = seq[z + k]
    BY <2>1 DEF rest
  <2> QED
    BY <2>2, <2>3
<1>2. PICK turn \in [(z + 1)..Len(seq) -> 0..(n - 1)] : InTurn(turn, z + 1, seq, n, first, info)
  BY DEF Ordered
<1>3. /\ \A i \in (z + 1)..l : turn[i] \in 0..(n - 1)
      /\ \A i, j \in (z + 1)..l : i < j => turn[i] < turn[j]
      /\ \A i \in (z + 1)..l : info[After(first, turn[i])] = seq[i]
      /\ \A s \in Slots : info[s] \in Frames =>
            \E i \in (z + 1)..l : s = After(first, turn[i])
  BY <1>2 DEF InTurn
<1> HIDE DEF l, rest, top
<1> DEFINE next == [k \in 1..top |-> turn[z + k]]
<1>4. \A k \in 1..top : z + k \in (z + 1)..l /\ next[k] = turn[z + k]
  BY <1>1
<1>5. next \in [1..top -> 0..(n - 1)]
  BY <1>3, <1>4
<1> HIDE DEF next
<1>6. \A i, j \in 1..top : i < j => next[i] < next[j]
  <2> SUFFICES ASSUME NEW i \in 1..top, NEW j \in 1..top, i < j
               PROVE  next[i] < next[j]
    OBVIOUS
  <2>1. z + i < z + j
    BY <1>1
  <2> QED
    BY <1>3, <1>4, <2>1
<1>7. \A i \in 1..top : info[After(first, next[i])] = rest[i]
  BY <1>1, <1>3, <1>4
<1>8. \A s \in Slots : info[s] \in Frames => \E i \in 1..top : s = After(first, next[i])
  <2> SUFFICES ASSUME NEW s \in Slots, info[s] \in Frames
               PROVE  \E i \in 1..top : s = After(first, next[i])
    OBVIOUS
  <2>1. PICK i \in (z + 1)..l : s = After(first, turn[i])
    BY <1>3
  <2>2. i - z \in 1..top /\ z + (i - z) = i
    BY <1>1
  <2> QED
    BY <1>4, <2>1, <2>2
<1>9. Ordered(1, rest, n, first, info)
  BY <1>5, <1>6, <1>7, <1>8, Zenon DEF Ordered, InTurn, top
<1> QED
  BY <1>9 DEF rest, l

-----------------------------------------------------------------------------
(***************************************************************************)
(* The ids of the receive ring                                             *)
(***************************************************************************)
\* The front and the rest of a sequence in which nothing comes twice.
LEMMA CutApart ==
    ASSUME NEW S, NEW s \in Seq(S), NEW n \in 0..Len(s), IsInjective(s)
    PROVE  LET u == SubSeq(s, 1, n)
               v == SubSeq(s, n + 1, Len(s))
           IN  /\ u \in Seq(S) /\ v \in Seq(S) /\ Len(u) = n /\ Len(v) = Len(s) - n
               /\ IsInjective(u) /\ IsInjective(v)
               /\ ToSet(u) \cap ToSet(v) = {} /\ ToSet(u) \cup ToSet(v) = ToSet(s)
<1> DEFINE l == Len(s)
           u == SubSeq(s, 1, n)
           v == SubSeq(s, n + 1, Len(s))
<1>1. /\ u \in Seq(S) /\ Len(u) = n /\ l \in Nat
      /\ \A k \in 1..n : u[k] = s[k] /\ k \in 1..l
      /\ v \in Seq(S) /\ Len(v) = l - n
      /\ \A k \in 1..(l - n) : v[k] = s[n + k] /\ n + k \in 1..l
  BY FrontAndRest, LenProperties
<1>2. /\ DOMAIN s = 1..l /\ DOMAIN u = 1..n /\ DOMAIN v = 1..(l - n)
      /\ \A x : x \in ToSet(s) <=> \E k \in 1..l : s[k] = x
      /\ \A x : x \in ToSet(u) <=> \E k \in 1..n : u[k] = x
      /\ \A x : x \in ToSet(v) <=> \E k \in 1..(l - n) : v[k] = x
  <2> HIDE DEF u, v
  <2>1. DOMAIN s = 1..l /\ \A x : x \in ToSet(s) <=> \E k \in 1..l : s[k] = x
    BY InSequence
  <2>2. DOMAIN u = 1..Len(u) /\ \A x : x \in ToSet(u) <=> \E k \in 1..Len(u) : u[k] = x
    BY <1>1, InSequence
  <2>3. DOMAIN v = 1..Len(v) /\ \A x : x \in ToSet(v) <=> \E k \in 1..Len(v) : v[k] = x
    BY <1>1, InSequence
  <2> QED
    BY <1>1, <2>1, <2>2, <2>3
<1>3. \A i, j \in 1..l : s[i] = s[j] => i = j
  BY <1>2 DEF IsInjective
<1> HIDE DEF l, u, v
<1>4. IsInjective(u)
  BY <1>1, <1>2, <1>3 DEF IsInjective
<1>5. IsInjective(v)
  <2> SUFFICES ASSUME NEW i \in 1..(l - n), NEW j \in 1..(l - n), v[i] = v[j]
               PROVE  i = j
    BY <1>2 DEF IsInjective
  <2>1. n + i \in 1..l /\ n + j \in 1..l /\ s[n + i] = s[n + j]
    BY <1>1
  <2>2. n + i = n + j
    BY <1>3, <2>1
  <2> QED
    BY <2>2
<1>6. ToSet(u) \cap ToSet(v) = {}
  <2>1. ASSUME NEW i \in 1..n, NEW j \in 1..(l - n), u[i] = v[j]
        PROVE  FALSE
    <3>1. i \in 1..l /\ n + j \in 1..l /\ s[i] = s[n + j]
      BY <1>1, <2>1
    <3>2. i = n + j
      BY <1>3, <3>1
    <3> QED
      BY <1>1, <3>2
  <2>2. ASSUME NEW x, x \in ToSet(u), x \in ToSet(v)
        PROVE  FALSE
    <3>1. (\E i \in 1..n : u[i] = x) /\ \E j \in 1..(l - n) : v[j] = x
      BY <1>2, <2>2
    <3> QED
      BY <2>1, <3>1
  <2> QED
    BY <2>2
<1>7. \A x \in ToSet(s) : x \in ToSet(u) \/ x \in ToSet(v)
  <2> SUFFICES ASSUME NEW k \in 1..l
               PROVE  s[k] \in ToSet(u) \/ s[k] \in ToSet(v)
    BY <1>2
  <2>1. CASE k <= n
    <3>1. k \in 1..n /\ u[k] = s[k]
      BY <1>1, <2>1
    <3> QED
      BY <1>2, <3>1
  <2>2. CASE ~(k <= n)
    <3>1. k - n \in 1..(l - n) /\ n + (k - n) = k
      BY <1>1, <2>2
    <3>2. v[k - n] = s[k]
      BY <1>1, <3>1
    <3> QED
      BY <1>2, <3>1, <3>2
  <2> QED
    BY <2>1, <2>2
<1>8. ToSet(u) \subseteq ToSet(s) /\ ToSet(v) \subseteq ToSet(s)
  BY <1>1, <1>2
<1>9. ToSet(u) \cup ToSet(v) = ToSet(s)
  BY <1>7, <1>8
<1> QED
  BY <1>1, <1>4, <1>5, <1>6, <1>9 DEF l, u, v

\* There are as many ids as the ring has entries.
LEMMA IdsCount == IsFiniteSet(RxIds) /\ Cardinality(RxIds) = RxSize
<1>1. RxSize \in Nat /\ RxSize - 1 \in Int /\ RxSize # 0
  BY SizesAssumption
<1>2. /\ IsFiniteSet(0..(RxSize - 1))
      /\ Cardinality(0..(RxSize - 1)) = IF 0 > RxSize - 1 THEN 0 ELSE (RxSize - 1) - 0 + 1
  BY <1>1, FS_Interval
<1> QED
  BY <1>1, <1>2 DEF RxIds

\* The oldest packet is taken.
LEMMA PacketsTail ==
    ASSUME NEW packets \in Seq(Seq(RxIds)), packets # <<>>, NEW free, NEW out, NEW info,
           IdsApart(free, out, packets), HaveFrames(info, out, packets)
    PROVE  /\ Head(packets) \in Seq(RxIds) /\ Tail(packets) \in Seq(Seq(RxIds))
           /\ IdsApart(free, out, Tail(packets)) /\ HaveFrames(info, out, Tail(packets))
           /\ IsInjective(Head(packets))
           /\ ToSet(Head(packets)) \cap ToSet(free) = {}
           /\ ToSet(Head(packets)) \cap ToSet(out) = {}
           /\ \A k \in DOMAIN Tail(packets) :
                ToSet(Head(packets)) \cap ToSet(Tail(packets)[k]) = {}
           /\ \A i \in ToSet(Head(packets)) : info[i] \in Frames
<1> DEFINE h == Head(packets)
           t == Tail(packets)
           l == Len(packets)
<1>1. /\ l \in Nat \ {0} /\ DOMAIN packets = 1..l /\ h = packets[1] /\ h \in Seq(RxIds)
      /\ t \in Seq(Seq(RxIds)) /\ DOMAIN t = 1..(l - 1)
      /\ \A k \in 1..(l - 1) : t[k] = packets[k + 1]
  <2>1. l \in Nat /\ DOMAIN packets = 1..l /\ l # 0
    BY LenProperties, EmptySeq
  <2>2. /\ h = packets[1] /\ h \in Seq(RxIds) /\ t \in Seq(Seq(RxIds)) /\ Len(t) = l - 1
        /\ \A k \in 1..Len(t) : t[k] = packets[k + 1]
    BY HeadTailProperties
  <2>3. DOMAIN t = 1..Len(t)
    <3> HIDE DEF t
    <3> QED
      BY <2>2, LenProperties
  <2> QED
    BY <2>1, <2>2, <2>3
<1> HIDE DEF h, t, l
<1>2. 1 \in 1..l /\ \A k \in 1..(l - 1) : k + 1 \in 1..l /\ k + 1 # 1
  BY <1>1
<1>3. \A i, j \in 1..(l - 1) : i # j => i + 1 # j + 1
  BY <1>1
<1>4. IdsApart(free, out, t)
  BY <1>1, <1>2, <1>3 DEF IdsApart
<1>5. HaveFrames(info, out, t) /\ \A i \in ToSet(h) : info[i] \in Frames
  BY <1>1, <1>2 DEF HaveFrames
<1>6. /\ IsInjective(h) /\ ToSet(h) \cap ToSet(free) = {} /\ ToSet(h) \cap ToSet(out) = {}
      /\ \A k \in DOMAIN t : ToSet(h) \cap ToSet(t[k]) = {}
  BY <1>1, <1>2 DEF IdsApart
<1> QED
  BY <1>1, <1>4, <1>5, <1>6 DEF h, t

\* Its ids are free again, and no more than were in use.
LEMMA IdsFreed ==
    ASSUME NEW packets \in Seq(Seq(RxIds)), packets # <<>>, NEW free \in Seq(RxIds), NEW out,
           NEW info, IdsApart(free, out, packets), HaveFrames(info, out, packets)
    PROVE  /\ free \o Head(packets) \in Seq(RxIds)
           /\ Len(free \o Head(packets)) = Len(free) + Len(Head(packets))
           /\ Len(free) + Len(Head(packets)) <= RxSize
           /\ IdsApart(free \o Head(packets), out, Tail(packets))
<1> DEFINE h == Head(packets)
           t == Tail(packets)
           both == free \o h
<1>1. /\ h \in Seq(RxIds) /\ t \in Seq(Seq(RxIds)) /\ IdsApart(free, out, t)
      /\ IsInjective(h) /\ ToSet(h) \cap ToSet(free) = {} /\ ToSet(h) \cap ToSet(out) = {}
      /\ \A k \in DOMAIN t : ToSet(h) \cap ToSet(t[k]) = {}
  BY PacketsTail
<1> HIDE DEF h, t
<1>2. IsInjective(free) /\ ToSet(free) \cap ToSet(h) = {}
  BY <1>1 DEF IdsApart
<1>3. /\ both \in Seq(RxIds) /\ Len(both) = Len(free) + Len(h)
      /\ ToSet(both) = ToSet(free) \cup ToSet(h) /\ IsInjective(both)
  BY <1>1, <1>2, ConcatApart
<1> HIDE DEF both
<1>4. Len(both) <= RxSize
  <2>1. Cardinality(ToSet(both)) = Len(both) /\ ToSet(both) \in SUBSET RxIds
    BY <1>3, InjectiveCount, InSequence
  <2>2. Cardinality(ToSet(both)) <= Cardinality(RxIds)
    BY <2>1, IdsCount, FS_Subset
  <2> QED
    BY <2>1, <2>2, IdsCount
<1>5. IdsApart(both, out, t)
  <2>1. IsInjective(out) /\ ToSet(both) \cap ToSet(out) = {}
    BY <1>1, <1>3 DEF IdsApart
  <2>2. \A k \in DOMAIN t : ToSet(t[k]) \cap ToSet(both) = {}
    BY <1>1, <1>3 DEF IdsApart
  <2> QED
    BY <1>1, <1>3, <2>1, <2>2 DEF IdsApart
<1> QED
  BY <1>3, <1>4, <1>5 DEF h, t, both

\* The device is done with ids, and they are a packet.
LEMMA IdsDone ==
    ASSUME NEW packets \in Seq(Seq(RxIds)), NEW free, NEW out \in Seq(RxIds), NEW info,
           NEW packet \in Seq(RxIds), NEW rest \in Seq(RxIds),
           IsInjective(packet), IsInjective(rest), ToSet(packet) \cap ToSet(rest) = {},
           ToSet(packet) \cup ToSet(rest) = ToSet(out),
           IdsApart(free, out, packets), HaveFrames(info, out, packets)
    PROVE  /\ Append(packets, packet) \in Seq(Seq(RxIds))
           /\ IdsApart(free, rest, Append(packets, packet))
           /\ HaveFrames(info, rest, Append(packets, packet))
<1> DEFINE all == Append(packets, packet)
           l == Len(packets)
<1>1. /\ l \in Nat /\ DOMAIN packets = 1..l /\ all \in Seq(Seq(RxIds))
      /\ DOMAIN all = 1..(l + 1)
      /\ (\A k \in 1..l : all[k] = packets[k]) /\ all[l + 1] = packet
  <2>1. /\ all \in Seq(Seq(RxIds)) /\ Len(all) = l + 1 /\ l \in Nat /\ DOMAIN packets = 1..l
        /\ (\A k \in 1..l : all[k] = packets[k]) /\ all[l + 1] = packet
    BY AppendProperties, LenProperties
  <2>2. DOMAIN all = 1..Len(all)
    <3> HIDE DEF all
    <3> QED
      BY <2>1, LenProperties
  <2> QED
    BY <2>1, <2>2
<1> HIDE DEF all, l
<1>2. \A k \in 1..(l + 1) : k \in 1..l \/ k = l + 1
  BY <1>1
<1>3. /\ IsInjective(free) /\ ToSet(free) \cap ToSet(out) = {}
      /\ \A k \in 1..l : /\ IsInjective(packets[k]) /\ ToSet(packets[k]) \cap ToSet(free) = {}
                         /\ ToSet(packets[k]) \cap ToSet(out) = {}
      /\ \A j, k \in 1..l : j # k => ToSet(packets[j]) \cap ToSet(packets[k]) = {}
  BY <1>1 DEF IdsApart
<1>4. /\ ToSet(packet) \cap ToSet(free) = {} /\ ToSet(rest) \cap ToSet(free) = {}
      /\ \A k \in 1..l : /\ ToSet(packets[k]) \cap ToSet(packet) = {}
                         /\ ToSet(packets[k]) \cap ToSet(rest) = {}
  BY <1>3
<1>5. \A k \in 1..(l + 1) : /\ IsInjective(all[k]) /\ ToSet(all[k]) \cap ToSet(free) = {}
                            /\ ToSet(all[k]) \cap ToSet(rest) = {}
  <2> SUFFICES ASSUME NEW k \in 1..(l + 1)
               PROVE  /\ IsInjective(all[k]) /\ ToSet(all[k]) \cap ToSet(free) = {}
                      /\ ToSet(all[k]) \cap ToSet(rest) = {}
    OBVIOUS
  <2>1. CASE k \in 1..l
    BY <1>1, <1>3, <1>4, <2>1
  <2>2. CASE k = l + 1
    BY <1>1, <1>4, <2>2
  <2> QED
    BY <1>2, <2>1, <2>2
<1>6. \A j, k \in 1..(l + 1) : j # k => ToSet(all[j]) \cap ToSet(all[k]) = {}
  <2> SUFFICES ASSUME NEW j \in 1..(l + 1), NEW k \in 1..(l + 1), j # k
               PROVE  ToSet(all[j]) \cap ToSet(all[k]) = {}
    OBVIOUS
  <2>1. CASE j \in 1..l /\ k \in 1..l
    BY <1>1, <1>3, <2>1
  <2>2. CASE j \in 1..l /\ k = l + 1
    BY <1>1, <1>4, <2>2
  <2>3. CASE j = l + 1 /\ k \in 1..l
    BY <1>1, <1>4, <2>3
  <2> QED
    BY <1>2, <2>1, <2>2, <2>3
<1>7. IdsApart(free, rest, all)
  BY <1>1, <1>3, <1>4, <1>5, <1>6 DEF IdsApart
<1>8. HaveFrames(info, rest, all)
  <2>1. /\ \A i \in ToSet(out) : info[i] \in Frames
        /\ \A k \in 1..l : \A i \in ToSet(packets[k]) : info[i] \in Frames
    BY <1>1 DEF HaveFrames
  <2>2. \A i \in ToSet(rest) \cup ToSet(packet) : info[i] \in Frames
    BY <2>1
  <2>3. ASSUME NEW k \in 1..(l + 1), NEW i \in ToSet(all[k])
        PROVE  info[i] \in Frames
    <3>1. CASE k \in 1..l
      BY <1>1, <2>1, <2>3, <3>1
    <3>2. CASE k = l + 1
      BY <1>1, <2>2, <2>3, <3>2
    <3> QED
      BY <1>2, <3>1, <3>2
  <2> QED
    BY <1>1, <2>2, <2>3 DEF HaveFrames
<1> QED
  BY <1>1, <1>7, <1>8 DEF all

\* Ids are posted in their turn.
PostedWell(rest, front, free, n, out, packets) ==
    /\ rest \in Seq(RxIds) /\ out \o front \in Seq(RxIds)
    /\ Len(front) = n /\ Len(rest) = Len(free) - n
    /\ ToSet(front) \subseteq RxIds /\ ToSet(out \o front) = ToSet(out) \cup ToSet(front)
    /\ IdsApart(rest, out \o front, packets)
LEMMA IdsPosted ==
    ASSUME NEW packets, NEW free \in Seq(RxIds), NEW out \in Seq(RxIds), NEW n \in 0..Len(free),
           IdsApart(free, out, packets)
    PROVE  PostedWell(SubSeq(free, n + 1, Len(free)), SubSeq(free, 1, n), free, n, out, packets)
<1> DEFINE front == SubSeq(free, 1, n)
           rest == SubSeq(free, n + 1, Len(free))
           both == out \o front
<1>0. IsInjective(free) /\ IsInjective(out) /\ ToSet(free) \cap ToSet(out) = {}
  BY DEF IdsApart
<1>1. /\ front \in Seq(RxIds) /\ rest \in Seq(RxIds) /\ Len(front) = n
      /\ Len(rest) = Len(free) - n
      /\ IsInjective(front) /\ IsInjective(rest)
      /\ ToSet(front) \cap ToSet(rest) = {} /\ ToSet(front) \cup ToSet(rest) = ToSet(free)
  BY <1>0, CutApart
<1> HIDE DEF front, rest
<1>2. ToSet(out) \cap ToSet(front) = {}
  BY <1>0, <1>1
<1>3. /\ both \in Seq(RxIds) /\ ToSet(both) = ToSet(out) \cup ToSet(front)
      /\ IsInjective(both)
  BY <1>0, <1>1, <1>2, ConcatApart
<1> HIDE DEF both
<1>4. ToSet(front) \subseteq RxIds
  BY <1>1, InSequence
<1>5. IdsApart(rest, both, packets)
  <2>1. \A k \in DOMAIN packets : /\ ToSet(packets[k]) \cap ToSet(rest) = {}
                                  /\ ToSet(packets[k]) \cap ToSet(both) = {}
    BY <1>1, <1>3 DEF IdsApart
  <2>2. ToSet(rest) \cap ToSet(both) = {}
    BY <1>0, <1>1, <1>3
  <2> QED
    BY <1>1, <1>3, <2>1, <2>2 DEF IdsApart
<1> QED
  BY <1>1, <1>3, <1>4, <1>5 DEF front, rest, both, PostedWell

\* What the ids have when a ring is filled: frames move, and none is at two.
FilledWell(info, new, ids, left, frames) ==
    /\ new \in [RxIds -> Frames \cup {NoFrame}] /\ left \subseteq frames
    /\ OneSlot(new) /\ left \cap Received(new) = {}
    /\ left \cup Received(new) = frames \cup Received(info)
    /\ \A i \in RxIds : info[i] \in Frames => new[i] = info[i]
    /\ \A i \in ids : new[i] \in Frames
Given(info, need, got) == [i \in RxIds |-> IF i \in need THEN got[i] ELSE info[i]]
Suits(info, ids, need, got, frames) ==
    /\ ids \in SUBSET RxIds /\ need = {i \in ids : info[i] = NoFrame}
    /\ got \in [need -> frames] /\ IsInjective(got)

LEMMA FilledSlots ==
    ASSUME NEW info \in [RxIds -> Frames \cup {NoFrame}], NEW frames \in SUBSET Frames,
           OneSlot(info), frames \cap Received(info) = {},
           NEW ids, NEW need, NEW got, Suits(info, ids, need, got, frames)
    PROVE  FilledWell(info, Given(info, need, got), ids, frames \ {got[i] : i \in need}, frames)
<1> DEFINE new == Given(info, need, got)
<1>a. /\ ids \in SUBSET RxIds /\ need = {i \in ids : info[i] = NoFrame}
      /\ got \in [need -> frames] /\ IsInjective(got)
      /\ new = [i \in RxIds |-> IF i \in need THEN got[i] ELSE info[i]]
  BY DEF Suits, Given
<1> HIDE DEF new
<1>0. NoFrame \notin Frames /\ need \subseteq RxIds /\ DOMAIN got = need
  BY <1>a, FramesAssumption
<1>1. \A i \in need : got[i] \in frames /\ new[i] = got[i] /\ info[i] = NoFrame
  BY <1>0, <1>a
<1>2. \A i \in RxIds \ need : new[i] = info[i]
  BY <1>a
<1>3. \A i \in RxIds : info[i] \in Frames \/ info[i] = NoFrame
  OBVIOUS
<1>4. new = [i \in RxIds |-> new[i]]
  BY <1>a
<1>5. \A i \in RxIds : info[i] \in Frames => info[i] \notin frames
  BY <1>0 DEF Received
<1>6. \A i, j \in need : got[i] = got[j] => i = j
  BY <1>0, <1>a DEF IsInjective
<1>7. \A i \in RxIds : new[i] \in Frames \cup {NoFrame}
  BY <1>1, <1>2, <1>3
<1>8. new \in [RxIds -> Frames \cup {NoFrame}]
  BY <1>4, <1>7
<1>9. OneSlot(new)
  <2> SUFFICES ASSUME NEW i \in RxIds, NEW j \in RxIds, new[i] = new[j], new[i] # NoFrame
               PROVE  i = j
    BY DEF OneSlot
  <2>1. CASE i \in need /\ j \in need
    BY <1>1, <1>6, <2>1
  <2>2. CASE i \in need /\ j \notin need
    BY <1>1, <1>2, <1>3, <1>5, <2>2
  <2>3. CASE i \notin need /\ j \in need
    BY <1>1, <1>2, <1>3, <1>5, <2>3
  <2>4. CASE i \notin need /\ j \notin need
    BY <1>2, <2>4 DEF OneSlot
  <2> QED
    BY <2>1, <2>2, <2>3, <2>4
<1>10. \A x : x \in Received(new) <=>
           x \in Received(info) \/ x \in {got[i] : i \in need}
  <2>1. ASSUME NEW i \in RxIds, new[i] # NoFrame
        PROVE  new[i] \in Received(info) \/ new[i] \in {got[k] : k \in need}
    BY <1>1, <1>2, <2>1 DEF Received
  <2>2. ASSUME NEW i \in need
        PROVE  got[i] \in Received(new)
    <3>1. i \in RxIds /\ new[i] = got[i] /\ new[i] # NoFrame
      BY <1>0, <1>1
    <3> QED
      BY <3>1 DEF Received
  <2>3. ASSUME NEW i \in RxIds, info[i] # NoFrame
        PROVE  info[i] \in Received(new)
    <3>1. i \notin need /\ new[i] = info[i]
      BY <1>1, <1>2, <2>3
    <3> QED
      BY <2>3, <3>1 DEF Received
  <2>4. \A x \in Received(info) : \E i \in RxIds : x = info[i] /\ info[i] # NoFrame
    BY DEF Received
  <2>5. \A x \in Received(new) : \E i \in RxIds : x = new[i] /\ new[i] # NoFrame
    BY DEF Received
  <2> QED
    BY <2>1, <2>2, <2>3, <2>4, <2>5
<1>11. {got[i] : i \in need} \subseteq frames
  BY <1>1
<1>12. (frames \ {got[i] : i \in need}) \cap Received(new) = {}
  BY <1>10
<1>13. (frames \ {got[i] : i \in need}) \cup Received(new) = frames \cup Received(info)
  BY <1>10, <1>11
<1>14. \A i \in RxIds : info[i] \in Frames => new[i] = info[i]
  BY <1>0, <1>1, <1>2
<1>15. \A i \in ids : new[i] \in Frames
  <2> SUFFICES ASSUME NEW i \in ids
               PROVE  new[i] \in Frames
    OBVIOUS
  <2>1. CASE i \in need
    BY <1>1, <2>1
  <2>2. CASE i \notin need
    BY <1>2, <1>3, <1>a, <2>2
  <2> QED
    BY <2>1, <2>2
<1> QED
  BY <1>8, <1>9, <1>12, <1>13, <1>14, <1>15 DEF FilledWell, new

\* A ring is filled with as many ids as there are entries, and frames, for.
LEMMA RefilledWell ==
    ASSUME NEW info \in [RxIds -> Frames \cup {NoFrame}], NEW free \in Seq(RxIds),
           NEW n \in 0..Len(free), NEW frames \in SUBSET Frames,
           OneSlot(info), frames \cap Received(info) = {},
           NEW r \in Refilled(info, free, n, frames)
    PROVE  /\ \E c \in 0..n : r.ids = SubSeq(free, 1, c)
                              /\ r.free = SubSeq(free, c + 1, Len(free))
           /\ FilledWell(info, r.info, ToSet(r.ids), r.fill, frames)
<1> DEFINE K == {k \in 0..n : Cardinality(Needing(SubSeq(free, 1, k), info))
                                 <= Cardinality(frames)}
           c == Max(K)
           ids == SubSeq(free, 1, c)
           need == Needing(ids, info)
<1>0. Len(free) \in Nat /\ n \in Nat
  BY LenProperties
<1>1. 0 \in K
  <2>1. SubSeq(free, 1, 0) = <<>>
    <3>1. 0 \in 0..Len(free)
      BY <1>0
    <3>2. SubSeq(free, 1, 0) \in Seq(RxIds) /\ Len(SubSeq(free, 1, 0)) = 0
      BY <3>1, FrontAndRest
    <3> QED
      BY <3>2, EmptySeq
  <2>2. Needing(<<>>, info) = {}
    BY DEF Needing, ToSet
  <2>3. Cardinality({}) = 0 /\ Cardinality(frames) \in Nat
    <3>1. IsFiniteSet(frames)
      BY FramesAssumption, FS_Subset
    <3> QED
      BY <3>1, FS_EmptySet, FS_CardinalityType
  <2>4. Cardinality(Needing(SubSeq(free, 1, 0), info)) = 0
    BY <2>1, <2>2, <2>3
  <2> QED
    BY <1>0, <2>3, <2>4
<1>2. c \in 0..n
  <2>1. K \in SUBSET (0..n) /\ K # {}
    BY <1>1
  <2> HIDE DEF K
  <2> QED
    BY <1>0, <2>1, MaxExists
<1>3. PICK got \in {g \in [need -> frames] : IsInjective(g)} :
          r = [ids |-> ids, free |-> SubSeq(free, c + 1, Len(free)),
               info |-> [i \in RxIds |-> IF i \in need THEN got[i] ELSE info[i]],
               fill |-> frames \ {got[i] : i \in need}]
  BY DEF Refilled
<1> HIDE DEF c, K
<1>4. /\ r.ids = ids /\ r.free = SubSeq(free, c + 1, Len(free))
      /\ r.info = [i \in RxIds |-> IF i \in need THEN got[i] ELSE info[i]]
      /\ r.fill = frames \ {got[i] : i \in need}
  BY <1>3
<1>5. ToSet(ids) \in SUBSET RxIds
  <2>1. c \in 0..Len(free)
    BY <1>0, <1>2
  <2>2. ids \in Seq(RxIds)
    BY <2>1, FrontAndRest
  <2> HIDE DEF ids
  <2> QED
    BY <2>2, InSequence
<1>6. need = {i \in ToSet(ids) : info[i] = NoFrame}
  BY DEF Needing
<1>7. got \in [need -> frames] /\ IsInjective(got)
  OBVIOUS
<1> DEFINE set == ToSet(ids)
<1>8. Suits(info, set, need, got, frames)
  <2> HIDE DEF need, ids
  <2> QED
    BY <1>5, <1>6, <1>7 DEF Suits
<1>9. r.info = Given(info, need, got) /\ ToSet(r.ids) = set
  BY <1>4 DEF Given
<1> HIDE DEF need, set, ids
<1>10. FilledWell(info, Given(info, need, got), set, frames \ {got[i] : i \in need}, frames)
  BY <1>8, FilledSlots
<1>11. FilledWell(info, r.info, ToSet(r.ids), r.fill, frames)
  BY <1>4, <1>9, <1>10
<1> QED
  BY <1>2, <1>4, <1>11 DEF ids

\* What has a frame in its place, and keeps it, has it.
LEMMA FramesKept ==
    ASSUME NEW info, NEW new, NEW out, NEW packets, NEW ids,
           HaveFrames(info, out, packets), ToSet(out) \subseteq RxIds,
           \A k \in DOMAIN packets : ToSet(packets[k]) \subseteq RxIds,
           \A i \in RxIds : info[i] \in Frames => new[i] = info[i],
           \A i \in ids : new[i] \in Frames, NEW more, ToSet(more) = ToSet(out) \cup ids
    PROVE  HaveFrames(new, more, packets)
<1>1. \A i \in ToSet(out) : new[i] \in Frames
  BY DEF HaveFrames
<1>2. \A k \in DOMAIN packets : \A i \in ToSet(packets[k]) : new[i] \in Frames
  BY DEF HaveFrames
<1> QED
  BY <1>1, <1>2 DEF HaveFrames

-----------------------------------------------------------------------------
(***************************************************************************)
(* What a step leaves alone                                                *)
(***************************************************************************)
LEMMA Sizes ==
    /\ TxSize \in Nat /\ TxSize # 0 /\ RxSize \in Nat /\ RxSize # 0 /\ SglSize \in Nat
    /\ SglSize # 0 /\ Budget \in Nat
  BY SizesAssumption, BudgetAssumption

LEMMA RingSame ==
    ASSUME RingInv, UNCHANGED <<txRingVars, reserved>>, poll'.zc = poll.zc,
           poll'.done = poll.done, napi # "ack" \/ napi' = napi
    PROVE  RingInv'
<1>1. /\ used' = used /\ next_to_use' = next_to_use /\ next_to_clean' = next_to_clean
      /\ tx_info' = tx_info /\ reserved' = reserved
  BY DEF txRingVars
<1> QED
  BY <1>1 DEF RingInv, Window

LEMMA IdsSame ==
    ASSUME IdsInv, UNCHANGED rxVars
    PROVE  IdsInv'
<1>1. /\ rx_info' = rx_info /\ free_ids' = free_ids /\ rx_used' = rx_used
      /\ posted' = posted /\ rx_cq' = rx_cq
  BY DEF rxVars
<1> QED
  BY <1>1 DEF IdsInv

LEMMA FramesSame ==
    ASSUME FramesInv, UNCHANGED socketVars, rx_info' = rx_info
    PROVE  FramesInv'
<1>1. app' = app /\ tx_desc' = tx_desc /\ reserved' = reserved /\ fill' = fill
  BY DEF socketVars
<1> QED
  BY <1>1 DEF FramesInv

-----------------------------------------------------------------------------
(***************************************************************************)
(* Packets are placed on the ring                                          *)
(***************************************************************************)
LEMMA PlaceIs ==
    ASSUME NEW packets, Place(packets)
    PROVE  /\ tx_info' = Placed(tx_info, next_to_use, packets)
           /\ next_to_use' = After(next_to_use, Len(packets))
           /\ used' = used + Len(packets)
  BY DEF Place, Placed, SlotsFor, PlacedAt, PacketFor

\* The window, with what it holds, while packets are added to it.
LEMMA WindowGrows ==
    ASSUME TxTypes, poll \in Polls, RingInv, NEW m \in Nat, used + m < TxSize,
           next_to_use' = After(next_to_use, m), used' = used + m
    PROVE  /\ Window \in Nat /\ Window + m \in 0..(TxSize - 1) /\ used' \in 0..(TxSize - 1)
           /\ used' - poll.done = Window + m
           /\ next_to_use' \in Slots /\ next_to_use' = After(next_to_clean, Window + m)
<1>1. /\ used \in 0..(TxSize - 1) /\ poll.done \in 0..(TxSize - 1) /\ poll.done <= used
      /\ next_to_clean \in Slots /\ next_to_use = After(next_to_clean, Window)
  BY DEF TxTypes, Polls, RingInv
<1>2. /\ Window \in Nat /\ Window + m \in 0..(TxSize - 1) /\ used' \in 0..(TxSize - 1)
      /\ used' - poll.done = Window + m
  BY <1>1, Sizes DEF Window
<1> DEFINE w == Window
<1> HIDE DEF w
<1>3. w \in Nat /\ m \in Nat /\ w + m < TxSize
  BY <1>2, Sizes DEF w
<1>4. After(After(next_to_clean, w), m) = After(next_to_clean, w + m)
      /\ After(next_to_clean, w + m) \in Slots
  BY <1>1, <1>3, AfterAfter
<1> QED
  BY <1>1, <1>2, <1>4 DEF w

\* One of others.
LEMMA OtherPlaced ==
    ASSUME TxTypes, SocketTypes, NapiTypes, RingInv, Place(<<Other>>), used + 1 < TxSize,
           acked' = acked, next_to_clean' = next_to_clean, reserved' = reserved,
           poll'.zc = poll.zc, poll'.done = poll.done, napi' = napi
    PROVE  TxTypes' /\ RingInv'
<1>1. /\ tx_info' = Placed(tx_info, next_to_use, <<Other>>)
      /\ next_to_use' = After(next_to_use, 1) /\ used' = used + 1
  <2>1. PICK packets : packets = <<Other>>
    OBVIOUS
  <2>2. Len(packets) = 1 /\ Place(packets)
    BY <2>1
  <2>3. /\ tx_info' = Placed(tx_info, next_to_use, packets)
        /\ next_to_use' = After(next_to_use, Len(packets)) /\ used' = used + Len(packets)
    BY <2>2, PlaceIs
  <2> QED
    BY <2>1, <2>2, <2>3
<1>2. poll \in Polls
  BY DEF NapiTypes
<1>3. /\ Window \in Nat /\ Window + 1 \in 0..(TxSize - 1) /\ used' \in 0..(TxSize - 1)
      /\ used' - poll.done = Window + 1
      /\ next_to_use' \in Slots /\ next_to_use' = After(next_to_clean, Window + 1)
  BY <1>1, <1>2, WindowGrows
<1>4. /\ next_to_use = After(next_to_clean, Window) /\ next_to_clean \in Slots
      /\ tx_info \in [Slots -> Packets] /\ poll.zc + 1 \in Nat /\ reserved \in Seq(Frames)
      /\ Ordered(poll.zc + 1, reserved, Window, next_to_clean, tx_info)
  BY <1>2 DEF RingInv, TxTypes, Packets, SocketTypes, Polls
<1>5. Window + 1 < TxSize
  BY <1>3, Sizes
<1> DEFINE w == Window
           from == poll.zc + 1
<1> HIDE DEF w, from
<1>6. LET new == Placed(tx_info, After(next_to_clean, w), <<Other>>)
      IN  new \in [Slots -> Packets] /\ Ordered(from, reserved, w + 1, next_to_clean, new)
  BY <1>3, <1>4, <1>5, OrderedOther DEF w, from
<1>7. tx_info' \in [Slots -> Packets] /\ Ordered(from, reserved, w + 1, next_to_clean, tx_info')
  BY <1>1, <1>4, <1>6 DEF w
<1>8. TxTypes'
  BY <1>3, <1>7 DEF TxTypes, Packets
<1>9. Window' = w + 1
  BY <1>3 DEF Window, w
<1>10. Ordered(poll'.zc + 1, reserved', Window', next_to_clean', tx_info')
  BY <1>7, <1>9 DEF from
<1>11. poll'.done <= used' /\ poll'.zc <= Len(reserved')
  BY <1>1, <1>2 DEF RingInv, TxTypes, Polls
<1>12. next_to_use' = After(next_to_clean', Window')
  BY <1>3, <1>9 DEF w
<1> QED
  BY <1>8, <1>10, <1>11, <1>12 DEF RingInv

-----------------------------------------------------------------------------
(***************************************************************************)
(* The steps of others, and of the application                             *)
(***************************************************************************)
LEMMA OneSlotFor == ASSUME next_to_use \in Slots PROVE SlotsFor(1) \subseteq Slots
<1>1. 0 \in 0..TxSize
  BY Sizes
<1>2. After(next_to_use, 0) \in Slots
  BY <1>1, AfterIs
<1>3. 0..(1 - 1) = {0}
  OBVIOUS
<1> QED
  BY <1>2, <1>3 DEF SlotsFor

LEMMA OtherSendsKeeps ==
    ASSUME IInv, OtherSends
    PROVE  IInv'
<1> USE DEF OtherSends
<1>1. used + 1 < TxSize
  <2>1. used \in 0..(TxSize - 1)
    BY DEF IInv, Types, QueueTypes, TxTypes
  <2> QED
    BY <2>1, Sizes DEF HaveSpace, StopSpace, XdpSpace
<1>2. TxTypes' /\ RingInv'
  BY <1>1, OtherPlaced DEF IInv, Types, QueueTypes, socketVars, napiVars
<1>3. DevTypes'
  BY OneSlotFor DEF IInv, Types, QueueTypes, TxTypes, DevTypes, Doorbell, HoldBack
<1>4. RxTypes' /\ NapiTypes' /\ SocketTypes' /\ FlagTypes'
  BY DEF IInv, Types, QueueTypes, RxTypes, NapiTypes, SocketTypes, FlagTypes,
         rxVars, napiVars, socketVars, flagVars
<1>5. Counts'
  BY BoundsAssumption DEF IInv, Types, Counts
<1>6. IdsInv' /\ FramesInv'
  BY IdsSame, FramesSame DEF IInv, rxVars
<1> QED
  BY <1>2, <1>3, <1>4, <1>5, <1>6 DEF IInv, Types, QueueTypes

LEMMA AppSendsKeeps ==
    ASSUME IInv, NEW f \in Frames, AppSends(f)
    PROVE  IInv'
<1> USE DEF AppSends
<1>1. QueueTypes' /\ FlagTypes' /\ Counts'
  BY DEF IInv, Types, QueueTypes, TxTypes, DevTypes, RxTypes, NapiTypes, FlagTypes, Counts,
         txRingVars, txDevVars, rxVars, napiVars
<1>2. tx_desc \in Seq(Frames)
  BY DEF IInv, Types, SocketTypes
<1>3. /\ tx_desc' \in Seq(Frames) /\ ToSet(tx_desc') = ToSet(tx_desc) \cup {f}
      /\ IsInjective(tx_desc) /\ f \notin ToSet(tx_desc) => IsInjective(tx_desc')
  BY <1>2, AppendApart
<1>4. SocketTypes'
  BY <1>3 DEF IInv, Types, SocketTypes
<1>5. f \notin ToSet(tx_desc)
  BY DEF IInv, FramesInv, Parted
<1>6. Parted(app \ {f}, fill, ToSet(tx_desc) \cup {f}, ToSet(reserved), Received(rx_info))
  <2>1. Parted(app, fill, ToSet(tx_desc), ToSet(reserved), Received(rx_info)) /\ f \in app
    BY DEF IInv, FramesInv
  <2> QED
    BY <2>1 DEF Parted
<1>7. FramesInv'
  <2>1. IsInjective(tx_desc)
    BY DEF IInv, FramesInv
  <2>2. IsInjective(tx_desc')
    BY <1>3, <1>5, <2>1
  <2>3. reserved' = reserved /\ rx_info' = rx_info /\ fill' = fill /\ app' = app \ {f}
    BY DEF rxVars
  <2> QED
    BY <1>3, <1>6, <2>2, <2>3 DEF IInv, FramesInv
<1>8. IdsInv' /\ RingInv'
  BY IdsSame, RingSame DEF IInv, napiVars
<1> QED
  BY <1>1, <1>4, <1>7, <1>8 DEF IInv, Types

LEMMA AppFillsKeeps ==
    ASSUME IInv, NEW f \in Frames, AppFills(f)
    PROVE  IInv'
<1> USE DEF AppFills
<1>1. QueueTypes' /\ FlagTypes' /\ Counts' /\ SocketTypes'
  BY DEF IInv, Types, QueueTypes, TxTypes, DevTypes, RxTypes, NapiTypes, FlagTypes, Counts,
         SocketTypes, txRingVars, txDevVars, rxVars, napiVars
<1>2. FramesInv'
  <2>1. Parted(app, fill, ToSet(tx_desc), ToSet(reserved), Received(rx_info)) /\ f \in app
    BY DEF IInv, FramesInv
  <2>2. Parted(app \ {f}, fill \cup {f}, ToSet(tx_desc), ToSet(reserved), Received(rx_info))
    BY <2>1 DEF Parted
  <2>3. /\ tx_desc' = tx_desc /\ reserved' = reserved /\ rx_info' = rx_info
        /\ fill' = fill \cup {f} /\ app' = app \ {f}
    BY DEF rxVars
  <2> QED
    BY <2>2, <2>3 DEF IInv, FramesInv
<1>3. IdsInv' /\ RingInv'
  BY IdsSame, RingSame DEF IInv, napiVars
<1> QED
  BY <1>1, <1>2, <1>3 DEF IInv, Types

\* Steps that touch flags, and the place of a poll, alone.
LEMMA FlagsOnly ==
    ASSUME IInv, UNCHANGED <<socketVars, txRingVars, txDevVars, rxVars, others, faults>>,
           FlagTypes', NapiTypes', poll'.zc = poll.zc, poll'.done = poll.done,
           napi # "ack" \/ napi' = napi
    PROVE  IInv'
<1>1. SocketTypes' /\ TxTypes' /\ DevTypes' /\ RxTypes' /\ Counts'
  BY DEF IInv, Types, QueueTypes, SocketTypes, TxTypes, DevTypes, RxTypes, Counts,
         socketVars, txRingVars, txDevVars, rxVars
<1>2. RingInv'
  BY RingSame DEF IInv, socketVars
<1>3. IdsInv' /\ FramesInv'
  BY IdsSame, FramesSame DEF IInv, rxVars
<1> QED
  BY <1>1, <1>2, <1>3 DEF IInv, Types, QueueTypes

LEMMA AppLooksKeeps ==
    ASSUME IInv, AppLooks
    PROVE  IInv'
<1>1. FlagTypes' /\ NapiTypes'
  BY DEF AppLooks, IInv, Types, QueueTypes, FlagTypes, NapiTypes, napiVars
<1> QED
  BY <1>1, FlagsOnly DEF AppLooks, napiVars

LEMMA WakeupKeeps ==
    ASSUME IInv, Wakeup
    PROVE  IInv'
<1>1. FlagTypes' /\ NapiTypes'
  BY DEF Wakeup, IInv, Types, QueueTypes, FlagTypes, NapiTypes
<1> QED
  BY <1>1, FlagsOnly DEF Wakeup

LEMMA StartPollKeeps ==
    ASSUME IInv, StartPoll
    PROVE  IInv'
<1>1. FlagTypes' /\ NapiTypes'
  BY DEF StartPoll, IInv, Types, QueueTypes, FlagTypes, NapiTypes, flagVars
<1> QED
  BY <1>1, FlagsOnly DEF StartPoll

LEMMA SetTxFlagKeeps ==
    ASSUME IInv, SetTxFlag
    PROVE  IInv'
<1>1. poll.needs_wakeup \in BOOLEAN
  BY DEF IInv, Types, QueueTypes, NapiTypes, Polls
<1>2. FlagTypes' /\ NapiTypes'
  BY <1>1 DEF SetTxFlag, IInv, Types, QueueTypes, FlagTypes, NapiTypes
<1> QED
  BY <1>2, FlagsOnly DEF SetTxFlag

LEMMA SetRxFlagKeeps ==
    ASSUME IInv, SetRxFlag
    PROVE  IInv'
<1>1. (poll.error \/ poll.work < Budget) \in BOOLEAN
  OBVIOUS
<1>2. FlagTypes' /\ NapiTypes'
  BY <1>1 DEF SetRxFlag, IInv, Types, QueueTypes, FlagTypes, NapiTypes
<1> QED
  BY <1>2, FlagsOnly DEF SetRxFlag

LEMMA EndPollKeeps ==
    ASSUME IInv, EndPoll
    PROVE  IInv'
<1>1. NoPoll \in Polls /\ NoPoll.zc = 0 /\ NoPoll.done = 0
  BY Sizes DEF NoPoll, Polls
<1>2. poll.zc = 0 /\ poll.done = 0
  BY DEF IInv, RingInv, EndPoll
<1>3. FlagTypes' /\ NapiTypes'
  BY <1>1 DEF EndPoll, IInv, Types, QueueTypes, FlagTypes, NapiTypes, flagVars
<1> QED
  BY <1>1, <1>2, <1>3, FlagsOnly DEF EndPoll

LEMMA InterruptKeeps ==
    ASSUME IInv, Interrupt
    PROVE  IInv'
<1>1. FlagTypes' /\ NapiTypes'
  BY DEF Interrupt, IInv, Types, QueueTypes, FlagTypes, NapiTypes, flagVars
<1> QED
  BY <1>1, FlagsOnly DEF Interrupt

-----------------------------------------------------------------------------
(***************************************************************************)
(* The transmit side of a poll                                             *)
(***************************************************************************)
LEMMA RunIs ==
    ASSUME NEW done, used \in Nat
    PROVE  Run(done) \in 0..used
<1> DEFINE K == {n \in 0..used : \A k \in 0..(n - 1) : After(next_to_clean, k) \in done}
<1>1. 0 \in K
  OBVIOUS
<1>2. K \in SUBSET (0..used) /\ K # {}
  BY <1>1
<1>3. Max(K) \in K
  <2> HIDE DEF K
  <2> QED
    BY <1>2, MaxExists
<1> QED
  BY <1>3 DEF Run

LEMMA CleanTxKeeps ==
    ASSUME IInv, CleanTx
    PROVE  IInv'
<1>1. PICK now \in SUBSET (tx_cq \ {BadSlot}), bad \in BOOLEAN :
          LET done == acked \cup now
          IN  /\ tx_cq' = (tx_cq \ now) \ (IF bad THEN {BadSlot} ELSE {})
              /\ acked' = done \ Cleaned(done)
              /\ tx_info' = [s \in Slots |-> IF s \in Cleaned(done) THEN NoFrame
                                             ELSE tx_info[s]]
              /\ next_to_clean' = After(next_to_clean, Run(done))
              /\ poll' = [poll EXCEPT !.zc = Cardinality(FramesDone(done)),
                                      !.done = Run(done),
                                      !.needs_wakeup = Cardinality(now) < Budget]
              /\ trigger_reset' = (trigger_reset \/ bad)
  BY DEF CleanTx
<1>2. /\ napi = "clean" /\ napi' = "ack"
      /\ UNCHANGED <<uses_need_wakeup, socketVars, flagVars, next_to_use, used, unrung,
                     inDevice, rxVars, missed, event, others, faults>>
  BY DEF CleanTx
<1> DEFINE done == acked \cup now
           r == Run(done)
           m == Cardinality(Held(tx_info, next_to_clean, r))
<1>3. /\ tx_info \in [Slots -> Packets] /\ used \in 0..(TxSize - 1) /\ next_to_clean \in Slots
      /\ acked \subseteq Slots /\ reserved \in Seq(Frames) /\ tx_cq \subseteq Slots \cup {BadSlot}
      /\ poll \in Polls
  BY DEF IInv, Types, QueueTypes, TxTypes, SocketTypes, NapiTypes, DevTypes, Packets
<1>4. /\ Window = used /\ poll.zc + 1 = 1 /\ next_to_use = After(next_to_clean, used)
      /\ Ordered(1, reserved, used, next_to_clean, tx_info)
  <2>1. poll.zc = 0 /\ poll.done = 0 /\ poll.zc + 1 = 1
    BY <1>2 DEF IInv, RingInv
  <2>2. Window = used
    BY <1>3, <2>1 DEF Window
  <2> QED
    BY <2>1, <2>2 DEF IInv, RingInv
<1>5. r \in 0..used
  BY <1>3, RunIs
<1>6. /\ FramesDone(done) = Held(tx_info, next_to_clean, r)
      /\ tx_info' = Clear(tx_info, next_to_clean, r)
      /\ next_to_clean' = After(next_to_clean, r)
  BY <1>1 DEF FramesDone, Held, Cleaned, Clear
<1>7. /\ poll' = [poll EXCEPT !.zc = m, !.done = r, !.needs_wakeup = Cardinality(now) < Budget]
      /\ acked' \subseteq done /\ tx_cq' \subseteq tx_cq
  BY <1>1, <1>6
<1>8. now \subseteq Slots /\ done \subseteq Slots
  BY <1>3
<1> HIDE DEF m, r, done
<1>9. /\ m \in 0..Len(reserved) /\ m <= r /\ tx_info' \in [Slots -> Packets]
      /\ Ordered(m + 1, reserved, used - r, next_to_clean', tx_info')
  <2>1. LET k == Cardinality(Held(tx_info, next_to_clean, r))
            new == Clear(tx_info, next_to_clean, r)
        IN  /\ k \in 0..Len(reserved) /\ k <= r /\ new \in [Slots -> Packets]
            /\ Ordered(k + 1, reserved, used - r, After(next_to_clean, r), new)
    BY <1>3, <1>4, <1>5, OrderedCleaned
  <2> QED
    BY <1>6, <2>1 DEF m
<1>10. Len(reserved) \in Nat
  BY <1>3, LenProperties
<1>11. r \in 0..(TxSize - 1) /\ m \in 0..(TxSize - 1)
  <2>1. r \in 0..(TxSize - 1)
    BY <1>3, <1>5, Sizes
  <2>2. m \in Nat /\ m <= r
    BY <1>9, <1>10
  <2> QED
    BY <2>1, <2>2, Sizes
<1>12. poll' \in Polls /\ poll'.zc = m /\ poll'.done = r
  <2> DEFINE w == Cardinality(now) < Budget
  <2>1. w \in BOOLEAN /\ poll' = [poll EXCEPT !.zc = m, !.done = r, !.needs_wakeup = w]
    BY <1>7
  <2> HIDE DEF w
  <2> QED
    BY <1>3, <1>11, <2>1 DEF Polls
<1>13. next_to_clean' \in Slots /\ next_to_use = After(next_to_clean', used - r)
  <2>1. r \in Nat /\ used - r \in Nat /\ r + (used - r) = used /\ r + (used - r) < TxSize
    BY <1>3, <1>5, Sizes
  <2>2. /\ After(next_to_clean, r) \in Slots
        /\ After(After(next_to_clean, r), used - r) = After(next_to_clean, r + (used - r))
    BY <1>3, <2>1, AfterAfter
  <2> QED
    BY <1>4, <1>6, <2>1, <2>2
<1>14. QueueTypes'
  <2>1. TxTypes'
    BY <1>2, <1>7, <1>8, <1>9, <1>13 DEF IInv, Types, QueueTypes, TxTypes, Packets
  <2>2. DevTypes' /\ RxTypes'
    BY <1>2, <1>7 DEF IInv, Types, QueueTypes, DevTypes, RxTypes, rxVars
  <2>3. NapiTypes'
    BY <1>2, <1>12 DEF IInv, Types, QueueTypes, NapiTypes
  <2> QED
    BY <2>1, <2>2, <2>3 DEF QueueTypes
<1>15. SocketTypes' /\ FlagTypes' /\ Counts'
  BY <1>1, <1>2 DEF IInv, Types, SocketTypes, FlagTypes, Counts, socketVars, flagVars
<1>16. RingInv'
  <2>1. Window' = used - r /\ reserved' = reserved
    BY <1>2, <1>12 DEF Window, socketVars
  <2>2. poll'.done <= used' /\ next_to_use' = After(next_to_clean', Window')
    BY <1>2, <1>3, <1>5, <1>12, <1>13, <2>1
  <2>3. poll'.zc <= Len(reserved')
    BY <1>9, <1>10, <1>12, <2>1
  <2>4. Ordered(poll'.zc + 1, reserved', Window', next_to_clean', tx_info')
    BY <1>9, <1>12, <2>1
  <2> QED
    BY <1>2, <2>2, <2>3, <2>4 DEF RingInv
<1>17. IdsInv' /\ FramesInv'
  BY <1>2, IdsSame, FramesSame DEF IInv, rxVars
<1> QED
  BY <1>14, <1>15, <1>16, <1>17 DEF IInv, Types

LEMMA AckKeeps ==
    ASSUME IInv, Ack
    PROVE  IInv'
<1> USE DEF Ack
<1> DEFINE z == poll.zc
           given == SubSeq(reserved, 1, z)
           rest == SubSeq(reserved, z + 1, Len(reserved))
<1>1. /\ reserved \in Seq(Frames) /\ Len(reserved) \in Nat /\ z \in 0..Len(reserved)
      /\ poll \in Polls /\ IsInjective(reserved)
      /\ used \in 0..(TxSize - 1) /\ poll.done \in 0..used
  <2>1. reserved \in Seq(Frames) /\ poll \in Polls /\ used \in 0..(TxSize - 1)
    BY DEF IInv, Types, QueueTypes, SocketTypes, NapiTypes, TxTypes
  <2>2. poll.zc \in Nat /\ poll.done \in Nat /\ poll.zc <= Len(reserved) /\ poll.done <= used
    BY <2>1, Sizes DEF IInv, RingInv, Polls
  <2>3. Len(reserved) \in Nat
    BY <2>1, LenProperties
  <2>4. IsInjective(reserved)
    BY DEF IInv, FramesInv
  <2> QED
    BY <2>1, <2>2, <2>3, <2>4
<1>2. /\ given \in Seq(Frames) /\ rest \in Seq(Frames) /\ IsInjective(rest)
      /\ ToSet(given) \cap ToSet(rest) = {} /\ ToSet(given) \cup ToSet(rest) = ToSet(reserved)
  BY <1>1, CutApart
<1>3. app' = app \cup ToSet(given) /\ reserved' = rest /\ used' = used - poll.done
  OBVIOUS
<1>4. Ordered(1, rest, Window, next_to_clean, tx_info)
  <2>1. Ordered(z + 1, reserved, Window, next_to_clean, tx_info)
    BY DEF IInv, RingInv
  <2> QED
    BY <1>1, <2>1, OrderedGiven
<1> HIDE DEF given, rest, z
<1>5. poll' \in Polls /\ poll'.zc = 0 /\ poll'.done = 0
  <2>1. 0 \in 0..(TxSize - 1)
    BY Sizes
  <2> QED
    BY <1>1, <2>1 DEF Polls
<1>6. QueueTypes'
  <2>1. used' \in 0..(TxSize - 1)
    BY <1>1, <1>3, Sizes
  <2>2. TxTypes' /\ DevTypes' /\ RxTypes'
    BY <2>1 DEF IInv, Types, QueueTypes, TxTypes, DevTypes, RxTypes, txDevVars, rxVars
  <2>3. NapiTypes'
    BY <1>5 DEF IInv, Types, QueueTypes, NapiTypes
  <2> QED
    BY <2>2, <2>3 DEF QueueTypes
<1>7. SocketTypes'
  <2>1. ToSet(given) \subseteq Frames
    BY <1>2, InSequence
  <2> QED
    BY <1>2, <1>3, <2>1 DEF IInv, Types, SocketTypes
<1>8. FlagTypes' /\ Counts'
  BY DEF IInv, Types, FlagTypes, Counts, flagVars
<1>9. RingInv'
  <2>1. Window' = Window
    BY <1>1, <1>3, <1>5 DEF Window
  <2>2. poll'.zc <= Len(reserved') /\ poll'.done <= used'
    <3>1. Len(rest) \in Nat
      BY <1>2, LenProperties
    <3>2. used' \in Nat
      BY <1>1, <1>3, Sizes
    <3>3. \A k \in Nat : 0 <= k
      OBVIOUS
    <3> QED
      BY <1>3, <1>5, <3>1, <3>2, <3>3
  <2>3. 0 + 1 = 1
    OBVIOUS
  <2>4. Ordered(poll'.zc + 1, reserved', Window', next_to_clean', tx_info')
    BY <1>3, <1>4, <1>5, <2>1, <2>3
  <2>5. next_to_use' = After(next_to_clean', Window')
    BY <2>1 DEF IInv, RingInv
  <2> QED
    BY <1>5, <2>2, <2>4, <2>5 DEF RingInv
<1>10. FramesInv'
  <2>1. Parted(app, fill, ToSet(tx_desc), ToSet(reserved), Received(rx_info))
    BY DEF IInv, FramesInv
  <2>2. Parted(app \cup ToSet(given), fill, ToSet(tx_desc), ToSet(rest), Received(rx_info))
    BY <1>2, <2>1 DEF Parted
  <2>3. fill' = fill /\ tx_desc' = tx_desc /\ rx_info' = rx_info
    BY DEF rxVars
  <2> QED
    BY <1>2, <1>3, <2>2, <2>3 DEF IInv, FramesInv
<1>11. IdsInv'
  BY IdsSame DEF IInv
<1> QED
  BY <1>6, <1>7, <1>8, <1>9, <1>10, <1>11 DEF IInv, Types

LEMMA SendableIs ==
    ASSUME tx_desc \in Seq(Frames), used \in 0..(TxSize - 1)
    PROVE  Sendable \in 0..Len(tx_desc) /\ used + Sendable < TxSize
<1> DEFINE top == Min({Budget, Len(tx_desc)})
           K == {n \in 0..top : n = 0 \/ HaveSpace(StopSpace + n - 1)}
<1>1. Len(tx_desc) \in Nat /\ Budget \in Nat
  BY LenProperties, Sizes
<1>2. top \in Nat /\ top <= Len(tx_desc)
  <2>1. PICK T : T = {Budget, Len(tx_desc)}
    OBVIOUS
  <2>2. T \in SUBSET Nat /\ T # {} /\ Len(tx_desc) \in T
    BY <1>1, <2>1
  <2>3. Min(T) \in T /\ \A y \in T : Min(T) <= y
    BY <2>2, MinExists
  <2> QED
    BY <2>1, <2>2, <2>3
<1> HIDE DEF top
<1>3. 0 \in K
  BY <1>2
<1>4. K \in SUBSET (0..top) /\ K # {}
  BY <1>3
<1>5. Max(K) \in K
  <2> HIDE DEF K
  <2> QED
    BY <1>2, <1>4, MaxExists
<1>6. PICK n \in 0..top : n = Sendable /\ (n = 0 \/ HaveSpace(StopSpace + n - 1))
  BY <1>5 DEF Sendable, top
<1>7. used + n < TxSize
  <2>1. CASE n = 0
    BY <2>1, Sizes
  <2>2. CASE HaveSpace(StopSpace + n - 1)
    <3>1. TxSize - 1 - used >= SglSize + 2 + n - 1
      BY <2>2 DEF HaveSpace, StopSpace
    <3> QED
      BY <1>2, <3>1, Sizes
  <2> QED
    BY <1>6, <2>1, <2>2
<1> QED
  BY <1>1, <1>2, <1>6, <1>7

LEMMA XmitZcKeeps ==
    ASSUME IInv, XmitZc
    PROVE  IInv'
<1> DEFINE n == Sendable
           sent == SubSeq(tx_desc, 1, n)
           rest == SubSeq(tx_desc, n + 1, Len(tx_desc))
<1>0. /\ napi = "xmit" /\ Place(sent) /\ tx_desc' = rest /\ reserved' = reserved \o sent
      /\ IF n > 0 THEN Doorbell(unrung \cup SlotsFor(n)) ELSE UNCHANGED <<unrung, inDevice>>
      /\ poll' = [poll EXCEPT !.needs_wakeup = @ /\ n < Budget]
      /\ napi' = "txflag"
      /\ UNCHANGED <<uses_need_wakeup, app, fill, flagVars, acked, next_to_clean, tx_cq,
                     rxVars, missed, event, trigger_reset, others, faults>>
  BY DEF XmitZc
<1>1. /\ tx_desc \in Seq(Frames) /\ reserved \in Seq(Frames) /\ used \in 0..(TxSize - 1)
      /\ poll \in Polls /\ TxTypes /\ next_to_clean \in Slots /\ next_to_use \in Slots
      /\ tx_info \in [Slots -> Packets]
      /\ RingInv /\ IsInjective(tx_desc) /\ IsInjective(reserved)
  BY DEF IInv, Types, QueueTypes, SocketTypes, TxTypes, NapiTypes, FramesInv, Packets
<1>2. n \in 0..Len(tx_desc) /\ used + n < TxSize
  BY <1>1, SendableIs
<1>3. /\ sent \in Seq(Frames) /\ rest \in Seq(Frames) /\ Len(sent) = n
      /\ IsInjective(sent) /\ IsInjective(rest)
      /\ ToSet(sent) \cap ToSet(rest) = {} /\ ToSet(sent) \cup ToSet(rest) = ToSet(tx_desc)
  <2> HIDE DEF n
  <2> QED
    BY <1>1, <1>2, CutApart
<1>4. /\ tx_info' = Placed(tx_info, next_to_use, sent)
      /\ next_to_use' = After(next_to_use, Len(sent)) /\ used' = used + Len(sent)
  BY <1>0, PlaceIs
<1>5. /\ poll.zc = 0 /\ poll.done = 0 /\ poll'.zc = 0 /\ poll'.done = 0
      /\ poll' \in Polls
  <2>1. poll.zc = 0 /\ poll.done = 0
    BY <1>0, <1>1 DEF RingInv
  <2> DEFINE w == poll.needs_wakeup /\ n < Budget
  <2>2. w \in BOOLEAN /\ poll' = [poll EXCEPT !.needs_wakeup = w]
    BY <1>0
  <2> HIDE DEF w
  <2> QED
    BY <1>1, <2>1, <2>2 DEF Polls
<1> HIDE DEF sent, rest, n
<1>6. n \in Nat
  <2>1. Len(tx_desc) \in Nat
    BY <1>1, LenProperties
  <2> QED
    BY <1>2, <2>1
<1>7. /\ Window \in Nat /\ Window + n \in 0..(TxSize - 1) /\ used' \in 0..(TxSize - 1)
      /\ used' - poll.done = Window + n
      /\ next_to_use' \in Slots /\ next_to_use' = After(next_to_clean, Window + n)
  BY <1>1, <1>2, <1>3, <1>4, <1>6, WindowGrows
<1>8. tx_info' \in [Slots -> Packets]
      /\ Ordered(1, reserved \o sent, Window + n, next_to_clean, tx_info')
  <2> DEFINE w == Window
  <2>1. /\ Ordered(1, reserved, w, next_to_clean, tx_info)
        /\ next_to_use = After(next_to_clean, w) /\ w \in Nat /\ w + n < TxSize
    <3>1. poll.zc + 1 = 1
      BY <1>5
    <3> QED
      BY <1>1, <1>7, <3>1, Sizes DEF RingInv
  <2> HIDE DEF w
  <2>2. 1 \in Nat \ {0} /\ 1 <= Len(reserved) + 1
    BY <1>1, LenProperties
  <2>3. LET new == Placed(tx_info, After(next_to_clean, w), sent)
        IN  /\ new \in [Slots -> Packets]
            /\ Ordered(1, reserved \o sent, w + Len(sent), next_to_clean, new)
    BY <1>1, <1>3, <2>1, <2>2, OrderedSent
  <2> QED
    BY <1>3, <1>4, <2>1, <2>3 DEF w
<1>9. /\ reserved' \in Seq(Frames) /\ Len(reserved') \in Nat
      /\ ToSet(reserved') = ToSet(reserved) \cup ToSet(sent) /\ IsInjective(reserved')
  <2>1. ToSet(reserved) \cap ToSet(sent) = {}
    <3>1. ToSet(reserved) \cap ToSet(tx_desc) = {}
      BY DEF IInv, FramesInv, Parted
    <3> QED
      BY <1>3, <3>1
  <2>2. reserved \o sent \in Seq(Frames)
    BY <1>1, <1>3, ConcatApart
  <2> QED
    BY <1>0, <1>1, <1>3, <2>1, <2>2, ConcatApart, LenProperties
<1>10. SlotsFor(n) \subseteq Slots
  <2>1. ASSUME NEW k \in 0..(n - 1)
        PROVE  After(next_to_use, k) \in Slots
    <3>1. k \in 0..TxSize
      BY <1>1, <1>2, <1>6, Sizes
    <3> QED
      BY <1>1, <3>1, AfterIs
  <2> QED
    BY <2>1 DEF SlotsFor
<1>11. QueueTypes'
  <2>1. TxTypes'
    BY <1>0, <1>7, <1>8 DEF IInv, Types, QueueTypes, TxTypes, Packets
  <2>2. DevTypes'
    BY <1>0, <1>10 DEF IInv, Types, QueueTypes, DevTypes, Doorbell
  <2>3. RxTypes' /\ NapiTypes'
    BY <1>0, <1>5 DEF IInv, Types, QueueTypes, RxTypes, NapiTypes, rxVars
  <2> QED
    BY <2>1, <2>2, <2>3 DEF QueueTypes
<1>12. SocketTypes' /\ FlagTypes' /\ Counts'
  BY <1>0, <1>3, <1>9 DEF IInv, Types, SocketTypes, FlagTypes, Counts, flagVars
<1>13. RingInv'
  <2>1. Window' = Window + n
    BY <1>5, <1>7 DEF Window
  <2>2. poll'.done <= used' /\ next_to_use' = After(next_to_clean', Window')
    BY <1>0, <1>5, <1>7, <2>1
  <2>3. poll'.zc <= Len(reserved')
    BY <1>5, <1>9
  <2>4. poll'.zc + 1 = 1
    BY <1>5
  <2>5. Ordered(poll'.zc + 1, reserved', Window', next_to_clean', tx_info')
    BY <1>0, <1>8, <2>1, <2>4
  <2> QED
    BY <1>5, <2>2, <2>3, <2>5 DEF RingInv
<1>14. FramesInv'
  <2>1. Parted(app, fill, ToSet(tx_desc), ToSet(reserved), Received(rx_info))
    BY DEF IInv, FramesInv
  <2>2. Parted(app, fill, ToSet(rest), ToSet(reserved) \cup ToSet(sent), Received(rx_info))
    BY <1>3, <2>1 DEF Parted
  <2>3. fill' = fill /\ app' = app /\ rx_info' = rx_info
    BY <1>0 DEF rxVars
  <2> QED
    BY <1>0, <1>3, <1>9, <2>2, <2>3 DEF IInv, FramesInv
<1>15. IdsInv'
  BY <1>0, IdsSame DEF IInv
<1> QED
  BY <1>11, <1>12, <1>13, <1>14, <1>15 DEF IInv, Types

-----------------------------------------------------------------------------
(***************************************************************************)
(* The device                                                              *)
(***************************************************************************)
LEMMA DeviceSendsKeeps ==
    ASSUME IInv, NEW s \in Slots, DeviceSends(s)
    PROVE  IInv'
<1> USE DEF DeviceSends
<1>1. SocketTypes' /\ TxTypes' /\ RxTypes' /\ NapiTypes' /\ FlagTypes' /\ Counts'
  BY DEF IInv, Types, QueueTypes, SocketTypes, TxTypes, RxTypes, NapiTypes, FlagTypes, Counts,
         socketVars, txRingVars, rxVars, napiVars, flagVars
<1>2. DevTypes'
  BY DEF IInv, Types, QueueTypes, DevTypes
<1>3. RingInv'
  BY RingSame DEF IInv, socketVars, napiVars
<1>4. IdsInv' /\ FramesInv'
  BY IdsSame, FramesSame DEF IInv, rxVars
<1> QED
  BY <1>1, <1>2, <1>3, <1>4 DEF IInv, Types, QueueTypes

LEMMA DeviceReceivesKeeps ==
    ASSUME IInv, DeviceReceives
    PROVE  IInv'
<1>1. PICK n \in 1..Min({2, Len(posted)}) :
          /\ rx_cq' = Append(rx_cq, SubSeq(posted, 1, n))
          /\ posted' = SubSeq(posted, n + 1, Len(posted))
  BY DEF DeviceReceives
<1>2. /\ event' = TRUE
      /\ UNCHANGED <<uses_need_wakeup, socketVars, flagVars, txRingVars, txDevVars, rx_info,
                     free_ids, rx_used, napiVars, trigger_reset, others, faults>>
  BY DEF DeviceReceives
<1> DEFINE packet == SubSeq(posted, 1, n)
           rest == SubSeq(posted, n + 1, Len(posted))
<1>3. /\ posted \in Seq(RxIds) /\ Len(posted) \in Nat /\ rx_cq \in Seq(Seq(RxIds))
      /\ IsInjective(posted) /\ IdsApart(free_ids, posted, rx_cq)
      /\ HaveFrames(rx_info, posted, rx_cq)
  BY LenProperties DEF IInv, Types, QueueTypes, RxTypes, IdsInv, IdsApart
<1>4. n \in 0..Len(posted)
  <2>1. PICK T : T = {2, Len(posted)}
    OBVIOUS
  <2>2. T \in SUBSET Nat /\ T # {} /\ Len(posted) \in T
    BY <1>3, <2>1
  <2>3. Min(T) \in T /\ \A y \in T : Min(T) <= y
    BY <2>2, MinExists
  <2>4. PICK top \in Nat : top = Min(T) /\ top <= Len(posted)
    BY <2>2, <2>3
  <2>5. n \in 1..top
    BY <2>1, <2>4
  <2> QED
    BY <1>3, <2>4, <2>5
<1>5. /\ packet \in Seq(RxIds) /\ rest \in Seq(RxIds) /\ IsInjective(packet)
      /\ IsInjective(rest) /\ ToSet(packet) \cap ToSet(rest) = {}
      /\ ToSet(packet) \cup ToSet(rest) = ToSet(posted)
  BY <1>3, <1>4, CutApart
<1> HIDE DEF packet, rest
<1>6. /\ Append(rx_cq, packet) \in Seq(Seq(RxIds))
      /\ IdsApart(free_ids, rest, Append(rx_cq, packet))
      /\ HaveFrames(rx_info, rest, Append(rx_cq, packet))
  BY <1>3, <1>5, IdsDone
<1>7. rx_cq' = Append(rx_cq, packet) /\ posted' = rest
  BY <1>1 DEF packet, rest
<1>8. RxTypes'
  BY <1>2, <1>5, <1>6, <1>7 DEF IInv, Types, QueueTypes, RxTypes
<1>9. SocketTypes' /\ TxTypes' /\ DevTypes' /\ NapiTypes' /\ FlagTypes' /\ Counts'
  BY <1>2 DEF IInv, Types, QueueTypes, SocketTypes, TxTypes, DevTypes, NapiTypes, FlagTypes,
         Counts, socketVars, txRingVars, txDevVars, napiVars, flagVars
<1>10. IdsInv'
  BY <1>2, <1>6, <1>7 DEF IInv, IdsInv
<1>11. FramesInv' /\ RingInv'
  BY <1>2, FramesSame, RingSame DEF IInv, socketVars, napiVars
<1> QED
  BY <1>8, <1>9, <1>10, <1>11 DEF IInv, Types, QueueTypes

LEMMA DeviceErrsKeeps ==
    ASSUME IInv, DeviceErrs
    PROVE  IInv'
<1>1. /\ faults < MaxFaults /\ faults' = faults + 1 /\ event' = TRUE
      /\ \/ tx_cq' = tx_cq \cup {BadSlot} /\ UNCHANGED rx_cq
         \/ rx_cq' = Append(rx_cq, <<>>) /\ UNCHANGED tx_cq
      /\ UNCHANGED <<uses_need_wakeup, socketVars, flagVars, txRingVars, unrung, inDevice,
                     rx_info, free_ids, rx_used, posted, napiVars, trigger_reset, others>>
  BY DEF DeviceErrs, Malformed
<1>2. /\ rx_cq' \in Seq(Seq(RxIds)) /\ IdsApart(free_ids, posted, rx_cq')
      /\ HaveFrames(rx_info, posted, rx_cq')
  <2>1. /\ posted \in Seq(RxIds) /\ rx_cq \in Seq(Seq(RxIds)) /\ IsInjective(posted)
        /\ IdsApart(free_ids, posted, rx_cq) /\ HaveFrames(rx_info, posted, rx_cq)
    BY DEF IInv, Types, QueueTypes, RxTypes, IdsInv, IdsApart
  <2>2. PICK none : none = <<>>
    OBVIOUS
  <2>3. /\ none \in Seq(RxIds) /\ IsInjective(none) /\ ToSet(none) = {}
    BY <2>2 DEF IsInjective, ToSet
  <2>4. /\ Append(rx_cq, none) \in Seq(Seq(RxIds))
        /\ IdsApart(free_ids, posted, Append(rx_cq, none))
        /\ HaveFrames(rx_info, posted, Append(rx_cq, none))
    <3>1. ToSet(none) \cap ToSet(posted) = {} /\ ToSet(none) \cup ToSet(posted) = ToSet(posted)
      BY <2>3
    <3> QED
      BY <2>1, <2>3, <3>1, IdsDone
  <2> QED
    BY <1>1, <2>1, <2>2, <2>4
<1>3. RxTypes'
  BY <1>1, <1>2 DEF IInv, Types, QueueTypes, RxTypes
<1>4. SocketTypes' /\ TxTypes' /\ DevTypes' /\ NapiTypes' /\ FlagTypes'
  BY <1>1 DEF IInv, Types, QueueTypes, SocketTypes, TxTypes, DevTypes, NapiTypes, FlagTypes,
         socketVars, txRingVars, napiVars, flagVars
<1>5. Counts'
  BY <1>1, BoundsAssumption DEF IInv, Types, Counts
<1>6. IdsInv'
  BY <1>1, <1>2 DEF IInv, IdsInv
<1>7. FramesInv' /\ RingInv'
  BY <1>1, FramesSame, RingSame DEF IInv, socketVars, napiVars
<1> QED
  BY <1>3, <1>4, <1>5, <1>6, <1>7 DEF IInv, Types, QueueTypes

-----------------------------------------------------------------------------
(***************************************************************************)
(* The receive side of a poll                                              *)
(***************************************************************************)
LEMMA RxFacts ==
    ASSUME IInv
    PROVE  /\ free_ids \in Seq(RxIds) /\ Len(free_ids) \in Nat /\ posted \in Seq(RxIds)
           /\ rx_cq \in Seq(Seq(RxIds)) /\ rx_info \in [RxIds -> Frames \cup {NoFrame}]
           /\ rx_used \in 0..(RxSize - 1) /\ Len(free_ids) + rx_used = RxSize
           /\ IdsApart(free_ids, posted, rx_cq) /\ HaveFrames(rx_info, posted, rx_cq)
           /\ OneSlot(rx_info)
  BY LenProperties DEF IInv, Types, QueueTypes, RxTypes, IdsInv, FramesInv

\* The ids of the packet at the head become free.
LEMMA PacketTaken ==
    ASSUME IInv, rx_cq # <<>>, free_ids' = free_ids \o Head(rx_cq),
           rx_used' = rx_used - Len(Head(rx_cq)), rx_cq' = Tail(rx_cq)
    PROVE  /\ free_ids' \in Seq(RxIds) /\ rx_cq' \in Seq(Seq(RxIds))
           /\ rx_used' \in 0..(RxSize - 1) /\ Len(free_ids') + rx_used' = RxSize
           /\ IdsApart(free_ids', posted, rx_cq') /\ HaveFrames(rx_info, posted, rx_cq')
<1> DEFINE h == Head(rx_cq)
<1>1. /\ h \in Seq(RxIds) /\ Tail(rx_cq) \in Seq(Seq(RxIds))
      /\ HaveFrames(rx_info, posted, Tail(rx_cq))
      /\ free_ids \o h \in Seq(RxIds) /\ Len(free_ids \o h) = Len(free_ids) + Len(h)
      /\ Len(free_ids) + Len(h) <= RxSize
      /\ IdsApart(free_ids \o h, posted, Tail(rx_cq))
  BY RxFacts, PacketsTail, IdsFreed
<1>2. /\ rx_used \in 0..(RxSize - 1) /\ Len(free_ids) + rx_used = RxSize
      /\ Len(free_ids) \in Nat
  BY RxFacts
<1> HIDE DEF h
<1>3. Len(h) \in Nat
  BY <1>1, LenProperties
<1>4. rx_used - Len(h) \in 0..(RxSize - 1)
      /\ (Len(free_ids) + Len(h)) + (rx_used - Len(h)) = RxSize
  <2>1. /\ Len(free_ids) + Len(h) <= RxSize /\ rx_used \in Nat /\ rx_used <= RxSize - 1
        /\ Len(free_ids) \in Nat /\ Len(h) \in Nat /\ RxSize \in Nat
        /\ Len(free_ids) + rx_used = RxSize
    BY <1>1, <1>2, <1>3, Sizes
  <2> DEFINE a == Len(free_ids)
             b == Len(h)
  <2> HIDE DEF a, b
  <2>2. /\ a \in Nat /\ b \in Nat /\ rx_used \in Nat /\ RxSize \in Nat
        /\ a + rx_used = RxSize /\ a + b <= RxSize /\ rx_used <= RxSize - 1
    BY <2>1 DEF a, b
  <2>3. rx_used - b \in 0..(RxSize - 1) /\ (a + b) + (rx_used - b) = RxSize
    BY <2>2
  <2> QED
    BY <2>3 DEF a, b
<1>5. Len(free_ids \o h) + (rx_used - Len(h)) = RxSize
  <2>1. Len(free_ids \o h) = Len(free_ids) + Len(h)
    BY <1>1
  <2> QED
    BY <1>4, <2>1
<1> QED
  BY <1>1, <1>4, <1>5 DEF h

LEMMA NoMemoryKeeps ==
    ASSUME IInv, NoMemory
    PROVE  IInv'
<1> USE DEF NoMemory
<1>1. /\ free_ids' \in Seq(RxIds) /\ rx_cq' \in Seq(Seq(RxIds))
      /\ rx_used' \in 0..(RxSize - 1) /\ Len(free_ids') + rx_used' = RxSize
      /\ IdsApart(free_ids', posted, rx_cq') /\ HaveFrames(rx_info, posted, rx_cq')
  BY PacketTaken
<1>2. RxTypes' /\ IdsInv'
  BY <1>1 DEF IInv, Types, QueueTypes, RxTypes, IdsInv
<1>3. poll' \in Polls /\ poll'.zc = poll.zc /\ poll'.done = poll.done
  BY DEF IInv, Types, QueueTypes, NapiTypes, Polls
<1>4. SocketTypes' /\ TxTypes' /\ DevTypes' /\ NapiTypes' /\ FlagTypes'
  BY <1>3 DEF IInv, Types, QueueTypes, SocketTypes, TxTypes, DevTypes, NapiTypes, FlagTypes,
         socketVars, txRingVars, txDevVars, flagVars
<1>5. Counts'
  BY BoundsAssumption DEF IInv, Types, Counts
<1>6. FramesInv' /\ RingInv'
  BY <1>3, FramesSame, RingSame DEF IInv, socketVars
<1> QED
  BY <1>2, <1>4, <1>5, <1>6 DEF IInv, Types, QueueTypes

LEMMA BadPacketKeeps ==
    ASSUME IInv, BadPacket
    PROVE  IInv'
<1> USE DEF BadPacket
<1>1. /\ rx_cq' \in Seq(Seq(RxIds)) /\ IdsApart(free_ids, posted, rx_cq')
      /\ HaveFrames(rx_info, posted, rx_cq')
  BY RxFacts, PacketsTail
<1>2. RxTypes' /\ IdsInv'
  BY <1>1 DEF IInv, Types, QueueTypes, RxTypes, IdsInv
<1>3. poll' \in Polls /\ poll'.zc = poll.zc /\ poll'.done = poll.done
  BY DEF IInv, Types, QueueTypes, NapiTypes, Polls
<1>4. SocketTypes' /\ TxTypes' /\ DevTypes' /\ NapiTypes' /\ FlagTypes' /\ Counts'
  BY <1>3 DEF IInv, Types, QueueTypes, SocketTypes, TxTypes, DevTypes, NapiTypes, FlagTypes,
         Counts, socketVars, txRingVars, txDevVars, flagVars
<1>5. FramesInv' /\ RingInv'
  BY <1>3, FramesSame, RingSame DEF IInv, socketVars
<1> QED
  BY <1>2, <1>4, <1>5 DEF IInv, Types, QueueTypes

\* A slot gives its frame away.
LEMMA SlotEmptied ==
    ASSUME NEW info \in [RxIds -> Frames \cup {NoFrame}], NEW id \in RxIds, OneSlot(info),
           info[id] \in Frames
    PROVE  LET new == [info EXCEPT ![id] = NoFrame]
           IN  /\ new \in [RxIds -> Frames \cup {NoFrame}] /\ OneSlot(new)
               /\ Received(new) = Received(info) \ {info[id]} /\ info[id] \in Received(info)
               /\ \A i \in RxIds \ {id} : new[i] = info[i]
<1> DEFINE new == [info EXCEPT ![id] = NoFrame]
<1>0. NoFrame \notin Frames
  BY FramesAssumption
<1>1. /\ new \in [RxIds -> Frames \cup {NoFrame}] /\ new[id] = NoFrame
      /\ \A i \in RxIds \ {id} : new[i] = info[i]
  OBVIOUS
<1> HIDE DEF new
<1>2. OneSlot(new)
  BY <1>1 DEF OneSlot
<1>3. \A x \in Received(new) : x \in Received(info) /\ x # info[id]
  BY <1>0, <1>1 DEF Received, OneSlot
<1>4. \A x \in Received(info) : x # info[id] => x \in Received(new)
  BY <1>1 DEF Received
<1>5. info[id] \in Received(info)
  BY <1>0 DEF Received
<1>6. Received(new) = Received(info) \ {info[id]}
  BY <1>3, <1>4
<1> QED
  BY <1>1, <1>2, <1>5, <1>6 DEF new

LEMMA TakePacketKeeps ==
    ASSUME IInv, TakePacket
    PROVE  IInv'
<1> DEFINE h == Head(rx_cq)
           id == h[1]
           f == rx_info[id]
<1>1. PICK fate \in Fates :
          /\ rx_info' = [rx_info EXCEPT ![id] = SlotAfter(fate, f)]
          /\ app' = IF fate = "redirected" THEN app \cup {f} ELSE app
          /\ fill' = IF Freed(fate) THEN fill \cup {f} ELSE fill
          /\ IF SendsCopy(fate)
             THEN Place(<<Other>>) /\ HoldBack(unrung \cup SlotsFor(1)) /\ others' = others + 1
             ELSE UNCHANGED <<others, tx_info, next_to_use, used, unrung, inDevice>>
          /\ poll' = [poll EXCEPT !.work = @ + 1, !.xdp_tx = @ \/ fate = "sent"]
  BY DEF TakePacket, Fates
<1>2. /\ napi = "rx" /\ poll.work <= Budget /\ rx_cq # <<>> /\ h # <<>>
      /\ free_ids' = free_ids \o h /\ rx_used' = rx_used - Len(h) /\ rx_cq' = Tail(rx_cq)
      /\ UNCHANGED <<uses_need_wakeup, tx_desc, reserved, flagVars, acked, next_to_clean,
                     tx_cq, posted, napi, missed, event, trigger_reset, faults>>
  BY DEF TakePacket, MayTake, Malformed
<1>3. /\ free_ids' \in Seq(RxIds) /\ rx_cq' \in Seq(Seq(RxIds))
      /\ rx_used' \in 0..(RxSize - 1) /\ Len(free_ids') + rx_used' = RxSize
      /\ IdsApart(free_ids', posted, rx_cq') /\ HaveFrames(rx_info, posted, rx_cq')
  BY <1>2, PacketTaken
<1>4. /\ h \in Seq(RxIds) /\ ToSet(h) \cap ToSet(posted) = {}
      /\ \A k \in DOMAIN rx_cq' : ToSet(h) \cap ToSet(rx_cq'[k]) = {}
      /\ \A i \in ToSet(h) : rx_info[i] \in Frames
  BY <1>2, RxFacts, PacketsTail
<1> HIDE DEF h
<1>5. id \in ToSet(h) /\ id \in RxIds
  <2>1. Len(h) \in Nat \ {0}
    BY <1>2, <1>4, EmptySeq, LenProperties
  <2>2. 1 \in 1..Len(h)
    BY <2>1
  <2>3. id \in ToSet(h)
    BY <1>4, <2>2, InSequence
  <2> QED
    BY <1>4, <2>3, InSequence
<1>6. f \in Frames
  BY <1>4, <1>5
<1>7. rx_info \in [RxIds -> Frames \cup {NoFrame}] /\ OneSlot(rx_info) /\ posted \in Seq(RxIds)
  BY RxFacts
<1> HIDE DEF id
<1> DEFINE empty == [rx_info EXCEPT ![id] = NoFrame]
<1>8. /\ empty \in [RxIds -> Frames \cup {NoFrame}] /\ OneSlot(empty)
      /\ Received(empty) = Received(rx_info) \ {f} /\ f \in Received(rx_info)
      /\ \A i \in RxIds \ {id} : empty[i] = rx_info[i]
  BY <1>5, <1>6, <1>7, SlotEmptied
<1>9. IF fate = "kept" THEN rx_info' = rx_info ELSE rx_info' = empty
  BY <1>1, <1>5, <1>7 DEF SlotAfter
<1> HIDE DEF empty, f
<1>10. rx_info' \in [RxIds -> Frames \cup {NoFrame}] /\ OneSlot(rx_info')
       /\ \A i \in RxIds \ {id} : rx_info'[i] = rx_info[i]
  BY <1>7, <1>8, <1>9
<1>11. HaveFrames(rx_info', posted', rx_cq')
  <2>1. /\ ToSet(posted) \subseteq RxIds
        /\ \A k \in DOMAIN rx_cq' : ToSet(rx_cq'[k]) \subseteq RxIds
    <3>1. \A k \in DOMAIN rx_cq' : rx_cq'[k] \in Seq(RxIds)
      BY <1>3, ElementOfSeq, LenProperties
    <3> QED
      BY <1>7, <3>1, InSequence
  <2>2. id \notin ToSet(posted) /\ \A k \in DOMAIN rx_cq' : id \notin ToSet(rx_cq'[k])
    BY <1>4, <1>5
  <2>3. \A i \in ToSet(posted) : rx_info'[i] \in Frames
    BY <1>3, <1>10, <2>1, <2>2 DEF HaveFrames
  <2>4. \A k \in DOMAIN rx_cq' : \A i \in ToSet(rx_cq'[k]) : rx_info'[i] \in Frames
    BY <1>3, <1>10, <2>1, <2>2 DEF HaveFrames
  <2> QED
    BY <1>2, <2>3, <2>4 DEF HaveFrames
<1>12. RxTypes' /\ IdsInv'
  BY <1>2, <1>3, <1>7, <1>10, <1>11 DEF RxTypes, IdsInv
<1>13. /\ poll' \in Polls /\ poll'.zc = poll.zc /\ poll'.done = poll.done
  <2>1. poll \in Polls /\ poll.work + 1 \in 0..(Budget + 1)
    BY <1>2, Sizes DEF IInv, Types, QueueTypes, NapiTypes, Polls
  <2> DEFINE w == poll.xdp_tx \/ fate = "sent"
             k == poll.work + 1
  <2>2. w \in BOOLEAN /\ k \in 0..(Budget + 1) /\ poll' = [poll EXCEPT !.work = k, !.xdp_tx = w]
    BY <1>1, <2>1
  <2> HIDE DEF w, k
  <2> QED
    BY <2>1, <2>2 DEF Polls
<1>14. TxTypes' /\ RingInv' /\ DevTypes' /\ Counts'
  <2>1. CASE SendsCopy(fate)
    <3>1. /\ Place(<<Other>>) /\ HoldBack(unrung \cup SlotsFor(1)) /\ others' = others + 1
          /\ others < MaxOthers /\ HaveSpace(XdpSpace)
      BY <1>1, <2>1 DEF SendsCopy
    <3>2. used + 1 < TxSize
      <4>1. used \in 0..(TxSize - 1)
        BY DEF IInv, Types, QueueTypes, TxTypes
      <4> QED
        BY <3>1, <4>1, Sizes DEF HaveSpace, XdpSpace
    <3>3. TxTypes' /\ RingInv'
      BY <1>2, <1>13, <3>1, <3>2, OtherPlaced DEF IInv, Types, QueueTypes
    <3>4. DevTypes'
      BY <1>2, <3>1, OneSlotFor DEF IInv, Types, QueueTypes, TxTypes, DevTypes, HoldBack
    <3>5. Counts'
      BY <1>2, <3>1, BoundsAssumption DEF IInv, Types, Counts
    <3> QED
      BY <3>3, <3>4, <3>5
  <2>2. CASE ~SendsCopy(fate)
    <3>1. UNCHANGED <<others, tx_info, next_to_use, used, unrung, inDevice>>
      BY <1>1, <2>2
    <3>2. RingInv'
      BY <1>2, <1>13, <3>1, RingSame DEF IInv, txRingVars
    <3> QED
      BY <1>2, <3>1, <3>2 DEF IInv, Types, QueueTypes, TxTypes, DevTypes, Counts
  <2> QED
    BY <2>1, <2>2
<1>15. NapiTypes' /\ FlagTypes'
  BY <1>2, <1>13 DEF IInv, Types, QueueTypes, NapiTypes, FlagTypes, flagVars
<1>16. SocketTypes'
  BY <1>1, <1>2, <1>6 DEF IInv, Types, SocketTypes
<1>17. FramesInv'
  <2>1. Parted(app, fill, ToSet(tx_desc), ToSet(reserved), Received(rx_info))
    BY DEF IInv, FramesInv
  <2>2. Parted(app', fill', ToSet(tx_desc), ToSet(reserved), Received(rx_info'))
    <3>1. CASE fate = "kept"
      <4>1. app' = app /\ fill' = fill /\ rx_info' = rx_info
        BY <1>1, <1>9, <3>1 DEF Freed
      <4> QED
        BY <2>1, <4>1
    <3>2. CASE fate = "redirected"
      <4>1. app' = app \cup {f} /\ fill' = fill /\ Received(rx_info') = Received(rx_info) \ {f}
        BY <1>1, <1>8, <1>9, <3>2 DEF Freed
      <4> QED
        BY <1>8, <2>1, <4>1 DEF Parted
    <3>3. CASE Freed(fate)
      <4>1. app' = app /\ fill' = fill \cup {f} /\ Received(rx_info') = Received(rx_info) \ {f}
        BY <1>1, <1>8, <1>9, <3>3 DEF Freed
      <4> QED
        BY <1>8, <2>1, <4>1 DEF Parted
    <3> QED
      BY <3>1, <3>2, <3>3 DEF Fates, Freed
  <2> QED
    BY <1>2, <1>10, <2>2 DEF IInv, FramesInv
<1> QED
  BY <1>12, <1>14, <1>15, <1>16, <1>17 DEF IInv, Types, QueueTypes

LEMMA RefillKeeps ==
    ASSUME IInv, Refill
    PROVE  IInv'
<1>1. PICK r \in Refilled(rx_info, free_ids, FreeRxEntries, fill) :
          /\ posted' = posted \o r.ids /\ rx_used' = rx_used + Len(r.ids)
          /\ free_ids' = r.free
          /\ rx_info' = r.info /\ fill' = r.fill
  BY DEF Refill
<1>2. /\ napi = "rx" /\ napi' = "rxflag"
      /\ IF poll.xdp_tx THEN Doorbell(unrung) ELSE UNCHANGED <<unrung, inDevice>>
      /\ UNCHANGED <<uses_need_wakeup, app, tx_desc, reserved, flagVars, txRingVars, tx_cq,
                     rx_cq, missed, poll, event, trigger_reset, others, faults>>
  BY DEF Refill
<1>3. /\ free_ids \in Seq(RxIds) /\ Len(free_ids) \in Nat /\ posted \in Seq(RxIds)
      /\ rx_cq \in Seq(Seq(RxIds)) /\ rx_info \in [RxIds -> Frames \cup {NoFrame}]
      /\ rx_used \in 0..(RxSize - 1) /\ Len(free_ids) + rx_used = RxSize
      /\ IdsApart(free_ids, posted, rx_cq) /\ HaveFrames(rx_info, posted, rx_cq)
      /\ OneSlot(rx_info)
  BY RxFacts
<1>4. Parted(app, fill, ToSet(tx_desc), ToSet(reserved), Received(rx_info))
  BY DEF IInv, FramesInv
<1>5. fill \in SUBSET Frames /\ fill \cap Received(rx_info) = {}
  BY <1>4 DEF Parted
<1> DEFINE n == FreeRxEntries
<1>6. n \in 0..Len(free_ids) /\ n + rx_used = RxSize - 1
  BY <1>3, Sizes DEF FreeRxEntries
<1> HIDE DEF n
<1>7. /\ \E c \in 0..n : r.ids = SubSeq(free_ids, 1, c)
                         /\ r.free = SubSeq(free_ids, c + 1, Len(free_ids))
      /\ FilledWell(rx_info, r.info, ToSet(r.ids), r.fill, fill)
  <2>1. r \in Refilled(rx_info, free_ids, n, fill)
    BY DEF n
  <2> QED
    BY <1>3, <1>5, <1>6, <2>1, RefilledWell
<1>8. PICK c \in 0..n : r.ids = SubSeq(free_ids, 1, c)
                        /\ r.free = SubSeq(free_ids, c + 1, Len(free_ids))
  BY <1>7
<1>9. c \in 0..Len(free_ids)
  BY <1>3, <1>6
<1>10. /\ r.free \in Seq(RxIds) /\ posted \o r.ids \in Seq(RxIds)
       /\ Len(r.ids) = c /\ Len(r.free) = Len(free_ids) - c
       /\ ToSet(r.ids) \subseteq RxIds
       /\ ToSet(posted \o r.ids) = ToSet(posted) \cup ToSet(r.ids)
       /\ IdsApart(r.free, posted \o r.ids, rx_cq)
  <2>1. IdsApart(free_ids, posted, rx_cq) /\ free_ids \in Seq(RxIds) /\ posted \in Seq(RxIds)
    BY <1>3
  <2>2. PostedWell(SubSeq(free_ids, c + 1, Len(free_ids)), SubSeq(free_ids, 1, c), free_ids, c,
                   posted, rx_cq)
    BY <1>9, <2>1, IdsPosted
  <2> QED
    BY <1>8, <2>2 DEF PostedWell
<1>11. /\ r.info \in [RxIds -> Frames \cup {NoFrame}] /\ r.fill \subseteq fill
       /\ OneSlot(r.info) /\ r.fill \cap Received(r.info) = {}
       /\ r.fill \cup Received(r.info) = fill \cup Received(rx_info)
       /\ \A i \in RxIds : rx_info[i] \in Frames => r.info[i] = rx_info[i]
       /\ \A i \in ToSet(r.ids) : r.info[i] \in Frames
  BY <1>7 DEF FilledWell
<1>12. HaveFrames(r.info, posted \o r.ids, rx_cq)
  <2>1. \A k \in DOMAIN rx_cq : rx_cq[k] \in Seq(RxIds)
    BY <1>3, ElementOfSeq, LenProperties
  <2>2. ToSet(posted) \subseteq RxIds /\ \A k \in DOMAIN rx_cq : ToSet(rx_cq[k]) \subseteq RxIds
    BY <1>3, <2>1, InSequence
  <2> QED
    BY <1>3, <1>10, <1>11, <2>2, FramesKept
<1>13. rx_used' \in 0..(RxSize - 1) /\ Len(free_ids') + rx_used' = RxSize
  <2>1. \A a, d, u, m, k \in Nat : /\ a + u = m /\ k + u = m - 1 /\ d <= k
                                  => u + d \in 0..(m - 1) /\ (a - d) + (u + d) = m
    OBVIOUS
  <2>2. /\ n \in Nat /\ c \in Nat /\ c <= n /\ rx_used \in Nat /\ RxSize \in Nat
        /\ Len(free_ids) \in Nat /\ Len(free_ids) + rx_used = RxSize
        /\ n + rx_used = RxSize - 1
    BY <1>3, <1>6, <1>8, Sizes
  <2>3. rx_used + c \in 0..(RxSize - 1) /\ (Len(free_ids) - c) + (rx_used + c) = RxSize
    BY <2>1, <2>2
  <2> QED
    BY <1>1, <1>10, <2>3
<1>14. RxTypes' /\ IdsInv'
  BY <1>1, <1>2, <1>3, <1>10, <1>11, <1>12, <1>13 DEF RxTypes, IdsInv
<1>15. TxTypes' /\ NapiTypes' /\ FlagTypes' /\ Counts'
  BY <1>2 DEF IInv, Types, QueueTypes, TxTypes, NapiTypes, FlagTypes, Counts, txRingVars,
              flagVars
<1>16. DevTypes'
  BY <1>2 DEF IInv, Types, QueueTypes, DevTypes, Doorbell
<1>17. SocketTypes'
  BY <1>1, <1>2, <1>5, <1>11 DEF IInv, Types, SocketTypes
<1>18. RingInv'
  BY <1>2, RingSame DEF IInv
<1>19. FramesInv'
  <2>1. Parted(app, r.fill, ToSet(tx_desc), ToSet(reserved), Received(r.info))
    BY <1>4, <1>11 DEF Parted
  <2> QED
    BY <1>1, <1>2, <1>11, <2>1 DEF IInv, FramesInv
<1> QED
  BY <1>14, <1>15, <1>16, <1>17, <1>18, <1>19 DEF IInv, Types, QueueTypes

-----------------------------------------------------------------------------
(***************************************************************************)
(* The reset and the start                                                 *)
(***************************************************************************)
\* Nothing was handed over, and the ring holds no frame.
LEMMA OrderedNothing ==
    ASSUME NEW seq \in Seq(Frames), Len(seq) = 0, NEW info, NEW first,
           \A s \in Slots : info[s] \notin Frames
    PROVE  Ordered(1, seq, 0, first, info)
<1> DEFINE turn == [i \in 1..0 |-> 0]
<1>1. 1..Len(seq) = {} /\ turn \in [1..Len(seq) -> 0..(0 - 1)]
  OBVIOUS
<1> HIDE DEF turn
<1>2. InTurn(turn, 1, seq, 0, first, info)
  BY <1>1, Zenon DEF InTurn
<1> QED
  BY <1>1, <1>2, Zenon DEF Ordered

\* The ids of a ring that is set up, in their order; none is out.
AllIds == [i \in 1..RxSize |-> i - 1]
LEMMA IdsAtStart ==
    /\ AllIds \in Seq(RxIds) /\ Len(AllIds) = RxSize /\ IsInjective(AllIds)
    /\ <<>> \in Seq(RxIds) /\ <<>> \in Seq(Seq(RxIds)) /\ ToSet(<<>>) = {}
    /\ IdsApart(AllIds, <<>>, <<>>)
<1>1. RxSize \in Nat /\ RxSize # 0
  BY Sizes
<1>2. \A i \in 1..RxSize : AllIds[i] = i - 1 /\ i - 1 \in RxIds
  BY <1>1 DEF AllIds, RxIds
<1>3. DOMAIN AllIds = 1..RxSize
  BY DEF AllIds
<1>4. AllIds \in [1..RxSize -> RxIds]
  BY <1>2 DEF AllIds
<1>5. AllIds \in Seq(RxIds) /\ Len(AllIds) = RxSize
  BY <1>1, <1>4, SeqDef, LenProperties, <1>3
<1>6. IsInjective(AllIds)
  BY <1>1, <1>2, <1>3 DEF IsInjective
<1>7. <<>> \in Seq(RxIds) /\ <<>> \in Seq(Seq(RxIds)) /\ DOMAIN <<>> = {}
  OBVIOUS
<1>8. ToSet(<<>>) = {} /\ IsInjective(<<>>)
  BY <1>7 DEF ToSet, IsInjective
<1> QED
  BY <1>5, <1>6, <1>7, <1>8, Zenon DEF IdsApart

NoFrames == [i \in RxIds |-> NoFrame]
LEMMA NoneReceived ==
    /\ NoFrames \in [RxIds -> Frames \cup {NoFrame}] /\ Received(NoFrames) = {}
    /\ OneSlot(NoFrames) /\ HaveFrames(NoFrames, <<>>, <<>>)
<1>1. \A i \in RxIds : NoFrames[i] = NoFrame
  BY DEF NoFrames
<1>2. NoFrames \in [RxIds -> Frames \cup {NoFrame}]
  BY DEF NoFrames
<1> QED
  BY <1>1, <1>2, IdsAtStart DEF Received, OneSlot, HaveFrames

LEMMA RingAtStart ==
    /\ 0 \in Slots /\ 0 \in 0..(TxSize - 1) /\ After(0, 0) = 0
    /\ [s \in Slots |-> NoFrame] \in [Slots -> Frames \cup {NoFrame, Other}]
    /\ \A s \in Slots : [t \in Slots |-> NoFrame][s] \notin Frames
    /\ NoPoll \in Polls
<1>1. 0 \in 0..(TxSize - 1) /\ 0 \in 0..(Budget + 1) /\ 0 \in Slots
  BY Sizes DEF Slots
<1>2. After(0, 0) = 0
  <2>1. 0 \in 0..TxSize
    BY Sizes
  <2> QED
    BY <1>1, <2>1, AfterIs, Sizes
<1>3. NoPoll \in Polls
  BY <1>1 DEF NoPoll, Polls
<1> QED
  BY <1>1, <1>2, <1>3, FramesAssumption

LEMMA ResetKeeps ==
    ASSUME IInv, Reset
    PROVE  IInv'
<1> DEFINE held == {s \in Slots : tx_info[s] \in Frames}
           frames == fill \cup Received(rx_info)
<1>1. /\ trigger_reset /\ napi = "idle" /\ napi' = "scheduled" /\ missed' = FALSE
      /\ event' = FALSE /\ trigger_reset' = FALSE
      /\ tx_info' = [s \in Slots |-> NoFrame] /\ acked' = {}
      /\ next_to_use' = 0 /\ next_to_clean' = 0 /\ used' = 0
      /\ unrung' = {} /\ inDevice' = {} /\ tx_cq' = {} /\ rx_cq' = <<>>
      /\ UNCHANGED <<uses_need_wakeup, tx_desc, flagVars, poll, others, faults>>
      /\ app' = app \cup ToSet(SubSeq(reserved, 1, Cardinality(held)))
      /\ reserved' = SubSeq(reserved, Cardinality(held) + 1, Len(reserved))
  BY DEF Reset
<1>2. PICK r \in Refilled(NoFrames, AllIds, RxSize - 1, frames) :
          /\ posted' = r.ids /\ rx_used' = Len(r.ids) /\ free_ids' = r.free
          /\ rx_info' = r.info /\ fill' = r.fill
  BY DEF Reset, NoFrames, AllIds, Received
<1>3. /\ reserved \in Seq(Frames) /\ IsInjective(reserved) /\ Len(reserved) \in Nat
      /\ poll \in Polls /\ poll.zc = 0 /\ poll.done = 0
      /\ used \in 0..(TxSize - 1) /\ next_to_clean \in Slots
  <2>1. /\ reserved \in Seq(Frames) /\ IsInjective(reserved) /\ poll \in Polls
        /\ used \in 0..(TxSize - 1) /\ next_to_clean \in Slots
    BY DEF IInv, Types, QueueTypes, SocketTypes, NapiTypes, TxTypes, FramesInv
  <2>2. poll.zc = 0 /\ poll.done = 0
    BY <1>1 DEF IInv, RingInv
  <2> QED
    BY <2>1, <2>2, LenProperties
<1>4. Cardinality(held) = Len(reserved)
  <2>1. Window = used
    BY <1>3, Sizes DEF Window
  <2>2. Ordered(0 + 1, reserved, used, next_to_clean, tx_info)
    BY <1>3, <2>1 DEF IInv, RingInv
  <2>3. 0 + 1 = 1
    OBVIOUS
  <2>4. Ordered(1, reserved, used, next_to_clean, tx_info)
    BY <2>2, <2>3
  <2> QED
    BY <1>3, <2>4, AllHeld
<1> HIDE DEF held
<1>5. /\ reserved' \in Seq(Frames) /\ Len(reserved') = 0 /\ IsInjective(reserved')
      /\ ToSet(reserved') = {} /\ app' = app \cup ToSet(reserved)
      /\ ToSet(reserved) \subseteq Frames
  <2> DEFINE u == SubSeq(reserved, 1, Len(reserved))
             v == SubSeq(reserved, Len(reserved) + 1, Len(reserved))
  <2>1. app' = app \cup ToSet(u) /\ reserved' = v
    BY <1>1, <1>4
  <2>2. Len(reserved) \in 0..Len(reserved)
    BY <1>3
  <2>3. /\ u \in Seq(Frames) /\ v \in Seq(Frames) /\ Len(v) = Len(reserved) - Len(reserved)
        /\ IsInjective(v) /\ ToSet(u) \cap ToSet(v) = {}
        /\ ToSet(u) \cup ToSet(v) = ToSet(reserved)
    BY <1>3, <2>2, CutApart
  <2> HIDE DEF u, v
  <2>4. Len(v) = 0
    BY <1>3, <2>3
  <2>5. ToSet(v) = {}
    BY <2>3, <2>4, LenProperties DEF ToSet
  <2>6. ToSet(u) = ToSet(reserved) /\ ToSet(reserved) \subseteq Frames
    BY <1>3, <2>3, <2>5, InSequence
  <2> QED
    BY <2>1, <2>3, <2>4, <2>5, <2>6
<1>6. Parted(app, fill, ToSet(tx_desc), ToSet(reserved), Received(rx_info))
  BY DEF IInv, FramesInv
<1>7. frames \in SUBSET Frames /\ frames \cap {} = {}
  BY <1>6 DEF Parted
<1>8. /\ \E c \in 0..(RxSize - 1) : r.ids = SubSeq(AllIds, 1, c)
                                    /\ r.free = SubSeq(AllIds, c + 1, Len(AllIds))
      /\ FilledWell(NoFrames, r.info, ToSet(r.ids), r.fill, frames)
  <2>1. RxSize - 1 \in 0..Len(AllIds)
    BY IdsAtStart, Sizes
  <2> HIDE DEF frames
  <2>2. frames \cap Received(NoFrames) = {}
    BY NoneReceived
  <2> QED
    BY <1>7, <2>1, <2>2, IdsAtStart, NoneReceived, RefilledWell
<1>9. PICK c \in 0..(RxSize - 1) : r.ids = SubSeq(AllIds, 1, c)
                                   /\ r.free = SubSeq(AllIds, c + 1, Len(AllIds))
  BY <1>8
<1>10. c \in 0..Len(AllIds) /\ c \in Nat
  BY IdsAtStart, Sizes
<1>11. PostedWell(r.free, r.ids, AllIds, c, <<>>, <<>>)
  <2>1. PostedWell(SubSeq(AllIds, c + 1, Len(AllIds)), SubSeq(AllIds, 1, c), AllIds, c, <<>>, <<>>)
    BY <1>10, IdsAtStart, IdsPosted
  <2> QED
    BY <1>9, <2>1
<1>12. r.ids \in Seq(RxIds) /\ <<>> \o r.ids = r.ids
  <2>1. r.ids \in Seq(RxIds)
    BY <1>9, <1>10, IdsAtStart, CutApart
  <2> QED
    BY <2>1
<1>13. /\ r.free \in Seq(RxIds) /\ Len(r.ids) = c /\ Len(r.free) = RxSize - c
       /\ IdsApart(r.free, r.ids, <<>>)
  BY <1>11, <1>12, IdsAtStart DEF PostedWell
<1>14. /\ r.info \in [RxIds -> Frames \cup {NoFrame}] /\ r.fill \subseteq frames
       /\ OneSlot(r.info) /\ r.fill \cap Received(r.info) = {}
       /\ r.fill \cup Received(r.info) = frames
       /\ \A i \in ToSet(r.ids) : r.info[i] \in Frames
  <2>1. FilledWell(NoFrames, r.info, ToSet(r.ids), r.fill, frames)
    BY <1>8
  <2> HIDE DEF frames
  <2> QED
    BY <2>1, NoneReceived DEF FilledWell
<1>15. HaveFrames(r.info, r.ids, <<>>)
  <2>1. DOMAIN <<>> = {}
    OBVIOUS
  <2> QED
    BY <1>14, <2>1, Zenon DEF HaveFrames
<1>16. RxTypes' /\ IdsInv'
  <2>1. c \in 0..(RxSize - 1) /\ RxSize - c + c = RxSize
    BY <1>9, <1>10, Sizes
  <2>2. rx_used' = c /\ free_ids' = r.free /\ posted' = r.ids /\ rx_info' = r.info
        /\ rx_cq' = <<>>
    BY <1>1, <1>2, <1>13
  <2>3. Len(free_ids') + rx_used' = RxSize
    BY <1>13, <2>1, <2>2
  <2>4. RxTypes'
    BY <1>12, <1>13, <1>14, <2>1, <2>2, IdsAtStart DEF RxTypes
  <2>5. IdsInv'
    BY <1>13, <1>15, <2>2, <2>3 DEF IdsInv
  <2> QED
    BY <2>4, <2>5
<1>17. SocketTypes' /\ FramesInv'
  <2>1. Parted(app \cup ToSet(reserved), r.fill, ToSet(tx_desc), {}, Received(r.info))
    BY <1>6, <1>14 DEF Parted
  <2>2. fill' = r.fill /\ rx_info' = r.info /\ tx_desc' = tx_desc
    BY <1>1, <1>2
  <2>3. Parted(app', fill', ToSet(tx_desc'), ToSet(reserved'), Received(rx_info'))
    BY <1>5, <2>1, <2>2
  <2>4. IsInjective(tx_desc')
    BY <2>2 DEF IInv, FramesInv
  <2>5. FramesInv'
    BY <1>5, <1>14, <2>2, <2>3, <2>4 DEF FramesInv
  <2>6. SocketTypes'
    BY <1>5, <1>7, <1>14, <2>2 DEF IInv, Types, SocketTypes
  <2> QED
    BY <2>5, <2>6
<1>18. TxTypes' /\ DevTypes' /\ NapiTypes' /\ FlagTypes' /\ Counts'
  BY <1>1, RingAtStart DEF IInv, Types, QueueTypes, TxTypes, DevTypes, NapiTypes, FlagTypes,
     Counts, flagVars
<1>19. RingInv'
  <2>1. Window' = 0 /\ poll' = poll
    BY <1>1, <1>3 DEF Window
  <2>2. \A s \in Slots : tx_info'[s] \notin Frames
    BY <1>1, RingAtStart
  <2>3. Ordered(1, reserved', 0, next_to_clean', tx_info')
    BY <1>5, <2>2, OrderedNothing
  <2>4. Ordered(poll'.zc + 1, reserved', Window', next_to_clean', tx_info')
    <3>1. 0 + 1 = 1
      OBVIOUS
    <3> QED
      BY <1>3, <2>1, <2>3, <3>1
  <2>5. next_to_use' = After(next_to_clean', Window')
    BY <1>1, <2>1, RingAtStart
  <2>6. poll'.done <= used' /\ poll'.zc <= Len(reserved')
    BY <1>1, <1>3, <1>5, <2>1
  <2> QED
    BY <1>3, <2>1, <2>4, <2>5, <2>6 DEF RingInv
<1> QED
  BY <1>16, <1>17, <1>18, <1>19 DEF IInv, Types, QueueTypes

LEMMA InitKeeps ==
    ASSUME Init
    PROVE  IInv
<1>1. /\ uses_need_wakeup \in BOOLEAN
      /\ app = Frames /\ tx_desc = <<>> /\ reserved = <<>> /\ fill = {}
      /\ need_wakeup = [tx |-> TRUE, rx |-> FALSE] /\ kick = FALSE
      /\ tx_info = [s \in Slots |-> NoFrame] /\ acked = {}
      /\ next_to_use = 0 /\ next_to_clean = 0 /\ used = 0
      /\ unrung = {} /\ inDevice = {} /\ tx_cq = {}
      /\ rx_info = NoFrames /\ free_ids = AllIds
      /\ rx_used = 0 /\ posted = <<>> /\ rx_cq = <<>>
      /\ napi = "scheduled" /\ missed = FALSE /\ event = FALSE /\ poll = NoPoll
      /\ trigger_reset = FALSE /\ others = 0 /\ faults = 0
  BY DEF Init, NoFrames, AllIds
<1>2. SocketTypes
  BY <1>1 DEF SocketTypes
<1>3. TxTypes /\ DevTypes /\ NapiTypes /\ FlagTypes
  BY <1>1, RingAtStart DEF TxTypes, DevTypes, NapiTypes, FlagTypes
<1>4. RxTypes /\ IdsInv
  <2>1. 0 \in 0..(RxSize - 1) /\ RxSize + 0 = RxSize
    BY Sizes
  <2> QED
    BY <1>1, <2>1, IdsAtStart, NoneReceived DEF RxTypes, IdsInv
<1>5. Counts
  BY <1>1, BoundsAssumption DEF Counts
<1>6. FramesInv
  <2>1. Parted(Frames, {}, {}, {}, {})
    BY DEF Parted
  <2>2. ToSet(<<>>) = {} /\ IsInjective(<<>>)
    BY IdsAtStart DEF IdsApart
  <2> QED
    BY <1>1, <2>1, <2>2, NoneReceived DEF FramesInv
<1>7. RingInv
  <2>1. poll.zc = 0 /\ poll.done = 0 /\ Window = 0 /\ Len(reserved) = 0
    BY <1>1 DEF NoPoll, Window
  <2>2. Ordered(1, reserved, 0, next_to_clean, tx_info)
    BY <1>1, <1>2, <2>1, RingAtStart, OrderedNothing DEF SocketTypes
  <2>3. 0 + 1 = 1 /\ 0 <= 0
    OBVIOUS
  <2>4. Ordered(poll.zc + 1, reserved, Window, next_to_clean, tx_info)
    BY <2>1, <2>2, <2>3
  <2> QED
    BY <1>1, <2>1, <2>3, <2>4, RingAtStart DEF RingInv
<1> QED
  BY <1>2, <1>3, <1>4, <1>5, <1>6, <1>7 DEF IInv, Types, QueueTypes

LEMMA StutterKeeps ==
    ASSUME IInv, UNCHANGED vars
    PROVE  IInv'
<1> USE DEF vars, socketVars, flagVars, txRingVars, txDevVars, rxVars, napiVars
<1>1. SocketTypes' /\ TxTypes' /\ DevTypes' /\ RxTypes' /\ NapiTypes' /\ FlagTypes' /\ Counts'
  BY DEF IInv, Types, QueueTypes, SocketTypes, TxTypes, DevTypes, RxTypes, NapiTypes,
     FlagTypes, Counts
<1>2. RingInv' /\ IdsInv' /\ FramesInv'
  BY RingSame, IdsSame, FramesSame DEF IInv
<1> QED
  BY <1>1, <1>2 DEF IInv, Types, QueueTypes

-----------------------------------------------------------------------------
(***************************************************************************)
(* The theorems                                                            *)
(***************************************************************************)
LEMMA NextKeeps ==
    ASSUME IInv, [Next]_vars
    PROVE  IInv'
<1>1. CASE App
  BY <1>1, AppSendsKeeps, AppFillsKeeps, AppLooksKeeps, WakeupKeeps DEF App
<1>2. CASE Napi
  BY <1>2, StartPollKeeps, CleanTxKeeps, AckKeeps, XmitZcKeeps, SetTxFlagKeeps,
     TakePacketKeeps, NoMemoryKeeps, BadPacketKeeps, RefillKeeps, SetRxFlagKeeps,
     EndPollKeeps DEF Napi
<1>3. CASE Device
  BY <1>3, DeviceSendsKeeps, DeviceReceivesKeeps, DeviceErrsKeeps, InterruptKeeps DEF Device
<1>4. CASE OtherSends
  BY <1>4, OtherSendsKeeps
<1>5. CASE Reset
  BY <1>5, ResetKeeps
<1>6. CASE UNCHANGED vars
  BY <1>6, StutterKeeps
<1> QED
  BY <1>1, <1>2, <1>3, <1>4, <1>5, <1>6 DEF Next

LEMMA Inductive == Spec => []IInv
<1>1. Init => IInv
  BY InitKeeps
<1>2. IInv /\ [Next]_vars => IInv'
  BY NextKeeps
<1> QED
  BY <1>1, <1>2, PTL DEF Spec

\* Every variable keeps its type: the transmit ring is never overrun, the two counts of a
\* poll stay below its size, and an id of the receive ring is one of the ring.
THEOREM TypeCorrect == Spec => []TypeOK
<1>1. IInv => TypeOK
  BY DEF IInv, Types, QueueTypes, SocketTypes, TxTypes, DevTypes, RxTypes, NapiTypes, Polls,
     FlagTypes, Counts, TypeOK
<1> QED
  BY <1>1, Inductive, PTL

\* What is left of the ring, counted as ena_com counts it.
LEMMA RingIsWindow ==
    ASSUME IInv
    PROVE  {k \in 0..(TxSize - 1) : After(next_to_use, TxSize - next_to_clean) > k}
              = 0..(Window - 1)
<1>1. /\ TxSize \in Nat /\ TxSize # 0 /\ next_to_clean \in Slots
      /\ used \in 0..(TxSize - 1) /\ poll.done \in Nat /\ poll.done <= used
      /\ next_to_use = After(next_to_clean, Window)
  <2>1. poll \in Polls /\ next_to_clean \in Slots /\ used \in 0..(TxSize - 1)
    BY DEF IInv, Types, QueueTypes, NapiTypes, TxTypes
  <2>2. poll.done \in Nat
    BY <2>1, Sizes DEF Polls
  <2> QED
    BY <2>1, <2>2, Sizes DEF IInv, RingInv
<1>2. Window \in 0..(TxSize - 1)
  BY <1>1 DEF Window
<1> DEFINE w == Window
           to == next_to_use
<1> HIDE DEF w, to
<1>3. (to + TxSize - next_to_clean) % TxSize = w
  <2>1. (After(next_to_clean, w) + TxSize - next_to_clean) % TxSize = w
    BY <1>1, <1>2, Distance DEF w
  <2> QED
    BY <1>1, <2>1 DEF w, to
<1>4. to \in Nat /\ next_to_clean \in Nat
  BY <1>1 DEF to, Slots, IInv, Types, QueueTypes, TxTypes
<1>5. to + TxSize - next_to_clean = to + (TxSize - next_to_clean)
  BY <1>1, <1>4
<1>6. After(to, TxSize - next_to_clean) = w
  BY <1>3, <1>5 DEF After
<1>7. w \in 0..(TxSize - 1)
  BY <1>2 DEF w
<1>8. \A k \in 0..(TxSize - 1) : w > k <=> k \in 0..(w - 1)
  BY <1>1, <1>7
<1>9. \A k \in 0..(w - 1) : k \in 0..(TxSize - 1)
  BY <1>1, <1>7
<1>10. {k \in 0..(TxSize - 1) : After(to, TxSize - next_to_clean) > k} = 0..(w - 1)
  BY <1>6, <1>8, <1>9
<1> QED
  BY <1>10 DEF w, to

\* "AF XDP expects the completions to be ordered but HW doesn't guarantee this": however the
\* device completes, and whatever packets of the stack and of XDP_TX lie between, the count
\* of frames that ena_xdp_clean_tx_zc() gives back, and ena_free_tx_bufs() in a reset, is that
\* of the frames at the front of what the socket handed over; the rest is in the ring, in
\* the same order, and the ring has no other frame.
THEOREM OrderKept == Spec => []GivenBackInOrder
<1>1. ASSUME IInv
      PROVE  GivenBackInOrder
  <2> DEFINE left == (poll.zc + 1)..Len(reserved)
             ring == {k \in 0..(TxSize - 1) : After(next_to_use, TxSize - next_to_clean) > k}
             packet(k) == tx_info[After(next_to_clean, k)]
  <2>1. ring = 0..(Window - 1)
    BY <1>1, RingIsWindow
  <2>2. /\ TxSize \in Nat /\ next_to_clean \in Slots
        /\ used \in 0..(TxSize - 1) /\ poll.done \in Nat /\ poll.done <= used
    <3>1. poll \in Polls /\ next_to_clean \in Slots /\ used \in 0..(TxSize - 1)
      BY <1>1 DEF IInv, Types, QueueTypes, NapiTypes, TxTypes
    <3>2. poll.done \in Nat
      BY <3>1, Sizes DEF Polls
    <3> QED
      BY <1>1, <3>1, <3>2, Sizes DEF IInv, RingInv
  <2>3. PICK turn : InTurn(turn, poll.zc + 1, reserved, Window, next_to_clean, tx_info)
    BY <1>1 DEF IInv, RingInv, Ordered
  <2>4. /\ turn \in [left -> 0..(Window - 1)]
        /\ \A i, j \in left : i < j => turn[i] < turn[j]
        /\ \A i \in left : packet(turn[i]) = reserved[i]
        /\ \A s \in Slots : tx_info[s] \in Frames =>
              \E i \in left : s = After(next_to_clean, turn[i])
    BY <2>3 DEF InTurn
  <2> HIDE DEF left
  <2>5. ASSUME NEW k \in ring, packet(k) \in Frames
        PROVE  \E i \in left : turn[i] = k
    <3>1. \A n \in 0..(Window - 1) : n \in 0..(TxSize - 1) /\ n \in 0..TxSize
      BY <2>2 DEF Window
    <3>2. k \in 0..(Window - 1)
      BY <2>1
    <3>3. After(next_to_clean, k) \in Slots
      BY <2>2, <3>1, <3>2, AfterIs
    <3>4. PICK i \in left : After(next_to_clean, k) = After(next_to_clean, turn[i])
      BY <2>4, <2>5, <3>3
    <3>5. turn[i] \in 0..(Window - 1)
      BY <2>4
    <3>6. turn[i] = k
      <4>1. /\ (After(next_to_clean, k) + TxSize - next_to_clean) % TxSize = k
            /\ (After(next_to_clean, turn[i]) + TxSize - next_to_clean) % TxSize = turn[i]
        BY <2>2, <3>1, <3>2, <3>5, Distance
      <4> QED
        BY <3>4, <4>1
    <3> QED
      BY <3>6
  <2>6. turn \in [left -> ring]
    BY <2>1, <2>4
  <2> HIDE DEF ring
  <2> QED
    BY <2>4, <2>5, <2>6 DEF GivenBackInOrder, left, ring
<1> QED
  BY <1>1, Inductive, PTL

LEMMA OnePlace ==
    ASSUME NEW name, NEW S, NEW g, NEW f, NEW i \in S, g[i] = f,
           \A j \in S : g[j] = f => j = i
    PROVE  {<<name, k>> : k \in {j \in S : g[j] = f}} = {<<name, i>>}
<1>1. {j \in S : g[j] = f} = {i}
  OBVIOUS
<1> QED
  BY <1>1

\* A frame of the socket's memory has one holder: the device never writes to one that the
\* application has or that waits in a ring of the socket, a frame is not sent or received to
\* twice, and none is lost, through what the program decides of a packet, drops, lack of
\* memory, bad completions and resets.
THEOREM OneHolder == Spec => []FrameHasOneHolder
<1>1. ASSUME IInv
      PROVE  FrameHasOneHolder
  <2> SUFFICES ASSUME NEW f \in Frames
               PROVE  Cardinality(Holders(f)) = 1
    BY DEF FrameHasOneHolder
  <2> DEFINE A == {<<"app", x>> : x \in app \cap {f}}
             B == {<<"fill", x>> : x \in fill \cap {f}}
             C == {<<"tx_desc", k>> : k \in {j \in DOMAIN tx_desc : tx_desc[j] = f}}
             D == {<<"reserved", k>> : k \in {j \in DOMAIN reserved : reserved[j] = f}}
             E == {<<"rx_info", i>> : i \in {j \in RxIds : rx_info[j] = f}}
  <2>1. Holders(f) = A \cup B \cup C \cup D \cup E
    BY DEF Holders
  <2>2. Parted(app, fill, ToSet(tx_desc), ToSet(reserved), Received(rx_info))
    BY <1>1 DEF IInv, FramesInv
  <2>3. /\ IsInjective(tx_desc) /\ IsInjective(reserved) /\ OneSlot(rx_info)
        /\ f # NoFrame
    BY <1>1, FramesAssumption DEF IInv, FramesInv
  <2>4. /\ f \notin app => A = {}
        /\ f \notin fill => B = {}
        /\ f \notin ToSet(tx_desc) => C = {}
        /\ f \notin ToSet(reserved) => D = {}
        /\ f \notin Received(rx_info) => E = {}
    BY <2>3 DEF ToSet, Received
  <2>5. f \in app => A = {<<"app", f>>}
    OBVIOUS
  <2>6. f \in fill => B = {<<"fill", f>>}
    OBVIOUS
  <2>7. f \in ToSet(tx_desc) => \E k : C = {<<"tx_desc", k>>}
    <3> SUFFICES ASSUME f \in ToSet(tx_desc)
                 PROVE  \E k : C = {<<"tx_desc", k>>}
      OBVIOUS
    <3>1. PICK k \in DOMAIN tx_desc : tx_desc[k] = f
      BY DEF ToSet
    <3>2. \A j \in DOMAIN tx_desc : tx_desc[j] = f => j = k
      BY <2>3, <3>1 DEF IsInjective
    <3>3. C = {<<"tx_desc", k>>}
      BY <3>1, <3>2, OnePlace
    <3> QED
      BY <3>3
  <2>8. f \in ToSet(reserved) => \E k : D = {<<"reserved", k>>}
    <3> SUFFICES ASSUME f \in ToSet(reserved)
                 PROVE  \E k : D = {<<"reserved", k>>}
      OBVIOUS
    <3>1. PICK k \in DOMAIN reserved : reserved[k] = f
      BY DEF ToSet
    <3>2. \A j \in DOMAIN reserved : reserved[j] = f => j = k
      BY <2>3, <3>1 DEF IsInjective
    <3>3. D = {<<"reserved", k>>}
      BY <3>1, <3>2, OnePlace
    <3> QED
      BY <3>3
  <2>9. f \in Received(rx_info) => \E i : E = {<<"rx_info", i>>}
    <3> SUFFICES ASSUME f \in Received(rx_info)
                 PROVE  \E i : E = {<<"rx_info", i>>}
      OBVIOUS
    <3>1. PICK i \in RxIds : rx_info[i] = f
      BY DEF Received
    <3>2. \A j \in RxIds : rx_info[j] = f => j = i
      BY <2>3, <3>1 DEF OneSlot
    <3>3. E = {<<"rx_info", i>>}
      BY <3>1, <3>2, OnePlace
    <3> QED
      BY <3>3
  <2> HIDE DEF A, B, C, D, E
  <2>10. \E x : Holders(f) = {x}
    <3>1. CASE f \in app
      <4>1. B = {} /\ C = {} /\ D = {} /\ E = {}
        BY <2>2, <2>4, <3>1 DEF Parted
      <4> QED
        BY <2>1, <2>5, <3>1, <4>1
    <3>2. CASE f \in fill
      <4>1. A = {} /\ C = {} /\ D = {} /\ E = {}
        BY <2>2, <2>4, <3>2 DEF Parted
      <4> QED
        BY <2>1, <2>6, <3>2, <4>1
    <3>3. CASE f \in ToSet(tx_desc)
      <4>1. A = {} /\ B = {} /\ D = {} /\ E = {}
        BY <2>2, <2>4, <3>3 DEF Parted
      <4> QED
        BY <2>1, <2>7, <3>3, <4>1
    <3>4. CASE f \in ToSet(reserved)
      <4>1. A = {} /\ B = {} /\ C = {} /\ E = {}
        BY <2>2, <2>4, <3>4 DEF Parted
      <4> QED
        BY <2>1, <2>8, <3>4, <4>1
    <3>5. CASE f \in Received(rx_info)
      <4>1. A = {} /\ B = {} /\ C = {} /\ D = {}
        BY <2>2, <2>4, <3>5 DEF Parted
      <4> QED
        BY <2>1, <2>9, <3>5, <4>1
    <3> QED
      BY <2>2, <3>1, <3>2, <3>3, <3>4, <3>5 DEF Parted
  <2> QED
    BY <2>10, FS_Singleton
<1> QED
  BY <1>1, Inductive, PTL
=============================================================================
