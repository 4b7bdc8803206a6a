--------------------------- MODULE AdminRingProofs ---------------------------
(***************************************************************************)
(* More theorems about AdminQueue, for every number of callers, ring size  *)
(* and bound: the rings stay in step (RingsAgree), a caller gets the       *)
(* answer to its own command (AnswersAreOwn), a response comes too late    *)
(* only for a call that gave up (StrayIsGivenUp), each but for the calls   *)
(* that a submission to the closed queue exposed, and the queue implements *)
(* AdminCommands (CommandsAreExecuted).                                    *)
(*                                                                         *)
(* All four rest on one invariant, which follows a command from its        *)
(* submission to its caller: where it is in the rings, that somebody waits *)
(* for it, and that its id is that of its caller's context.  A command     *)
(* submitted late may share its id, so it is followed less closely; and a  *)
(* late command that overruns the rings leaves little to say until they    *)
(* are made anew.                                                          *)
(***************************************************************************)
EXTENDS AdminQueueProofs

-----------------------------------------------------------------------------
(***************************************************************************)
(* The inductive invariant                                                 *)
(***************************************************************************)
\* A run of n slots from slot a on, the slot after it, and the phase bit of a
\* slot and of the one after the run, when a has phase ph.
Window(a, n) == {s \in Ids : Distance(a, s) < n}
Plus(a, n) == IF a + n < Depth THEN a + n ELSE a + n - Depth
PhaseAt(a, ph, s) == IF s >= a THEN ph ELSE ~ph
PhaseAfter(a, ph, n) == IF a + n < Depth THEN ph ELSE ~ph

\* The completions to be taken are a run from the driver's position on, and the
\* device goes on after it.
unread == Cardinality(Unread)
CqShape ==
    /\ unread \in 0..Depth
    /\ Unread = Window(Slot, unread)
    /\ devTail = Plus(Slot, unread) /\ devPhase = PhaseAfter(Slot, Phase, unread)

\* The commands announced are a run from the device's position on, and the driver
\* goes on after it, until the device is reset.
Alive == td \in {"init", "polled", "irqOn", "up", "closed"}
SqShape ==
    /\ announced \in 0..Depth
    /\ Alive => /\ sqTail = Plus(devHead, announced)
                /\ sqPhase = PhaseAfter(devHead, devSqPhase, announced)
    /\ \A s \in Announced : sq[s].phase = PhaseAt(devHead, devSqPhase, s)

\* The commands in flight, with their ids; and the callers that wait for one.
InFlight == {<<sq[s].id, sq[s].cmd>> : s \in Announced}
            \cup {<<e.id, e.cmd>> : e \in executing}
            \cup {<<cq[s].id, cq[s].cmd>> : s \in Unread}
Waiting(c) == Holds(c) /\ pc[c] # "release" /\ status[ctx[c]] # "COMPLETED"
Waiters == {c \in Clients : Waiting(c)}

\* The rings hold no more than fits, because while the queue is open somebody waits
\* for everything they hold.
Room == IsFiniteSet(executing) /\ Load <= Depth
Backed == running_state => Load <= Cardinality(Waiters)

\* A command is in one place.
OnePlace ==
    /\ \A s, t \in Announced : sq[s].cmd = sq[t].cmd => s = t
    /\ \A e, f \in executing : e.cmd = f.cmd => e = f
    /\ \A s, t \in Unread : cq[s].cmd = cq[t].cmd => s = t
    /\ \A s \in Announced, e \in executing : sq[s].cmd # e.cmd

\* It is answered when the device has written its completion.
Issued == 1..lastCmd
Answers ==
    /\ \A s \in Announced : sq[s].cmd \in Issued /\ answer[sq[s].cmd] = "none"
    /\ \A e \in executing : e.cmd \in Issued /\ answer[e.cmd] = "none"
    /\ \A s \in Unread : /\ cq[s].cmd \in Issued /\ cq[s].st \in DevStatus
                         /\ answer[cq[s].cmd] = cq[s].st

\* The queue runs, or a caller is on his way in.
Admitting == running_state \/ \E c \in Clients : pc[c] = "submit"

\* A command in flight is waited for, was given up, but not while the queue is
\* open, or is exposed, but not before the last submission.
Expected ==
    /\ \A f \in InFlight : f[2] \in gaveUp \cup exposed \/ \E c \in Waiters : call[c] = f[2]
    /\ running_state => \A f \in InFlight : f[2] \notin gaveUp
    /\ Admitting => \A f \in InFlight : f[2] \notin exposed

\* Its id is that of its caller's context, and of no other's, but for the exposed.
Trusted(c) == Holds(c) /\ call[c] \notin exposed
OneLate(f, g) == f[2] \in exposed /\ g[2] \in gaveUp
Matching ==
    /\ \A f \in InFlight, c \in Clients :
          Trusted(c) /\ f[1] \in Ids => (ctx[c] = f[1] <=> call[c] = f[2])
    /\ \A f, g \in InFlight : f[1] \in Ids /\ f[1] = g[1]
                              => f = g \/ OneLate(f, g) \/ OneLate(g, f)

\* The callers and their contexts.
Outcomes == {"OK", "ENOMEM", "EOPNOTSUPP", "EAGAIN", "EINVAL"} \cup DriverErrors
Calling ==
    /\ \A c \in Clients : /\ call[c] \in Issued \cup {NoCmd}
                          /\ pc[c] \in {"idle", "submit"} => call[c] = NoCmd
                          /\ Holds(c) \/ pc[c] = "decrement" => call[c] # NoCmd
                          /\ call[c] = NoCmd => buf[c] = NoCmd
                          /\ Holds(c) => user_cqe[ctx[c]] = call[c]
    /\ \A c \in Clients : /\ pc[c] \in {"release", "decrement"} => ret[c] \in Outcomes
                          /\ pc[c] = "closeAq" => ret[c] = "ETIME"
    /\ \A c, d \in Clients : call[c] = call[d] /\ call[c] # NoCmd => c = d
    /\ \A i \in Ids : ~occupied[i] => user_cqe[i] = NoCmd
    /\ gaveUp \subseteq Issued /\ exposed \subseteq Issued \cup {NoCmd}

\* A handler at work on a completion: it is still there, and goes to its caller's
\* buffer, to an exposed one or, when he has released his context, nowhere.
Handling ==
    \A x \in Handlers : hpc[x] \in {"copy", "post"} =>
        /\ EntryReady(x)
        /\ cq[hslot[x]].id = hctx[x]
        /\ hdst[x] \in {NoCmd, cq[hslot[x]].cmd} \cup exposed
        /\ \A c \in Clients : Trusted(c) /\ ctx[c] = hctx[x] =>
              IF hpc[x] = "copy" THEN hdst[x] = call[c] ELSE buf[c] = call[c]

\* What a caller finds in its context, and takes with it.
HasAnswer(c) == buf[c] = call[c] /\ answer[call[c]] # "none"
Verdicts ==
    \A c \in Clients : call[c] \notin exposed =>
        /\ Holds(c) /\ status[ctx[c]] = "COMPLETED" =>
              HasAnswer(c) /\ comp_status[ctx[c]] = answer[call[c]]
        /\ /\ pc[c] \in {"release", "decrement", "returned"}
           /\ call[c] # NoCmd /\ ret[c] \notin DriverErrors
           => HasAnswer(c) /\ ret[c] = Errno(answer[call[c]])

\* Commands are aborted only when the queue is closed.
Aborts ==
    \A c \in Clients :
        /\ pc[c] \in {"pollAborted", "intrAborted"} => ~running_state
        /\ Holds(c) /\ status[ctx[c]] = "ABORTED" => ~running_state

\* Until the last submission nothing is overrun and no call at work is exposed.
Admission == Admitting => ~overrun /\ \A c \in Clients : Holds(c) => call[c] \notin exposed

\* The rings hold commands that were issued, those that were not have no answer, and
\* a device that was reset has forgotten all.
Numbered ==
    /\ \A s \in Ids : sq[s].cmd \in Issued \cup {NoCmd}
    /\ \A e \in executing : e.cmd \in Issued \cup {NoCmd}
    /\ \A k \in Cmds : k > lastCmd => answer[k] = "none"
    /\ Alive \/ (announced = 0 /\ executing = {})

\* When the rings were overrun, every call is exposed, and nobody else's buffer is
\* about to be written but that of one who gave up.
Overran ==
    /\ \A c \in Clients : call[c] \in exposed \cup {NoCmd}
    /\ \A x \in Handlers : hpc[x] = "copy" => hdst[x] \in exposed \cup gaveUp \cup {NoCmd}

RingInv == CqShape /\ SqShape /\ Room /\ OnePlace /\ Answers
CallerInv == Backed /\ Expected /\ Matching /\ Handling /\ Verdicts
CallInv == Calling /\ Aborts /\ Admission

\* What holds even when the rings were overrun, and what holds when they were not.
Always == MemoryInv /\ CallInv /\ Numbered
Good == Always /\ RingInv /\ CallerInv
IInv == /\ Always /\ StrayOnlyAfterGivingUp
        /\ IF overrun THEN Overran ELSE RingInv /\ CallerInv

-----------------------------------------------------------------------------
(***************************************************************************)
(* Runs of slots                                                           *)
(***************************************************************************)
LEMMA DepthType == Depth \in Nat /\ Depth # 0 /\ Ids = 0..(Depth - 1)
  BY DepthAssumption DEF Ids

\* The slot after a run, by the modulus of the code.
LEMMA PlusIs ==
    ASSUME NEW a \in Ids, NEW n \in 0..Depth
    PROVE  Plus(a, n) \in Ids /\ Plus(a, n) = (a + n) % Depth
<1>1. CASE a + n < Depth
  <2>1. (a + n) % Depth = a + n
    BY <1>1, DepthType
  <2> QED
    BY <1>1, <2>1, DepthType DEF Plus
<1>2. CASE ~(a + n < Depth)
  <2>1. (a + n) % Depth = a + n - Depth
    BY <1>2, DepthType
  <2> QED
    BY <1>2, <2>1, DepthType DEF Plus
<1> QED
  BY <1>1, <1>2

\* A slot is in a run if it lies behind its start, or has wrapped.
LEMMA InWindow ==
    ASSUME NEW a \in Ids, NEW n \in 0..Depth, NEW s \in Ids
    PROVE  s \in Window(a, n) <=> (a <= s /\ s < a + n) \/ (s < a /\ s + Depth < a + n)
  BY DepthType DEF Window, Distance

\* A run of no slots.
LEMMA EmptyWindow == \A a \in Ids : Window(a, 0) = {}
  BY DepthType DEF Window, Distance

\* The run gets longer at its end.
LEMMA WindowGrows ==
    ASSUME NEW a \in Ids, NEW n \in 0..(Depth - 1), NEW ph \in BOOLEAN
    PROVE  /\ Window(a, n + 1) = Window(a, n) \cup {Plus(a, n)}
           /\ Plus(a, n) \in Ids \ Window(a, n)
           /\ Plus(a, n + 1) = NextSlot(Plus(a, n))
           /\ PhaseAfter(a, ph, n + 1) = NextPhase(Plus(a, n), PhaseAfter(a, ph, n))
           /\ PhaseAfter(a, ph, n) = PhaseAt(a, ph, Plus(a, n))
<1>1. Plus(a, n) \in Ids
  <2>1. n \in 0..Depth
    BY DepthType
  <2> QED
    BY <2>1, PlusIs
<1>2. ASSUME NEW s \in Ids
      PROVE  s \in Window(a, n + 1) <=> s \in Window(a, n) \/ s = Plus(a, n)
  BY InWindow, DepthType DEF Plus
<1>3. Plus(a, n) \notin Window(a, n)
  BY <1>1, InWindow, DepthType DEF Plus
<1>4. Window(a, n + 1) \subseteq Ids /\ Window(a, n) \subseteq Ids
  BY DEF Window
<1>5. Plus(a, n + 1) = NextSlot(Plus(a, n))
  BY DepthType DEF Plus, NextSlot
<1>6. PhaseAfter(a, ph, n + 1) = NextPhase(Plus(a, n), PhaseAfter(a, ph, n))
  <2>1. CASE a + n + 1 < Depth
    BY <2>1, DepthType DEF Plus, NextPhase, PhaseAfter
  <2>2. CASE a + n + 1 = Depth
    BY <2>2, DepthType DEF Plus, NextPhase, PhaseAfter
  <2>3. CASE a + n + 1 > Depth
    BY <2>3, DepthType DEF Plus, NextPhase, PhaseAfter
  <2> QED
    BY <2>1, <2>2, <2>3, DepthType
<1>7. PhaseAfter(a, ph, n) = PhaseAt(a, ph, Plus(a, n))
  BY DepthType DEF Plus, PhaseAt, PhaseAfter
<1> QED
  BY <1>1, <1>2, <1>3, <1>4, <1>5, <1>6, <1>7

\* The run gets shorter at its start.
LEMMA WindowShrinks ==
    ASSUME NEW a \in Ids, NEW n \in 1..Depth, NEW ph \in BOOLEAN
    PROVE  /\ a \in Window(a, n)
           /\ Window(NextSlot(a), n - 1) = Window(a, n) \ {a}
           /\ Plus(NextSlot(a), n - 1) = Plus(a, n)
           /\ PhaseAfter(NextSlot(a), NextPhase(a, ph), n - 1) = PhaseAfter(a, ph, n)
<1>1. NextSlot(a) \in Ids
  BY NextSlotType
<1>2. ASSUME NEW s \in Ids
      PROVE  s \in Window(NextSlot(a), n - 1) <=> s \in Window(a, n) /\ s # a
  <2>1. n - 1 \in 0..Depth /\ n \in 0..Depth
    BY DepthType
  <2>2. CASE a = Depth - 1
    <3>1. NextSlot(a) = 0
      BY <2>2 DEF NextSlot
    <3> QED
      BY <1>1, <2>1, <2>2, <3>1, InWindow, DepthType
  <2>3. CASE a # Depth - 1
    <3>1. NextSlot(a) = a + 1
      BY <2>3 DEF NextSlot
    <3> QED
      BY <1>1, <2>1, <2>3, <3>1, InWindow, DepthType
  <2> QED
    BY <2>2, <2>3
<1>3. Window(NextSlot(a), n - 1) \subseteq Ids /\ Window(a, n) \subseteq Ids
  BY DEF Window
<1>4. a \in Window(a, n)
  BY DepthType DEF Window, Distance
<1>5. Plus(NextSlot(a), n - 1) = Plus(a, n)
  <2>1. CASE a = Depth - 1
    BY <2>1, DepthType DEF Plus, NextSlot
  <2>2. CASE a # Depth - 1
    BY <2>2, DepthType DEF Plus, NextSlot
  <2> QED
    BY <2>1, <2>2
<1>6. PhaseAfter(NextSlot(a), NextPhase(a, ph), n - 1) = PhaseAfter(a, ph, n)
  <2>1. CASE a = Depth - 1
    <3>1. NextSlot(a) + (n - 1) < Depth /\ ~(a + n < Depth)
      BY <2>1, DepthType DEF NextSlot
    <3> QED
      BY <2>1, <3>1 DEF PhaseAfter, NextPhase
  <2>2. CASE a # Depth - 1
    <3>1. NextSlot(a) + (n - 1) < Depth <=> a + n < Depth
      BY <2>2, DepthType DEF NextSlot
    <3> QED
      BY <2>2, <3>1 DEF PhaseAfter, NextPhase
  <2> QED
    BY <2>1, <2>2
<1> QED
  BY <1>2, <1>3, <1>4, <1>5, <1>6

\* As the start of a run moves on, the phase of its slot turns, and no other's.
LEMMA PhaseMoves ==
    ASSUME NEW a \in Ids, NEW s \in Ids, NEW ph \in BOOLEAN
    PROVE  PhaseAt(NextSlot(a), NextPhase(a, ph), s) =
              (IF s = a THEN ~PhaseAt(a, ph, s) ELSE PhaseAt(a, ph, s))
<1>1. CASE a = Depth - 1
  <2>1. NextSlot(a) = 0 /\ NextPhase(a, ph) = ~ph
    BY <1>1 DEF NextSlot, NextPhase
  <2>2. s >= 0 /\ (s >= a <=> s = a)
    BY <1>1, DepthType
  <2> QED
    BY <2>1, <2>2 DEF PhaseAt
<1>2. CASE a # Depth - 1
  <2>1. NextSlot(a) = a + 1 /\ NextPhase(a, ph) = ph
    BY <1>2 DEF NextSlot, NextPhase
  <2>2. s >= a + 1 <=> s >= a /\ s # a
    BY DepthType
  <2>3. s = a => s >= a
    BY DepthType
  <2> QED
    BY <2>1, <2>2, <2>3 DEF PhaseAt
<1> QED
  BY <1>1, <1>2

-----------------------------------------------------------------------------
(***************************************************************************)
(* The driver's position in the completion ring                            *)
(***************************************************************************)
NobodyScans == \A x \in Handlers : ~Scanning(x)

AtScanner == \A x \in Handlers : Scanning(x) => Slot = hslot[x] /\ Phase = hphase[x]

\* While a handler scans, the driver's position is that handler's.
LEMMA SlotOf == ScanInv => AtScanner
<1> SUFFICES ASSUME ScanInv, NEW x \in Handlers, Scanning(x)
             PROVE  Slot = hslot[x] /\ Phase = hphase[x]
  BY DEF AtScanner
<1>1. \A y \in Handlers : Scanning(y) => y = x
  BY DEF ScanInv
<1>2. (CHOOSE y \in Handlers : Scanning(y)) = x
  BY <1>1
<1> QED
  BY <1>2 DEF Slot, Phase

AtHead == NobodyScans => Slot = cqHead /\ Phase = cqPhase

\* While nobody scans, the driver's position is the one it keeps.
LEMMA SlotAtRest == AtHead
  BY DEF AtHead, NobodyScans, Slot, Phase

\* Either way it is a slot and a phase.
LEMMA SlotType == TypeOK /\ ScanInv => Slot \in Ids /\ Phase \in BOOLEAN
<1> SUFFICES ASSUME TypeOK, ScanInv PROVE Slot \in Ids /\ Phase \in BOOLEAN
  OBVIOUS
<1>1. CASE NobodyScans
  BY <1>1, SlotAtRest DEF AtHead, TypeOK, RingType
<1>2. ASSUME NEW x \in Handlers, Scanning(x) PROVE Slot \in Ids /\ Phase \in BOOLEAN
  BY <1>2, SlotOf DEF AtScanner, TypeOK, HandlerType
<1> QED
  BY <1>1, <1>2 DEF NobodyScans


\* Both, before and after a step.
LEMMA SlotFacts ==
    ASSUME ScanInv, ScanInv'
    PROVE  AtScanner /\ AtScanner' /\ AtHead /\ AtHead'
<1>1. AtScanner'
  BY SlotOf, PTL
<1>2. AtHead'
  BY SlotAtRest, PTL
<1> QED
  BY <1>1, <1>2, SlotOf, SlotAtRest

\* It stays where it is while the scanner does and nobody starts or ends a scan, ...
LEMMA SlotSame ==
    ASSUME ScanInv, ScanInv',
           \A x \in Handlers : Scanning(x) <=> Scanning(x)',
           \A x \in Handlers : Scanning(x) => hslot'[x] = hslot[x] /\ hphase'[x] = hphase[x],
           UNCHANGED <<cqHead, cqPhase>>
    PROVE  Slot' = Slot /\ Phase' = Phase
<1>1. CASE NobodyScans
  <2>1. NobodyScans'
    BY <1>1 DEF NobodyScans
  <2> QED
    BY <1>1, <2>1, SlotFacts DEF AtHead
<1>2. ASSUME NEW x \in Handlers, Scanning(x) PROVE Slot' = Slot /\ Phase' = Phase
  BY <1>2, SlotFacts DEF AtScanner
<1> QED
  BY <1>1, <1>2 DEF NobodyScans

\* ... when a scan starts at cq.head, ...
LEMMA SlotStarts ==
    ASSUME ScanInv, ScanInv', NobodyScans,
           NEW x \in Handlers, Scanning(x)', hslot'[x] = cqHead, hphase'[x] = cqPhase
    PROVE  Slot' = Slot /\ Phase' = Phase
  BY SlotFacts DEF AtHead, AtScanner

\* ... and when it ends and publishes its position.
LEMMA SlotEnds ==
    ASSUME ScanInv, ScanInv', NobodyScans',
           NEW x \in Handlers, Scanning(x), cqHead' = hslot[x], cqPhase' = hphase[x]
    PROVE  Slot' = Slot /\ Phase' = Phase
  BY SlotFacts DEF AtHead, AtScanner

-----------------------------------------------------------------------------
(***************************************************************************)
(* What each kind of step does to the rings                                *)
(***************************************************************************)
RingsStay ==
    /\ UNCHANGED <<sq, cq, sqTail, sqPhase, devHead, devSqPhase, announced, executing,
                   devTail, devPhase, answer, lastCmd>>
    /\ Slot' = Slot /\ Phase' = Phase /\ (Alive <=> Alive')

\* An entry is taken off the completion ring.
Took(x) == PostStatus(x) \/ BadCompletion(x)

ringStateVars == <<sq, cq, sqTail, sqPhase, devHead, devSqPhase, announced, executing,
                   devTail, devPhase, answer, lastCmd>>

\* A step that leaves the handlers' positions alone.
LEMMA StayAsideHandlers ==
    ASSUME MemoryInv, MemoryInv', UNCHANGED <<hpc, hslot, hphase, cqHead, cqPhase>>
    PROVE  Slot' = Slot /\ Phase' = Phase
  BY SlotSame DEF MemoryInv, Scanning

\* A caller's step, but for submitting and scanning.
LEMMA CallerStays ==
    ASSUME MemoryInv, MemoryInv', NEW c \in Clients,
           \/ Issue(c) /\ ~Submit(c)
           \/ ChooseWait(c) \/ LockToPoll(c) \/ Release(c) \/ Decrement(c) \/ Return(c)
           \/ PollCheck(c) \/ PollExpired(c) \/ Aborted(c) \/ Woken(c) \/ WaitExpired(c)
           \/ IntrCheck(c) \/ NoCompletion(c) \/ MissingInterruptFatal(c)
           \/ MissingInterruptPolls(c) \/ CloseAq(c)
    PROVE  RingsStay
<1> USE DEF Goto, Move, adminVars, ctxVars, handlerVars, clientVars, tdVars, devVars, ringVars, ghostVars
<1>1. UNCHANGED <<hslot, hphase, cqHead, cqPhase, td>> /\ UNCHANGED ringStateVars
  <2>1. CASE Issue(c) /\ ~Submit(c)
    BY <2>1 DEF Issue, RefuseNotRunning, LockToSubmit, RefuseFull, RefuseOccupied, Refuse, ringStateVars
  <2>2. CASE ChooseWait(c) \/ LockToPoll(c) \/ Release(c) \/ Decrement(c) \/ Return(c)
    BY <2>2 DEF ChooseWait, LockToPoll, Release, Decrement, Return, ringStateVars
  <2>3. CASE PollCheck(c) \/ PollExpired(c) \/ Aborted(c) \/ Woken(c) \/ WaitExpired(c)
    BY <2>3 DEF PollCheck, PollExpired, Aborted, Woken, WaitExpired, ringStateVars
  <2>4. CASE \/ IntrCheck(c) \/ NoCompletion(c) \/ MissingInterruptFatal(c)
             \/ MissingInterruptPolls(c) \/ CloseAq(c)
    BY <2>4 DEF IntrCheck, NoCompletion, MissingInterruptFatal, MissingInterruptPolls, CloseAq, ringStateVars
  <2> QED
    BY <2>1, <2>2, <2>3, <2>4
<1>2. \A x \in Handlers : Scanning(x) <=> Scanning(x)'
  <2>1. CASE LockToPoll(c)
    <3>1. hpc[c] = "off"
      <4>1. ~InScan(c)
        BY <2>1 DEF LockToPoll, InScan
      <4> QED
        BY <4>1 DEF MemoryInv, LockInv
    <3> QED
      BY <2>1, <3>1 DEF LockToPoll, Scanning, MemoryInv, TypeOK, HandlerType
  <2>2. CASE ~LockToPoll(c)
    <3>1. UNCHANGED hpc
      <4>1. CASE Issue(c) /\ ~Submit(c)
        BY <4>1 DEF Issue, RefuseNotRunning, LockToSubmit, RefuseFull, RefuseOccupied, Refuse
      <4>2. CASE ChooseWait(c) \/ Release(c) \/ Decrement(c) \/ Return(c)
        BY <4>2 DEF ChooseWait, Release, Decrement, Return
      <4>3. CASE PollCheck(c) \/ PollExpired(c) \/ Aborted(c) \/ Woken(c) \/ WaitExpired(c)
        BY <4>3 DEF PollCheck, PollExpired, Aborted, Woken, WaitExpired
      <4>4. CASE \/ IntrCheck(c) \/ NoCompletion(c) \/ MissingInterruptFatal(c)
             \/ MissingInterruptPolls(c) \/ CloseAq(c)
        BY <4>4 DEF IntrCheck, NoCompletion, MissingInterruptFatal, MissingInterruptPolls, CloseAq
      <4> QED
        BY <2>2, <4>1, <4>2, <4>3, <4>4
    <3> QED
      BY <3>1 DEF Scanning
  <2> QED
    BY <2>1, <2>2
<1>3. Slot' = Slot /\ Phase' = Phase
  BY <1>1, <1>2, SlotSame DEF MemoryInv
<1> QED
  BY <1>1, <1>3 DEF RingsStay, Alive, ringStateVars

\* A scan starts, goes on to the next field of its entry, or ends.
LEMMA ScanStays ==
    ASSUME MemoryInv, MemoryInv',
           \/ Interrupt
           \/ \E c \in Clients : TakeOwnership(c)
           \/ \E x \in Handlers : FindContext(x) \/ CopyResponse(x) \/ Wake(x) \/ FinishScan(x)
    PROVE  RingsStay
<1> USE DEF adminVars, ctxVars, handlerVars, clientVars, tdVars, devVars, ringVars, ghostVars
<1>1. UNCHANGED ringStateVars /\ UNCHANGED td
  BY DEF Interrupt, TakeOwnership, FindContext, CopyResponse, Wake, FinishScan, ringStateVars
<1>2. Slot' = Slot /\ Phase' = Phase
  <2>1. ASSUME NEW x \in Handlers, StartScan(x), ~polling_for_completions,
               UNCHANGED <<cqHead, cqPhase>>
        PROVE  Slot' = Slot /\ Phase' = Phase
    <3>1. NobodyScans
      BY <2>1 DEF MemoryInv, ScanInv, NobodyScans
    <3>2. Scanning(x)' /\ hslot'[x] = cqHead /\ hphase'[x] = cqPhase
      BY <2>1 DEF StartScan, Scanning, MemoryInv, TypeOK, HandlerType
    <3> QED
      BY <3>1, <3>2, SlotStarts DEF MemoryInv
  <2>2. CASE Interrupt
    BY <2>1, <2>2, StayAsideHandlers DEF Interrupt, Handlers
  <2>3. ASSUME NEW c \in Clients, TakeOwnership(c) PROVE Slot' = Slot /\ Phase' = Phase
    BY <2>1, <2>3 DEF TakeOwnership, MayOwn, Handlers
  <2>4. ASSUME NEW x \in Handlers, FindContext(x) \/ CopyResponse(x) \/ Wake(x)
        PROVE  Slot' = Slot /\ Phase' = Phase
    <3>1. UNCHANGED <<hslot, hphase, cqHead, cqPhase>>
      BY <2>4 DEF FindContext, CopyResponse, Wake
    <3>2. \A y \in Handlers : Scanning(y) <=> Scanning(y)'
      BY <2>4 DEF FindContext, CopyResponse, Wake, After, Scanning, MemoryInv, TypeOK, HandlerType
    <3> QED
      BY <3>1, <3>2, SlotSame DEF MemoryInv
  <2>5. ASSUME NEW x \in Handlers, FinishScan(x) PROVE Slot' = Slot /\ Phase' = Phase
    <3>1. Scanning(x) /\ cqHead' = hslot[x] /\ cqPhase' = hphase[x]
      BY <2>5 DEF FinishScan, Scanning
    <3>2. NobodyScans'
      <4>1. polling_for_completions' = FALSE
        BY <2>5 DEF FinishScan, OwnedAfterScan
      <4> QED
        BY <4>1 DEF MemoryInv, ScanInv, NobodyScans
    <3> QED
      BY <3>1, <3>2, SlotEnds DEF MemoryInv
  <2> QED
    BY <2>2, <2>3, <2>4, <2>5
<1> QED
  BY <1>1, <1>2 DEF RingsStay, Alive, ringStateVars

\* Teardown, but for the reset, and the rest of the bring-up.
LEMMA TearDownStays ==
    ASSUME MemoryInv, MemoryInv',
           Close \/ FreeIrq \/ AbortOne \/ Destroy \/ PollFirst \/ RequestIrq \/ InterruptsOn
    PROVE  RingsStay
<1> USE DEF adminVars, ctxVars, handlerVars, clientVars, tdVars, devVars, ringVars, ghostVars, StepTd
<1>1. UNCHANGED ringStateVars /\ UNCHANGED <<hpc, hslot, hphase, cqHead, cqPhase>>
  BY DEF Close, FreeIrq, AbortOne, Destroy, PollFirst, RequestIrq, InterruptsOn, ringStateVars
<1>2. Alive <=> Alive'
  BY DEF Close, FreeIrq, AbortOne, Destroy, PollFirst, RequestIrq, InterruptsOn, Alive
<1> QED
  BY <1>1, <1>2, StayAsideHandlers DEF RingsStay, ringStateVars

\* The driver goes on to the next completion.
LEMMA TookMoves ==
    ASSUME MemoryInv, MemoryInv', NEW x \in Handlers, Took(x)
    PROVE  /\ Slot = hslot[x] /\ Phase = hphase[x]
           /\ Slot' = NextSlot(Slot) /\ Phase' = NextPhase(Slot, Phase)
           /\ UNCHANGED ringStateVars /\ (Alive <=> Alive')
<1>1. Scanning(x) /\ Scanning(x)'
  BY DEF Took, PostStatus, BadCompletion, After, Scanning, MemoryInv, TypeOK, HandlerType
<1>2. hslot'[x] = NextSlot(hslot[x]) /\ hphase'[x] = NextPhase(hslot[x], hphase[x])
  BY DEF Took, PostStatus, BadCompletion, Advance, MemoryInv, TypeOK, HandlerType
<1>3. UNCHANGED ringStateVars /\ UNCHANGED td
  BY DEF Took, PostStatus, BadCompletion, ringStateVars, ringVars, devVars, ghostVars, tdVars
<1> QED
  BY <1>1, <1>2, <1>3, SlotFacts DEF MemoryInv, AtScanner, Alive

-----------------------------------------------------------------------------
(***************************************************************************)
(* The completion ring                                                     *)
(***************************************************************************)
ReadyAt(s) == cq[s].phase = PhaseAt(Slot, Phase, s)

\* The unread slots are those whose phase is the one the driver expects.
LEMMA UnreadIs ==
    /\ \A s \in Ids : s \in Unread <=> ReadyAt(s)
    /\ Unread \subseteq Ids
  BY DEF Unread, ReadyAt, PhaseAt

\* There are finitely many of them.
LEMMA UnreadFinite == IsFiniteSet(Unread) /\ unread \in Nat
<1>1. IsFiniteSet(Ids)
  BY DepthType, FS_Interval
<1> QED
  BY <1>1, UnreadIs, FS_Subset, FS_CardinalityType DEF unread

CqStays == UNCHANGED <<cq, devTail, devPhase>> /\ Slot' = Slot /\ Phase' = Phase

\* A step that moves neither end of the completion ring keeps its shape.
LEMMA CqSame == CqStays => Unread' = Unread /\ unread' = unread /\ (CqShape => CqShape')
<1> SUFFICES ASSUME CqStays PROVE Unread' = Unread /\ unread' = unread /\ (CqShape => CqShape')
  OBVIOUS
<1>1. Unread' = Unread
  BY DEF CqStays, Unread
<1>2. unread' = unread
  BY <1>1 DEF unread
<1>3. Window(Slot', unread') = Window(Slot, unread) /\ Plus(Slot', unread') = Plus(Slot, unread)
      /\ PhaseAfter(Slot', Phase', unread') = PhaseAfter(Slot, Phase, unread)
  BY <1>2 DEF CqStays
<1> QED
  BY <1>1, <1>2, <1>3 DEF CqStays, CqShape

\* The driver takes the first of the unread completions.
LEMMA CqTaken ==
    ASSUME TypeOK, ScanInv, CqShape, Slot \in Unread, UNCHANGED <<cq, devTail, devPhase>>,
           Slot' = NextSlot(Slot), Phase' = NextPhase(Slot, Phase)
    PROVE  /\ Unread' = Unread \ {Slot} /\ unread' = unread - 1 /\ unread > 0
           /\ CqShape'
<1>0. Slot \in Ids /\ Phase \in BOOLEAN
  BY SlotType
<1>1. \A s \in Ids : s \in Unread' <=> s \in Unread /\ s # Slot
  <2> SUFFICES ASSUME NEW s \in Ids PROVE s \in Unread' <=> s \in Unread /\ s # Slot
    OBVIOUS
  <2>1. s \in Unread' <=> cq[s].phase = PhaseAt(NextSlot(Slot), NextPhase(Slot, Phase), s)
    BY DEF Unread, PhaseAt
  <2>2. PhaseAt(NextSlot(Slot), NextPhase(Slot, Phase), s) =
              (IF s = Slot THEN ~PhaseAt(Slot, Phase, s) ELSE PhaseAt(Slot, Phase, s))
    BY <1>0, PhaseMoves
  <2>3. s \in Unread <=> cq[s].phase = PhaseAt(Slot, Phase, s)
    BY UnreadIs DEF ReadyAt
  <2>4. cq[s].phase \in BOOLEAN /\ PhaseAt(Slot, Phase, s) \in BOOLEAN
    BY <1>0 DEF TypeOK, RingType, CqEntry, PhaseAt
  <2> QED
    BY <2>1, <2>2, <2>3, <2>4
<1>2. Unread' = Unread \ {Slot}
  <2>1. Unread' \subseteq Ids
    BY DEF Unread
  <2> QED
    BY <1>1, <2>1, UnreadIs
<1>3. unread' = unread - 1 /\ unread > 0
  <2>1. Cardinality(Unread \ {Slot}) = Cardinality(Unread) - 1
    BY UnreadFinite, FS_RemoveElement
  <2>2. unread # 0
    BY UnreadFinite, FS_EmptySet DEF unread
  <2> QED
    BY <1>2, <2>1, <2>2, UnreadFinite DEF unread
<1>4. unread \in 1..Depth
  BY <1>3 DEF CqShape
<1>5. DEFINE a == Slot
             n == unread
             ph == Phase
<1>6. /\ Window(NextSlot(a), n - 1) = Window(a, n) \ {a}
      /\ Plus(NextSlot(a), n - 1) = Plus(a, n)
      /\ PhaseAfter(NextSlot(a), NextPhase(a, ph), n - 1) = PhaseAfter(a, ph, n)
  <2>1. a \in Ids /\ n \in 1..Depth /\ ph \in BOOLEAN
    BY <1>0, <1>4
  <2> HIDE DEF a, n, ph
  <2> QED
    BY <2>1, WindowShrinks
<1>7. Unread' = Window(Slot', unread')
  BY <1>2, <1>3, <1>6 DEF CqShape
<1>8. devTail' = Plus(Slot', unread') /\ devPhase' = PhaseAfter(Slot', Phase', unread')
  BY <1>3, <1>6 DEF CqShape
<1>9. unread' \in 0..Depth
  BY <1>3, <1>4, DepthType
<1>10. CqShape'
  BY <1>7, <1>8, <1>9 DEF CqShape
<1> QED
  BY <1>2, <1>3, <1>10

\* The device writes the one after the last.
LEMMA CqWritten ==
    ASSUME TypeOK, ScanInv, CqShape, unread < Depth, NEW e,
           e.phase = devPhase, cq' = [cq EXCEPT ![devTail] = e],
           devTail' = NextSlot(devTail), devPhase' = NextPhase(devTail, devPhase),
           Slot' = Slot, Phase' = Phase
    PROVE  /\ devTail \in Ids \ Unread
           /\ Unread' = Unread \cup {devTail} /\ unread' = unread + 1
           /\ CqShape'
<1>0. Slot \in Ids /\ Phase \in BOOLEAN
  BY SlotType
<1>1. DEFINE a == Slot
             n == unread
             ph == Phase
<1>2. /\ Window(a, n + 1) = Window(a, n) \cup {Plus(a, n)}
      /\ Plus(a, n) \in Ids \ Window(a, n)
      /\ Plus(a, n + 1) = NextSlot(Plus(a, n))
      /\ PhaseAfter(a, ph, n + 1) = NextPhase(Plus(a, n), PhaseAfter(a, ph, n))
      /\ PhaseAfter(a, ph, n) = PhaseAt(a, ph, Plus(a, n))
  <2>1. a \in Ids /\ n \in 0..(Depth - 1) /\ ph \in BOOLEAN
    BY <1>0, DepthType DEF CqShape
  <2> HIDE DEF a, n, ph
  <2> QED
    BY <2>1, WindowGrows
<1>3. devTail \in Ids \ Unread /\ devPhase = PhaseAt(Slot, Phase, devTail)
  BY <1>2 DEF CqShape
<1>4. \A s \in Ids : s \in Unread' <=> s \in Unread \/ s = devTail
  <2> SUFFICES ASSUME NEW s \in Ids PROVE s \in Unread' <=> s \in Unread \/ s = devTail
    OBVIOUS
  <2>1. s \in Unread' <=> cq'[s].phase = PhaseAt(Slot, Phase, s)
    BY DEF Unread, PhaseAt
  <2>2. s \in Unread <=> cq[s].phase = PhaseAt(Slot, Phase, s)
    BY UnreadIs DEF ReadyAt
  <2>3. cq'[s] = IF s = devTail THEN e ELSE cq[s]
    BY DEF TypeOK, RingType
  <2> QED
    BY <1>3, <2>1, <2>2, <2>3
<1>5. Unread' = Unread \cup {devTail}
  <2>1. Unread' \subseteq Ids
    BY DEF Unread
  <2> QED
    BY <1>3, <1>4, <2>1, UnreadIs
<1>6. unread' = unread + 1
  <2>1. Cardinality(Unread \cup {devTail}) = Cardinality(Unread) + 1
    BY <1>3, UnreadFinite, FS_AddElement
  <2> QED
    BY <1>5, <2>1 DEF unread
<1>7. Unread' = Window(Slot', unread')
  BY <1>2, <1>5, <1>6 DEF CqShape
<1>8. devTail' = Plus(Slot', unread') /\ devPhase' = PhaseAfter(Slot', Phase', unread')
  BY <1>2, <1>6 DEF CqShape
<1>9. unread' \in 0..Depth
  BY <1>6, DepthType DEF CqShape
<1> QED
  BY <1>3, <1>5, <1>6, <1>7, <1>8, <1>9 DEF CqShape

\* A ring of entries whose phase is not the driver's has none.
LEMMA CqFresh ==
    cq = [i \in Ids |-> NoCqEntry] /\ Slot = 0 /\ Phase = TRUE /\ devTail = 0 /\ devPhase = TRUE
    => Unread = {} /\ unread = 0 /\ CqShape
<1> SUFFICES ASSUME cq = [i \in Ids |-> NoCqEntry], Slot = 0, Phase = TRUE,
                    devTail = 0, devPhase = TRUE
             PROVE  Unread = {} /\ unread = 0 /\ CqShape
  OBVIOUS
<1>1. Unread = {}
  <2>1. \A s \in Ids : s >= Slot
    BY DepthType
  <2>2. \A s \in Ids : cq[s].phase = FALSE
    BY DEF NoCqEntry
  <2> QED
    BY <2>1, <2>2 DEF Unread
<1>2. unread = 0
  BY <1>1, FS_EmptySet DEF unread
<1>3. Window(0, 0) = {} /\ Plus(0, 0) = 0 /\ PhaseAfter(0, TRUE, 0) = TRUE
  BY ZeroId, EmptyWindow, DepthType DEF Plus, PhaseAfter
<1>4. Unread = Window(Slot, unread) /\ devTail = Plus(Slot, unread)
      /\ devPhase = PhaseAfter(Slot, Phase, unread)
  BY <1>1, <1>2, <1>3
<1>5. unread \in 0..Depth
  BY <1>2, DepthType
<1> QED
  BY <1>1, <1>2, <1>4, <1>5 DEF CqShape

-----------------------------------------------------------------------------
(***************************************************************************)
(* The submission ring                                                     *)
(***************************************************************************)
LEMMA AnnouncedIs == Announced = Window(devHead, announced)
  BY DEF Announced, Window

SqStays ==
    /\ UNCHANGED <<sq, sqTail, sqPhase, devHead, devSqPhase, announced>>
    /\ (Alive <=> Alive')
    /\ executing' \subseteq executing

\* A step that touches nothing of the submission ring keeps its shape.
LEMMA SqSame == SqStays => Announced' = Announced /\ (SqShape => SqShape')
  BY DEF SqStays, Announced, SqShape

\* The driver announces the one after the last.
LEMMA SqWritten ==
    ASSUME TypeOK, SqShape, Alive, Alive', announced < Depth, NEW e,
           e.phase = sqPhase, sq' = [sq EXCEPT ![sqTail] = e],
           sqTail' = NextSlot(sqTail), sqPhase' = NextPhase(sqTail, sqPhase),
           announced' = announced + 1, UNCHANGED <<devHead, devSqPhase>>
    PROVE  /\ sqTail \in Ids \ Announced
           /\ Announced' = Announced \cup {sqTail}
           /\ SqShape'
<1>1. DEFINE a == devHead
             n == announced
             ph == devSqPhase
<1>2. /\ Window(a, n + 1) = Window(a, n) \cup {Plus(a, n)}
      /\ Plus(a, n) \in Ids \ Window(a, n)
      /\ Plus(a, n + 1) = NextSlot(Plus(a, n))
      /\ PhaseAfter(a, ph, n + 1) = NextPhase(Plus(a, n), PhaseAfter(a, ph, n))
      /\ PhaseAfter(a, ph, n) = PhaseAt(a, ph, Plus(a, n))
  <2>1. a \in Ids /\ n \in 0..(Depth - 1) /\ ph \in BOOLEAN
    BY DepthType DEF SqShape, TypeOK, DevType
  <2> HIDE DEF a, n, ph
  <2> QED
    BY <2>1, WindowGrows
<1>3. sqTail \in Ids \ Announced /\ sqPhase = PhaseAt(devHead, devSqPhase, sqTail)
  BY <1>2, AnnouncedIs DEF SqShape
<1>4. Announced' = Window(devHead, announced + 1)
  BY DEF Announced, Window
<1>5. Announced' = Announced \cup {sqTail}
  BY <1>2, <1>4, AnnouncedIs DEF SqShape
<1>6. \A s \in Announced' : sq'[s].phase = PhaseAt(devHead, devSqPhase, s)
  <2> SUFFICES ASSUME NEW s \in Announced' PROVE sq'[s].phase = PhaseAt(devHead, devSqPhase, s)
    OBVIOUS
  <2>1. s \in Ids
    BY DEF Announced
  <2>2. sq'[s] = IF s = sqTail THEN e ELSE sq[s]
    BY <2>1 DEF TypeOK, RingType
  <2> QED
    BY <1>3, <1>5, <2>2 DEF SqShape
<1>7. sqTail' = Plus(devHead, announced') /\ sqPhase' = PhaseAfter(devHead, devSqPhase, announced')
  BY <1>2 DEF SqShape
<1>8. announced' \in 0..Depth
  BY DepthType DEF SqShape
<1> QED
  BY <1>3, <1>5, <1>6, <1>7, <1>8 DEF SqShape

\* The device fetches the first.
LEMMA SqFetched ==
    ASSUME TypeOK, SqShape, announced > 0, Alive, Alive',
           announced' = announced - 1, devHead' = NextSlot(devHead),
           devSqPhase' = NextPhase(devHead, devSqPhase), UNCHANGED <<sq, sqTail, sqPhase>>
    PROVE  /\ devHead \in Announced
           /\ Announced' = Announced \ {devHead}
           /\ SqShape'
<1>0. announced \in 1..Depth
  BY DepthType DEF SqShape
<1>1. DEFINE a == devHead
             n == announced
             ph == devSqPhase
<1>2. /\ a \in Window(a, n)
      /\ Window(NextSlot(a), n - 1) = Window(a, n) \ {a}
      /\ Plus(NextSlot(a), n - 1) = Plus(a, n)
      /\ PhaseAfter(NextSlot(a), NextPhase(a, ph), n - 1) = PhaseAfter(a, ph, n)
  <2>1. a \in Ids /\ n \in 1..Depth /\ ph \in BOOLEAN
    BY <1>0 DEF TypeOK, DevType
  <2> HIDE DEF a, n, ph
  <2> QED
    BY <2>1, WindowShrinks
<1>3. devHead \in Announced
  BY <1>2, AnnouncedIs
<1>4. Announced' = Window(devHead', announced')
  BY DEF Announced, Window
<1>5. Announced' = Announced \ {devHead}
  BY <1>2, <1>4, AnnouncedIs
<1>6. \A s \in Announced' : sq'[s].phase = PhaseAt(devHead', devSqPhase', s)
  <2> SUFFICES ASSUME NEW s \in Announced' PROVE sq'[s].phase = PhaseAt(devHead', devSqPhase', s)
    OBVIOUS
  <2>1. s \in Ids /\ s \in Announced /\ s # devHead
    BY <1>5 DEF Announced
  <2>2. devHead \in Ids /\ devSqPhase \in BOOLEAN
    BY DEF TypeOK, DevType
  <2>3. PhaseAt(NextSlot(devHead), NextPhase(devHead, devSqPhase), s) =
              (IF s = devHead THEN ~PhaseAt(devHead, devSqPhase, s) ELSE PhaseAt(devHead, devSqPhase, s))
    BY <2>1, <2>2, PhaseMoves
  <2> QED
    BY <2>1, <2>3 DEF SqShape
<1>7. sqTail' = Plus(devHead', announced') /\ sqPhase' = PhaseAfter(devHead', devSqPhase', announced')
  BY <1>0, <1>2 DEF SqShape
<1>8. announced' \in 0..Depth
  BY <1>0, DepthType
<1> QED
  BY <1>0, <1>3, <1>5, <1>6, <1>7, <1>8 DEF SqShape

\* A ring that holds nothing.
LEMMA SqEmpty ==
    announced = 0 /\ devHead \in Ids
    /\ (Alive => sqTail = devHead /\ sqPhase = devSqPhase)
    => Announced = {} /\ SqShape
<1> SUFFICES ASSUME announced = 0, devHead \in Ids,
                    Alive => sqTail = devHead /\ sqPhase = devSqPhase
             PROVE  Announced = {} /\ SqShape
  OBVIOUS
<1>1. Announced = {}
  BY AnnouncedIs, EmptyWindow
<1>2. Plus(devHead, 0) = devHead /\ PhaseAfter(devHead, devSqPhase, 0) = devSqPhase
  BY DepthType DEF Plus, PhaseAfter
<1> QED
  BY <1>1, <1>2, DepthType DEF SqShape

-----------------------------------------------------------------------------
(***************************************************************************)
(* The commands in the rings, by kind of step                              *)
(***************************************************************************)
\* No command joins those in flight, and an id stays with its command.
Shrinks == \A f \in InFlight' : \E g \in InFlight : f[2] = g[2] /\ (f[1] \in Ids => f = g)

\* What the rings hold is counted by natural numbers.
LEMMA LoadType ==
    RingInv => /\ announced \in Nat /\ Cardinality(executing) \in Nat /\ unread \in Nat
               /\ Load \in Nat
  BY UnreadFinite, FS_CardinalityType, DepthType DEF RingInv, SqShape, Room, Load, unread

\* Nothing moves.
LEMMA RingsStayInv ==
    ASSUME RingInv, RingsStay
    PROVE  RingInv' /\ InFlight' = InFlight /\ Load' = Load
<1>1. CqStays /\ SqStays
  BY DEF RingsStay, CqStays, SqStays
<1>2. Unread' = Unread /\ unread' = unread /\ CqShape' /\ Announced' = Announced /\ SqShape'
  BY <1>1, CqSame, SqSame DEF RingInv
<1>3. Room' /\ Load' = Load
  BY <1>2 DEF RingsStay, RingInv, Room, Load, unread
<1>4. OnePlace'
  BY <1>2 DEF RingsStay, RingInv, OnePlace
<1>5. Answers'
  BY <1>2 DEF RingsStay, RingInv, Answers, Issued
<1>6. InFlight' = InFlight
  BY <1>2 DEF RingsStay, InFlight
<1> QED
  BY <1>2, <1>3, <1>4, <1>5, <1>6 DEF RingInv

\* The callers that wait are counted in outstanding_cmds.
LEMMA WaitersFinite == IsFiniteSet(Waiters) /\ Cardinality(Waiters) \in Nat
                       /\ Cardinality(Waiters) <= Cardinality(Busy)
<1>1. Waiters \subseteq Busy
  BY DEF Waiters, Waiting, Busy
<1> QED
  BY <1>1, BusyFinite, FS_Subset, FS_CardinalityType

\* A command is submitted: there is room, and its number is new.
LEMMA SubmitInv ==
    ASSUME Good, MemoryInv', NEW c \in Clients, Submit(c), ~overrun'
    PROVE  /\ RingInv' /\ Load' = Load + 1
           /\ InFlight' = InFlight \cup {<<curr_cmd_id, lastCmd + 1>>}
<1> USE DEF Good, Always, MemoryInv, RingInv, CallerInv
<1>1. Load < Depth /\ announced < Depth
  <2>1. CASE running_state
    <3>1. Load <= Cardinality(Waiters) /\ Cardinality(Busy) < Depth
      BY <2>1 DEF Submit, Backed, CountInv
    <3> QED
      BY <3>1, WaitersFinite, BusyFinite, LoadType, DepthType DEF Load, unread
  <2>2. CASE ~running_state
    <3>1. ~(Load >= Depth)
      BY <2>2 DEF Submit, Expose
    <3> QED
      BY <3>1, LoadType, DepthType DEF Load, unread
  <2> QED
    BY <2>1, <2>2
<1>2. UNCHANGED <<hpc, hslot, hphase, cqHead, cqPhase>>
  BY DEF Submit, handlerVars
<1>3. CqStays
  BY <1>2, StayAsideHandlers DEF Submit, CqStays
<1>4. Unread' = Unread /\ unread' = unread /\ CqShape'
  BY <1>3, CqSame
<1>5. Alive /\ Alive'
  BY DEF Submit, LifeInv, Alive, TypeOK, TdType, TdPc, tdVars
<1>6. DEFINE e == [phase |-> sqPhase, id |-> curr_cmd_id, cmd |-> lastCmd + 1]
<1>7. e.phase = sqPhase /\ e.id = curr_cmd_id /\ e.cmd = lastCmd + 1
  OBVIOUS
<1>8. /\ sq' = [sq EXCEPT ![sqTail] = e]
      /\ sqTail' = NextSlot(sqTail) /\ sqPhase' = NextPhase(sqTail, sqPhase)
      /\ announced' = announced + 1 /\ UNCHANGED <<devHead, devSqPhase>>
  BY DEF Submit
<1> HIDE DEF e
<1>9. /\ sqTail \in Ids \ Announced
      /\ Announced' = Announced \cup {sqTail}
      /\ SqShape'
  BY <1>1, <1>5, <1>7, <1>8, SqWritten
<1>10. /\ sq'[sqTail].id = curr_cmd_id /\ sq'[sqTail].cmd = lastCmd + 1
       /\ \A s \in Announced : s # sqTail /\ sq'[s] = sq[s]
  <2>1. \A s \in Announced : s \in Ids
    BY DEF Announced
  <2> QED
    BY <1>7, <1>8, <1>9, <2>1 DEF TypeOK, RingType
<1>11. Load' = Load + 1 /\ Room'
  <2>1. UNCHANGED executing
    BY DEF Submit
  <2>2. /\ announced \in Nat /\ Cardinality(executing) \in Nat /\ unread \in Nat
        /\ Load \in Nat /\ Depth \in Nat
    BY LoadType, DepthType
  <2>3. /\ Load = announced + Cardinality(executing) + unread
        /\ Load' = (announced + 1) + Cardinality(executing) + unread
    BY <1>4, <1>8, <2>1 DEF Load, unread
  <2>4. Load' = Load + 1 /\ Load' <= Depth
    BY <1>1, <2>2, <2>3
  <2>5. IsFiniteSet(executing')
    BY <2>1 DEF RingInv, Room
  <2> QED
    BY <2>4, <2>5 DEF Room
<1>12. /\ lastCmd \in Nat /\ lastCmd' = lastCmd + 1 /\ lastCmd + 1 \in Cmds
       /\ lastCmd + 1 \notin Issued
       /\ Issued' = Issued \cup {lastCmd + 1}
       /\ UNCHANGED <<executing, answer, cq>>
  BY BoundsAssumption DEF Submit, TypeOK, GhostType, Cmds, NoCmd, Issued
<1>13. OnePlace'
  <2>1. \A s, t \in Announced' : sq'[s].cmd = sq'[t].cmd => s = t
    BY <1>9, <1>10, <1>12 DEF OnePlace, Answers
  <2>2. \A s \in Announced', x \in executing' : sq'[s].cmd # x.cmd
    BY <1>9, <1>10, <1>12 DEF OnePlace, Answers
  <2> QED
    BY <1>4, <1>12, <2>1, <2>2 DEF OnePlace
<1>14. Answers'
  <2>1. answer[lastCmd + 1] = "none"
    BY <1>12 DEF Numbered
  <2>2. \A s \in Announced' : sq'[s].cmd \in Issued' /\ answer'[sq'[s].cmd] = "none"
    BY <1>9, <1>10, <1>12, <2>1 DEF Answers
  <2> QED
    BY <1>4, <1>12, <2>2 DEF Answers
<1>15. InFlight' = InFlight \cup {<<curr_cmd_id, lastCmd + 1>>}
  <2>1. {<<sq[s].id, sq[s].cmd>> : s \in Announced}' =
        {<<sq[s].id, sq[s].cmd>> : s \in Announced} \cup {<<curr_cmd_id, lastCmd + 1>>}
    BY <1>9, <1>10
  <2> QED
    BY <1>4, <1>12, <2>1 DEF InFlight
<1> QED
  BY <1>4, <1>9, <1>11, <1>13, <1>14, <1>15

\* The driver is done with a completion: nothing of its command is left.
LEMMA TookInv ==
    ASSUME Good, MemoryInv', NEW x \in Handlers, Took(x)
    PROVE  /\ RingInv' /\ Load' < Load /\ InFlight' \subseteq InFlight
           /\ Slot = hslot[x] /\ Slot \in Unread
           /\ <<cq[Slot].id, cq[Slot].cmd>> \in InFlight
           /\ \A f \in InFlight' : f[2] # cq[Slot].cmd
<1> USE DEF Good, Always, MemoryInv, RingInv, CallerInv
<1>1. /\ Slot = hslot[x] /\ Phase = hphase[x]
      /\ Slot' = NextSlot(Slot) /\ Phase' = NextPhase(Slot, Phase)
      /\ UNCHANGED ringStateVars /\ (Alive <=> Alive')
  BY TookMoves
<1>2. EntryReady(x)
  BY DEF Took, PostStatus, BadCompletion, Handling
<1>3. Slot \in Unread
  <2>1. Slot \in Ids
    BY SlotType
  <2> QED
    BY <1>1, <1>2, <2>1, DepthType DEF Unread, EntryReady
<1>4. Unread' = Unread \ {Slot} /\ unread' = unread - 1 /\ unread > 0 /\ CqShape'
  BY <1>1, <1>3, CqTaken DEF ringStateVars
<1>5. SqStays
  BY <1>1 DEF SqStays, ringStateVars
<1>6. Announced' = Announced /\ SqShape'
  BY <1>5, SqSame
<1>7. Room' /\ Load' < Load
  BY <1>1, <1>4, LoadType, DepthType DEF ringStateVars, Room, Load, unread
<1>8. OnePlace'
  BY <1>1, <1>4, <1>6 DEF ringStateVars, OnePlace
<1>9. Answers'
  BY <1>1, <1>4, <1>6 DEF ringStateVars, Answers, Issued
<1>10. InFlight' \subseteq InFlight /\ <<cq[Slot].id, cq[Slot].cmd>> \in InFlight
  BY <1>1, <1>3, <1>4, <1>6 DEF ringStateVars, InFlight
<1>11. \A f \in InFlight' : f[2] # cq[Slot].cmd
  <2>1. answer[cq[Slot].cmd] # "none"
    BY <1>3, StatusAssumption DEF Answers
  <2>2. \A s \in Announced : sq[s].cmd # cq[Slot].cmd
    BY <2>1 DEF Answers
  <2>3. \A e \in executing : e.cmd # cq[Slot].cmd
    BY <2>1 DEF Answers
  <2>4. \A s \in Unread' : cq[s].cmd # cq[Slot].cmd
    BY <1>3, <1>4 DEF OnePlace
  <2> QED
    BY <1>1, <1>6, <2>2, <2>3, <2>4 DEF ringStateVars, InFlight
<1> QED
  BY <1>1, <1>3, <1>4, <1>6, <1>7, <1>8, <1>9, <1>10, <1>11

\* The device is reset: only the unread completions are left.
LEMMA ResetInv ==
    ASSUME Good, MemoryInv', ResetDevice
    PROVE  RingInv' /\ Load' <= Load /\ InFlight' \subseteq InFlight
<1> USE DEF Good, Always, MemoryInv, RingInv, CallerInv
<1>1. UNCHANGED <<hpc, hslot, hphase, cqHead, cqPhase, sq, cq, devHead, devTail, devPhase,
                  answer, lastCmd>>
      /\ announced' = 0 /\ executing' = {} /\ ~Alive'
  BY DEF ResetDevice, StepTd, handlerVars, ringVars, ghostVars, Alive
<1>2. CqStays
  BY <1>1, StayAsideHandlers DEF CqStays
<1>3. Unread' = Unread /\ unread' = unread /\ CqShape'
  BY <1>2, CqSame
<1>4. (Announced = {} /\ SqShape)'
  <2>1. announced' = 0 /\ devHead' \in Ids /\ ~Alive'
    BY <1>1 DEF TypeOK, DevType
  <2>2. (announced = 0 /\ devHead \in Ids
         /\ (Alive => sqTail = devHead /\ sqPhase = devSqPhase) => Announced = {} /\ SqShape)'
    BY SqEmpty, PTL
  <2> QED
    BY <2>1, <2>2
<1>5. Room' /\ Load' <= Load
  <2>1. IsFiniteSet(executing') /\ Cardinality(executing') = 0
    BY <1>1, FS_EmptySet
  <2> QED
    BY <1>1, <1>3, <2>1, LoadType, DepthType DEF Room, Load, unread
<1>6. OnePlace' /\ Answers' /\ InFlight' \subseteq InFlight
  BY <1>1, <1>3, <1>4 DEF OnePlace, Answers, Issued, InFlight
<1> QED
  BY <1>3, <1>4, <1>5, <1>6

\* The rings are made anew.
LEMMA UpInv ==
    ASSUME Always, MemoryInv', AdminInit
    PROVE  RingInv' /\ Load' = 0 /\ InFlight' = {}
<1> USE DEF Always, MemoryInv, RingInv
<1>1. /\ announced' = 0 /\ executing' = {} /\ devHead' = 0 /\ devSqPhase' = TRUE
      /\ sqTail' = 0 /\ sqPhase' = TRUE
      /\ cq' = [i \in Ids |-> NoCqEntry] /\ cqHead' = 0 /\ cqPhase' = TRUE
      /\ devTail' = 0 /\ devPhase' = TRUE /\ UNCHANGED <<answer, lastCmd>>
  BY DEF AdminInit, StepTd, Numbered, Alive
<1>2. Slot' = 0 /\ Phase' = TRUE
  <2>1. NobodyScans'
    <3>1. polling_for_completions' = FALSE
      BY DEF AdminInit
    <3> QED
      BY <3>1 DEF ScanInv, NobodyScans
  <2> QED
    BY <1>1, <2>1, SlotFacts DEF AtHead
<1>3. (Unread = {} /\ unread = 0 /\ CqShape)'
  <2>1. (cq = [i \in Ids |-> NoCqEntry] /\ Slot = 0 /\ Phase = TRUE /\ devTail = 0 /\ devPhase = TRUE
         => Unread = {} /\ unread = 0 /\ CqShape)'
    BY CqFresh, PTL
  <2> QED
    BY <1>1, <1>2, <2>1
<1>4. (Announced = {} /\ SqShape)'
  <2>1. (announced = 0 /\ devHead \in Ids
         /\ (Alive => sqTail = devHead /\ sqPhase = devSqPhase) => Announced = {} /\ SqShape)'
    BY SqEmpty, PTL
  <2> QED
    BY <1>1, <2>1, ZeroId
<1>5. Room' /\ Load' = 0
  BY <1>1, <1>3, FS_EmptySet, DepthType DEF Room, Load, unread
<1>6. OnePlace' /\ InFlight' = {}
  BY <1>1, <1>3, <1>4 DEF OnePlace, InFlight
<1>7. Answers'
  BY <1>1, <1>3, <1>4 DEF Answers
<1> QED
  BY <1>3, <1>4, <1>5, <1>6, <1>7

\* The device fetches a command.
LEMMA FetchInv ==
    ASSUME Good, MemoryInv', DeviceFetch
    PROVE  RingInv' /\ Load' = Load /\ InFlight' = InFlight
<1> USE DEF Good, Always, MemoryInv, RingInv, CallerInv
<1>1. /\ UNCHANGED <<hpc, hslot, hphase, cqHead, cqPhase, sq, sqTail, sqPhase, cq,
                     devTail, devPhase, answer, lastCmd, td>>
      /\ announced > 0 /\ announced' = announced - 1
      /\ executing' = executing \cup {sq[devHead]}
      /\ devHead' = NextSlot(devHead) /\ devSqPhase' = NextPhase(devHead, devSqPhase)
  BY DEF DeviceFetch, handlerVars, ringVars, ghostVars, tdVars
<1>2. CqStays
  BY <1>1, StayAsideHandlers DEF CqStays
<1>3. Unread' = Unread /\ unread' = unread /\ CqShape'
  BY <1>2, CqSame
<1>4. Alive /\ Alive'
  <2>1. announced # 0
    BY <1>1
  <2> QED
    BY <1>1, <2>1 DEF Alive, Numbered
<1>5. devHead \in Announced /\ Announced' = Announced \ {devHead} /\ SqShape'
  BY <1>1, <1>4, SqFetched
<1>6. sq[devHead] \notin executing
  BY <1>5 DEF OnePlace
<1>7. Room' /\ Load' = Load
  <2> DEFINE e == sq[devHead]
  <2> HIDE DEF e
  <2>1. IsFiniteSet(executing) => /\ IsFiniteSet(executing \cup {e})
                                  /\ e \notin executing => Cardinality(executing \cup {e})
                                                               = Cardinality(executing) + 1
    BY FS_AddElement
  <2>2. IsFiniteSet(executing') /\ Cardinality(executing') = Cardinality(executing) + 1
    BY <1>1, <1>6, <2>1 DEF Room, e
  <2> QED
    BY <1>1, <1>3, <2>2, LoadType, DepthType, SMTT(30) DEF Room, Load, unread
<1>8. OnePlace'
  <2>1. \A s, t \in Announced' : sq'[s].cmd = sq'[t].cmd => s = t
    BY <1>1, <1>5 DEF OnePlace
  <2>2. \A e, f \in executing' : e.cmd = f.cmd => e = f
    BY <1>1, <1>5 DEF OnePlace
  <2>3. \A s \in Announced', e \in executing' : sq'[s].cmd # e.cmd
    BY <1>1, <1>5 DEF OnePlace
  <2> QED
    BY <1>1, <1>3, <2>1, <2>2, <2>3 DEF OnePlace
<1>9. Answers'
  BY <1>1, <1>3, <1>5 DEF Answers, Issued
<1>10. InFlight' = InFlight
  <2>1. {<<sq[s].id, sq[s].cmd>> : s \in Announced} =
        {<<sq[s].id, sq[s].cmd>> : s \in Announced'} \cup {<<sq[devHead].id, sq[devHead].cmd>>}
    BY <1>5
  <2>2. {<<e.id, e.cmd>> : e \in executing'} =
        {<<e.id, e.cmd>> : e \in executing} \cup {<<sq[devHead].id, sq[devHead].cmd>>}
    BY <1>1
  <2> QED
    BY <1>1, <1>3, <2>1, <2>2 DEF InFlight
<1> QED
  BY <1>3, <1>5, <1>7, <1>8, <1>9, <1>10

\* The device answers a command, under its own id or under a wrong one.
LEMMA CompleteInv ==
    ASSUME Good, MemoryInv', DeviceComplete
    PROVE  /\ RingInv' /\ Load' = Load /\ Shrinks /\ devTail \in Ids \ Unread
           /\ Slot' = Slot /\ Phase' = Phase
           /\ \A s \in Ids : s # devTail => cq'[s] = cq[s]
           /\ \A k \in Issued : answer[k] # "none" => answer'[k] = answer[k]
<1> USE DEF Good, Always, MemoryInv, RingInv, CallerInv
<1>1. PICK e \in executing, st \in DevStatus :
      \E id \in {e.id} \cup BadIds :
        /\ executing' = executing \ {e}
        /\ cq' = [cq EXCEPT ![devTail] =
                     [phase |-> devPhase, id |-> id, cmd |-> e.cmd, st |-> st]]
        /\ answer' = [answer EXCEPT ![e.cmd] = st]
  BY DEF DeviceComplete
<1>2. PICK id \in {e.id} \cup BadIds :
        /\ executing' = executing \ {e}
        /\ cq' = [cq EXCEPT ![devTail] =
                     [phase |-> devPhase, id |-> id, cmd |-> e.cmd, st |-> st]]
        /\ answer' = [answer EXCEPT ![e.cmd] = st]
  BY <1>1
<1>3. /\ UNCHANGED <<hpc, hslot, hphase, cqHead, cqPhase, sq, sqTail, sqPhase,
                     devHead, devSqPhase, announced, lastCmd, td>>
      /\ devTail' = NextSlot(devTail) /\ devPhase' = NextPhase(devTail, devPhase)
  BY DEF DeviceComplete, handlerVars, tdVars
<1>4. Slot' = Slot /\ Phase' = Phase
  BY <1>3, StayAsideHandlers
<1>5. SqStays
  BY <1>2, <1>3 DEF SqStays, Alive
<1>6. Announced' = Announced /\ SqShape'
  BY <1>5, SqSame
<1>7. Cardinality(executing) > 0 /\ IsFiniteSet(executing')
      /\ Cardinality(executing') = Cardinality(executing) - 1
  <2>1. IsFiniteSet(executing) /\ executing # {}
    BY DEF Room
  <2>2. Cardinality(executing) # 0
    BY <2>1, FS_EmptySet
  <2> QED
    BY <1>2, <2>1, <2>2, FS_RemoveElement, LoadType
<1>8. unread < Depth
  BY <1>7, LoadType, DepthType DEF Room, Load, unread
<1>9. DEFINE w == [phase |-> devPhase, id |-> id, cmd |-> e.cmd, st |-> st]
<1>10. w.phase = devPhase /\ w.id = id /\ w.cmd = e.cmd /\ w.st = st
       /\ cq' = [cq EXCEPT ![devTail] = w]
  BY <1>2
<1> HIDE DEF w
<1>11. /\ devTail \in Ids \ Unread
       /\ Unread' = Unread \cup {devTail} /\ unread' = unread + 1
       /\ CqShape'
  BY <1>3, <1>4, <1>8, <1>10, CqWritten
<1>12. cq'[devTail] = w /\ \A s \in Ids : s # devTail => cq'[s] = cq[s]
  BY <1>10, <1>11 DEF TypeOK, RingType
<1>13. Unread \subseteq Ids
  BY UnreadIs
<1>14. Room' /\ Load' = Load
  BY <1>3, <1>7, <1>11, LoadType, DepthType DEF Room, Load, unread
<1>15. e.cmd \in Issued /\ answer[e.cmd] = "none" /\ st # "none"
  BY StatusAssumption DEF Answers
<1>16. answer'[e.cmd] = st /\ \A k \in Cmds : k # e.cmd => answer'[k] = answer[k]
  <2>1. e.cmd \in Cmds
    BY <1>15, BoundsAssumption DEF Issued, TypeOK, GhostType, Cmds, NoCmd
  <2> QED
    BY <1>2, <2>1 DEF TypeOK, GhostType
<1>17. Issued \subseteq Cmds
  BY BoundsAssumption DEF Issued, TypeOK, GhostType, Cmds, NoCmd
<1>18. OnePlace'
  <2>1. \A s, t \in Announced' : sq'[s].cmd = sq'[t].cmd => s = t
    BY <1>3, <1>6 DEF OnePlace
  <2>2. \A f, g \in executing' : f.cmd = g.cmd => f = g
    BY <1>2 DEF OnePlace
  <2>3. \A s \in Announced', f \in executing' : sq'[s].cmd # f.cmd
    BY <1>2, <1>3, <1>6 DEF OnePlace
  <2>4. \A s \in Unread : cq[s].cmd # e.cmd
    BY <1>15, StatusAssumption DEF Answers
  <2>5. \A s, t \in Unread' : cq'[s].cmd = cq'[t].cmd => s = t
    BY <1>10, <1>11, <1>12, <1>13, <2>4 DEF OnePlace
  <2> QED
    BY <2>1, <2>2, <2>3, <2>5 DEF OnePlace
<1>19. Answers'
  <2>1. \A s \in Announced' : sq'[s].cmd \in Issued' /\ answer'[sq'[s].cmd] = "none"
    <3>1. \A s \in Announced : sq[s].cmd # e.cmd
      BY DEF OnePlace
    <3> QED
      BY <1>3, <1>6, <1>16, <1>17, <3>1 DEF Answers, Issued
  <2>2. \A f \in executing' : f.cmd \in Issued' /\ answer'[f.cmd] = "none"
    <3>1. \A f \in executing' : f \in executing /\ f.cmd # e.cmd
      BY <1>2 DEF OnePlace
    <3> QED
      BY <1>3, <1>16, <1>17, <3>1 DEF Answers, Issued
  <2>3. \A s \in Unread' : /\ cq'[s].cmd \in Issued' /\ cq'[s].st \in DevStatus
                           /\ answer'[cq'[s].cmd] = cq'[s].st
    <3>1. cq'[devTail].cmd \in Issued /\ cq'[devTail].st \in DevStatus
          /\ answer'[cq'[devTail].cmd] = cq'[devTail].st
      BY <1>10, <1>12, <1>15, <1>16
    <3>2. \A s \in Unread : cq[s].cmd # e.cmd /\ s # devTail /\ cq[s].cmd \in Cmds
      BY <1>11, <1>15, <1>17, StatusAssumption DEF Answers
    <3>3. \A s \in Unread : answer'[cq[s].cmd] = answer[cq[s].cmd] /\ cq'[s] = cq[s]
      BY <1>12, <1>13, <1>16, <3>2
    <3>4. Issued' = Issued
      BY <1>3 DEF Issued
    <3> QED
      BY <1>11, <3>1, <3>3, <3>4 DEF Answers
  <2> QED
    BY <2>1, <2>2, <2>3 DEF Answers
<1>20. Shrinks
  <2> SUFFICES ASSUME NEW f \in InFlight'
               PROVE  \E g \in InFlight : f[2] = g[2] /\ (f[1] \in Ids => f = g)
    BY DEF Shrinks
  <2>1. CASE f \in InFlight
    BY <2>1
  <2>2. CASE f = <<id, e.cmd>>
    <3>1. <<e.id, e.cmd>> \in InFlight
      BY DEF InFlight
    <3>2. id \in Ids => id = e.id
      BY BadIdsAssumption
    <3> QED
      BY <2>2, <3>1, <3>2
  <2>3. f \in InFlight \/ f = <<id, e.cmd>>
    <3>1. CASE \E s \in Announced' : f = <<sq'[s].id, sq'[s].cmd>>
      BY <1>3, <1>6, <3>1 DEF InFlight
    <3>2. CASE \E x \in executing' : f = <<x.id, x.cmd>>
      BY <1>2, <3>2 DEF InFlight
    <3>3. CASE \E s \in Unread' : f = <<cq'[s].id, cq'[s].cmd>>
      BY <1>10, <1>11, <1>12, <1>13, <3>3 DEF InFlight
    <3> QED
      BY <3>1, <3>2, <3>3 DEF InFlight
  <2> QED
    BY <2>1, <2>2, <2>3
<1>21. \A k \in Issued : answer[k] # "none" => answer'[k] = answer[k]
  BY <1>15, <1>16, <1>17
<1> QED
  BY <1>4, <1>6, <1>11, <1>12, <1>14, <1>18, <1>19, <1>20, <1>21

-----------------------------------------------------------------------------
(***************************************************************************)
(* The numbers of the commands, whether the rings were overrun or not      *)
(***************************************************************************)
LEMMA IssuedType == TypeOK => lastCmd \in Nat /\ Issued \subseteq Cmds
  BY BoundsAssumption DEF TypeOK, GhostType, Cmds, NoCmd, Issued

\* A step that moves neither ring keeps the numbers of its commands.
LEMMA NumbersKept ==
    ASSUME Numbered, UNCHANGED ringStateVars, Alive <=> Alive'
    PROVE  Numbered'
  BY DEF Numbered, ringStateVars, Issued

\* So does every other.
LEMMA NumberedStep == Always /\ MemoryInv' /\ [Next]_vars => Numbered'
<1> SUFFICES ASSUME Always, MemoryInv', [Next]_vars PROVE Numbered'
  OBVIOUS
<1> USE DEF Always
<1>0. RingsStay => Numbered'
  <2>1. RingsStay => UNCHANGED ringStateVars /\ (Alive <=> Alive')
    BY DEF RingsStay, ringStateVars
  <2> QED
    BY <2>1, NumbersKept
<1>1. ASSUME NEW c \in Clients, Submit(c) PROVE Numbered'
  <2>1. /\ lastCmd' = lastCmd + 1 /\ UNCHANGED <<executing, answer, td>>
        /\ sq' = [sq EXCEPT ![sqTail] = [phase |-> sqPhase, id |-> curr_cmd_id, cmd |-> lastCmd + 1]]
    BY <1>1 DEF Submit, tdVars
  <2>2. lastCmd \in Nat /\ Issued' = Issued \cup {lastCmd + 1}
    <3>1. lastCmd \in Nat
      BY IssuedType DEF MemoryInv
    <3> QED
      BY <2>1, <3>1 DEF Issued
  <2>3. \A s \in Ids : sq'[s].cmd \in {sq[s].cmd, lastCmd + 1}
    BY <2>1 DEF MemoryInv, TypeOK, RingType
  <2>4. Alive'
    BY <1>1, <2>1 DEF Submit, MemoryInv, LifeInv, TypeOK, TdType, TdPc, Alive
  <2>5. \A k \in Cmds : k > lastCmd' => answer'[k] = "none"
    BY <2>1, <2>2 DEF Numbered, Cmds
  <2> QED
    BY <2>1, <2>2, <2>3, <2>4, <2>5 DEF Numbered
<1>2. CASE ResetDevice
  <2>1. UNCHANGED <<sq, answer, lastCmd>> /\ announced' = 0 /\ executing' = {}
    BY <1>2 DEF ResetDevice, ringVars, ghostVars
  <2> QED
    BY <2>1 DEF Numbered, Issued
<1>3. CASE AdminInit
  <2>1. /\ sq' = [i \in Ids |-> NoSqEntry] /\ td' = "init"
        /\ UNCHANGED <<answer, lastCmd, executing>>
    BY <1>3 DEF AdminInit, StepTd
  <2> QED
    BY <2>1 DEF Numbered, NoSqEntry, Issued, Alive
<1>4. CASE DeviceFetch
  <2>1. /\ UNCHANGED <<sq, answer, lastCmd, td>> /\ announced # 0
        /\ executing' = executing \cup {sq[devHead]} /\ devHead \in Ids
    BY <1>4 DEF DeviceFetch, ringVars, ghostVars, tdVars, MemoryInv, TypeOK, DevType
  <2> QED
    BY <2>1 DEF Numbered, Issued, Alive
<1>5. CASE DeviceComplete
  <2>1. PICK e \in executing, st \in DevStatus :
            executing' = executing \ {e} /\ answer' = [answer EXCEPT ![e.cmd] = st]
    BY <1>5 DEF DeviceComplete
  <2>2. UNCHANGED <<sq, lastCmd, td>>
    BY <1>5 DEF DeviceComplete, tdVars
  <2>3. e.cmd \in Issued \cup {NoCmd} /\ Alive
    BY <2>1 DEF Numbered
  <2>4. lastCmd \in Nat
    BY IssuedType DEF MemoryInv
  <2>5. \A k \in Cmds : k > lastCmd => k # e.cmd
    BY <2>3, <2>4 DEF Issued, NoCmd, Cmds
  <2>6. \A k \in Cmds : k > lastCmd' => answer'[k] = "none"
    BY <2>1, <2>2, <2>5 DEF Numbered, MemoryInv, TypeOK, GhostType
  <2> QED
    BY <2>1, <2>2, <2>3, <2>6 DEF Numbered, Issued, Alive
<1>6. ASSUME NEW x \in Handlers, Took(x) PROVE Numbered'
  BY <1>6, TookMoves, NumbersKept
<1>7. CASE UNCHANGED vars
  <2>1. UNCHANGED ringStateVars /\ (Alive <=> Alive')
    BY <1>7 DEF vars, ringStateVars, ringVars, devVars, ghostVars, tdVars, Alive
  <2> QED
    BY <2>1, NumbersKept
<1>8. ASSUME NEW c \in Clients, Issue(c) PROVE Numbered'
  BY <1>0, <1>1, <1>8, CallerStays
<1>9. ASSUME NEW c \in Clients, Wait(c) PROVE Numbered'
  <2>1. CASE TakeOwnership(c)
    BY <1>0, <2>1, ScanStays
  <2>2. CASE ~TakeOwnership(c)
    BY <1>0, <1>9, <2>2, CallerStays DEF Wait
  <2> QED
    BY <2>1, <2>2
<1>10. ASSUME NEW x \in Handlers, Handle(x) PROVE Numbered'
  <2>1. CASE FindContext(x) \/ CopyResponse(x) \/ Wake(x) \/ FinishScan(x)
    BY <1>0, <2>1, ScanStays
  <2> QED
    BY <1>6, <1>10, <2>1 DEF Handle, Took
<1>11. CASE Interrupt
  BY <1>0, <1>11, ScanStays
<1>12. CASE Close \/ FreeIrq \/ AbortOne \/ Destroy \/ PollFirst \/ RequestIrq \/ InterruptsOn
  BY <1>0, <1>12, TearDownStays
<1> QED
  BY <1>2, <1>3, <1>4, <1>5, <1>7, <1>8, <1>9, <1>10, <1>11, <1>12 DEF Next, TearDown, BringUp

-----------------------------------------------------------------------------
(***************************************************************************)
(* The callers, whether the rings were overrun or not                      *)
(***************************************************************************)
WaitPc == ClientPc \ {"idle", "submit", "release", "decrement", "returned"}

AtPc ==
    \A c \in Clients : /\ Holds(c) <=> pc[c] \in WaitPc \cup {"release"}
                       /\ Waiting(c) <=> pc[c] \in WaitPc /\ status[ctx[c]] # "COMPLETED"

\* The positions of a caller that owns, or waits on, a context.
LEMMA WaitPcHolds == TypeOK => AtPc
  BY DEF AtPc, TypeOK, ClientType, ClientPc, WaitPc, Holds, Waiting

\* Both, before and after a step.
LEMMA WaitPcFacts ==
    ASSUME TypeOK, TypeOK'
    PROVE  /\ \A c \in Clients : /\ Holds(c) <=> pc[c] \in WaitPc \cup {"release"}
                                 /\ Waiting(c) <=> pc[c] \in WaitPc /\ status[ctx[c]] # "COMPLETED"
           /\ \A c \in Clients : /\ Holds(c)' <=> pc'[c] \in WaitPc \cup {"release"}
                                 /\ Waiting(c)' <=> pc'[c] \in WaitPc /\ status'[ctx'[c]] # "COMPLETED"
<1>1. AtPc'
  BY WaitPcHolds, PTL
<1>2. AtPc
  BY WaitPcHolds
<1> QED
  BY <1>1, <1>2 DEF AtPc

\* Nobody starts to hold a context, and those who do keep it and their call.
HoldsKept == \A c \in Clients : Holds(c)' => Holds(c) /\ ctx'[c] = ctx[c] /\ call'[c] = call[c]

\* A step in which no call begins, ends or gets its result.
Calm ==
    /\ UNCHANGED <<call, ctx, ret, user_cqe, occupied, gaveUp, exposed, overrun, lastCmd>>
    /\ \A c \in Clients : call[c] = NoCmd => buf'[c] = buf[c]
    /\ running_state' => running_state
    /\ \A i \in Ids : \/ status'[i] \in {status[i], "COMPLETED"}
                      \/ status'[i] = "ABORTED" /\ ~running_state
    /\ \A c \in Clients :
          \/ pc'[c] = pc[c]
          \/ /\ pc[c] \in WaitPc /\ pc'[c] \in WaitPc \ {"closeAq"}
             /\ pc'[c] \in {"pollAborted", "intrAborted"} => status[ctx[c]] = "ABORTED"
          \/ pc[c] = "decrement" /\ pc'[c] = "returned"

\* A calm step keeps what is said of the callers.
LEMMA CalmCalls ==
    ASSUME Always, MemoryInv', Calm
    PROVE  CallInv' /\ HoldsKept /\ Issued' = Issued /\ (Admitting' => Admitting)
           /\ \A c \in Clients : Holds(c) <=> Holds(c)'
<1> USE DEF Always, MemoryInv, CallInv
<1>1. \A c \in Clients : Holds(c) <=> Holds(c)'
  <2> SUFFICES ASSUME NEW c \in Clients PROVE Holds(c) <=> Holds(c)'
    OBVIOUS
  <2>1. pc[c] \in WaitPc \cup {"release"} <=> pc'[c] \in WaitPc \cup {"release"}
    BY DEF Calm, WaitPc
  <2> QED
    BY <2>1, WaitPcFacts
<1>2. HoldsKept
  BY <1>1 DEF Calm, HoldsKept
<1>3. Issued' = Issued
  BY DEF Calm, Issued
<1>4. \A c \in Clients : /\ pc'[c] \in {"idle", "submit"} => pc[c] = pc'[c]
                         /\ pc'[c] \in {"release", "decrement", "closeAq"} => pc[c] = pc'[c]
  BY DEF Calm, WaitPc
<1>5. Admitting' => Admitting
  BY <1>4 DEF Calm, Admitting
<1>6. Calling'
  <2>1. \A c \in Clients : /\ call'[c] \in Issued' \cup {NoCmd}
                           /\ pc'[c] \in {"idle", "submit"} => call'[c] = NoCmd
                           /\ Holds(c)' \/ pc'[c] = "decrement" => call'[c] # NoCmd
                           /\ call'[c] = NoCmd => buf'[c] = NoCmd
                           /\ Holds(c)' => user_cqe'[ctx'[c]] = call'[c]
    BY <1>1, <1>3, <1>4 DEF Calling, Calm
  <2>2. \A c \in Clients : /\ pc'[c] \in {"release", "decrement"} => ret'[c] \in Outcomes
                           /\ pc'[c] = "closeAq" => ret'[c] = "ETIME"
    BY <1>4 DEF Calling, Calm
  <2>3. \A c, d \in Clients : call'[c] = call'[d] /\ call'[c] # NoCmd => c = d
    BY DEF Calling, Calm
  <2>4. \A i \in Ids : ~occupied'[i] => user_cqe'[i] = NoCmd
    BY DEF Calling, Calm
  <2>5. gaveUp' \subseteq Issued' /\ exposed' \subseteq Issued' \cup {NoCmd}
    BY <1>3 DEF Calling, Calm
  <2> QED
    BY <2>1, <2>2, <2>3, <2>4, <2>5 DEF Calling
<1>7. Aborts'
  <2> SUFFICES ASSUME NEW c \in Clients
               PROVE  /\ pc'[c] \in {"pollAborted", "intrAborted"} => ~running_state'
                      /\ Holds(c)' /\ status'[ctx'[c]] = "ABORTED" => ~running_state'
    BY DEF Aborts
  <2>1. ctx[c] \in Ids
    BY DEF TypeOK, ClientType
  <2>2. pc'[c] \in {"pollAborted", "intrAborted"} => ~running_state
    <3>1. pc'[c] \in {"pollAborted", "intrAborted"}
          => pc'[c] = pc[c] \/ (Holds(c) /\ status[ctx[c]] = "ABORTED")
      BY WaitPcFacts DEF Calm
    <3> QED
      BY <3>1 DEF Aborts
  <2>3. Holds(c)' /\ status'[ctx'[c]] = "ABORTED" => ~running_state
    BY <1>1, <2>1 DEF Aborts, Calm
  <2> QED
    BY <2>2, <2>3 DEF Calm
<1>8. Admission'
  BY <1>1, <1>5 DEF Admission, Calm
<1> QED
  BY <1>1, <1>2, <1>3, <1>5, <1>6, <1>7, <1>8

\* No handler gets to work on a completion or leaves one for another.
HandlersStay ==
    \A x \in Handlers : hpc'[x] \in {"copy", "post"} =>
        /\ hpc'[x] = hpc[x] /\ hslot'[x] = hslot[x] /\ hphase'[x] = hphase[x]
        /\ hctx'[x] = hctx[x] /\ hdst'[x] = hdst[x]

\* A caller that waits, and its last step.
LEMMA CallerCalm ==
    ASSUME Always, MemoryInv', NEW c \in Clients,
           \/ ChooseWait(c) \/ LockToPoll(c) \/ TakeOwnership(c) \/ Woken(c) \/ WaitExpired(c)
           \/ (PollCheck(c) \/ IntrCheck(c)) /\ status[ctx[c]] # "COMPLETED"
           \/ Decrement(c)
    PROVE  Calm /\ HandlersStay /\ UNCHANGED <<buf, status, comp_status, stray>>
<1> USE DEF adminVars, ctxVars, handlerVars, clientVars, ghostVars, Goto, Move
<1>1. /\ UNCHANGED <<call, ctx, ret, buf, status, comp_status, user_cqe, occupied, gaveUp, stray,
                     exposed, overrun, lastCmd>>
      /\ running_state' = running_state
  <2>1. CASE ChooseWait(c) \/ LockToPoll(c) \/ TakeOwnership(c) \/ Decrement(c)
    BY <2>1 DEF ChooseWait, LockToPoll, TakeOwnership, Decrement
  <2>2. CASE Woken(c) \/ WaitExpired(c)
    BY <2>2 DEF Woken, WaitExpired
  <2>3. CASE (PollCheck(c) \/ IntrCheck(c)) /\ status[ctx[c]] # "COMPLETED"
    BY <2>3 DEF PollCheck, IntrCheck
  <2> QED
    BY <2>1, <2>2, <2>3
<1>2. \A d \in Clients :
          \/ pc'[d] = pc[d]
          \/ /\ pc[d] \in WaitPc /\ pc'[d] \in WaitPc \ {"closeAq"}
             /\ pc'[d] \in {"pollAborted", "intrAborted"} => status[ctx[d]] = "ABORTED"
          \/ pc[d] = "decrement" /\ pc'[d] = "returned"
  <2>0. pc \in [Clients -> ClientPc]
    BY DEF Always, MemoryInv, TypeOK, ClientType
  <2>1. CASE ChooseWait(c) \/ LockToPoll(c) \/ TakeOwnership(c) \/ Decrement(c)
    BY <2>0, <2>1 DEF ChooseWait, LockToPoll, TakeOwnership, Decrement, WaitPc, ClientPc
  <2>2. CASE Woken(c) \/ WaitExpired(c)
    BY <2>0, <2>2 DEF Woken, WaitExpired, WaitPc, ClientPc
  <2>3. CASE (PollCheck(c) \/ IntrCheck(c)) /\ status[ctx[c]] # "COMPLETED"
    BY <2>0, <2>3 DEF PollCheck, IntrCheck, WaitPc, ClientPc
  <2> QED
    BY <2>1, <2>2, <2>3
<1>3. HandlersStay
  <2>0. hpc \in [Handlers -> HandlerPc] /\ hslot \in [Handlers -> Ids]
        /\ hphase \in [Handlers -> BOOLEAN] /\ c \in Handlers
    BY DEF Always, MemoryInv, TypeOK, HandlerType, Handlers
  <2>1. CASE LockToPoll(c) \/ TakeOwnership(c)
    BY <2>0, <2>1 DEF LockToPoll, TakeOwnership, StartScan, HandlersStay
  <2>2. CASE ChooseWait(c) \/ Decrement(c) \/ Woken(c) \/ WaitExpired(c)
    BY <2>2 DEF ChooseWait, Decrement, Woken, WaitExpired, HandlersStay
  <2>3. CASE (PollCheck(c) \/ IntrCheck(c))
    BY <2>3 DEF PollCheck, IntrCheck, HandlersStay
  <2> QED
    BY <2>1, <2>2, <2>3
<1> QED
  BY <1>1, <1>2, <1>3 DEF Calm

\* A handler between two completions.
LEMMA HandlerCalm ==
    ASSUME Always, MemoryInv',
           \/ Interrupt
           \/ \E x \in Handlers : Wake(x) \/ FinishScan(x) \/ BadCompletion(x)
    PROVE  Calm /\ HandlersStay /\ UNCHANGED <<buf, status, comp_status, stray>>
<1> USE DEF adminVars, ctxVars, handlerVars, clientVars, ghostVars, Goto
<1>1. /\ UNCHANGED <<call, ctx, ret, buf, status, comp_status, user_cqe, occupied, gaveUp, stray,
                     exposed, overrun, lastCmd>>
      /\ running_state' => running_state
  BY DEF Interrupt, Wake, FinishScan, BadCompletion
<1>2. \A d \in Clients :
          \/ pc'[d] = pc[d]
          \/ /\ pc[d] \in WaitPc /\ pc'[d] \in WaitPc \ {"closeAq"}
             /\ pc'[d] \in {"pollAborted", "intrAborted"} => status[ctx[d]] = "ABORTED"
  <2>0. pc \in [Clients -> ClientPc]
    BY DEF Always, MemoryInv, TypeOK, ClientType
  <2>1. CASE Interrupt \/ \E x \in Handlers : Wake(x) \/ BadCompletion(x)
    BY <2>1 DEF Interrupt, Wake, BadCompletion
  <2>2. ASSUME NEW x \in Handlers, FinishScan(x), x \in Clients
        PROVE  pc[x] \in {"pollScan", "intrScan"}
    <3>1. InScan(x)
      BY <2>2 DEF FinishScan, Always, MemoryInv, LockInv
    <3> QED
      BY <3>1 DEF InScan
  <2>3. ASSUME NEW x \in Handlers, FinishScan(x)
        PROVE  \A d \in Clients : \/ pc'[d] = pc[d]
                                  \/ /\ pc[d] \in WaitPc
                                     /\ pc'[d] \in {"pollCheck", "intrRecheck"}
    BY <2>0, <2>2, <2>3 DEF FinishScan, WaitPc, ClientPc
  <2> QED
    BY <2>1, <2>3 DEF WaitPc, ClientPc
<1>3. HandlersStay
  <2>0. hpc \in [Handlers -> HandlerPc] /\ hslot \in [Handlers -> Ids]
        /\ hphase \in [Handlers -> BOOLEAN] /\ Isr \in Handlers
        /\ hctx \in [Handlers -> Ids] /\ hdst \in [Handlers -> Cmds \cup {NoCmd}]
    BY DEF Always, MemoryInv, TypeOK, HandlerType, Handlers
  <2>1. CASE Interrupt
    BY <2>0, <2>1 DEF Interrupt, StartScan, HandlersStay
  <2>2. ASSUME NEW x \in Handlers, Wake(x) PROVE HandlersStay
    BY <2>0, <2>2 DEF Wake, HandlersStay
  <2>3. ASSUME NEW x \in Handlers, FinishScan(x) PROVE HandlersStay
    BY <2>0, <2>3 DEF FinishScan, HandlersStay
  <2>4. ASSUME NEW x \in Handlers, BadCompletion(x) PROVE HandlersStay
    BY <2>0, <2>4 DEF BadCompletion, Advance, HandlersStay
  <2> QED
    BY <2>1, <2>2, <2>3, <2>4
<1> QED
  BY <1>1, <1>2, <1>3 DEF Calm

\* A handler at work on a completion.
LEMMA WorkCalm ==
    ASSUME Always, MemoryInv', NEW x \in Handlers,
           FindContext(x) \/ CopyResponse(x) \/ PostStatus(x)
    PROVE  Calm /\ UNCHANGED pc
<1> USE DEF adminVars, ctxVars, handlerVars, clientVars, ghostVars
<1>1. /\ UNCHANGED <<pc, call, ctx, ret, user_cqe, occupied, gaveUp, exposed, overrun, lastCmd>>
      /\ running_state' = running_state
      /\ \A c \in Clients : call[c] = NoCmd => buf'[c] = buf[c]
  BY DEF FindContext, CopyResponse, PostStatus
<1>2. \A i \in Ids : status'[i] \in {status[i], "COMPLETED"}
  BY DEF FindContext, CopyResponse, PostStatus, Always, MemoryInv, TypeOK, CtxType
<1> QED
  BY <1>1, <1>2 DEF Calm

\* Teardown and bring-up, but for ena_com_admin_init(); and the device.
LEMMA OthersCalm ==
    ASSUME Always, MemoryInv',
           \/ Close \/ TearDown \/ PollFirst \/ RequestIrq \/ InterruptsOn
           \/ DeviceFetch \/ DeviceComplete \/ UNCHANGED vars
    PROVE  /\ Calm /\ HandlersStay
           /\ UNCHANGED <<pc, buf, comp_status, stray, hpc, hslot>>
           /\ \A i \in Ids : status'[i] = status[i] \/ (status'[i] = "ABORTED" /\ ~running_state)
<1> USE DEF adminVars, ctxVars, handlerVars, clientVars, tdVars, devVars, ghostVars, StepTd
<1>1. /\ UNCHANGED <<pc, call, ctx, ret, buf, comp_status, user_cqe, occupied, gaveUp, stray,
                     exposed, overrun, lastCmd>>
      /\ UNCHANGED <<hpc, hslot, hphase, hctx, hdst>>
      /\ running_state' => running_state
  <2>1. CASE Close \/ TearDown
    BY <2>1 DEF Close, TearDown, ResetDevice, FreeIrq, AbortOne, Destroy
  <2>2. CASE PollFirst \/ RequestIrq \/ InterruptsOn
    BY <2>2 DEF PollFirst, RequestIrq, InterruptsOn
  <2>3. CASE DeviceFetch \/ DeviceComplete \/ UNCHANGED vars
    BY <2>3 DEF DeviceFetch, DeviceComplete, vars
  <2> QED
    BY <2>1, <2>2, <2>3
<1>2. \A i \in Ids : status'[i] = status[i] \/ (status'[i] = "ABORTED" /\ ~running_state)
  <2>1. CASE AbortOne
    BY <2>1 DEF AbortOne, Always, MemoryInv, LifeInv, TypeOK, CtxType, TdType
  <2>2. CASE ~AbortOne
    <3>1. status' = status
      BY <2>2 DEF Close, TearDown, ResetDevice, FreeIrq, Destroy, PollFirst, RequestIrq,
         InterruptsOn, DeviceFetch, DeviceComplete, vars
    <3> QED
      BY <3>1
  <2> QED
    BY <2>1, <2>2
<1>3. HandlersStay
  BY <1>1 DEF HandlersStay
<1> QED
  BY <1>1, <1>2, <1>3 DEF Calm

\* A step in which caller c begins or is refused, gets its result, releases its
\* context or comes back.
Passes(c) ==
    /\ RingsStay
    /\ UNCHANGED <<hpc, hslot, hphase, hctx, hdst, status, comp_status, stray, exposed, overrun>>
    /\ \A d \in Clients \ {c} : /\ pc'[d] = pc[d] /\ call'[d] = call[d] /\ ctx'[d] = ctx[d]
                                /\ ret'[d] = ret[d] /\ buf'[d] = buf[d]
    /\ Holds(c)' => Holds(c) /\ ctx'[c] = ctx[c] /\ call'[c] = call[c] /\ buf'[c] = buf[c]
    /\ Waiting(c) => Waiting(c)' \/ call[c] \in gaveUp'
    /\ gaveUp \subseteq gaveUp' /\ gaveUp' \subseteq gaveUp \cup {call[c]}
    /\ gaveUp' # gaveUp => call[c] # NoCmd
    /\ running_state' => running_state /\ gaveUp' = gaveUp /\ (Waiting(c) => Waiting(c)')
    /\ pc'[c] \notin {"pollAborted", "intrAborted"}
    /\ pc'[c] = "submit" => running_state
    /\ \/ UNCHANGED <<user_cqe, occupied>>
       \/ /\ pc[c] = "release" /\ pc'[c] = "decrement"
          /\ user_cqe' = [user_cqe EXCEPT ![ctx[c]] = NoCmd]
          /\ occupied' = [occupied EXCEPT ![ctx[c]] = FALSE]
    /\ call'[c] \in {call[c], NoCmd}
    /\ pc'[c] \in {"idle", "submit"} => call'[c] = NoCmd
    /\ Holds(c)' \/ pc'[c] = "decrement" => call'[c] # NoCmd
    /\ call'[c] = NoCmd => buf'[c] = NoCmd
    /\ pc'[c] \in {"release", "decrement"} => ret'[c] \in Outcomes
    /\ pc'[c] = "closeAq" => ret'[c] = "ETIME"

\* Such a step keeps what is said of the callers.
LEMMA PassCalls ==
    ASSUME Always, MemoryInv', NEW c \in Clients, Passes(c)
    PROVE  CallInv' /\ HoldsKept /\ Issued' = Issued /\ (Admitting' => Admitting)
<1> USE DEF Always, MemoryInv, CallInv
<1>1. Issued' = Issued
  BY DEF Passes, RingsStay, Issued
<1>2. \A d \in Clients \ {c} : Holds(d)' <=> Holds(d)
  BY DEF Passes, Holds
<1>3. HoldsKept
  BY <1>2 DEF Passes, HoldsKept
<1>4. Admitting' => Admitting
  BY DEF Passes, Admitting
<1>5. Calling'
  <2>1. \A d \in Clients : call'[d] \in Issued' \cup {NoCmd}
    BY <1>1 DEF Passes, Calling
  <2>2. \A d \in Clients : pc'[d] \in {"idle", "submit"} => call'[d] = NoCmd
    BY DEF Passes, Calling
  <2>3. \A d \in Clients : Holds(d)' \/ pc'[d] = "decrement" => call'[d] # NoCmd
    BY <1>2 DEF Passes, Calling
  <2>4. \A d \in Clients : call'[d] = NoCmd => buf'[d] = NoCmd
    BY DEF Passes, Calling
  <2>5. \A d \in Clients : Holds(d)' => user_cqe'[ctx'[d]] = call'[d]
    <3> SUFFICES ASSUME NEW d \in Clients, Holds(d)' PROVE user_cqe'[ctx'[d]] = call'[d]
      OBVIOUS
    <3>1. Holds(d) /\ ctx'[d] = ctx[d] /\ call'[d] = call[d] /\ user_cqe[ctx[d]] = call[d]
      BY <1>3 DEF HoldsKept, Calling
    <3>2. CASE UNCHANGED <<user_cqe, occupied>>
      BY <3>1, <3>2
    <3>3. CASE /\ pc[c] = "release" /\ pc'[c] = "decrement"
               /\ user_cqe' = [user_cqe EXCEPT ![ctx[c]] = NoCmd]
      <4>1. d # c /\ Holds(c)
        BY <3>3 DEF Holds
      <4>2. ctx[d] # ctx[c] /\ ctx[d] \in Ids
        BY <3>1, <4>1 DEF OwnerInv, TypeOK, ClientType
      <4> QED
        BY <3>1, <3>3, <4>2 DEF TypeOK, CtxType
    <3> QED
      BY <3>2, <3>3 DEF Passes
  <2>6. \A d, e \in Clients : call'[d] = call'[e] /\ call'[d] # NoCmd => d = e
    BY DEF Passes, Calling
  <2>7. \A i \in Ids : ~occupied'[i] => user_cqe'[i] = NoCmd
    <3>1. CASE UNCHANGED <<user_cqe, occupied>>
      BY <3>1 DEF Calling
    <3>2. CASE /\ user_cqe' = [user_cqe EXCEPT ![ctx[c]] = NoCmd]
               /\ occupied' = [occupied EXCEPT ![ctx[c]] = FALSE]
      BY <3>2 DEF Calling, TypeOK, CtxType
    <3> QED
      BY <3>1, <3>2 DEF Passes
  <2>8. gaveUp' \subseteq Issued' /\ exposed' \subseteq Issued' \cup {NoCmd}
    BY <1>1 DEF Passes, Calling
  <2>9. \A d \in Clients : /\ pc'[d] \in {"release", "decrement"} => ret'[d] \in Outcomes
                           /\ pc'[d] = "closeAq" => ret'[d] = "ETIME"
    BY DEF Passes, Calling
  <2> QED
    BY <2>1, <2>2, <2>3, <2>4, <2>5, <2>6, <2>7, <2>8, <2>9 DEF Calling
<1>6. Aborts'
  <2>1. \A d \in Clients : pc'[d] \in {"pollAborted", "intrAborted"} => ~running_state'
    BY DEF Passes, Aborts
  <2>2. \A d \in Clients : Holds(d)' /\ status'[ctx'[d]] = "ABORTED" => ~running_state'
    BY <1>3 DEF Passes, HoldsKept, Aborts
  <2> QED
    BY <2>1, <2>2 DEF Aborts
<1>7. Admission'
  BY <1>3, <1>4 DEF Passes, Admission, HoldsKept
<1> QED
  BY <1>1, <1>3, <1>4, <1>5, <1>6, <1>7

\* The submission is refused, or goes on with q_lock held.
LEMMA EnterPasses ==
    ASSUME Always, MemoryInv', NEW c \in Clients, Issue(c), ~Submit(c)
    PROVE  Passes(c)
<1> USE DEF Always, MemoryInv, CallInv, handlerVars, ctxVars, ghostVars
<1>1. RingsStay
  BY CallerStays
<1>2. PICK there \in {"returned", "submit"} :
          /\ pc[c] \in {"idle", "submit"} /\ pc' = [pc EXCEPT ![c] = there]
          /\ there = "submit" => running_state
          /\ running_state' => running_state
          /\ UNCHANGED <<call, ctx, buf, hpc, hslot, hphase, hctx, hdst, status, comp_status,
                         stray, exposed, overrun, gaveUp, user_cqe, occupied>>
          /\ \E e : ret' = [ret EXCEPT ![c] = e]
  <2>1. CASE LockToSubmit(c)
    <3>1. ret' = [ret EXCEPT ![c] = ret[c]]
      BY <2>1 DEF LockToSubmit, TypeOK, ClientType
    <3> QED
      BY <2>1, <3>1 DEF LockToSubmit, Goto
  <2>2. CASE ~LockToSubmit(c)
    BY <2>2 DEF Issue, RefuseNotRunning, RefuseFull, RefuseOccupied, Refuse, Goto
  <2> QED
    BY <2>1, <2>2
<1>3. call[c] = NoCmd /\ buf[c] = NoCmd /\ ~Holds(c) /\ ~Waiting(c)
  BY <1>2 DEF Calling, Holds, Waiting
<1>4. pc'[c] = there /\ ~Holds(c)'
  BY <1>2 DEF TypeOK, ClientType, Holds
<1>5. \A d \in Clients \ {c} : pc'[d] = pc[d] /\ ret'[d] = ret[d]
  BY <1>2 DEF TypeOK, ClientType
<1> QED
  BY <1>1, <1>2, <1>3, <1>4, <1>5 DEF Passes

\* The caller finds its command completed and takes the status.
LEMMA AnswerPasses ==
    ASSUME Always, MemoryInv', NEW c \in Clients,
           \/ (PollCheck(c) \/ IntrCheck(c)) /\ status[ctx[c]] = "COMPLETED"
           \/ MissingInterruptPolls(c)
    PROVE  /\ Passes(c) /\ pc[c] \in WaitPc /\ status[ctx[c]] = "COMPLETED"
           /\ call'[c] = call[c] /\ buf'[c] = buf[c] /\ ret'[c] = Errno(comp_status[ctx[c]])
<1> USE DEF Always, MemoryInv, CallInv, handlerVars, ctxVars, ghostVars, adminVars
<1>1. RingsStay
  BY CallerStays
<1>2. /\ pc[c] \in WaitPc /\ pc' = [pc EXCEPT ![c] = "release"] /\ status[ctx[c]] = "COMPLETED"
      /\ ret' = [ret EXCEPT ![c] = Errno(comp_status[ctx[c]])]
      /\ UNCHANGED <<call, ctx, buf, hpc, hslot, hphase, hctx, hdst, status, comp_status,
                     stray, exposed, overrun, gaveUp, user_cqe, occupied, running_state>>
  BY DEF PollCheck, IntrCheck, MissingInterruptPolls, Move, Goto, WaitPc, ClientPc
<1>3. Holds(c) /\ ~Waiting(c) /\ call[c] # NoCmd
  BY <1>2, WaitPcFacts DEF Waiting, Calling
<1>4. pc'[c] = "release" /\ ret'[c] = Errno(comp_status[ctx[c]])
  BY <1>2 DEF TypeOK, ClientType
<1>5. ret'[c] \in Outcomes
  BY <1>4 DEF Errno, Outcomes
<1>6. \A d \in Clients \ {c} : pc'[d] = pc[d] /\ ret'[d] = ret[d]
  BY <1>2 DEF TypeOK, ClientType
<1> QED
  BY <1>1, <1>2, <1>3, <1>4, <1>5, <1>6 DEF Passes

\* The caller gives up, and the queue is closed, or has been.
LEMMA GiveUpPasses ==
    ASSUME Always, MemoryInv', NEW c \in Clients, PollExpired(c) \/ Aborted(c) \/ CloseAq(c)
    PROVE  Passes(c) /\ call'[c] = call[c] /\ ret'[c] \in DriverErrors
<1> USE DEF Always, MemoryInv, CallInv, handlerVars, ctxVars, ghostVars, adminVars
<1>1. RingsStay
  BY CallerStays
<1>2. /\ pc[c] \in WaitPc /\ pc' = [pc EXCEPT ![c] = "release"]
      /\ \E e \in DriverErrors : ret' = [ret EXCEPT ![c] = e]
      /\ gaveUp' = gaveUp \cup {call[c]}
      /\ UNCHANGED <<call, ctx, buf, hpc, hslot, hphase, hctx, hdst, status, comp_status,
                     stray, exposed, overrun, user_cqe, occupied>>
  <2>1. CASE PollExpired(c) \/ Aborted(c)
    BY <2>1 DEF PollExpired, Aborted, Move, Goto, WaitPc, ClientPc, DriverErrors
  <2>2. CASE CloseAq(c)
    <3>1. ret' = [ret EXCEPT ![c] = "ETIME"]
      BY <2>2 DEF CloseAq, Move, Calling, TypeOK, ClientType
    <3> QED
      BY <2>2, <3>1 DEF CloseAq, Move, Goto, WaitPc, ClientPc, DriverErrors
  <2> QED
    BY <2>1, <2>2
<1>3. Holds(c) /\ call[c] # NoCmd
  BY <1>2, WaitPcFacts DEF Calling
<1>4. ~running_state'
  BY DEF PollExpired, Aborted, CloseAq, Move, Aborts
<1>5. pc'[c] = "release" /\ ret'[c] \in DriverErrors
  BY <1>2 DEF TypeOK, ClientType
<1>6. \A d \in Clients \ {c} : pc'[d] = pc[d] /\ ret'[d] = ret[d]
  BY <1>2 DEF TypeOK, ClientType
<1>7. ret'[c] \in Outcomes
  BY <1>5 DEF Outcomes
<1> QED
  BY <1>1, <1>2, <1>3, <1>4, <1>5, <1>6, <1>7 DEF Passes

\* The caller is about to give up: its command did not complete, or not in time.
LEMMA TimeoutPasses ==
    ASSUME Always, MemoryInv', NEW c \in Clients, NoCompletion(c) \/ MissingInterruptFatal(c)
    PROVE  Passes(c) /\ pc'[c] = "closeAq"
<1> USE DEF Always, MemoryInv, CallInv, handlerVars, ctxVars, ghostVars, adminVars
<1>1. RingsStay
  BY CallerStays
<1>2. /\ pc[c] = "intrRecheck" /\ pc' = [pc EXCEPT ![c] = "closeAq"]
      /\ ret' = [ret EXCEPT ![c] = "ETIME"]
      /\ UNCHANGED <<call, ctx, buf, hpc, hslot, hphase, hctx, hdst, status, comp_status, gaveUp,
                     stray, exposed, overrun, user_cqe, occupied, running_state>>
  BY DEF NoCompletion, MissingInterruptFatal, Move, Goto
<1>3. Holds(c) /\ call[c] # NoCmd
  BY <1>2 DEF Calling, Holds
<1>4. pc'[c] = "closeAq" /\ ret'[c] = "ETIME"
  BY <1>2 DEF TypeOK, ClientType
<1>5. \A d \in Clients \ {c} : pc'[d] = pc[d] /\ ret'[d] = ret[d]
  BY <1>2 DEF TypeOK, ClientType
<1>6. Holds(c)' /\ (Waiting(c) => Waiting(c)')
  BY <1>2, <1>4 DEF Holds, Waiting
<1> QED
  BY <1>1, <1>2, <1>3, <1>4, <1>5, <1>6 DEF Passes

\* The caller releases its context.
LEMMA ReleasePasses ==
    ASSUME Always, MemoryInv', NEW c \in Clients, Release(c)
    PROVE  /\ Passes(c) /\ pc[c] = "release"
           /\ call'[c] = call[c] /\ buf'[c] = buf[c] /\ ret'[c] = ret[c]
<1> USE DEF Always, MemoryInv, CallInv, handlerVars, ctxVars, ghostVars, adminVars
<1>1. RingsStay
  BY CallerStays
<1>2. /\ pc[c] = "release" /\ pc' = [pc EXCEPT ![c] = "decrement"]
      /\ user_cqe' = [user_cqe EXCEPT ![ctx[c]] = NoCmd]
      /\ occupied' = [occupied EXCEPT ![ctx[c]] = FALSE]
      /\ UNCHANGED <<call, ctx, ret, buf, hpc, hslot, hphase, hctx, hdst, status, comp_status,
                     stray, exposed, overrun, gaveUp, running_state>>
  BY DEF Release, Goto
<1>3. Holds(c) /\ ~Waiting(c) /\ call[c] # NoCmd /\ ret[c] \in Outcomes
  BY <1>2 DEF Calling, Holds, Waiting
<1>4. pc'[c] = "decrement" /\ ~Holds(c)'
  BY <1>2 DEF TypeOK, ClientType, Holds
<1>5. \A d \in Clients \ {c} : pc'[d] = pc[d]
  BY <1>2 DEF TypeOK, ClientType
<1> QED
  BY <1>1, <1>2, <1>3, <1>4, <1>5 DEF Passes

\* A return is a passing step: by then the caller owns no context.
LEMMA ReturnPasses ==
    ASSUME Always, MemoryInv', NEW c \in Clients, Return(c)
    PROVE  Passes(c) /\ call'[c] = NoCmd
<1> USE DEF Always, MemoryInv, CallInv, handlerVars, ctxVars, ghostVars, adminVars
<1>1. RingsStay
  BY CallerStays
<1>2. /\ pc[c] = "returned" /\ pc' = [pc EXCEPT ![c] = "idle"]
      /\ call' = [call EXCEPT ![c] = NoCmd] /\ ctx' = [ctx EXCEPT ![c] = 0]
      /\ ret' = [ret EXCEPT ![c] = "none"] /\ buf' = [buf EXCEPT ![c] = NoCmd]
      /\ UNCHANGED <<hpc, hslot, hphase, hctx, hdst, status, comp_status,
                     stray, exposed, overrun, gaveUp, running_state, user_cqe, occupied>>
  BY DEF Return, Goto
<1>3. ~Holds(c) /\ ~Waiting(c)
  BY <1>2 DEF Holds, Waiting
<1>4. pc'[c] = "idle" /\ ~Holds(c)' /\ call'[c] = NoCmd /\ buf'[c] = NoCmd
  BY <1>2 DEF TypeOK, ClientType, Holds
<1>5. \A d \in Clients \ {c} : /\ pc'[d] = pc[d] /\ call'[d] = call[d] /\ ctx'[d] = ctx[d]
                               /\ ret'[d] = ret[d] /\ buf'[d] = buf[d]
  BY <1>2 DEF TypeOK, ClientType
<1> QED
  BY <1>1, <1>2, <1>3, <1>4, <1>5 DEF Passes

\* Caller c submits its command, number k, and takes context id.
Takes(c, id, k) ==
    /\ id \in Ids /\ ~occupied[id]
    /\ k # NoCmd /\ k \notin Issued /\ Issued' = Issued \cup {k}
    /\ pc[c] = "submit" /\ pc'[c] = "submitted" /\ call'[c] = k /\ ctx'[c] = id
    /\ \A d \in Clients \ {c} : /\ pc'[d] = pc[d] /\ call'[d] = call[d] /\ ctx'[d] = ctx[d]
                                /\ pc[d] # "submit"
    /\ user_cqe'[id] = k /\ status'[id] = "SUBMITTED" /\ occupied'[id]
    /\ \A i \in Ids \ {id} : /\ user_cqe'[i] = user_cqe[i] /\ status'[i] = status[i]
                             /\ occupied'[i] = occupied[i]
    /\ UNCHANGED <<running_state, comp_status, ret, buf, hpc, hslot, hphase, hctx, hdst,
                   cq, answer, gaveUp, stray>>

\* It does so before anything is overrun or exposed, and exposes its own if it is late.
Exposes(k) ==
    /\ ~overrun /\ \A d \in Clients : Holds(d) => call[d] \notin exposed
    /\ ~overrun' => exposed' = IF running_state THEN exposed ELSE exposed \cup {k}
    /\ overrun' => ~running_state /\ exposed' = exposed \cup {k} \cup {call[d] : d \in Clients}

\* A submission does both.
LEMMA SubmitTakes ==
    ASSUME Always, MemoryInv', NEW c \in Clients, Submit(c)
    PROVE  Takes(c, curr_cmd_id, lastCmd + 1) /\ Exposes(lastCmd + 1)
<1> USE DEF Always, MemoryInv, CallInv
<1>1. DEFINE id == curr_cmd_id
             k == lastCmd + 1
<1>2. /\ pc[c] = "submit" /\ ~occupied[id] /\ k \in Cmds
      /\ pc' = [pc EXCEPT ![c] = "submitted"]
      /\ call' = [call EXCEPT ![c] = k] /\ ctx' = [ctx EXCEPT ![c] = id]
      /\ occupied' = [occupied EXCEPT ![id] = TRUE]
      /\ status' = [status EXCEPT ![id] = "SUBMITTED"]
      /\ user_cqe' = [user_cqe EXCEPT ![id] = k]
      /\ lastCmd' = k
      /\ UNCHANGED <<running_state, comp_status, ret, buf, hpc, hslot, hphase, hctx, hdst,
                     cq, answer, gaveUp, stray>>
  BY DEF Submit, MayTake, Goto, handlerVars
<1>3. id \in Ids /\ lastCmd \in Nat
  BY IssuedType DEF TypeOK, AdminType
<1>4. k \notin Issued /\ Issued' = Issued \cup {k} /\ k # NoCmd
  BY <1>2, <1>3 DEF Issued, NoCmd
<1>5. Exposes(k)
  <2>1. Admission /\ Admitting
    BY <1>2 DEF Admitting
  <2>2. Expose(k)
    BY DEF Submit
  <2> QED
    BY <2>1, <2>2 DEF Exposes, Expose, Admission
<1>6. \A d \in Clients \ {c} : pc[d] # "submit"
  BY <1>2 DEF LockInv
<1> HIDE DEF id, k
<1>7. /\ pc'[c] = "submitted" /\ call'[c] = k /\ ctx'[c] = id
      /\ \A d \in Clients \ {c} : /\ pc'[d] = pc[d] /\ call'[d] = call[d] /\ ctx'[d] = ctx[d]
      /\ user_cqe'[id] = k /\ status'[id] = "SUBMITTED" /\ occupied'[id]
      /\ \A i \in Ids \ {id} : /\ user_cqe'[i] = user_cqe[i] /\ status'[i] = status[i]
                               /\ occupied'[i] = occupied[i]
  BY <1>2, <1>3 DEF TypeOK, ClientType, CtxType
<1>8. Takes(c, id, k)
  BY <1>2, <1>3, <1>4, <1>6, <1>7 DEF Takes
<1> QED
  BY <1>5, <1>8 DEF id, k

\* Nobody else's context is touched.
LEMMA TakesAside ==
    ASSUME MemoryInv, NEW c \in Clients, NEW id, NEW k, Takes(c, id, k)
    PROVE  /\ ~Holds(c) /\ Holds(c)' /\ ~Waiting(c) /\ Waiting(c)'
           /\ \A d \in Clients \ {c} : /\ Holds(d)' <=> Holds(d)
                                       /\ Waiting(d)' <=> Waiting(d)
                                       /\ Holds(d) => ctx[d] \in Ids \ {id}
<1> USE DEF MemoryInv
<1>1. ~Holds(c) /\ Holds(c)' /\ ~Waiting(c) /\ Waiting(c)'
  BY DEF Takes, Holds, Waiting
<1>2. \A d \in Clients \ {c} : /\ Holds(d)' <=> Holds(d)
                               /\ Holds(d) => ctx[d] \in Ids \ {id}
  <2>1. \A d \in Clients : Holds(d) => ctx[d] \in Ids /\ ctx[d] # id
    BY DEF Takes, OwnerInv, TypeOK, ClientType
  <2> QED
    BY <2>1 DEF Takes, Holds
<1>3. \A d \in Clients \ {c} : Waiting(d)' <=> Waiting(d)
  BY <1>2 DEF Takes, Waiting
<1> QED
  BY <1>1, <1>2, <1>3

\* What is said of the callers holds after a submission.
LEMMA SubmitCalls ==
    ASSUME Always, MemoryInv', NEW c \in Clients, Submit(c)
    PROVE  CallInv'
<1> USE DEF Always, CallInv
<1>1. PICK id, k : Takes(c, id, k) /\ Exposes(k) /\ id \in Ids
  BY SubmitTakes DEF Takes
<1>2. /\ ~Holds(c) /\ Holds(c)'
      /\ \A d \in Clients \ {c} : /\ Holds(d)' <=> Holds(d)
                                  /\ Holds(d) => ctx[d] \in Ids \ {id}
  BY <1>1, TakesAside
<1>3. Calling'
  <2>1. \A d \in Clients : call'[d] \in Issued' \cup {NoCmd}
    BY <1>1 DEF Takes, Calling
  <2>2. \A d \in Clients : pc'[d] \in {"idle", "submit"} => call'[d] = NoCmd
    BY <1>1 DEF Takes, Calling
  <2>3. \A d \in Clients : Holds(d)' \/ pc'[d] = "decrement" => call'[d] # NoCmd
    BY <1>1, <1>2 DEF Takes, Calling
  <2>4. \A d \in Clients : call'[d] = NoCmd => buf'[d] = NoCmd
    BY <1>1 DEF Takes, Calling
  <2>5. \A d \in Clients : Holds(d)' => user_cqe'[ctx'[d]] = call'[d]
    BY <1>1, <1>2 DEF Takes, Calling
  <2>6. \A d, e \in Clients : call'[d] = call'[e] /\ call'[d] # NoCmd => d = e
    <3>1. \A d \in Clients : call[d] # k
      BY <1>1 DEF Takes, Calling
    <3> QED
      BY <1>1, <3>1 DEF Takes, Calling
  <2>7. \A i \in Ids : ~occupied'[i] => user_cqe'[i] = NoCmd
    BY <1>1 DEF Takes, Calling
  <2>8. gaveUp' \subseteq Issued' /\ exposed' \subseteq Issued' \cup {NoCmd}
    BY <1>1 DEF Takes, Exposes, Calling
  <2>9. \A d \in Clients : /\ pc'[d] \in {"release", "decrement"} => ret'[d] \in Outcomes
                           /\ pc'[d] = "closeAq" => ret'[d] = "ETIME"
    BY <1>1 DEF Takes, Calling
  <2> QED
    BY <2>1, <2>2, <2>3, <2>4, <2>5, <2>6, <2>7, <2>8, <2>9 DEF Calling
<1>4. Aborts'
  <2>1. \A d \in Clients : pc'[d] \in {"pollAborted", "intrAborted"} => ~running_state'
    BY <1>1 DEF Takes, Aborts
  <2>2. \A d \in Clients : Holds(d)' /\ status'[ctx'[d]] = "ABORTED" => ~running_state'
    BY <1>1, <1>2 DEF Takes, Aborts
  <2> QED
    BY <2>1, <2>2 DEF Aborts
<1>5. Admission'
  <2> SUFFICES ASSUME Admitting'
               PROVE  ~overrun' /\ \A d \in Clients : Holds(d)' => call'[d] \notin exposed'
    BY DEF Admission
  <2>1. running_state
    BY <1>1 DEF Takes, Admitting
  <2>2. ~overrun' /\ exposed' = exposed
    BY <1>1, <2>1 DEF Exposes, MemoryInv, TypeOK, GhostType
  <2>3. k \notin exposed
    BY <1>1 DEF Takes, Calling
  <2> QED
    BY <1>1, <1>2, <2>2, <2>3 DEF Takes, Exposes
<1> QED
  BY <1>3, <1>4, <1>5

\* Nobody is at work when the rings are made anew.
LEMMA UpCalls ==
    ASSUME Always, MemoryInv', AdminInit
    PROVE  /\ CallInv' /\ \A c \in Clients : ~Holds(c)'
           /\ \A x \in Handlers : hpc'[x] \notin {"copy", "post"}
<1> USE DEF Always, MemoryInv, CallInv
<1>1. /\ UNCHANGED <<pc, call, ctx, ret, buf, hpc, answer, lastCmd, gaveUp, exposed>>
      /\ occupied' = [i \in Ids |-> FALSE] /\ user_cqe' = [i \in Ids |-> NoCmd]
      /\ td = "down" /\ overrun' = FALSE
  BY DEF AdminInit, StepTd, clientVars, handlerVars
<1>2. \A c \in Clients : ~Holds(c) /\ pc[c] \notin {"decrement", "submit"}
  BY <1>1 DEF CountInv, Busy, LifeInv
<1>3. \A c \in Clients : ~Holds(c)'
  BY <1>1, <1>2 DEF Holds
<1>4. \A x \in Handlers : hpc'[x] \notin {"copy", "post"}
  <2>1. polling_for_completions' = FALSE
    BY DEF AdminInit
  <2> QED
    BY <2>1 DEF ScanInv, Scanning
<1>5. Calling'
  <2>1. Issued' = Issued
    BY <1>1 DEF Issued
  <2>2. \A c \in Clients : /\ call'[c] \in Issued' \cup {NoCmd}
                           /\ pc'[c] \in {"idle", "submit"} => call'[c] = NoCmd
                           /\ call'[c] = NoCmd => buf'[c] = NoCmd
    BY <1>1, <2>1 DEF Calling
  <2>3. \A c, d \in Clients : call'[c] = call'[d] /\ call'[c] # NoCmd => c = d
    BY <1>1 DEF Calling
  <2>4. \A i \in Ids : user_cqe'[i] = NoCmd
    BY <1>1
  <2>5. gaveUp' \subseteq Issued' /\ exposed' \subseteq Issued' \cup {NoCmd}
    BY <1>1, <2>1 DEF Calling
  <2>6. \A c \in Clients : ~(Holds(c)' \/ pc'[c] = "decrement")
    BY <1>1, <1>2, <1>3
  <2>7. \A c \in Clients : /\ pc'[c] \in {"release", "decrement"} => ret'[c] \in Outcomes
                           /\ pc'[c] = "closeAq" => ret'[c] = "ETIME"
    BY <1>1 DEF Calling
  <2> QED
    BY <1>3, <2>2, <2>3, <2>4, <2>5, <2>6, <2>7 DEF Calling
<1>6. Aborts'
  <2>1. \A c \in Clients : pc'[c] \notin {"pollAborted", "intrAborted"}
    BY <1>3 DEF Holds
  <2> QED
    BY <1>3, <2>1 DEF Aborts
<1>7. Admission'
  BY <1>1, <1>3 DEF Admission
<1> QED
  BY <1>3, <1>4, <1>5, <1>6, <1>7

\* The steps a caller may take that are not Calm: it passes.
CallerPasses(c) ==
    \/ Issue(c) /\ ~Submit(c)
    \/ (PollCheck(c) \/ IntrCheck(c)) /\ status[ctx[c]] = "COMPLETED"
    \/ MissingInterruptPolls(c)
    \/ PollExpired(c) \/ Aborted(c) \/ CloseAq(c)
    \/ NoCompletion(c) \/ MissingInterruptFatal(c)
    \/ Release(c) \/ Return(c)

\* It does.
LEMMA CallerPass == ASSUME Always, MemoryInv', NEW c \in Clients, CallerPasses(c) PROVE Passes(c)
  BY EnterPasses, AnswerPasses, GiveUpPasses, TimeoutPasses, ReleasePasses, ReturnPasses
  DEF CallerPasses

CallerStaysCalm(c) ==
    \/ ChooseWait(c) \/ LockToPoll(c) \/ TakeOwnership(c) \/ Woken(c) \/ WaitExpired(c)
    \/ (PollCheck(c) \/ IntrCheck(c)) /\ status[ctx[c]] # "COMPLETED"
    \/ Decrement(c)
BetweenScans ==
    \/ Interrupt
    \/ \E x \in Handlers : Wake(x) \/ FinishScan(x) \/ BadCompletion(x)
AtWork(x) == FindContext(x) \/ CopyResponse(x) \/ PostStatus(x)
Aside ==
    \/ Close \/ TearDown \/ PollFirst \/ RequestIrq \/ InterruptsOn
    \/ DeviceFetch \/ DeviceComplete \/ UNCHANGED vars

\* Every step is of one of these kinds.
LEMMA StepKinds ==
    ASSUME [Next]_vars
    PROVE  \/ \E c \in Clients : Submit(c) \/ CallerPasses(c) \/ CallerStaysCalm(c)
           \/ BetweenScans \/ (\E x \in Handlers : AtWork(x)) \/ Aside \/ AdminInit
<1>1. ASSUME NEW c \in Clients, Issue(c) \/ Wait(c)
      PROVE  Submit(c) \/ CallerPasses(c) \/ CallerStaysCalm(c)
  BY <1>1 DEF Wait, CallerPasses, CallerStaysCalm
<1>2. ASSUME NEW x \in Handlers, Handle(x) PROVE AtWork(x) \/ BetweenScans
  BY <1>2 DEF Handle, AtWork, BetweenScans
<1> QED
  BY <1>1, <1>2 DEF Next, BringUp, BetweenScans, Aside

\* Every step keeps what is said of the callers.
LEMMA CallStep == Always /\ MemoryInv' /\ [Next]_vars => CallInv'
<1> SUFFICES ASSUME Always, MemoryInv', [Next]_vars PROVE CallInv'
  OBVIOUS
<1>1. ASSUME NEW c \in Clients, Submit(c) PROVE CallInv'
  BY <1>1, SubmitCalls
<1>2. ASSUME NEW c \in Clients, CallerPasses(c) PROVE CallInv'
  BY <1>2, CallerPass, PassCalls
<1>3. ASSUME NEW c \in Clients, CallerStaysCalm(c) PROVE CallInv'
  <2>1. Calm
    BY <1>3, CallerCalm DEF CallerStaysCalm
  <2> QED
    BY <2>1, CalmCalls
<1>4. CASE BetweenScans
  <2>1. Calm
    BY <1>4, HandlerCalm DEF BetweenScans
  <2> QED
    BY <2>1, CalmCalls
<1>5. ASSUME NEW x \in Handlers, AtWork(x) PROVE CallInv'
  <2>1. Calm
    BY <1>5, WorkCalm DEF AtWork
  <2> QED
    BY <2>1, CalmCalls
<1>6. CASE Aside
  <2>1. Calm
    BY <1>6, OthersCalm DEF Aside
  <2> QED
    BY <2>1, CalmCalls
<1>7. CASE AdminInit
  BY <1>7, UpCalls
<1> QED
  BY <1>1, <1>2, <1>3, <1>4, <1>5, <1>6, <1>7, StepKinds

-----------------------------------------------------------------------------
(***************************************************************************)
(* The callers and the handlers, as long as the rings are not overrun      *)
(***************************************************************************)
\* The waiters stay, or their commands are given up or exposed.
WaitersKept ==
    /\ \A d \in Waiters : \/ d \in Waiters' /\ call'[d] = call[d]
                          \/ call[d] \in gaveUp' \cup exposed'
                          \/ \A f \in InFlight' : f[2] # call[d]
    /\ gaveUp \subseteq gaveUp' /\ exposed' = exposed
    /\ running_state' => running_state /\ gaveUp' = gaveUp
    /\ Admitting' => Admitting

\* Backed is kept where the load does not grow and no waiter leaves.
LEMMA BackedKept ==
    ASSUME RingInv, RingInv', Backed, Load' <= Load,
           running_state' => running_state /\ Waiters \subseteq Waiters'
    PROVE  Backed'
<1> SUFFICES ASSUME running_state' PROVE Load' <= Cardinality(Waiters')
  BY DEF Backed
<1>1. IsFiniteSet(Waiters')
  <2>1. Waiters' \subseteq Clients
    BY DEF Waiters
  <2> QED
    BY <2>1, ClientsAssumption, FS_Subset
<1>2. Cardinality(Waiters) <= Cardinality(Waiters') /\ Cardinality(Waiters') \in Nat
  BY <1>1, FS_Subset, FS_CardinalityType
<1>3. Load <= Cardinality(Waiters) /\ Cardinality(Waiters) \in Nat /\ Load \in Nat
  BY WaitersFinite, LoadType DEF Backed
<1>4. Load' \in Nat
  <2>1. (RingInv => Load \in Nat)'
    BY LoadType, PTL
  <2> QED
    BY <2>1
<1> QED
  BY <1>2, <1>3, <1>4

\* Expected is kept where nothing enters the rings and no waiter leaves.
LEMMA ExpectedKept == Expected /\ Shrinks /\ WaitersKept => Expected'
<1> SUFFICES ASSUME Expected, Shrinks, WaitersKept PROVE Expected'
  OBVIOUS
<1>1. ASSUME NEW f \in InFlight'
      PROVE  /\ f[2] \in gaveUp' \cup exposed' \/ \E c \in Waiters' : call'[c] = f[2]
             /\ running_state' => f[2] \notin gaveUp'
             /\ Admitting' => f[2] \notin exposed'
  <2>1. PICK g \in InFlight : f[2] = g[2]
    BY DEF Shrinks
  <2>2. g[2] \in gaveUp \cup exposed \/ \E c \in Waiters : call[c] = g[2]
    BY DEF Expected
  <2>3. (running_state => g[2] \notin gaveUp) /\ (Admitting => g[2] \notin exposed)
    BY DEF Expected
  <2> QED
    BY <2>1, <2>2, <2>3 DEF WaitersKept
<1> QED
  BY <1>1 DEF Expected

\* Matching is kept where nothing enters the rings and no context changes hands.
LEMMA MatchingKept ==
    Matching /\ Shrinks /\ HoldsKept /\ exposed' = exposed /\ gaveUp \subseteq gaveUp' => Matching'
<1> SUFFICES ASSUME Matching, Shrinks, HoldsKept, exposed' = exposed, gaveUp \subseteq gaveUp'
             PROVE  Matching'
  OBVIOUS
<1>1. \A f \in InFlight' : f[1] \in Ids => f \in InFlight
  BY DEF Shrinks
<1>2. \A f \in InFlight', c \in Clients :
          Trusted(c)' /\ f[1] \in Ids => (ctx'[c] = f[1] <=> call'[c] = f[2])
  BY <1>1 DEF Matching, HoldsKept, Trusted
<1>3. \A f, g \in InFlight' : f[1] \in Ids /\ f[1] = g[1]
                              => f = g \/ OneLate(f, g) \/ OneLate(g, f)
  <2>1. \A f, g \in InFlight : f[1] \in Ids /\ f[1] = g[1]
                               => f = g \/ OneLate(f, g) \/ OneLate(g, f)
    BY DEF Matching
  <2>2. \A f, g \in InFlight' : f[1] \in Ids /\ f[1] = g[1] => f \in InFlight /\ g \in InFlight
    BY <1>1
  <2> QED
    BY <2>1, <2>2
<1>4. \A f, g : OneLate(f, g) => OneLate(f, g)'
  BY DEF OneLate
<1> QED
  BY <1>2, <1>3, <1>4 DEF Matching, OneLate

\* The handlers at work on a completion, and it, are left alone.
CompletionsKept == \A x \in Handlers : hpc'[x] \in {"copy", "post"} => cq'[hslot[x]] = cq[hslot[x]]

\* Handling is kept where no handler moves and no buffer changes hands.
LEMMA HandlingKept ==
    ASSUME Handling, HandlersStay, CompletionsKept, HoldsKept, exposed' = exposed,
           \A c \in Clients : Holds(c)' => buf'[c] = buf[c]
    PROVE  Handling'
<1> SUFFICES ASSUME NEW x \in Handlers, hpc'[x] \in {"copy", "post"}
             PROVE  /\ EntryReady(x)'
                    /\ cq'[hslot'[x]].id = hctx'[x]
                    /\ hdst'[x] \in {NoCmd, cq'[hslot'[x]].cmd} \cup exposed'
                    /\ \A c \in Clients : Trusted(c)' /\ ctx'[c] = hctx'[x] =>
                          IF hpc'[x] = "copy" THEN hdst'[x] = call'[c] ELSE buf'[c] = call'[c]
  BY DEF Handling
<1>1. /\ hpc'[x] = hpc[x] /\ hslot'[x] = hslot[x] /\ hphase'[x] = hphase[x]
      /\ hctx'[x] = hctx[x] /\ hdst'[x] = hdst[x]
      /\ cq'[hslot[x]] = cq[hslot[x]]
  BY DEF HandlersStay, CompletionsKept
<1>2. /\ EntryReady(x)
      /\ cq[hslot[x]].id = hctx[x]
      /\ hdst[x] \in {NoCmd, cq[hslot[x]].cmd} \cup exposed
      /\ \A c \in Clients : Trusted(c) /\ ctx[c] = hctx[x] =>
            IF hpc[x] = "copy" THEN hdst[x] = call[c] ELSE buf[c] = call[c]
  BY <1>1 DEF Handling
<1>3. EntryReady(x)'
  BY <1>1, <1>2 DEF EntryReady
<1>4. \A c \in Clients : Trusted(c)' /\ ctx'[c] = hctx'[x] =>
            IF hpc'[x] = "copy" THEN hdst'[x] = call'[c] ELSE buf'[c] = call'[c]
  BY <1>1, <1>2 DEF HoldsKept, Trusted
<1> QED
  BY <1>1, <1>2, <1>3, <1>4

\* What a command that has its answer was answered, and the commands issued, stay.
AnswersKept == lastCmd' = lastCmd /\ \A k \in Issued : answer[k] # "none" => answer'[k] = answer[k]

\* A step that changes nothing of the calls but where their callers are.
Quiet ==
    /\ Calm /\ HandlersStay
    /\ Shrinks /\ Load' <= Load /\ AnswersKept /\ CompletionsKept
    /\ UNCHANGED <<buf, comp_status, stray>>
    /\ \A i \in Ids : status'[i] = status[i] \/ (status'[i] = "ABORTED" /\ ~running_state)

\* A quiet step keeps what is said of the callers.
LEMMA QuietInv ==
    ASSUME Good, MemoryInv', RingInv', Quiet
    PROVE  CallerInv'
<1> USE DEF Good, Always, MemoryInv, CallerInv
<1>0. /\ HoldsKept /\ Issued' = Issued /\ (Admitting' => Admitting)
      /\ \A c \in Clients : Holds(c) <=> Holds(c)'
  BY CalmCalls DEF Quiet
<1>1. \A c \in Clients : Waiting(c) => Waiting(c)'
  <2> SUFFICES ASSUME NEW c \in Clients PROVE Waiting(c) => Waiting(c)'
    OBVIOUS
  <2>1. ctx[c] \in Ids /\ ctx'[c] = ctx[c]
    BY DEF TypeOK, ClientType, Quiet, Calm
  <2>2. status'[ctx[c]] = "COMPLETED" => status[ctx[c]] = "COMPLETED"
    BY <2>1 DEF Quiet
  <2>3. pc[c] \in WaitPc => pc'[c] \in WaitPc
    BY DEF Quiet, Calm, WaitPc
  <2> QED
    BY <2>1, <2>2, <2>3, WaitPcFacts
<1>2. WaitersKept /\ Waiters \subseteq Waiters'
  BY <1>0, <1>1 DEF Quiet, Calm, WaitersKept, Waiters
<1>3. Backed' /\ Expected' /\ Matching'
  BY <1>0, <1>2, BackedKept, ExpectedKept, MatchingKept DEF Quiet, Calm
<1>4. Handling'
  BY <1>0, HandlingKept DEF Quiet, Calm
<1>5. Verdicts'
  <2> SUFFICES ASSUME NEW c \in Clients, call'[c] \notin exposed'
               PROVE  /\ Holds(c)' /\ status'[ctx'[c]] = "COMPLETED" =>
                            HasAnswer(c)' /\ comp_status'[ctx'[c]] = answer'[call'[c]]
                      /\ /\ pc'[c] \in {"release", "decrement", "returned"}
                         /\ call'[c] # NoCmd /\ ret'[c] \notin DriverErrors
                         => HasAnswer(c)' /\ ret'[c] = Errno(answer'[call'[c]])
    BY DEF Verdicts
  <2>0. call[c] \notin exposed /\ call'[c] = call[c] /\ ctx'[c] = ctx[c] /\ ret'[c] = ret[c]
    BY DEF Quiet, Calm
  <2>1. HasAnswer(c) /\ call[c] # NoCmd => HasAnswer(c)' /\ answer'[call'[c]] = answer[call[c]]
    BY <2>0 DEF CallInv, Calling, HasAnswer, Quiet, AnswersKept
  <2>2. ctx[c] \in Ids
    BY DEF TypeOK, ClientType
  <2>3. ASSUME Holds(c)', status'[ctx'[c]] = "COMPLETED"
        PROVE  HasAnswer(c)' /\ comp_status'[ctx'[c]] = answer'[call'[c]]
    <3>1. Holds(c) /\ status[ctx[c]] = "COMPLETED" /\ call[c] # NoCmd
      BY <1>0, <2>0, <2>2, <2>3 DEF Quiet, CallInv, Calling
    <3>2. HasAnswer(c) /\ comp_status[ctx[c]] = answer[call[c]]
      BY <2>0, <3>1 DEF Verdicts
    <3> QED
      BY <2>0, <2>1, <3>1, <3>2 DEF Quiet
  <2>4. ASSUME pc'[c] \in {"release", "decrement", "returned"},
               call'[c] # NoCmd, ret'[c] \notin DriverErrors
        PROVE  HasAnswer(c)' /\ ret'[c] = Errno(answer'[call'[c]])
    <3>1. pc[c] \in {"release", "decrement", "returned"}
      BY <2>4 DEF Quiet, Calm, WaitPc
    <3>2. HasAnswer(c) /\ ret[c] = Errno(answer[call[c]])
      BY <2>0, <2>4, <3>1 DEF Verdicts
    <3> QED
      BY <2>0, <2>1, <2>4, <3>2
  <2> QED
    BY <2>3, <2>4
<1> QED
  BY <1>3, <1>4, <1>5

\* What a step has of it that leaves the rings alone.
LEMMA StaysQuiet ==
    ASSUME RingInv, RingsStay
    PROVE  /\ RingInv' /\ Shrinks /\ Load' <= Load /\ AnswersKept /\ CompletionsKept
           /\ cq' = cq /\ InFlight' = InFlight /\ Issued' = Issued
<1>1. RingInv' /\ InFlight' = InFlight /\ Load' = Load
  BY RingsStayInv
<1>2. Shrinks /\ Load' <= Load
  BY <1>1, LoadType DEF Shrinks
<1> QED
  BY <1>1, <1>2 DEF RingsStay, AnswersKept, CompletionsKept, Issued

\* The steps of a caller that waits, and its last.
LEMMA CallerQuiet ==
    ASSUME Good, MemoryInv', NEW c \in Clients, CallerStaysCalm(c)
    PROVE  Quiet /\ RingInv'
<1>1. RingsStay
  <2>1. CASE TakeOwnership(c)
    BY <2>1, ScanStays DEF Good, Always
  <2>2. CASE ~TakeOwnership(c)
    BY <2>2, CallerStays DEF Good, Always, CallerStaysCalm
  <2> QED
    BY <2>1, <2>2
<1>2. RingInv' /\ Shrinks /\ Load' <= Load /\ AnswersKept /\ CompletionsKept
  BY <1>1, StaysQuiet DEF Good
<1>3. Calm /\ HandlersStay /\ UNCHANGED <<buf, status, comp_status, stray>>
  BY CallerCalm DEF Good, CallerStaysCalm
<1> QED
  BY <1>2, <1>3 DEF Quiet

\* The steps of a handler between two completions.
LEMMA HandlerQuiet ==
    ASSUME Good, MemoryInv', BetweenScans
    PROVE  Quiet /\ RingInv'
<1>1. RingInv' /\ Shrinks /\ Load' <= Load /\ AnswersKept /\ CompletionsKept
  <2>1. CASE Interrupt \/ \E x \in Handlers : Wake(x) \/ FinishScan(x)
    <3>1. RingsStay
      BY <2>1, ScanStays DEF Good, Always
    <3> QED
      BY <3>1, StaysQuiet DEF Good
  <2>2. ASSUME NEW x \in Handlers, BadCompletion(x)
        PROVE  RingInv' /\ Shrinks /\ Load' <= Load /\ AnswersKept /\ CompletionsKept
    <3>1. RingInv' /\ Load' < Load /\ InFlight' \subseteq InFlight
      BY <2>2, TookInv DEF Took
    <3>2. Shrinks
      BY <3>1 DEF Shrinks
    <3>3. Load' <= Load
      <4>1. (RingInv => Load \in Nat)'
        BY LoadType, PTL
      <4> QED
        BY <3>1, <4>1, LoadType DEF Good
    <3> QED
      BY <2>2, <3>1, <3>2, <3>3 DEF BadCompletion, AnswersKept, CompletionsKept, ringVars, ghostVars, devVars
  <2> QED
    BY <2>1, <2>2 DEF BetweenScans
<1>2. Calm /\ HandlersStay /\ UNCHANGED <<buf, status, comp_status, stray>>
  BY HandlerCalm DEF Good, BetweenScans
<1> QED
  BY <1>1, <1>2 DEF Quiet

\* A completion a handler is at is the driver's first.
LEMMA AtFirst ==
    ASSUME TypeOK, ScanInv, NEW x \in Handlers, Scanning(x), EntryReady(x)
    PROVE  hslot[x] = Slot /\ Slot \in Unread
<1>1. Slot = hslot[x] /\ Phase = hphase[x] /\ Slot \in Ids
  BY SlotOf, SlotType DEF AtScanner
<1> QED
  BY <1>1, DepthType DEF Unread, EntryReady

\* Teardown and bring-up, but for ena_com_admin_init(); and the device.
LEMMA OthersQuiet ==
    ASSUME Good, MemoryInv', Aside
    PROVE  Quiet /\ RingInv'
<1>1. /\ Calm /\ HandlersStay
      /\ UNCHANGED <<pc, buf, comp_status, stray, hpc, hslot>>
      /\ \A i \in Ids : status'[i] = status[i] \/ (status'[i] = "ABORTED" /\ ~running_state)
  BY OthersCalm DEF Good, Aside
<1>2. RingInv' /\ Shrinks /\ Load' <= Load /\ AnswersKept /\ \A s \in Unread : cq'[s] = cq[s]
  <2>0. Load \in Nat
    BY LoadType DEF Good
  <2>1. CASE \/ Close \/ FreeIrq \/ AbortOne \/ Destroy \/ PollFirst \/ RequestIrq \/ InterruptsOn
             \/ UNCHANGED vars
    <3>1. RingsStay
      <4>1. CASE UNCHANGED vars
        <5>1. UNCHANGED <<hpc, hslot, hphase, cqHead, cqPhase, td>> /\ UNCHANGED ringStateVars
          BY <4>1 DEF vars, ringVars, handlerVars, tdVars, devVars, ghostVars, ringStateVars
        <5> QED
          BY <5>1, StayAsideHandlers DEF RingsStay, ringStateVars, Alive, Good, Always
      <4>2. CASE ~UNCHANGED vars
        BY <2>1, <4>2, TearDownStays DEF Good, Always
      <4> QED
        BY <4>1, <4>2
    <3> QED
      BY <3>1, StaysQuiet DEF Good
  <2>2. CASE ResetDevice
    BY <2>2, ResetInv DEF Shrinks, ResetDevice, AnswersKept, ringVars, ghostVars
  <2>3. CASE DeviceFetch
    BY <2>0, <2>3, FetchInv DEF Shrinks, DeviceFetch, AnswersKept, ringVars, ghostVars
  <2>4. CASE DeviceComplete
    <3>1. RingInv' /\ Load' = Load /\ Shrinks
      BY <2>4, CompleteInv
    <3>2. \A s \in Unread : cq'[s] = cq[s]
      BY <2>4, CompleteInv, UnreadIs
    <3>3. AnswersKept
      BY <2>4, CompleteInv DEF AnswersKept, DeviceComplete
    <3> QED
      BY <2>0, <3>1, <3>2, <3>3
  <2> QED
    BY <2>1, <2>2, <2>3, <2>4 DEF Aside, TearDown
<1>3. CompletionsKept
  <2> SUFFICES ASSUME NEW x \in Handlers, hpc[x] \in {"copy", "post"}
               PROVE  cq'[hslot[x]] = cq[hslot[x]]
    BY <1>1 DEF CompletionsKept
  <2>1. EntryReady(x) /\ Scanning(x)
    BY DEF Good, CallerInv, Handling, Scanning
  <2>2. hslot[x] \in Unread
    BY <2>1, AtFirst DEF Good, Always, MemoryInv
  <2> QED
    BY <1>2, <2>2
<1> QED
  BY <1>1, <1>2, <1>3 DEF Quiet

\* What caller c takes with it is its own answer.
Truthful(c) ==
    /\ pc'[c] \in {"release", "decrement", "returned"} /\ call'[c] # NoCmd
    /\ call'[c] \notin exposed /\ ret'[c] \notin DriverErrors
    => /\ buf'[c] = call'[c] /\ answer[call'[c]] # "none"
       /\ ret'[c] = Errno(answer[call'[c]])

\* A caller takes its own answer, if any.
LEMMA PassesTruthful ==
    ASSUME Good, MemoryInv', NEW c \in Clients, CallerPasses(c)
    PROVE  Truthful(c)
<1> USE DEF Good, Always
<1>1. CASE Issue(c) /\ ~Submit(c)
  <2>1. call'[c] = call[c] /\ pc[c] \in {"idle", "submit"}
    BY <1>1 DEF Issue, RefuseNotRunning, LockToSubmit, RefuseFull, RefuseOccupied, Refuse
  <2> QED
    BY <2>1 DEF CallInv, Calling, Truthful
<1>2. CASE \/ (PollCheck(c) \/ IntrCheck(c)) /\ status[ctx[c]] = "COMPLETED"
           \/ MissingInterruptPolls(c)
  <2>1. /\ pc[c] \in WaitPc /\ status[ctx[c]] = "COMPLETED"
        /\ call'[c] = call[c] /\ buf'[c] = buf[c] /\ ret'[c] = Errno(comp_status[ctx[c]])
    BY <1>2, AnswerPasses
  <2>2. Holds(c)
    BY <2>1, WaitPcFacts DEF MemoryInv
  <2>3. call[c] \notin exposed => HasAnswer(c) /\ comp_status[ctx[c]] = answer[call[c]]
    BY <2>1, <2>2 DEF CallerInv, Verdicts
  <2> QED
    BY <2>1, <2>3 DEF Truthful, HasAnswer
<1>3. CASE PollExpired(c) \/ Aborted(c) \/ CloseAq(c)
  BY <1>3, GiveUpPasses DEF Truthful
<1>4. CASE NoCompletion(c) \/ MissingInterruptFatal(c)
  BY <1>4, TimeoutPasses DEF Truthful
<1>5. CASE Release(c)
  <2>1. pc[c] = "release" /\ call'[c] = call[c] /\ buf'[c] = buf[c] /\ ret'[c] = ret[c]
    BY <1>5, ReleasePasses
  <2> QED
    BY <2>1 DEF CallerInv, Verdicts, HasAnswer, Truthful
<1>6. CASE Return(c)
  BY <1>6, ReturnPasses DEF Truthful
<1> QED
  BY <1>1, <1>2, <1>3, <1>4, <1>5, <1>6 DEF CallerPasses

\* A passing step of one caller keeps all that is said of the rings and the calls.
LEMMA PassInv ==
    ASSUME Good, MemoryInv', NEW c \in Clients, Passes(c), Truthful(c)
    PROVE  RingInv' /\ CallerInv'
<1> USE DEF Good, Always, MemoryInv, CallerInv
<1>0. HoldsKept /\ Issued' = Issued /\ (Admitting' => Admitting)
  BY PassCalls
<1>1. RingInv' /\ Shrinks /\ Load' <= Load /\ InFlight' = InFlight /\ CompletionsKept
  BY StaysQuiet DEF Passes
<1>2. \A d \in Clients \ {c} : /\ Holds(d)' <=> Holds(d)
                               /\ Waiting(d)' <=> Waiting(d)
  BY DEF Passes, Holds, Waiting
<1>3. exposed' = exposed /\ gaveUp \subseteq gaveUp'
  BY DEF Passes
<1>4. WaitersKept
  <2>1. \A d \in Waiters : (d \in Waiters' /\ call'[d] = call[d]) \/ call[d] \in gaveUp'
    <3>1. Waiting(c) => (Waiting(c)' /\ call'[c] = call[c]) \/ call[c] \in gaveUp'
      BY DEF Passes, Waiting
    <3>2. \A d \in Clients \ {c} : call'[d] = call[d]
      BY DEF Passes
    <3> QED
      BY <1>2, <3>1, <3>2 DEF Waiters
  <2>2. running_state' => running_state /\ gaveUp' = gaveUp
    BY DEF Passes
  <2> QED
    BY <1>0, <1>3, <2>1, <2>2 DEF WaitersKept
<1>5. running_state' => running_state /\ Waiters \subseteq Waiters'
  <2>1. running_state' => running_state /\ (Waiting(c) => Waiting(c)')
    BY DEF Passes
  <2> QED
    BY <1>2, <2>1 DEF Waiters
<1>6. Backed' /\ Expected' /\ Matching'
  BY <1>0, <1>1, <1>3, <1>4, <1>5, BackedKept, ExpectedKept, MatchingKept
<1>7. Handling'
  <2>1. HandlersStay
    BY DEF Passes, HandlersStay
  <2>2. \A d \in Clients : Holds(d)' => buf'[d] = buf[d]
    BY DEF Passes
  <2> QED
    BY <1>0, <1>1, <1>3, <2>1, <2>2, HandlingKept
<1>8. Verdicts'
  <2> SUFFICES ASSUME NEW d \in Clients, call'[d] \notin exposed'
               PROVE  /\ Holds(d)' /\ status'[ctx'[d]] = "COMPLETED" =>
                            HasAnswer(d)' /\ comp_status'[ctx'[d]] = answer'[call'[d]]
                      /\ /\ pc'[d] \in {"release", "decrement", "returned"}
                         /\ call'[d] # NoCmd /\ ret'[d] \notin DriverErrors
                         => HasAnswer(d)' /\ ret'[d] = Errno(answer'[call'[d]])
    BY DEF Verdicts
  <2>0. answer' = answer /\ status' = status /\ comp_status' = comp_status
    BY DEF Passes, RingsStay
  <2>1. Holds(d)' => Holds(d) /\ ctx'[d] = ctx[d] /\ call'[d] = call[d] /\ buf'[d] = buf[d]
    BY <1>2 DEF Passes
  <2>2. Holds(d)' /\ status'[ctx'[d]] = "COMPLETED" =>
            HasAnswer(d)' /\ comp_status'[ctx'[d]] = answer'[call'[d]]
    BY <1>3, <2>0, <2>1 DEF Verdicts, HasAnswer
  <2>3. /\ pc'[d] \in {"release", "decrement", "returned"}
        /\ call'[d] # NoCmd /\ ret'[d] \notin DriverErrors
        => HasAnswer(d)' /\ ret'[d] = Errno(answer'[call'[d]])
    <3>1. CASE d = c
      BY <1>3, <2>0, <3>1 DEF Truthful, HasAnswer
    <3>2. CASE d # c
      <4>1. pc'[d] = pc[d] /\ call'[d] = call[d] /\ ret'[d] = ret[d] /\ buf'[d] = buf[d]
        BY <3>2 DEF Passes
      <4> QED
        BY <1>3, <2>0, <4>1 DEF HasAnswer, Verdicts
    <3> QED
      BY <3>1, <3>2
  <2> QED
    BY <2>2, <2>3
<1> QED
  BY <1>1, <1>6, <1>7, <1>8

\* The handler at work on a completion is the only one.
LEMMA OnlyScanner ==
    ASSUME ScanInv, NEW x \in Handlers, Scanning(x)
    PROVE  \A y \in Handlers : y # x => hpc[y] \notin {"scan", "copy", "post", "wake"}
  BY DEF ScanInv, Scanning

\* What a handler's step keeps that touches neither the rings nor the contexts.
LEMMA WorkKept ==
    ASSUME Good, MemoryInv', NEW x \in Handlers, FindContext(x) \/ CopyResponse(x)
    PROVE  /\ RingInv' /\ cq' = cq /\ InFlight' = InFlight /\ HoldsKept /\ Calm
           /\ UNCHANGED <<pc, status, comp_status, answer>>
           /\ Backed' /\ Expected' /\ Matching'
<1> USE DEF Good, Always, CallerInv
<1>1. RingsStay
  BY ScanStays
<1>2. RingInv' /\ Shrinks /\ Load' <= Load /\ cq' = cq /\ InFlight' = InFlight
  BY <1>1, StaysQuiet
<1>3. Calm /\ UNCHANGED <<pc, status, comp_status, answer>>
  <2>1. Calm /\ UNCHANGED pc
    BY WorkCalm
  <2> QED
    BY <1>1, <2>1 DEF FindContext, CopyResponse, ctxVars, RingsStay
<1>4. HoldsKept /\ (Admitting' => Admitting)
  BY <1>3, CalmCalls
<1>5. Waiters' = Waiters
  BY <1>3 DEF Waiters, Waiting, Holds, Calm
<1>6. WaitersKept
  BY <1>3, <1>4, <1>5 DEF WaitersKept, Calm
<1>7. running_state' => running_state /\ Waiters \subseteq Waiters'
  BY <1>3, <1>5 DEF Calm
<1>8. Backed' /\ Expected' /\ Matching'
  BY <1>2, <1>3, <1>4, <1>6, <1>7, BackedKept, ExpectedKept, MatchingKept DEF Calm
<1> QED
  BY <1>2, <1>3, <1>4, <1>8

\* The handler finds the context of a completion: it is that of the caller whose
\* command it answers, of an exposed one, or of nobody.
LEMMA FindInv ==
    ASSUME Good, MemoryInv', NEW x \in Handlers, FindContext(x)
    PROVE  RingInv' /\ CallerInv'
<1> USE DEF Good, Always, MemoryInv, CallerInv, CallInv
<1>1. /\ RingInv' /\ cq' = cq /\ InFlight' = InFlight /\ HoldsKept /\ Calm
      /\ UNCHANGED <<pc, status, comp_status, answer>>
      /\ Backed' /\ Expected' /\ Matching'
  BY WorkKept
<1>2. /\ hpc[x] = "scan" /\ EntryReady(x) /\ cq[hslot[x]].id \in Ids
      /\ hpc'[x] = "copy" /\ hctx'[x] = cq[hslot[x]].id /\ hdst'[x] = user_cqe[cq[hslot[x]].id]
      /\ \A y \in Handlers \ {x} : hpc'[y] = hpc[y]
      /\ UNCHANGED <<hslot, hphase, buf>>
  BY DEF FindContext, After, TypeOK, HandlerType, clientVars
<1>3. UNCHANGED <<call, ctx, ret, exposed>>
  BY <1>1 DEF Calm
<1>4. Handling'
  <2>1. Scanning(x)
    BY <1>2 DEF Scanning
  <2>2. \A y \in Handlers : hpc'[y] \in {"copy", "post"} => y = x
    BY <1>2, <2>1, OnlyScanner
  <2>3. EntryReady(x)'
    BY <1>1, <1>2 DEF EntryReady
  <2>4. hslot[x] = Slot /\ Slot \in Unread
    BY <1>2, <2>1, AtFirst
  <2>5. <<cq[Slot].id, cq[Slot].cmd>> \in InFlight
    BY <2>4 DEF InFlight
  <2>6. \A c \in Clients : Trusted(c) => (ctx[c] = cq[Slot].id <=> call[c] = cq[Slot].cmd)
    BY <1>2, <2>4, <2>5 DEF Matching
  <2>7. hdst'[x] \in {NoCmd, cq[Slot].cmd} \cup exposed
    <3>1. CASE occupied[cq[Slot].id]
      <4>1. PICK c \in Clients : Holds(c) /\ ctx[c] = cq[Slot].id
        BY <1>2, <2>4, <3>1 DEF OwnerInv
      <4> QED
        BY <1>2, <2>4, <2>6, <4>1 DEF Calling, Trusted
    <3>2. CASE ~occupied[cq[Slot].id]
      BY <1>2, <2>4, <3>2 DEF Calling
    <3> QED
      BY <3>1, <3>2
  <2>8. \A c \in Clients : Trusted(c)' /\ ctx'[c] = hctx'[x] => hdst'[x] = call'[c]
    BY <1>1, <1>2 DEF HoldsKept, Calling, Trusted
  <2> QED
    BY <1>1, <1>2, <1>3, <2>2, <2>3, <2>4, <2>7, <2>8 DEF Handling
<1>5. Verdicts'
  <2>1. \A c \in Clients : (Holds(c)' <=> Holds(c)) /\ (HasAnswer(c)' <=> HasAnswer(c))
    BY <1>1, <1>2, <1>3 DEF HasAnswer, Holds
  <2> QED
    BY <1>1, <1>2, <1>3, <2>1 DEF Verdicts
<1> QED
  BY <1>1, <1>4, <1>5

\* The response goes to its own caller's buffer, or to an exposed one.
LEMMA CopyInv ==
    ASSUME Good, MemoryInv', NEW x \in Handlers, CopyResponse(x)
    PROVE  RingInv' /\ CallerInv'
<1> USE DEF Good, Always, MemoryInv, CallerInv, CallInv
<1>1. /\ RingInv' /\ cq' = cq /\ InFlight' = InFlight /\ HoldsKept /\ Calm
      /\ UNCHANGED <<pc, status, comp_status, answer>>
      /\ Backed' /\ Expected' /\ Matching'
  BY WorkKept
<1>2. /\ hpc[x] = "copy" /\ hpc'[x] = "post"
      /\ \A y \in Handlers \ {x} : hpc'[y] = hpc[y]
      /\ UNCHANGED <<hslot, hphase, hctx, hdst, call, ctx, ret, exposed>>
  BY DEF CopyResponse, After, TypeOK, HandlerType
<1>3. /\ EntryReady(x) /\ cq[hslot[x]].id = hctx[x]
      /\ hdst[x] \in {NoCmd, cq[hslot[x]].cmd} \cup exposed
      /\ \A c \in Clients : Trusted(c) /\ ctx[c] = hctx[x] => hdst[x] = call[c]
  BY <1>2 DEF Handling
<1>4. \A c \in Clients : call[c] \notin exposed =>
          buf'[c] = IF hdst[x] # NoCmd /\ call[c] = hdst[x] THEN call[c] ELSE buf[c]
  BY <1>3 DEF CopyResponse
<1>5. Scanning(x)
  BY <1>2 DEF Scanning
<1>6. Handling'
  <2>1. \A y \in Handlers : hpc'[y] \in {"copy", "post"} => y = x
    BY <1>2, <1>5, OnlyScanner
  <2>2. EntryReady(x)'
    BY <1>1, <1>2, <1>3 DEF EntryReady
  <2>3. \A c \in Clients : Trusted(c)' /\ ctx'[c] = hctx'[x] => buf'[c] = call'[c]
    <3>1. \A c \in Clients : Trusted(c)' => Trusted(c) /\ call[c] # NoCmd
      BY <1>1, <1>2 DEF HoldsKept, Calling, Trusted
    <3> QED
      BY <1>2, <1>3, <1>4, <3>1 DEF Trusted
  <2> QED
    BY <1>1, <1>2, <1>3, <2>1, <2>2, <2>3 DEF Handling
<1>7. Verdicts'
  <2>1. \A c \in Clients : call[c] \notin exposed /\ HasAnswer(c) => HasAnswer(c)'
    BY <1>1, <1>2, <1>4 DEF HasAnswer
  <2>2. \A c \in Clients : Holds(c)' <=> Holds(c)
    BY <1>1 DEF Holds
  <2> QED
    BY <1>1, <1>2, <2>1, <2>2 DEF Verdicts
<1> QED
  BY <1>1, <1>6, <1>7

\* The status is published: the caller, if he still waits, has the response.
LEMMA PostInv ==
    ASSUME Good, MemoryInv', NEW x \in Handlers, PostStatus(x)
    PROVE  RingInv' /\ CallerInv'
<1> USE DEF Good, Always, MemoryInv, CallerInv, CallInv
<1>1. /\ RingInv' /\ Load' < Load /\ InFlight' \subseteq InFlight
      /\ Slot = hslot[x] /\ Slot \in Unread
      /\ <<cq[Slot].id, cq[Slot].cmd>> \in InFlight
      /\ \A f \in InFlight' : f[2] # cq[Slot].cmd
  BY TookInv DEF Took
<1>2. /\ hpc[x] = "post" /\ hpc'[x] = "wake"
      /\ \A y \in Handlers \ {x} : hpc'[y] = hpc[y]
      /\ UNCHANGED <<hctx, hdst, pc, call, ctx, ret, buf, cq, answer, exposed>>
  BY DEF PostStatus, After, TypeOK, HandlerType, clientVars, ringVars, ghostVars
<1>3. /\ cq[Slot].id = hctx[x]
      /\ \A c \in Clients : Trusted(c) /\ ctx[c] = hctx[x] => buf[c] = call[c]
  BY <1>1, <1>2 DEF Handling
<1>4. hctx[x] \in Ids
  BY DEF TypeOK, HandlerType
<1>5. \A i \in Ids : /\ status'[i] = IF i = hctx[x] THEN "COMPLETED" ELSE status[i]
                     /\ comp_status'[i] = IF i = hctx[x] THEN cq[Slot].st ELSE comp_status[i]
  BY <1>1 DEF PostStatus, TypeOK, CtxType
<1>6. Calm
  BY WorkCalm
<1>7. \A c \in Clients : ctx[c] \in Ids
  BY DEF TypeOK, ClientType
<1>8. HoldsKept /\ (Admitting' => Admitting)
  BY <1>6, CalmCalls
<1>9. \A c \in Clients : Trusted(c) => (ctx[c] = hctx[x] <=> call[c] = cq[Slot].cmd)
  BY <1>1, <1>3, <1>4 DEF Matching
<1>10. \A d \in Waiters : d \in Waiters' \/ ctx[d] = hctx[x]
  BY <1>2, <1>5, <1>7 DEF Waiters, Waiting, Holds
<1>11. Shrinks
  BY <1>1 DEF Shrinks
<1>12. Expected' /\ Matching'
  <2>1. WaitersKept
    <3>1. \A d \in Waiters : ctx[d] = hctx[x] /\ call[d] \notin exposed
                             => \A f \in InFlight' : f[2] # call[d]
      BY <1>1, <1>9 DEF Waiters, Waiting, Trusted
    <3> QED
      BY <1>2, <1>6, <1>8, <1>10, <3>1 DEF WaitersKept, Calm
  <2> QED
    BY <1>2, <1>6, <1>8, <1>11, <2>1, ExpectedKept, MatchingKept DEF Calm
<1>13. Backed'
  <2> SUFFICES ASSUME running_state' PROVE Load' <= Cardinality(Waiters')
    BY DEF Backed
  <2>1. Load <= Cardinality(Waiters)
    BY <1>6 DEF Backed, Calm
  <2>2. IsFiniteSet(Waiters') /\ Cardinality(Waiters') \in Nat
    <3>1. Waiters' \subseteq Clients
      BY DEF Waiters
    <3> QED
      BY <3>1, ClientsAssumption, FS_Subset, FS_CardinalityType
  <2>3. Load \in Nat /\ Cardinality(Waiters) \in Nat
    BY LoadType, WaitersFinite
  <2>4. Load' \in Nat
    <3>1. (RingInv => Load \in Nat)'
      BY LoadType, PTL
    <3> QED
      BY <1>1, <3>1
  <2>5. Cardinality(Waiters) <= Cardinality(Waiters') + 1
    <3>1. CASE Waiters \subseteq Waiters'
      <4>1. Cardinality(Waiters) <= Cardinality(Waiters')
        BY <2>2, <3>1, FS_Subset
      <4> QED
        BY <2>2, <2>3, <4>1
    <3>2. ASSUME NEW d \in Waiters, d \notin Waiters'
          PROVE  Cardinality(Waiters) <= Cardinality(Waiters') + 1
      <4>1. \A e \in Waiters : e # d => ctx[e] # hctx[x]
        BY <1>10, <3>2 DEF OwnerInv, Waiters, Waiting
      <4>2. Waiters \ {d} \subseteq Waiters'
        BY <1>10, <4>1
      <4>3. Cardinality(Waiters \ {d}) <= Cardinality(Waiters')
        BY <2>2, <4>2, FS_Subset
      <4>4. Cardinality(Waiters \ {d}) = Cardinality(Waiters) - 1
        BY <3>2, WaitersFinite, FS_RemoveElement
      <4> QED
        BY <2>2, <2>3, <4>3, <4>4
    <3> QED
      BY <3>1, <3>2
  <2> QED
    BY <1>1, <2>1, <2>2, <2>3, <2>4, <2>5
<1>14. Handling'
  <2>1. Scanning(x)
    BY <1>2 DEF Scanning
  <2>2. \A y \in Handlers : hpc'[y] \notin {"copy", "post"}
    BY <1>2, <2>1, OnlyScanner
  <2> QED
    BY <2>2 DEF Handling
<1>15. Verdicts'
  <2> SUFFICES ASSUME NEW c \in Clients, call[c] \notin exposed
               PROVE  /\ Holds(c)' /\ status'[ctx'[c]] = "COMPLETED" =>
                            HasAnswer(c)' /\ comp_status'[ctx'[c]] = answer'[call'[c]]
                      /\ /\ pc'[c] \in {"release", "decrement", "returned"}
                         /\ call'[c] # NoCmd /\ ret'[c] \notin DriverErrors
                         => HasAnswer(c)' /\ ret'[c] = Errno(answer'[call'[c]])
    BY <1>2 DEF Verdicts
  <2>1. HasAnswer(c) <=> HasAnswer(c)'
    BY <1>2 DEF HasAnswer
  <2>2. ASSUME Holds(c)', status'[ctx'[c]] = "COMPLETED"
        PROVE  HasAnswer(c)' /\ comp_status'[ctx'[c]] = answer'[call'[c]]
    <3>1. Trusted(c)
      BY <1>8, <2>2 DEF HoldsKept, Trusted
    <3>2. CASE ctx[c] = hctx[x]
      <4>1. buf[c] = call[c] /\ call[c] = cq[Slot].cmd
        BY <1>3, <1>9, <3>1, <3>2
      <4>2. answer[call[c]] = cq[Slot].st /\ cq[Slot].st # "none"
        BY <1>1, <4>1, StatusAssumption DEF RingInv, Answers
      <4>3. comp_status'[ctx'[c]] = cq[Slot].st
        BY <1>2, <1>4, <1>5, <3>2
      <4> QED
        BY <1>2, <2>1, <4>1, <4>2, <4>3 DEF HasAnswer
    <3>3. CASE ctx[c] # hctx[x]
      BY <1>2, <1>5, <1>7, <2>1, <2>2, <3>1, <3>3 DEF Verdicts, Trusted
    <3> QED
      BY <3>2, <3>3
  <2>3. /\ pc'[c] \in {"release", "decrement", "returned"}
        /\ call'[c] # NoCmd /\ ret'[c] \notin DriverErrors
        => HasAnswer(c)' /\ ret'[c] = Errno(answer'[call'[c]])
    BY <1>2, <2>1 DEF Verdicts
  <2> QED
    BY <2>2, <2>3
<1> QED
  BY <1>1, <1>12, <1>13, <1>14, <1>15

\* A command is submitted.  While the queue is open everything in flight has a
\* waiter, so its context is occupied and the id is new; afterwards the id may be
\* that of a command that was given up.
LEMMA SubmitCallers ==
    ASSUME Good, MemoryInv', NEW c \in Clients, Submit(c), ~overrun'
    PROVE  RingInv' /\ CallerInv'
<1> USE DEF Good, Always, MemoryInv, CallerInv, CallInv
<1>1. PICK id, k : /\ Takes(c, id, k) /\ Exposes(k)
                   /\ InFlight' = InFlight \cup {<<id, k>>}
  BY SubmitTakes, SubmitInv
<1>2. RingInv' /\ Load' = Load + 1
  BY SubmitInv
<1>3. /\ ~Holds(c) /\ Holds(c)' /\ ~Waiting(c) /\ Waiting(c)'
      /\ \A d \in Clients \ {c} : /\ Holds(d)' <=> Holds(d)
                                  /\ Waiting(d)' <=> Waiting(d)
                                  /\ Holds(d) => ctx[d] \in Ids \ {id}
  BY <1>1, TakesAside
<1>4. /\ exposed' = IF running_state THEN exposed ELSE exposed \cup {k}
      /\ \A d \in Clients : Holds(d) => call[d] \notin exposed
  BY <1>1 DEF Exposes
<1>5. /\ k # NoCmd /\ k \notin Issued /\ pc[c] = "submit" /\ id \in Ids
      /\ pc'[c] = "submitted" /\ call'[c] = k /\ ctx'[c] = id
      /\ \A d \in Clients \ {c} : /\ pc'[d] = pc[d] /\ call'[d] = call[d] /\ ctx'[d] = ctx[d]
                                  /\ pc[d] # "submit"
      /\ status'[id] = "SUBMITTED" /\ \A i \in Ids \ {id} : status'[i] = status[i]
      /\ UNCHANGED <<running_state, comp_status, ret, buf, hpc, hslot, hphase, hctx, hdst,
                     cq, answer, gaveUp, stray>>
  BY <1>1 DEF Takes
<1>6. k \notin gaveUp /\ k \notin exposed /\ \A d \in Clients : call[d] # k
  BY <1>5 DEF Calling
<1>7. Waiters' = Waiters \cup {c} /\ c \notin Waiters
  BY <1>3 DEF Waiters
<1>8. Backed'
  <2>1. Cardinality(Waiters') = Cardinality(Waiters) + 1
    BY <1>7, WaitersFinite, FS_AddElement
  <2>2. running_state => Load <= Cardinality(Waiters)
    BY DEF Backed
  <2> QED
    BY <1>2, <1>5, <2>1, <2>2, LoadType, WaitersFinite DEF Backed
<1>9. \A f \in InFlight : f[2] \in Issued
  BY DEF RingInv, Answers, InFlight
<1>10. \A f \in InFlight : /\ f[2] \notin exposed
                           /\ f[2] \in gaveUp \/ \E d \in Waiters : call[d] = f[2]
                           /\ running_state => f[2] \notin gaveUp
  BY <1>5 DEF Expected, Admitting
<1>11. Expected'
  <2>1. \A f \in InFlight' : f[2] \in gaveUp' \/ \E d \in Waiters' : call'[d] = f[2]
    <3>1. \A f \in InFlight : f[2] \in gaveUp' \/ \E d \in Waiters' : call'[d] = f[2]
      BY <1>5, <1>7, <1>10 DEF Waiters
    <3>2. \A f \in InFlight' : f \in InFlight \/ f[2] = k
      BY <1>1
    <3> QED
      BY <1>5, <1>7, <3>1, <3>2
  <2>2. running_state' => \A f \in InFlight' : f[2] \notin gaveUp'
    BY <1>1, <1>5, <1>6, <1>10
  <2>3. Admitting' => \A f \in InFlight' : f[2] \notin exposed'
    <3>1. Admitting' => running_state
      BY <1>5 DEF Admitting
    <3> QED
      BY <1>1, <1>4, <1>6, <1>10, <3>1
  <2> QED
    BY <2>1, <2>2, <2>3 DEF Expected
<1>12. \A f \in InFlight : f[1] = id => f[2] \in gaveUp /\ ~running_state
  <2> SUFFICES ASSUME NEW f \in InFlight, f[1] = id, f[2] \notin gaveUp \/ running_state PROVE FALSE
    OBVIOUS
  <2>1. PICK d \in Waiters : call[d] = f[2]
    BY <1>10
  <2>2. d \in Clients /\ Trusted(d)
    BY <1>4, <2>1 DEF Waiters, Waiting, Trusted
  <2>3. ctx[d] = id
    BY <1>5, <2>1, <2>2 DEF Matching
  <2> QED
    BY <1>3, <2>2, <2>3 DEF Trusted
<1>13. \A d \in Clients \ {c} : Trusted(d)' <=> Trusted(d)
  BY <1>3, <1>4, <1>5, <1>6 DEF Trusted
<1>14. Trusted(c)' => running_state
  BY <1>4, <1>5 DEF Trusted
<1>15. Matching'
  <2>1. ASSUME NEW f \in InFlight', NEW d \in Clients, Trusted(d)', f[1] \in Ids
        PROVE  ctx'[d] = f[1] <=> call'[d] = f[2]
    <3>1. CASE f \in InFlight /\ d # c
      BY <1>5, <1>13, <2>1, <3>1 DEF Matching
    <3>2. CASE f \in InFlight /\ d = c
      BY <1>5, <1>9, <1>12, <1>14, <2>1, <3>2
    <3>3. CASE f = <<id, k>> /\ d # c
      <4>1. Holds(d)
        BY <1>13, <2>1, <3>3 DEF Trusted
      <4> QED
        BY <1>3, <1>5, <1>6, <3>3, <4>1
    <3>4. CASE f = <<id, k>> /\ d = c
      BY <1>5, <3>4
    <3> QED
      BY <1>1, <3>1, <3>2, <3>3, <3>4
  <2>2. ASSUME NEW f \in InFlight', NEW g \in InFlight', f[1] \in Ids, f[1] = g[1]
        PROVE  f = g \/ OneLate(f, g)' \/ OneLate(g, f)'
    <3>1. ASSUME NEW h \in InFlight, h[1] = id
          PROVE  k \in exposed' /\ h[2] \in gaveUp'
      BY <1>4, <1>5, <1>12, <3>1
    <3>2. CASE f \in InFlight /\ g \in InFlight
      <4>1. f = g \/ OneLate(f, g) \/ OneLate(g, f)
        BY <2>2, <3>2 DEF Matching
      <4>2. exposed \subseteq exposed' /\ gaveUp' = gaveUp
        BY <1>4, <1>5
      <4> QED
        BY <4>1, <4>2 DEF OneLate
    <3>3. CASE f = <<id, k>> /\ g = <<id, k>>
      BY <3>3
    <3>4. CASE f = <<id, k>> /\ g \in InFlight
      BY <2>2, <3>1, <3>4 DEF OneLate
    <3>5. CASE f \in InFlight /\ g = <<id, k>>
      BY <2>2, <3>1, <3>5 DEF OneLate
    <3> QED
      BY <1>1, <3>2, <3>3, <3>4, <3>5
  <2> QED
    BY <2>1, <2>2 DEF Matching, OneLate
<1>16. Handling'
  <2> SUFFICES ASSUME NEW x \in Handlers, hpc[x] \in {"copy", "post"}
               PROVE  /\ EntryReady(x)'
                      /\ cq[hslot[x]].id = hctx[x]
                      /\ hdst[x] \in {NoCmd, cq[hslot[x]].cmd} \cup exposed'
                      /\ \A d \in Clients : Trusted(d)' /\ ctx'[d] = hctx[x] =>
                            IF hpc[x] = "copy" THEN hdst[x] = call'[d] ELSE buf[d] = call'[d]
    BY <1>5 DEF Handling
  <2>1. /\ EntryReady(x)
        /\ cq[hslot[x]].id = hctx[x]
        /\ hdst[x] \in {NoCmd, cq[hslot[x]].cmd} \cup exposed
        /\ \A d \in Clients : Trusted(d) /\ ctx[d] = hctx[x] =>
              IF hpc[x] = "copy" THEN hdst[x] = call[d] ELSE buf[d] = call[d]
    BY DEF Handling
  <2>2. hslot[x] = Slot /\ Slot \in Unread
    BY <2>1, AtFirst DEF Scanning
  <2>3. Trusted(c)' => hctx[x] # id
    <3>1. <<hctx[x], cq[Slot].cmd>> \in InFlight
      BY <2>1, <2>2 DEF InFlight
    <3> QED
      BY <1>12, <1>14, <3>1
  <2>4. EntryReady(x)'
    BY <1>5, <2>1 DEF EntryReady
  <2>5. \A d \in Clients : Trusted(d)' /\ ctx'[d] = hctx[x] =>
           IF hpc[x] = "copy" THEN hdst[x] = call'[d] ELSE buf[d] = call'[d]
    BY <1>5, <1>13, <2>1, <2>3
  <2>6. exposed \subseteq exposed'
    BY <1>4
  <2> QED
    BY <2>1, <2>4, <2>5, <2>6
<1>17. Verdicts'
  <2> SUFFICES ASSUME NEW d \in Clients, call'[d] \notin exposed'
               PROVE  /\ Holds(d)' /\ status'[ctx'[d]] = "COMPLETED" =>
                            HasAnswer(d)' /\ comp_status'[ctx'[d]] = answer'[call'[d]]
                      /\ /\ pc'[d] \in {"release", "decrement", "returned"}
                         /\ call'[d] # NoCmd /\ ret'[d] \notin DriverErrors
                         => HasAnswer(d)' /\ ret'[d] = Errno(answer'[call'[d]])
    BY DEF Verdicts
  <2>1. CASE d = c
    BY <1>5, <2>1
  <2>2. CASE d # c
    <3>1. call[d] \notin exposed
      BY <1>4, <1>5, <2>2
    <3>2. HasAnswer(d)' <=> HasAnswer(d)
      BY <1>5, <2>2 DEF HasAnswer
    <3>3. Holds(d)' => Holds(d) /\ status'[ctx[d]] = status[ctx[d]]
      BY <1>3, <1>5, <2>2
    <3> QED
      BY <1>5, <2>2, <3>1, <3>2, <3>3 DEF Verdicts
  <2> QED
    BY <2>1, <2>2
<1> QED
  BY <1>2, <1>8, <1>11, <1>15, <1>16, <1>17

\* The rings are made anew, whether they were overrun or not.
LEMMA UpCallers ==
    ASSUME IInv, MemoryInv', AdminInit
    PROVE  RingInv' /\ CallerInv'
<1> USE DEF IInv
<1>1. RingInv' /\ Load' = 0 /\ InFlight' = {}
  BY UpInv
<1>2. /\ \A c \in Clients : ~Holds(c)'
      /\ \A x \in Handlers : hpc'[x] \notin {"copy", "post"}
  BY UpCalls
<1>3. Backed'
  <2>1. Waiters' = {}
    BY <1>2 DEF Waiters, Waiting
  <2> QED
    BY <1>1, <2>1, FS_EmptySet DEF Backed
<1>4. Expected' /\ Matching'
  BY <1>1 DEF Expected, Matching
<1>5. Handling'
  BY <1>2 DEF Handling
<1>6. Verdicts'
  <2>1. UNCHANGED <<pc, call, ret, buf, answer, exposed>>
    BY DEF AdminInit, clientVars
  <2>2. \A c \in Clients : HasAnswer(c)' <=> HasAnswer(c)
    BY <2>1 DEF HasAnswer
  <2>3. ASSUME NEW c \in Clients, call[c] \notin exposed,
               pc[c] \in {"release", "decrement", "returned"},
               call[c] # NoCmd, ret[c] \notin DriverErrors
        PROVE  HasAnswer(c) /\ ret[c] = Errno(answer[call[c]])
    BY <2>3 DEF Overran, CallerInv, Verdicts
  <2> QED
    BY <1>2, <2>1, <2>2, <2>3 DEF Verdicts
<1> QED
  BY <1>1, <1>3, <1>4, <1>5, <1>6 DEF CallerInv

-----------------------------------------------------------------------------
(***************************************************************************)
(* When the rings are overrun                                              *)
(***************************************************************************)
\* The response a handler is about to copy is for a call that waits for it, gave up
\* or is exposed, or for nobody.
LEMMA CopiesExpected ==
    ASSUME Good, NEW x \in Handlers, hpc[x] = "copy"
    PROVE  hdst[x] \in exposed \cup gaveUp \cup {NoCmd} \cup {call[d] : d \in Clients}
<1> USE DEF Good, Always, MemoryInv, CallerInv
<1>1. EntryReady(x) /\ hdst[x] \in {NoCmd, cq[hslot[x]].cmd} \cup exposed
  BY DEF Handling
<1>2. hslot[x] \in Unread
  BY <1>1, AtFirst DEF Scanning
<1>3. <<cq[hslot[x]].id, cq[hslot[x]].cmd>> \in InFlight
  BY <1>2 DEF InFlight
<1>4. cq[hslot[x]].cmd \in gaveUp \cup exposed \/ \E d \in Waiters : call[d] = cq[hslot[x]].cmd
  BY <1>3 DEF Expected
<1> QED
  BY <1>1, <1>4 DEF Waiters

\* The submission that overruns them exposes every call.
LEMMA SubmitOverruns ==
    ASSUME Good, MemoryInv', NEW c \in Clients, Submit(c), overrun'
    PROVE  Overran'
<1>1. PICK k : /\ Exposes(k) /\ call'[c] = k /\ UNCHANGED <<hpc, hdst, gaveUp>>
               /\ \A d \in Clients \ {c} : call'[d] = call[d]
  BY SubmitTakes DEF Takes, Good
<1>2. exposed' = exposed \cup {k} \cup {call[d] : d \in Clients}
  BY <1>1 DEF Exposes
<1>3. \A d \in Clients : call'[d] \in exposed'
  BY <1>1, <1>2
<1>4. \A x \in Handlers : hpc'[x] = "copy" => hdst'[x] \in exposed' \cup gaveUp' \cup {NoCmd}
  BY <1>1, <1>2, CopiesExpected
<1> QED
  BY <1>3, <1>4 DEF Overran

\* Until they are made anew all calls stay exposed: nobody can submit another command.
LEMMA OverranKept ==
    ASSUME Always, MemoryInv', Overran, overrun, overrun', [Next]_vars
    PROVE  Overran'
<1> USE DEF Always, CallInv
<1>1. ASSUME \A c \in Clients : call'[c] \in {call[c], NoCmd}, HandlersStay,
             exposed' = exposed, gaveUp \subseteq gaveUp'
      PROVE  Overran'
  BY <1>1 DEF Overran, HandlersStay
<1>2. ASSUME Calm, HandlersStay PROVE Overran'
  BY <1>1, <1>2 DEF Calm
<1>3. ASSUME NEW c \in Clients, Submit(c) PROVE Overran'
  <2>1. Admitting
    BY <1>3 DEF Submit, Admitting
  <2> QED
    BY <2>1 DEF Admission
<1>4. ASSUME NEW c \in Clients, CallerPasses(c) PROVE Overran'
  <2>1. Passes(c)
    BY <1>4, CallerPass
  <2>2. HandlersStay /\ \A d \in Clients : call'[d] \in {call[d], NoCmd}
    BY <2>1 DEF Passes, HandlersStay
  <2> QED
    BY <1>1, <2>1, <2>2 DEF Passes
<1>5. ASSUME NEW c \in Clients, CallerStaysCalm(c) PROVE Overran'
  BY <1>2, <1>5, CallerCalm DEF CallerStaysCalm
<1>6. CASE BetweenScans
  BY <1>2, <1>6, HandlerCalm DEF BetweenScans
<1>7. CASE Aside
  BY <1>2, <1>7, OthersCalm DEF Aside
<1>8. ASSUME NEW x \in Handlers, AtWork(x) PROVE Overran'
  <2>1. Calm
    BY <1>8, WorkCalm DEF AtWork
  <2>2. \A c \in Clients : call'[c] \in exposed' \cup {NoCmd}
    BY <2>1 DEF Calm, Overran
  <2>3. \A y \in Handlers : hpc'[y] = "copy" => hdst'[y] \in exposed' \cup gaveUp' \cup {NoCmd}
    <3>0. hpc \in [Handlers -> HandlerPc] /\ hdst \in [Handlers -> Cmds \cup {NoCmd}]
      BY DEF MemoryInv, TypeOK, HandlerType
    <3>1. CASE FindContext(x)
      <4>1. PICK id \in Ids : /\ hpc' = [hpc EXCEPT ![x] = "copy"]
                              /\ hdst' = [hdst EXCEPT ![x] = user_cqe[id]]
        BY <3>1 DEF FindContext, After
      <4>2. user_cqe[id] \in exposed \cup {NoCmd}
        <5>1. CASE occupied[id]
          <6>1. PICK c \in Clients : Holds(c) /\ ctx[c] = id
            BY <5>1 DEF MemoryInv, OwnerInv
          <6> QED
            BY <6>1 DEF Calling, Overran
        <5>2. CASE ~occupied[id]
          BY <5>2 DEF Calling
        <5> QED
          BY <5>1, <5>2
      <4> QED
        BY <2>1, <3>0, <4>1, <4>2 DEF Calm, Overran
    <3>2. CASE CopyResponse(x)
      BY <2>1, <3>0, <3>2 DEF CopyResponse, After, Calm, Overran
    <3>3. CASE PostStatus(x)
      BY <2>1, <3>0, <3>3 DEF PostStatus, After, Calm, Overran
    <3> QED
      BY <1>8, <3>1, <3>2, <3>3 DEF AtWork
  <2> QED
    BY <2>2, <2>3 DEF Overran
<1>9. CASE AdminInit
  BY <1>9 DEF AdminInit
<1> QED
  BY <1>3, <1>4, <1>5, <1>6, <1>7, <1>8, <1>9, StepKinds

\* A response that comes too late is for a call that gave up or is exposed.
LEMMA StrayStep ==
    ASSUME IInv, MemoryInv', [Next]_vars
    PROVE  StrayOnlyAfterGivingUp'
<1> USE DEF IInv
<1>1. ASSUME stray' = stray, gaveUp \subseteq gaveUp', exposed \subseteq exposed'
      PROVE  StrayOnlyAfterGivingUp'
  BY <1>1 DEF StrayOnlyAfterGivingUp
<1>2. ASSUME NEW c \in Clients, Submit(c) PROVE StrayOnlyAfterGivingUp'
  BY <1>1, <1>2 DEF Submit, Expose
<1>3. ASSUME NEW c \in Clients, CallerPasses(c) PROVE StrayOnlyAfterGivingUp'
  BY <1>1, <1>3, CallerPass DEF Passes
<1>4. ASSUME NEW c \in Clients, CallerStaysCalm(c) PROVE StrayOnlyAfterGivingUp'
  BY <1>1, <1>4, CallerCalm DEF CallerStaysCalm, Calm
<1>5. CASE BetweenScans
  BY <1>1, <1>5, HandlerCalm DEF BetweenScans, Calm
<1>6. CASE Aside
  BY <1>1, <1>6, OthersCalm DEF Aside, Calm
<1>7. ASSUME NEW x \in Handlers, AtWork(x) PROVE StrayOnlyAfterGivingUp'
  <2>1. CASE FindContext(x) \/ PostStatus(x)
    BY <1>1, <2>1 DEF FindContext, PostStatus, ghostVars
  <2>2. CASE CopyResponse(x)
    <3>1. /\ hpc[x] = "copy" /\ UNCHANGED <<gaveUp, exposed>>
          /\ \/ stray' = stray
             \/ /\ stray' = stray \cup {hdst[x]} /\ hdst[x] # NoCmd
                /\ \A c \in Clients : call[c] # hdst[x]
      BY <2>2 DEF CopyResponse
    <3>2. hdst[x] \in exposed \cup gaveUp \cup {NoCmd} \cup {call[d] : d \in Clients}
      BY <3>1, CopiesExpected DEF Good, Overran
    <3> QED
      BY <3>1, <3>2 DEF StrayOnlyAfterGivingUp
  <2> QED
    BY <1>7, <2>1, <2>2 DEF AtWork
<1>8. CASE AdminInit
  BY <1>1, <1>8 DEF AdminInit
<1> QED
  BY <1>2, <1>3, <1>4, <1>5, <1>6, <1>7, <1>8, StepKinds

-----------------------------------------------------------------------------
(***************************************************************************)
(* The induction                                                           *)
(***************************************************************************)
LEMMA IInit == Init => IInv
<1> SUFFICES ASSUME Init PROVE IInv
  OBVIOUS
<1>1. MemoryInv
  BY MemoryInit
<1>2. NobodyScans
  BY DEF Init, NobodyScans, Scanning
<1>3. Slot = 0 /\ Phase = TRUE
  BY <1>2, SlotAtRest DEF AtHead, Init
<1>4. Unread = {} /\ unread = 0 /\ CqShape
  BY <1>3, CqFresh DEF Init
<1>5. Announced = {} /\ SqShape
  <2>1. announced = 0 /\ executing = {} /\ devHead \in Ids
        /\ (Alive => sqTail = devHead /\ sqPhase = devSqPhase)
    BY ZeroId DEF Init
  <2> QED
    BY <2>1, SqEmpty
<1>6. Load = 0 /\ Room
  <2>1. announced = 0 /\ executing = {}
    BY DEF Init
  <2> QED
    BY <1>4, <2>1, FS_EmptySet, DepthType DEF Load, Room, unread
<1>7. OnePlace
  BY <1>4, <1>5 DEF Init, OnePlace
<1>8. Answers
  BY <1>4, <1>5 DEF Init, Answers
<1>9. InFlight = {}
  BY <1>4, <1>5 DEF Init, InFlight
<1>10. \A c \in Clients : ~Holds(c) /\ pc[c] = "idle"
  BY DEF Init, Holds
<1>11. Calling
  BY <1>10 DEF Init, Calling
<1>12. Backed /\ Expected /\ Matching
  BY <1>9 DEF Init, Backed, Expected, Matching
<1>13. Handling
  BY DEF Init, Handling
<1>14. Verdicts /\ Aborts
  BY <1>10 DEF Verdicts, Aborts
<1>15. StrayOnlyAfterGivingUp
  BY DEF Init, StrayOnlyAfterGivingUp
<1>16. Admission
  BY <1>10 DEF Init, Admission
<1>17. Numbered
  <2>1. \A i \in Ids : sq[i].cmd = NoCmd
    BY DEF Init, NoSqEntry
  <2>2. executing = {} /\ announced = 0 /\ \A k \in Cmds : answer[k] = "none"
    BY DEF Init
  <2> QED
    BY <2>1, <2>2 DEF Numbered
<1>18. ~overrun
  BY DEF Init
<1>19. RingInv /\ CallerInv
  BY <1>4, <1>5, <1>6, <1>7, <1>8, <1>12, <1>13, <1>14 DEF RingInv, CallerInv
<1>20. Always
  BY <1>1, <1>11, <1>14, <1>16, <1>17 DEF Always, CallInv
<1> QED
  BY <1>15, <1>18, <1>19, <1>20 DEF IInv

\* As long as the rings are not overrun ...
LEMMA GoodStep ==
    ASSUME Good, MemoryInv', [Next]_vars, ~AdminInit, ~overrun'
    PROVE  RingInv' /\ CallerInv'
<1>1. ASSUME Quiet /\ RingInv' PROVE RingInv' /\ CallerInv'
  BY <1>1, QuietInv
<1>2. ASSUME NEW c \in Clients, Submit(c) PROVE RingInv' /\ CallerInv'
  BY <1>2, SubmitCallers
<1>3. ASSUME NEW c \in Clients, CallerPasses(c) PROVE RingInv' /\ CallerInv'
  BY <1>3, CallerPass, PassesTruthful, PassInv DEF Good
<1>4. ASSUME NEW c \in Clients, CallerStaysCalm(c) PROVE RingInv' /\ CallerInv'
  BY <1>1, <1>4, CallerQuiet
<1>5. ASSUME NEW x \in Handlers, AtWork(x) PROVE RingInv' /\ CallerInv'
  BY <1>5, FindInv, CopyInv, PostInv DEF AtWork
<1>6. CASE BetweenScans
  BY <1>1, <1>6, HandlerQuiet
<1>7. CASE Aside
  BY <1>1, <1>7, OthersQuiet
<1> QED
  BY <1>2, <1>3, <1>4, <1>5, <1>6, <1>7, StepKinds

\* ... which only a submission does and only a bring-up undoes.
LEMMA OverrunStep ==
    ASSUME Always, MemoryInv', [Next]_vars
    PROVE  \/ (\E c \in Clients : Submit(c)) /\ ~overrun
           \/ AdminInit /\ ~overrun'
           \/ overrun' = overrun
<1>1. ASSUME NEW c \in Clients, Submit(c) PROVE ~overrun
  BY <1>1 DEF Submit, Admitting, Always, CallInv, Admission
<1>2. ASSUME NEW c \in Clients, CallerPasses(c) PROVE overrun' = overrun
  BY <1>2, CallerPass DEF Passes
<1>3. ASSUME NEW c \in Clients, CallerStaysCalm(c) PROVE overrun' = overrun
  BY <1>3, CallerCalm DEF CallerStaysCalm, Calm
<1>4. ASSUME NEW x \in Handlers, AtWork(x) PROVE overrun' = overrun
  BY <1>4, WorkCalm DEF AtWork, Calm
<1>5. CASE BetweenScans
  BY <1>5, HandlerCalm DEF BetweenScans, Calm
<1>6. CASE Aside
  BY <1>6, OthersCalm DEF Aside, Calm
<1>7. CASE AdminInit
  BY <1>7 DEF AdminInit
<1> QED
  BY <1>1, <1>2, <1>3, <1>4, <1>5, <1>6, <1>7, StepKinds

\* The invariant, case by case.
LEMMA ICases ==
    /\ IInv => Always /\ StrayOnlyAfterGivingUp /\ (overrun => Overran)
               /\ (~overrun => Good)
    /\ Always /\ StrayOnlyAfterGivingUp /\ (overrun => Overran)
       /\ (~overrun => RingInv /\ CallerInv) => IInv
  BY Zenon DEF IInv, Good

\* Every step keeps the invariant.
LEMMA IStep == IInv /\ [Next]_vars => IInv'
<1> SUFFICES ASSUME IInv, [Next]_vars PROVE IInv'
  OBVIOUS
<1>0. Always /\ (overrun => Overran) /\ (~overrun => Good)
  BY ICases
<1>1. MemoryInv'
  BY <1>0, MemoryStep DEF Always
<1>2. Always' /\ StrayOnlyAfterGivingUp'
  BY <1>0, <1>1, CallStep, NumberedStep, StrayStep DEF Always
<1>3. overrun' => Overran'
  <2>1. CASE overrun
    BY <1>0, <1>1, <2>1, OverranKept
  <2>2. ASSUME NEW c \in Clients, Submit(c), ~overrun PROVE overrun' => Overran'
    BY <1>0, <1>1, <2>2, SubmitOverruns
  <2> QED
    BY <1>0, <1>1, <2>1, <2>2, OverrunStep
<1>4. ~overrun' => RingInv' /\ CallerInv'
  <2>1. CASE AdminInit
    BY <1>1, <2>1, UpCallers
  <2>2. CASE ~AdminInit
    BY <1>0, <1>1, <2>2, OverrunStep, GoodStep
  <2> QED
    BY <2>1, <2>2
<1>5. (Always /\ StrayOnlyAfterGivingUp /\ (overrun => Overran)
       /\ (~overrun => RingInv /\ CallerInv) => IInv)'
  BY ICases, PTL
<1> QED
  BY <1>2, <1>3, <1>4, <1>5

\* The induction the theorems below rest on.
LEMMA ICorrect == Spec => []IInv
  BY IInit, IStep, PTL DEF Spec

-----------------------------------------------------------------------------
(***************************************************************************)
(* The theorems                                                            *)
(***************************************************************************)
\* The rings stay usable: driver and device agree on both positions and phases,
\* neither laps the other, and an id in flight names one command, but for the one
\* submission to the closed queue.
THEOREM RingsAgree == Spec => []RingsInStep
<1>1. Good => RingsInStep
  <2> SUFFICES ASSUME Good PROVE RingsInStep
    OBVIOUS
  <2> USE DEF Good, Always, MemoryInv, RingInv, CallerInv
  <2>1. PositionsAgree
    <3>1. devTail = (Slot + Cardinality(Unread)) % Depth
      <4>1. Slot \in Ids /\ unread \in 0..Depth /\ devTail = Plus(Slot, unread)
        BY SlotType DEF CqShape
      <4>2. Plus(Slot, unread) = (Slot + unread) % Depth
        BY <4>1, PlusIs
      <4> QED
        BY <4>1, <4>2 DEF unread
    <3>2. Unread = {s \in Ids : Distance(Slot, s) < Cardinality(Unread)}
      BY DEF CqShape, Window, unread
    <3>3. Load <= Depth
      BY DEF Room
    <3>4. td \in {"init", "polled", "irqOn", "up", "closed"} => sqTail = (devHead + announced) % Depth
      <4>1. devHead \in Ids /\ announced \in 0..Depth
        BY DEF SqShape, TypeOK, DevType
      <4>2. Plus(devHead, announced) = (devHead + announced) % Depth
        BY <4>1, PlusIs
      <4> QED
        BY <4>2 DEF SqShape, Alive
    <3>5. \A s \in Announced : sq[s].phase = IF s >= devHead THEN devSqPhase ELSE ~devSqPhase
      BY DEF SqShape, PhaseAt
    <3> QED
      BY <3>1, <3>2, <3>3, <3>4, <3>5 DEF PositionsAgree
  <2>2. IdsInFlightDistinct
    <3> DEFINE inFlight == {<<sq[s].id, sq[s].cmd>> : s \in Announced}
                           \cup {<<e.id, e.cmd>> : e \in executing}
                           \cup {<<cq[s].id, cq[s].cmd>> : s \in {t \in Unread : cq[t].id \in Ids}}
    <3>1. inFlight \subseteq InFlight
      BY DEF InFlight
    <3>2. \A f \in inFlight : f[1] \in Ids
      <4>1. \A s \in Announced : sq[s].id \in Ids
        BY DEF Announced, TypeOK, RingType, SqEntry
      <4>2. \A e \in executing : e.id \in Ids
        BY DEF TypeOK, DevType, SqEntry
      <4> QED
        BY <4>1, <4>2
    <3>3. \A e, f \in inFlight : e[1] = f[1] => \/ e = f
                                                \/ e[2] \in exposed /\ f[2] \in gaveUp
                                                \/ f[2] \in exposed /\ e[2] \in gaveUp
      <4> HIDE DEF inFlight
      <4> QED
        BY <3>1, <3>2 DEF Matching, OneLate
    <3> QED
      BY <3>3 DEF IdsInFlightDistinct
  <2> QED
    BY <2>1, <2>2 DEF RingsInStep
<1>2. overrun => RingsInStep
  BY DEF RingsInStep, PositionsAgree, IdsInFlightDistinct
<1>3. IInv => RingsInStep
  BY <1>1, <1>2, ICases
<1> QED
  BY <1>3, ICorrect, PTL

\* A call that comes back with the device's verdict has its own command's answer,
\* but for those that a submission to the closed queue exposed.
THEOREM AnswersAreOwn == Spec => []ResponseIsOwn
<1>1. Good => ResponseIsOwn
  BY DEF Good, CallerInv, Verdicts, HasAnswer, ResponseIsOwn, Answered, OwnAnswer
<1>2. Overran => ResponseIsOwn
  BY DEF Overran, ResponseIsOwn, Answered
<1>3. IInv => ResponseIsOwn
  BY <1>1, <1>2, ICases
<1> QED
  BY <1>3, ICorrect, PTL

\* A response is copied too late only for a call that timed out, was aborted or is
\* exposed.
THEOREM StrayIsGivenUp == Spec => []StrayOnlyAfterGivingUp
<1>1. IInv => StrayOnlyAfterGivingUp
  BY ICases
<1> QED
  BY <1>1, ICorrect, PTL

-----------------------------------------------------------------------------
(***************************************************************************)
(* The queue implements AdminCommands                                      *)
(***************************************************************************)
\* What the callers see of the queue: the refinement mapping.
CallMode == IF overrun THEN "overrun" ELSE IF running_state THEN "open"
            ELSE IF \E c \in Clients : pc[c] = "submit" THEN "closing" ELSE "closed"
CallState == [c \in Clients |-> IF pc[c] = "submit" THEN "idle"
                                ELSE IF pc[c] \in {"idle", "returned"} THEN pc[c] ELSE "pending"]
CallResponse == [c \in Clients |-> IF pc[c] = "returned" /\ ret[c] \notin DriverErrors
                                   THEN buf[c] ELSE NoCmd]
CallResult == [c \in Clients |-> IF pc[c] = "returned" THEN ret[c] ELSE "none"]
callVars == <<exposed, CallState, call, CallResponse, CallResult, lastCmd, answer>>

\* It sees of a step in which nobody is issued or comes back at most that the queue
\* closes.
Unseen ==
    /\ UNCHANGED <<call, lastCmd, answer, exposed, overrun>>
    /\ running_state' => running_state
    /\ \A c \in Clients :
          /\ pc'[c] = pc[c] \/ {pc[c], pc'[c]} \cap {"idle", "submit", "returned"} = {}
          /\ pc[c] = "returned" =>
                ret'[c] = ret[c] /\ (ret[c] \notin DriverErrors => buf'[c] = buf[c])

\* The mapping of AdminQueue and the names it has here.
LEMMA RpcVars ==
    /\ Rpc!vars = <<CallMode, exposed, CallState, call, CallResponse, CallResult, lastCmd, answer>>
    /\ Rpc!vars' = <<CallMode', exposed', CallState', call', CallResponse', CallResult', lastCmd',
                     answer'>>
  BY DEF Rpc!vars, CallMode, CallState, CallResult, CallResponse

\* A step that moves nothing a call's caller can see is a stutter of AdminCommands, or
\* closes it.
LEMMA UnseenStutters == Unseen => Rpc!Close \/ UNCHANGED Rpc!vars
<1> SUFFICES ASSUME Unseen PROVE Rpc!Close \/ UNCHANGED Rpc!vars
  OBVIOUS
<1>1. CallState' = CallState
  BY DEF Unseen, CallState
<1>2. CallResponse' = CallResponse
  BY DEF Unseen, CallResponse
<1>3. CallResult' = CallResult
  BY DEF Unseen, CallResult
<1>4. \/ CallMode' = CallMode
      \/ CallMode = "open" /\ CallMode' \in {"closing", "closed"}
  <2>1. (\E c \in Clients : pc[c] = "submit") <=> (\E c \in Clients : pc'[c] = "submit")
    BY DEF Unseen
  <2>2. overrun' = overrun /\ (running_state' => running_state)
    BY DEF Unseen
  <2> QED
    BY <2>1, <2>2 DEF CallMode
<1>5. CASE CallMode' = CallMode
  BY <1>1, <1>2, <1>3, <1>5, RpcVars DEF Unseen
<1>6. CASE CallMode = "open" /\ CallMode' \in {"closing", "closed"}
  <2>1. Rpc!Close
    BY <1>1, <1>2, <1>3, <1>6
    DEF Unseen, Rpc!Close, CallMode, CallState, CallResult, CallResponse
  <2> QED
    BY <2>1
<1> QED
  BY <1>4, <1>5, <1>6

\* What a caller does while it is in the queue.
LEMMA CallersUnseen ==
    ASSUME Always, NEW c \in Clients, Wait(c), ~Decrement(c), ~Return(c)
    PROVE  Unseen
<1> USE DEF adminVars, ctxVars, handlerVars, clientVars, tdVars, devVars, ghostVars, Goto, Move
<1>0. pc \in [Clients -> ClientPc] /\ ret \in [Clients -> Results]
  BY DEF Always, MemoryInv, TypeOK, ClientType
<1>1. CASE ChooseWait(c) \/ LockToPoll(c) \/ TakeOwnership(c) \/ Release(c)
  BY <1>0, <1>1 DEF ChooseWait, LockToPoll, TakeOwnership, Release, Unseen
<1>2. CASE PollCheck(c) \/ PollExpired(c) \/ Aborted(c)
  BY <1>0, <1>2 DEF PollCheck, PollExpired, Aborted, Unseen
<1>3. CASE Woken(c) \/ WaitExpired(c) \/ IntrCheck(c)
  BY <1>0, <1>3 DEF Woken, WaitExpired, IntrCheck, Unseen
<1>4. CASE NoCompletion(c) \/ MissingInterruptFatal(c) \/ MissingInterruptPolls(c) \/ CloseAq(c)
  BY <1>0, <1>4 DEF NoCompletion, MissingInterruptFatal, MissingInterruptPolls, CloseAq, Unseen
<1> QED
  BY <1>1, <1>2, <1>3, <1>4 DEF Wait

\* What the handlers do but for copying a response, and teardown and bring-up but for
\* making the rings anew.
LEMMA OthersUnseen ==
    ASSUME Always,
           \/ \E x \in Handlers : Handle(x) /\ ~CopyResponse(x)
           \/ Interrupt \/ Close \/ TearDown \/ (BringUp /\ ~AdminInit) \/ DeviceFetch
           \/ UNCHANGED vars
    PROVE  Unseen
<1> USE DEF adminVars, ctxVars, handlerVars, clientVars, tdVars, devVars, ghostVars, Goto
<1>0. pc \in [Clients -> ClientPc] /\ ret \in [Clients -> Results]
  BY DEF Always, MemoryInv, TypeOK, ClientType
<1>1. ASSUME NEW x \in Handlers, FindContext(x) \/ BadCompletion(x) \/ PostStatus(x) \/ Wake(x)
      PROVE  Unseen
  BY <1>1 DEF FindContext, BadCompletion, PostStatus, Wake, Unseen
<1>2. ASSUME NEW x \in Handlers, FinishScan(x) PROVE Unseen
  <2>1. x \in Clients => pc[x] \in {"pollScan", "intrScan"}
    BY <1>2 DEF FinishScan, Always, MemoryInv, LockInv, InScan
  <2> QED
    BY <1>0, <1>2, <2>1 DEF FinishScan, Unseen
<1>3. CASE Interrupt \/ Close \/ DeviceFetch \/ UNCHANGED vars
  BY <1>3 DEF Interrupt, Close, DeviceFetch, vars, Unseen
<1>4. CASE TearDown
  BY <1>4 DEF TearDown, ResetDevice, FreeIrq, AbortOne, Destroy, Unseen
<1>5. CASE BringUp /\ ~AdminInit
  BY <1>5 DEF BringUp, PollFirst, RequestIrq, InterruptsOn, Unseen
<1> QED
  BY <1>1, <1>2, <1>3, <1>4, <1>5 DEF Handle

\* A call that is over with a verdict has its answer or is exposed.
LEMMA VerdictOrExposed ==
    ASSUME IInv, NEW c \in Clients, pc[c] \in {"decrement", "returned"},
           call[c] # NoCmd, ret[c] \notin DriverErrors
    PROVE  call[c] \in exposed \/ (HasAnswer(c) /\ ret[c] = Errno(answer[call[c]]))
<1>1. Good => call[c] \in exposed \/ (HasAnswer(c) /\ ret[c] = Errno(answer[call[c]]))
  BY DEF Good, CallerInv, Verdicts
<1>2. Overran => call[c] \in exposed
  BY DEF Overran
<1> QED
  BY <1>1, <1>2, ICases

\* A response that is copied to a call that is over: it has it already, or is exposed.
LEMMA CopyRefines ==
    ASSUME IInv, NEW x \in Handlers, CopyResponse(x)
    PROVE  Unseen \/ \E c \in Clients : Rpc!Overwrite(c)
<1>0. /\ pc \in [Clients -> ClientPc] /\ ret \in [Clients -> Results]
      /\ buf \in [Clients -> Cmds \cup {NoCmd}]
      /\ cq[hslot[x]].cmd \in Cmds \cup {NoCmd}
      /\ Always /\ Calling
  BY DEF IInv, Always, CallInv, MemoryInv, TypeOK, ClientType, RingType, HandlerType, CqEntry
<1>1. DEFINE k == hdst[x]
             e == cq[hslot[x]].cmd
<1>2. /\ hpc[x] = "copy"
      /\ UNCHANGED <<pc, ret, call, lastCmd, answer, exposed, overrun, running_state>>
      /\ buf' = [c \in Clients |-> IF k # NoCmd /\ call[c] = k THEN e ELSE buf[c]]
  BY DEF CopyResponse, adminVars
<1>3. Good /\ k \notin exposed => k \in {NoCmd, e}
  BY <1>2 DEF Good, CallerInv, Handling
<1>4. Overran => \A c \in Clients : call[c] \in exposed \cup {NoCmd}
  BY DEF Overran
<1> HIDE DEF k, e
<1>5. CASE \E c \in Clients : /\ pc[c] = "returned" /\ ret[c] \notin DriverErrors
                              /\ call[c] = k /\ k # NoCmd /\ k \in exposed
  <2>1. PICK c \in Clients : /\ pc[c] = "returned" /\ ret[c] \notin DriverErrors
                             /\ call[c] = k /\ k # NoCmd /\ k \in exposed
    BY <1>5
  <2>2. \A d \in Clients : call[d] = k => d = c
    BY <1>0, <2>1 DEF Calling
  <2>3. CallState[c] = "returned" /\ CallState' = CallState /\ CallResult' = CallResult
        /\ CallMode' = CallMode
    BY <1>2, <2>1 DEF CallState, CallResult, CallMode
  <2>4. CallResponse' = [CallResponse EXCEPT ![c] = e]
    BY <1>2, <2>1, <2>2 DEF CallResponse
  <2>5. e \in Rpc!Cmds \cup {Rpc!NoCmd}
    BY <1>0 DEF e, Rpc!Cmds, Rpc!NoCmd, Cmds, NoCmd
  <2>6. Rpc!Overwrite(c)
    BY <1>2, <2>1, <2>3, <2>4, <2>5
    DEF Rpc!Overwrite, CallMode, CallState, CallResult, CallResponse
  <2> QED
    BY <2>6
<1>6. CASE ~\E c \in Clients : /\ pc[c] = "returned" /\ ret[c] \notin DriverErrors
                               /\ call[c] = k /\ k # NoCmd /\ k \in exposed
  <2>1. ASSUME NEW c \in Clients, pc[c] = "returned", ret[c] \notin DriverErrors
        PROVE  buf'[c] = buf[c]
    <3>1. CASE call[c] = k /\ k # NoCmd
      <4>1. k \notin exposed
        BY <1>6, <2>1, <3>1
      <4>2. HasAnswer(c)
        BY <2>1, <3>1, <4>1, VerdictOrExposed
      <4>3. Good
        BY <1>4, <3>1, <4>1, ICases
      <4> QED
        BY <1>2, <1>3, <3>1, <4>1, <4>2, <4>3 DEF HasAnswer
    <3>2. CASE ~(call[c] = k /\ k # NoCmd)
      BY <1>2, <3>2
    <3> QED
      BY <3>1, <3>2
  <2> QED
    BY <1>2, <2>1 DEF Unseen
<1> QED
  BY <1>5, <1>6

\* Errors are translated the same way on both sides.
LEMMA RpcErrno == \A st : Rpc!Errno(st) = Errno(st)
  BY DEF Rpc!Errno, Errno

\* Only one caller is on his way in, while nothing is overrun.
LEMMA WayIn ==
    ASSUME Always, NEW c \in Clients, pc[c] = "submit"
    PROVE  /\ ~overrun /\ CallMode = (IF running_state THEN "open" ELSE "closing")
           /\ \A d \in Clients \ {c} : pc[d] # "submit"
<1>1. ~overrun
  BY DEF Always, CallInv, Admission, Admitting
<1> QED
  BY <1>1 DEF Always, MemoryInv, LockInv, CallMode

\* A call that starts: it is still with its caller.
LEMMA EnterUnseen ==
    ASSUME Always, NEW c \in Clients, LockToSubmit(c)
    PROVE  UNCHANGED Rpc!vars
<1>0. pc \in [Clients -> ClientPc]
  BY DEF Always, MemoryInv, TypeOK, ClientType
<1>1. /\ pc[c] = "idle" /\ pc' = [pc EXCEPT ![c] = "submit"] /\ running_state
      /\ UNCHANGED <<call, ret, buf, lastCmd, answer, exposed, overrun, running_state>>
  BY DEF LockToSubmit, Goto, ghostVars
<1>2. CallMode' = CallMode
  BY <1>1 DEF CallMode
<1>3. CallState' = CallState
  BY <1>0, <1>1 DEF CallState
<1>4. CallResult' = CallResult /\ CallResponse' = CallResponse
  BY <1>0, <1>1 DEF CallResult, CallResponse
<1> QED
  BY <1>1, <1>2, <1>3, <1>4, RpcVars

\* A refused call: it is with its caller, and has no response.
LEMMA RefuseRefines ==
    ASSUME Always, NEW c \in Clients, RefuseNotRunning(c) \/ RefuseFull(c) \/ RefuseOccupied(c)
    PROVE  Rpc!Refuse(c)
<1>0. pc \in [Clients -> ClientPc] /\ ret \in [Clients -> Results]
  BY DEF Always, MemoryInv, TypeOK, ClientType
<1>1. PICK e \in {"ENODEV", "ENOSPC", "EINVAL"} : ret' = [ret EXCEPT ![c] = e]
  BY DEF RefuseNotRunning, RefuseFull, RefuseOccupied, Refuse
<1>2. /\ pc[c] \in {"idle", "submit"} /\ pc' = [pc EXCEPT ![c] = "returned"]
      /\ UNCHANGED <<call, buf, lastCmd, answer, exposed, overrun>>
  BY DEF RefuseNotRunning, RefuseFull, RefuseOccupied, Refuse, Goto, ghostVars
<1>3. buf[c] = NoCmd
  BY <1>2 DEF Always, CallInv, Calling
<1>4. CallState[c] = "idle" /\ CallState' = [CallState EXCEPT ![c] = "returned"]
  BY <1>0, <1>2 DEF CallState
<1>5. CallResult' = [CallResult EXCEPT ![c] = e]
  BY <1>0, <1>1, <1>2 DEF CallResult
<1>6. CallResponse' = CallResponse
  BY <1>0, <1>1, <1>2, <1>3 DEF CallResponse
<1>7. e \in Rpc!RefusalErrors
  BY DEF Rpc!RefusalErrors
<1>8. CallMode' = CallMode \/ (CallMode \in {"open", "closing"} /\ CallMode' = "closed")
  <2>1. CASE RefuseNotRunning(c)
    <3>1. pc[c] = "idle" /\ running_state' = running_state
      BY <2>1 DEF RefuseNotRunning, Refuse
    <3>2. (\E d \in Clients : pc[d] = "submit") <=> (\E d \in Clients : pc'[d] = "submit")
      BY <1>0, <1>2, <3>1
    <3> QED
      BY <1>2, <3>1, <3>2 DEF CallMode
  <2>2. CASE RefuseFull(c) \/ RefuseOccupied(c)
    <3>1. pc[c] = "submit" /\ running_state' = FALSE
      BY <2>2 DEF RefuseFull, RefuseOccupied, Refuse
    <3>2. /\ ~overrun /\ CallMode \in {"open", "closing"}
          /\ \A d \in Clients : pc'[d] # "submit"
      BY <1>0, <1>2, <3>1, WayIn
    <3> QED
      BY <1>2, <3>1, <3>2 DEF CallMode
  <2> QED
    BY <2>1, <2>2
<1> QED
  BY <1>2, <1>4, <1>5, <1>6, <1>7, <1>8
  DEF Rpc!Refuse, CallMode, CallState, CallResult, CallResponse

\* A submitted command; it may be late.
LEMMA SubmitRefines ==
    ASSUME Always, MemoryInv', NEW c \in Clients, Submit(c)
    PROVE  Rpc!Issue(c) \/ Rpc!IssueLate(c)
<1>0. pc \in [Clients -> ClientPc] /\ ret \in [Clients -> Results]
  BY DEF Always, MemoryInv, TypeOK, ClientType
<1>1. /\ pc[c] = "submit" /\ pc' = [pc EXCEPT ![c] = "submitted"] /\ lastCmd + 1 \in Cmds
      /\ lastCmd' = lastCmd + 1 /\ call' = [call EXCEPT ![c] = lastCmd + 1]
      /\ UNCHANGED <<ret, buf, answer, running_state>>
  BY DEF Submit, Goto
<1>2. lastCmd < MaxCmds
  BY <1>1, IssuedType, BoundsAssumption DEF Always, MemoryInv, Cmds
<1>3. CallState[c] = "idle" /\ CallState' = [CallState EXCEPT ![c] = "pending"]
  BY <1>0, <1>1 DEF CallState
<1>4. CallResponse' = CallResponse /\ CallResult' = CallResult
  BY <1>0, <1>1 DEF CallResponse, CallResult
<1>5. Rpc!NewCommand(c)
  BY <1>1, <1>2, <1>3, <1>4 DEF Rpc!NewCommand, CallState, CallResult, CallResponse
<1>6. /\ ~overrun /\ CallMode = (IF running_state THEN "open" ELSE "closing")
      /\ \A d \in Clients : pc'[d] # "submit"
  BY <1>0, <1>1, WayIn
<1>7. Exposes(lastCmd + 1)
  BY SubmitTakes
<1>8. running_state \in BOOLEAN
  BY DEF Always, MemoryInv, TypeOK, AdminType
<1>9. CASE running_state
  <2>1. ~overrun' /\ exposed' = exposed /\ CallMode = "open" /\ CallMode' = CallMode
    BY <1>1, <1>6, <1>7, <1>9 DEF Exposes, CallMode
  <2>2. Rpc!Issue(c)
    BY <1>5, <2>1 DEF Rpc!Issue, CallMode
  <2> QED
    BY <2>2
<1>10. CASE ~running_state
  <2>1. CallMode = "closing"
    BY <1>6, <1>10
  <2>2. \/ CallMode' = "closed" /\ exposed' = exposed \cup {lastCmd + 1}
        \/ /\ CallMode' = "overrun"
           /\ exposed' = exposed \cup {lastCmd + 1} \cup {call[d] : d \in Clients}
    BY <1>1, <1>6, <1>7, <1>10 DEF Exposes, CallMode
  <2>3. Rpc!IssueLate(c)
    BY <1>5, <2>1, <2>2 DEF Rpc!IssueLate, CallMode
  <2> QED
    BY <2>3
<1> QED
  BY <1>9, <1>10

\* A call that is over: with its own answer or an error of the driver, or exposed.
LEMMA DecrementRefines ==
    ASSUME IInv, NEW c \in Clients, Decrement(c)
    PROVE  Rpc!ReturnAnswer(c) \/ Rpc!ReturnError(c) \/ Rpc!ReturnExposed(c)
<1>0. /\ pc \in [Clients -> ClientPc] /\ ret \in [Clients -> Results]
      /\ buf \in [Clients -> Cmds \cup {NoCmd}] /\ Calling
  BY DEF IInv, Always, CallInv, MemoryInv, TypeOK, ClientType
<1>1. /\ pc[c] = "decrement" /\ pc' = [pc EXCEPT ![c] = "returned"]
      /\ UNCHANGED <<call, ret, buf, lastCmd, answer, exposed, overrun, running_state>>
  BY DEF Decrement, Goto, ghostVars
<1>2. call[c] # NoCmd /\ ret[c] \in Outcomes
  BY <1>0, <1>1 DEF Calling
<1>3. CallState[c] = "pending" /\ CallState' = [CallState EXCEPT ![c] = "returned"]
  BY <1>0, <1>1 DEF CallState
<1>4. CallResult' = [CallResult EXCEPT ![c] = ret[c]]
  BY <1>0, <1>1 DEF CallResult
<1>5. CallMode' = CallMode
  <2>1. (\E d \in Clients : pc[d] = "submit") <=> (\E d \in Clients : pc'[d] = "submit")
    BY <1>0, <1>1
  <2> QED
    BY <1>1, <2>1 DEF CallMode
<1>6. CASE ret[c] \in DriverErrors
  <2>1. CallResponse' = CallResponse
    BY <1>0, <1>1, <1>6 DEF CallResponse
  <2>2. ret[c] \in Rpc!DriverErrors
    BY <1>6 DEF DriverErrors, Rpc!DriverErrors
  <2>3. Rpc!ReturnError(c)
    BY <1>1, <1>3, <1>4, <1>5, <2>1, <2>2
    DEF Rpc!ReturnError, CallMode, CallState, CallResult, CallResponse
  <2> QED
    BY <2>3
<1>7. CASE ret[c] \notin DriverErrors
  <2>1. CallResponse' = [CallResponse EXCEPT ![c] = buf[c]]
    BY <1>0, <1>1, <1>7 DEF CallResponse
  <2>2. CASE call[c] \in exposed
    <3>1. ret[c] \in Rpc!Verdicts
      BY <1>2, <1>7 DEF Outcomes, Rpc!Verdicts
    <3>2. buf[c] \in Rpc!Cmds \cup {Rpc!NoCmd}
      BY <1>0 DEF Rpc!Cmds, Rpc!NoCmd, Cmds, NoCmd
    <3>3. Rpc!ReturnExposed(c)
      BY <1>1, <1>3, <1>4, <1>5, <2>1, <2>2, <3>1, <3>2
      DEF Rpc!ReturnExposed, CallMode, CallState, CallResult, CallResponse
    <3> QED
      BY <3>3
  <2>3. CASE HasAnswer(c) /\ ret[c] = Errno(answer[call[c]])
    <3>1. CallResponse' = [CallResponse EXCEPT ![c] = call[c]] /\ answer[call[c]] # "none"
      BY <2>1, <2>3 DEF HasAnswer
    <3>2. CallResult' = [CallResult EXCEPT ![c] = Rpc!Errno(answer[call[c]])]
      BY <1>4, <2>3, RpcErrno
    <3>3. Rpc!ReturnAnswer(c)
      BY <1>1, <1>3, <1>5, <3>1, <3>2
      DEF Rpc!ReturnAnswer, CallMode, CallState, CallResult, CallResponse
    <3> QED
      BY <3>3
  <2> QED
    BY <1>1, <1>2, <1>7, <2>2, <2>3, VerdictOrExposed
<1> QED
  BY <1>6, <1>7

\* A caller that leaves.
LEMMA ReturnRefines ==
    ASSUME Always, NEW c \in Clients, Return(c)
    PROVE  Rpc!Done(c)
<1>0. pc \in [Clients -> ClientPc] /\ ret \in [Clients -> Results]
      /\ buf \in [Clients -> Cmds \cup {NoCmd}]
  BY DEF Always, MemoryInv, TypeOK, ClientType
<1>1. /\ pc[c] = "returned" /\ pc' = [pc EXCEPT ![c] = "idle"]
      /\ call' = [call EXCEPT ![c] = NoCmd] /\ ret' = [ret EXCEPT ![c] = "none"]
      /\ buf' = [buf EXCEPT ![c] = NoCmd]
      /\ UNCHANGED <<lastCmd, answer, exposed, overrun, running_state>>
  BY DEF Return, Goto, ghostVars, adminVars
<1>2. CallState[c] = "returned" /\ CallState' = [CallState EXCEPT ![c] = "idle"]
  BY <1>0, <1>1 DEF CallState
<1>3. CallResult' = [CallResult EXCEPT ![c] = "none"]
  BY <1>0, <1>1 DEF CallResult
<1>4. CallResponse' = [CallResponse EXCEPT ![c] = NoCmd]
  BY <1>0, <1>1 DEF CallResponse
<1>5. Rpc!NoCmd = NoCmd
  BY DEF Rpc!NoCmd, NoCmd
<1>6. CallMode' = CallMode
  <2>1. (\E d \in Clients : pc[d] = "submit") <=> (\E d \in Clients : pc'[d] = "submit")
    BY <1>0, <1>1
  <2> QED
    BY <1>1, <2>1 DEF CallMode
<1> QED
  BY <1>1, <1>2, <1>3, <1>4, <1>5, <1>6
  DEF Rpc!Done, CallMode, CallState, CallResult, CallResponse

\* The device answers.
LEMMA CompleteRefines ==
    ASSUME IInv, DeviceComplete
    PROVE  (\E k \in Rpc!Cmds : Rpc!Answer(k)) \/ UNCHANGED Rpc!vars
<1>0. /\ Numbered /\ answer \in [Cmds -> DevStatus \cup {"none"}]
      /\ lastCmd \in Nat /\ Issued \subseteq Cmds
  BY IssuedType DEF IInv, Always, MemoryInv, TypeOK, GhostType
<1>1. PICK e \in executing, st \in DevStatus : answer' = [answer EXCEPT ![e.cmd] = st]
  BY DEF DeviceComplete
<1>2. UNCHANGED <<pc, call, ret, buf, lastCmd, exposed, overrun, running_state>>
  BY DEF DeviceComplete, clientVars, adminVars
<1>3. /\ CallState' = CallState /\ CallResult' = CallResult /\ CallResponse' = CallResponse
      /\ CallMode' = CallMode
  BY <1>2 DEF CallState, CallResult, CallResponse, CallMode
<1>4. CASE e.cmd \in Issued
  <2>1. e.cmd \in Rpc!Cmds /\ e.cmd <= lastCmd
    BY <1>0, <1>4 DEF Issued, Rpc!Cmds, Cmds
  <2>2. answer[e.cmd] = "none" \/ CallMode = "overrun"
    <3>1. Good => answer[e.cmd] = "none"
      BY DEF Good, RingInv, Answers
    <3>2. overrun => CallMode = "overrun"
      BY DEF CallMode
    <3> QED
      BY <3>1, <3>2, ICases
  <2>3. Rpc!Answer(e.cmd)
    BY <1>1, <1>2, <1>3, <2>1, <2>2
    DEF Rpc!Answer, CallMode, CallState, CallResult, CallResponse
  <2> QED
    BY <2>1, <2>3
<1>5. CASE e.cmd = NoCmd
  <2>1. e.cmd \notin Cmds
    BY <1>5 DEF Cmds, NoCmd
  <2>2. answer' = answer
    BY <1>0, <1>1, <2>1
  <2> QED
    BY <1>2, <1>3, <2>2, RpcVars
<1> QED
  BY <1>0, <1>4, <1>5 DEF Numbered

\* The queue is brought up.
LEMMA UpRefines ==
    ASSUME Always, AdminInit
    PROVE  Rpc!Open
<1>1. /\ UNCHANGED <<pc, call, ret, buf, lastCmd, answer, exposed>>
      /\ running_state' = TRUE /\ overrun' = FALSE /\ td = "down"
  BY DEF AdminInit, StepTd, clientVars
<1>2. ~running_state /\ \A c \in Clients : pc[c] # "submit"
  BY <1>1 DEF Always, MemoryInv, LifeInv
<1>3. CallMode \in {"closed", "overrun"} /\ CallMode' = "open"
  BY <1>1, <1>2 DEF CallMode
<1>4. CallState' = CallState /\ CallResult' = CallResult /\ CallResponse' = CallResponse
  BY <1>1 DEF CallState, CallResult, CallResponse
<1> QED
  BY <1>1, <1>3, <1>4 DEF Rpc!Open, CallMode, CallState, CallResult, CallResponse

\* Every step is one of AdminCommands, or none.
LEMMA RpcStep == IInv /\ [Next]_vars => [Rpc!Next]_Rpc!vars
<1> SUFFICES ASSUME IInv, [Next]_vars PROVE Rpc!Next \/ UNCHANGED Rpc!vars
  OBVIOUS
<1>0. Always /\ MemoryInv'
  BY MemoryStep, ICases DEF Always
<1>1. Unseen => Rpc!Next \/ UNCHANGED Rpc!vars
  BY UnseenStutters DEF Rpc!Next
<1>2. ASSUME NEW c \in Clients, Issue(c) PROVE Rpc!Next \/ UNCHANGED Rpc!vars
  <2>1. CASE RefuseNotRunning(c) \/ RefuseFull(c) \/ RefuseOccupied(c)
    BY <1>0, <2>1, RefuseRefines DEF Rpc!Next
  <2>2. CASE LockToSubmit(c)
    BY <1>0, <2>2, EnterUnseen
  <2>3. CASE Submit(c)
    BY <1>0, <2>3, SubmitRefines DEF Rpc!Next
  <2> QED
    BY <1>2, <2>1, <2>2, <2>3 DEF Issue
<1>3. ASSUME NEW c \in Clients, Wait(c) PROVE Rpc!Next \/ UNCHANGED Rpc!vars
  <2>1. CASE Decrement(c)
    BY <2>1, DecrementRefines DEF Rpc!Next
  <2>2. CASE Return(c)
    BY <1>0, <2>2, ReturnRefines DEF Rpc!Next
  <2>3. CASE ~Decrement(c) /\ ~Return(c)
    BY <1>0, <1>1, <1>3, <2>3, CallersUnseen
  <2> QED
    BY <2>1, <2>2, <2>3
<1>4. ASSUME NEW x \in Handlers, CopyResponse(x) PROVE Rpc!Next \/ UNCHANGED Rpc!vars
  BY <1>1, <1>4, CopyRefines DEF Rpc!Next
<1>5. CASE \/ \E x \in Handlers : Handle(x) /\ ~CopyResponse(x)
           \/ Interrupt \/ Close \/ TearDown \/ (BringUp /\ ~AdminInit) \/ DeviceFetch
           \/ UNCHANGED vars
  BY <1>0, <1>1, <1>5, OthersUnseen
<1>6. CASE AdminInit
  BY <1>0, <1>6, UpRefines DEF Rpc!Next
<1>7. CASE DeviceComplete
  BY <1>7, CompleteRefines DEF Rpc!Next
<1> QED
  BY <1>2, <1>3, <1>4, <1>5, <1>6, <1>7 DEF Next

\* It starts as AdminCommands does.
LEMMA RpcInit == Init => Rpc!Init
  BY DEF Init, Rpc!Init, DriverErrors, NoCmd, Rpc!NoCmd, Cmds, Rpc!Cmds

\* The queue gives its callers what ena_com_execute_admin_command() promises them,
\* whatever rings, locks, interrupts and timeouts do: AdminCommands, which promises
\* nothing to a call that a submission to the closed queue exposed.
THEOREM CommandsAreExecuted == Spec => ExecutesAdminCommands
  BY RpcInit, RpcStep, ICorrect, PTL DEF Spec, ExecutesAdminCommands, Rpc!Spec
=============================================================================
