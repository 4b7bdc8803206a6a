----------------------------- MODULE IoIntrProofs -----------------------------
(***************************************************************************)
(* The interrupt of a queue pair is never left masked: proved for any      *)
(* number of CPUs and completions, and any budget.                         *)
(***************************************************************************)
EXTENDS IoIntr, TLAPS

\* Whoever masked the interrupt, somebody is still going to unmask it: it is on
\* its way, or the flag is set and the handler, NAPI or a CPU that has just given
\* NAPI back will see it, or a CPU has seen it already.
Unmasker ==
    \/ msix
    \/ interrupts_masked /\ (hpc = "schedule" \/ SCHED \/ \E c \in CPUs : At(c, "read"))
    \/ \E c \in CPUs : pc[c] \in {"clear", "unmask"}

IInv == TypeOK /\ (lost = 0 => unmasked \/ Unmasker)

\* The states of a poll, one by one.
LEMMA PollStatesAre ==
    /\ "idle" \in PollStates /\ "tx" \in PollStates /\ "rx" \in PollStates
    /\ "complete" \in PollStates /\ "read" \in PollStates /\ "clear" \in PollStates
    /\ "unmask" \in PollStates /\ "busy" \in PollStates /\ "stop busy" \in PollStates
  BY DEF PollStates

\* What a poll takes is there.
LEMMA TakeableType ==
    ASSUME DevType, NEW r \in Rings
    PROVE  /\ Takeable(r) \in Nat /\ Takeable(r) <= cqes[r]
           /\ \A n \in 0..Takeable(r) : cqes[r] - n \in Nat
  BY BudgetAssumption DEF BudgetAssumption, DevType, Takeable

\* Variables that do not change keep their type.
LEMMA Frame ==
    /\ DevType /\ UNCHANGED devVars => DevType'
    /\ IrqType /\ UNCHANGED <<msix, lost, interrupts_masked, hpc>> => IrqType'
    /\ NapiType /\ UNCHANGED napiVars => NapiType'
    /\ PollType /\ UNCHANGED pollVars => PollType'
    /\ CheckType /\ UNCHANGED <<polled, checkVars>> => CheckType'
<1>1. DevType /\ UNCHANGED devVars => DevType'
  BY DEF DevType, devVars
<1>2. IrqType /\ UNCHANGED <<msix, lost, interrupts_masked, hpc>> => IrqType'
  BY DEF IrqType
<1>3. NapiType /\ UNCHANGED napiVars => NapiType'
  BY DEF NapiType, napiVars
<1>4. PollType /\ UNCHANGED pollVars => PollType'
  BY DEF PollType, pollVars
<1>5. CheckType /\ UNCHANGED <<polled, checkVars>> => CheckType'
  BY DEF CheckType, checkVars
<1> QED
  BY <1>1, <1>2, <1>3, <1>4, <1>5

\* Counters stay natural numbers, flags Booleans and every CPU in a state of
\* ena_io_poll().
LEMMA TypeStep == TypeOK /\ [Next]_vars => TypeOK'
<1> SUFFICES ASSUME TypeOK, [Next]_vars PROVE TypeOK'
  OBVIOUS
<1>1. CASE \E r \in Rings : DeviceCompletes(r)
  <2>1. DevType'
    BY <1>1 DEF DeviceCompletes, TypeOK, DevType, Rings
  <2> QED
    BY <1>1, <2>1, Frame DEF DeviceCompletes, TypeOK
<1>2. CASE DeviceInterrupts
  <2>1. DevType'
    BY <1>2 DEF DeviceInterrupts, TypeOK, DevType
  <2>2. IrqType'
    BY <1>2 DEF DeviceInterrupts, TypeOK, IrqType
  <2> QED
    BY <1>2, <2>1, <2>2, Frame DEF DeviceInterrupts, TypeOK
<1>3. CASE InterruptIsLost
  <2>1. lost' \in 0..MaxLost
    BY <1>3, BoundsAssumption DEF BoundsAssumption, InterruptIsLost, TypeOK, IrqType
  <2>2. IrqType'
    BY <1>3, <2>1 DEF InterruptIsLost, TypeOK, IrqType
  <2> QED
    BY <1>3, <2>2, Frame DEF InterruptIsLost, TypeOK
<1>4. CASE HandlerFlags
  <2>1. IrqType'
    BY <1>4 DEF HandlerFlags, TypeOK, IrqType, MaskedByHandler
  <2> QED
    BY <1>4, <2>1, Frame DEF HandlerFlags, TypeOK
<1>5. CASE HandlerSchedules
  <2>1. IrqType'
    BY <1>5 DEF HandlerSchedules, TypeOK, IrqType
  <2>2. NapiType'
    BY <1>5 DEF HandlerSchedules, TypeOK, NapiType, NapiSchedule
  <2> QED
    BY <1>5, <2>1, <2>2, Frame DEF HandlerSchedules, TypeOK
<1>6. CASE OthersSchedule
  <2>1. IrqType'
    BY <1>6 DEF OthersSchedule, TypeOK, IrqType
  <2>2. NapiType'
    BY <1>6 DEF OthersSchedule, TypeOK, NapiType, NapiSchedule
  <2> QED
    BY <1>6, <2>1, <2>2, Frame DEF OthersSchedule, TypeOK
<1>7. CASE CheckNapi
  <2>1. DevType'
    BY <1>7 DEF CheckNapi, checkUnchanged, TypeOK, DevType
  <2>2. IrqType'
    BY <1>7 DEF CheckNapi, checkUnchanged, TypeOK, IrqType
  <2>3. CheckType'
    BY <1>7 DEF CheckNapi, checkUnchanged, TypeOK, CheckType
  <2> QED
    BY <1>7, <2>1, <2>2, <2>3, Frame DEF CheckNapi, checkUnchanged, TypeOK
<1>8. CASE CheckRings
  <2>1. DevType'
    BY <1>8 DEF CheckRings, checkUnchanged, TypeOK, DevType
  <2>2. IrqType'
    BY <1>8 DEF CheckRings, checkUnchanged, TypeOK, IrqType
  <2>3. CheckType'
    BY <1>8 DEF CheckRings, checkUnchanged, TypeOK, CheckType, HandledAfter
  <2> QED
    BY <1>8, <2>1, <2>2, <2>3, Frame DEF CheckRings, checkUnchanged, TypeOK
<1>9. CASE UnmaskLost
  <2>1. DevType'
    BY <1>9 DEF UnmaskLost, checkUnchanged, TypeOK, DevType
  <2>2. IrqType'
    BY <1>9 DEF UnmaskLost, checkUnchanged, TypeOK, IrqType
  <2>3. CheckType'
    BY <1>9 DEF UnmaskLost, checkUnchanged, TypeOK, CheckType
  <2> QED
    BY <1>9, <2>1, <2>2, <2>3, Frame DEF UnmaskLost, checkUnchanged, TypeOK
<1>10. ASSUME NEW c \in CPUs, Poll(c) PROVE TypeOK'
  <2>1. CASE StartPoll(c)
    <3>1. IrqType'
      BY <2>1 DEF StartPoll, TypeOK, IrqType
    <3>2. NapiType'
      BY <2>1 DEF StartPoll, TypeOK, NapiType
    <3>3. PollType'
      BY <2>1, PollStatesAre DEF StartPoll, TypeOK, PollType, At, Go, BeginPoll
    <3>4. CheckType'
      BY <2>1 DEF StartPoll, TypeOK, CheckType, BeginPoll, checkVars
    <3> QED
      BY <2>1, <3>1, <3>2, <3>3, <3>4, Frame DEF StartPoll, TypeOK
  <2>2. CASE CleanTx(c)
    <3>1. DevType'
      BY <2>2, TakeableType DEF CleanTx, Take, TypeOK, DevType, Rings
    <3>2. IrqType'
      BY <2>2 DEF CleanTx, Take, TypeOK, IrqType
    <3>3. PollType'
      BY <2>2, PollStatesAre DEF CleanTx, Take, TypeOK, PollType, At, Go
    <3>4. CheckType'
      BY <2>2 DEF CleanTx, Take, TypeOK, CheckType, checkVars
    <3> QED
      BY <2>2, <3>1, <3>2, <3>3, <3>4, Frame DEF CleanTx, Take, TypeOK
  <2>3. CASE CleanRx(c)
    <3>1. DevType'
      BY <2>3, TakeableType DEF CleanRx, Take, TypeOK, DevType, Rings
    <3>2. IrqType'
      BY <2>3 DEF CleanRx, Take, TypeOK, IrqType
    <3>3. PollType'
      BY <2>3, PollStatesAre DEF CleanRx, Take, TypeOK, PollType, At, Go
    <3>4. CheckType'
      BY <2>3 DEF CleanRx, Take, TypeOK, CheckType, checkVars
    <3> QED
      BY <2>3, <3>1, <3>2, <3>3, <3>4, Frame DEF CleanRx, Take, TypeOK, napiVars
  <2>4. CASE PollAgain(c)
    <3>1. IrqType'
      BY <2>4 DEF PollAgain, TypeOK, IrqType
    <3>2. NapiType'
      BY <2>4 DEF PollAgain, TypeOK, NapiType
    <3>3. PollType'
      BY <2>4, PollStatesAre DEF PollAgain, TypeOK, PollType, At, Go
    <3>4. CheckType'
      BY <2>4 DEF PollAgain, TypeOK, CheckType, checkVars
    <3> QED
      BY <2>4, <3>1, <3>2, <3>3, <3>4, Frame DEF PollAgain, TypeOK
  <2>5. CASE CompleteDone(c)
    <3>1. IrqType'
      BY <2>5 DEF CompleteDone, TypeOK, IrqType
    <3>2. NapiType'
      BY <2>5 DEF CompleteDone, TypeOK, NapiType
    <3>3. PollType'
      BY <2>5, PollStatesAre DEF CompleteDone, TypeOK, PollType, At, Go
    <3>4. CheckType'
      BY <2>5 DEF CompleteDone, TypeOK, CheckType, checkVars
    <3> QED
      BY <2>5, <3>1, <3>2, <3>3, <3>4, Frame DEF CompleteDone, TypeOK
  <2>6. CASE ReadFlag(c)
    <3>1. IrqType'
      BY <2>6 DEF ReadFlag, TypeOK, IrqType
    <3>2. PollType'
      BY <2>6, PollStatesAre DEF ReadFlag, TypeOK, PollType, At, Go
    <3>3. CheckType'
      BY <2>6 DEF ReadFlag, TypeOK, CheckType, checkVars
    <3> QED
      BY <2>6, <3>1, <3>2, <3>3, Frame DEF ReadFlag, TypeOK
  <2>7. CASE ClearFlag(c)
    <3>1. IrqType'
      BY <2>7 DEF ClearFlag, TypeOK, IrqType
    <3>2. PollType'
      BY <2>7, PollStatesAre DEF ClearFlag, TypeOK, PollType, At, Go
    <3>3. CheckType'
      BY <2>7 DEF ClearFlag, TypeOK, CheckType, checkVars
    <3> QED
      BY <2>7, <3>1, <3>2, <3>3, Frame DEF ClearFlag, TypeOK
  <2>8. CASE UnmaskInterrupt(c)
    <3>1. DevType'
      BY <2>8 DEF UnmaskInterrupt, TypeOK, DevType
    <3>2. IrqType'
      BY <2>8 DEF UnmaskInterrupt, TypeOK, IrqType
    <3>3. PollType'
      BY <2>8, PollStatesAre DEF UnmaskInterrupt, TypeOK, PollType, At, Go
    <3>4. CheckType'
      BY <2>8 DEF UnmaskInterrupt, TypeOK, CheckType, checkVars
    <3> QED
      BY <2>8, <3>1, <3>2, <3>3, <3>4, Frame DEF UnmaskInterrupt, TypeOK
  <2> QED
    BY <1>10, <2>1, <2>2, <2>3, <2>4, <2>5, <2>6, <2>7, <2>8 DEF Poll
<1>11. ASSUME NEW c \in CPUs, StartBusyPoll(c) \/ BusyPolls(c) PROVE TypeOK'
  <2>1. CASE StartBusyPoll(c)
    <3>1. IrqType'
      BY <2>1 DEF StartBusyPoll, TypeOK, IrqType
    <3>2. NapiType'
      BY <2>1 DEF StartBusyPoll, TypeOK, NapiType
    <3>3. PollType'
      BY <2>1, PollStatesAre DEF StartBusyPoll, TypeOK, PollType, At, Go
    <3>4. CheckType'
      BY <2>1 DEF StartBusyPoll, TypeOK, CheckType, checkVars
    <3> QED
      BY <2>1, <3>1, <3>2, <3>3, <3>4, Frame DEF StartBusyPoll, TypeOK
  <2>2. CASE BusyPoll(c)
    <3>1. IrqType'
      BY <2>2 DEF BusyPoll, TypeOK, IrqType
    <3>2. PollType'
      BY <2>2, PollStatesAre DEF BusyPoll, TypeOK, PollType, At, Go, BeginPoll
    <3>3. CheckType'
      BY <2>2 DEF BusyPoll, TypeOK, CheckType, BeginPoll, checkVars
    <3> QED
      BY <2>2, <3>1, <3>2, <3>3, Frame DEF BusyPoll, TypeOK
  <2>3. CASE ForgetMissed(c)
    <3>1. IrqType'
      BY <2>3 DEF ForgetMissed, TypeOK, IrqType
    <3>2. NapiType'
      BY <2>3 DEF ForgetMissed, TypeOK, NapiType
    <3>3. PollType'
      BY <2>3, PollStatesAre DEF ForgetMissed, TypeOK, PollType, At, Go
    <3>4. CheckType'
      BY <2>3 DEF ForgetMissed, TypeOK, CheckType, checkVars
    <3> QED
      BY <2>3, <3>1, <3>2, <3>3, <3>4, Frame DEF ForgetMissed, TypeOK
  <2>4. CASE StopBusyPoll(c)
    <3>1. IrqType'
      BY <2>4 DEF StopBusyPoll, TypeOK, IrqType
    <3>2. NapiType'
      BY <2>4 DEF StopBusyPoll, TypeOK, NapiType
    <3>3. PollType'
      BY <2>4, PollStatesAre DEF StopBusyPoll, TypeOK, PollType, At, Go, BeginPoll
    <3>4. CheckType'
      BY <2>4 DEF StopBusyPoll, TypeOK, CheckType, BeginPoll, checkVars
    <3> QED
      BY <2>4, <3>1, <3>2, <3>3, <3>4, Frame DEF StopBusyPoll, TypeOK
  <2> QED
    BY <1>11, <2>1, <2>2, <2>3, <2>4 DEF BusyPolls
<1>12. CASE UNCHANGED vars
  BY <1>12, Frame DEF vars, TypeOK
<1> QED
  BY <1>1, <1>2, <1>3, <1>4, <1>5, <1>6, <1>7, <1>8, <1>9, <1>10, <1>11, <1>12
     DEF Next, Handler, Check

\* Each step keeps somebody in charge of unmasking the interrupt.
LEMMA UnmaskerStep ==
    ASSUME TypeOK, [Next]_vars, lost = 0 => unmasked \/ Unmasker, lost' = 0
    PROVE  unmasked' \/ Unmasker'
<1> USE DEF TypeOK, IrqType, PollType
<1>1. CASE \E r \in Rings : DeviceCompletes(r)
  BY <1>1 DEF DeviceCompletes, Unmasker, At, napiVars, pollVars
<1>2. CASE DeviceInterrupts
  BY <1>2 DEF DeviceInterrupts, Unmasker
<1>3. CASE InterruptIsLost
  BY <1>3, BoundsAssumption DEF BoundsAssumption, InterruptIsLost
<1>4. CASE Handler
  BY <1>4 DEF Handler, HandlerFlags, MaskedByHandler, HandlerSchedules, NapiSchedule,
                    Unmasker, At, devVars, pollVars
<1>5. CASE OthersSchedule
  BY <1>5 DEF OthersSchedule, NapiSchedule, Unmasker, At, devVars, pollVars
<1>6. CASE Check
  BY <1>6 DEF Check, CheckNapi, CheckRings, UnmaskLost, checkUnchanged, Unmasker, At,
                    napiVars, pollVars
<1>7. ASSUME NEW c \in CPUs, Poll(c) PROVE unmasked' \/ Unmasker'
  <2>1. CASE StartPoll(c)
    BY <2>1 DEF StartPoll, BeginPoll, Unmasker, At, Go, devVars
  <2>2. CASE CleanTx(c) \/ CleanRx(c)
    BY <2>2 DEF CleanTx, CleanRx, Take, Unmasker, At, Go, napiVars
  <2>3. CASE PollAgain(c)
    BY <2>3 DEF PollAgain, Unmasker, At, Go, devVars
  \* NAPI is given back only by a CPU that goes on to read the flag.
  <2>4. CASE CompleteDone(c)
    BY <2>4 DEF CompleteDone, Unmasker, At, Go, devVars
  <2>5. CASE ReadFlag(c)
    BY <2>5 DEF ReadFlag, Unmasker, At, Go, devVars, napiVars
  <2>6. CASE ClearFlag(c)
    BY <2>6 DEF ClearFlag, Unmasker, At, Go
  <2>7. CASE UnmaskInterrupt(c)
    BY <2>7 DEF UnmaskInterrupt
  <2> QED
    BY <1>7, <2>1, <2>2, <2>3, <2>4, <2>5, <2>6, <2>7 DEF Poll
<1>8. ASSUME NEW c \in CPUs, StartBusyPoll(c) \/ BusyPolls(c) PROVE unmasked' \/ Unmasker'
  BY <1>8 DEF StartBusyPoll, BusyPolls, BusyPoll, ForgetMissed, StopBusyPoll, BeginPoll,
                    Unmasker, At, Go, devVars, napiVars
<1>9. CASE UNCHANGED vars
  BY <1>9 DEF vars, devVars, napiVars, pollVars, Unmasker, At
<1> QED
  BY <1>1, <1>2, <1>3, <1>4, <1>5, <1>6, <1>7, <1>8, <1>9 DEF Next

\* The induction both theorems rest on.
LEMMA Invariant == Spec => []IInv
<1>1. Init => IInv
  <2> SUFFICES ASSUME Init PROVE IInv
    OBVIOUS
  <2>1. TypeOK
    <3>1. DevType /\ NapiType
      BY DEF Init, DevType, NapiType
    <3>2. IrqType
      <4>1. lost \in 0..MaxLost
        BY BoundsAssumption DEF BoundsAssumption, Init
      <4> QED
        BY <4>1 DEF Init, IrqType
    <3>3. PollType
      BY PollStatesAre DEF Init, PollType
    <3>4. CheckType
      BY DEF Init, CheckType
    <3> QED
      BY <3>1, <3>2, <3>3, <3>4 DEF TypeOK
  <2> QED
    BY <2>1 DEF IInv, Init
<1>2. IInv /\ [Next]_vars => IInv'
  BY TypeStep, UnmaskerStep DEF IInv
<1> QED
  BY <1>1, <1>2, PTL DEF Spec

\* The state of the interrupt, of NAPI and of the check stays in its type.
THEOREM TypeCorrect == Spec => []TypeOK
<1>1. IInv => TypeOK
  BY DEF IInv
<1> QED
  BY <1>1, Invariant, PTL

\* "The interrupt is unmasked by the driver after NAPI processing is complete":
\* with nobody at work any more the interrupt is not masked.
THEOREM InterruptComesBack == Spec => []NeverLeftMasked
<1>1. IInv => NeverLeftMasked
  BY DEF IInv, NeverLeftMasked, Quiet, Unmasker, At
<1> QED
  BY <1>1, Invariant, PTL
=============================================================================
