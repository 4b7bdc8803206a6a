-------------------------- MODULE AdminQueueProofs --------------------------
(***************************************************************************)
(* Theorems about AdminQueue for every number of callers, ring size and    *)
(* bound.                                                                  *)
(***************************************************************************)
EXTENDS AdminQueue, FiniteSetTheorems, TLAPS

\* The slot after a slot of the ring is a slot of the ring.
LEMMA NextSlotType == \A i \in Ids : NextSlot(i) \in Ids
  BY DepthAssumption DEF Ids, NextSlot

\* The phase bit stays a bit.
LEMMA NextPhaseType == \A i, ph : ph \in BOOLEAN => NextPhase(i, ph) \in BOOLEAN
  BY DEF NextPhase

\* What ena_com_comp_status_to_errno() makes of a status is a result of a call.
LEMMA ErrnoType == \A st : Errno(st) \in Results
  BY DEF Errno, Results

\* Slot 0 is in the ring.
LEMMA ZeroId == 0 \in Ids
  BY DepthAssumption DEF Ids

\* The variables have their types after bring-up.
LEMMA InitType == Init => TypeOK
<1> SUFFICES ASSUME Init PROVE TypeOK
  OBVIOUS
<1>1. AdminType
  <2>1. outstanding_cmds \in Int
    BY DEF Init
  <2>2. running_state \in BOOLEAN /\ polling \in BOOLEAN /\ is_missing_admin_interrupt \in BOOLEAN /\ polling_for_completions \in BOOLEAN
    BY DEF Init
  <2>3. curr_cmd_id \in Ids /\ q_lock \in Clients \cup {Nobody}
    BY ZeroId DEF Init
  <2> QED BY <2>1, <2>2, <2>3 DEF AdminType
<1>2. RingType
  BY ZeroId DEF Init, RingType, SqEntry, CqEntry, NoSqEntry, NoCqEntry
<1>3. CtxType
  BY ZeroId DEF Init, CtxType, CmdStatus
<1>4. ClientType
  BY ZeroId DEF Init, ClientType, ClientPc, Results
<1>5. HandlerType
  BY ZeroId DEF Init, HandlerType, HandlerPc
<1>6. TdType
  BY ZeroId DEF Init, TdType, TdPc
<1>7. DevType
  BY ZeroId DEF Init, DevType
<1>8. GhostType
  <2>1. /\ lastCmd \in Cmds \cup {NoCmd}
        /\ gaveUp = {} /\ stray = {} /\ exposed = {} /\ overrun \in BOOLEAN
    BY DEF Init, NoCmd
  <2>2. answer \in [Cmds -> DevStatus \cup {"none"}]
    BY DEF Init
  <2> QED
    BY <2>1, <2>2 DEF GhostType
<1> QED
  BY <1>1, <1>2, <1>3, <1>4, <1>5, <1>6, <1>7, <1>8 DEF TypeOK

\* Variables that do not change keep their type.
LEMMA Frame ==
    /\ AdminType /\ UNCHANGED adminVars => AdminType'
    /\ RingType /\ UNCHANGED ringVars => RingType'
    /\ CtxType /\ UNCHANGED ctxVars => CtxType'
    /\ ClientType /\ UNCHANGED clientVars => ClientType'
    /\ HandlerType /\ UNCHANGED handlerVars => HandlerType'
    /\ TdType /\ UNCHANGED tdVars => TdType'
    /\ DevType /\ UNCHANGED devVars => DevType'
    /\ GhostType /\ UNCHANGED ghostVars => GhostType'
<1>1. AdminType /\ UNCHANGED adminVars => AdminType'
  BY DEF AdminType, adminVars
<1>2. RingType /\ UNCHANGED ringVars => RingType'
  BY DEF RingType, ringVars
<1>3. CtxType /\ UNCHANGED ctxVars => CtxType'
  BY DEF CtxType, ctxVars
<1>4. ClientType /\ UNCHANGED clientVars => ClientType'
  BY DEF ClientType, clientVars
<1>5. HandlerType /\ UNCHANGED handlerVars => HandlerType'
  BY DEF HandlerType, handlerVars
<1>6. TdType /\ UNCHANGED tdVars => TdType'
  BY DEF TdType, tdVars
<1>7. DevType /\ UNCHANGED devVars => DevType'
  BY DEF DevType, devVars
<1>8. GhostType /\ UNCHANGED ghostVars => GhostType'
  BY DEF GhostType, ghostVars
<1> QED
  BY <1>1, <1>2, <1>3, <1>4, <1>5, <1>6, <1>7, <1>8

\* The history of a submission keeps its type.
LEMMA ExposeType ==
    ASSUME TypeOK, lastCmd + 1 \in Cmds, Expose(lastCmd + 1), lastCmd' = lastCmd + 1,
           UNCHANGED <<answer, gaveUp, stray>>
    PROVE  GhostType'
<1>1. overrun' \in BOOLEAN
  BY DEF Expose
<1>2. \A c \in Clients : call[c] \in Cmds \cup {NoCmd}
  BY DEF TypeOK, ClientType
<1>3. exposed' \subseteq Cmds \cup {NoCmd}
  BY <1>2 DEF Expose, TypeOK, GhostType
<1> QED
  BY <1>1, <1>3 DEF TypeOK, GhostType

\* Every step keeps the types: one step per action.
LEMMA TypeStep == TypeOK /\ [Next]_vars => TypeOK'
<1> SUFFICES ASSUME TypeOK, [Next]_vars PROVE TypeOK'
  OBVIOUS
<1>1. ASSUME NEW c \in Clients, RefuseNotRunning(c) PROVE TypeOK'
  <2>1. AdminType'
    BY <1>1 DEF TypeOK, RefuseNotRunning, Refuse, AdminType
  <2>2. ClientType'
    BY <1>1 DEF TypeOK, RefuseNotRunning, Refuse, Goto, ClientType, ClientPc, Results
  <2> QED
    BY <1>1, <2>1, <2>2, Frame DEF TypeOK, RefuseNotRunning, Refuse
<1>2. ASSUME NEW c \in Clients, RefuseFull(c) PROVE TypeOK'
  <2>1. AdminType'
    BY <1>2 DEF TypeOK, RefuseFull, Refuse, AdminType
  <2>2. ClientType'
    BY <1>2 DEF TypeOK, RefuseFull, Refuse, Goto, ClientType, ClientPc, Results
  <2> QED
    BY <1>2, <2>1, <2>2, Frame DEF TypeOK, RefuseFull, Refuse
<1>3. ASSUME NEW c \in Clients, RefuseOccupied(c) PROVE TypeOK'
  <2>1. AdminType'
    BY <1>3 DEF TypeOK, RefuseOccupied, Refuse, AdminType
  <2>2. ClientType'
    BY <1>3 DEF TypeOK, RefuseOccupied, Refuse, Goto, ClientType, ClientPc, Results
  <2> QED
    BY <1>3, <2>1, <2>2, Frame DEF TypeOK, RefuseOccupied, Refuse
<1>4. ASSUME NEW c \in Clients, Submit(c) PROVE TypeOK'
  <2>1. AdminType'
    BY <1>4, ZeroId, NextSlotType DEF TypeOK, Submit, Goto, AdminType
  <2>2. RingType'
    BY <1>4, ZeroId, NextSlotType, NextPhaseType DEF TypeOK, Submit, Goto, RingType, AdminType, GhostType, SqEntry, CqEntry, NoSqEntry, NoCqEntry
  <2>3. CtxType'
    BY <1>4, ZeroId DEF TypeOK, Submit, Goto, CtxType, CmdStatus
  <2>4. ClientType'
    BY <1>4, ZeroId, ErrnoType DEF TypeOK, Submit, Goto, ClientType, AdminType, ClientPc, Results
  <2>5. DevType'
    BY <1>4, ZeroId, NextSlotType, NextPhaseType DEF TypeOK, Submit, Goto, DevType, SqEntry
  <2>6. GhostType'
    BY <1>4, ExposeType DEF TypeOK, Submit, NoCmd
  <2> QED
    BY <1>4, <2>1, <2>2, <2>3, <2>4, <2>5, <2>6, Frame DEF TypeOK, Submit
<1>5. ASSUME NEW c \in Clients, ChooseWait(c) PROVE TypeOK'
  <2>1. ClientType'
    BY <1>5, ZeroId, ErrnoType DEF TypeOK, ChooseWait, Goto, ClientType, ClientPc, Results
  <2> QED
    BY <1>5, <2>1, Frame DEF TypeOK, ChooseWait
<1>6. ASSUME NEW c \in Clients, LockToPoll(c) PROVE TypeOK'
  <2>1. AdminType'
    BY <1>6, ZeroId, NextSlotType DEF TypeOK, LockToPoll, Goto, AdminType
  <2>2. ClientType'
    BY <1>6, ZeroId, ErrnoType DEF TypeOK, LockToPoll, Goto, ClientType, ClientPc, Results
  <2>3. HandlerType'
    BY <1>6, ZeroId, NextSlotType, NextPhaseType DEF TypeOK, LockToPoll, Goto, HandlerType, HandlerPc, Handlers
  <2> QED
    BY <1>6, <2>1, <2>2, <2>3, Frame DEF TypeOK, LockToPoll
<1>7. ASSUME NEW c \in Clients, TakeOwnership(c) PROVE TypeOK'
  <2>1. AdminType'
    BY <1>7, ZeroId, NextSlotType DEF TypeOK, TakeOwnership, StartScan, AdminType
  <2>2. HandlerType'
    BY <1>7, ZeroId, NextSlotType, NextPhaseType DEF TypeOK, TakeOwnership, StartScan, HandlerType, RingType, HandlerPc, Handlers
  <2> QED
    BY <1>7, <2>1, <2>2, Frame DEF TypeOK, TakeOwnership
<1>8. ASSUME NEW c \in Clients, PollCheck(c) PROVE TypeOK'
  <2>1. AdminType'
    BY <1>8, ZeroId, NextSlotType DEF TypeOK, PollCheck, Move, Goto, AdminType
  <2>2. ClientType'
    BY <1>8, ZeroId, ErrnoType DEF TypeOK, PollCheck, Move, Goto, ClientType, ClientPc, Results
  <2> QED
    BY <1>8, <2>1, <2>2, Frame DEF TypeOK, PollCheck, Move
<1>9. ASSUME NEW c \in Clients, PollExpired(c) PROVE TypeOK'
  <2>1. AdminType'
    BY <1>9, ZeroId, NextSlotType DEF TypeOK, PollExpired, Move, Goto, AdminType
  <2>2. ClientType'
    BY <1>9, ZeroId, ErrnoType DEF TypeOK, PollExpired, Move, Goto, ClientType, ClientPc, Results
  <2>3. GhostType'
    BY <1>9 DEF TypeOK, PollExpired, Move, Goto, GhostType, ClientType, NoCmd
  <2> QED
    BY <1>9, <2>1, <2>2, <2>3, Frame DEF TypeOK, PollExpired, Move
<1>10. ASSUME NEW c \in Clients, Aborted(c) PROVE TypeOK'
  <2>1. AdminType'
    BY <1>10, ZeroId, NextSlotType DEF TypeOK, Aborted, Move, Goto, AdminType
  <2>2. ClientType'
    BY <1>10, ZeroId, ErrnoType DEF TypeOK, Aborted, Move, Goto, ClientType, ClientPc, Results
  <2>3. GhostType'
    BY <1>10 DEF TypeOK, Aborted, Move, Goto, GhostType, ClientType, NoCmd
  <2> QED
    BY <1>10, <2>1, <2>2, <2>3, Frame DEF TypeOK, Aborted, Move
<1>11. ASSUME NEW c \in Clients, Woken(c) PROVE TypeOK'
  <2>1. AdminType'
    BY <1>11, ZeroId, NextSlotType DEF TypeOK, Woken, Move, Goto, AdminType
  <2>2. ClientType'
    BY <1>11, ZeroId, ErrnoType DEF TypeOK, Woken, Move, Goto, ClientType, ClientPc, Results
  <2> QED
    BY <1>11, <2>1, <2>2, Frame DEF TypeOK, Woken, Move
<1>12. ASSUME NEW c \in Clients, WaitExpired(c) PROVE TypeOK'
  <2>1. AdminType'
    BY <1>12, ZeroId, NextSlotType DEF TypeOK, WaitExpired, Move, Goto, AdminType
  <2>2. ClientType'
    BY <1>12, ZeroId, ErrnoType DEF TypeOK, WaitExpired, Move, Goto, ClientType, ClientPc, Results
  <2> QED
    BY <1>12, <2>1, <2>2, Frame DEF TypeOK, WaitExpired, Move
<1>13. ASSUME NEW c \in Clients, IntrCheck(c) PROVE TypeOK'
  <2>1. AdminType'
    BY <1>13, ZeroId, NextSlotType DEF TypeOK, IntrCheck, Move, Goto, AdminType
  <2>2. ClientType'
    BY <1>13, ZeroId, ErrnoType DEF TypeOK, IntrCheck, Move, Goto, ClientType, ClientPc, Results
  <2> QED
    BY <1>13, <2>1, <2>2, Frame DEF TypeOK, IntrCheck, Move
<1>14. ASSUME NEW c \in Clients, NoCompletion(c) PROVE TypeOK'
  <2>1. AdminType'
    BY <1>14, ZeroId, NextSlotType DEF TypeOK, NoCompletion, Move, Goto, AdminType
  <2>2. ClientType'
    BY <1>14, ZeroId, ErrnoType DEF TypeOK, NoCompletion, Move, Goto, ClientType, ClientPc, Results
  <2> QED
    BY <1>14, <2>1, <2>2, Frame DEF TypeOK, NoCompletion, Move
<1>15. ASSUME NEW c \in Clients, MissingInterruptFatal(c) PROVE TypeOK'
  <2>1. AdminType'
    BY <1>15, ZeroId, NextSlotType DEF TypeOK, MissingInterruptFatal, Move, Goto, AdminType
  <2>2. ClientType'
    BY <1>15, ZeroId, ErrnoType DEF TypeOK, MissingInterruptFatal, Move, Goto, ClientType, ClientPc, Results
  <2> QED
    BY <1>15, <2>1, <2>2, Frame DEF TypeOK, MissingInterruptFatal, Move
<1>16. ASSUME NEW c \in Clients, MissingInterruptPolls(c) PROVE TypeOK'
  <2>1. AdminType'
    BY <1>16, ZeroId, NextSlotType DEF TypeOK, MissingInterruptPolls, Goto, AdminType
  <2>2. ClientType'
    BY <1>16, ZeroId, ErrnoType DEF TypeOK, MissingInterruptPolls, Goto, ClientType, ClientPc, Results
  <2> QED
    BY <1>16, <2>1, <2>2, Frame DEF TypeOK, MissingInterruptPolls
<1>17. ASSUME NEW c \in Clients, Release(c) PROVE TypeOK'
  <2>1. CtxType'
    BY <1>17, ZeroId DEF TypeOK, Release, Goto, CtxType, CmdStatus
  <2>2. ClientType'
    BY <1>17, ZeroId, ErrnoType DEF TypeOK, Release, Goto, ClientType, ClientPc, Results
  <2> QED
    BY <1>17, <2>1, <2>2, Frame DEF TypeOK, Release
<1>18. ASSUME NEW c \in Clients, Decrement(c) PROVE TypeOK'
  <2>1. AdminType'
    BY <1>18, ZeroId, NextSlotType DEF TypeOK, Decrement, Goto, CountAfterRelease, AdminType
  <2>2. ClientType'
    BY <1>18, ZeroId, ErrnoType DEF TypeOK, Decrement, Goto, CountAfterRelease, ClientType, ClientPc, Results
  <2> QED
    BY <1>18, <2>1, <2>2, Frame DEF TypeOK, Decrement
<1>19. ASSUME NEW c \in Clients, Return(c) PROVE TypeOK'
  <2>1. ClientType'
    BY <1>19, ZeroId, ErrnoType DEF TypeOK, Return, Goto, ClientType, ClientPc, Results
  <2> QED
    BY <1>19, <2>1, Frame DEF TypeOK, Return
<1>20. ASSUME NEW x \in Handlers, FindContext(x) PROVE TypeOK'
  <2>1. HandlerType'
    BY <1>20, ZeroId, NextSlotType, NextPhaseType DEF TypeOK, FindContext, After, HandlerType, RingType, CtxType, HandlerPc, Handlers
  <2> QED
    BY <1>20, <2>1, Frame DEF TypeOK, FindContext
<1>21. ASSUME NEW x \in Handlers, BadCompletion(x) PROVE TypeOK'
  <2>1. AdminType'
    BY <1>21, ZeroId, NextSlotType DEF TypeOK, BadCompletion, Advance, AdminType
  <2>2. HandlerType'
    BY <1>21, ZeroId, NextSlotType, NextPhaseType DEF TypeOK, BadCompletion, Advance, HandlerType, HandlerPc, Handlers
  <2> QED
    BY <1>21, <2>1, <2>2, Frame DEF TypeOK, BadCompletion
<1>22. ASSUME NEW x \in Handlers, CopyResponse(x) PROVE TypeOK'
  <2>1. ClientType'
    BY <1>22, ZeroId, ErrnoType DEF TypeOK, CopyResponse, After, ClientType, RingType, HandlerType, ClientPc, Results, CqEntry
  <2>2. HandlerType'
    BY <1>22, ZeroId, NextSlotType, NextPhaseType DEF TypeOK, CopyResponse, After, HandlerType, HandlerPc, Handlers
  <2>3. GhostType'
    BY <1>22 DEF TypeOK, CopyResponse, After, GhostType, HandlerType, NoCmd
  <2> QED
    BY <1>22, <2>1, <2>2, <2>3, Frame DEF TypeOK, CopyResponse
<1>23. ASSUME NEW x \in Handlers, PostStatus(x) PROVE TypeOK'
  <2>1. CtxType'
    BY <1>23, ZeroId DEF TypeOK, PostStatus, Advance, After, CtxType, RingType, HandlerType, CmdStatus, CqEntry
  <2>2. HandlerType'
    BY <1>23, ZeroId, NextSlotType, NextPhaseType DEF TypeOK, PostStatus, Advance, After, HandlerType, HandlerPc, Handlers
  <2> QED
    BY <1>23, <2>1, <2>2, Frame DEF TypeOK, PostStatus
<1>24. ASSUME NEW x \in Handlers, Wake(x) PROVE TypeOK'
  <2>1. CtxType'
    BY <1>24, ZeroId DEF TypeOK, Wake, CtxType, CmdStatus
  <2>2. HandlerType'
    BY <1>24, ZeroId, NextSlotType, NextPhaseType DEF TypeOK, Wake, HandlerType, HandlerPc, Handlers
  <2> QED
    BY <1>24, <2>1, <2>2, Frame DEF TypeOK, Wake
<1>25. ASSUME NEW x \in Handlers, FinishScan(x) PROVE TypeOK'
  <2>1. AdminType'
    BY <1>25, ZeroId, NextSlotType DEF TypeOK, FinishScan, Goto, OwnedAfterScan, AdminType
  <2>2. RingType'
    BY <1>25, ZeroId, NextSlotType, NextPhaseType DEF TypeOK, FinishScan, Goto, OwnedAfterScan, RingType, HandlerType, SqEntry, CqEntry, NoSqEntry, NoCqEntry
  <2>3. ClientType'
    BY <1>25, ZeroId, ErrnoType DEF TypeOK, FinishScan, Goto, OwnedAfterScan, ClientType, ClientPc, Results
  <2>4. HandlerType'
    BY <1>25, ZeroId, NextSlotType, NextPhaseType DEF TypeOK, FinishScan, Goto, OwnedAfterScan, HandlerType, HandlerPc, Handlers
  <2> QED
    BY <1>25, <2>1, <2>2, <2>3, <2>4, Frame DEF TypeOK, FinishScan
<1>26. ASSUME Interrupt PROVE TypeOK'
  <2>1. AdminType'
    BY <1>26, ZeroId, NextSlotType DEF TypeOK, Interrupt, StartScan, AdminType
  <2>2. HandlerType'
    BY <1>26, ZeroId, NextSlotType, NextPhaseType DEF TypeOK, Interrupt, StartScan, HandlerType, RingType, HandlerPc, Handlers, handlerVars
  <2>3. DevType'
    BY <1>26, ZeroId, NextSlotType, NextPhaseType DEF TypeOK, Interrupt, StartScan, DevType, SqEntry
  <2> QED
    BY <1>26, <2>1, <2>2, <2>3, Frame DEF TypeOK, Interrupt
<1>27. ASSUME Close PROVE TypeOK'
  <2>1. AdminType'
    BY <1>27, ZeroId, NextSlotType DEF TypeOK, Close, StepTd, AdminType
  <2>2. TdType'
    BY <1>27, ZeroId DEF TypeOK, Close, StepTd, TdType, TdPc
  <2> QED
    BY <1>27, <2>1, <2>2, Frame DEF TypeOK, Close
<1>28. ASSUME ResetDevice PROVE TypeOK'
  <2>1. TdType'
    BY <1>28, ZeroId DEF TypeOK, ResetDevice, StepTd, TdType, TdPc
  <2>2. DevType'
    BY <1>28, ZeroId, NextSlotType, NextPhaseType DEF TypeOK, ResetDevice, StepTd, DevType, SqEntry
  <2> QED
    BY <1>28, <2>1, <2>2, Frame DEF TypeOK, ResetDevice
<1>29. ASSUME FreeIrq PROVE TypeOK'
  <2>1. TdType'
    BY <1>29, ZeroId DEF TypeOK, FreeIrq, StepTd, TdType, TdPc
  <2>2. DevType'
    BY <1>29, ZeroId, NextSlotType, NextPhaseType DEF TypeOK, FreeIrq, StepTd, DevType, SqEntry
  <2> QED
    BY <1>29, <2>1, <2>2, Frame DEF TypeOK, FreeIrq
<1>30. ASSUME AbortOne PROVE TypeOK'
  <2>1. CtxType'
    BY <1>30, ZeroId DEF TypeOK, AbortOne, CtxType, CmdStatus
  <2>2. TdType'
    BY <1>30, ZeroId, DepthAssumption DEF TypeOK, AbortOne, TdType, TdPc, Ids
  <2> QED
    BY <1>30, <2>1, <2>2, Frame DEF TypeOK, AbortOne
<1>31. ASSUME Destroy PROVE TypeOK'
  <2>1. CtxType'
    BY <1>31, ZeroId DEF TypeOK, Destroy, StepTd, CtxType, CmdStatus
  <2>2. TdType'
    BY <1>31, ZeroId DEF TypeOK, Destroy, StepTd, TdType, TdPc
  <2> QED
    BY <1>31, <2>1, <2>2, Frame DEF TypeOK, Destroy
<1>32. ASSUME AdminInit PROVE TypeOK'
  <2>1. AdminType'
    <3>1. /\ running_state' \in BOOLEAN /\ polling' \in BOOLEAN
          /\ is_missing_admin_interrupt' \in BOOLEAN
          /\ polling_for_completions' \in BOOLEAN
      BY <1>32 DEF AdminInit
    <3> QED
      BY <1>32, <3>1, ZeroId DEF AdminInit, AdminType
  <2>2. RingType'
    BY <1>32, ZeroId, NextSlotType, NextPhaseType DEF TypeOK, AdminInit, StepTd, RingType, SqEntry, CqEntry, NoSqEntry, NoCqEntry
  <2>3. CtxType'
    BY <1>32, ZeroId DEF TypeOK, AdminInit, StepTd, CtxType, CmdStatus
  <2>4. TdType'
    BY <1>32, ZeroId DEF TypeOK, AdminInit, StepTd, TdType, TdPc
  <2>5. DevType'
    BY <1>32, ZeroId, NextSlotType, NextPhaseType DEF TypeOK, AdminInit, StepTd, DevType, SqEntry
  <2>6. GhostType'
    <3>1. overrun' \in BOOLEAN
      BY <1>32 DEF AdminInit
    <3> QED
      BY <1>32, <3>1 DEF TypeOK, AdminInit, GhostType
  <2> QED
    BY <1>32, <2>1, <2>2, <2>3, <2>4, <2>5, <2>6, Frame DEF TypeOK, AdminInit
<1>33. ASSUME PollFirst PROVE TypeOK'
  <2>1. AdminType'
    BY <1>33, ZeroId, NextSlotType DEF TypeOK, PollFirst, StepTd, AdminType
  <2>2. TdType'
    BY <1>33, ZeroId DEF TypeOK, PollFirst, StepTd, TdType, TdPc
  <2> QED
    BY <1>33, <2>1, <2>2, Frame DEF TypeOK, PollFirst
<1>34. ASSUME RequestIrq PROVE TypeOK'
  <2>1. TdType'
    BY <1>34, ZeroId DEF TypeOK, RequestIrq, StepTd, TdType, TdPc
  <2>2. DevType'
    BY <1>34, ZeroId, NextSlotType, NextPhaseType DEF TypeOK, RequestIrq, StepTd, DevType, SqEntry
  <2> QED
    BY <1>34, <2>1, <2>2, Frame DEF TypeOK, RequestIrq
<1>35. ASSUME InterruptsOn PROVE TypeOK'
  <2>1. AdminType'
    BY <1>35, ZeroId, NextSlotType DEF TypeOK, InterruptsOn, StepTd, AdminType
  <2>2. TdType'
    BY <1>35, ZeroId DEF TypeOK, InterruptsOn, StepTd, TdType, TdPc
  <2> QED
    BY <1>35, <2>1, <2>2, Frame DEF TypeOK, InterruptsOn
<1>36. ASSUME DeviceFetch PROVE TypeOK'
  <2>1. DevType'
    BY <1>36, ZeroId, NextSlotType, NextPhaseType DEF TypeOK, DeviceFetch, DevType, RingType, SqEntry
  <2> QED
    BY <1>36, <2>1, Frame DEF TypeOK, DeviceFetch
<1>37. ASSUME DeviceComplete PROVE TypeOK'
  <2>1. RingType'
    BY <1>37, ZeroId, NextSlotType, NextPhaseType DEF TypeOK, DeviceComplete, RingType, DevType, SqEntry, CqEntry, NoSqEntry, NoCqEntry
  <2>2. DevType'
    BY <1>37, ZeroId, NextSlotType, NextPhaseType DEF TypeOK, DeviceComplete, DevType, SqEntry
  <2>3. GhostType'
    <3>1. answer' \in [Cmds -> DevStatus \cup {"none"}]
      BY <1>37 DEF TypeOK, GhostType, DeviceComplete
    <3> QED
      BY <1>37, <3>1 DEF TypeOK, GhostType, DeviceComplete
  <2> QED
    BY <1>37, <2>1, <2>2, <2>3, Frame DEF TypeOK, DeviceComplete
<1>38. CASE UNCHANGED vars
  BY <1>38, Frame DEF TypeOK, vars
<1>39. ASSUME NEW c \in Clients, LockToSubmit(c) PROVE TypeOK'
  <2>1. AdminType'
    BY <1>39 DEF TypeOK, LockToSubmit, AdminType
  <2>2. ClientType'
    BY <1>39 DEF TypeOK, LockToSubmit, Goto, ClientType, ClientPc, Results
  <2> QED
    BY <1>39, <2>1, <2>2, Frame DEF TypeOK, LockToSubmit
<1>40. ASSUME NEW c \in Clients, CloseAq(c) PROVE TypeOK'
  <2>1. AdminType'
    BY <1>40 DEF TypeOK, CloseAq, Move, AdminType
  <2>2. ClientType'
    BY <1>40 DEF TypeOK, CloseAq, Move, Goto, ClientType, ClientPc, Results
  <2>3. GhostType'
    BY <1>40 DEF TypeOK, CloseAq, Move, Goto, GhostType, ClientType, NoCmd
  <2> QED
    BY <1>40, <2>1, <2>2, <2>3, Frame DEF TypeOK, CloseAq, Move
<1> QED
  BY <1>1, <1>2, <1>3, <1>4, <1>5, <1>6, <1>7, <1>8, <1>9, <1>10, <1>11, <1>12, <1>13, <1>14, <1>15, <1>16, <1>17, <1>18, <1>19, <1>20, <1>21, <1>22, <1>23, <1>24, <1>25, <1>26, <1>27, <1>28, <1>29, <1>30, <1>31, <1>32, <1>33, <1>34, <1>35, <1>36, <1>37, <1>38, <1>39, <1>40
  DEF Next, Issue, Wait, Handle, TearDown, BringUp

\* Every variable keeps its type: type correctness of the specification.
THEOREM TypeCorrect == Spec => []TypeOK
  BY InitType, TypeStep, PTL DEF Spec

-----------------------------------------------------------------------------
(***************************************************************************)
(* The teardown frees the contexts and the rings when outstanding_cmds is  *)
(* zero.  That nobody uses them then, and that a context has one owner,    *)
(* follows from an invariant that ties the callers' positions to the lock, *)
(* the scan, the interrupt, the life of the queue and the count.           *)
(***************************************************************************)
InScan(c) == pc[c] \in {"pollScan", "intrScan"}

\* The clients that have submitted and not yet decremented outstanding_cmds.
Busy == {c \in Clients : Holds(c) \/ pc[c] = "decrement"}

LockInv ==
    /\ \A c \in Clients : InScan(c) \/ pc[c] = "submit" <=> q_lock = c
    /\ \A c \in Clients : hpc[c] # "off" => InScan(c)

ScanInv ==
    /\ \A x, y \in Handlers : (Scanning(x) /\ Scanning(y)) => x = y
    /\ polling_for_completions <=> \E x \in Handlers : Scanning(x)

IrqInv ==
    /\ td \in {"freed", "abort", "drained", "down", "init", "polled"} => ~irqOn
    /\ ~irqOn => hpc[Isr] = "off"
    /\ hpc[Isr] # "own"

LifeInv ==
    /\ comp_ctx <=> td # "down"
    /\ td \in {"closed", "reset", "freed", "abort", "drained", "down"} =>
          ~running_state /\ \A c \in Clients : pc[c] # "submit"

CountInv ==
    /\ outstanding_cmds = Cardinality(Busy)
    /\ td = "down" => Busy = {}

OwnerInv ==
    /\ \A c, d \in Clients : (Holds(c) /\ Holds(d) /\ ctx[c] = ctx[d]) => c = d
    /\ \A i \in Ids : occupied[i] <=> \E c \in Clients : Holds(c) /\ ctx[c] = i

MemoryInv ==
    /\ TypeOK /\ LockInv /\ ScanInv /\ IrqInv /\ LifeInv /\ CountInv /\ OwnerInv


\* What each part depends on.
LEMMA MemoryFrame ==
    /\ LockInv /\ UNCHANGED <<pc, q_lock, hpc>> => LockInv'
    /\ ScanInv /\ UNCHANGED <<hpc, polling_for_completions>> => ScanInv'
    /\ IrqInv /\ UNCHANGED <<td, irqOn, hpc>> => IrqInv'
    /\ LifeInv /\ UNCHANGED <<comp_ctx, td, pc>> /\ (running_state' => running_state)
       => LifeInv'
    /\ CountInv /\ UNCHANGED <<outstanding_cmds, pc, td>> => CountInv'
    /\ OwnerInv /\ UNCHANGED <<pc, ctx, occupied>> => OwnerInv'
<1>1. LockInv /\ UNCHANGED <<pc, q_lock, hpc>> => LockInv'
  BY DEF LockInv, InScan
<1>2. ScanInv /\ UNCHANGED <<hpc, polling_for_completions>> => ScanInv'
  BY DEF ScanInv, Scanning
<1>3. IrqInv /\ UNCHANGED <<td, irqOn, hpc>> => IrqInv'
  BY DEF IrqInv
<1>4. LifeInv /\ UNCHANGED <<comp_ctx, td, pc>> /\ (running_state' => running_state)
      => LifeInv'
  BY DEF LifeInv
<1>5. CountInv /\ UNCHANGED <<outstanding_cmds, pc, td>> => CountInv'
  BY DEF CountInv, Busy, Holds
<1>6. OwnerInv /\ UNCHANGED <<pc, ctx, occupied>> => OwnerInv'
  BY DEF OwnerInv, Holds
<1> QED
  BY <1>1, <1>2, <1>3, <1>4, <1>5, <1>6

\* A step of a caller that neither takes nor gives up its context, nor enters
\* or leaves a scan.
CallerMoves(c) ==
    /\ \A d \in Clients : d # c => pc'[d] = pc[d]
    /\ pc[c] \in {"idle", "returned"} <=> pc'[c] \in {"idle", "returned"}
    /\ pc[c] # "decrement" /\ pc'[c] # "decrement"
    /\ {pc[c], pc'[c]} \cap {"submit", "pollScan", "intrScan"} = {}
    /\ pc[c] \notin {"idle", "returned"} => UNCHANGED ctx
    /\ \A d \in Clients : d # c => ctx'[d] = ctx[d]
    /\ running_state' => running_state
    /\ UNCHANGED <<q_lock, hpc, outstanding_cmds, td, irqOn, comp_ctx, occupied,
                   polling_for_completions>>

\* Such a step keeps the invariant.
LEMMA CallerMoving ==
    ASSUME MemoryInv, NEW c \in Clients, CallerMoves(c), TypeOK'
    PROVE  MemoryInv'
<1>1. \A d \in Clients : d # c => pc'[d] = pc[d]
  BY DEF CallerMoves
<1>2. Holds(c) <=> Holds(c)'
  BY DEF CallerMoves, Holds
<1>3. \A d \in Clients : d # c => (Holds(d) <=> Holds(d)')
  BY <1>1 DEF Holds
<1>4. LockInv'
  BY <1>1 DEF MemoryInv, CallerMoves, LockInv, InScan
<1>5. CountInv'
  <2>1. Busy' = Busy
    BY <1>1, <1>2, <1>3 DEF Busy, CallerMoves
  <2> QED
    BY <2>1 DEF MemoryInv, CallerMoves, CountInv
<1>6. OwnerInv'
  <2>1. \A d \in Clients : Holds(d)' => Holds(d) /\ ctx'[d] = ctx[d]
    BY <1>2, <1>3 DEF CallerMoves, Holds
  <2>2. \A d \in Clients : Holds(d) => Holds(d)' /\ ctx'[d] = ctx[d]
    BY <1>2, <1>3 DEF CallerMoves, Holds
  <2> QED
    BY <2>1, <2>2 DEF MemoryInv, CallerMoves, OwnerInv
<1>7. LifeInv'
  BY <1>1 DEF MemoryInv, CallerMoves, LifeInv
<1> QED
  BY <1>4, <1>5, <1>6, <1>7, MemoryFrame DEF MemoryInv, CallerMoves

\* The callers that are counted can be counted.
LEMMA BusyFinite == IsFiniteSet(Busy) /\ Cardinality(Busy) \in Nat
<1>1. Busy \subseteq Clients
  BY DEF Busy
<1> QED
  BY <1>1, ClientsAssumption, FS_Subset, FS_CardinalityType

\* The invariant holds after bring-up.
LEMMA MemoryInit == Init => MemoryInv
<1> SUFFICES ASSUME Init PROVE MemoryInv
  OBVIOUS
<1>1. Busy = {}
  BY DEF Init, Busy, Holds
<1>2. CountInv
  BY <1>1, FS_EmptySet DEF Init, CountInv
<1>3. \A c \in Clients : c # Nobody
  BY NamesAssumption
<1>4. LockInv
  BY <1>3 DEF Init, LockInv, InScan, Handlers
<1>5. ScanInv /\ IrqInv /\ LifeInv
  BY DEF Init, ScanInv, IrqInv, LifeInv, Scanning, Handlers
<1>6. OwnerInv
  BY DEF Init, OwnerInv, Holds
<1> QED
  BY <1>2, <1>4, <1>5, <1>6, InitType DEF MemoryInv

\* The actions of a caller that only move it.
LEMMA MovingActions ==
    ASSUME TypeOK, NEW c \in Clients,
           \/ RefuseNotRunning(c)
           \/ ChooseWait(c) \/ PollCheck(c) \/ PollExpired(c) \/ Aborted(c)
           \/ Woken(c) \/ WaitExpired(c) \/ IntrCheck(c) \/ NoCompletion(c)
           \/ MissingInterruptFatal(c) \/ MissingInterruptPolls(c) \/ CloseAq(c)
           \/ Return(c)
    PROVE  CallerMoves(c)
<1> USE DEF CallerMoves, Goto, TypeOK, ClientType, adminVars, ctxVars, handlerVars,
            tdVars, devVars
<1>1. CASE RefuseNotRunning(c)
  BY <1>1 DEF RefuseNotRunning, Refuse
<1>2. CASE CloseAq(c)
  BY <1>2 DEF CloseAq, Move
<1>4. CASE ChooseWait(c)
  BY <1>4 DEF ChooseWait
<1>5. CASE PollCheck(c)
  BY <1>5 DEF PollCheck, Move
<1>6. CASE PollExpired(c)
  BY <1>6 DEF PollExpired, Move
<1>7. CASE Aborted(c)
  BY <1>7 DEF Aborted, Move
<1>8. CASE Woken(c)
  BY <1>8 DEF Woken, Move
<1>9. CASE WaitExpired(c)
  BY <1>9 DEF WaitExpired, Move
<1>10. CASE IntrCheck(c)
  BY <1>10 DEF IntrCheck, Move
<1>11. CASE NoCompletion(c)
  BY <1>11 DEF NoCompletion, Move
<1>12. CASE MissingInterruptFatal(c)
  BY <1>12 DEF MissingInterruptFatal, Move
<1>13. CASE MissingInterruptPolls(c)
  BY <1>13 DEF MissingInterruptPolls
<1>14. CASE Return(c)
  BY <1>14 DEF Return
<1> QED
  BY <1>1, <1>2, <1>4, <1>5, <1>6, <1>7, <1>8, <1>9, <1>10, <1>11, <1>12, <1>13, <1>14

\* The caller that holds q_lock to submit is the only one, and holds no context.
LEMMA MemoryLockToSubmit ==
    ASSUME MemoryInv, TypeOK', NEW c \in Clients, LockToSubmit(c)
    PROVE  MemoryInv'
<1>1. \A d \in Clients : d # c => pc'[d] = pc[d]
  BY DEF LockToSubmit, Goto, MemoryInv, TypeOK, ClientType
<1>2. pc[c] = "idle" /\ pc'[c] = "submit" /\ q_lock = Nobody /\ q_lock' = c
  BY DEF LockToSubmit, Goto, MemoryInv, TypeOK, ClientType
<1>3. \A d \in Clients : Holds(d) <=> Holds(d)'
  BY <1>1, <1>2 DEF Holds
<1>4. LockInv'
  BY <1>1, <1>2, NamesAssumption DEF MemoryInv, LockToSubmit, LockInv, InScan, handlerVars
<1>5. CountInv' /\ OwnerInv'
  <2>1. Busy' = Busy
    BY <1>1, <1>2, <1>3 DEF Busy
  <2> QED
    BY <1>3, <2>1 DEF MemoryInv, LockToSubmit, CountInv, OwnerInv, tdVars, ctxVars
<1>6. LifeInv'
  BY DEF MemoryInv, LockToSubmit, LifeInv, tdVars, ctxVars
<1> QED
  BY <1>4, <1>5, <1>6, MemoryFrame
  DEF MemoryInv, LockToSubmit, handlerVars, tdVars, devVars

\* A caller that is refused with q_lock held gives it back.
LEMMA MemoryRefuse ==
    ASSUME MemoryInv, TypeOK', NEW c \in Clients, RefuseFull(c) \/ RefuseOccupied(c)
    PROVE  MemoryInv'
<1>1. \A d \in Clients : d # c => pc'[d] = pc[d]
  BY DEF RefuseFull, RefuseOccupied, Refuse, Goto, MemoryInv, TypeOK, ClientType
<1>2. /\ pc[c] = "submit" /\ pc'[c] = "returned" /\ q_lock' = Nobody /\ ~running_state'
      /\ UNCHANGED <<ctx, outstanding_cmds, polling_for_completions, occupied, comp_ctx,
                     hpc, td, irqOn>>
  BY DEF RefuseFull, RefuseOccupied, Refuse, Goto, MemoryInv, TypeOK, ClientType,
         ctxVars, handlerVars, tdVars, devVars
<1>3. \A d \in Clients : Holds(d) <=> Holds(d)'
  BY <1>1, <1>2 DEF Holds
<1>4. LockInv'
  <2>1. q_lock = c
    BY <1>2 DEF MemoryInv, LockInv
  <2> QED
    BY <1>1, <1>2, <2>1, NamesAssumption DEF MemoryInv, LockInv, InScan
<1>5. CountInv' /\ OwnerInv'
  <2>1. Busy' = Busy
    BY <1>1, <1>2, <1>3 DEF Busy
  <2> QED
    BY <1>2, <1>3, <2>1 DEF MemoryInv, CountInv, OwnerInv
<1>6. LifeInv'
  BY <1>1, <1>2 DEF MemoryInv, LifeInv
<1> QED
  BY <1>2, <1>4, <1>5, <1>6, MemoryFrame DEF MemoryInv

\* Submission: no teardown has begun while q_lock is held, so the contexts are
\* allocated; the caller takes a free one and is counted.
LEMMA MemorySubmit ==
    ASSUME MemoryInv, TypeOK', NEW c \in Clients, Submit(c)
    PROVE  MemoryInv'
<1>1. \A d \in Clients : d # c => pc'[d] = pc[d] /\ ctx'[d] = ctx[d]
  BY DEF Submit, Goto, MemoryInv, TypeOK, ClientType
<1>2. /\ pc[c] = "submit" /\ pc'[c] = "submitted" /\ ctx'[c] = curr_cmd_id
      /\ q_lock' = Nobody /\ ~Holds(c) /\ Holds(c)'
  BY DEF Submit, Goto, Holds, MemoryInv, TypeOK, ClientType
<1>3. \A d \in Clients : d # c => (Holds(d) <=> Holds(d)')
  BY <1>1 DEF Holds
<1>4. LockInv'
  <2>1. q_lock = c
    BY <1>2 DEF MemoryInv, LockInv
  <2> QED
    BY <1>1, <1>2, <2>1, NamesAssumption DEF MemoryInv, Submit, LockInv, InScan, handlerVars
<1>7. LifeInv'
  BY <1>1, <1>2 DEF Submit, MemoryInv, LifeInv, tdVars
<1>5. CountInv'
  <2>1. c \notin Busy /\ Busy' = Busy \cup {c}
    BY <1>1, <1>2, <1>3 DEF Busy
  <2>2. Cardinality(Busy') = Cardinality(Busy) + 1
    BY <2>1, BusyFinite, FS_AddElement
  <2>3. td' # "down"
    BY <1>2 DEF Submit, MemoryInv, LifeInv, tdVars
  <2> QED
    BY <2>2, <2>3 DEF MemoryInv, Submit, CountInv
<1>6. OwnerInv'
  <2>1. curr_cmd_id \in Ids /\ ~occupied[curr_cmd_id]
    BY DEF Submit, MayTake, MemoryInv, TypeOK, AdminType
  <2>2. \A d \in Clients : Holds(d) => ctx[d] # curr_cmd_id
    BY <2>1 DEF MemoryInv, OwnerInv
  <2>3. \A i \in Ids : occupied'[i] <=> (occupied[i] \/ i = curr_cmd_id)
    BY <2>1 DEF Submit, MemoryInv, TypeOK, CtxType
  <2> QED
    BY <1>1, <1>2, <1>3, <2>1, <2>2, <2>3 DEF MemoryInv, OwnerInv
<1> QED
  BY <1>4, <1>5, <1>6, <1>7, MemoryFrame DEF MemoryInv, Submit, handlerVars, tdVars

\* A client that locks q_lock is the one that has it, and begins to wait for
\* the ownership of the scan.
LEMMA MemoryLock ==
    ASSUME MemoryInv, TypeOK', NEW c \in Clients, LockToPoll(c)
    PROVE  MemoryInv'
<1>1. \A d \in Clients : d # c => pc'[d] = pc[d]
  BY DEF LockToPoll, Goto, MemoryInv, TypeOK, ClientType
<1>2. /\ pc[c] \in {"pollLock", "intrLock"} /\ pc'[c] \in {"pollScan", "intrScan"}
      /\ q_lock = Nobody /\ q_lock' = c
  BY DEF LockToPoll, Goto, MemoryInv, TypeOK, ClientType
<1>3. c # Isr /\ \A x \in Handlers : x # c => hpc'[x] = hpc[x]
  BY NamesAssumption DEF LockToPoll, MemoryInv, TypeOK, HandlerType
<1>4. hpc[c] = "off" /\ hpc'[c] = "own"
  BY <1>2 DEF LockToPoll, MemoryInv, TypeOK, HandlerType, Handlers, LockInv, InScan
<1>5. LockInv'
  BY <1>1, <1>2, <1>3, NamesAssumption DEF MemoryInv, LockInv, InScan, Handlers
<1>6. ScanInv'
  BY <1>3, <1>4 DEF MemoryInv, LockToPoll, ScanInv, Scanning
<1>7. IrqInv'
  BY <1>3 DEF MemoryInv, LockToPoll, IrqInv, Handlers, tdVars, devVars
<1>8. CountInv' /\ OwnerInv'
  <2>1. \A d \in Clients : Holds(d) <=> Holds(d)'
    BY <1>1, <1>2 DEF Holds
  <2>2. Busy' = Busy
    BY <1>1, <1>2, <2>1 DEF Busy
  <2> QED
    BY <2>1, <2>2 DEF MemoryInv, LockToPoll, CountInv, OwnerInv, tdVars, ctxVars
<1>9. LifeInv'
  BY <1>1, <1>2 DEF MemoryInv, LockToPoll, LifeInv, tdVars, ctxVars
<1> QED
  BY <1>5, <1>6, <1>7, <1>8, <1>9, MemoryFrame DEF MemoryInv, LockToPoll

\* The owner of the scan is the only one: nobody was scanning.
LEMMA MemoryStartScan ==
    ASSUME MemoryInv, TypeOK', NEW x \in Handlers, StartScan(x),
           ~polling_for_completions,
           hpc[x] = "off" => x = Isr /\ irqOn,
           UNCHANGED <<pc, ctx, q_lock, outstanding_cmds, td, irqOn, comp_ctx,
                       running_state, occupied>>
    PROVE  MemoryInv'
<1>1. hpc'[x] = "scan" /\ \A y \in Handlers : y # x => hpc'[y] = hpc[y]
  BY DEF StartScan, MemoryInv, TypeOK, HandlerType
<1>2. \A y \in Handlers : ~Scanning(y)
  BY DEF MemoryInv, ScanInv
<1>3. ScanInv'
  BY <1>1, <1>2 DEF StartScan, ScanInv, Scanning
<1>4. LockInv'
  BY <1>1, NamesAssumption DEF MemoryInv, LockInv, InScan, Handlers
<1>5. IrqInv'
  BY <1>1 DEF MemoryInv, IrqInv, Handlers
<1> QED
  BY <1>3, <1>4, <1>5, MemoryFrame DEF MemoryInv

\* A step inside a scan.
LEMMA MemoryScan ==
    ASSUME MemoryInv, TypeOK', NEW x \in Handlers, Scanning(x), Scanning(x)',
           \A y \in Handlers : y # x => hpc'[y] = hpc[y],
           running_state' => running_state,
           UNCHANGED <<pc, ctx, q_lock, outstanding_cmds, td, irqOn, comp_ctx,
                       occupied, polling_for_completions>>
    PROVE  MemoryInv'
<1>1. ScanInv'
  BY DEF MemoryInv, ScanInv, Scanning
<1>2. LockInv'
  BY DEF MemoryInv, LockInv, InScan, Scanning, Handlers
<1>3. IrqInv'
  BY DEF MemoryInv, IrqInv, Handlers, Scanning
<1> QED
  BY <1>1, <1>2, <1>3, MemoryFrame DEF MemoryInv

\* The end of a scan: the ownership goes, and a client unlocks q_lock.
LEMMA MemoryFinish ==
    ASSUME MemoryInv, TypeOK', NEW x \in Handlers, FinishScan(x)
    PROVE  MemoryInv'
<1>1. /\ hpc[x] = "scan" /\ hpc'[x] = "off"
      /\ \A y \in Handlers : y # x => hpc'[y] = hpc[y]
  BY DEF FinishScan, MemoryInv, TypeOK, HandlerType
<1>2. ~polling_for_completions'
  BY DEF FinishScan, OwnedAfterScan
<1>3. ScanInv'
  BY <1>1, <1>2 DEF MemoryInv, ScanInv, Scanning
<1>4. IrqInv'
  BY <1>1 DEF MemoryInv, FinishScan, IrqInv, Handlers, tdVars, devVars
<1>5. CASE x = Isr
  <2>1. UNCHANGED <<q_lock, pc>>
    BY <1>5, NamesAssumption DEF FinishScan
  <2>2. LockInv'
    BY <1>1, <1>5, <2>1, NamesAssumption DEF MemoryInv, LockInv, InScan, Handlers
  <2> QED
    BY <1>3, <1>4, <2>1, <2>2, MemoryFrame DEF MemoryInv, FinishScan, tdVars, ctxVars
<1>6. CASE x \in Clients
  <2>1. /\ pc[x] \in {"pollScan", "intrScan"}
        /\ pc'[x] \in {"pollCheck", "intrRecheck"}
        /\ \A d \in Clients : d # x => pc'[d] = pc[d]
        /\ q_lock = x /\ q_lock' = Nobody
    BY <1>1, <1>6 DEF FinishScan, Goto, MemoryInv, LockInv, InScan, TypeOK, ClientType
  <2>2. LockInv'
    BY <1>1, <1>6, <2>1, NamesAssumption DEF MemoryInv, LockInv, InScan, Handlers
  <2>3. \A d \in Clients : Holds(d) <=> Holds(d)'
    BY <1>6, <2>1 DEF Holds
  <2>4. Busy' = Busy
    BY <1>6, <2>1, <2>3 DEF Busy
  <2>5. CountInv' /\ OwnerInv'
    BY <2>3, <2>4 DEF MemoryInv, FinishScan, CountInv, OwnerInv, tdVars, ctxVars
  <2>6. LifeInv'
    BY <1>6, <2>1 DEF MemoryInv, FinishScan, LifeInv, tdVars, ctxVars
  <2> QED
    BY <1>3, <1>4, <2>2, <2>5, <2>6, MemoryFrame DEF MemoryInv, FinishScan
<1> QED
  BY <1>5, <1>6 DEF Handlers

\* comp_ctxt_release(): the context is free, its caller still counted.
LEMMA MemoryRelease ==
    ASSUME MemoryInv, TypeOK', NEW c \in Clients, Release(c)
    PROVE  MemoryInv'
<1>1. \A d \in Clients : d # c => pc'[d] = pc[d]
  BY DEF Release, Goto, MemoryInv, TypeOK, ClientType
<1>2. pc[c] = "release" /\ pc'[c] = "decrement" /\ ctx[c] \in Ids
  BY DEF Release, Goto, MemoryInv, TypeOK, ClientType
<1>3. Holds(c) /\ ~Holds(c)' /\ \A d \in Clients : d # c => (Holds(d) <=> Holds(d)')
  BY <1>1, <1>2 DEF Holds
<1>4. LockInv'
  BY <1>1, <1>2 DEF MemoryInv, Release, LockInv, InScan, adminVars, handlerVars
<1>5. CountInv'
  <2>1. Busy' = Busy
    BY <1>1, <1>2, <1>3 DEF Busy
  <2> QED
    BY <2>1 DEF MemoryInv, Release, CountInv, adminVars, tdVars
<1>6. OwnerInv'
  <2>1. \A i \in Ids : occupied'[i] <=> (occupied[i] /\ i # ctx[c])
    BY <1>2 DEF Release, MemoryInv, TypeOK, CtxType
  <2> QED
    BY <1>2, <1>3, <2>1 DEF MemoryInv, Release, OwnerInv
<1>7. LifeInv'
  BY <1>1, <1>2 DEF MemoryInv, Release, LifeInv, adminVars, tdVars
<1> QED
  BY <1>4, <1>5, <1>6, <1>7, MemoryFrame
  DEF MemoryInv, Release, adminVars, handlerVars, tdVars, devVars

\* The caller leaves and is no longer counted.
LEMMA MemoryDecrement ==
    ASSUME MemoryInv, TypeOK', NEW c \in Clients, Decrement(c)
    PROVE  MemoryInv'
<1>1. \A d \in Clients : d # c => pc'[d] = pc[d]
  BY DEF Decrement, Goto, MemoryInv, TypeOK, ClientType
<1>2. pc[c] = "decrement" /\ pc'[c] = "returned"
  BY DEF Decrement, Goto, MemoryInv, TypeOK, ClientType
<1>3. \A d \in Clients : Holds(d) <=> Holds(d)'
  BY <1>1, <1>2 DEF Holds
<1>4. LockInv'
  BY <1>1, <1>2 DEF MemoryInv, Decrement, LockInv, InScan, handlerVars
<1>5. CountInv'
  <2>1. c \in Busy /\ Busy' = Busy \ {c}
    BY <1>1, <1>2, <1>3 DEF Busy, Holds
  <2>2. Cardinality(Busy') = Cardinality(Busy) - 1
    BY <2>1, BusyFinite, FS_RemoveElement
  <2>3. outstanding_cmds' = outstanding_cmds - 1
    BY DEF Decrement, CountAfterRelease
  <2> QED
    BY <2>1, <2>2, <2>3 DEF MemoryInv, Decrement, CountInv, tdVars
<1>6. OwnerInv'
  BY <1>3 DEF MemoryInv, Decrement, OwnerInv, ctxVars
<1>7. LifeInv'
  BY <1>1, <1>2 DEF MemoryInv, Decrement, LifeInv, tdVars, ctxVars
<1> QED
  BY <1>4, <1>5, <1>6, <1>7, MemoryFrame
  DEF MemoryInv, Decrement, handlerVars, tdVars, devVars

\* Teardown steps that only move td, close the queue or stop the interrupt.
LEMMA MemoryTearDown ==
    ASSUME MemoryInv, TypeOK', Close \/ ResetDevice \/ FreeIrq \/ AbortOne
    PROVE  MemoryInv'
<1>1. UNCHANGED <<pc, ctx, q_lock, hpc, outstanding_cmds, comp_ctx, occupied,
                  polling_for_completions>>
  BY DEF Close, ResetDevice, FreeIrq, AbortOne, clientVars, handlerVars,
         adminVars, ctxVars
<1>2. LifeInv'
  <2>1. CASE Close
    <3>1. \A c \in Clients : pc[c] # "submit"
      BY <2>1, NamesAssumption DEF Close, MemoryInv, LockInv
    <3> QED
      BY <1>1, <2>1, <3>1 DEF Close, StepTd, MemoryInv, LifeInv
  <2>2. CASE ResetDevice \/ FreeIrq \/ AbortOne
    BY <1>1, <2>2 DEF ResetDevice, FreeIrq, AbortOne, StepTd, adminVars, MemoryInv, LifeInv
  <2> QED
    BY <2>1, <2>2
<1>3. IrqInv'
  BY DEF Close, ResetDevice, FreeIrq, AbortOne, StepTd, MemoryInv, IrqInv, devVars,
         handlerVars
<1>4. CountInv'
  <2>1. td' # "down"
    BY DEF Close, ResetDevice, FreeIrq, AbortOne, StepTd
  <2>2. Busy' = Busy
    BY <1>1 DEF Busy, Holds
  <2> QED
    BY <1>1, <2>1, <2>2 DEF MemoryInv, CountInv
<1> QED
  BY <1>1, <1>2, <1>3, <1>4, MemoryFrame DEF MemoryInv

\* The contexts are freed when nobody is counted.
LEMMA MemoryDestroy ==
    ASSUME MemoryInv, TypeOK', Destroy
    PROVE  MemoryInv'
<1>1. Busy = {}
  BY BusyFinite, FS_EmptySet DEF Destroy, Drained, MemoryInv, CountInv
<1>2. Busy' = Busy
  BY DEF Destroy, Busy, Holds, clientVars
<1>3. CountInv'
  BY <1>1, <1>2 DEF Destroy, MemoryInv, CountInv, adminVars
<1>4. IrqInv' /\ LifeInv'
  BY DEF Destroy, StepTd, MemoryInv, IrqInv, LifeInv, adminVars, devVars, handlerVars,
         clientVars
<1> QED
  BY <1>3, <1>4, MemoryFrame
  DEF MemoryInv, Destroy, adminVars, devVars, handlerVars, clientVars

\* The queue comes up while nobody is in a call and the interrupt is off.
LEMMA MemoryUp ==
    ASSUME MemoryInv, TypeOK', AdminInit
    PROVE  MemoryInv'
<1>1. Busy = {} /\ hpc[Isr] = "off"
  BY DEF AdminInit, StepTd, MemoryInv, CountInv, IrqInv
<1>2. \A c \in Clients : ~Holds(c) /\ ~InScan(c) /\ pc[c] # "submit" /\ hpc[c] = "off"
  BY <1>1 DEF AdminInit, StepTd, Busy, Holds, InScan, MemoryInv, LockInv, LifeInv
<1>3. UNCHANGED <<pc, hpc, irqOn>> /\ q_lock' = Nobody /\ td' = "init" /\ td = "down"
  BY DEF AdminInit, StepTd, clientVars, handlerVars
<1>4. LockInv'
  BY <1>2, <1>3, NamesAssumption DEF LockInv, InScan
<1>5. ScanInv'
  BY <1>1, <1>2, <1>3 DEF AdminInit, ScanInv, Scanning, Handlers
<1>6. IrqInv' /\ LifeInv'
  BY <1>3 DEF AdminInit, MemoryInv, IrqInv, LifeInv
<1>7. CountInv'
  <2>1. Busy' = {}
    BY <1>1, <1>3 DEF Busy, Holds
  <2> QED
    BY <2>1, <1>3, FS_EmptySet DEF AdminInit, CountInv
<1>8. OwnerInv'
  <2>1. \A c \in Clients : ~Holds(c)'
    BY <1>2, <1>3 DEF Holds
  <2> QED
    BY <2>1 DEF AdminInit, OwnerInv
<1> QED
  BY <1>4, <1>5, <1>6, <1>7, <1>8 DEF MemoryInv

\* The rest of the bring-up.
LEMMA MemoryBringUp ==
    ASSUME MemoryInv, TypeOK', PollFirst \/ RequestIrq \/ InterruptsOn
    PROVE  MemoryInv'
<1>1. UNCHANGED <<pc, ctx, q_lock, hpc, outstanding_cmds, comp_ctx, occupied,
                  polling_for_completions, running_state>>
  BY DEF PollFirst, RequestIrq, InterruptsOn, clientVars, handlerVars,
         adminVars, ctxVars
<1>2. LifeInv' /\ IrqInv'
  BY <1>1 DEF PollFirst, RequestIrq, InterruptsOn, StepTd, MemoryInv, LifeInv, IrqInv, devVars
<1>3. CountInv'
  <2>1. td' # "down"
    BY DEF PollFirst, RequestIrq, InterruptsOn, StepTd
  <2>2. Busy' = Busy
    BY <1>1 DEF Busy, Holds
  <2> QED
    BY <1>1, <2>1, <2>2 DEF MemoryInv, CountInv
<1> QED
  BY <1>1, <1>2, <1>3, MemoryFrame DEF MemoryInv

\* Every step keeps the invariant: one step per group of actions.
LEMMA MemoryStep == MemoryInv /\ [Next]_vars => MemoryInv'
<1> SUFFICES ASSUME MemoryInv, [Next]_vars PROVE MemoryInv'
  OBVIOUS
<1>0. TypeOK /\ TypeOK'
  BY TypeStep DEF MemoryInv
<1>1. ASSUME NEW c \in Clients, Issue(c) PROVE MemoryInv'
  BY <1>0, <1>1, MemorySubmit, MemoryLockToSubmit, MemoryRefuse, MovingActions, CallerMoving
     DEF Issue
<1>2. ASSUME NEW c \in Clients, Wait(c) PROVE MemoryInv'
  <2>1. CASE LockToPoll(c)
    BY <1>0, <2>1, MemoryLock
  <2>2. CASE TakeOwnership(c)
    BY <1>0, <2>2, MemoryStartScan
    DEF TakeOwnership, MayOwn, Handlers, clientVars, tdVars, devVars, ctxVars
  <2>3. CASE Release(c)
    BY <1>0, <2>3, MemoryRelease
  <2>4. CASE Decrement(c)
    BY <1>0, <2>4, MemoryDecrement
  <2> QED
    BY <1>0, <1>2, <2>1, <2>2, <2>3, <2>4, MovingActions, CallerMoving DEF Wait
<1>3. ASSUME NEW x \in Handlers, Handle(x) PROVE MemoryInv'
  <2>1. CASE FinishScan(x)
    BY <1>0, <2>1, MemoryFinish
  <2>2. ASSUME FindContext(x) \/ BadCompletion(x) \/ CopyResponse(x)
               \/ PostStatus(x) \/ Wake(x)
        PROVE  MemoryInv'
    <3>1. Scanning(x) /\ Scanning(x)' /\ \A y \in Handlers : y # x => hpc'[y] = hpc[y]
      BY <1>0, <2>2 DEF FindContext, BadCompletion, CopyResponse, PostStatus, Wake,
         After, Scanning, TypeOK, HandlerType
    <3>2. running_state' => running_state
      BY <2>2 DEF FindContext, BadCompletion, CopyResponse, PostStatus, Wake, adminVars
    <3>3. UNCHANGED <<pc, ctx, q_lock, outstanding_cmds, td, irqOn, comp_ctx,
                      occupied, polling_for_completions>>
      BY <2>2 DEF FindContext, BadCompletion, CopyResponse, PostStatus, Wake,
         adminVars, clientVars, tdVars, devVars, ctxVars
    <3> QED
      BY <1>0, <3>1, <3>2, <3>3, MemoryScan
  <2> QED
    BY <1>3, <2>1, <2>2 DEF Handle
<1>4. CASE Interrupt
  <2>1. UNCHANGED <<pc, ctx, q_lock, outstanding_cmds, td, irqOn, comp_ctx,
                    running_state, occupied>>
    BY <1>4 DEF Interrupt, clientVars, tdVars, ctxVars
  <2>2. CASE polling_for_completions
    BY <1>0, <1>4, <2>1, <2>2, MemoryFrame DEF Interrupt, MemoryInv, handlerVars
  <2>3. CASE ~polling_for_completions
    BY <1>0, <1>4, <2>1, <2>3, MemoryStartScan DEF Interrupt, Handlers
  <2> QED
    BY <2>2, <2>3
<1>5. CASE Close \/ ResetDevice \/ FreeIrq \/ AbortOne
  BY <1>0, <1>5, MemoryTearDown
<1>6. CASE Destroy
  BY <1>0, <1>6, MemoryDestroy
<1>7. CASE BringUp
  BY <1>0, <1>7, MemoryUp, MemoryBringUp DEF BringUp
<1>8. CASE DeviceFetch \/ DeviceComplete \/ UNCHANGED vars
  <2>1. UNCHANGED <<pc, ctx, q_lock, hpc, outstanding_cmds, td, irqOn, comp_ctx,
                    running_state, occupied, polling_for_completions>>
    BY <1>8 DEF DeviceFetch, DeviceComplete, vars, adminVars, clientVars,
       handlerVars, tdVars, devVars, ctxVars
  <2> QED
    BY <1>0, <2>1, MemoryFrame DEF MemoryInv
<1> QED
  BY <1>1, <1>2, <1>3, <1>4, <1>5, <1>6, <1>7, <1>8 DEF Next, TearDown

\* The induction the theorems below rest on.
LEMMA MemoryCorrect == Spec => []MemoryInv
  BY MemoryInit, MemoryStep, PTL DEF Spec

\* Freed contexts are not used: when ena_com_admin_destroy() has run, no caller
\* holds a context, is about to take one or is yet to be counted out, and nobody
\* scans.
THEOREM FreedIsUnused == Spec => []NoUseAfterFree
<1>1. MemoryInv => NoUseAfterFree
  <2> SUFFICES ASSUME MemoryInv, ~comp_ctx PROVE NoUseAfterFree
    BY DEF NoUseAfterFree
  <2>1. /\ td = "down" /\ Busy = {} /\ hpc[Isr] = "off"
        /\ \A c \in Clients : pc[c] # "submit"
    BY DEF MemoryInv, LifeInv, CountInv, IrqInv
  <2>2. \A c \in Clients : /\ ~Holds(c) /\ pc[c] \notin {"submit", "decrement"}
                          /\ hpc[c] = "off"
    BY <2>1 DEF Busy, Holds, InScan, MemoryInv, LockInv
  <2> QED
    BY <2>1, <2>2 DEF NoUseAfterFree, Handlers
<1> QED
  BY <1>1, MemoryCorrect, PTL

\* While the contexts are allocated, the occupied ones are those of the callers
\* that hold one, no two callers share one, and outstanding_cmds counts the
\* callers that have not left.
THEOREM ContextsHaveOneOwner == Spec => []ContextsOwned
<1>1. MemoryInv => ContextsOwned
  <2> SUFFICES ASSUME MemoryInv PROVE ContextsOwned
    OBVIOUS
  <2>1. \A c \in Clients : ctx[c] \in Ids
    BY DEF MemoryInv, TypeOK, ClientType
  <2>2. {i \in Ids : occupied[i]} = {ctx[c] : c \in {d \in Clients : Holds(d)}}
    BY <2>1 DEF MemoryInv, OwnerInv
  <2>3. outstanding_cmds = Cardinality({c \in Clients : Holds(c) \/ pc[c] = "decrement"})
    BY DEF MemoryInv, CountInv, Busy
  <2> QED
    BY <2>2, <2>3 DEF MemoryInv, OwnerInv, ContextsOwned
<1> QED
  BY <1>1, MemoryCorrect, PTL

\* One scan of the completion queue at a time, and polling_for_completions says
\* whether there is one.
THEOREM ScanIsExclusive == Spec => []OneScanner
<1>1. MemoryInv => OneScanner
  BY DEF MemoryInv, ScanInv, OneScanner
<1> QED
  BY <1>1, MemoryCorrect, PTL

=============================================================================
