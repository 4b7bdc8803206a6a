---------------------------- MODULE MCAdminQueue ----------------------------
(***************************************************************************)
(* Small instances of AdminQueue for TLC.                                  *)
(***************************************************************************)
EXTENDS AdminQueue, TLC

TwoStatuses == {"SUCCESS", "RESOURCE_BUSY"}
OneStatus == {"SUCCESS"}
NoIds == {}
OneBadId == {Depth}

(***************************************************************************)
(* Liveness is checked from the states in which the queue is up, in        *)
(* interrupt mode (a missing interrupt turns it to polling), and every     *)
(* client has just submitted a command that the device is executing.  The  *)
(* history variables, which no action reads, start saturated so that they  *)
(* tell no states apart.                                                   *)
(***************************************************************************)
BusyInit ==
    LET n == Cardinality(Clients)
        rank == CHOOSE f \in [Clients -> 0..(n - 1)] :
                  \A c, d \in Clients : f[c] = f[d] => c = d
    IN
    /\ running_state = TRUE /\ polling = FALSE
    /\ is_missing_admin_interrupt = FALSE /\ curr_cmd_id = n % Depth
    /\ outstanding_cmds = n /\ polling_for_completions = FALSE
    /\ q_lock = Nobody
    /\ sq = [i \in Ids |-> [phase |-> TRUE, id |-> i, cmd |-> i + 1]]
    /\ sqTail = n % Depth /\ sqPhase = (n < Depth)
    /\ cq = [i \in Ids |-> NoCqEntry] /\ cqHead = 0 /\ cqPhase = TRUE
    /\ comp_ctx = TRUE
    /\ occupied = [i \in Ids |-> i < n]
    /\ user_cqe = [i \in Ids |-> i + 1]
    /\ status = [i \in Ids |-> "SUBMITTED"]
    /\ comp_status = [i \in Ids |-> "none"]
    /\ wait_event = [i \in Ids |-> FALSE]
    /\ pc = [c \in Clients |-> "submitted"]
    /\ call = [c \in Clients |-> rank[c] + 1]
    /\ ctx = rank
    /\ ret = [c \in Clients |-> "none"]
    /\ buf = [c \in Clients |-> NoCmd]
    /\ hpc = [x \in Handlers |-> "off"]
    /\ hslot = [x \in Handlers |-> 0]
    /\ hphase = [x \in Handlers |-> FALSE]
    /\ hctx = [x \in Handlers |-> 0]
    /\ hdst = [x \in Handlers |-> NoCmd]
    /\ td = "up" /\ tdNext = 0 /\ inits = MaxInits
    /\ devHead = n % Depth /\ devSqPhase = (n < Depth) /\ announced = 0
    /\ executing = {sq[i] : i \in 0..(n - 1)}
    /\ devTail = 0 /\ devPhase = TRUE /\ irq = FALSE /\ irqOn = TRUE
    /\ lastCmd = n
    /\ answer \in [Cmds -> DevStatus]
    /\ gaveUp = Cmds /\ stray = Cmds /\ exposed = Cmds /\ overrun = FALSE

\* One client makes a further call, while the other is about to close the queue and
\* no teardown has; none begins after it, and the device never fetches it.
BusyNext ==
    \/ \E c \in Clients :
          RefuseNotRunning(c) \/ RefuseOccupied(c) \/ Submit(c) \/ Wait(c)
    \/ LET c == CHOOSE d \in Clients : TRUE
       IN td = "up" /\ ~irq /\ LockToSubmit(c) /\ \E d \in Clients : pc[d] = "closeAq"
    \/ \E x \in Handlers :
          FindContext(x) \/ CopyResponse(x) \/ PostStatus(x) \/ Wake(x) \/ FinishScan(x)
    \/ Interrupt
    \/ lastCmd < MaxCmds /\ Close
    \/ TearDown
    \/ DeviceComplete
BusyFairSpec == BusyInit /\ [][BusyNext]_vars /\ Fairness

(***************************************************************************)
(* Safety is checked with three calls; with a teardown at any time during  *)
(* up to two, and after three; and with one call in each of two lives, of  *)
(* which the second ends when nobody is in a call.  A closed queue refuses *)
(* calls in the states after the first and when it is down.  A completion  *)
(* with a bad id, or a device that is busy, comes with the first call and  *)
(* is the end of it.  A third client only finds the queue full, or closed  *)
(* before it, when the two others have submitted.                          *)
(***************************************************************************)
CONSTANT Third

Others == Clients \ {Third}
Ordinary ==
    /\ \A c \in Cmds : answer[c] # "RESOURCE_BUSY"
    /\ \A i \in Ids : cq[i].id \in Ids
MaySubmit == Ordinary /\ (inits > 1 => lastCmd < 2)
Crowded ==
    /\ td = "up" /\ announced = Depth
    /\ \A c \in Others : pc[c] \in {"submitted", "closeAq"}

\* Once the rings are overrun, the device fetches and answers before anybody looks
\* again; who has looked may still go on to close the queue.
Settled == overrun => announced = 0 /\ executing = {}

Quiet == \A c \in Clients : pc[c] = "idle"

BoundedNext ==
    \/ (lastCmd > 1 => td = "down") /\ \E c \in Others : RefuseNotRunning(c)
    \/ \E c \in Clients : RefuseFull(c) \/ RefuseOccupied(c) \/ Submit(c)
                           \/ MissingInterruptFatal(c)
    \/ Settled /\ \E c \in Clients : Wait(c)
    \/ MaySubmit /\ \E c \in Others : LockToSubmit(c)
    \/ Crowded /\ LockToSubmit(Third)
    \/ Settled /\ \E x \in Handlers : Handle(x)
    \/ Settled /\ Interrupt
    \/ (lastCmd > 2 \/ inits > 1 => Quiet) /\ Close
    \/ TearDown
    \/ lastCmd <= 1 /\ AdminInit
    \/ PollFirst \/ RequestIrq \/ InterruptsOn
    \/ pc[Third] # "submit" /\ DeviceFetch
    \/ DeviceComplete /\ (lastCmd > 1 => Ordinary')
Bounded == Init /\ [][BoundedNext]_vars

\* The other clients are interchangeable.
ClientSymmetry == Permutations(Others)
=============================================================================
