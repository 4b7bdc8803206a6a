---------------------------- MODULE MCTxSqBringUp ----------------------------
(***************************************************************************)
(* Small instances of TxSq and of BringUp for TLC, in one run.  They share *)
(* nothing: a behaviour is one of a submission ring or one of a driver,    *)
(* and which of them is chosen at the start.                               *)
(***************************************************************************)
EXTENDS TxSq

CONSTANTS NumQueues, MaxFailures

VARIABLES
    about,      \* "ring" or "driver"
    \* BringUp's
    name, features, drvPhase, op, stack, held, failures

-----------------------------------------------------------------------------
\* The ring: its configurations are host memory; LLQ with short and long lines,
\* with and without a burst limit; and with meta caching disabled.
Conf(dev, perEntry, beforeHeader, burst, noCache) ==
    [llq |-> dev, descs_per_entry |-> perEntry,
     descs_num_before_header |-> beforeHeader,
     max_entries_in_tx_burst |-> burst, disable_meta_caching |-> noCache]

AllConfigs == {Conf(FALSE, 0, 0, 0, FALSE), Conf(TRUE, 2, 2, 4, FALSE),
               Conf(TRUE, 1, 2, 0, FALSE), Conf(TRUE, 3, 2, 3, TRUE),
               Conf(TRUE, 2, 1, 3, FALSE)}
\* All in the header, with one meta, many buffers with another, or none.
SomePackets == {[bufs |-> 0, meta |-> "tso"], [bufs |-> 4, meta |-> "zero"],
                [bufs |-> 3, meta |-> "none"]}

\* The drivers.
L == INSTANCE LinuxBringUp
E == INSTANCE EfaBringUp
F == INSTANCE FbsdBringUp
D == INSTANCE DpdkBringUp
AllDrivers == [linux |-> L!Linux, efa |-> E!Efa, fbsd |-> F!Fbsd, dpdk |-> D!Dpdk]
AllCode == [linux |-> L!LinuxCode, efa |-> E!EfaCode, fbsd |-> F!FbsdCode, dpdk |-> D!DpdkCode]
B == INSTANCE BringUp WITH phase <- drvPhase, Drivers <- AllDrivers, Code <- AllCode

-----------------------------------------------------------------------------
drvVars == <<name, features, drvPhase, op, stack, held, failures>>

NoDriver ==
    /\ name = "none" /\ features = {} /\ drvPhase = "absent"
    /\ op = <<>> /\ stack = <<>> /\ held = {} /\ failures = 0
\* While a driver runs, the ring is one in host memory that nobody uses.
NoRing == Init /\ ~Llq

EitherInit ==
    \/ about = "ring" /\ Init /\ NoDriver
    \/ about = "driver" /\ NoRing /\ B!Init

RingStep == about = "ring" /\ Next /\ UNCHANGED <<about, drvVars>>
DriverStep == about = "driver" /\ B!Next /\ UNCHANGED <<about, vars>>
\* A FreeBSD driver that never releases its lock stops; a ring never does.
DriverStops == about = "driver" /\ UNCHANGED <<about, vars, drvVars>>

EitherNext == RingStep \/ DriverStep \/ DriverStops
EitherSpec == EitherInit /\ [][EitherNext]_<<about, vars, drvVars>>

-----------------------------------------------------------------------------
\* Of a driver: nothing held is acquired over, nothing is freed twice or used
\* while it is not there (BringUp's OwnershipKept).
OwnershipKept == about = "driver" => B!OwnershipKept

\* Of a driver: nothing outlives what it rests on, an interrupt its vectors or a
\* device queue its memory (BringUp's NothingOutlivesItsBase).
NothingOutlivesItsBase == about = "driver" => B!NothingOutlivesItsBase

\* Of a driver: whatever failed on the way, a phase owns what it should: no leak, and
\* nothing missing (BringUp's PhaseOwnsItsShare).
PhaseOwnsItsShare == about = "driver" => B!PhaseOwnsItsShare
=============================================================================
