# The Amazon network drivers in TLA+

This directory models the drivers of Amazon's Elastic Network Adapter (ENA) and Elastic Fabric Adapter (EFA),
model-checks the models with TLC and proves theorems about them with TLAPS. The reference is the Linux driver
(`src/kernel/linux/ena`) over its hardware abstraction layer (`src/kernel/linux/common/ena_com`, the "HAL").

There are two kinds of models. The first covers the parts of that driver in which several actors meet without a common
lock: the admin queue, the transmit queue from the stack down to the device's ring, the receive queue and its pages, the
interrupt of a queue pair, and the life of the device with its resets. The second covers the code that is long rather
than concurrent, in all four drivers (ENA for Linux, FreeBSD and DPDK, EFA for Linux): what probe, open, reset,
reconfiguration, verbs and removal take and give back, function by function, with every error label.

Contents: 1 the system, 2 the modules, 3 what each module says and leaves out, 4 the runs, 5 fairness, 6 the proofs, 7
disagreements with the code's own words and known defects, 8 what is not modelled, 9 the plan, 10 how to run it.

## 1. The system

| part | code | state it keeps | operations | who shares it | models |
|---|---|---|---|---|---|
| HAL admin queue | `ena_com.c` | `ena_com_admin_queue`: two rings with phase bits, completion contexts by command id, `outstanding_cmds`, `running_state` | execute a command and wait by polling or by interrupt; handle completions; abort and free; bring up | any thread that configures the device, the management interrupt handler, the teardown around a reset, the device | `AdminQueue`, `AdminCommands` |
| HAL transmit ring | `ena_eth_com.c/.h` | `ena_com_io_sq`: two u16 counters, phase, LLQ line being filled, burst left, cached meta | turn a packet into descriptors, doorbell, acknowledge | one sender at a time, the completion handler, the device | `TxSq` |
| transmit queue | `ena_netdev.c` | `ena_ring`: ring of free request ids, slots of packets in flight, the stack's stopped bit, count of timed out packets | send, clean, wake, look for missing completions | the sender, NAPI, the timer, the device | `TxQueue` |
| receive queue, page cache | `ena_netdev.c`, `ena_eth_com.c`, `ena_lpc.c` | rx ring with out of order ids, `rx_buffer_info`, reference counts of pages, the local page cache | refill, take a packet, share or give away its pages, check for an empty ring | NAPI, the network stack that frees what it was given, the timer, the device | `RxQueue` |
| queue pair's interrupt | `ena_netdev.c` | the device's mask, `interrupts_masked`, NAPI's state bits, the lost interrupt check's memory | interrupt handler, poll, unmask, busy poll, check for lost interrupts | CPUs, busy pollers, the timer, the device | `IoIntr` |
| AF_XDP queue pair | `ena_xdp.c` | slots that hold the socket's frames, the socket's rings, the `need_wakeup` flags | poll: clean, give back, send, receive, refill, set the flags; be woken | NAPI, the application, other senders, the device | `AfXdpQueue` |
| device life cycle | `ena_netdev.c`, `ena_devlink.c`, `ena_sysfs.c`, `ena_xdp.c` | `adapter->flags`, `reset_reason`, `dev_up_before_reset`, what is running | open, close, reconfigure, suspend, resume, devlink reload, reset, remove | who holds rtnl, the timer, the reset task, interrupt handlers, NAPI | `Lifecycle` |
| bring-up and tear-down | the same, `ena_com.c`, `ena_ethtool.c`, `ena_phc.c`, `ena_debugfs.c` | everything allocated, mapped, registered, created on the device | probe, open, close, reset, reconfiguration, RSS and steering rules, suspend, reload, shutdown, removal | one at a time, under rtnl; any step may fail | `HalBringUp`, `LinuxBringUp` |
| EFA driver | `src/kernel/linux/efa` | admin queue, event queues, contexts, domains, queue pairs, memory regions | probe, removal, shutdown, verbs | user contexts, the RDMA core | `EfaBringUp` |
| FreeBSD driver | `src/kernel/fbsd/ena` | the same kind of things under `ENA_LOCK` | attach, detach, up, down, reset, ioctls, sysctls, netmap | one at a time | `FbsdHal`, `FbsdBringUp` |
| DPDK driver | `src/userspace/dpdk/ena` | the same kind of things | init, configure, queue set-up, start, stop, reset, close | one at a time | `DpdkHal`, `DpdkBringUp` |
| AENQ, MMIO read, PHC | `ena_com.c`, `ena_phc.c` | rings and mailboxes with phases or sequence numbers | read an event, a register, the clock | interrupt handler, readers, the device | memory only, in `HalBringUp` |

How the parts meet. The stack calls `ena_start_xmit()` (TxQueue), which calls `ena_com_prepare_tx()` (TxSq) and the
doorbell. The device completes, raises an MSI-X, and `ena_io_poll()` (IoIntr) runs `ena_clean_tx_irq()` (TxQueue), which
acknowledges (TxSq), and `ena_clean_rx_irq()` (RxQueue), which refills. The timer (Lifecycle) watches all of them: its
checks are in TxQueue, RxQueue and IoIntr. Any of them asks for a reset by a reason and a flag (Lifecycle); the timer
hands it to the reset task, which tears down and rebuilds everything (LinuxBringUp), the admin queue among it
(AdminQueue's teardown and bring-up).

What is hard here: steps of several CPUs without a common lock (contexts released outside `q_lock`, ids returned by NAPI
while the sender takes them, the interrupt unmasked after NAPI was given back); memory that is freed while somebody may
still be at work, or that the device still writes; pages shared with the network stack; counters that wrap, and space
that is only estimated; answers and interrupts that are late or never come; a reset that may be asked for between any
two steps, and a bring-up that may fail after any of its steps. `PROJECT.json` lists each of these hazards at its line.

## 2. The modules

```
AdminCommands          what a caller of the admin queue is promised (abstract)
  ^ implemented by
AdminQueue             contexts, rings, waiting, completion handler, teardown
  ^-- MCAdminQueue     instances          ^-- AdminQueueProofs   theorems: ownership
                                                ^-- AdminRingProofs    theorems: rings, answers, refinement
TxSq                   descriptors of one transmit ring
  ^-- TxSqProofs       ^-- MCTxSqBringUp  TxSq, and BringUp of the four drivers, in one run
TxQueue                send, clean, stop and wake, missing completions; counts TxSq's entries
  ^-- MCTxQueue        ^-- TxQueueProofs
RxQueue                refill, packets, pages and their cache, the empty ring
  ^-- MCRxQueue        ^-- RxQueueProofs
IoIntr                 interrupt, NAPI, unmasking, lost interrupts
  ^-- IoIntrProofs     ^-- MCIntrRx  liveness of IoIntr and RxQueue in one run
AfXdpQueue             a queue pair of an AF_XDP socket: sending, receiving, being woken
  ^-- MCAfXdpQueue     ^-- AfXdpQueueProofs
Lifecycle              up, down, reset, restore, suspend, reload, remove
  ^-- MCLifecycle      ^-- LifecycleProofs

Steps                  the vocabulary of bring-up code
  ^-- HalBringUp       Linux HAL           ^-- LinuxBringUp   ENA for Linux
  ^-- EfaBringUp       EFA for Linux
  ^-- FbsdHal          what differs        ^-- FbsdBringUp    ENA for FreeBSD
  ^-- DpdkHal          what differs        ^-- DpdkBringUp    ENA for DPDK
BringUp                runs such code: a call stack, failures, ownership
  ^-- MCTxSqBringUp    instances
```

Names are the code's: variables are fields, actions carry the name of the function, or of the step of it, that they
stand for. `PROJECT.json` maps every definition to its lines. Every access to shared memory that another actor can come
between is an action of its own. What runs under one lock is one action where everybody who writes what it reads takes
that lock too, or where what the others write without it cannot change the outcome; section 3 says so where it is the
second. What touches only the actor's own data is one action. The definitions named "Mutant" are faulty variants of the definition below them; no specification uses them.

## 3. The models

### AdminQueue

Clients call `ena_com_execute_admin_command()`; `pc[c]` says where a call is. `ena_com_submit_admin_cmd()` holds `q_lock`
from its test of `running_state` to the doorbell, but the writers it meets do not: `close_aq` (`ena_com.c:831`) and the
handler that finds a bad id (451) close the queue without the lock, and `comp_ctxt_release()` (182-184) frees contexts
without it. So the test and the rest are two steps, `LockToSubmit` and `Submit` (or `RefuseFull` or `RefuseOccupied`, which
close the queue). The rest is one step: between its reading of the count (231) and its capture of the context (202-209)
others can only release contexts and count down, which makes a submission that got that far more likely to succeed, so
the two may be taken at the time of the second; a close that comes after the capture may as well come after the doorbell;
and a handler that touches a context while it is set up is there only for a command that shares the id, in which case its
steps may be taken before or after the whole of the set-up, with the same outcomes. A client then waits as `ena_com_wait_and_process_admin_cq_polling()` or
`..._interrupts()` does, reading the status of its context without the lock, and releases the context and decrements
`outstanding_cmds` in two unlocked steps; in interrupt mode, a client that gives up first closes the queue in a step of its
own (`CloseAq`). `ena_com_handle_admin_completion()` runs on behalf of a client that holds
`q_lock` or of the interrupt handler without it, with `polling_for_completions` deciding who scans; one completion is
four steps (find the context, copy, publish the status, wake), because the waiter and the abort come between them. The
teardown is that of `ena_destroy_device(graceful = false)`: close, reset the device, free the interrupt, abort each
context without a lock, wait for the callers to leave, free; the bring-up goes through polling mode to interrupts. The
device fetches what the doorbell announced, answers in any order, never, or with a bad id, and its interrupt may be
lost. Time is abstract: a wait may time out at any moment.

What the separate steps show: the driver gives its ids in turn and relies on every timeout closing the queue before the id
is free again. A submitter that passed the test before takes the id all the same, while the device may still hold the
command that timed out (section 7, and run `admin_exposed`). It is the one command that follows a close, since the next
test fails, until the queue is brought up again. The history variable `exposed` collects the commands submitted when the queue was closed.
The late submitter may also meet an `outstanding_cmds` that has been counted down for commands that are still
in the rings, so that there is no room for its own: `overrun`, after which the slots of the rings and the phases tell
nothing until the next bring-up, and every call at work then counts as exposed. No action reads either variable. The
properties are claimed of all other calls, and in full of the memory (`NoUseAfterFree`, `ContextsOwned`, `OneScanner`) and
of liveness.

What it leaves out. `sq.head` and statistics. `auto_polling`, which is a constant here, is never set by the Linux
driver; each value has a run. The graceful close leaves `running_state` true and relies on rtnl to keep callers away; it
and the abort on the error path of a failed `ena_device_init()` are not modelled. Device resets succeed. Memory is
sequentially consistent where the code has barriers; `comp_ctxt_release()`'s two plain stores could be seen in the other
order on a weakly ordered machine. The handler reads `user_cqe` once here; the code names it twice (455, 456), and a compiler
that loads it twice could find it cleared at the second. Two more things the model shows and the properties bound rather than exclude: a handler
that has read `user_cqe` may copy into the buffer of a call that timed out or was aborted and has returned
(`StrayOnlyAfterGivingUp` says it is no other call, but for exposed ones), and a `complete()` that comes late wakes the next
command of the same context, which then counts its time as over.

`AdminCommands` is the promise to callers: commands are numbered, the device answers one at most once, and a call comes
back with its own answer or an error of the driver. It is weaker where the code is: when the queue closes, one caller may be on
his way in (`mode = "closing"`), his command is `exposed` (`IssueLate`), and an exposed call may return any answer
(`ReturnExposed`, `Overwrite`). After that the mode is `closed` and nothing is issued until `Open`; in mode `overrun` the device may
also answer a second time. `ExecutesAdminCommands` is the refinement.

### TxSq

`ena_com_prepare_tx()` step by step, in host memory and in LLQ mode: the space check, the meta descriptor and the cache
that avoids it, the data descriptors, the line of `descs_per_entry` descriptors filled in a bounce buffer and written to
the device when full, the burst limit, and the end of the packet. `llq_info` is chosen in `Init` from `Configs`. The
device reads entries as long as their phase is the expected one and what the doorbell announced. A descriptor is its
kind, its meta and whether it is the last; addresses and offload bits are left out.

The transmit lock makes senders one; the acknowledgement (`ena_com_comp_ack()`) comes from NAPI beside it and moves
`next_to_comp` only. It is taken per packet here, finer than the code's batch. A packet without buffers has a header, so
`num_bufs = 0` and `header_len = 0` together do not occur. After `-ENOSPC` in the middle of a packet the run ends
("failed"): the driver resets the device and makes a new queue. The number of descriptors the code returns is an int
difference of two u16s that wraps, but it is cut to u16 by its users, so the model counts modulo `CounterSize`.

### TxQueue

`ena_start_xmit()` holds the transmit lock while `xpc` is not "idle": it places a packet (`Send`, which merges taking
the id with placing descriptors, as nobody else looks between), stops the queue when `StopSpace` is lacking, looks
again, and rings the doorbell unless another packet is to come. `ena_clean_tx_irq()` cleans at most a budget of packets,
publishes `next_to_clean` and acknowledges at the end, then looks for a stopped queue and takes the transmit lock to
wake it. `check_missing_comp_in_tx_queue()` reads a slot's time, judges, and adds to the count in separate steps; it may
also consume completions when it looks for the reason of a reset. `Recreate` stands for the reset and the
`ena_down()`/`ena_up()` that follow a request: everything of the queue is made anew.

What it leaves out. Descriptors are counted, with host memory's formula; TxSq has LLQ's. The timer visits slots in any
order and passes an empty slot at once; while it scans, time stands still (a bound). `ena_tx_timeout()`, XDP and AF_XDP,
BQL, netpoll, timestamps, and the `DEV_UP` test before waking are not modelled. `Packets` never have more than `MaxBufs
= min(sgl_size, MAX_SKB_FRAGS + 1)` buffers, which is what `ena_check_and_linearize_skb()` sees to, and why
`ENA_TX_WAKEUP_THRESH = MAX_SKB_FRAGS + 2` is enough to wake for. `RingAssumption` asks for a ring with room for such a
packet (`ENA_MIN_RING_SIZE` is 256, the packet has 18 buffers at most).

An observation from the mutants: without the sender's second look (`Recheck`) `StoppedIsWoken` still holds in the model,
because the packet that filled the queue is announced only after the queue was stopped, so a completion is still to
come. What it really rests on is that the doorbell is rung when the queue stops, and the order of NAPI's acknowledgement
and look.

### IoIntr

One device interrupt that masks and clears itself ("auto-mask and auto-clear",
`src/kernel/linux/ena/README.rst:467-470`), the handler that sets `interrupts_masked` and schedules NAPI, the kernel's
NAPI state bits (`SCHED`, `MISSED`, `IN_BUSY_POLL`; external, modelled from how the driver uses them), and
`ena_io_poll()` on each CPU: clean tx, clean rx (which may end early without memory), give NAPI back, read the flag,
clear it, unmask. Between giving NAPI back and the rest another CPU may poll, or a busy poller may take NAPI.
`check_for_lost_interrupts()` runs from the timer and unmasks with `UnmaskLost`, after which the device reports again.

Assumed: an interrupt arrives or is lost, and its handler ends, within the second between two checks (`Settled`); the
interrupt a check asks for is not lost as well, since the code tries once by design; the queue stays up. The read of
`last_napi_jiffies` is merged with the look into the completion queue.

### RxQueue

The buffers of one receive queue. An id is free, posted, or in a completion; a buffer has a page, one half of it where
it starts, and whether the page is the cache's. `RefillOne` is one turn of the loop of `ena_refill_rx_bufs()` with all
of `ena_alloc_rx_buffer()`, `FinishRefill` its doorbell. `TakePacket` is one turn of the loop of `ena_clean_rx_irq()`
with `ena_com_rx_pkt()`: it collects the completions up to the last of the packet, returns their ids to the ring in the
order in which they came, and hands the buffers to the stack: copied, shared (the stack gets the first half of the page,
the second half is posted again) or given away as a whole; with an XDP program, passed, sent, dropped or trimmed.
`BadCompletion` is the three refusals of the code, after which a reset is asked for. `LpcGetPage` is the page cache,
which hands out the page at its head by its reference count. The device fills buffers in any order and may tell a packet
in parts, and errs `MaxFaults` times; the network stack frees what it holds whenever it likes; an allocation may fail
for want of a page, or `MaxFailures` times besides.

What it leaves out: the build with `page_pool`, the AF_XDP ring, checksums, hashes and timestamps, a device that
completes one id twice. A page has two halves although the code's sizes are finer; sizes are what the code tells apart
(at most `rx_copybreak`, leaves room, does not). A NUMA node that changes is a choice at each place the code asks. A
reset is one step here, because Lifecycle has its steps.

### AfXdpQueue

A queue pair that an AF_XDP socket is bound to. A frame of the socket's memory is with the application (`app`), in one
of the socket's rings (`tx_desc`, `reserved`, `fill`) or in a slot of the driver (`tx_info`, `rx_info`).
`ena_af_xdp_io_poll()` is a chain of actions that `napi` counts off: `CleanTx` reads the completions that are there, marks
slots as acked and cleans those from `next_to_clean` on that are acked; `Ack` gives the entries back and as many of the
*oldest* reserved frames as were cleaned; `XmitZc` sends from the socket's ring; `SetTxFlag`; `TakePacket`, `NoMemory`,
`BadPacket` and `Refill` are `ena_xdp_clean_rx_irq_zc()`; `SetRxFlag`; `EndPoll` decides whether to poll again.
Between any two of them the application hands frames over or fills, and makes the call (`Wakeup`) the flags ask for; the
device completes in any order; the stack and XDP_TX send packets of their own on the same ring (`OtherSends`), with the
doorbell rung or left to the next one. `Reset` is `ena_down()` and `ena_up()`: what was being sent is given back by one
count, what was to be received returns to the fill ring.

What it leaves out: how the interrupt is unmasked (IoIntr), contents, statistics; a device that completes a slot a second
time before the slot was cleaned, which `validate_tx_req_id()` lets pass because the slot still holds its packet. Seen
and not made a property: the receive loop, `do ... while (work_done <= budget)`, takes one packet more than the budget;
without `need_wakeup` a receive ring that ran empty is filled by nobody (the application makes no call, the device has
nothing to interrupt for), which is the application's choice of mode.

### Lifecycle

Whoever holds rtnl runs one operation, `op`; `todo` is the stack of functions and steps left of it, so that `ena_close`,
`ena_destroy_device`, `ena_restore_device`, `ena_up` and `ena_down` are written once and called by every operation, each
step an action between which the others move: the timer callback, the admin interrupt handler, NAPI, the removal before
it takes rtnl. Asking for a reset is two steps (the reason by `atomic_cmpxchg`, then the flag); the missing completion
check sets them the other way round. The steps of `ena_restore_device()` may fail, with the two error labels of the
code. `open` is what the network stack thinks.

What it leaves out. Device resets succeed. The carrier, `LINK_UP`, `ONGOING_RESET`, statistics and the first probe. AENQ
groups the driver does not subscribe to. `graceful` is derived from the operation (suspend and remove). The firmware
that does not answer `ena_com_validate_version()` is the timer that arms itself again with the flag set (`TimerRearms`).

Known to be violated, seen with TLC while the model was written, and kept in no run: `UpIsOpen`, a part of `UpWithOpen`,
without its guards. An interface closed while `devlink reload` or a failed restore has the device stopped comes up again
with it, because `dev_up_before_reset` is only written by `ena_destroy_device()` of a running device. And `__ena_shutoff()`
releases rtnl after it has torn the device down and before `unregister_netdev()` takes it again (`ena_netdev.c:5850-5870`):
a change of the LLQ size in between restores the device with the interface up and closed to the stack, and an `open`
after it runs `ena_up()` on top of that (with five operations; it was the attempt to prove `UpWithOpen` that found it).
Also violated:
`NothingRunsWhenFreed` (removal stops the timer and the reset task before it takes rtnl, and an operation that still
runs starts the timer again); the admin rings freed before the device is reset on the error path of
`ena_restore_device()`; and the lock order of removal (rtnl, then devlink) against devlink reload (devlink, then rtnl),
a deadlock that is in the model. They are listed as hazards.

### BringUp, and the code of the four drivers

The functions of LinuxBringUp and its sisters are data. `Fn(do, undo)` is a C function: the steps of its body, and the
chain of error labels at its end, each step naming the label it fails to. A step takes a resource (`Get`), gives it back
(`Put`), works on it (`Use`, `Touch`), sends an admin command (`Cmd`, which fails by itself when the queue is dead),
calls a function and fails with it (`Call`), ignores its result (`Best`) or lets -EOPNOTSUPP pass (`CallIfAble`);
conditions are flags and pointers the code tests (`If(Held(...), ...)`), what the device offers, or `Maybe`. `Each` and
`Below` are loops over queues, upwards, and downwards from the one that failed. `Steps` explains the rest.

`BringUp` runs this code on a call stack (`stack`), one step an action. Any step that can fail may, `MaxFailures` times
in a life; then the labels of its function run, and its caller goes to its own label or goes on. An admin command may
fail for want of an answer, which also shuts the queue: all commands that follow fail, those of the labels included. The state is `held`:
pairs of a resource or a flag, and the queue it belongs to. The operating system calls an operation of `entries`
whenever the driver is in one of its phases (absent, off, down, up, asleep, reloading, broken); which, afterwards,
follows from the driver's flags. A reset makes the device forget what it was told of (`Wipe`).

Three properties are about all four drivers at once. `OwnershipKept`: nothing held is acquired over, nothing is
released, or worked on, that is not held. `NothingOutlivesItsBase`: at every step, what rests on something is gone
before it (`base`: an interrupt and its vectors, a device queue and its memory, an armed AENQ and its ring).
`PhaseOwnsItsShare`: whenever no operation runs, the driver owns what its phase should own and no more, for all queues
alike, and of an object of several parts all or none.

The code does not keep them everywhere. Where it does not, `excused` of a driver names the operation (or the phase) and
the resource, and nothing else is excused; `givenUp` names what stays on a device that takes no more commands: of the ENA drivers, the I/O queues whose memory
they free all the same, until the reset that the timer asks for. Section 7
says what stands behind each entry. The mutants show that what is left of the properties finds a missing label, a wrong
order and a release too many.

FbsdHal and DpdkHal name every function of their copies of the HAL; where the copy has the control of the Linux one they
refer to HalBringUp, where it has not they have a definition of their own.

What it leaves out. Operations do not interleave here, as rtnl, `ENA_LOCK` and the application see to it (interleavings
are Lifecycle's); a resource is there or not, without contents; EFA has one object of each kind; the run takes Linux as
built with page_pool and PHC and without `CONFIG_RFS_ACCEL`, on a device with one set of features; the steps of the other builds
are in the module. A steering
rule and XDP are not configured together (bound). DPDK applications set up all queues before they start.

## 4. The runs

`expect: pass` runs end without an error; `violation` runs show that the code does not do what its own text says
(section 7).

| run | instance | properties | states (distinct) |
|---|---|---|---|
| `admin_safety` | 3 clients, ring of 2, 3 commands, 2 lives, bad ids, two statuses, both ways of waiting | the invariants of the queue, `ExecutesAdminCommands` | 1,083,384 |
| `admin_exposed` | the same with one life, one status and no bad ids | `CompletionIsCopied` (violated) | |
| `admin_live` | 2 clients in a call and a further call, both ways of waiting, fairness | `EveryCallReturns`, `TearDownEnds` | 135,641 |
| `txsq_bring_up` | TxSq: ring of 8, counters of 16, five configurations, three packets; BringUp: the four drivers, 2 queue pairs, one failure in a life, any sequence of operations | `RingNotOverrun`, `BurstSufficesForTwo`, `HeaderIsKept`, `DeviceReadsWhatWasSent`; `OwnershipKept`, `NothingOutlivesItsBase`, `PhaseOwnsItsShare` | 3,562,318 |
| `txq_flow` | 4 ids; packets of 1 or 2 descriptors, those of 1 also with `xmit_more`; one bad completion, fairness | `NothingIsLost`, `OpenMeansRoom`, `NothingHeldBack`, `StoppedIsWoken` | 1,119,264 |
| `txq_timer` | 4 ids, one kind of packet, the timer with threshold 0 | `OneCompletionReader`, `CountNotNegative` | 1,341,952 |
| `rx_safety` | ring of 3, packets of up to 2 buffers, 3 pages, cache of 2, three modes, one failure and one fault | `BuffersAccounted`, `OneOwner`, `RefsAccounted` | 1,347,913 |
| `intr_rx` | IoIntr: 2 CPUs, budget 1, 2 completions, 1 lost interrupt; RxQueue: ring of 2, 2 pages, 2 failures; fairness | `NeverLeftMasked`, `CompletionsAreHandled`, `EmptyRingIsRefilled` | 223,313 |
| `life_flow` | all operations, 2 of them, 2 requests, 1 failure, fairness | `DeviceIsWatched`, `StoppedIsQuiet`, `UpWithOpen`, `RequestIsWhole`, `ResetHappens` | 344,081 |
| `life_unreset` | the same without removal | `ResetBeforeFree` (violated) | |
| `af_xdp` | 2 frames, transmit ring of 5, receive ring of 3, budget 2, one packet of others or one fault | `GivenBackInOrder`, `FrameHasOneHolder` | 2,091,539 |
| `af_xdp_refill` | the same without disturbance, fairness | `ProvidedIsTaken` (violated) | |

`admin_safety`, `txq_timer`, `rx_safety`, `intr_rx` (IoIntr's) and `life_flow` also check their module's `TypeOK`; that of TxSq and of
AfXdpQueue is a theorem, BringUp's was checked while it was written; in their runs the other properties come first.

The bounds, and why they are enough.

- A ring of two entries wraps, fills, flips its phase and reuses ids within three commands. Two clients and the handler
  are the least that have a scanner, a waiter that is being completed and a teardown; the third client only comes
  when two commands are announced (`Crowded`): it finds the queue full, or closed in front of it and the rings full, which
  two cannot. Its own command, once the rings are overrun, is fetched and answered before anybody looks (`Settled`). A
  completion with a bad id, or a device that is busy, comes with the first call; the second life has one call and ends
  when nobody is in a call, as the first has had every other end. Every order of
  `LockToSubmit`, `CloseAq`, `Release` and `Submit` is in this instance: three commands on two ids are what it takes to reuse
  the id of a command that timed out.
- `admin_live` starts from the states in which both clients have submitted, in the only mode from which every way of
  waiting is reached (interrupts, falling back to polling); history variables start saturated. One of the two makes a further call while the
  other closes the queue, before any teardown; its command is not fetched.
- TxSq's counters wrap at twice the ring's size, so that counter, index and phase wrap at different times; the packets
  are one that is all header, one that takes several lines, and one without a meta; the configurations are host memory,
  lines of one, two and three descriptors, with and without a burst limit, and with meta caching disabled.
- TxQueue's ring of 4 holds one packet of two descriptors and the space that stops the queue, so the queue is stopped
  and woken all the time; `MaxMisreports = 1` brings one bad completion and the reset after it.
- RxQueue's ring of 3 posts two buffers: a packet of both, two packets of one, and completions out of order. Three pages
  are one more than buffers, and one fewer than buffers and what the stack may hold (`MaxHeld`), so that memory runs
  out. With the cache, which multiplies the states, the device commits no fault and the stack holds one part at a time.
- IoIntr's budget of one makes polls end for the budget and for lack of work; two CPUs are all that can meet (one that
  gave NAPI back and one that took it). Its liveness and RxQueue's share a run of TLC, not their states: a behaviour is
  of one of them, chosen at the start.
- AfXdpQueue's transmit ring of 5 has room for one packet less than the space that stops a sender leaves, and turns over; two
  frames are the least that can be given back in the wrong order, and with one packet of others between them the least
  for which frames and slots differ in number. The receive ring of 3 holds both frames. A packet of others and a fault do
  not come in one behaviour (`OneDisturbance`), which keeps the run within its time.
- Lifecycle's two operations count what users ask; reload, removal, resume and the reset task come on top. Three
  operations passed as well during development (1.1 million states), but take too long to keep.
- TxSq and BringUp share a run of TLC as well, and no state: 1,449,315 of its states are of a ring, 2,113,003 of a driver.
- BringUp's two queue pairs are what a loop that undoes some of its turns needs; the number of operations is not
  bounded. One failure in a life, at any step, is what error labels are written for; a failure in the undoing (a reset
  that fails, a destroy command that is refused because the admin queue is dead) follows from the state and does not
  count.

Symmetry: clients, request ids and pages are interchangeable model values; symmetry is used only in runs without
liveness. Deadlock is not checked in Lifecycle, whose system stops after removal (and has the deadlock named above), in
`rx_safety`, where the kernel stops on a bad pointer (`oops`), in `af_xdp`, where a receive ring without frames and an application
that is asleep stop (`ProvidedIsTaken` is the part of it that is wrong). In `txsq_bring_up` a FreeBSD driver that never
releases its lock stops (section 7): a driver may stutter there (`DriverStops`), and that a ring never stops is checked.

## 5. Fairness

- AdminQueue: a thread in a call, the interrupt handler and a started teardown go on running. Strong fairness for a
  client, because a spinlock is free again and again and is handed out in order; and for leaving the polling loop,
  because its deadline passes. The device owes nothing, interrupts may be lost, nobody has to start a command or a
  teardown.
- TxQueue: the kernel goes on with a transmit it began, the stack sends the packet it announced by `xmit_more`, NAPI
  runs when there are completions (IoIntr's result), and the device completes what it was told of. No fairness for new
  packets, the clock or the timer.
- IoIntr: the device interrupts when it may, the kernel runs the handler and the polls it scheduled, the timer comes
  again.
- RxQueue: NAPI goes on, the timer comes again, a reset that was asked for happens, and applications read their packets,
  so that the stack gives its pages back. None for the device.
- AfXdpQueue: NAPI, the device's sending and its interrupt, a reset that was asked for; the application looks at the flags and
  makes the call it is about to make. Nobody has to send, to provide frames or to receive.
- Lifecycle: the timer, the workqueue and the holder of rtnl go on. Strong fairness for the reset task (rtnl is free
  again and again) and for handing over to it (the firmware is not silent for ever).

## 6. The proofs

TLAPS checks, for any number of clients, CPUs, ids, frames and kinds of packets, any ring size, and any bound on operations,
requests and failures:

| module | theorem | statement |
|---|---|---|
| `AdminQueueProofs` | `TypeCorrect` | `Spec => []TypeOK` |
| | `FreedIsUnused` | `Spec => []NoUseAfterFree` |
| | `ContextsHaveOneOwner` | `Spec => []ContextsOwned` |
| | `ScanIsExclusive` | `Spec => []OneScanner` |
| `AdminRingProofs` | `RingsAgree` | `Spec => []RingsInStep` |
| | `AnswersAreOwn` | `Spec => []ResponseIsOwn` |
| | `StrayIsGivenUp` | `Spec => []StrayOnlyAfterGivingUp` |
| | `CommandsAreExecuted` | `Spec => ExecutesAdminCommands`, the refinement of `AdminCommands` |
| `TxSqProofs` | `TypeCorrect` | `Spec => []TypeOK` |
| | `NeverOverrun` | `Spec => []RingNotOverrun` |
| | `BurstLasts` | `Spec => []BurstSufficesForTwo` |
| | `HeaderStays` | `Spec => []HeaderIsKept` |
| `TxQueueProofs` | `TypeCorrect` | `Spec => []TypeOK` |
| | `NothingLost` | `Spec => []NothingIsLost` |
| | `RoomWhenOpen` | `Spec => []OpenMeansRoom` |
| | `DoorbellRung` | `Spec => []NothingHeldBack` |
| | `OneReader` | `Spec => []OneCompletionReader` |
| | `NeverNegative` | `Spec => []CountNotNegative` |
| `RxQueueProofs` | `TypeCorrect` | `Spec => []TypeOK` |
| | `NoBufferLost` | `Spec => []BuffersAccounted` |
| | `DisjointOwners` | `Spec => []OneOwner` |
| | `ReferencesMatch` | `Spec => []RefsAccounted` |
| `AfXdpQueueProofs` | `TypeCorrect` | `Spec => []TypeOK` |
| | `OrderKept` | `Spec => []GivenBackInOrder` |
| | `OneHolder` | `Spec => []FrameHasOneHolder` |
| `IoIntrProofs` | `TypeCorrect` | `Spec => []TypeOK` |
| | `InterruptComesBack` | `Spec => []NeverLeftMasked` |
| `LifecycleProofs` | `TypeCorrect` | `Spec => []TypeOK` |
| | `AlwaysWatched` | `Spec => []DeviceIsWatched` |
| | `StopsQuietly` | `Spec => []StoppedIsQuiet` |
| | `UpWhenOpen` | `Spec => []UpWithOpen` |
| | `NoHalfRequest` | `Spec => []RequestIsWhole` |

AdminQueue, its memory. None of the three safety properties is inductive: that freed contexts are unused needs that
`outstanding_cmds` counts everybody who holds one or has yet to count itself out (`CountInv`), that scanners hold
`q_lock` or are the interrupt handler (`LockInv`), that the flag says who scans (`ScanInv`), that the handler is off
once its interrupt is freed (`IrqInv`), that the queue stays closed from `Close` to the next bring-up (`LifeInv`), and
that occupied contexts are exactly those held (`OwnerInv`). Their conjunction with `TypeOK`, `MemoryInv`, is inductive;
`MemoryStep` takes one lemma per group of actions, and `CallerMoving` settles at once all steps of a caller that neither
takes nor gives up its context. The cardinalities use the library's finite set theorems and `ClientsAssumption` (clients
are finite); the rest uses `DepthAssumption` and `NamesAssumption`.

AdminQueue, its answers (`AdminRingProofs`). That a caller gets the answer to its own command is the end of a long way: the
command is announced with an id, fetched by the device, executed, put into the completion ring with that id, found by its phase
bit, matched with a context by the id, copied to where the context points, and only then is the status published that the caller
reads without a lock. The ids wrap and the contexts are used again, so nothing of this holds one step at a time. The invariant
adds to `MemoryInv`, for as long as the rings were not overrun:

- `RingInv`. `CqShape` and `SqShape`: the unread completions and the announced commands are a run of slots from the reader's
  position to the writer's, with the phase bits to match; for the driver the position is that of the handler which scans
  (`Slot`), as `cq.head` is published only at the end. The lemmas `WindowGrows`, `WindowShrinks` and `PhaseMoves` say how runs
  change, with the modulus. `Room`: what is announced, executing and unread is at most `Depth`, so no slot is written twice.
  `OnePlace` and `Answers`: a command is in one place, issued, and answered when its completion is there.
- `CallerInv`. `Backed`: while the queue is open there are no more commands in flight than callers waiting, which is why the
  count of outstanding commands keeps the rings from overflowing. `Expected`: a command in flight has a caller waiting, was given
  up or is exposed; while the queue is open none was given up, which is what makes it safe to use an id again; and while anybody may
  still submit (`Admitting`: the queue is open, or a client is at "submit") none is exposed, which is why there is one exposed
  command at most. `Matching`: the id of a command in flight is the context of its caller and of nobody else, but for exposed calls,
  and two commands with one id are an exposed one and one that was given up (`OneLate`). `Handling`: a handler
  between reading `user_cqe` and publishing the status goes to that caller's buffer, to an exposed one's, or to that of a call that
  has gone. `Verdicts`: what a caller may find in its context.

Besides `MemoryInv`, the part that always holds (`Always`) has what the callers' own steps keep whatever the rings hold (`CallInv`:
`Calling`, `Aborts`, and `Admission`, that before a submission nothing is overrun and nobody with a context is exposed) and the
numbers of commands (`Numbered`). Of overrun rings nothing can be said, and nothing is needed: every call is exposed
then, and a copy under way goes to an exposed call or to one that gave up (`Overran`). So `IInv` is `Always`, `StrayOnlyAfterGivingUp`,
and either `Overran` or `RingInv` and `CallerInv`; `OverrunStep` says that only a submission leads from the
second to the first (`SubmitOverruns`) and only a bring-up back (`UpCallers`); `GoodStep` and `OverranKept` are about all other steps.

The driver's and the device's steps fall into kinds (`RingsStay`, `Quiet`, `Passes`, `CallersAside`) with one lemma for each kind
and one for each step that is of none. `StatusAssumption` is used besides: "none", the mark of an unanswered command, is no status
of the device. TLC visits all of `admin_safety`'s instance with `IInv` as an invariant (1,083,384 states).

The refinement then has one lemma per step a caller sees: `Submit` is `Issue` or `IssueLate`, a
refusal `Refuse`, the device's completion `Answer`, the return `ReturnAnswer` or `ReturnError` (here `ResponseIsOwn` is needed) or, of
an exposed call, `ReturnExposed`; a copy into the buffer of an exposed call that has returned is `Overwrite`, `Return` is `Done`,
`AdminInit` is `Open`; everything else is `Unseen`, or closes the queue (`Close`).

TxSq. The counters of the code wrap at `CounterSize`, the slots at `Depth`, and the phase with the slots; the space check and the
doorbell check count a packet before it is placed, placing it counts again. The invariant says it in numbers that do not wrap and
that no variable holds: `T`, of all entries ever written, `D`, of those announced, and `ends`, where each packet sent ends.
`Somewhere` says that there are such numbers, and each step shows the new ones. For them:

- `Counts`: `tail`, `next_to_comp`, `head` and `doorbell` are `T`, `T - unacked`, `T - unread` and `D`, wrapped. At most `Depth - 1`
  is unacknowledged, less than a turn, so the wrapped difference is the true one (`ModDifference`) and equal wrapped counters are
  equal counters (`ModInjective`, which is how `HeaderIsKept` can ask whether `tail = start_tail`).
- `Bounds`, `Ending`: packet `i` lies from `ends[i - 1]` to `ends[i]`; the doorbell is rung between packets, so the device is in a
  packet that is complete, and the entries that end with a last descriptor are those at `ends`. This is why the device
  acknowledges exactly what a packet took.
- `Accounts`: what is unacknowledged and read is the sum of a bag, which has no definition that the provers can use; `Cells` is a
  set with one element for every entry, and `CellsGained` and `CellsLost` say what a packet adds and takes.
- `Line`, `Progress`: the descriptors placed are those of the lines written and of the one being filled, so many more are to come;
  the burst left and the entries written are together at least what was counted (`BurstIsEnough`, `LineInBurst`), where two
  descriptors fit before the header: with one, the counts disagree (section 7).
- `Space`: the room found at the beginning, less what was written since, is still there. `RoomToWrite` shows that the estimate, a
  division that rounds down and a correction, is never less than the entries a packet takes with its meta.

All five assumptions are used: `BurstAssumption`, that a burst has room for any packet, is what the device has to grant. TLC had
visited 1.09 million states of the ring of `txsq_bring_up` without a violation of its conjuncts (for one `T` of those that wrap to
`tail`) before the proof.

TxQueue. The conjuncts of `IInv`, and why each is there:

- `Types` has `used` and `poll.missed` as integers without a lower bound: that they stay in range is a consequence of the rest.
- `IdRing` says of the ring what `IdsAccounted` says of sets: position `k` from `next_to_use` holds a free id, each free id is
  at one position, and the positions end where the cleaner is. A set of free ids would not survive a step that writes one
  array entry; positions do.
- `EntriesAccounted` is the other half of `NothingIsLost`.
- `Room` is `OpenMeansRoom` moved to the places of the sender that rely on it, after its own looks (`check`, `recheck`).
- `Readers`: NAPI reads completions with `SCHED` set, the timer when a reset was asked for and NAPI was off when it looked.
- `Count`: what the timer has seen and not yet added (`timer.new`) and what it added is at least the packets marked as late. It
  is an inequality, because a packet cleaned while it is judged stays counted (section 7).
- `OnTheWay`: a packet is unannounced, with the device or completed, in one of these places. It holds as long as the device
  completed nothing it was not told of (`misreports = 0`), which is why `NothingHeldBack` has that hypothesis.

Each conjunct is kept by its own lemma per action (`RingStep`, `EntriesStep`, ...), from the types, and from those that come
before it. `RingAssumption`, `BudgetAssumption`, `SglAssumption` and that ids are finite are the assumptions used.

RxQueue. The invariant has two halves, which meet in one point.

- The ids (`IdsInv`). `FreeApart`: the free ids of the ring and those a poll has yet to return are distinct, and `used`, which the
  code does not derive from them, counts the others. `FlightApart`: the ids posted and those in completions are distinct. `Parted`:
  the two together are all ids, none in both. That `used` stays below the size of the ring, and a refill always finds a free id,
  follows by counting (`InjectiveCount`, and the library's theorems about finite sets). The code keeps no such sets: it moves
  sequences about, so most of the lemmas are about what `Tail`, `Append`, `RemoveAt`, `\o` and `SubSeq` do to sequences in which
  nothing comes twice, and about splitting the completions at the end of a packet (`SplitCompletions`, `TakenApart`). Between a
  bad completion and the reset it asks for nothing of this is claimed (`QueueInv`), as the driver stops using the ring.
- The memory (`Sound`): of a page as many references as buffers, slots of the cache and parts with the stack that hold it
  (`Counted`); a page with two owners is held in different halves, and by one buffer at most (`Owned`); the head of the cache is
  inside it (`CacheFits`). It is stated of any memory, so that the functions a packet goes through, each of which returns a new
  memory, have a lemma each (`ReleasedSound`, `SharedSound`, `GivenSound`, `UnmappedSound`; `WarmUpSound`, `ReplacedSound`,
  `FilledSound`), and `PacketSound` and `GetPageSound` put them together. That the cache gives out only a page nobody else
  holds needs both conjuncts: a reference count of one, by `Counted`, means there is nobody else.
- `HavePages`: an id that is posted or in a completion has a page. This is what a packet's buffers need to become something else.

Of the constants the proofs use that the ring has at least two entries, that `Pages` is finite, and that the sizes are positive.
TLC visits the whole of the instance of `rx_safety` (1.35 million states).

AfXdpQueue. The invariant has three parts besides the types, and the two theorems need all of them.

- The transmit ring (`RingInv`). `next_to_use` is `Window` slots after `next_to_clean`, less than a turn. `Ordered` says that
  there is a strictly increasing `turn`, from the places of the frames that are not given back to the slots of the window, at
  which just these frames are, and that no other slot holds one. The code keeps no such numbering: it counts. The lemma on which all
  rests is `HeldCount`: as many frames of the socket are in the first `n` slots of the window as there are places whose `turn` is
  below `n`, and these are the first places. So the number of frames `CleanTx` cleaned (`OrderedCleaned`), and the number of all frames
  in the ring, which is what a reset counts (`AllHeld`), name the oldest. `OrderedOther` and `OrderedSent` add a packet that is
  not the socket's, which moves nothing, and a batch, whose slots `PlacedSlots` finds by the modulus. Between `CleanTx` and `Ack`
  the count of frames and the count of entries wait in `poll`, which is why `Window` leaves `poll.done` out: the entries still count
  as used, and `used` alone would be no window.
- The ids of the receive ring (`IdsInv`). The free ids, those posted and those in a packet are distinct and apart (`IdsApart`),
  `rx_used` counts the others, and an id that is out has a frame (`HaveFrames`): without the last a packet would be given `NoFrame`.
- The frames (`FramesInv`). The five places are apart and together all frames, and no sequence or slot array has one twice.
  `RefilledWell` says what `ena_refill_rx_bufs()` may do, for whatever choice of frames: those it takes from the fill ring are in
  slots of ids it posted, and those that were in slots stay.

TLC visits the whole of the instance of `af_xdp`, with `IInv` as an invariant before the proof (2.09 million states). All the
assumptions are used.

IoIntr. `NeverLeftMasked` speaks of rest; the induction says that before that somebody is in charge of unmasking
(`Unmasker`): the interrupt on its way, the flag with a handler, NAPI or a CPU that has just given NAPI back, or a CPU
that has seen the flag. The hard case is `ClearFlag`: it may clear a flag that a newer interrupt has set, but then it
unmasks next.

Lifecycle. All five properties speak of rest (`atRest`: nobody holds rtnl), and an operation is dozens of steps, so the
invariant says of each step what is true when it comes next (`Place`) and what the steps that are left still owe:

- `Shape`: the stack `todo` is a chain the program can produce. Proofs see it by its first step (`top`), the set of what is
  left (`Left`), what may be anywhere below a step (`Below`) and right after it (`Follow`); `Push`, `Pop` and `Join` are the
  lemmas about sequences.
- `TornDown`, `Watching`: a device that runs is watched, or `back_to_default` is left of a teardown, and from `stop_timer` to
  there nobody arms the timer.
- `Whole`: a reason without its flag has somebody about to set it, or a teardown that will forget it.
- `UpAndOpen`: who is open is up, or owed to be by `ena_up` that is left, by `up_if_was_up` with `dev_was_up`, or by the note
  `dev_up_before_reset` of a device that is down; and the converse, outside the circumstances `UpIsOpen` names (`Ordinary`).
- `Asking`, `Holding`, `Suspending`: who asks for a reset is alive; what suspend, reload and removal may have left to do.

One lemma per action (`OpenKeeps`, `FinishKeeps`, ...) shows that the whole of `IInv` is kept, with a step for each conjunct the
action can disturb. TLC checked `IInv` first (three operations, two requests, two failures: 1.6 million states). `UpIsOpen`
had no hypothesis about removal before the proof; the step it failed at is the window described under Lifecycle in section 3.

Only model-checked: everything under fairness, which is beyond the prover (as is `ENABLED`); `DeviceReadsWhatWasSent` of TxSq,
which folds over the unread entries, and what a fold computes takes an induction over data that the provers cannot do.
`ProvidedIsTaken` of AfXdpQueue, which is violated, is one of those under fairness. The properties of BringUp are about the text of
four programs, which TLC walks through; there is nothing to generalise but the number of queues.

## 7. Disagreements with the code's own words, and known defects

Runs show three; `PROJECT.json` quotes the lines.

- `CompletionIsCopied` (`ena_com.h:1094-1096`): "Submit an admin command and then wait until the device returns a completion.
  The completion will be copied into cmd_comp." A caller in interrupt mode whose command timed out closes the queue at
  `ena_com.c:831` without `q_lock` and then releases its context (182-184). A submitter that passed the test at 305 before
  takes the id of that command (238, 246), and the answer that the device still gives to the old command is copied to its buffer
  and marks its command COMPLETED: it returns 0 with another command's completion. The polling caller takes the lock for the same
  assignment (575-578). Taking it at 831 as well would close the window. One command can be
  affected each time the queue is closed (two callers and the reuse of an id are needed, so the ids must have gone
  round between); if that command overruns the rings, the calls at work with it.
- `ResetBeforeFree` (`ena_netdev.c:4525-4528`): the reset flag is read twice, and a request between the reads leaves the
  device without a reset while its memory is freed.
- `ProvidedIsTaken` (`ena_xdp.c:1113`): `ena_xdp_clean_rx_irq_zc()` returns the bool `work_done < budget` (1072), which its
  caller compares with the budget as if it were a number of packets; a poll that used up its budget is therefore not
  repeated, although it has cleared the flag that would wake the application (1047), and the timer that looks for empty
  rings leaves those of a socket out (`ena_netdev.c:5012-5014`).

Three more were seen with TLC and are kept in no run.

- `BurstSuffices` of TxSq (`ena_eth_com.h:155`): with one descriptor before the header a packet that is all header and
  changes the meta takes two entries and is counted as one; the driver then resets the device. With two before the
  header, which is what the driver's devices offer, the burst is enough: `BurstSufficesForTwo`, in `txsq_bring_up`.
- `PendingIsAccurate` of TxQueue (`ena_netdev.c:4850`): a packet cleaned while the timer judges it is counted and never
  taken off the count that is there "to maintain accurate statistics". What holds is that the count is not too small
  (`CountNotNegative`, and `Count` in its proof).
- The comment and the message at `ena_com.c:783-808` claim a lost MSI-X, but the handler may complete the command between
  the waiter's unlocked look at its status and its poll; without auto polling the queue is then closed and an answered
  command returns -ETIME.

The receive code, met in RxQueue: the page cache keeps an ERR_PTR in its first slot when its first allocation fails, and
the next call reads its reference count (`ena_lpc.c:93`); `ena_rx_skb()` unmaps a page before it allocates the socket
buffer, and if that fails the page is posted again unmapped (`ena_netdev.c:1463`); `ena_rx_xdp()` leaves `*nr_frags`
unset for a buffer without a page.

What the excuses of BringUp stand for, by driver:

- ENA for Linux. The PTP clock stays registered when what its callbacks read is freed (failed probe; shutdown or removal
  with a reset pending). `ena_remove()` uses the adapter after `free_netdev()` (5868, then 5875, 5879). `host_info` is
  allocated anew by each reset. The error path of a restore frees the AENQ before it resets the device (4626), which
  `ena_com.h:571` forbids. Suspend, devlink reload and a change of the LLQ size free the memory of queues on a device
  they have yet to reset. After a failed change of the number of queues the RSS tables are NULL with a size of 1, and
  `ethtool -x` and `-X` use them (`ena_ethtool.c:1675-1727`). Also, within what phases may own: a failed probe leaves
  `mmio_read` and `phc_mem`. In the other builds: `rx_cpu_rmap` is leaked, and the receive queues stay on the device
  when `ena_create_page_caches()` fails.
- EFA. When mapping a chunk of a page list fails, the loop that unmaps begins with that chunk, which was not mapped
  (`efa_verbs.c`, `chunk_list_unmap`). `efa_remove()` leaves kernel queue pairs in the table when their destroy commands
  are not answered; what else such a removal loses is `EfaLost`. Outside the model: when the number of pages is a
  multiple of `EFA_PTRS_PER_CHUNK` the length of the last chunk counts none of its pages (2339) and the chunk after the
  last is read (2352-2354); arrays from `kvzalloc()` are freed by `kfree()`.
- ENA for FreeBSD. `ena_sysctl_io_queues_nb()` returns with `ENA_LOCK` held when the update fails (`ena_sysctl.c:875`),
  and every later operation waits for it. The push buffer leaks when mapping fails (`ena.c:741`). A failed attach leaves
  `ifp` and two task queues (4050). A failed restore frees the AENQ before the reset (3752-3755) and, when `ena_up()`
  failed, leaves the rings; `host_info` as on Linux. `ena_netmap_reg()` clears TRIGGER_RESET (`ena_netmap.c:284`). A
  change of the number of queues with the interface down destroys the RSS tables but leaves RSS_ACTIVE set, and the
  sysctls for key and table follow NULL pointers (`ena_sysctl.c:1067`, `1160`).
- ENA for DPDK. `ena_close()` frees the AENQ of a device it does not reset (`ena_ethdev.c:935`), and follows pointers of
  queues that were configured and never set up (990, 1010). After a reset whose init failed it frees `drv_stats` a
  second time (2456). A failed start leaves the event descriptors of the receive interrupts (1323-1325).

## 8. What is not modelled

`PROJECT.json` names each part with the reason. In short: the exchange of the register mailbox, the AENQ's ring, reading
the clock, EFA's pool of command contexts and its data path, and the data paths of FreeBSD and DPDK are not modelled yet; statistics, formatting, what ethtool and debugfs print, interrupt moderation and the kernel
compatibility layer have no state worth a property. The rules of the kernels and of the DPDK framework that the models
rely on (NAPI, rtnl, `free_irq()`, `del_timer_sync()`, spinlocks, the order in which the RDMA core destroys objects) are
modelled from how the drivers use them.

## 9. The plan

Done: `AdminQueue` with its abstract `AdminCommands` (eight theorems), `TxSq` (four theorems), `TxQueue` (six theorems), `IoIntr` (two
theorems), `Lifecycle` (five theorems), `RxQueue` (four theorems), `AfXdpQueue` (three theorems), and
`BringUp` with the four drivers. What stays model-checked only is named at the end of section 6.

Models to come, where a run can be shared or given up for them:

1. EFA's admin queue against the same `AdminCommands`: pool of contexts, semaphore, generations in command ids.
2. The MMIO read mailbox and the clock: sequence numbers against late answers; both small, with a common abstract
   register.
3. The AENQ ring, composed with Lifecycle's requests.
4. Peer memory tickets of EFA (`efa_p2p.c`), which a callback may revoke while they are being made.

Runs are few and long: properties of one module that can share an instance share a run.

## 10. Running it

```
tlc -workers 2 -config AdminQueue_safety.cfg MCAdminQueue.tla
tlapm AdminQueueProofs.tla
```

Each run's module and configuration are in `PROJECT.json`. With two workers a run takes from a few seconds to three
minutes; a proof module takes from less than a minute to six minutes.

