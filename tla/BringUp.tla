------------------------------- MODULE BringUp -------------------------------
(***************************************************************************)
(* Runs the bring-up and tear-down code of a driver: a call stack over the *)
(* tables of LinuxBringUp, EfaBringUp, FbsdBringUp and DpdkBringUp.  Any   *)
(* step that can fail may, a bounded number of times, and then the error   *)
(* labels of each function on the stack run.                               *)
(***************************************************************************)
EXTENDS Naturals, Sequences, FiniteSets, SequencesExt

CONSTANTS
    NumQueues,
    Drivers,        \* by name, what a driver is: phases, operations, ...
    Code,           \* by name, its functions
    MaxFailures     \* bound: failures in a life, from probe to removal

VARIABLES
    name,       \* the driver that runs, chosen at the start
    features,   \* what the device and the build offer
    phase,      \* what the system last brought the driver to
    op,         \* the operation that runs, or <<>>
    stack,      \* frames, the innermost first
    held,       \* resources held and flags set: pairs of a name and a queue
    failures    \* of steps, in this life

vars == <<name, features, phase, op, stack, held, failures>>

driver == Drivers[name]
Idle == stack = <<>>
Has(r, q) == <<r, 0>> \in held \/ <<r, q>> \in held
Owns(S) == {x \in S : x[1] \notin driver.flags}

\* Frames of the call stack.  A frame whose function failed runs its error labels.
Frame(f, q) == [fn |-> f, pc |-> 1, q |-> q, at |-> 0, bad |-> "no"]
top == Head(stack)
Body(code, fr) == IF fr.bad = "no" THEN code.do ELSE code.undo

\* The queue a step is about: 0 for what exists once, and the receive side of
\* queue k comes after all transmit sides.
Queue(step) ==
    LET k == IF step.q = 0 THEN top.q ELSE step.q
    IN  IF step.rx THEN k + NumQueues ELSE k
Holds(c, q) ==
    CASE c[1] = "held" -> Has(c[2], q)
      [] c[1] = "free" -> ~Has(c[2], q)
      [] c[1] = "with" -> c[2] \in features
      [] c[1] = "without" -> c[2] \notin features
      [] c[1] = "below" -> c[2] < top.at
      [] OTHER -> TRUE

\* Where a body goes on: the first step from pc on whose conditions hold.
Reached(body) ==
    LET open(i) == \A c \in body[i].when : Holds(c, Queue(body[i]))
    IN  {i \in top.pc..Len(body) : open(i) /\ \A j \in top.pc..(i-1) : ~open(j)}

\* The step to run next, with its place: none at the end of the function.
Now == UNION {LET body == Body(code, top)
              IN {[step |-> body[i], at |-> i, q |-> Queue(body[i])] : i \in Reached(body)}
              : code \in IF Idle THEN {} ELSE {Code[name][top.fn]}}

Past(fr, at) == [fr EXCEPT !.pc = at + 1]
Onward(now) == stack' = <<Past(top, now.at)>> \o Tail(stack)

\* What follows a failure in a frame: its labels from that one on.
FailTo(fr, step, kind, code) ==
    LET at == {i \in DOMAIN code.undo : code.undo[i].label = step.err /\ step.err # ""}
    IN  [fr EXCEPT !.bad = kind, !.at = IF step.q = 0 THEN @ ELSE step.q,
                   !.pc = IF at = {} THEN Len(code.undo) + 1
                          ELSE CHOOSE i \in at : \A j \in at : i <= j]

TypeOK ==
    /\ name \in DOMAIN Drivers
    /\ features \in driver.features
    /\ phase \in driver.phases
    /\ op = <<>> \/ op \in driver.entries
    /\ \A i \in DOMAIN stack : stack[i].bad \in {"no", "error", "unsupported"}
    /\ \A x \in held : x[2] \in 0..2*NumQueues
    /\ failures \in 0..MaxFailures

Init ==
    /\ name \in DOMAIN Drivers
    /\ features \in driver.features
    /\ phase = "absent"
    /\ op = <<>>
    /\ stack = <<>>
    /\ held = {}
    /\ failures = 0

\* The operating system calls the driver.  What an earlier life left behind, no
\* pointer of a new one knows.
Start(e) ==
    /\ Idle
    /\ phase \in e.from
    /\ \A c \in e.needs : Holds(c, 0)
    /\ op' = e
    /\ stack' = <<Frame(e.call, 0)>>
    /\ held' = IF phase \in {"absent", "off"} THEN {} ELSE held
    /\ failures' = IF phase \in {"absent", "off"} THEN 0 ELSE failures
    /\ UNCHANGED <<name, features, phase>>

\* A condition that the environment decides.
Skip(now) ==
    /\ \E c \in now.step.when : c[1] = "maybe"
    /\ Onward(now)
    /\ UNCHANGED <<held, failures>>

\* A step that succeeds.  An admin command needs a queue that accepts it.
Accepts == \A r \in driver.accepts : Has(r, 0)
Do(now) ==
    LET does == now.step.op  x == <<now.step.on, now.q>>
    IN  /\ does \in {"get", "set", "put", "clear", "use", "try", "cmd", "wipe", "lacks"}
        /\ does = "cmd" => Accepts
        /\ held' = CASE does \in {"get", "set"} -> held \cup {x}
                     [] does \in {"put", "clear"} -> held \ {x, <<now.step.on, 0>>}
                     [] does = "wipe" -> {y \in held : y[1] \notin driver.onDevice}
                     [] OTHER -> held
        /\ Onward(now)
        /\ UNCHANGED failures

\* A step that fails by itself, or must.  A command may fail for want of an answer,
\* which shuts the queue.
Fail(now) ==
    LET does == now.step.op
        must == does \in {"raise", "deny"} \/ (does = "cmd" /\ ~Accepts)
        kind == IF does \in {"lacks", "deny"} THEN "unsupported" ELSE "error"
    IN  /\ does \in {"get", "use", "try", "cmd", "lacks", "raise", "deny"}
        /\ now.step.err # "never"
        /\ ~must => failures < MaxFailures
        /\ failures' = IF must THEN failures ELSE failures + 1
        /\ stack' = <<FailTo(top, now.step, kind, Code[name][top.fn])>> \o Tail(stack)
        /\ held' \in {held} \cup
              IF does = "cmd" THEN {held \ {<<driver.running, 0>>}} ELSE {}

\* The frame of the caller stays at the call.
Enter(now) ==
    /\ now.step.op \in {"call", "best", "able"}
    /\ stack' = <<Frame(now.step.on, now.q), [top EXCEPT !.pc = now.at]>> \o Tail(stack)
    /\ UNCHANGED <<held, failures>>

\* return 0 early, past the last step.  And the loop of a function that tries again.
Return(now) ==
    /\ now.step.op = "leave"
    /\ stack' = <<[top EXCEPT !.bad = "no", !.pc = Len(Code[name][top.fn].do) + 1]>>
                \o Tail(stack)
    /\ UNCHANGED <<held, failures>>
StartOver(now) ==
    /\ now.step.op = "retry"
    /\ stack' = <<Frame(top.fn, top.q)>> \o Tail(stack)
    /\ UNCHANGED <<held, failures>>

Execute ==
    /\ \E now \in Now :
          Skip(now) \/ Do(now) \/ Fail(now) \/ Enter(now) \/ Return(now) \/ StartOver(now)
    /\ UNCHANGED <<name, features, phase, op>>

\* Back in the caller, which goes on or goes to its own label.
ToCaller ==
    /\ Len(stack) > 1
    /\ Now = {}
    /\ LET caller == stack[2]
       IN \E code \in {Code[name][caller.fn]} :
          LET step == Body(code, caller)[caller.pc]
              passes == \/ top.bad = "no"
                        \/ step.op = "best"
                        \/ step.op = "able" /\ top.bad = "unsupported"
          IN  stack' = << IF passes THEN Past(caller, caller.pc)
                          ELSE FailTo(caller, step, top.bad, code) >>
                       \o SubSeq(stack, 3, Len(stack))
    /\ UNCHANGED <<name, features, phase, op, held, failures>>

\* The operation is over, and the locals with it.  "as is": whatever the driver's
\* flags say.
PhaseAfter(p) == IF p # "as is" THEN p
                 ELSE IF ~Has(driver.alive, 0) THEN "broken"
                 ELSE IF Has(driver.up, 0) THEN "up" ELSE "down"
Finish ==
    /\ Len(stack) = 1
    /\ Now = {}
    /\ phase' = PhaseAfter(IF top.bad = "no" THEN op.ok ELSE op.bad)
    /\ stack' = <<>>
    /\ op' = <<>>
    /\ held' = {x \in held : x[1] \notin driver.locals}
    /\ UNCHANGED <<name, features, failures>>

Next == (\E e \in driver.entries : Start(e)) \/ Execute \/ ToCaller \/ Finish

Spec == Init /\ [][Next]_vars
-----------------------------------------------------------------------------
\* What a driver is known to get wrong, in an operation or a phase; and what it
\* gives up on the device when no command reaches the device any more.
GivenUp == IF Accepts /\ phase # "off" THEN {} ELSE driver.givenUp
Excused(r) == <<IF Idle THEN phase ELSE op.call, r>> \in driver.excused \/ r \in GivenUp

\* Nothing that is held is acquired over: the only pointer to it would be lost.
\* And what is released or worked on is held: nothing is freed twice, nothing is
\* used before it exists or after it is gone.
OwnershipKept ==
    \A now \in Now :
       LET r == now.step.on
       IN  ~Excused(r) =>
             /\ now.step.op = "get" => <<r, now.q>> \notin held
             /\ now.step.op \in {"put", "use"} => Has(r, now.q)

\* Nothing outlives what it rests on: an interrupt its vectors, a device queue
\* its memory, a clock the structure its callbacks read.
NothingOutlivesItsBase ==
    LET resting == DOMAIN driver.base
    IN  \A x \in held : x[1] \in resting /\ ~Excused(x[1]) =>
            \A alternatives \in driver.base[x[1]] : \E b \in alternatives : Has(b, x[2])

\* Whatever way led there and whatever failed on it, a phase owns what it should:
\* a failed operation leaves nothing behind, the way down gives back all that the
\* way up took, what one queue has every queue has, and of an object of several
\* parts there are all or none.
PhaseOwnsItsShare ==
    Idle =>
        LET owned == Owns(held)
            names == {x[1] : x \in owned}
            queues(r) == {x[2] : x \in {y \in owned : y[1] = r}}
        IN  /\ driver.owns[phase] \subseteq names
            /\ names \subseteq driver.owns[phase] \cup driver.mayOwn[phase] \cup GivenUp
            /\ \A r \in names \ (driver.mayOwn[phase] \cup GivenUp) : queues(r) \in
                 {{0}, 1..NumQueues, NumQueues+1..2*NumQueues, 1..2*NumQueues}
            /\ \A object \in {o \ GivenUp : o \in driver.objects} :
                 (object \cap names) \in {{}, object}
=============================================================================
