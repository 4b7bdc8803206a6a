-------------------------------- MODULE Steps --------------------------------
(***************************************************************************)
(* A vocabulary for bring-up and tear-down code.  A C function that        *)
(* acquires and releases is a pair of sequences: what it does, and the     *)
(* chain of error labels it falls through.  Only the control is kept: what *)
(* is taken, what is given back, what may fail, and to which label.        *)
(***************************************************************************)
EXTENDS Naturals, Sequences

CONSTANT NumQueues      \* pairs of a transmit and a receive queue

Never == "never"        \* the label of a step that cannot fail
Return == ""            \* the label of "return rc"

Step(does, on, err) ==
    << [op |-> does, on |-> on, err |-> err, q |-> 0, rx |-> FALSE,
        when |-> {}, label |-> Return] >>

\* The steps.  Resources and flags are names; inside the code of a queue they
\* are that queue's.
Get(r, err)  == Step("get", r, err)         \* acquire, or fail to err
Have(r)      == Step("get", r, Never)       \* acquire, cannot fail
Put(r)       == Step("put", r, Never)       \* release
Use(r, err)  == Step("use", r, err)         \* work on r, or fail to err
Touch(r)     == Step("use", r, Never)       \* work on r
Try(err)     == Step("try", "", err)        \* may fail for a reason of its own
Set(f)       == Step("set", f, Never)       \* set_bit()
Clear(f)     == Step("clear", f, Never)     \* clear_bit()
Cmd(err)     == Step("cmd", "", err)        \* an admin command
Wipe         == Step("wipe", "", Never)     \* the device forgets its queues
Raise(err)   == Step("raise", "", err)      \* fail
Lacks(err)   == Step("lacks", "", err)      \* may fail with -EOPNOTSUPP
Deny(err)    == Step("deny", "", err)       \* fail with -EOPNOTSUPP
Leave        == Step("leave", "", Never)    \* return 0
Retry        == Step("retry", "", Never)    \* start over
Call(f, err) == Step("call", f, err)        \* fail to err if f does
Best(f)      == Step("best", f, Never)      \* call f, ignore its result
CallIfAble(f, err) == Step("able", f, err)  \* -EOPNOTSUPP is no failure

\* Conditions, looked up when the step is reached.
Held(r) == <<"held", r>>
Free(r) == <<"free", r>>
Feature(x) == <<"with", x>>
Without(x) == <<"without", x>>
Maybe == <<"maybe", "">>
If(c, s) == [i \in DOMAIN s |-> [s[i] EXCEPT !.when = @ \cup {c}]]
PutIfHeld(r) == If(Held(r), Put(r))

\* For every queue; downwards from the one that failed, as in while (i--); and
\* on the receive side of a queue, ENA_IO_RXQ_IDX.
Each(s) == [i \in 1..(NumQueues * Len(s)) |->
    [s[((i - 1) % Len(s)) + 1] EXCEPT !.q = ((i - 1) \div Len(s)) + 1]]
Below(s) == [i \in 1..(NumQueues * Len(s)) |->
    LET k == NumQueues - ((i - 1) \div Len(s))
    IN  [s[((i - 1) % Len(s)) + 1] EXCEPT !.q = k, !.when = @ \cup {<<"below", k>>}]]
Rx(s) == [i \in DOMAIN s |-> [s[i] EXCEPT !.rx = TRUE]]

Label(l, s) == << [Head(s) EXCEPT !.label = l] >> \o Tail(s)
Fn(do, undo) == [do |-> do, undo |-> undo]
Simple(do) == Fn(do, <<>>)

\* An operation the system may call: from which phases, under which conditions,
\* and the phase it leads to when it succeeds and when it fails.
Entry(f, from, ok, bad) ==
    [call |-> f, from |-> from, ok |-> ok, bad |-> bad, needs |-> {}]
Verb(f, in, needs) ==
    [call |-> f, from |-> {in}, ok |-> in, bad |-> in, needs |-> needs]
=============================================================================
