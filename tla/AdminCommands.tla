--------------------------- MODULE AdminCommands ---------------------------
(***************************************************************************)
(* What ena_com_execute_admin_command() promises its callers, whatever     *)
(* rings, locks, interrupts and timeouts implement it.  Commands are       *)
(* numbered in the order they are issued.  The device answers a command at *)
(* most once, and a call comes back with the device's own verdict on that  *)
(* call's command or with an error of the driver, never with the answer    *)
(* to another command.                                                     *)
(*                                                                         *)
(* The queue closes after an error.  One caller may then be on his way in: *)
(* the command he issues is exposed, and nothing is promised about what    *)
(* his call returns.  If his command overruns the rings, the same holds    *)
(* for every call under way, and for the device, until the queue is open   *)
(* again.                                                                  *)
(***************************************************************************)
EXTENDS Naturals

CONSTANTS Clients,       \* threads that execute admin commands
          DevStatus,     \* statuses a device answers with
          MaxCmds        \* bound: commands issued in a behaviour

(***************************************************************************)
(* ena_com_admin_status_to_errno(): what a call returns for an answer.     *)
(***************************************************************************)
Errno(st) ==
    CASE st = "SUCCESS"                     -> "OK"
      [] st = "RESOURCE_ALLOCATION_FAILURE" -> "ENOMEM"
      [] st = "UNSUPPORTED_OPCODE"          -> "EOPNOTSUPP"
      [] st = "RESOURCE_BUSY"               -> "EAGAIN"
      [] OTHER                              -> "EINVAL"

Verdicts == {"OK", "ENOMEM", "EOPNOTSUPP", "EAGAIN", "EINVAL"}
DriverErrors == {"ETIME", "ENODEV"}
RefusalErrors == {"ENODEV", "ENOSPC", "EINVAL"}

Cmds == 1..MaxCmds
NoCmd == 0

VARIABLES
    mode,      \* "open", "closing" (a caller is on his way in), "closed", "overrun"
    exposed,   \* the commands whose calls nothing is promised to
    state,     \* state[c]: where call c is
    cmd,       \* cmd[c]: the command of call c, NoCmd for none
    response,  \* response[c]: the command whose answer c's buffer holds
    result,    \* result[c]: what call c returned
    issued,    \* number of commands issued
    answer     \* answer[k]: the device's answer to command k, or "none"

vars == <<mode, exposed, state, cmd, response, result, issued, answer>>

Init ==
    /\ mode = "closed"
    /\ exposed = {}
    /\ state = [c \in Clients |-> "idle"]
    /\ cmd = [c \in Clients |-> NoCmd]
    /\ response = [c \in Clients |-> NoCmd]
    /\ result = [c \in Clients |-> "none"]
    /\ issued = 0
    /\ answer = [k \in Cmds |-> "none"]

Open ==
    /\ mode \in {"closed", "overrun"}
    /\ mode' = "open"
    /\ UNCHANGED <<exposed, state, cmd, response, result, issued, answer>>

Close ==
    /\ mode = "open"
    /\ mode' \in {"closing", "closed"}
    /\ UNCHANGED <<exposed, state, cmd, response, result, issued, answer>>

NewCommand(c) ==
    /\ state[c] = "idle"
    /\ issued < MaxCmds
    /\ issued' = issued + 1
    /\ cmd' = [cmd EXCEPT ![c] = issued + 1]
    /\ state' = [state EXCEPT ![c] = "pending"]
    /\ UNCHANGED <<response, result, answer>>

Issue(c) ==
    /\ mode = "open"
    /\ NewCommand(c)
    /\ UNCHANGED <<mode, exposed>>

\* The last command before the queue is opened again is exposed, and with it the
\* calls under way if it overruns the rings.
IssueLate(c) ==
    /\ mode = "closing"
    /\ NewCommand(c)
    /\ \/ mode' = "closed" /\ exposed' = exposed \cup {issued + 1}
       \/ /\ mode' = "overrun"
          /\ exposed' = exposed \cup {issued + 1} \cup {cmd[d] : d \in Clients}

\* A call that is refused; an error on the way in closes the queue.
Refuse(c) ==
    /\ state[c] = "idle"
    /\ \E e \in RefusalErrors : result' = [result EXCEPT ![c] = e]
    /\ state' = [state EXCEPT ![c] = "returned"]
    /\ mode' = mode \/ (mode \in {"open", "closing"} /\ mode' = "closed")
    /\ UNCHANGED <<exposed, cmd, response, issued, answer>>

\* The device answers an issued command, even one nobody waits for any more.
Answer(k) ==
    /\ k <= issued
    /\ answer[k] = "none" \/ mode = "overrun"
    /\ \E st \in DevStatus : answer' = [answer EXCEPT ![k] = st]
    /\ UNCHANGED <<mode, exposed, state, cmd, response, result, issued>>

ReturnAnswer(c) ==
    /\ state[c] = "pending"
    /\ answer[cmd[c]] # "none"
    /\ result' = [result EXCEPT ![c] = Errno(answer[cmd[c]])]
    /\ response' = [response EXCEPT ![c] = cmd[c]]
    /\ state' = [state EXCEPT ![c] = "returned"]
    /\ UNCHANGED <<mode, exposed, cmd, issued, answer>>

ReturnError(c) ==
    /\ state[c] = "pending"
    /\ \E e \in DriverErrors : result' = [result EXCEPT ![c] = e]
    /\ state' = [state EXCEPT ![c] = "returned"]
    /\ UNCHANGED <<mode, exposed, cmd, response, issued, answer>>

\* An exposed call comes back with some verdict and some answer, or none.
ReturnExposed(c) ==
    /\ state[c] = "pending"
    /\ cmd[c] \in exposed
    /\ \E e \in Verdicts : result' = [result EXCEPT ![c] = e]
    /\ \E k \in Cmds \cup {NoCmd} : response' = [response EXCEPT ![c] = k]
    /\ state' = [state EXCEPT ![c] = "returned"]
    /\ UNCHANGED <<mode, exposed, cmd, issued, answer>>

\* ... and its buffer may still be written.
Overwrite(c) ==
    /\ state[c] = "returned"
    /\ cmd[c] \in exposed
    /\ \E k \in Cmds \cup {NoCmd} : response' = [response EXCEPT ![c] = k]
    /\ UNCHANGED <<mode, exposed, state, cmd, result, issued, answer>>

Done(c) ==
    /\ state[c] = "returned"
    /\ state' = [state EXCEPT ![c] = "idle"]
    /\ cmd' = [cmd EXCEPT ![c] = NoCmd]
    /\ response' = [response EXCEPT ![c] = NoCmd]
    /\ result' = [result EXCEPT ![c] = "none"]
    /\ UNCHANGED <<mode, exposed, issued, answer>>

Next ==
    \/ Open \/ Close
    \/ \E c \in Clients : \/ Issue(c) \/ IssueLate(c) \/ Refuse(c) \/ Done(c)
                          \/ ReturnAnswer(c) \/ ReturnError(c)
                          \/ ReturnExposed(c) \/ Overwrite(c)
    \/ \E k \in Cmds : Answer(k)

Spec == Init /\ [][Next]_vars
=============================================================================
