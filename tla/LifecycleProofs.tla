---------------------------- MODULE LifecycleProofs ----------------------------
(***************************************************************************)
(* Theorems about Lifecycle, for every set of operations and every bound   *)
(* on operations, requests and failures.                                   *)
(*                                                                         *)
(* The invariant says for each step what is true of the device when it is  *)
(* the next one of the holder of rtnl (Place), and what the steps that are *)
(* left still owe: that the device is watched, restored and up again.  The *)
(* proofs see the stack todo through its first step (top), the steps that  *)
(* are left (Left), and what may stand below a step and after it (Below,   *)
(* Follow); the lemmas about sequences are what that takes.                *)
(***************************************************************************)
EXTENDS Lifecycle, SequenceTheorems, TLAPS

-----------------------------------------------------------------------------
(***************************************************************************)
(* The steps that are left                                                 *)
(***************************************************************************)
First(s) == IF s = << >> THEN "end" ELSE Head(s)
Elems(s) == {s[k] : k \in DOMAIN s}
top == First(todo)
Left == Elems(todo)

\* A restore, an operation that ends with ena_up(), and a reset that is to come.
Lower == {"ena_destroy_device", "ena_restore_device", "up_if_was_up"}
Teardown == {"reset_unless_done", "free_admin", "back_to_default",
             "ena_devlink_unregister"} \cup Lower

\* What may be left after a step.
Below(s) ==
    CASE s \in {"ena_up", "set_DEV_UP"} -> {"opened", "finish"} \cup Lower
      [] s \in {"ena_down", "reset_if_triggered"} -> {"check_admin",
        "reset_if_needed"} \cup Teardown
      [] s = "napi_disable" ->
            {"reset_if_triggered", "check_admin", "reset_if_needed"} \cup Teardown
      [] s = "check_admin" -> {"reset_if_needed"} \cup Lower
      [] s = "stop_timer" -> {"take_down"} \cup Teardown
      [] s = "take_down" -> Teardown
      [] s = "reset_unless_done" -> Teardown \ {"reset_unless_done"}
      [] s = "free_admin" -> {"back_to_default", "ena_devlink_unregister"} \cup Lower
      [] s \in {"ena_destroy_device",
        "back_to_default"} -> {"ena_devlink_unregister"} \cup Lower
      [] s = "disable_msix" -> {"destroy_admin", "reset_invalid"} \cup Lower
      [] s = "destroy_admin" -> {"reset_invalid"} \cup Lower
      [] s \in {"opened", "up_if_was_up", "ena_devlink_unregister"} -> {}
      [] OTHER -> Lower

\* What may come next.
FollowsDestroy(o) ==
    CASE o \in {"suspend", "reload_down"} -> {"end"}
      [] o = "remove" -> {"ena_devlink_unregister"}
      [] OTHER -> {"ena_restore_device"}
Follow(s, o) ==
    CASE s \in {"ena_up", "set_DEV_UP"} -> {"opened", "finish", "end"}
      [] s \in {"ena_down", "reset_if_triggered"} ->
            {"check_admin", "reset_unless_done", "up_if_was_up"}
      [] s = "napi_disable" -> {"reset_if_triggered"}
      [] s = "check_admin" -> {"reset_if_needed"}
      [] s = "stop_timer" -> {"take_down"}
      [] s = "take_down" -> {"reset_unless_done"}
      [] s = "reset_unless_done" -> {"free_admin"}
      [] s = "free_admin" -> {"back_to_default"}
      [] s \in {"ena_destroy_device", "back_to_default"} -> FollowsDestroy(o)
      [] s = "disable_msix" -> {"destroy_admin"}
      [] s = "destroy_admin" -> {"reset_invalid"}
      [] s \in {"opened", "up_if_was_up", "ena_devlink_unregister"} -> {"end"}
      [] OTHER -> {"end", "up_if_was_up", "ena_destroy_device"}

WellFormed(s, o) ==
    /\ s \in Seq(Steps)
    /\ \A k \in 1..Len(s) : (IF k = Len(s) THEN "end" ELSE s[k + 1]) \in Follow(s[k], o)
    /\ \A j, k \in 1..Len(s) : j < k => s[k] \in Below(s[j])
Shape == WellFormed(todo, op)

-----------------------------------------------------------------------------
(***************************************************************************)
(* The inductive invariant                                                 *)
(***************************************************************************)
Types ==
    /\ open \in BOOLEAN /\ DEVICE_RUNNING \in BOOLEAN /\ DEV_UP \in BOOLEAN
    /\ TRIGGER_RESET \in BOOLEAN /\ dev_up_before_reset \in BOOLEAN /\ dev_was_up \in BOOLEAN
    /\ upFailed \in BOOLEAN /\ restoreFailed \in BOOLEAN /\ running_state \in BOOLEAN
    /\ io \in BOOLEAN /\ mgmnt_irq \in BOOLEAN /\ rings \in BOOLEAN /\ events \in BOOLEAN
    /\ reset_task \in BOOLEAN /\ suspended \in BOOLEAN
    /\ reset_reason \in Reasons
    /\ timer \in {"off", "armed", "check"}
    /\ op \in AllOperations \cup {"none", "resume", "reload_down", "reload_up", "reset_task"}
    /\ reload \in {"no", "down", "between", "done"}
    /\ removal \in {"no", "del_timer", "cancel_work", "rtnl_lock", "destroy", "out", "freed"}
Bounds == ops \in 0..MaxOps /\ requests \in 0..MaxRequests /\ failures \in 0..MaxFailures

\* Whoever asks for a reset is alive until he has done so.
Asking == pending \subseteq {who \in Requesters : Alive(who)}

\* What is true of the device when a step is the next one.
Off == timer = "off"
Quiet == ~io /\ ~DEV_UP
Running == DEVICE_RUNNING /\ mgmnt_irq /\ rings
Stopped == ~DEVICE_RUNNING /\ ~mgmnt_irq /\ ~rings /\ Quiet /\ Off
  /\ reset_reason # "REQUESTED"
Restoring == ~DEVICE_RUNNING /\ mgmnt_irq /\ rings /\ Off
RunsOrStopped == (Running /\ io = DEV_UP) \/ Stopped
Place ==
    /\ top \in {"end", "ena_close", "ena_destroy_device", "up_if_was_up", "opened",
                "ena_devlink_unregister"} => RunsOrStopped
    /\ top = "ena_up" => IF "finish" \in Left THEN Restoring /\ Quiet ELSE RunsOrStopped
    /\ top = "set_DEV_UP" => /\ io /\ ~DEV_UP /\ ~upFailed
                             /\ IF "finish" \in Left THEN Restoring ELSE Running
    /\ top \in {"check_admin", "reset_if_needed", "ena_down", "stop_timer", "take_down"} =>
          Running /\ io = DEV_UP
    /\ top = "ena_down" => DEV_UP
    /\ top = "napi_disable" => Running /\ ~DEV_UP
    /\ top \in {"reset_if_triggered", "reset_unless_done", "free_admin"} => Running /\ Quiet
    /\ top = "back_to_default" => DEVICE_RUNNING /\ ~mgmnt_irq /\ ~rings /\ Quiet
    /\ top = "ena_restore_device" => Stopped
    /\ top = "enable_msix" => ~DEVICE_RUNNING /\ rings /\ ~mgmnt_irq /\ Quiet /\ Off
    /\ top = "up_again" => Restoring /\ Quiet
    /\ top = "finish" => Restoring /\ io = DEV_UP
         /\ (dev_up_before_reset => (DEV_UP <=> ~upFailed))
    /\ top = "disable_msix" => ~DEVICE_RUNNING /\ Quiet /\ Off
    /\ top = "destroy_admin" => ~DEVICE_RUNNING /\ ~mgmnt_irq /\ Quiet /\ Off
    /\ top = "reset_invalid" => ~DEVICE_RUNNING /\ ~mgmnt_irq /\ ~rings /\ Quiet /\ Off

\* A device that is torn down: to the end, and not watched meanwhile.
TornDown ==
    /\ Left \cap {"stop_timer", "take_down", "reset_unless_done", "free_admin"} # {} =>
          "back_to_default" \in Left
    /\ "back_to_default" \in Left /\ "stop_timer" \notin Left => Off

\* A running device is watched, or about to be torn down.
Watched == timer # "off" \/ (reset_task /\ TRIGGER_RESET)
ToBeTornDown == Left \cap {"ena_destroy_device", "back_to_default"} # {}
Watching == DEVICE_RUNNING /\ removal = "no" => Watched \/ ToBeTornDown

\* A request is made as a whole, or about to be forgotten.
Whole == reset_reason = "REQUESTED" => TRIGGER_RESET \/ pending # {} \/ ToBeTornDown

\* Who is up, or will be when what is under way is done.
Noted == ~DEVICE_RUNNING \/ ("back_to_default" \in Left /\ "take_down" \notin Left)
ComingUp == Left \cap {"ena_up", "set_DEV_UP"} # {}
OwedUp == \/ DEV_UP \/ ComingUp
          \/ dev_was_up /\ "up_if_was_up" \in Left
          \/ dev_up_before_reset /\ Noted

\* The circumstances UpIsOpen is about.
Ordinary == ~restoreFailed /\ reload = "no" /\ removal \notin {"out", "freed"}
ComesDown == "ena_close" \in Left \/ (top = "ena_down" /\ "back_to_default" \notin Left)
UpAndOpen ==
    /\ open /\ ~upFailed => OwedUp
    /\ Ordinary /\ OwedUp => open \/ op = "close"
    /\ op = "close" => ~open /\ "up_if_was_up" \notin Left
    /\ (op = "close" /\ Ordinary) \/ (dev_was_up /\ "up_if_was_up" \in Left) =>
          ComesDown \/ ~(DEV_UP \/ ComingUp \/ (dev_up_before_reset /\ Noted))
    /\ top = "ena_close" => \/ op = "close" /\ (Ordinary => DEVICE_RUNNING)
                            \/ "up_if_was_up" \in Left /\ dev_was_up = DEV_UP
    /\ top = "ena_down" /\ "back_to_default" \notin Left =>
          op = "close" \/ (dev_was_up /\ "up_if_was_up" \in Left)
    /\ top = "ena_down" /\ "back_to_default" \in Left => dev_up_before_reset
    /\ "opened" \in Left =>
          open /\ (Ordinary => DEVICE_RUNNING
            /\ (DEV_UP \/ "set_DEV_UP" \in Left => ~upFailed))
    /\ Ordinary /\ top = "ena_up" => ~io

\* The holder of rtnl, and what suspend, reload and removal leave.
RestoreSteps == {"ena_restore_device", "enable_msix", "up_again", "finish", "disable_msix",
                 "destroy_admin", "reset_invalid"}
DestroySteps == {"ena_destroy_device", "stop_timer", "take_down", "ena_down", "napi_disable",
                 "reset_if_triggered", "reset_unless_done", "free_admin", "back_to_default",
                 "ena_devlink_unregister"}
Holding ==
    /\ op = "none" => todo = << >>
    /\ op = "reload_down" => reload = "down"
    /\ op = "reload_up" => reload = "between"
    /\ removal = "destroy" <=> op = "remove"
    /\ removal = "freed" => op = "none"
    /\ op \in {"suspend", "reload_down", "remove"} =>
          Left \subseteq DestroySteps /\ (ToBeTornDown \/ ~DEVICE_RUNNING)
    /\ Ordinary /\ ~DEVICE_RUNNING =>
          Left \cap RestoreSteps # {} \/ op = "remove" \/ (suspended /\ op # "resume")
Suspending ==
    /\ suspended => /\ reload \in {"no", "done"} /\ removal = "no"
                    /\ op \in {"none", "suspend", "resume", "reset_task"}
    /\ op \in {"suspend", "resume"} => suspended
    /\ suspended /\ op \in {"none", "reset_task"} =>
          ~DEVICE_RUNNING /\ ~TRIGGER_RESET /\ todo = << >>
    /\ op = "suspend" /\ ~DEVICE_RUNNING => ~TRIGGER_RESET

IInv == /\ Types /\ Bounds /\ Shape /\ Asking /\ Place /\ TornDown /\ Watching /\ Whole
        /\ UpAndOpen /\ Holding /\ Suspending

-----------------------------------------------------------------------------
(***************************************************************************)
(* Putting steps in front and taking them away                             *)
(***************************************************************************)
LEMMA EmptyShape ==
    ASSUME NEW o
    PROVE  WellFormed(<< >>, o) /\ First(<< >>) = "end" /\ Elems(<< >>) = {}
  BY DEF WellFormed, First, Elems

\* The first of the steps that are left bounds the others.
LEMMA FirstOf ==
    ASSUME NEW o, NEW s, WellFormed(s, o)
    PROVE  /\ First(s) = "end" <=> s = << >>
           /\ s # << >> => /\ First(s) \in Elems(s) /\ First(s) = Head(s)
                           /\ Elems(s) \subseteq {First(s)} \cup Below(First(s))
<1>1. s \in Seq(Steps) /\ DOMAIN s = 1..Len(s)
  BY DEF WellFormed
<1>2. ASSUME s # << >>
      PROVE  /\ First(s) \in Elems(s) /\ First(s) = Head(s) /\ First(s) # "end"
             /\ Elems(s) \subseteq {First(s)} \cup Below(First(s))
  <2>1. Len(s) \in Nat /\ 1 \in 1..Len(s) /\ Head(s) = s[1] /\ First(s) = s[1]
          /\ s[1] \in Steps
    BY <1>1, <1>2 DEF First
  <2>2. \A k \in 1..Len(s) : k # 1 => 1 < k
    BY <2>1
  <2>3. \A k \in 1..Len(s) : k # 1 => s[k] \in Below(s[1])
    BY <2>1, <2>2 DEF WellFormed
  <2>4. "end" \notin Steps
    BY DEF Steps
  <2> QED
    BY <1>1, <2>1, <2>3, <2>4 DEF Elems
<1> QED
  BY <1>2 DEF First

LEMMA Pop ==
    ASSUME NEW o, NEW s, WellFormed(s, o), s # << >>
    PROVE  /\ WellFormed(Tail(s), o)
           /\ Elems(s) = {Head(s)} \cup Elems(Tail(s))
           /\ First(Tail(s)) \in Follow(Head(s), o)
           /\ Elems(Tail(s)) \subseteq Below(Head(s))
<1> DEFINE t == Tail(s)
<1>1. s \in Seq(Steps) /\ DOMAIN s = 1..Len(s) /\ Len(s) \in Nat /\ Len(s) # 0
  BY DEF WellFormed
<1>2. t \in Seq(Steps) /\ Len(t) = Len(s) - 1 /\ DOMAIN t = 1..Len(t)
  BY <1>1
<1>0. Len(s) \in Nat /\ Len(t) \in Nat /\ Len(t) + 1 = Len(s)
  <2>1. Len(t) \in Nat
    BY <1>2
  <2> QED
    BY <1>1, <1>2, <2>1
<1>00. t = << >> <=> Len(t) = 0
  BY <1>2
<1>3. \A k \in 1..Len(t) : t[k] = s[k + 1] /\ k + 1 \in 1..Len(s)
  BY <1>1, <1>2
<1>4. Head(s) = s[1] /\ 1 \in 1..Len(s)
  BY <1>1
<1> HIDE DEF t
<1>5. WellFormed(t, o)
  <2>1. \A k \in 1..Len(t) : (IF k = Len(t) THEN "end" ELSE t[k + 1]) \in Follow(t[k], o)
    <3> SUFFICES ASSUME NEW k \in 1..Len(t)
                 PROVE  (IF k = Len(t) THEN "end" ELSE t[k + 1]) \in Follow(t[k], o)
      OBVIOUS
    <3>1. (IF k + 1 = Len(s) THEN "end" ELSE s[k + 1 + 1]) \in Follow(s[k + 1], o)
      BY <1>3 DEF WellFormed
    <3>2. k = Len(t) <=> k + 1 = Len(s)
      BY <1>0
    <3>3. k # Len(t) => k + 1 \in 1..Len(t)
      BY <1>0
    <3>4. k # Len(t) => t[k + 1] = s[k + 1 + 1]
      BY <1>3, <3>3
    <3> QED
      BY <1>3, <3>1, <3>2, <3>4
  <2>2. ASSUME NEW j \in 1..Len(t), NEW k \in 1..Len(t), j < k
        PROVE  t[k] \in Below(t[j])
    <3>1. j + 1 < k + 1 /\ j + 1 \in 1..Len(s) /\ k + 1 \in 1..Len(s)
      BY <1>3, <2>2
    <3>2. s[k + 1] \in Below(s[j + 1])
      BY <3>1 DEF WellFormed
    <3> QED
      BY <1>3, <3>2
  <2> QED
    BY <1>2, <2>1, <2>2 DEF WellFormed
<1>6. Elems(s) = {Head(s)} \cup Elems(t)
  <2>1. \A k \in 1..Len(s) : k = 1 \/ (k - 1 \in 1..Len(t) /\ k = k - 1 + 1)
    BY <1>0
  <2>2. \A k \in 1..Len(s) : k = 1 \/ (k - 1 \in 1..Len(t) /\ s[k] = t[k - 1])
    BY <1>3, <2>1
  <2>3. Elems(s) \subseteq {Head(s)} \cup Elems(t)
    BY <1>4, <2>2 DEF Elems
  <2>4. Elems(t) \subseteq Elems(s)
    BY <1>3 DEF Elems
  <2>5. Head(s) \in Elems(s)
    BY <1>4 DEF Elems
  <2> QED
    BY <2>3, <2>4, <2>5
<1>7. First(t) \in Follow(Head(s), o)
  <2>1. (IF 1 = Len(s) THEN "end" ELSE s[1 + 1]) \in Follow(s[1], o)
    BY <1>4 DEF WellFormed
  <2>2. t = << >> <=> Len(s) = 1
    <3>1. \A m, n \in Nat : m + 1 = n => (m = 0 <=> n = 1)
      OBVIOUS
    <3> QED
      BY <1>0, <1>00, <3>1
  <2>3. Len(s) # 1 => Head(t) = s[1 + 1]
    <3>1. Len(s) # 1 => 1 \in 1..Len(t) /\ Len(t) # 0
      BY <1>0
    <3> QED
      BY <1>2, <1>3, <1>00, <3>1
  <2> QED
    BY <1>4, <2>1, <2>2, <2>3 DEF First
<1>8. Elems(t) \subseteq Below(Head(s))
  <2>1. \A k \in 1..Len(t) : 1 < k + 1
    BY <1>2
  <2>2. \A k \in 1..Len(t) : s[k + 1] \in Below(s[1])
    BY <1>3, <1>4, <2>1 DEF WellFormed
  <2> QED
    BY <1>2, <1>3, <1>4, <2>2 DEF Elems
<1> QED
  BY <1>5, <1>6, <1>7, <1>8 DEF t

LEMMA Push ==
    ASSUME NEW o, NEW s, WellFormed(s, o), NEW a \in Steps,
           First(s) \in Follow(a, o), Elems(s) \subseteq Below(a)
    PROVE  /\ WellFormed(<<a>> \o s, o)
           /\ Elems(<<a>> \o s) = {a} \cup Elems(s)
           /\ First(<<a>> \o s) = a
<1> DEFINE t == <<a>> \o s
<1>1. s \in Seq(Steps) /\ DOMAIN s = 1..Len(s) /\ Len(s) \in Nat
  BY DEF WellFormed
<1>2. t \in Seq(Steps) /\ Len(t) = Len(s) + 1 /\ DOMAIN t = 1..Len(t) /\ t[1] = a /\ t # << >>
  BY <1>1
<1>3. \A k \in 2..Len(t) : t[k] = s[k - 1] /\ k - 1 \in 1..Len(s)
  BY <1>1, <1>2
<1>4. Head(t) = a
  BY <1>2
<1> HIDE DEF t
<1>5. WellFormed(t, o)
  <2>1. ASSUME NEW k \in 1..Len(t)
        PROVE  (IF k = Len(t) THEN "end" ELSE t[k + 1]) \in Follow(t[k], o)
    <3>1. CASE k = 1
      <4>1. s = << >> <=> Len(t) = 1
        BY <1>1, <1>2
      <4>2. s # << >> => Head(s) = t[1 + 1]
        BY <1>1, <1>2, <1>3, <4>1
      <4> QED
        BY <1>2, <3>1, <4>1, <4>2 DEF First
    <3>2. CASE k # 1
      <4>1. k - 1 \in 1..Len(s) /\ t[k] = s[k - 1] /\ (k - 1 = Len(s) <=> k = Len(t))
        BY <1>1, <1>2, <1>3, <3>2
      <4>2. (IF k - 1 = Len(s) THEN "end" ELSE s[k - 1 + 1]) \in Follow(s[k - 1], o)
        BY <4>1 DEF WellFormed
      <4>3. k # Len(t) => t[k + 1] = s[k - 1 + 1]
        BY <1>1, <1>2, <1>3, <3>2
      <4> QED
        BY <4>1, <4>2, <4>3
    <3> QED
      BY <3>1, <3>2
  <2>2. ASSUME NEW j \in 1..Len(t), NEW k \in 1..Len(t), j < k
        PROVE  t[k] \in Below(t[j])
    <3>0. k \in 2..Len(t)
      BY <1>1, <1>2, <2>2
    <3>1. k - 1 \in 1..Len(s) /\ t[k] = s[k - 1]
      BY <1>3, <3>0
    <3>2. CASE j = 1
      BY <1>1, <1>2, <3>1, <3>2 DEF Elems
    <3>3. CASE j # 1
      <4>1. j - 1 \in 1..Len(s) /\ t[j] = s[j - 1] /\ j - 1 < k - 1
        BY <1>1, <1>2, <1>3, <2>2, <3>3
      <4> QED
        BY <3>1, <4>1 DEF WellFormed
    <3> QED
      BY <3>2, <3>3
  <2> QED
    BY <1>2, <2>1, <2>2 DEF WellFormed
<1>6. Elems(t) = {a} \cup Elems(s)
  <2>1. \A k \in 1..Len(s) : k + 1 \in 1..Len(t) /\ t[k + 1] = s[k]
    BY <1>1, <1>2, <1>3
  <2>2. \A k \in 1..Len(t) : k = 1 \/ k \in 2..Len(t)
    BY <1>1, <1>2
  <2>3. 1 \in 1..Len(t)
    BY <1>1, <1>2
  <2>4. \A x : x \in Elems(t) <=> x = a \/ x \in Elems(s)
    <3>1. \A x \in Elems(t) : x = a \/ x \in Elems(s)
      BY <1>1, <1>2, <1>3, <2>2 DEF Elems
    <3>2. a \in Elems(t)
      BY <1>2, <2>3 DEF Elems
    <3>3. \A x \in Elems(s) : x \in Elems(t)
      BY <1>1, <1>2, <2>1 DEF Elems
    <3> QED
      BY <3>1, <3>2, <3>3
  <2> QED
    BY <2>4
<1>7. First(t) = a
  BY <1>2, <1>4 DEF First
<1> QED
  BY <1>5, <1>6, <1>7 DEF t

\* The first step is done, and steps are put in its place.
Rest == Elems(Tail(todo))
nxt == First(Tail(todo))

\* A step s is taken away from the steps that are left.
Popped(s) ==
    /\ Left = {s} \cup Rest /\ Rest \subseteq Below(s) /\ nxt \in Follow(s, op)
    /\ nxt = "end" <=> Rest = {}
    /\ nxt # "end" => nxt \in Rest /\ Rest \subseteq {nxt} \cup Below(nxt)

LEMMA Rests ==
    ASSUME Shape, todo # << >>
    PROVE  top = Head(todo) /\ top # "end" /\ Popped(top) /\ WellFormed(Tail(todo), op)
<1>1. /\ WellFormed(Tail(todo), op) /\ Left = {Head(todo)} \cup Rest
      /\ Rest \subseteq Below(Head(todo)) /\ nxt \in Follow(Head(todo), op)
  BY Pop DEF Shape, Left, Rest, nxt
<1>2. top = Head(todo) /\ top # "end"
  BY FirstOf DEF Shape, top
<1>3. /\ nxt = "end" <=> Tail(todo) = << >>
      /\ Tail(todo) # << >> => nxt \in Rest /\ Rest \subseteq {nxt} \cup Below(nxt)
  BY <1>1, FirstOf DEF Rest, nxt
<1>4. Tail(todo) = << >> => Rest = {}
  BY EmptyShape DEF Rest
<1> QED
  BY <1>1, <1>2, <1>3, <1>4 DEF Popped

LEMMA Replaced0 ==
    ASSUME Shape, todo # << >>, op' = op, Done
    PROVE  Shape' /\ Left' = Rest /\ top' = nxt
<1>1. todo' = Tail(todo)
  BY DEF Done, Then, Shape, WellFormed
<1> QED
  BY <1>1, Rests DEF Shape, Left, top, Rest, nxt

LEMMA Replaced1 ==
    ASSUME Shape, todo # << >>, op' = op, NEW a \in Steps, Then(<<a>>),
           nxt \in Follow(a, op), Rest \subseteq Below(a)
    PROVE  Shape' /\ Left' = {a} \cup Rest /\ top' = a
<1>1. WellFormed(Tail(todo), op)
  BY Rests
<1>2. /\ WellFormed(<<a>> \o Tail(todo), op) /\ Elems(<<a>> \o Tail(todo)) = {a} \cup Rest
      /\ First(<<a>> \o Tail(todo)) = a
  BY <1>1, Push DEF Rest, nxt
<1> QED
  BY <1>2 DEF Then, Shape, Left, top

\* q is p with the step a before it.
Before(a, p, q) == Len(q) = Len(p) + 1 /\ q[1] = a /\ \A k \in 1..Len(p) : q[k + 1] = p[k]

LEMMA Cons ==
    ASSUME NEW a \in Steps, NEW p \in Seq(Steps), NEW q \in Seq(Steps), NEW s \in Seq(Steps),
           Before(a, p, q)
    PROVE  q \o s = <<a>> \o (p \o s)
<1> USE DEF Before
<1>0. PICK n \in Nat : n = Len(p)
  OBVIOUS
<1>1. <<a>> \in Seq(Steps) /\ Len(<<a>>) = 1 /\ <<a>>[1] = a
  OBVIOUS
<1>2. <<a>> \o p \in Seq(Steps) /\ Len(<<a>> \o p) = n + 1
  BY <1>0, <1>1, ConcatProperties
<1>3. \A k \in 1..n + 1 : (<<a>> \o p)[k] = IF k <= 1 THEN <<a>>[k] ELSE p[k - 1]
  BY <1>0, <1>1, ConcatProperties
<1>4. \A k \in 1..n + 1 : q[k] = (<<a>> \o p)[k]
  <2> SUFFICES ASSUME NEW k \in 1..n + 1
               PROVE  q[k] = (<<a>> \o p)[k]
    OBVIOUS
  <2>1. CASE k = 1
    BY <1>1, <1>3, <2>1
  <2>2. CASE k # 1
    <3> DEFINE m == k - 1
    <3>1. m \in 1..n /\ ~(k <= 1) /\ k = m + 1
      BY <2>2
    <3> QED
      BY <1>0, <1>3, <3>1
  <2> QED
    BY <2>1, <2>2
<1>5. q = <<a>> \o p
  BY <1>0, <1>2, <1>4, SeqEqual
<1> QED
  BY <1>1, <1>5, ConcatAssociative

LEMMA Cons2 ==
    ASSUME NEW a \in Steps, NEW b \in Steps, NEW s \in Seq(Steps)
    PROVE  <<a, b>> \o s = <<a>> \o (<<b>> \o s)
<1> DEFINE p == <<b>>
           q == <<a, b>>
<1>1. /\ p \in Seq(Steps) /\ q \in Seq(Steps) /\ Before(a, p, q)
  BY DEF Before
<1> HIDE DEF p, q
<1>2. q \o s = <<a>> \o (p \o s)
  BY <1>1, Cons
<1> QED
  BY <1>2 DEF p, q

LEMMA Cons3 ==
    ASSUME NEW a \in Steps, NEW b \in Steps, NEW c \in Steps, NEW s \in Seq(Steps)
    PROVE  <<a, b, c>> \o s = <<a>> \o (<<b, c>> \o s)
<1> DEFINE p == <<b, c>>
           q == <<a, b, c>>
<1>1. /\ p \in Seq(Steps) /\ q \in Seq(Steps) /\ Before(a, p, q)
  BY DEF Before
<1> HIDE DEF p, q
<1>2. q \o s = <<a>> \o (p \o s)
  BY <1>1, Cons
<1> QED
  BY <1>2 DEF p, q

LEMMA Cons5 ==
    ASSUME NEW a \in Steps, NEW b \in Steps, NEW c \in Steps, NEW d \in Steps, NEW e \in Steps,
           NEW s \in Seq(Steps)
    PROVE  <<a, b, c, d, e>> \o s = <<a>> \o (<<b>> \o (<<c, d, e>> \o s))
<1> DEFINE p == <<c, d, e>>
           q == <<b, c, d, e>>
           r == <<a, b, c, d, e>>
<1>1. /\ p \in Seq(Steps) /\ q \in Seq(Steps) /\ Before(b, p, q)
  BY DEF Before
<1>2. /\ r \in Seq(Steps) /\ q \in Seq(Steps) /\ Before(a, q, r)
  BY DEF Before
<1> HIDE DEF p, q, r
<1>3. q \o s = <<b>> \o (p \o s)
  BY <1>1, Cons
<1>4. r \o s = <<a>> \o (q \o s)
  BY <1>2, Cons
<1> QED
  BY <1>3, <1>4 DEF p, q, r

LEMMA Replaced2 ==
    ASSUME Shape, todo # << >>, op' = op, NEW a \in Steps, NEW b \in Steps, Then(<<a, b>>),
           nxt \in Follow(b, op), Rest \subseteq Below(b),
           b \in Follow(a, op), {b} \cup Rest \subseteq Below(a)
    PROVE  Shape' /\ Left' = {a} \cup ({b} \cup Rest) /\ top' = a
<1>1. WellFormed(Tail(todo), op) /\ Tail(todo) \in Seq(Steps)
  BY Rests DEF WellFormed
<1>2. /\ WellFormed(<<b>> \o Tail(todo), op) /\ Elems(<<b>> \o Tail(todo)) = {b} \cup Rest
      /\ First(<<b>> \o Tail(todo)) = b
  BY <1>1, Push DEF Rest, nxt
<1>3. /\ WellFormed(<<a>> \o (<<b>> \o Tail(todo)), op)
      /\ Elems(<<a>> \o (<<b>> \o Tail(todo))) = {a} \cup ({b} \cup Rest)
      /\ First(<<a>> \o (<<b>> \o Tail(todo))) = a
  <2>1. \A s : /\ WellFormed(s, op) /\ First(s) = b /\ Elems(s) = {b} \cup Rest
               => /\ WellFormed(<<a>> \o s, op) /\ First(<<a>> \o s) = a
                  /\ Elems(<<a>> \o s) = {a} \cup ({b} \cup Rest)
    BY Push
  <2> QED
    BY <1>2, <2>1
<1>4. <<a>> \o (<<b>> \o Tail(todo)) = <<a, b>> \o Tail(todo)
  BY <1>1, Cons2
<1> QED
  BY <1>3, <1>4 DEF Then, Shape, Left, top

LEMMA Replaced3 ==
    ASSUME Shape, todo # << >>, op' = op, NEW a \in Steps, NEW b \in Steps, NEW c \in Steps,
           Then(<<a, b, c>>),
           nxt \in Follow(c, op), Rest \subseteq Below(c),
           c \in Follow(b, op), {c} \cup Rest \subseteq Below(b),
           b \in Follow(a, op), {b, c} \cup Rest \subseteq Below(a)
    PROVE  Shape' /\ Left' = {a, b, c} \cup Rest /\ top' = a
<1>1. WellFormed(Tail(todo), op) /\ Tail(todo) \in Seq(Steps)
  BY Rests DEF WellFormed
<1> DEFINE r == <<c>> \o Tail(todo)
           s == <<b>> \o r
           t == <<a>> \o s
<1>2. WellFormed(r, op) /\ Elems(r) = {c} \cup Rest /\ First(r) = c
  BY <1>1, Push DEF Rest, nxt
<1>3. <<a, b, c>> \o Tail(todo) = t
  <2> DEFINE u == Tail(todo)
  <2>1. u \in Seq(Steps)
    BY <1>1
  <2> HIDE DEF u
  <2>2. <<a, b, c>> \o u = <<a>> \o (<<b, c>> \o u)
    BY <2>1, Cons3
  <2>3. <<b, c>> \o u = <<b>> \o (<<c>> \o u)
    BY <2>1, Cons2
  <2> QED
    BY <2>2, <2>3 DEF u
<1> HIDE DEF r
<1>4. WellFormed(s, op) /\ Elems(s) = {b, c} \cup Rest /\ First(s) = b
  <2>1. Elems(s) = {b} \cup Elems(r) /\ WellFormed(s, op) /\ First(s) = b
    BY <1>2, Push
  <2> QED
    BY <1>2, <2>1
<1> HIDE DEF s
<1>5. WellFormed(t, op) /\ Elems(t) = {a, b, c} \cup Rest /\ First(t) = a
  <2>1. Elems(t) = {a} \cup Elems(s) /\ WellFormed(t, op) /\ First(t) = a
    BY <1>4, Push
  <2> QED
    BY <1>4, <2>1
<1> QED
  BY <1>3, <1>5 DEF Then, Shape, Left, top

LEMMA Replaced5 ==
    ASSUME Shape, todo # << >>, op' = op,
           Then(<<"stop_timer", "take_down", "reset_unless_done", "free_admin",
             "back_to_default">>),
           nxt \in FollowsDestroy(op), Rest \subseteq Below("back_to_default")
    PROVE  /\ Shape' /\ top' = "stop_timer"
           /\ Left' = {"stop_timer", "take_down", "reset_unless_done", "free_admin",
                       "back_to_default"} \cup Rest
<1>1. WellFormed(Tail(todo), op) /\ Tail(todo) \in Seq(Steps)
  BY Rests DEF WellFormed
<1> DEFINE p == <<"back_to_default">> \o Tail(todo)
           q == <<"free_admin">> \o p
           r == <<"reset_unless_done">> \o q
           s == <<"take_down">> \o r
           t == <<"stop_timer">> \o s
<1>2. WellFormed(p, op) /\ Elems(p) = {"back_to_default"} \cup Rest
        /\ First(p) = "back_to_default"
  BY <1>1, Push DEF Rest, nxt, Steps, Follow
<1>3. <<"stop_timer", "take_down", "reset_unless_done", "free_admin", "back_to_default">>
        \o Tail(todo) = t
  BY <1>1, Cons2, Cons3, Cons5
<1> HIDE DEF p
<1>4. WellFormed(q, op) /\ First(q) = "free_admin"
      /\ Elems(q) = {"free_admin", "back_to_default"} \cup Rest
  <2>1. /\ "free_admin" \in Steps /\ First(p) \in Follow("free_admin", op)
        /\ Elems(p) \subseteq Below("free_admin")
    BY <1>2 DEF Steps, Follow, Below, Teardown, Lower
  <2>2. Elems(q) = {"free_admin"} \cup Elems(p) /\ WellFormed(q, op)
          /\ First(q) = "free_admin"
    BY <1>2, <2>1, Push
  <2> QED
    BY <1>2, <2>2
<1> HIDE DEF q
<1>5. WellFormed(r, op) /\ First(r) = "reset_unless_done"
      /\ Elems(r) = {"reset_unless_done", "free_admin", "back_to_default"} \cup Rest
  <2>1. /\ "reset_unless_done" \in Steps /\ First(q) \in Follow("reset_unless_done", op)
        /\ Elems(q) \subseteq Below("reset_unless_done")
    BY <1>4 DEF Steps, Follow, Below, Teardown, Lower
  <2>2. Elems(r) = {"reset_unless_done"} \cup Elems(q) /\ WellFormed(r, op)
          /\ First(r) = "reset_unless_done"
    BY <1>4, <2>1, Push
  <2> QED
    BY <1>4, <2>2
<1> HIDE DEF r
<1>6. WellFormed(s, op) /\ First(s) = "take_down"
      /\ Elems(s) = {"take_down", "reset_unless_done", "free_admin",
           "back_to_default"} \cup Rest
  <2>1. /\ "take_down" \in Steps /\ First(r) \in Follow("take_down", op)
        /\ Elems(r) \subseteq Below("take_down")
    BY <1>5 DEF Steps, Follow, Below, Teardown, Lower
  <2>2. Elems(s) = {"take_down"} \cup Elems(r) /\ WellFormed(s, op) /\ First(s) = "take_down"
    BY <1>5, <2>1, Push
  <2> QED
    BY <1>5, <2>2
<1> HIDE DEF s
<1>7. WellFormed(t, op) /\ First(t) = "stop_timer"
      /\ Elems(t) = {"stop_timer", "take_down", "reset_unless_done", "free_admin",
           "back_to_default"} \cup Rest
  <2>1. /\ "stop_timer" \in Steps /\ First(s) \in Follow("stop_timer", op)
        /\ Elems(s) \subseteq Below("stop_timer")
    BY <1>6 DEF Steps, Follow, Below, Teardown, Lower
  <2>2. Elems(t) = {"stop_timer"} \cup Elems(s) /\ WellFormed(t, op)
          /\ First(t) = "stop_timer"
    BY <1>6, <2>1, Push
  <2> QED
    BY <1>6, <2>2
<1> QED
  BY <1>3, <1>7 DEF Then, Shape, Left, top

-----------------------------------------------------------------------------
(***************************************************************************)
(* The steps of the holder of rtnl keep the invariant                      *)
(***************************************************************************)
\* Two steps are the first of them before the second, three are the first before the
\* other two.
LEMMA Pair ==
    ASSUME NEW a \in Steps, NEW b \in Steps
    PROVE  <<a, b>> = <<a>> \o <<b>>
<1>1. << >> \in Seq(Steps) /\ <<b>> \o << >> = <<b>> /\ <<a, b>> \o << >> = <<a, b>>
  OBVIOUS
<1> DEFINE e == << >>
<1> HIDE DEF e
<1>2. e \in Seq(Steps) => <<a, b>> \o e = <<a>> \o (<<b>> \o e)
  BY Cons2
<1> QED
  BY <1>1, <1>2 DEF e

LEMMA Triple ==
    ASSUME NEW a \in Steps, NEW b \in Steps, NEW c \in Steps
    PROVE  <<a, b, c>> = <<a>> \o <<b, c>>
<1>1. << >> \in Seq(Steps) /\ <<b, c>> \o << >> = <<b, c>>
        /\ <<a, b, c>> \o << >> = <<a, b, c>>
  OBVIOUS
<1> DEFINE e == << >>
<1> HIDE DEF e
<1>2. e \in Seq(Steps) => <<a, b, c>> \o e = <<a>> \o (<<b, c>> \o e)
  BY Cons3
<1> QED
  BY <1>1, <1>2 DEF e

LEMMA Concats ==
    /\ <<"ena_up">> \o <<"finish">> = <<"ena_up", "finish">>
    /\ <<"ena_down">> \o <<"check_admin", "reset_if_needed">> =
         <<"ena_down", "check_admin", "reset_if_needed">>
    /\ << >> \o <<"check_admin", "reset_if_needed">> = <<"check_admin", "reset_if_needed">>
    /\ << >> \o <<"finish">> = <<"finish">>
<1>1. << >> \in Seq(Steps) /\ \A a, b \in Steps : <<a>> \in Seq(Steps)
        /\ <<a, b>> \in Seq(Steps)
  OBVIOUS
<1>2. \A s \in Seq(Steps) : << >> \o s = s /\ s \o << >> = s
  OBVIOUS
<1>3. {"ena_up", "finish", "ena_down", "check_admin", "reset_if_needed"} \subseteq Steps
  BY DEF Steps
<1>4. <<"ena_up", "finish">> = <<"ena_up">> \o <<"finish">>
  BY <1>3, Pair
<1>5. <<"ena_down", "check_admin", "reset_if_needed">> =
        <<"ena_down">> \o <<"check_admin", "reset_if_needed">>
  BY <1>3, Triple
<1>6. << >> \o <<"check_admin", "reset_if_needed">> = <<"check_admin", "reset_if_needed">>
  BY <1>1, <1>2, <1>3
<1>7. << >> \o <<"finish">> = <<"finish">>
  BY <1>1, <1>2, <1>3
<1> QED
  BY <1>4, <1>5, <1>6, <1>7

LEMMA DownKeeps ==
    ASSUME IInv, Down
    PROVE  IInv'
<1>1. Shape /\ todo # << >> /\ top = "ena_down" /\ op' = op
  BY DEF IInv, Down, At, outside, top, First
<1>2. /\ Shape' /\ Left' = {"napi_disable", "reset_if_triggered"} \cup Rest
           /\ top' = "napi_disable"
      /\ Popped("ena_down")
  <2>1. Popped("ena_down")
    BY <1>1, Rests
  <2>2. /\ "reset_if_triggered" \in Follow("napi_disable", op)
             /\ {"reset_if_triggered"} \cup Rest \subseteq Below("napi_disable")
        /\ nxt \in Follow("reset_if_triggered", op)
             /\ Rest \subseteq Below("reset_if_triggered")
        /\ {"napi_disable", "reset_if_triggered"} \subseteq Steps
    BY <1>1, <2>1 DEF Popped, IInv, Holding, DestroySteps, Below, Follow, FollowsDestroy,
         Lower,
       Teardown, Steps
  <2> QED
    BY <1>1, <2>1, <2>2, Replaced2 DEF Down
<1> USE DEF Down, devVars, localVars, watchVars, outside, userVars, Popped
<1>3. Types'
  <2>1. DEV_UP' \in BOOLEAN
    BY DEF IInv, Types
  <2> QED
    BY <1>1, <2>1 DEF IInv, Types, Reasons, AllOperations, NORMAL
<1>4. Bounds'
  BY BoundsAssumption DEF IInv, Bounds
<1>5. Asking' /\ TornDown' /\ Watching' /\ Whole' /\ Holding' /\ Suspending'
  BY <1>1, <1>2 DEF IInv, Asking, Requesters, Alive, TornDown, Off, Watching, Watched,
     ToBeTornDown, Whole, Holding, DestroySteps, Ordinary, RestoreSteps, Suspending
<1>6. Place'
  BY <1>1, <1>2 DEF IInv, Place, RunsOrStopped, Restoring, Quiet, Running, Stopped, Off
<1>7. UpAndOpen'
  BY <1>1, <1>2 DEF IInv, UpAndOpen, Place, OwedUp, Ordinary, ComesDown, ComingUp, Noted,
     RunsOrStopped, Restoring, Quiet, Running, Stopped, Off, Below, Follow, FollowsDestroy,
     Lower, Teardown
<1> QED
  BY <1>2, <1>3, <1>4, <1>5, <1>6, <1>7 DEF IInv

LEMMA NapiDisableKeeps ==
    ASSUME IInv, NapiDisable
    PROVE  IInv'
<1>1. Shape /\ todo # << >> /\ top = "napi_disable" /\ op' = op
  BY DEF IInv, NapiDisable, At, outside, top, First
<1>2. /\ Shape' /\ Left' = Rest /\ top' = nxt
      /\ Popped("napi_disable")
  BY <1>1, Rests, Replaced0 DEF NapiDisable
<1> USE DEF NapiDisable, flagVars, localVars, watchVars, outside, userVars, Popped
<1>3. Types'
  <2>1. io' \in BOOLEAN
    BY DEF IInv, Types
  <2> QED
    BY <1>1, <2>1 DEF IInv, Types, Reasons, AllOperations, NORMAL
<1>4. Bounds'
  BY BoundsAssumption DEF IInv, Bounds
<1>5. Asking' /\ TornDown' /\ Watching' /\ Whole' /\ Holding' /\ Suspending'
  BY <1>1, <1>2 DEF IInv, Asking, Requesters, Alive, TornDown, Off, Watching, Watched,
     ToBeTornDown, Whole, Holding, DestroySteps, Ordinary, RestoreSteps, Suspending
<1>6. Place'
  BY <1>1, <1>2 DEF IInv, Place, RunsOrStopped, Restoring, Quiet, Running, Stopped, Off,
     Below, Follow, FollowsDestroy, Lower, Teardown
<1>7. UpAndOpen'
  BY <1>1, <1>2 DEF IInv, UpAndOpen, OwedUp, Ordinary, ComesDown, ComingUp, Noted, Below,
     Follow, FollowsDestroy, Lower, Teardown
<1> QED
  BY <1>2, <1>3, <1>4, <1>5, <1>6, <1>7 DEF IInv

LEMMA ResetIfTriggeredKeeps ==
    ASSUME IInv, ResetIfTriggered
    PROVE  IInv'
<1>1. Shape /\ todo # << >> /\ top = "reset_if_triggered" /\ op' = op
  BY DEF IInv, ResetIfTriggered, At, outside, top, First
<1>2. /\ Shape' /\ Left' = Rest /\ top' = nxt
      /\ Popped("reset_if_triggered")
  BY <1>1, Rests, Replaced0 DEF ResetIfTriggered
<1> USE DEF ResetIfTriggered, flagVars, localVars, watchVars, outside, userVars, Popped
<1>3. Types'
  BY <1>1 DEF IInv, Types, Reasons, AllOperations, NORMAL
<1>4. Bounds'
  BY BoundsAssumption DEF IInv, Bounds
<1>5. Asking' /\ TornDown' /\ Watching' /\ Whole' /\ Holding' /\ Suspending'
  BY <1>1, <1>2 DEF IInv, Asking, Requesters, Alive, TornDown, Off, Watching, Watched,
     ToBeTornDown, Whole, Holding, DestroySteps, Ordinary, RestoreSteps, Suspending
<1>6. Place'
  BY <1>1, <1>2 DEF IInv, Place, Types, RunsOrStopped, Restoring, Quiet, Running, Stopped,
     Off, Reasons, AllOperations, NORMAL, Below, Follow, FollowsDestroy, Lower, Teardown
<1>7. UpAndOpen'
  BY <1>1, <1>2 DEF IInv, UpAndOpen, OwedUp, Ordinary, ComesDown, ComingUp, Noted, Below,
     Follow, FollowsDestroy, Lower, Teardown
<1> QED
  BY <1>2, <1>3, <1>4, <1>5, <1>6, <1>7 DEF IInv

LEMMA UpKeeps ==
    ASSUME IInv, Up
    PROVE  IInv'
<1>1. Shape /\ todo # << >> /\ top = "ena_up" /\ op' = op
  BY DEF IInv, Up, At, outside, top, First
<1>2. /\ Shape' /\ Left' = {"set_DEV_UP"} \cup Rest /\ top' = "set_DEV_UP"
      /\ Popped("ena_up")
  <2>1. Popped("ena_up")
    BY <1>1, Rests
  <2>2. /\ nxt \in Follow("set_DEV_UP", op) /\ Rest \subseteq Below("set_DEV_UP")
        /\ {"set_DEV_UP"} \subseteq Steps
    BY <1>1, <2>1 DEF Popped, IInv, Holding, DestroySteps, Below, Follow, FollowsDestroy,
         Lower,
       Teardown, Steps
  <2> QED
    BY <1>1, <2>1, <2>2, Replaced1 DEF Up
<1> USE DEF Up, CanUp, flagVars, watchVars, outside, userVars, Popped
<1>3. Types'
  <2>1. io' \in BOOLEAN /\ upFailed' \in BOOLEAN
    BY DEF IInv, Types
  <2> QED
    BY <1>1, <2>1 DEF IInv, Types, Reasons, AllOperations, NORMAL
<1>4. Bounds'
  BY BoundsAssumption DEF IInv, Bounds
<1>5. Asking' /\ TornDown' /\ Watching' /\ Whole' /\ Holding' /\ Suspending'
  BY <1>1, <1>2 DEF IInv, Asking, Requesters, Alive, TornDown, Off, Watching, Watched,
     ToBeTornDown, Whole, Holding, DestroySteps, Ordinary, RestoreSteps, Suspending
<1>6. Place'
  BY <1>1, <1>2 DEF IInv, Place, RunsOrStopped, Restoring, Quiet, Running, Stopped, Off
<1>7. UpAndOpen'
  BY <1>1, <1>2 DEF IInv, UpAndOpen, OwedUp, Ordinary, ComesDown, ComingUp, Noted
<1> QED
  BY <1>2, <1>3, <1>4, <1>5, <1>6, <1>7 DEF IInv

LEMMA UpFailsKeeps ==
    ASSUME IInv, UpFails
    PROVE  IInv'
<1>1. Shape /\ todo # << >> /\ top = "ena_up" /\ op' = op
  BY DEF IInv, UpFails, At, outside, top, First
<1>2. /\ Shape' /\ Left' = Rest /\ top' = nxt
      /\ Popped("ena_up")
  BY <1>1, Rests, Replaced0 DEF UpFails
<1> USE DEF UpFails, CanUp, MayFail, flagVars, devVars, watchVars, outside, userVars, Popped
<1>3. Types'
  BY <1>1 DEF IInv, Types, Reasons, AllOperations, NORMAL
<1>4. Bounds'
  BY BoundsAssumption DEF IInv, Bounds
<1>5. Asking' /\ TornDown' /\ Watching' /\ Whole' /\ Holding' /\ Suspending'
  BY <1>1, <1>2 DEF IInv, Asking, Requesters, Alive, TornDown, Off, Watching, Watched,
     ToBeTornDown, Whole, Holding, DestroySteps, Ordinary, RestoreSteps, Suspending
<1>6. Place'
  <2>1. CASE nxt = "finish"
    <3>1. "finish" \in Left /\ top' = "finish"
      BY <1>2, <2>1
    <3>2. upFailed' = TRUE /\ DEV_UP' = FALSE /\ io' = FALSE /\ Restoring
      BY <1>1, <3>1 DEF IInv, Types, Place, Restoring, Quiet, Off
    <3> QED
      BY <3>1, <3>2 DEF Place, RunsOrStopped, Restoring, Quiet, Running, Stopped, Off
  <2>2. CASE nxt \in {"opened", "end"}
    <3>1. Below("opened") = {}
      BY DEF Below
    <3>2. nxt = "opened" => Rest \subseteq {"opened"}
      BY <1>2, <3>1
    <3>3. "finish" \notin Left
      BY <1>2, <2>2, <3>2
    <3> QED
      BY <1>1, <1>2, <2>2, <3>3 DEF IInv, Place, RunsOrStopped, Restoring, Quiet, Running,
         Stopped, Off, Below, Follow, FollowsDestroy, Lower, Teardown
  <2> QED
    BY <1>2, <2>1, <2>2 DEF Follow
<1>7. UpAndOpen'
  BY <1>1, <1>2 DEF IInv, UpAndOpen, Place, OwedUp, Ordinary, ComesDown, ComingUp, Noted,
     RunsOrStopped, Restoring, Quiet, Running, Stopped, Off, Below, Follow, FollowsDestroy,
     Lower, Teardown
<1> QED
  BY <1>2, <1>3, <1>4, <1>5, <1>6, <1>7 DEF IInv

LEMMA SetDevUpKeeps ==
    ASSUME IInv, SetDevUp
    PROVE  IInv'
<1>1. Shape /\ todo # << >> /\ top = "set_DEV_UP" /\ op' = op
  BY DEF IInv, SetDevUp, At, outside, top, First
<1>2. /\ Shape' /\ Left' = Rest /\ top' = nxt
      /\ Popped("set_DEV_UP")
  BY <1>1, Rests, Replaced0 DEF SetDevUp
<1> USE DEF SetDevUp, devVars, localVars, watchVars, outside, userVars, Popped
<1>3. Types'
  BY <1>1 DEF IInv, Types, Reasons, AllOperations, NORMAL
<1>4. Bounds'
  BY BoundsAssumption DEF IInv, Bounds
<1>5. Asking' /\ TornDown' /\ Watching' /\ Whole' /\ Holding' /\ Suspending'
  BY <1>1, <1>2 DEF IInv, Asking, Requesters, Alive, TornDown, Off, Watching, Watched,
     ToBeTornDown, Whole, Holding, DestroySteps, Ordinary, RestoreSteps, Suspending
<1>6. Place'
  <2>1. CASE nxt = "finish"
    <3>1. "finish" \in Left /\ top' = "finish"
      BY <1>2, <2>1
    <3>2. upFailed' = FALSE /\ DEV_UP' = TRUE /\ io' = TRUE /\ Restoring
      BY <1>1, <3>1 DEF IInv, Types, Place, Restoring, Quiet, Off
    <3> QED
      BY <3>1, <3>2 DEF Place, RunsOrStopped, Restoring, Quiet, Running, Stopped, Off
  <2>2. CASE nxt \in {"opened", "end"}
    <3>1. Below("opened") = {}
      BY DEF Below
    <3>2. nxt = "opened" => Rest \subseteq {"opened"}
      BY <1>2, <3>1
    <3>3. "finish" \notin Left
      BY <1>2, <2>2, <3>2
    <3> QED
      BY <1>1, <1>2, <2>2, <3>3 DEF IInv, Place, RunsOrStopped, Restoring, Quiet, Running,
         Stopped, Off, Below, Follow, FollowsDestroy, Lower, Teardown
  <2> QED
    BY <1>2, <2>1, <2>2 DEF Follow
<1>7. UpAndOpen'
  BY <1>1, <1>2 DEF IInv, UpAndOpen, OwedUp, Ordinary, ComesDown, ComingUp, Noted, Below,
     Follow, FollowsDestroy, Lower, Teardown
<1> QED
  BY <1>2, <1>3, <1>4, <1>5, <1>6, <1>7 DEF IInv

LEMMA CloseKeeps ==
    ASSUME IInv, Close
    PROVE  IInv'
<1>1. Shape /\ todo # << >> /\ top = "ena_close" /\ op' = op
  BY DEF IInv, Close, At, outside, top, First
<1>2. /\ Shape'
      /\ \/ DEVICE_RUNNING /\ DEV_UP
              /\ Left' = {"ena_down", "check_admin", "reset_if_needed"} \cup Rest
                   /\ top' = "ena_down"
         \/ DEVICE_RUNNING /\ ~DEV_UP
              /\ Left' = {"check_admin", "reset_if_needed"} \cup Rest /\ top' = "check_admin"
         \/ ~DEVICE_RUNNING /\ Left' = Rest /\ top' = nxt
      /\ Popped("ena_close")
  <2>1. Popped("ena_close")
    BY <1>1, Rests
  <2>2. /\ "check_admin" \in Follow("ena_down", op)
             /\ {"check_admin", "reset_if_needed"} \cup Rest \subseteq Below("ena_down")
        /\ "reset_if_needed" \in Follow("check_admin", op)
             /\ {"reset_if_needed"} \cup Rest \subseteq Below("check_admin")
        /\ nxt \in Follow("reset_if_needed", op) /\ Rest \subseteq Below("reset_if_needed")
        /\ "reset_if_needed" \in Follow("check_admin", op)
             /\ {"reset_if_needed"} \cup Rest \subseteq Below("check_admin")
        /\ nxt \in Follow("reset_if_needed", op) /\ Rest \subseteq Below("reset_if_needed")
        /\ {"check_admin", "ena_down", "reset_if_needed"} \subseteq Steps
    BY <1>1, <2>1 DEF Popped, IInv, Holding, DestroySteps, Below, Follow, FollowsDestroy,
         Lower,
       Teardown, Steps
  <2>3. CASE DEVICE_RUNNING /\ DEV_UP
    <3>1. Then(<<"ena_down", "check_admin", "reset_if_needed">>)
      BY <2>3, Concats DEF Close, When
    <3> QED
      BY <1>1, <2>1, <2>2, <2>3, <3>1, Replaced3
  <2>4. CASE DEVICE_RUNNING /\ ~DEV_UP
    <3>1. Then(<<"check_admin", "reset_if_needed">>)
      BY <2>4, Concats DEF Close, When
    <3> QED
      BY <1>1, <2>1, <2>2, <2>4, <3>1, Replaced2
  <2>5. CASE ~DEVICE_RUNNING
    <3>1. Then(<< >>)
      BY <2>5, Concats DEF Close, When
    <3> QED
      BY <1>1, <2>1, <2>2, <2>5, <3>1, Replaced0 DEF Done
  <2> QED
    BY <2>3, <2>4, <2>5 DEF IInv, Types
<1> USE DEF Close, flagVars, devVars, localVars, watchVars, outside, userVars, Popped
<1>3. Types'
  BY <1>1 DEF IInv, Types, Reasons, AllOperations, NORMAL
<1>4. Bounds'
  BY BoundsAssumption DEF IInv, Bounds
<1>5. Asking' /\ TornDown' /\ Watching' /\ Whole' /\ Holding' /\ Suspending'
  BY <1>1, <1>2 DEF IInv, Asking, Requesters, Alive, TornDown, Off, Watching, Watched,
     ToBeTornDown, Whole, Holding, DestroySteps, Ordinary, RestoreSteps, Suspending
<1>6. Place'
  BY <1>1, <1>2 DEF IInv, Place, RunsOrStopped, Restoring, Quiet, Running, Stopped, Off,
     Below, Follow, FollowsDestroy, Lower, Teardown
<1>7. UpAndOpen'
  BY <1>1, <1>2 DEF IInv, UpAndOpen, Place, OwedUp, Ordinary, ComesDown, ComingUp, Noted,
     RunsOrStopped, Restoring, Quiet, Running, Stopped, Off, Below, Follow, FollowsDestroy,
     Lower, Teardown
<1> QED
  BY <1>2, <1>3, <1>4, <1>5, <1>6, <1>7 DEF IInv

LEMMA CheckAdminKeeps ==
    ASSUME IInv, CheckAdmin
    PROVE  IInv'
<1>1. Shape /\ todo # << >> /\ top = "check_admin" /\ op' = op
  BY DEF IInv, CheckAdmin, At, outside, top, First
<1>2. /\ Shape' /\ Left' = Rest /\ top' = nxt
      /\ Popped("check_admin")
  BY <1>1, Rests, Replaced0 DEF CheckAdmin
<1> USE DEF CheckAdmin, MayLock, devVars, localVars, watchVars, outside, NORMAL, userVars,
   Popped
<1>3. Types'
  <2>1. TRIGGER_RESET' \in BOOLEAN
    BY DEF IInv, Types
  <2> QED
    BY <1>1, <2>1 DEF IInv, Types, Reasons, AllOperations
<1>4. Bounds'
  BY BoundsAssumption DEF IInv, Bounds
<1>5. Asking' /\ TornDown' /\ Watching' /\ Whole' /\ Holding' /\ Suspending'
  BY <1>1, <1>2 DEF IInv, Asking, Requesters, Alive, TornDown, Off, Watching, Watched,
     ToBeTornDown, Whole, Holding, DestroySteps, Ordinary, RestoreSteps, Suspending, Place,
     RunsOrStopped, Restoring, Quiet, Running, Stopped
<1>6. Place'
  BY <1>1, <1>2 DEF IInv, Place, RunsOrStopped, Restoring, Quiet, Running, Stopped, Off,
     Below, Follow, FollowsDestroy, Lower, Teardown
<1>7. UpAndOpen'
  BY <1>1, <1>2 DEF IInv, UpAndOpen, OwedUp, Ordinary, ComesDown, ComingUp, Noted, Below,
     Follow, FollowsDestroy, Lower, Teardown
<1> QED
  BY <1>2, <1>3, <1>4, <1>5, <1>6, <1>7 DEF IInv

LEMMA ResetIfNeededKeeps ==
    ASSUME IInv, ResetIfNeeded
    PROVE  IInv'
<1>1. Shape /\ todo # << >> /\ top = "reset_if_needed" /\ op' = op
  BY DEF IInv, ResetIfNeeded, At, outside, top, First
<1>2. /\ Shape'
      /\ \/ TRIGGER_RESET
              /\ Left' = {"ena_destroy_device", "ena_restore_device"} \cup Rest
                   /\ top' = "ena_destroy_device"
         \/ ~TRIGGER_RESET /\ Left' = Rest /\ top' = nxt
      /\ Popped("reset_if_needed")
  <2>1. Popped("reset_if_needed")
    BY <1>1, Rests
  <2>2. /\ "ena_restore_device" \in Follow("ena_destroy_device", op)
             /\ {"ena_restore_device"} \cup Rest \subseteq Below("ena_destroy_device")
        /\ nxt \in Follow("ena_restore_device", op)
             /\ Rest \subseteq Below("ena_restore_device")
        /\ {"ena_destroy_device", "ena_restore_device"} \subseteq Steps
    BY <1>1, <2>1 DEF Popped, IInv, Holding, DestroySteps, Below, Follow, FollowsDestroy,
         Lower,
       Teardown, Steps
  <2>3. CASE TRIGGER_RESET
    <3>1. Then(<<"ena_destroy_device", "ena_restore_device">>)
      BY <2>3 DEF ResetIfNeeded, When
    <3> QED
      BY <1>1, <2>1, <2>2, <2>3, <3>1, Replaced2
  <2>4. CASE ~TRIGGER_RESET
    <3>1. Then(<< >>)
      BY <2>4 DEF ResetIfNeeded, When
    <3> QED
      BY <1>1, <2>1, <2>2, <2>4, <3>1, Replaced0 DEF Done
  <2> QED
    BY <2>3, <2>4 DEF IInv, Types
<1> USE DEF ResetIfNeeded, flagVars, devVars, localVars, watchVars, outside, userVars,
   Popped
<1>3. Types'
  BY <1>1 DEF IInv, Types, Reasons, AllOperations, NORMAL
<1>4. Bounds'
  BY BoundsAssumption DEF IInv, Bounds
<1>5. Asking' /\ TornDown' /\ Watching' /\ Whole' /\ Holding' /\ Suspending'
  BY <1>1, <1>2 DEF IInv, Asking, Requesters, Alive, TornDown, Off, Watching, Watched,
     ToBeTornDown, Whole, Holding, DestroySteps, Ordinary, RestoreSteps, Suspending
<1>6. Place'
  BY <1>1, <1>2 DEF IInv, Place, RunsOrStopped, Restoring, Quiet, Running, Stopped, Off,
     Below, Follow, FollowsDestroy, Lower, Teardown
<1>7. UpAndOpen'
  BY <1>1, <1>2 DEF IInv, UpAndOpen, OwedUp, Ordinary, ComesDown, ComingUp, Noted, Below,
     Follow, FollowsDestroy, Lower, Teardown
<1> QED
  BY <1>2, <1>3, <1>4, <1>5, <1>6, <1>7 DEF IInv

LEMMA DestroyKeeps ==
    ASSUME IInv, Destroy
    PROVE  IInv'
<1>1. Shape /\ todo # << >> /\ top = "ena_destroy_device" /\ op' = op
  BY DEF IInv, Destroy, At, outside, top, First
<1>2. /\ Shape'
      /\ \/ DEVICE_RUNNING
              /\ Left' = {"stop_timer", "take_down", "reset_unless_done", "free_admin",
                   "back_to_default"} \cup Rest /\ top' = "stop_timer"
         \/ ~DEVICE_RUNNING /\ Left' = Rest /\ top' = nxt
      /\ Popped("ena_destroy_device")
  <2>1. Popped("ena_destroy_device")
    BY <1>1, Rests
  <2>2. /\ "take_down" \in Follow("stop_timer", op)
             /\ {"take_down", "reset_unless_done", "free_admin",
                  "back_to_default"} \cup Rest \subseteq Below("stop_timer")
        /\ "reset_unless_done" \in Follow("take_down", op)
             /\ {"reset_unless_done", "free_admin",
                  "back_to_default"} \cup Rest \subseteq Below("take_down")
        /\ "free_admin" \in Follow("reset_unless_done", op)
             /\ {"free_admin",
                  "back_to_default"} \cup Rest \subseteq Below("reset_unless_done")
        /\ "back_to_default" \in Follow("free_admin", op)
             /\ {"back_to_default"} \cup Rest \subseteq Below("free_admin")
        /\ nxt \in Follow("back_to_default", op) /\ Rest \subseteq Below("back_to_default")
        /\ {"back_to_default", "free_admin", "reset_unless_done", "stop_timer",
             "take_down"} \subseteq Steps
    BY <1>1, <2>1 DEF Popped, IInv, Holding, DestroySteps, Below, Follow, FollowsDestroy,
         Lower,
       Teardown, Steps
  <2>3. CASE DEVICE_RUNNING
    <3>1. Then(<<"stop_timer", "take_down", "reset_unless_done", "free_admin",
            "back_to_default">>)
      BY <2>3 DEF Destroy, When
    <3> QED
      BY <1>1, <2>1, <2>2, <2>3, <3>1, Replaced5 DEF Follow
  <2>4. CASE ~DEVICE_RUNNING
    <3>1. Then(<< >>)
      BY <2>4 DEF Destroy, When
    <3> QED
      BY <1>1, <2>1, <2>2, <2>4, <3>1, Replaced0 DEF Done
  <2> QED
    BY <2>3, <2>4 DEF IInv, Types
<1> USE DEF Destroy, flagVars, devVars, localVars, watchVars, outside, userVars, Popped
<1>3. Types'
  BY <1>1 DEF IInv, Types, Reasons, AllOperations, NORMAL
<1>4. Bounds'
  BY BoundsAssumption DEF IInv, Bounds
<1>5. Asking' /\ TornDown' /\ Watching' /\ Whole' /\ Holding' /\ Suspending'
  BY <1>1, <1>2 DEF IInv, Asking, Requesters, Alive, TornDown, Off, Watching, Watched,
     ToBeTornDown, Whole, Place, RunsOrStopped, Restoring, Quiet, Running, Stopped, Holding,
     DestroySteps, Ordinary, RestoreSteps, Suspending
<1>6. Place'
  BY <1>1, <1>2 DEF IInv, Place, RunsOrStopped, Restoring, Quiet, Running, Stopped, Off,
     Below, Follow, FollowsDestroy, Lower, Teardown
<1>7. UpAndOpen'
  BY <1>1, <1>2 DEF IInv, UpAndOpen, OwedUp, Ordinary, ComesDown, ComingUp, Noted, Below,
     Follow, FollowsDestroy, Lower, Teardown
<1> QED
  BY <1>2, <1>3, <1>4, <1>5, <1>6, <1>7 DEF IInv

LEMMA StopTimerKeeps ==
    ASSUME IInv, StopTimer
    PROVE  IInv'
<1>1. Shape /\ todo # << >> /\ top = "stop_timer" /\ op' = op
  BY DEF IInv, StopTimer, At, outside, top, First
<1>2. /\ Shape' /\ Left' = Rest /\ top' = nxt
      /\ Popped("stop_timer")
  BY <1>1, Rests, Replaced0 DEF StopTimer
<1> USE DEF StopTimer, TimerMayStop, flagVars, devVars, localVars, outside, userVars, Popped
<1>3. Types'
  BY <1>1 DEF IInv, Types, Reasons, AllOperations, NORMAL
<1>4. Bounds'
  BY BoundsAssumption DEF IInv, Bounds
<1>5. Asking' /\ TornDown' /\ Watching' /\ Whole' /\ Holding' /\ Suspending'
  BY <1>1, <1>2 DEF IInv, Asking, Requesters, Alive, TornDown, Off, Watching, Place, Types,
     Watched, ToBeTornDown, RunsOrStopped, Restoring, Quiet, Running, Stopped, Reasons,
     AllOperations, NORMAL, Below, Follow, FollowsDestroy, Lower, Teardown, Whole, Holding,
     DestroySteps, Ordinary, RestoreSteps, Suspending
<1>6. Place'
  BY <1>1, <1>2 DEF IInv, Place, RunsOrStopped, Restoring, Quiet, Running, Stopped, Off,
     Below, Follow, FollowsDestroy, Lower, Teardown
<1>7. UpAndOpen'
  BY <1>1, <1>2 DEF IInv, UpAndOpen, OwedUp, Ordinary, ComesDown, ComingUp, Noted, Below,
     Follow, FollowsDestroy, Lower, Teardown
<1> QED
  BY <1>2, <1>3, <1>4, <1>5, <1>6, <1>7 DEF IInv

LEMMA TakeDownKeeps ==
    ASSUME IInv, TakeDown
    PROVE  IInv'
<1>1. Shape /\ todo # << >> /\ top = "take_down" /\ op' = op
  BY DEF IInv, TakeDown, At, outside, top, First
<1>2. /\ Shape'
      /\ \/ DEV_UP /\ Left' = {"ena_down"} \cup Rest /\ top' = "ena_down"
         \/ ~DEV_UP /\ Left' = Rest /\ top' = nxt
      /\ Popped("take_down")
  <2>1. Popped("take_down")
    BY <1>1, Rests
  <2>2. /\ nxt \in Follow("ena_down", op) /\ Rest \subseteq Below("ena_down")
        /\ {"ena_down"} \subseteq Steps
    BY <1>1, <2>1 DEF Popped, IInv, Holding, DestroySteps, Below, Follow, FollowsDestroy,
         Lower,
       Teardown, Steps
  <2>3. CASE DEV_UP
    <3>1. Then(<<"ena_down">>)
      BY <2>3 DEF TakeDown, When
    <3> QED
      BY <1>1, <2>1, <2>2, <2>3, <3>1, Replaced1
  <2>4. CASE ~DEV_UP
    <3>1. Then(<< >>)
      BY <2>4 DEF TakeDown, When
    <3> QED
      BY <1>1, <2>1, <2>2, <2>4, <3>1, Replaced0 DEF Done
  <2> QED
    BY <2>3, <2>4 DEF IInv, Types
<1> USE DEF TakeDown, UpToNote, graceful, flagVars, watchVars, outside, userVars, Popped
<1>3. Types'
  BY <1>1 DEF IInv, Types, Reasons, AllOperations, NORMAL
<1>4. Bounds'
  BY BoundsAssumption DEF IInv, Bounds
<1>5. Asking' /\ TornDown' /\ Watching' /\ Whole' /\ Holding' /\ Suspending'
  BY <1>1, <1>2 DEF IInv, Asking, Requesters, Alive, TornDown, Off, Watching, Watched,
     ToBeTornDown, Whole, Holding, DestroySteps, Ordinary, RestoreSteps, Suspending
<1>6. Place'
  BY <1>1, <1>2 DEF IInv, Place, RunsOrStopped, Restoring, Quiet, Running, Stopped, Off,
     Below, Follow, FollowsDestroy, Lower, Teardown
<1>7. UpAndOpen'
  BY <1>1, <1>2 DEF IInv, UpAndOpen, Place, TornDown, OwedUp, Ordinary, ComesDown, ComingUp,
     Noted, RunsOrStopped, Restoring, Quiet, Running, Stopped, Off, Below, Follow,
     FollowsDestroy, Lower, Teardown
<1> QED
  BY <1>2, <1>3, <1>4, <1>5, <1>6, <1>7 DEF IInv

LEMMA ResetUnlessDoneKeeps ==
    ASSUME IInv, ResetUnlessDone
    PROVE  IInv'
<1>1. Shape /\ todo # << >> /\ top = "reset_unless_done" /\ op' = op
  BY DEF IInv, ResetUnlessDone, At, outside, top, First
<1>2. /\ Shape' /\ Left' = Rest /\ top' = nxt
      /\ Popped("reset_unless_done")
  BY <1>1, Rests, Replaced0 DEF ResetUnlessDone
<1> USE DEF ResetUnlessDone, flagVars, localVars, watchVars, outside, userVars, Popped
<1>3. Types'
  BY <1>1 DEF IInv, Types, Reasons, AllOperations, NORMAL
<1>4. Bounds'
  BY BoundsAssumption DEF IInv, Bounds
<1>5. Asking' /\ TornDown' /\ Watching' /\ Whole' /\ Holding' /\ Suspending'
  BY <1>1, <1>2 DEF IInv, Asking, Requesters, Alive, TornDown, Off, Watching, Watched,
     ToBeTornDown, Whole, Holding, DestroySteps, Ordinary, RestoreSteps, Suspending
<1>6. Place'
  BY <1>1, <1>2 DEF IInv, Place, RunsOrStopped, Restoring, Quiet, Running, Stopped, Off,
     Below, Follow, FollowsDestroy, Lower, Teardown
<1>7. UpAndOpen'
  BY <1>1, <1>2 DEF IInv, UpAndOpen, OwedUp, Ordinary, ComesDown, ComingUp, Noted, Below,
     Follow, FollowsDestroy, Lower, Teardown
<1> QED
  BY <1>2, <1>3, <1>4, <1>5, <1>6, <1>7 DEF IInv

LEMMA FreeAdminKeeps ==
    ASSUME IInv, FreeAdmin
    PROVE  IInv'
<1>1. Shape /\ todo # << >> /\ top = "free_admin" /\ op' = op
  BY DEF IInv, FreeAdmin, At, outside, top, First
<1>2. /\ Shape' /\ Left' = Rest /\ top' = nxt
      /\ Popped("free_admin")
  BY <1>1, Rests, Replaced0 DEF FreeAdmin
<1> USE DEF FreeAdmin, flagVars, localVars, watchVars, outside, userVars, Popped
<1>3. Types'
  <2>1. mgmnt_irq' \in BOOLEAN /\ rings' \in BOOLEAN
    BY DEF IInv, Types
  <2> QED
    BY <1>1, <2>1 DEF IInv, Types, Reasons, AllOperations, NORMAL
<1>4. Bounds'
  BY BoundsAssumption DEF IInv, Bounds
<1>5. Asking' /\ TornDown' /\ Watching' /\ Whole' /\ Holding' /\ Suspending'
  BY <1>1, <1>2 DEF IInv, Asking, Requesters, Alive, TornDown, Off, Watching, Watched,
     ToBeTornDown, Whole, Holding, DestroySteps, Ordinary, RestoreSteps, Suspending
<1>6. Place'
  BY <1>1, <1>2 DEF IInv, Place, RunsOrStopped, Restoring, Quiet, Running, Stopped, Off,
     Below, Follow, FollowsDestroy, Lower, Teardown
<1>7. UpAndOpen'
  BY <1>1, <1>2 DEF IInv, UpAndOpen, OwedUp, Ordinary, ComesDown, ComingUp, Noted, Below,
     Follow, FollowsDestroy, Lower, Teardown
<1> QED
  BY <1>2, <1>3, <1>4, <1>5, <1>6, <1>7 DEF IInv

LEMMA BackToDefaultKeeps ==
    ASSUME IInv, BackToDefault
    PROVE  IInv'
<1>1. Shape /\ todo # << >> /\ top = "back_to_default" /\ op' = op
  BY DEF IInv, BackToDefault, At, outside, top, First
<1>2. /\ Shape' /\ Left' = Rest /\ top' = nxt
      /\ Popped("back_to_default")
  BY <1>1, Rests, Replaced0 DEF BackToDefault
<1> USE DEF BackToDefault, DefaultReason, devVars, localVars, watchVars, outside, NORMAL,
   userVars, Popped
<1>3. Types'
  <2>1. TRIGGER_RESET' \in BOOLEAN /\ DEVICE_RUNNING' \in BOOLEAN
    BY DEF IInv, Types
  <2> QED
    BY <1>1, <2>1 DEF IInv, Types, Reasons, AllOperations
<1>4. Bounds'
  BY BoundsAssumption DEF IInv, Bounds
<1>5. Asking' /\ TornDown' /\ Watching' /\ Whole' /\ Holding' /\ Suspending'
  BY <1>1, <1>2 DEF IInv, Asking, Requesters, Alive, TornDown, Off, Below, Follow,
     FollowsDestroy, Lower, Teardown, Watching, Watched, ToBeTornDown, Whole, Holding,
     Place, Types, DestroySteps, Ordinary, RestoreSteps, RunsOrStopped, Restoring, Quiet,
     Running, Stopped, Reasons, AllOperations, Suspending
<1>6. Place'
  BY <1>1, <1>2 DEF IInv, Place, TornDown, RunsOrStopped, Restoring, Quiet, Running,
     Stopped, Off, Below, Follow, FollowsDestroy, Lower, Teardown
<1>7. UpAndOpen'
  BY <1>1, <1>2 DEF IInv, UpAndOpen, OwedUp, Ordinary, ComesDown, ComingUp, Noted, Below,
     Follow, FollowsDestroy, Lower, Teardown
<1> QED
  BY <1>2, <1>3, <1>4, <1>5, <1>6, <1>7 DEF IInv

LEMMA DeviceInitKeeps ==
    ASSUME IInv, DeviceInit
    PROVE  IInv'
<1>1. Shape /\ todo # << >> /\ top = "ena_restore_device" /\ op' = op
  BY DEF IInv, DeviceInit, At, outside, top, First
<1>2. /\ Shape' /\ Left' = {"enable_msix"} \cup Rest /\ top' = "enable_msix"
      /\ Popped("ena_restore_device")
  <2>1. Popped("ena_restore_device")
    BY <1>1, Rests
  <2>2. /\ nxt \in Follow("enable_msix", op) /\ Rest \subseteq Below("enable_msix")
        /\ {"enable_msix"} \subseteq Steps
    BY <1>1, <2>1 DEF Popped, IInv, Holding, DestroySteps, Below, Follow, FollowsDestroy,
         Lower,
       Teardown, Steps
  <2> QED
    BY <1>1, <2>1, <2>2, Replaced1 DEF DeviceInit
<1> USE DEF DeviceInit, flagVars, localVars, watchVars, outside, userVars, Popped
<1>3. Types'
  <2>1. events' \in BOOLEAN /\ rings' \in BOOLEAN /\ running_state' \in BOOLEAN
    BY DEF IInv, Types
  <2> QED
    BY <1>1, <2>1 DEF IInv, Types, Reasons, AllOperations, NORMAL
<1>4. Bounds'
  BY BoundsAssumption DEF IInv, Bounds
<1>5. Asking' /\ TornDown' /\ Watching' /\ Whole' /\ Holding' /\ Suspending'
  BY <1>1, <1>2 DEF IInv, Asking, Requesters, Alive, TornDown, Off, Watching, Watched,
     ToBeTornDown, Whole, Holding, DestroySteps, Ordinary, RestoreSteps, Suspending
<1>6. Place'
  BY <1>1, <1>2 DEF IInv, Place, RunsOrStopped, Restoring, Quiet, Running, Stopped, Off
<1>7. UpAndOpen'
  BY <1>1, <1>2 DEF IInv, UpAndOpen, OwedUp, Ordinary, ComesDown, ComingUp, Noted
<1> QED
  BY <1>2, <1>3, <1>4, <1>5, <1>6, <1>7 DEF IInv

LEMMA DeviceInitFailsKeeps ==
    ASSUME IInv, DeviceInitFails
    PROVE  IInv'
<1>1. Shape /\ todo # << >> /\ top = "ena_restore_device" /\ op' = op
  BY DEF IInv, DeviceInitFails, At, outside, top, First
<1>2. /\ Shape' /\ Left' = Rest /\ top' = nxt
      /\ Popped("ena_restore_device")
  BY <1>1, Rests, Replaced0 DEF DeviceInitFails
<1> USE DEF DeviceInitFails, MayFail, watchVars, outside, userVars, Popped
<1>3. Types'
  <2>1. events' \in BOOLEAN /\ rings' \in BOOLEAN /\ running_state' \in BOOLEAN
          /\ DEVICE_RUNNING' \in BOOLEAN /\ restoreFailed' \in BOOLEAN
    BY DEF IInv, Types
  <2> QED
    BY <1>1, <2>1 DEF IInv, Types, Reasons, AllOperations, NORMAL
<1>4. Bounds'
  BY BoundsAssumption DEF IInv, Bounds
<1>5. Asking' /\ TornDown' /\ Watching' /\ Whole' /\ Holding' /\ Suspending'
  BY <1>1, <1>2 DEF IInv, Asking, Requesters, Alive, TornDown, Off, Watching, Watched,
     ToBeTornDown, Whole, Holding, DestroySteps, Ordinary, RestoreSteps, Suspending, Place,
     RunsOrStopped, Restoring, Quiet, Running, Stopped
<1>6. Place'
  BY <1>1, <1>2 DEF IInv, Place, RunsOrStopped, Restoring, Quiet, Running, Stopped, Off,
     Below, Follow, FollowsDestroy, Lower, Teardown
<1>7. UpAndOpen'
  BY <1>1, <1>2 DEF IInv, UpAndOpen, Place, OwedUp, Ordinary, ComesDown, ComingUp, Noted,
     RunsOrStopped, Restoring, Quiet, Running, Stopped, Off, Below, Follow, FollowsDestroy,
     Lower, Teardown
<1> QED
  BY <1>2, <1>3, <1>4, <1>5, <1>6, <1>7 DEF IInv

LEMMA EnableMsixKeeps ==
    ASSUME IInv, EnableMsix
    PROVE  IInv'
<1>1. Shape /\ todo # << >> /\ top = "enable_msix" /\ op' = op
  BY DEF IInv, EnableMsix, At, outside, top, First
<1>2. /\ Shape' /\ Left' = {"up_again"} \cup Rest /\ top' = "up_again"
      /\ Popped("enable_msix")
  <2>1. Popped("enable_msix")
    BY <1>1, Rests
  <2>2. /\ nxt \in Follow("up_again", op) /\ Rest \subseteq Below("up_again")
        /\ {"up_again"} \subseteq Steps
    BY <1>1, <2>1 DEF Popped, IInv, Holding, DestroySteps, Below, Follow, FollowsDestroy,
         Lower,
       Teardown, Steps
  <2> QED
    BY <1>1, <2>1, <2>2, Replaced1 DEF EnableMsix
<1> USE DEF EnableMsix, flagVars, localVars, watchVars, outside, userVars, Popped
<1>3. Types'
  BY <1>1 DEF IInv, Types, Reasons, AllOperations, NORMAL
<1>4. Bounds'
  BY BoundsAssumption DEF IInv, Bounds
<1>5. Asking' /\ TornDown' /\ Watching' /\ Whole' /\ Holding' /\ Suspending'
  BY <1>1, <1>2 DEF IInv, Asking, Requesters, Alive, TornDown, Off, Watching, Watched,
     ToBeTornDown, Whole, Holding, DestroySteps, Ordinary, RestoreSteps, Suspending
<1>6. Place'
  BY <1>1, <1>2 DEF IInv, Place, RunsOrStopped, Restoring, Quiet, Running, Stopped, Off
<1>7. UpAndOpen'
  BY <1>1, <1>2 DEF IInv, UpAndOpen, OwedUp, Ordinary, ComesDown, ComingUp, Noted
<1> QED
  BY <1>2, <1>3, <1>4, <1>5, <1>6, <1>7 DEF IInv

LEMMA EnableMsixFailsKeeps ==
    ASSUME IInv, EnableMsixFails
    PROVE  IInv'
<1>1. Shape /\ todo # << >> /\ top = "enable_msix" /\ op' = op
  BY DEF IInv, EnableMsixFails, At, outside, top, First
<1>2. /\ Shape' /\ Left' = {"destroy_admin", "reset_invalid"} \cup Rest
           /\ top' = "destroy_admin"
      /\ Popped("enable_msix")
  <2>1. Popped("enable_msix")
    BY <1>1, Rests
  <2>2. /\ "reset_invalid" \in Follow("destroy_admin", op)
             /\ {"reset_invalid"} \cup Rest \subseteq Below("destroy_admin")
        /\ nxt \in Follow("reset_invalid", op) /\ Rest \subseteq Below("reset_invalid")
        /\ {"destroy_admin", "reset_invalid"} \subseteq Steps
    BY <1>1, <2>1 DEF Popped, IInv, Holding, DestroySteps, Below, Follow, FollowsDestroy,
         Lower,
       Teardown, Steps
  <2> QED
    BY <1>1, <2>1, <2>2, Replaced2 DEF EnableMsixFails
<1> USE DEF EnableMsixFails, MayFail, flagVars, devVars, localVars, watchVars, outside,
   userVars, Popped
<1>3. Types'
  BY <1>1 DEF IInv, Types, Reasons, AllOperations, NORMAL
<1>4. Bounds'
  BY BoundsAssumption DEF IInv, Bounds
<1>5. Asking' /\ TornDown' /\ Watching' /\ Whole' /\ Holding' /\ Suspending'
  BY <1>1, <1>2 DEF IInv, Asking, Requesters, Alive, TornDown, Off, Watching, Watched,
     ToBeTornDown, Whole, Holding, DestroySteps, Ordinary, RestoreSteps, Suspending
<1>6. Place'
  BY <1>1, <1>2 DEF IInv, Place, RunsOrStopped, Restoring, Quiet, Running, Stopped, Off
<1>7. UpAndOpen'
  BY <1>1, <1>2 DEF IInv, UpAndOpen, OwedUp, Ordinary, ComesDown, ComingUp, Noted
<1> QED
  BY <1>2, <1>3, <1>4, <1>5, <1>6, <1>7 DEF IInv

LEMMA UpAgainKeeps ==
    ASSUME IInv, UpAgain
    PROVE  IInv'
<1>1. Shape /\ todo # << >> /\ top = "up_again" /\ op' = op
  BY DEF IInv, UpAgain, At, outside, top, First
<1>2. /\ Shape'
      /\ \/ dev_up_before_reset /\ Left' = {"ena_up", "finish"} \cup Rest /\ top' = "ena_up"
         \/ ~dev_up_before_reset /\ Left' = {"finish"} \cup Rest /\ top' = "finish"
      /\ Popped("up_again")
  <2>1. Popped("up_again")
    BY <1>1, Rests
  <2>2. /\ "finish" \in Follow("ena_up", op) /\ {"finish"} \cup Rest \subseteq Below("ena_up")
        /\ nxt \in Follow("finish", op) /\ Rest \subseteq Below("finish")
        /\ nxt \in Follow("finish", op) /\ Rest \subseteq Below("finish")
        /\ {"ena_up", "finish"} \subseteq Steps
    BY <1>1, <2>1 DEF Popped, IInv, Holding, DestroySteps, Below, Follow, FollowsDestroy,
         Lower,
       Teardown, Steps
  <2>3. CASE dev_up_before_reset
    <3>1. Then(<<"ena_up", "finish">>)
      BY <2>3, Concats DEF UpAgain, When
    <3> QED
      BY <1>1, <2>1, <2>2, <2>3, <3>1, Replaced2
  <2>4. CASE ~dev_up_before_reset
    <3>1. Then(<<"finish">>)
      BY <2>4, Concats DEF UpAgain, When
    <3> QED
      BY <1>1, <2>1, <2>2, <2>4, <3>1, Replaced1
  <2> QED
    BY <2>3, <2>4 DEF IInv, Types
<1> USE DEF UpAgain, flagVars, devVars, localVars, watchVars, outside, userVars, Popped
<1>3. Types'
  BY <1>1 DEF IInv, Types, Reasons, AllOperations, NORMAL
<1>4. Bounds'
  BY BoundsAssumption DEF IInv, Bounds
<1>5. Asking' /\ TornDown' /\ Watching' /\ Whole' /\ Holding' /\ Suspending'
  BY <1>1, <1>2 DEF IInv, Asking, Requesters, Alive, TornDown, Off, Watching, Watched,
     ToBeTornDown, Whole, Holding, DestroySteps, Ordinary, RestoreSteps, Suspending
<1>6. Place'
  BY <1>1, <1>2 DEF IInv, Place, Types, RunsOrStopped, Restoring, Quiet, Running, Stopped,
     Off, Reasons, AllOperations, NORMAL, Below, Follow, FollowsDestroy, Lower, Teardown
<1>7. UpAndOpen'
  BY <1>1, <1>2 DEF IInv, UpAndOpen, Place, OwedUp, Ordinary, ComesDown, ComingUp, Noted,
     RunsOrStopped, Restoring, Quiet, Running, Stopped, Off
<1> QED
  BY <1>2, <1>3, <1>4, <1>5, <1>6, <1>7 DEF IInv

LEMMA UpAgainFailsKeeps ==
    ASSUME IInv, UpAgainFails
    PROVE  IInv'
<1>1. Shape /\ todo # << >> /\ top = "up_again" /\ op' = op
  BY DEF IInv, UpAgainFails, At, outside, top, First
<1>2. /\ Shape' /\ Left' = {"disable_msix", "destroy_admin", "reset_invalid"} \cup Rest
           /\ top' = "disable_msix"
      /\ Popped("up_again")
  <2>1. Popped("up_again")
    BY <1>1, Rests
  <2>2. /\ "destroy_admin" \in Follow("disable_msix", op)
             /\ {"destroy_admin", "reset_invalid"} \cup Rest \subseteq Below("disable_msix")
        /\ "reset_invalid" \in Follow("destroy_admin", op)
             /\ {"reset_invalid"} \cup Rest \subseteq Below("destroy_admin")
        /\ nxt \in Follow("reset_invalid", op) /\ Rest \subseteq Below("reset_invalid")
        /\ {"destroy_admin", "disable_msix", "reset_invalid"} \subseteq Steps
    BY <1>1, <2>1 DEF Popped, IInv, Holding, DestroySteps, Below, Follow, FollowsDestroy,
         Lower,
       Teardown, Steps
  <2> QED
    BY <1>1, <2>1, <2>2, Replaced3 DEF UpAgainFails, Undo
<1> USE DEF UpAgainFails, MayFail, flagVars, devVars, localVars, watchVars, outside,
   userVars, Popped
<1>3. Types'
  BY <1>1 DEF IInv, Types, Reasons, AllOperations, NORMAL
<1>4. Bounds'
  BY BoundsAssumption DEF IInv, Bounds
<1>5. Asking' /\ TornDown' /\ Watching' /\ Whole' /\ Holding' /\ Suspending'
  BY <1>1, <1>2 DEF IInv, Asking, Requesters, Alive, TornDown, Off, Watching, Watched,
     ToBeTornDown, Whole, Holding, DestroySteps, Ordinary, RestoreSteps, Suspending
<1>6. Place'
  BY <1>1, <1>2 DEF IInv, Place, RunsOrStopped, Restoring, Quiet, Running, Stopped, Off
<1>7. UpAndOpen'
  BY <1>1, <1>2 DEF IInv, UpAndOpen, OwedUp, Ordinary, ComesDown, ComingUp, Noted
<1> QED
  BY <1>2, <1>3, <1>4, <1>5, <1>6, <1>7 DEF IInv

LEMMA FinishKeeps ==
    ASSUME IInv, Finish
    PROVE  IInv'
<1>1. Shape /\ todo # << >> /\ top = "finish" /\ op' = op
  BY DEF IInv, Finish, At, outside, top, First
<1>2. /\ Shape' /\ Left' = Rest /\ top' = nxt
      /\ Popped("finish")
  BY <1>1, Rests, Replaced0 DEF Finish
<1> USE DEF Finish, NotUpAgain, TimerAfterRestore, devVars, localVars, outside, userVars,
   Popped
<1>3. Types'
  BY <1>1 DEF IInv, Types, Reasons, AllOperations, NORMAL
<1>4. Bounds'
  BY BoundsAssumption DEF IInv, Bounds
<1>5. Asking' /\ TornDown' /\ Watching' /\ Whole' /\ Holding' /\ Suspending'
  BY <1>1, <1>2 DEF IInv, Asking, Place, Requesters, Alive, RunsOrStopped, Restoring, Quiet,
     Running, Stopped, Off, TornDown, Below, Follow, FollowsDestroy, Lower, Teardown,
     Watching, Watched, ToBeTornDown, Whole, Holding, DestroySteps, Ordinary, RestoreSteps,
     Suspending
<1>6. Place'
  BY <1>1, <1>2 DEF IInv, Place, RunsOrStopped, Restoring, Quiet, Running, Stopped, Off,
     Below, Follow, FollowsDestroy, Lower, Teardown
<1>7. UpAndOpen'
  BY <1>1, <1>2 DEF IInv, UpAndOpen, Place, OwedUp, Ordinary, ComesDown, ComingUp, Noted,
     RunsOrStopped, Restoring, Quiet, Running, Stopped, Off, Below, Follow, FollowsDestroy,
     Lower, Teardown
<1> QED
  BY <1>2, <1>3, <1>4, <1>5, <1>6, <1>7 DEF IInv

LEMMA FinishFailsKeeps ==
    ASSUME IInv, FinishFails
    PROVE  IInv'
<1>1. Shape /\ todo # << >> /\ top = "finish" /\ op' = op
  BY DEF IInv, FinishFails, At, outside, top, First
<1>2. /\ Shape' /\ Left' = {"disable_msix", "destroy_admin", "reset_invalid"} \cup Rest
           /\ top' = "disable_msix"
      /\ Popped("finish")
  <2>1. Popped("finish")
    BY <1>1, Rests
  <2>2. /\ "destroy_admin" \in Follow("disable_msix", op)
             /\ {"destroy_admin", "reset_invalid"} \cup Rest \subseteq Below("disable_msix")
        /\ "reset_invalid" \in Follow("destroy_admin", op)
             /\ {"reset_invalid"} \cup Rest \subseteq Below("destroy_admin")
        /\ nxt \in Follow("reset_invalid", op) /\ Rest \subseteq Below("reset_invalid")
        /\ {"destroy_admin", "disable_msix", "reset_invalid"} \subseteq Steps
    BY <1>1, <2>1 DEF Popped, IInv, Holding, DestroySteps, Below, Follow, FollowsDestroy,
         Lower,
       Teardown, Steps
  <2> QED
    BY <1>1, <2>1, <2>2, Replaced3 DEF FinishFails, Undo
<1> USE DEF FinishFails, NotUpAgain, flagVars, devVars, localVars, watchVars, outside,
   userVars, Popped
<1>3. Types'
  BY <1>1 DEF IInv, Types, Reasons, AllOperations, NORMAL
<1>4. Bounds'
  BY BoundsAssumption DEF IInv, Bounds
<1>5. Asking' /\ TornDown' /\ Watching' /\ Whole' /\ Holding' /\ Suspending'
  BY <1>1, <1>2 DEF IInv, Asking, Requesters, Alive, TornDown, Off, Watching, Watched,
     ToBeTornDown, Whole, Holding, DestroySteps, Ordinary, RestoreSteps, Suspending
<1>6. Place'
  BY <1>1, <1>2 DEF IInv, Place, RunsOrStopped, Restoring, Quiet, Running, Stopped, Off
<1>7. UpAndOpen'
  BY <1>1, <1>2 DEF IInv, UpAndOpen, OwedUp, Ordinary, ComesDown, ComingUp, Noted
<1> QED
  BY <1>2, <1>3, <1>4, <1>5, <1>6, <1>7 DEF IInv

LEMMA DisableMsixKeeps ==
    ASSUME IInv, DisableMsix
    PROVE  IInv'
<1>1. Shape /\ todo # << >> /\ top = "disable_msix" /\ op' = op
  BY DEF IInv, DisableMsix, At, outside, top, First
<1>2. /\ Shape' /\ Left' = Rest /\ top' = nxt
      /\ Popped("disable_msix")
  BY <1>1, Rests, Replaced0 DEF DisableMsix
<1> USE DEF DisableMsix, flagVars, localVars, watchVars, outside, userVars, Popped
<1>3. Types'
  <2>1. mgmnt_irq' \in BOOLEAN
    BY DEF IInv, Types
  <2> QED
    BY <1>1, <2>1 DEF IInv, Types, Reasons, AllOperations, NORMAL
<1>4. Bounds'
  BY BoundsAssumption DEF IInv, Bounds
<1>5. Asking' /\ TornDown' /\ Watching' /\ Whole' /\ Holding' /\ Suspending'
  BY <1>1, <1>2 DEF IInv, Asking, Requesters, Alive, TornDown, Off, Watching, Watched,
     ToBeTornDown, Whole, Holding, DestroySteps, Ordinary, RestoreSteps, Below, Follow,
     FollowsDestroy, Lower, Teardown, Suspending
<1>6. Place'
  BY <1>1, <1>2 DEF IInv, Place, RunsOrStopped, Restoring, Quiet, Running, Stopped, Off,
     Below, Follow, FollowsDestroy, Lower, Teardown
<1>7. UpAndOpen'
  BY <1>1, <1>2 DEF IInv, UpAndOpen, OwedUp, Ordinary, ComesDown, ComingUp, Noted, Below,
     Follow, FollowsDestroy, Lower, Teardown
<1> QED
  BY <1>2, <1>3, <1>4, <1>5, <1>6, <1>7 DEF IInv

LEMMA DestroyAdminKeeps ==
    ASSUME IInv, DestroyAdmin
    PROVE  IInv'
<1>1. Shape /\ todo # << >> /\ top = "destroy_admin" /\ op' = op
  BY DEF IInv, DestroyAdmin, At, outside, top, First
<1>2. /\ Shape' /\ Left' = Rest /\ top' = nxt
      /\ Popped("destroy_admin")
  BY <1>1, Rests, Replaced0 DEF DestroyAdmin
<1> USE DEF DestroyAdmin, flagVars, localVars, watchVars, outside, userVars, Popped
<1>3. Types'
  <2>1. rings' \in BOOLEAN
    BY DEF IInv, Types
  <2> QED
    BY <1>1, <2>1 DEF IInv, Types, Reasons, AllOperations, NORMAL
<1>4. Bounds'
  BY BoundsAssumption DEF IInv, Bounds
<1>5. Asking' /\ TornDown' /\ Watching' /\ Whole' /\ Holding' /\ Suspending'
  BY <1>1, <1>2 DEF IInv, Asking, Requesters, Alive, TornDown, Off, Watching, Watched,
     ToBeTornDown, Whole, Holding, DestroySteps, Ordinary, RestoreSteps, Below, Follow,
     FollowsDestroy, Lower, Teardown, Suspending
<1>6. Place'
  BY <1>1, <1>2 DEF IInv, Place, RunsOrStopped, Restoring, Quiet, Running, Stopped, Off,
     Below, Follow, FollowsDestroy, Lower, Teardown
<1>7. UpAndOpen'
  BY <1>1, <1>2 DEF IInv, UpAndOpen, OwedUp, Ordinary, ComesDown, ComingUp, Noted, Below,
     Follow, FollowsDestroy, Lower, Teardown
<1> QED
  BY <1>2, <1>3, <1>4, <1>5, <1>6, <1>7 DEF IInv

LEMMA ResetInvalidKeeps ==
    ASSUME IInv, ResetInvalid
    PROVE  IInv'
<1>1. Shape /\ todo # << >> /\ top = "reset_invalid" /\ op' = op
  BY DEF IInv, ResetInvalid, At, outside, top, First
<1>2. /\ Shape' /\ Left' = Rest /\ top' = nxt
      /\ Popped("reset_invalid")
  BY <1>1, Rests, Replaced0 DEF ResetInvalid
<1> USE DEF ResetInvalid, watchVars, outside, userVars, Popped
<1>3. Types'
  <2>1. events' \in BOOLEAN /\ DEVICE_RUNNING' \in BOOLEAN /\ restoreFailed' \in BOOLEAN
    BY DEF IInv, Types
  <2> QED
    BY <1>1, <2>1 DEF IInv, Types, Reasons, AllOperations, NORMAL
<1>4. Bounds'
  BY BoundsAssumption DEF IInv, Bounds
<1>5. Asking' /\ TornDown' /\ Watching' /\ Whole' /\ Holding' /\ Suspending'
  BY <1>1, <1>2 DEF IInv, Asking, Requesters, Alive, TornDown, Off, Watching, Watched,
     ToBeTornDown, Whole, Holding, DestroySteps, Ordinary, RestoreSteps, Suspending, Place,
     RunsOrStopped, Restoring, Quiet, Running, Stopped
<1>6. Place'
  BY <1>1, <1>2 DEF IInv, Place, RunsOrStopped, Restoring, Quiet, Running, Stopped, Off,
     Below, Follow, FollowsDestroy, Lower, Teardown
<1>7. UpAndOpen'
  BY <1>1, <1>2 DEF IInv, UpAndOpen, Place, OwedUp, Ordinary, ComesDown, ComingUp, Noted,
     RunsOrStopped, Restoring, Quiet, Running, Stopped, Off, Below, Follow, FollowsDestroy,
     Lower, Teardown
<1> QED
  BY <1>2, <1>3, <1>4, <1>5, <1>6, <1>7 DEF IInv

LEMMA UpIfWasUpKeeps ==
    ASSUME IInv, UpIfWasUp
    PROVE  IInv'
<1>1. Shape /\ todo # << >> /\ top = "up_if_was_up" /\ op' = op
  BY DEF IInv, UpIfWasUp, At, outside, top, First
<1>2. /\ Shape'
      /\ \/ dev_was_up /\ Left' = {"ena_up"} \cup Rest /\ top' = "ena_up"
         \/ ~dev_was_up /\ Left' = Rest /\ top' = nxt
      /\ Popped("up_if_was_up")
  <2>1. Popped("up_if_was_up")
    BY <1>1, Rests
  <2>2. /\ nxt \in Follow("ena_up", op) /\ Rest \subseteq Below("ena_up")
        /\ {"ena_up"} \subseteq Steps
    BY <1>1, <2>1 DEF Popped, IInv, Holding, DestroySteps, Below, Follow, FollowsDestroy,
         Lower,
       Teardown, Steps
  <2>3. CASE dev_was_up
    <3>1. Then(<<"ena_up">>)
      BY <2>3 DEF UpIfWasUp, When, UpNeeded
    <3> QED
      BY <1>1, <2>1, <2>2, <2>3, <3>1, Replaced1
  <2>4. CASE ~dev_was_up
    <3>1. Then(<< >>)
      BY <2>4 DEF UpIfWasUp, When, UpNeeded
    <3> QED
      BY <1>1, <2>1, <2>2, <2>4, <3>1, Replaced0 DEF Done
  <2> QED
    BY <2>3, <2>4 DEF IInv, Types
<1> USE DEF UpIfWasUp, UpNeeded, flagVars, devVars, localVars, watchVars, outside, userVars,
   Popped
<1>3. Types'
  BY <1>1 DEF IInv, Types, Reasons, AllOperations, NORMAL
<1>4. Bounds'
  BY BoundsAssumption DEF IInv, Bounds
<1>5. Asking' /\ TornDown' /\ Watching' /\ Whole' /\ Holding' /\ Suspending'
  BY <1>1, <1>2 DEF IInv, Asking, Requesters, Alive, TornDown, Off, Watching, Watched,
     ToBeTornDown, Whole, Holding, DestroySteps, Ordinary, RestoreSteps, Suspending
<1>6. Place'
  BY <1>1, <1>2 DEF IInv, Place, RunsOrStopped, Restoring, Quiet, Running, Stopped, Off,
     Below, Follow, FollowsDestroy, Lower, Teardown
<1>7. UpAndOpen'
  BY <1>1, <1>2 DEF IInv, UpAndOpen, Place, OwedUp, Ordinary, ComesDown, ComingUp, Noted,
     RunsOrStopped, Restoring, Quiet, Running, Stopped, Off, Below, Follow, FollowsDestroy,
     Lower, Teardown
<1> QED
  BY <1>2, <1>3, <1>4, <1>5, <1>6, <1>7 DEF IInv

LEMMA OpenedKeeps ==
    ASSUME IInv, Opened
    PROVE  IInv'
<1>1. Shape /\ todo # << >> /\ top = "opened" /\ op' = op
  BY DEF IInv, Opened, At, outside, top, First
<1>2. /\ Shape' /\ Left' = Rest /\ top' = nxt
      /\ Popped("opened")
  BY <1>1, Rests, Replaced0 DEF Opened
<1> USE DEF Opened, flagVars, devVars, localVars, watchVars, boundVars, Popped
<1>3. Types'
  BY <1>1 DEF IInv, Types, Reasons, AllOperations, NORMAL
<1>4. Bounds'
  BY BoundsAssumption DEF IInv, Bounds
<1>5. Asking' /\ TornDown' /\ Watching' /\ Whole' /\ Holding' /\ Suspending'
  BY <1>1, <1>2 DEF IInv, Asking, Requesters, Alive, TornDown, Off, Watching, Watched,
     ToBeTornDown, Whole, Holding, DestroySteps, Ordinary, RestoreSteps, Suspending
<1>6. Place'
  BY <1>1, <1>2 DEF IInv, Place, RunsOrStopped, Restoring, Quiet, Running, Stopped, Off,
     Below, Follow, FollowsDestroy, Lower, Teardown
<1>7. UpAndOpen'
  BY <1>1, <1>2 DEF IInv, UpAndOpen, OwedUp, Ordinary, ComesDown, ComingUp, Noted, Below,
     Follow, FollowsDestroy, Lower, Teardown
<1> QED
  BY <1>2, <1>3, <1>4, <1>5, <1>6, <1>7 DEF IInv

LEMMA UnregisterKeeps ==
    ASSUME IInv, Unregister
    PROVE  IInv'
<1>1. Shape /\ todo # << >> /\ top = "ena_devlink_unregister" /\ op' = op
  BY DEF IInv, Unregister, At, outside, top, First
<1>2. /\ Shape' /\ Left' = Rest /\ top' = nxt
      /\ Popped("ena_devlink_unregister")
  BY <1>1, Rests, Replaced0 DEF Unregister
<1> USE DEF Unregister, flagVars, devVars, localVars, watchVars, outside, userVars, Popped
<1>3. Types'
  BY <1>1 DEF IInv, Types, Reasons, AllOperations, NORMAL
<1>4. Bounds'
  BY BoundsAssumption DEF IInv, Bounds
<1>5. Asking' /\ TornDown' /\ Watching' /\ Whole' /\ Holding' /\ Suspending'
  BY <1>1, <1>2 DEF IInv, Asking, Requesters, Alive, TornDown, Off, Watching, Watched,
     ToBeTornDown, Whole, Holding, DestroySteps, Ordinary, RestoreSteps, Suspending
<1>6. Place'
  BY <1>1, <1>2 DEF IInv, Place, RunsOrStopped, Restoring, Quiet, Running, Stopped, Off,
     Below, Follow, FollowsDestroy, Lower, Teardown
<1>7. UpAndOpen'
  BY <1>1, <1>2 DEF IInv, UpAndOpen, OwedUp, Ordinary, ComesDown, ComingUp, Noted, Below,
     Follow, FollowsDestroy, Lower, Teardown
<1> QED
  BY <1>2, <1>3, <1>4, <1>5, <1>6, <1>7 DEF IInv

-----------------------------------------------------------------------------
(***************************************************************************)
(* So does everybody who runs beside it                                    *)
(***************************************************************************)
LEMMA TryLockKeeps ==
    ASSUME IInv, NEW who \in Requesters, TryLock(who)
    PROVE  IInv'
<1>1. op' = op /\ todo' = todo
  BY DEF TryLock, lockVars, removalOnly
<1>2. /\ Shape' /\ Left' = Left /\ top' = top
      /\ top = "end" \/ top \in Left
      /\ todo = << >> => top = "end" /\ Left = {}
  BY <1>1, FirstOf, EmptyShape DEF IInv, Shape, Left, top
<1> USE DEF TryLock, MayRequest, MayLock, devVars, localVars, lockVars, userVars, Alive,
   NORMAL
<1>3. Types'
  BY <1>1 DEF IInv, Types, Reasons, AllOperations
<1>4. Bounds'
  BY BoundsAssumption DEF IInv, Bounds
<1>5. Asking' /\ TornDown' /\ Watching' /\ Whole' /\ Place'
  BY <1>1, <1>2 DEF IInv, Asking, Requesters, TornDown, Off, Watching, Watched,
     ToBeTornDown, Whole, Place, RunsOrStopped, Restoring, Quiet, Running, Stopped
<1>6. UpAndOpen' /\ Holding' /\ Suspending'
  BY <1>1, <1>2 DEF IInv, UpAndOpen, OwedUp, Ordinary, ComesDown, ComingUp, Noted, Holding,
     DestroySteps, ToBeTornDown, RestoreSteps, Suspending
<1> QED
  BY <1>2, <1>3, <1>4, <1>5, <1>6 DEF IInv

LEMMA TriggerKeeps ==
    ASSUME IInv, NEW who \in Requesters, Trigger(who)
    PROVE  IInv'
<1>1. op' = op /\ todo' = todo
  BY DEF Trigger, lockVars, removalOnly
<1>2. /\ Shape' /\ Left' = Left /\ top' = top
      /\ top = "end" \/ top \in Left
      /\ todo = << >> => top = "end" /\ Left = {}
  BY <1>1, FirstOf, EmptyShape DEF IInv, Shape, Left, top
<1> USE DEF Trigger, devVars, localVars, lockVars, userVars, boundVars
<1>3. Types'
  <2>1. TRIGGER_RESET' \in BOOLEAN
    BY DEF IInv, Types
  <2> QED
    BY <1>1, <2>1 DEF IInv, Types, Reasons, AllOperations, NORMAL
<1>4. Bounds'
  BY BoundsAssumption DEF IInv, Bounds
<1>5. Asking' /\ TornDown' /\ Watching' /\ Whole' /\ Place'
  BY <1>1, <1>2 DEF IInv, Asking, Requesters, Alive, TornDown, Off, Watching, Watched,
     ToBeTornDown, Whole, Place, RunsOrStopped, Restoring, Quiet, Running, Stopped
<1>6. UpAndOpen'
  BY <1>1, <1>2 DEF IInv, UpAndOpen, OwedUp, Ordinary, ComesDown, ComingUp, Noted
<1>7. Holding'
  BY <1>1, <1>2 DEF IInv, Holding, DestroySteps, ToBeTornDown, Ordinary, RestoreSteps
<1>8. Suspending'
  BY <1>1, <1>2 DEF IInv, Suspending, Place, Holding, Asking, RunsOrStopped, Restoring,
     Quiet, Running, Stopped, Off, DestroySteps, ToBeTornDown, Ordinary, RestoreSteps,
     Requesters, Alive, Below, Follow, FollowsDestroy, Lower, Teardown
<1> QED
  BY <1>2, <1>3, <1>4, <1>5, <1>6, <1>7, <1>8 DEF IInv

LEMMA AdminStopsKeeps ==
    ASSUME IInv, AdminStops
    PROVE  IInv'
<1>1. op' = op /\ todo' = todo
  BY DEF AdminStops, lockVars, removalOnly
<1>2. /\ Shape' /\ Left' = Left /\ top' = top
      /\ top = "end" \/ top \in Left
      /\ todo = << >> => top = "end" /\ Left = {}
  BY <1>1, FirstOf, EmptyShape DEF IInv, Shape, Left, top
<1> USE DEF AdminStops, flagVars, localVars, watchVars, lockVars, userVars
<1>3. Types'
  <2>1. running_state' \in BOOLEAN
    BY DEF IInv, Types
  <2> QED
    BY <1>1, <2>1 DEF IInv, Types, Reasons, AllOperations, NORMAL
<1>4. Bounds'
  BY BoundsAssumption DEF IInv, Bounds
<1>5. Asking' /\ TornDown' /\ Watching' /\ Whole' /\ Place'
  BY <1>1, <1>2 DEF IInv, Asking, Requesters, Alive, TornDown, Off, Watching, Watched,
     ToBeTornDown, Whole, Place, RunsOrStopped, Restoring, Quiet, Running, Stopped
<1>6. UpAndOpen' /\ Holding' /\ Suspending'
  BY <1>1, <1>2 DEF IInv, UpAndOpen, OwedUp, Ordinary, ComesDown, ComingUp, Noted, Holding,
     DestroySteps, ToBeTornDown, RestoreSteps, Suspending
<1> QED
  BY <1>2, <1>3, <1>4, <1>5, <1>6 DEF IInv

LEMMA TimerMissesCompletionsKeeps ==
    ASSUME IInv, TimerMissesCompletions
    PROVE  IInv'
<1>1. op' = op /\ todo' = todo
  BY DEF TimerMissesCompletions, lockVars, removalOnly
<1>2. /\ Shape' /\ Left' = Left /\ top' = top
      /\ top = "end" \/ top \in Left
      /\ todo = << >> => top = "end" /\ Left = {}
  BY <1>1, FirstOf, EmptyShape DEF IInv, Shape, Left, top
<1> USE DEF TimerMissesCompletions, MayLock, devVars, localVars, watchVars, lockVars,
   userVars, NORMAL
<1>3. Types'
  <2>1. TRIGGER_RESET' \in BOOLEAN
    BY DEF IInv, Types
  <2> QED
    BY <1>1, <2>1 DEF IInv, Types, Reasons, AllOperations
<1>4. Bounds'
  BY BoundsAssumption DEF IInv, Bounds
<1>5. Asking' /\ TornDown' /\ Watching' /\ Whole' /\ Place'
  BY <1>1, <1>2 DEF IInv, Asking, Requesters, Alive, TornDown, Off, Watching, Watched,
     ToBeTornDown, Whole, Place, RunsOrStopped, Restoring, Quiet, Running, Stopped
<1>6. UpAndOpen'
  BY <1>1, <1>2 DEF IInv, UpAndOpen, OwedUp, Ordinary, ComesDown, ComingUp, Noted
<1>7. Holding'
  BY <1>1, <1>2 DEF IInv, Holding, DestroySteps, ToBeTornDown, Ordinary, RestoreSteps
<1>8. Suspending'
  BY <1>1, <1>2 DEF IInv, Suspending, Place, Holding, RunsOrStopped, Restoring, Quiet,
     Running, Stopped, Off, DestroySteps, ToBeTornDown, Ordinary, RestoreSteps, Below,
     Follow, FollowsDestroy, Lower, Teardown
<1> QED
  BY <1>2, <1>3, <1>4, <1>5, <1>6, <1>7, <1>8 DEF IInv

LEMMA TimerFiresKeeps ==
    ASSUME IInv, TimerFires
    PROVE  IInv'
<1>1. op' = op /\ todo' = todo
  BY DEF TimerFires, lockVars, removalOnly
<1>2. /\ Shape' /\ Left' = Left /\ top' = top
      /\ top = "end" \/ top \in Left
      /\ todo = << >> => top = "end" /\ Left = {}
  BY <1>1, FirstOf, EmptyShape DEF IInv, Shape, Left, top
<1> USE DEF TimerFires, MayLock, devVars, localVars, lockVars, userVars, boundVars, NORMAL
<1>3. Types'
  BY <1>1 DEF IInv, Types, Reasons, AllOperations
<1>4. Bounds'
  BY BoundsAssumption DEF IInv, Bounds
<1>5. Asking'
  <2>1. \A who \in pending : who \in Requesters /\ Alive(who)
    BY DEF IInv, Asking
  <2>2. timer' = "check" /\ mgmnt_irq' = mgmnt_irq /\ io' = io
    BY DEF TimerFires, devVars
  <2>3. \A who \in Requesters : Alive(who) \/ who = "timer" => Alive(who)'
    BY <2>2 DEF Alive, Requesters
  <2>4. \A who \in pending' : who \in pending \/ who = "timer"
    BY DEF TimerFires
  <2>5. "timer" \in Requesters
    BY DEF Requesters
  <2> QED
    BY <2>1, <2>3, <2>4, <2>5 DEF Asking
<1>6. TornDown' /\ Watching' /\ Whole' /\ Place'
  BY <1>1, <1>2 DEF IInv, TornDown, Off, Watching, Watched, ToBeTornDown, Whole, Place,
     RunsOrStopped, Restoring, Quiet, Running, Stopped
<1>7. UpAndOpen' /\ Holding' /\ Suspending'
  BY <1>1, <1>2 DEF IInv, UpAndOpen, OwedUp, Ordinary, ComesDown, ComingUp, Noted, Holding,
     DestroySteps, ToBeTornDown, RestoreSteps, Suspending
<1> QED
  BY <1>2, <1>3, <1>4, <1>5, <1>6, <1>7 DEF IInv

LEMMA TimerRearmsKeeps ==
    ASSUME IInv, TimerRearms
    PROVE  IInv'
<1>1. op' = op /\ todo' = todo
  BY DEF TimerRearms, lockVars, removalOnly
<1>2. /\ Shape' /\ Left' = Left /\ top' = top
      /\ top = "end" \/ top \in Left
      /\ todo = << >> => top = "end" /\ Left = {}
  BY <1>1, FirstOf, EmptyShape DEF IInv, Shape, Left, top
<1> USE DEF TimerRearms, ChecksDone, flagVars, devVars, localVars, lockVars, userVars,
   boundVars
<1>3. Types'
  BY <1>1 DEF IInv, Types, Reasons, AllOperations, NORMAL
<1>4. Bounds'
  BY BoundsAssumption DEF IInv, Bounds
<1>5. Asking' /\ TornDown' /\ Watching' /\ Whole' /\ Place'
  BY <1>1, <1>2 DEF IInv, Asking, Requesters, Alive, TornDown, Off, Watching, Watched,
     ToBeTornDown, Whole, Place, RunsOrStopped, Restoring, Quiet, Running, Stopped
<1>6. UpAndOpen' /\ Holding' /\ Suspending'
  BY <1>1, <1>2 DEF IInv, UpAndOpen, OwedUp, Ordinary, ComesDown, ComingUp, Noted, Holding,
     DestroySteps, ToBeTornDown, RestoreSteps, Suspending
<1> QED
  BY <1>2, <1>3, <1>4, <1>5, <1>6 DEF IInv

LEMMA TimerQueuesResetKeeps ==
    ASSUME IInv, TimerQueuesReset
    PROVE  IInv'
<1>1. op' = op /\ todo' = todo
  BY DEF TimerQueuesReset, lockVars, removalOnly
<1>2. /\ Shape' /\ Left' = Left /\ top' = top
      /\ top = "end" \/ top \in Left
      /\ todo = << >> => top = "end" /\ Left = {}
  BY <1>1, FirstOf, EmptyShape DEF IInv, Shape, Left, top
<1> USE DEF TimerQueuesReset, ChecksDone, ResetWanted, flagVars, devVars, localVars,
   lockVars, userVars, boundVars
<1>3. Types'
  <2>1. reset_task' \in BOOLEAN
    BY DEF IInv, Types
  <2> QED
    BY <1>1, <2>1 DEF IInv, Types, Reasons, AllOperations, NORMAL
<1>4. Bounds'
  BY BoundsAssumption DEF IInv, Bounds
<1>5. Asking' /\ TornDown' /\ Watching' /\ Whole' /\ Place'
  BY <1>1, <1>2 DEF IInv, Asking, Requesters, Alive, TornDown, Off, Watching, Watched,
     ToBeTornDown, Whole, Place, RunsOrStopped, Restoring, Quiet, Running, Stopped
<1>6. UpAndOpen' /\ Holding' /\ Suspending'
  BY <1>1, <1>2 DEF IInv, UpAndOpen, OwedUp, Ordinary, ComesDown, ComingUp, Noted, Holding,
     DestroySteps, ToBeTornDown, RestoreSteps, Suspending
<1> QED
  BY <1>2, <1>3, <1>4, <1>5, <1>6 DEF IInv

LEMMA ReloadKeeps ==
    ASSUME IInv, Reload
    PROVE  IInv'
<1>1. op' = op /\ todo' = todo
  BY DEF Reload, lockVars, removalOnly
<1>2. /\ Shape' /\ Left' = Left /\ top' = top
      /\ top = "end" \/ top \in Left
      /\ todo = << >> => top = "end" /\ Left = {}
  BY <1>1, FirstOf, EmptyShape DEF IInv, Shape, Left, top
<1> USE DEF Reload, flagVars, devVars, localVars, watchVars, lockVars, boundVars
<1>3. Types'
  BY <1>1 DEF IInv, Types, Reasons, AllOperations, NORMAL
<1>4. Bounds'
  BY BoundsAssumption DEF IInv, Bounds
<1>5. Asking' /\ TornDown' /\ Watching' /\ Whole' /\ Place'
  BY <1>1, <1>2 DEF IInv, Asking, Requesters, Alive, TornDown, Off, Watching, Watched,
     ToBeTornDown, Whole, Place, RunsOrStopped, Restoring, Quiet, Running, Stopped
<1>6. UpAndOpen' /\ Holding' /\ Suspending'
  BY <1>1, <1>2 DEF IInv, UpAndOpen, OwedUp, Ordinary, ComesDown, ComingUp, Noted, Holding,
     DestroySteps, ToBeTornDown, RestoreSteps, Suspending
<1> QED
  BY <1>2, <1>3, <1>4, <1>5, <1>6 DEF IInv

LEMMA RemoveKeeps ==
    ASSUME IInv, Remove
    PROVE  IInv'
<1>1. op' = op /\ todo' = todo
  BY DEF Remove, lockVars, removalOnly
<1>2. /\ Shape' /\ Left' = Left /\ top' = top
      /\ top = "end" \/ top \in Left
      /\ todo = << >> => top = "end" /\ Left = {}
  BY <1>1, FirstOf, EmptyShape DEF IInv, Shape, Left, top
<1> USE DEF Remove, removalOnly, lockVars, flagVars, devVars, localVars, boundVars
<1>3. Types'
  BY <1>1 DEF IInv, Types, Reasons, AllOperations, NORMAL
<1>4. Bounds'
  BY BoundsAssumption DEF IInv, Bounds
<1>5. Asking' /\ TornDown' /\ Watching' /\ Whole' /\ Place'
  BY <1>1, <1>2 DEF IInv, Asking, Requesters, Alive, TornDown, Off, Watching, Watched,
     ToBeTornDown, Whole, Place, RunsOrStopped, Restoring, Quiet, Running, Stopped
<1>6. UpAndOpen' /\ Holding' /\ Suspending'
  BY <1>1, <1>2 DEF IInv, UpAndOpen, OwedUp, Ordinary, ComesDown, ComingUp, Noted, Holding,
     DestroySteps, ToBeTornDown, RestoreSteps, Suspending
<1> QED
  BY <1>2, <1>3, <1>4, <1>5, <1>6 DEF IInv

LEMMA RemoveStopsTimerKeeps ==
    ASSUME IInv, RemoveStopsTimer
    PROVE  IInv'
<1>1. op' = op /\ todo' = todo
  BY DEF RemoveStopsTimer, lockVars, removalOnly
<1>2. /\ Shape' /\ Left' = Left /\ top' = top
      /\ top = "end" \/ top \in Left
      /\ todo = << >> => top = "end" /\ Left = {}
  BY <1>1, FirstOf, EmptyShape DEF IInv, Shape, Left, top
<1> USE DEF RemoveStopsTimer, TimerMayStop, removalOnly, lockVars, flagVars, devVars,
   localVars, boundVars
<1>3. Types'
  BY <1>1 DEF IInv, Types, Reasons, AllOperations, NORMAL
<1>4. Bounds'
  BY BoundsAssumption DEF IInv, Bounds
<1>5. Asking' /\ TornDown' /\ Watching' /\ Whole' /\ Place'
  BY <1>1, <1>2 DEF IInv, Asking, Requesters, Alive, TornDown, Off, Watching, Watched,
     ToBeTornDown, Whole, Place, RunsOrStopped, Restoring, Quiet, Running, Stopped
<1>6. UpAndOpen' /\ Holding' /\ Suspending'
  BY <1>1, <1>2 DEF IInv, UpAndOpen, OwedUp, Ordinary, ComesDown, ComingUp, Noted, Holding,
     DestroySteps, ToBeTornDown, RestoreSteps, Suspending
<1> QED
  BY <1>2, <1>3, <1>4, <1>5, <1>6 DEF IInv

LEMMA RemoveCancelsTaskKeeps ==
    ASSUME IInv, RemoveCancelsTask
    PROVE  IInv'
<1>1. op' = op /\ todo' = todo
  BY DEF RemoveCancelsTask, lockVars, removalOnly
<1>2. /\ Shape' /\ Left' = Left /\ top' = top
      /\ top = "end" \/ top \in Left
      /\ todo = << >> => top = "end" /\ Left = {}
  BY <1>1, FirstOf, EmptyShape DEF IInv, Shape, Left, top
<1> USE DEF RemoveCancelsTask, removalOnly, lockVars, flagVars, devVars, localVars,
   boundVars
<1>3. Types'
  <2>1. reset_task' \in BOOLEAN
    BY DEF IInv, Types
  <2> QED
    BY <1>1, <2>1 DEF IInv, Types, Reasons, AllOperations, NORMAL
<1>4. Bounds'
  BY BoundsAssumption DEF IInv, Bounds
<1>5. Asking' /\ TornDown' /\ Watching' /\ Whole' /\ Place'
  BY <1>1, <1>2 DEF IInv, Asking, Requesters, Alive, TornDown, Off, Watching, Watched,
     ToBeTornDown, Whole, Place, RunsOrStopped, Restoring, Quiet, Running, Stopped
<1>6. UpAndOpen' /\ Holding' /\ Suspending'
  BY <1>1, <1>2 DEF IInv, UpAndOpen, OwedUp, Ordinary, ComesDown, ComingUp, Noted, Holding,
     DestroySteps, ToBeTornDown, RestoreSteps, Suspending
<1> QED
  BY <1>2, <1>3, <1>4, <1>5, <1>6 DEF IInv

LEMMA RemoveFreesKeeps ==
    ASSUME IInv, RemoveFrees
    PROVE  IInv'
<1>1. op' = op /\ todo' = todo
  BY DEF RemoveFrees, lockVars, removalOnly
<1>2. /\ Shape' /\ Left' = Left /\ top' = top
      /\ top = "end" \/ top \in Left
      /\ todo = << >> => top = "end" /\ Left = {}
  BY <1>1, FirstOf, EmptyShape DEF IInv, Shape, Left, top
<1> USE DEF RemoveFrees, flagVars, devVars, localVars, watchVars, lockVars, boundVars
<1>3. Types'
  <2>1. open' \in BOOLEAN
    BY DEF IInv, Types
  <2> QED
    BY <1>1, <2>1 DEF IInv, Types, Reasons, AllOperations, NORMAL
<1>4. Bounds'
  BY BoundsAssumption DEF IInv, Bounds
<1>5. Asking' /\ TornDown' /\ Watching' /\ Whole' /\ Place'
  BY <1>1, <1>2 DEF IInv, Asking, Requesters, Alive, TornDown, Off, Watching, Watched,
     ToBeTornDown, Whole, Place, RunsOrStopped, Restoring, Quiet, Running, Stopped
<1>6. UpAndOpen' /\ Holding' /\ Suspending'
  BY <1>1, <1>2 DEF IInv, UpAndOpen, Place, Types, OwedUp, Ordinary, ComesDown, ComingUp,
     Noted, RunsOrStopped, Restoring, Quiet, Running, Stopped, Off, Reasons, AllOperations,
     NORMAL, Below, Follow, FollowsDestroy, Lower, Teardown, Holding, DestroySteps,
     ToBeTornDown, RestoreSteps, Suspending
<1> QED
  BY <1>2, <1>3, <1>4, <1>5, <1>6 DEF IInv

LEMMA ReleaseKeeps ==
    ASSUME IInv, Release
    PROVE  IInv'
<1>1. op' = "none" /\ todo = << >> /\ todo' = << >>
  BY DEF Release
<1>2. Shape' /\ Left = {} /\ top = "end" /\ Left' = {} /\ top' = "end"
  BY <1>1, EmptyShape DEF IInv, Shape, Left, top
<1> USE DEF Release, flagVars, devVars, localVars, watchVars, boundVars
<1>3. Types'
  <2>1. suspended' \in BOOLEAN
    BY DEF IInv, Types
  <2> QED
    BY <1>1, <2>1 DEF IInv, Types, Reasons, AllOperations, NORMAL
<1>4. Bounds'
  BY BoundsAssumption DEF IInv, Bounds
<1>5. Asking' /\ TornDown' /\ Watching' /\ Whole' /\ Holding' /\ Suspending'
  <2>1. Asking' /\ TornDown'
    BY <1>1, <1>2 DEF IInv, Asking, Requesters, Alive, TornDown, Off, Types
  <2>2. Watching' /\ Whole'
    BY <1>1, <1>2 DEF IInv, Watching, Watched, ToBeTornDown, Whole, Types
  <2>3. Holding' /\ Suspending'
    BY <1>1, <1>2 DEF IInv, ToBeTornDown, Holding, DestroySteps, Ordinary, RestoreSteps,
       Suspending, Place, Types, RunsOrStopped, Running, Stopped
  <2> QED
    BY <2>1, <2>2, <2>3
<1>6. Place'
  BY <1>1, <1>2 DEF IInv, Place, RunsOrStopped, Restoring, Quiet, Running, Stopped, Off
<1>7. UpAndOpen'
  BY <1>1, <1>2 DEF IInv, UpAndOpen, OwedUp, Ordinary, ComesDown, ComingUp, Noted
<1> QED
  BY <1>2, <1>3, <1>4, <1>5, <1>6, <1>7 DEF IInv

-----------------------------------------------------------------------------
(***************************************************************************)
(* So does whoever takes rtnl                                              *)
(***************************************************************************)
\* An operation starts with nothing left.
LEMMA Started1 ==
    ASSUME NEW o, NEW a \in Steps, "end" \in Follow(a, o)
    PROVE  WellFormed(<<a>>, o) /\ Elems(<<a>>) = {a} /\ First(<<a>>) = a
<1>1. WellFormed(<< >>, o) /\ First(<< >>) = "end" /\ Elems(<< >>) = {}
  BY EmptyShape
<1>2. <<a>> \o << >> = <<a>>
  OBVIOUS
<1>3. \A s : /\ WellFormed(s, o) /\ First(s) = "end" /\ Elems(s) = {}
             => /\ WellFormed(<<a>> \o s, o) /\ First(<<a>> \o s) = a
                /\ Elems(<<a>> \o s) = {a} \cup Elems(s)
  BY Push
<1> QED
  BY <1>1, <1>2, <1>3

LEMMA Started2 ==
    ASSUME NEW o, NEW a \in Steps, NEW b \in Steps,
           "end" \in Follow(b, o), b \in Follow(a, o), b \in Below(a)
    PROVE  WellFormed(<<a, b>>, o) /\ Elems(<<a, b>>) = {a, b} /\ First(<<a, b>>) = a
<1>1. WellFormed(<<b>>, o) /\ First(<<b>>) = b /\ Elems(<<b>>) = {b}
  BY Started1
<1>2. <<a, b>> = <<a>> \o <<b>>
  BY Pair
<1>3. /\ WellFormed(<<a>> \o <<b>>, o) /\ Elems(<<a>> \o <<b>>) = {a} \cup {b}
      /\ First(<<a>> \o <<b>>) = a
  <2>1. \A s : /\ WellFormed(s, o) /\ First(s) = b /\ Elems(s) = {b}
               => /\ WellFormed(<<a>> \o s, o) /\ First(<<a>> \o s) = a
                  /\ Elems(<<a>> \o s) = {a} \cup {b}
    BY Push
  <2> QED
    BY <1>1, <2>1
<1> QED
  BY <1>2, <1>3

LEMMA OpenInterfaceKeeps ==
    ASSUME IInv, OpenInterface
    PROVE  IInv'
<1>1. op = "none" /\ op' = "open" /\ todo = << >>
  BY DEF IInv, Holding, OpenInterface, UserTakes, Take
<1>2. /\ Shape' /\ Left = {} /\ top = "end"
      /\ Left' = {"ena_up", "opened"} /\ top' = "ena_up"
  <2>1. Left = {} /\ top = "end"
    BY <1>1, EmptyShape DEF Left, top
  <2>2. todo' = <<"ena_up", "opened">>
    BY DEF OpenInterface, UserTakes, Take
  <2>3. /\ {"ena_up", "opened"} \subseteq Steps
        /\ "end" \in Follow("opened", "open")
        /\ "opened" \in Follow("ena_up", "open") /\ "opened" \in Below("ena_up")
    BY DEF Follow, FollowsDestroy, Below, Teardown, Lower, Steps
  <2>4. /\ WellFormed(<<"ena_up", "opened">>, "open")
             /\ Elems(<<"ena_up", "opened">>) = {"ena_up", "opened"}
        /\ First(<<"ena_up", "opened">>) = "ena_up"
    BY <2>3, Started2
  <2> QED
    BY <1>1, <2>1, <2>2, <2>4 DEF Shape, Left, top
<1> USE DEF OpenInterface, UserTakes, flagVars, localVars, Take, devVars, watchVars
<1>3. Types'
  <2>1. open' \in BOOLEAN
    BY DEF IInv, Types
  <2> QED
    BY <1>1, <2>1 DEF IInv, Types, Reasons, AllOperations, NORMAL
<1>4. Bounds'
  BY BoundsAssumption DEF IInv, Bounds
<1>5. Asking' /\ TornDown' /\ Watching' /\ Whole' /\ Holding' /\ Suspending'
  BY <1>1, <1>2 DEF IInv, Asking, Requesters, Alive, TornDown, Off, Watching, Watched,
     ToBeTornDown, Whole, Holding, DestroySteps, Ordinary, RestoreSteps, Suspending
<1>6. Place'
  BY <1>1, <1>2 DEF IInv, Place, RunsOrStopped, Restoring, Quiet, Running, Stopped, Off
<1>7. UpAndOpen'
  BY <1>1, <1>2 DEF IInv, UpAndOpen, Place, Holding, OwedUp, Ordinary, ComesDown, ComingUp,
     Noted, RunsOrStopped, Restoring, Quiet, Running, Stopped, Off, DestroySteps,
     ToBeTornDown, RestoreSteps, Below, Follow, FollowsDestroy, Lower, Teardown
<1> QED
  BY <1>2, <1>3, <1>4, <1>5, <1>6, <1>7 DEF IInv

LEMMA CloseInterfaceKeeps ==
    ASSUME IInv, CloseInterface
    PROVE  IInv'
<1>1. op = "none" /\ op' = "close" /\ todo = << >>
  BY DEF IInv, Holding, CloseInterface, UserTakes, Take
<1>2. /\ Shape' /\ Left = {} /\ top = "end"
      /\ Left' = {"ena_close"} /\ top' = "ena_close"
  <2>1. Left = {} /\ top = "end"
    BY <1>1, EmptyShape DEF Left, top
  <2>2. todo' = <<"ena_close">>
    BY DEF CloseInterface, UserTakes, Take
  <2>3. /\ {"ena_close"} \subseteq Steps
        /\ "end" \in Follow("ena_close", "close")
    BY DEF Follow, FollowsDestroy, Below, Teardown, Lower, Steps
  <2>4. /\ WellFormed(<<"ena_close">>, "close") /\ Elems(<<"ena_close">>) = {"ena_close"}
        /\ First(<<"ena_close">>) = "ena_close"
    BY <2>3, Started1
  <2> QED
    BY <1>1, <2>1, <2>2, <2>4 DEF Shape, Left, top
<1> USE DEF CloseInterface, UserTakes, flagVars, localVars, Take, devVars, watchVars
<1>3. Types'
  <2>1. open' \in BOOLEAN
    BY DEF IInv, Types
  <2> QED
    BY <1>1, <2>1 DEF IInv, Types, Reasons, AllOperations, NORMAL
<1>4. Bounds'
  BY BoundsAssumption DEF IInv, Bounds
<1>5. Asking' /\ TornDown' /\ Watching' /\ Whole' /\ Holding' /\ Suspending'
  BY <1>1, <1>2 DEF IInv, Asking, Requesters, Alive, TornDown, Off, Watching, Watched,
     ToBeTornDown, Whole, Holding, DestroySteps, Ordinary, RestoreSteps, Suspending
<1>6. Place'
  BY <1>1, <1>2 DEF IInv, Place, RunsOrStopped, Restoring, Quiet, Running, Stopped, Off
<1>7. UpAndOpen'
  BY <1>1, <1>2 DEF IInv, UpAndOpen, Place, Holding, OwedUp, Ordinary, ComesDown, ComingUp,
     Noted, RunsOrStopped, Restoring, Quiet, Running, Stopped, Off, DestroySteps,
     ToBeTornDown, RestoreSteps, Below, Follow, FollowsDestroy, Lower, Teardown
<1> QED
  BY <1>2, <1>3, <1>4, <1>5, <1>6, <1>7 DEF IInv

LEMMA LargeLlqKeeps ==
    ASSUME IInv, LargeLlq
    PROVE  IInv'
<1>1. op = "none" /\ op' = "large_llq" /\ todo = << >>
  BY DEF IInv, Holding, LargeLlq, UserTakes, Take
<1>2. /\ Shape' /\ Left = {} /\ top = "end"
      /\ Left' = {"ena_destroy_device", "ena_restore_device"} /\ top' = "ena_destroy_device"
  <2>1. Left = {} /\ top = "end"
    BY <1>1, EmptyShape DEF Left, top
  <2>2. todo' = <<"ena_destroy_device", "ena_restore_device">>
    BY DEF LargeLlq, UserTakes, Take
  <2>3. /\ {"ena_destroy_device", "ena_restore_device"} \subseteq Steps
        /\ "end" \in Follow("ena_restore_device", "large_llq")
        /\ "ena_restore_device" \in Follow("ena_destroy_device", "large_llq")
             /\ "ena_restore_device" \in Below("ena_destroy_device")
    BY DEF Follow, FollowsDestroy, Below, Teardown, Lower, Steps
  <2>4. /\ WellFormed(<<"ena_destroy_device", "ena_restore_device">>, "large_llq")
             /\ Elems(<<"ena_destroy_device",
                  "ena_restore_device">>) = {"ena_destroy_device", "ena_restore_device"}
        /\ First(<<"ena_destroy_device", "ena_restore_device">>) = "ena_destroy_device"
    BY <2>3, Started2
  <2> QED
    BY <1>1, <2>1, <2>2, <2>4 DEF Shape, Left, top
<1> USE DEF LargeLlq, UserTakes, flagVars, localVars, Take, devVars, watchVars
<1>3. Types'
  BY <1>1 DEF IInv, Types, Reasons, AllOperations, NORMAL
<1>4. Bounds'
  BY BoundsAssumption DEF IInv, Bounds
<1>5. Asking' /\ TornDown' /\ Watching' /\ Whole' /\ Holding' /\ Suspending'
  BY <1>1, <1>2 DEF IInv, Asking, Requesters, Alive, TornDown, Off, Watching, Watched,
     ToBeTornDown, Whole, Holding, DestroySteps, Ordinary, RestoreSteps, Suspending
<1>6. Place'
  BY <1>1, <1>2 DEF IInv, Place, RunsOrStopped, Restoring, Quiet, Running, Stopped, Off
<1>7. UpAndOpen'
  BY <1>1, <1>2 DEF IInv, UpAndOpen, OwedUp, Ordinary, ComesDown, ComingUp, Noted
<1> QED
  BY <1>2, <1>3, <1>4, <1>5, <1>6, <1>7 DEF IInv

LEMMA SuspendKeeps ==
    ASSUME IInv, Suspend
    PROVE  IInv'
<1>1. op = "none" /\ op' = "suspend" /\ todo = << >>
  BY DEF IInv, Holding, Suspend, UserTakes, Take
<1>2. /\ Shape' /\ Left = {} /\ top = "end"
      /\ Left' = {"ena_destroy_device"} /\ top' = "ena_destroy_device"
  <2>1. Left = {} /\ top = "end"
    BY <1>1, EmptyShape DEF Left, top
  <2>2. todo' = <<"ena_destroy_device">>
    BY DEF Suspend, UserTakes, Take
  <2>3. /\ {"ena_destroy_device"} \subseteq Steps
        /\ "end" \in Follow("ena_destroy_device", "suspend")
    BY DEF Follow, FollowsDestroy, Below, Teardown, Lower, Steps
  <2>4. /\ WellFormed(<<"ena_destroy_device">>, "suspend")
             /\ Elems(<<"ena_destroy_device">>) = {"ena_destroy_device"}
        /\ First(<<"ena_destroy_device">>) = "ena_destroy_device"
    BY <2>3, Started1
  <2> QED
    BY <1>1, <2>1, <2>2, <2>4 DEF Shape, Left, top
<1> USE DEF Suspend, UserTakes, localVars, Take, devVars, watchVars
<1>3. Types'
  <2>1. suspended' \in BOOLEAN /\ TRIGGER_RESET' \in BOOLEAN
    BY DEF IInv, Types
  <2> QED
    BY <1>1, <2>1 DEF IInv, Types, Reasons, AllOperations, NORMAL
<1>4. Bounds'
  BY BoundsAssumption DEF IInv, Bounds
<1>5. Asking' /\ TornDown' /\ Watching' /\ Whole' /\ Holding' /\ Suspending'
  BY <1>1, <1>2 DEF IInv, Asking, Requesters, Alive, TornDown, Off, Watching, Watched,
     ToBeTornDown, Whole, Holding, DestroySteps, Ordinary, RestoreSteps, Suspending
<1>6. Place'
  BY <1>1, <1>2 DEF IInv, Place, RunsOrStopped, Restoring, Quiet, Running, Stopped, Off
<1>7. UpAndOpen'
  BY <1>1, <1>2 DEF IInv, UpAndOpen, OwedUp, Ordinary, ComesDown, ComingUp, Noted
<1> QED
  BY <1>2, <1>3, <1>4, <1>5, <1>6, <1>7 DEF IInv

LEMMA ResumeKeeps ==
    ASSUME IInv, Resume
    PROVE  IInv'
<1>1. op = "none" /\ op' = "resume" /\ todo = << >>
  BY DEF IInv, Holding, Resume, UserTakes, Take
<1>2. /\ Shape' /\ Left = {} /\ top = "end"
      /\ Left' = {"ena_restore_device"} /\ top' = "ena_restore_device"
  <2>1. Left = {} /\ top = "end"
    BY <1>1, EmptyShape DEF Left, top
  <2>2. todo' = <<"ena_restore_device">>
    BY DEF Resume, UserTakes, Take
  <2>3. /\ {"ena_restore_device"} \subseteq Steps
        /\ "end" \in Follow("ena_restore_device", "resume")
    BY DEF Follow, FollowsDestroy, Below, Teardown, Lower, Steps
  <2>4. /\ WellFormed(<<"ena_restore_device">>, "resume")
             /\ Elems(<<"ena_restore_device">>) = {"ena_restore_device"}
        /\ First(<<"ena_restore_device">>) = "ena_restore_device"
    BY <2>3, Started1
  <2> QED
    BY <1>1, <2>1, <2>2, <2>4 DEF Shape, Left, top
<1> USE DEF Resume, Take, flagVars, devVars, localVars, watchVars, userVars, boundVars
<1>3. Types'
  BY <1>1 DEF IInv, Types, Reasons, AllOperations, NORMAL
<1>4. Bounds'
  BY BoundsAssumption DEF IInv, Bounds
<1>5. Asking' /\ TornDown' /\ Watching' /\ Whole' /\ Holding' /\ Suspending'
  BY <1>1, <1>2 DEF IInv, Asking, Requesters, Alive, TornDown, Off, Watching, Watched,
     ToBeTornDown, Whole, Holding, DestroySteps, Ordinary, RestoreSteps, Suspending
<1>6. Place'
  BY <1>1, <1>2 DEF IInv, Place, Holding, Suspending, RunsOrStopped, Restoring, Quiet,
     Running, Stopped, Off, DestroySteps, ToBeTornDown, Ordinary, RestoreSteps, Below,
     Follow, FollowsDestroy, Lower, Teardown
<1>7. UpAndOpen'
  BY <1>1, <1>2 DEF IInv, UpAndOpen, OwedUp, Ordinary, ComesDown, ComingUp, Noted
<1> QED
  BY <1>2, <1>3, <1>4, <1>5, <1>6, <1>7 DEF IInv

LEMMA ReloadDownKeeps ==
    ASSUME IInv, ReloadDown
    PROVE  IInv'
<1>1. op = "none" /\ op' = "reload_down" /\ todo = << >>
  BY DEF IInv, Holding, ReloadDown, UserTakes, Take
<1>2. /\ Shape' /\ Left = {} /\ top = "end"
      /\ Left' = {"ena_destroy_device"} /\ top' = "ena_destroy_device"
  <2>1. Left = {} /\ top = "end"
    BY <1>1, EmptyShape DEF Left, top
  <2>2. todo' = <<"ena_destroy_device">>
    BY DEF ReloadDown, UserTakes, Take
  <2>3. /\ {"ena_destroy_device"} \subseteq Steps
        /\ "end" \in Follow("ena_destroy_device", "reload_down")
    BY DEF Follow, FollowsDestroy, Below, Teardown, Lower, Steps
  <2>4. /\ WellFormed(<<"ena_destroy_device">>, "reload_down")
             /\ Elems(<<"ena_destroy_device">>) = {"ena_destroy_device"}
        /\ First(<<"ena_destroy_device">>) = "ena_destroy_device"
    BY <2>3, Started1
  <2> QED
    BY <1>1, <2>1, <2>2, <2>4 DEF Shape, Left, top
<1> USE DEF ReloadDown, Take, flagVars, devVars, localVars, watchVars, userVars, boundVars
<1>3. Types'
  BY <1>1 DEF IInv, Types, Reasons, AllOperations, NORMAL
<1>4. Bounds'
  BY BoundsAssumption DEF IInv, Bounds
<1>5. Asking' /\ TornDown' /\ Watching' /\ Whole' /\ Holding' /\ Suspending'
  BY <1>1, <1>2 DEF IInv, Asking, Requesters, Alive, TornDown, Off, Watching, Watched,
     ToBeTornDown, Whole, Holding, DestroySteps, Ordinary, RestoreSteps, Suspending
<1>6. Place'
  BY <1>1, <1>2 DEF IInv, Place, RunsOrStopped, Restoring, Quiet, Running, Stopped, Off
<1>7. UpAndOpen'
  BY <1>1, <1>2 DEF IInv, UpAndOpen, OwedUp, Ordinary, ComesDown, ComingUp, Noted
<1> QED
  BY <1>2, <1>3, <1>4, <1>5, <1>6, <1>7 DEF IInv

LEMMA ReloadUpKeeps ==
    ASSUME IInv, ReloadUp
    PROVE  IInv'
<1>1. op = "none" /\ op' = "reload_up" /\ todo = << >>
  BY DEF IInv, Holding, ReloadUp, UserTakes, Take
<1>2. /\ Shape' /\ Left = {} /\ top = "end"
      /\ \/ ~DEVICE_RUNNING /\ Left' = {"ena_restore_device"} /\ top' = "ena_restore_device"
         \/ DEVICE_RUNNING /\ Left' = {} /\ top' = "end" /\ todo' = << >>
  <2>1. Left = {} /\ top = "end"
    BY <1>1, EmptyShape DEF Left, top
  <2>2. CASE ~DEVICE_RUNNING
    <3>1. todo' = <<"ena_restore_device">>
      BY <2>2 DEF ReloadUp, UserTakes, Take, When
    <3>2. /\ {"ena_restore_device"} \subseteq Steps
          /\ "end" \in Follow("ena_restore_device", "reload_up")
      BY DEF Follow, FollowsDestroy, Below, Teardown, Lower, Steps
    <3>3. /\ WellFormed(<<"ena_restore_device">>, "reload_up")
               /\ Elems(<<"ena_restore_device">>) = {"ena_restore_device"}
          /\ First(<<"ena_restore_device">>) = "ena_restore_device"
      BY <3>2, Started1
    <3> QED
      BY <1>1, <2>1, <2>2, <3>1, <3>3 DEF Shape, Left, top
  <2>3. CASE DEVICE_RUNNING
    <3>1. todo' = << >>
      BY <2>3 DEF ReloadUp, UserTakes, Take, When
    <3> QED
      BY <1>1, <2>1, <2>3, <3>1, EmptyShape DEF Shape, Left, top
  <2> QED
    BY <2>1, <2>2, <2>3 DEF IInv, Types
<1> USE DEF ReloadUp, Take, flagVars, devVars, localVars, watchVars, userVars, boundVars
<1>3. Types'
  BY <1>1 DEF IInv, Types, Reasons, AllOperations, NORMAL
<1>4. Bounds'
  BY BoundsAssumption DEF IInv, Bounds
<1>5. Asking' /\ TornDown' /\ Watching' /\ Whole' /\ Holding' /\ Suspending'
  BY <1>1, <1>2 DEF IInv, Asking, Requesters, Alive, TornDown, Off, Watching, Watched,
     ToBeTornDown, Whole, Holding, DestroySteps, Ordinary, RestoreSteps, Suspending
<1>6. Place'
  BY <1>1, <1>2 DEF IInv, Place, RunsOrStopped, Restoring, Quiet, Running, Stopped, Off
<1>7. UpAndOpen'
  BY <1>1, <1>2 DEF IInv, UpAndOpen, OwedUp, Ordinary, ComesDown, ComingUp, Noted
<1> QED
  BY <1>2, <1>3, <1>4, <1>5, <1>6, <1>7 DEF IInv

LEMMA ResetTaskKeeps ==
    ASSUME IInv, ResetTask
    PROVE  IInv'
<1>1. op = "none" /\ op' = "reset_task" /\ todo = << >>
  BY DEF IInv, Holding, ResetTask, UserTakes, Take
<1>2. /\ Shape' /\ Left = {} /\ top = "end"
      /\ \/ TRIGGER_RESET /\ Left' = {"ena_destroy_device", "ena_restore_device"}
              /\ top' = "ena_destroy_device"
         \/ ~TRIGGER_RESET /\ Left' = {} /\ top' = "end" /\ todo' = << >>
  <2>1. Left = {} /\ top = "end"
    BY <1>1, EmptyShape DEF Left, top
  <2>2. CASE TRIGGER_RESET
    <3>1. todo' = <<"ena_destroy_device", "ena_restore_device">>
      BY <2>2 DEF ResetTask, UserTakes, Take, When
    <3>2. /\ {"ena_destroy_device", "ena_restore_device"} \subseteq Steps
          /\ "end" \in Follow("ena_restore_device", "reset_task")
          /\ "ena_restore_device" \in Follow("ena_destroy_device", "reset_task")
               /\ "ena_restore_device" \in Below("ena_destroy_device")
      BY DEF Follow, FollowsDestroy, Below, Teardown, Lower, Steps
    <3>3. /\ WellFormed(<<"ena_destroy_device", "ena_restore_device">>, "reset_task")
               /\ Elems(<<"ena_destroy_device",
                    "ena_restore_device">>) = {"ena_destroy_device", "ena_restore_device"}
          /\ First(<<"ena_destroy_device", "ena_restore_device">>) = "ena_destroy_device"
      BY <3>2, Started2
    <3> QED
      BY <1>1, <2>1, <2>2, <3>1, <3>3 DEF Shape, Left, top
  <2>3. CASE ~TRIGGER_RESET
    <3>1. todo' = << >>
      BY <2>3 DEF ResetTask, UserTakes, Take, When
    <3> QED
      BY <1>1, <2>1, <2>3, <3>1, EmptyShape DEF Shape, Left, top
  <2> QED
    BY <2>1, <2>2, <2>3 DEF IInv, Types
<1> USE DEF ResetTask, Take, flagVars, devVars, localVars, userVars, boundVars
<1>3. Types'
  <2>1. reset_task' \in BOOLEAN
    BY DEF IInv, Types
  <2> QED
    BY <1>1, <2>1 DEF IInv, Types, Reasons, AllOperations, NORMAL
<1>4. Bounds'
  BY BoundsAssumption DEF IInv, Bounds
<1>5. Asking' /\ TornDown' /\ Watching' /\ Whole' /\ Holding' /\ Suspending'
  BY <1>1, <1>2 DEF IInv, Asking, Requesters, Alive, TornDown, Off, Watching, Watched,
     ToBeTornDown, Whole, Holding, DestroySteps, Ordinary, RestoreSteps, Suspending
<1>6. Place'
  BY <1>1, <1>2 DEF IInv, Place, RunsOrStopped, Restoring, Quiet, Running, Stopped, Off
<1>7. UpAndOpen'
  BY <1>1, <1>2 DEF IInv, UpAndOpen, OwedUp, Ordinary, ComesDown, ComingUp, Noted
<1> QED
  BY <1>2, <1>3, <1>4, <1>5, <1>6, <1>7 DEF IInv

LEMMA RemoveTakesKeeps ==
    ASSUME IInv, RemoveTakes
    PROVE  IInv'
<1>1. op = "none" /\ op' = "remove" /\ todo = << >>
  BY DEF IInv, Holding, RemoveTakes, UserTakes, Take
<1>2. /\ Shape' /\ Left = {} /\ top = "end"
      /\ Left' = {"ena_destroy_device", "ena_devlink_unregister"}
           /\ top' = "ena_destroy_device"
  <2>1. Left = {} /\ top = "end"
    BY <1>1, EmptyShape DEF Left, top
  <2>2. todo' = <<"ena_destroy_device", "ena_devlink_unregister">>
    BY DEF RemoveTakes, UserTakes, Take
  <2>3. /\ {"ena_destroy_device", "ena_devlink_unregister"} \subseteq Steps
        /\ "end" \in Follow("ena_devlink_unregister", "remove")
        /\ "ena_devlink_unregister" \in Follow("ena_destroy_device", "remove")
             /\ "ena_devlink_unregister" \in Below("ena_destroy_device")
    BY DEF Follow, FollowsDestroy, Below, Teardown, Lower, Steps
  <2>4. /\ WellFormed(<<"ena_destroy_device", "ena_devlink_unregister">>, "remove")
             /\ Elems(<<"ena_destroy_device",
                  "ena_devlink_unregister">>) = {"ena_destroy_device",
                    "ena_devlink_unregister"}
        /\ First(<<"ena_destroy_device", "ena_devlink_unregister">>) = "ena_destroy_device"
    BY <2>3, Started2
  <2> QED
    BY <1>1, <2>1, <2>2, <2>4 DEF Shape, Left, top
<1> USE DEF RemoveTakes, Take, devVars, localVars, watchVars, boundVars
<1>3. Types'
  BY <1>1 DEF IInv, Types, Reasons, AllOperations, NORMAL
<1>4. Bounds'
  BY BoundsAssumption DEF IInv, Bounds
<1>5. Asking' /\ TornDown' /\ Watching' /\ Whole' /\ Holding' /\ Suspending'
  BY <1>1, <1>2 DEF IInv, Asking, Requesters, Alive, TornDown, Off, Watching, Watched,
     ToBeTornDown, Whole, Holding, DestroySteps, Ordinary, RestoreSteps, Suspending
<1>6. Place'
  BY <1>1, <1>2 DEF IInv, Place, RunsOrStopped, Restoring, Quiet, Running, Stopped, Off
<1>7. UpAndOpen'
  BY <1>1, <1>2 DEF IInv, UpAndOpen, OwedUp, Ordinary, ComesDown, ComingUp, Noted
<1> QED
  BY <1>2, <1>3, <1>4, <1>5, <1>6, <1>7 DEF IInv

LEMMA ConcatsOfUsers ==
    /\ <<"ena_down">> \o <<"up_if_was_up">> = <<"ena_down", "up_if_was_up">>
    /\ << >> \o <<"up_if_was_up">> = <<"up_if_was_up">>
    /\ (<<"ena_close">> \o << >>) \o <<"up_if_was_up">> = <<"ena_close", "up_if_was_up">>
<1>1. << >> \in Seq(Steps) /\ \A a \in Steps : <<a>> \in Seq(Steps)
  OBVIOUS
<1>2. \A s \in Seq(Steps) : << >> \o s = s /\ s \o << >> = s
  OBVIOUS
<1>3. \A a, b \in Steps : <<a, b>> = <<a>> \o <<b>>
  BY Pair
<1>5. {"ena_down", "up_if_was_up", "ena_close"} \subseteq Steps
  BY DEF Steps
<1>6. <<"ena_close">> \o << >> = <<"ena_close">>
  BY <1>1, <1>2, <1>5
<1> QED
  BY <1>1, <1>2, <1>3, <1>5, <1>6

LEMMA XdpSetKeeps ==
    ASSUME IInv, XdpSet
    PROVE  IInv'
<1>1. op = "none" /\ op' = "xdp_set" /\ todo = << >>
  BY DEF IInv, Holding, XdpSet, UserTakes, Take
<1>2. /\ Shape' /\ Left = {} /\ top = "end"
      /\ \/ DEV_UP /\ Left' = {"ena_down", "up_if_was_up"} /\ top' = "ena_down"
         \/ ~DEV_UP /\ Left' = {"up_if_was_up"} /\ top' = "up_if_was_up"
  <2>1. Left = {} /\ top = "end"
    BY <1>1, EmptyShape DEF Left, top
  <2>2. CASE DEV_UP
    <3>1. todo' = <<"ena_down", "up_if_was_up">>
      BY <2>2, ConcatsOfUsers DEF XdpSet, UserTakes, Take, When
    <3>2. /\ {"ena_down", "up_if_was_up"} \subseteq Steps
          /\ "end" \in Follow("up_if_was_up", "xdp_set")
          /\ "up_if_was_up" \in Follow("ena_down", "xdp_set")
               /\ "up_if_was_up" \in Below("ena_down")
      BY DEF Follow, FollowsDestroy, Below, Teardown, Lower, Steps
    <3>3. /\ WellFormed(<<"ena_down", "up_if_was_up">>, "xdp_set")
               /\ Elems(<<"ena_down", "up_if_was_up">>) = {"ena_down", "up_if_was_up"}
          /\ First(<<"ena_down", "up_if_was_up">>) = "ena_down"
      BY <3>2, Started2
    <3> QED
      BY <1>1, <2>1, <2>2, <3>1, <3>3 DEF Shape, Left, top
  <2>3. CASE ~DEV_UP
    <3>1. todo' = <<"up_if_was_up">>
      BY <2>3, ConcatsOfUsers DEF XdpSet, UserTakes, Take, When
    <3>2. /\ {"up_if_was_up"} \subseteq Steps
          /\ "end" \in Follow("up_if_was_up", "xdp_set")
      BY DEF Follow, FollowsDestroy, Below, Teardown, Lower, Steps
    <3>3. /\ WellFormed(<<"up_if_was_up">>, "xdp_set")
               /\ Elems(<<"up_if_was_up">>) = {"up_if_was_up"}
          /\ First(<<"up_if_was_up">>) = "up_if_was_up"
      BY <3>2, Started1
    <3> QED
      BY <1>1, <2>1, <2>3, <3>1, <3>3 DEF Shape, Left, top
  <2> QED
    BY <2>1, <2>2, <2>3 DEF IInv, Types
<1> USE DEF XdpSet, UserTakes, flagVars, Take, devVars, watchVars
<1>3. Types'
  <2>1. dev_was_up' \in BOOLEAN
    BY DEF IInv, Types
  <2> QED
    BY <1>1, <2>1 DEF IInv, Types, Reasons, AllOperations, NORMAL
<1>4. Bounds'
  BY BoundsAssumption DEF IInv, Bounds
<1>5. Asking' /\ TornDown' /\ Watching' /\ Whole' /\ Holding' /\ Suspending'
  BY <1>1, <1>2 DEF IInv, Asking, Requesters, Alive, TornDown, Off, Watching, Watched,
     ToBeTornDown, Whole, Holding, DestroySteps, Ordinary, RestoreSteps, Suspending
<1>6. Place'
  BY <1>1, <1>2 DEF IInv, Place, RunsOrStopped, Restoring, Quiet, Running, Stopped, Off
<1>7. UpAndOpen'
  BY <1>1, <1>2 DEF IInv, UpAndOpen, OwedUp, Ordinary, ComesDown, ComingUp, Noted
<1> QED
  BY <1>2, <1>3, <1>4, <1>5, <1>6, <1>7 DEF IInv

\* What Reconfigure starts with.
LEMMA Started4 ==
    ASSUME NEW o, o \notin {"suspend", "reload_down", "remove"}, NEW s,
           s = (<<"ena_close">> \o <<"ena_destroy_device", "ena_restore_device">>)
                 \o <<"up_if_was_up">>
    PROVE  /\ WellFormed(s, o) /\ First(s) = "ena_close"
           /\ Elems(s) = {"ena_close", "ena_destroy_device", "ena_restore_device",
                "up_if_was_up"}
<1> DEFINE a == "ena_close"  b == "ena_destroy_device"  c == "ena_restore_device"  d == "up_if_was_up"
<1>1. a \in Steps /\ b \in Steps /\ c \in Steps /\ d \in Steps
  BY DEF Steps
<1>2. /\ d \in Follow(c, o) /\ c \in Follow(b, o) /\ b \in Follow(a, o)
           /\ "end" \in Follow(d, o)
      /\ d \in Below(c) /\ {c, d} \subseteq Below(b) /\ {b, c, d} \subseteq Below(a)
  BY DEF Follow, FollowsDestroy, Below, Lower
<1>3. s = (<<a>> \o <<b, c>>) \o <<d>>
  OBVIOUS
<1> HIDE DEF a, b, c, d
<1>4. WellFormed(<<d>>, o) /\ First(<<d>>) = d /\ Elems(<<d>>) = {d}
  BY <1>1, <1>2, Started1
<1> DEFINE t == <<d>>
           p == <<c>> \o t
           q == <<b>> \o p
           r == <<a>> \o q
<1>5. s = r
  <2>1. /\ <<a>> \in Seq(Steps) /\ <<b, c>> \in Seq(Steps) /\ <<d>> \in Seq(Steps)
    BY <1>1
  <2>2. (<<a>> \o <<b, c>>) \o <<d>> = <<a>> \o (<<b, c>> \o <<d>>)
    BY <2>1, ConcatAssociative
  <2>3. <<b, c>> \o <<d>> = <<b>> \o (<<c>> \o <<d>>)
    BY <1>1, <2>1, Cons2
  <2> QED
    BY <1>3, <2>2, <2>3
<1> WellFormed(t, o) /\ First(t) = d /\ Elems(t) = {d}
  BY <1>4
<1> HIDE DEF t
<1>6. WellFormed(p, o) /\ First(p) = c /\ Elems(p) = {c, d}
  <2>1. WellFormed(p, o) /\ First(p) = c /\ Elems(p) = {c} \cup Elems(t)
    BY <1>1, <1>2, Push
  <2> QED
    BY <2>1
<1> HIDE DEF p
<1>7. WellFormed(q, o) /\ First(q) = b /\ Elems(q) = {b, c, d}
  <2>1. WellFormed(q, o) /\ First(q) = b /\ Elems(q) = {b} \cup Elems(p)
    BY <1>1, <1>2, <1>6, Push
  <2> QED
    BY <1>6, <2>1
<1> HIDE DEF q
<1>8. WellFormed(r, o) /\ First(r) = a /\ Elems(r) = {a, b, c, d}
  <2>1. WellFormed(r, o) /\ First(r) = a /\ Elems(r) = {a} \cup Elems(q)
    BY <1>1, <1>2, <1>7, Push
  <2> QED
    BY <1>7, <2>1
<1> QED
  BY <1>5, <1>8 DEF a, b, c, d

LEMMA ReconfigureKeeps ==
    ASSUME IInv, Reconfigure
    PROVE  IInv'
<1>1. /\ op = "none" /\ op' = "reconfigure" /\ todo = << >>
      /\ dev_was_up' = DEV_UP /\ ~suspended /\ removal # "freed"
      /\ UNCHANGED <<flagVars, open, dev_up_before_reset, upFailed, restoreFailed, suspended,
                     devVars, watchVars, reload, removal>>
  BY DEF IInv, Holding, Reconfigure, UserTakes, Take
<1>2. /\ Shape' /\ Left = {} /\ top = "end"
      /\ \/ Left' = {"ena_close", "ena_destroy_device", "ena_restore_device",
              "up_if_was_up"} /\ top' = "ena_close"
         \/ Left' = {"ena_close", "up_if_was_up"} /\ top' = "ena_close"
  <2>1. Left = {} /\ top = "end"
    BY <1>1, EmptyShape DEF Left, top
  <2>2. PICK device \in BOOLEAN :
          todo' = <<"ena_close">>
                    \o (IF device THEN <<"ena_destroy_device",
                      "ena_restore_device">> ELSE << >>)
                    \o <<"up_if_was_up">>
    BY DEF Reconfigure, UserTakes, Take, When
  <2>3. CASE device
    <3> DEFINE s == (<<"ena_close">> \o <<"ena_destroy_device", "ena_restore_device">>)
                      \o <<"up_if_was_up">>
    <3>1. todo' = s
      BY <2>2, <2>3
    <3>2. /\ WellFormed(s, "reconfigure") /\ First(s) = "ena_close"
          /\ Elems(s) = {"ena_close", "ena_destroy_device", "ena_restore_device",
               "up_if_was_up"}
      BY Started4
    <3> QED
      BY <1>1, <2>1, <3>1, <3>2 DEF Shape, Left, top
  <2>4. CASE ~device
    <3>1. todo' = <<"ena_close", "up_if_was_up">>
      BY <2>2, <2>4, ConcatsOfUsers
    <3>2. /\ {"ena_close", "up_if_was_up"} \subseteq Steps
          /\ "end" \in Follow("up_if_was_up", "reconfigure")
          /\ "up_if_was_up" \in Follow("ena_close", "reconfigure")
               /\ "up_if_was_up" \in Below("ena_close")
      BY DEF Follow, FollowsDestroy, Below, Teardown, Lower, Steps
    <3>3. /\ WellFormed(<<"ena_close", "up_if_was_up">>, "reconfigure")
               /\ Elems(<<"ena_close", "up_if_was_up">>) = {"ena_close", "up_if_was_up"}
          /\ First(<<"ena_close", "up_if_was_up">>) = "ena_close"
      BY <3>2, Started2
    <3> QED
      BY <1>1, <2>1, <3>1, <3>3 DEF Shape, Left, top
  <2> QED
    BY <2>1, <2>3, <2>4
<1> USE DEF flagVars, devVars, watchVars
<1>3. Types'
  <2>1. dev_was_up' \in BOOLEAN
    BY <1>1 DEF IInv, Types
  <2> QED
    BY <1>1, <2>1 DEF IInv, Types, Reasons, AllOperations, NORMAL
<1>4. Bounds'
  BY BoundsAssumption DEF IInv, Reconfigure, UserTakes, Bounds
<1>5. Asking' /\ TornDown' /\ Watching' /\ Whole' /\ Holding' /\ Suspending'
  BY <1>1, <1>2 DEF IInv, Asking, Requesters, Alive, TornDown, Off, Watching, Watched,
     ToBeTornDown, Whole, Holding, DestroySteps, Ordinary, RestoreSteps, Suspending
<1>6. Place'
  BY <1>1, <1>2 DEF IInv, Place, RunsOrStopped, Restoring, Quiet, Running, Stopped, Off
<1>7. UpAndOpen'
  BY <1>1, <1>2 DEF IInv, UpAndOpen, OwedUp, Ordinary, ComesDown, ComingUp, Noted
<1> QED
  BY <1>2, <1>3, <1>4, <1>5, <1>6, <1>7 DEF IInv

-----------------------------------------------------------------------------
(***************************************************************************)
(* The theorems                                                            *)
(***************************************************************************)
LEMMA IInvInit == Init => IInv
<1> SUFFICES ASSUME Init
             PROVE  IInv
  OBVIOUS
<1>1. todo = << >> /\ op = "none"
  BY DEF Init
<1>2. Shape /\ Left = {} /\ top = "end"
  BY <1>1, EmptyShape DEF Shape, Left, top
<1>3. Types
  BY DEF Init, Types, Reasons, NORMAL
<1>4. Bounds
  BY BoundsAssumption DEF Init, Bounds
<1>5. Asking /\ Place /\ TornDown /\ Watching /\ Whole /\ Holding /\ Suspending
  BY <1>2 DEF Init, Asking, Place, RunsOrStopped, Running, TornDown, Watching, Watched, Whole,
              NORMAL, Holding, Suspending
<1>6. UpAndOpen
  BY <1>2 DEF Init, UpAndOpen, OwedUp, ComingUp, Noted, ComesDown
<1> QED
  BY <1>2, <1>3, <1>4, <1>5, <1>6 DEF IInv

LEMMA StepKeeps ==
    ASSUME IInv, Step
    PROVE  IInv'
  BY DownKeeps, NapiDisableKeeps, ResetIfTriggeredKeeps, UpKeeps, UpFailsKeeps, SetDevUpKeeps,
     CloseKeeps, CheckAdminKeeps, ResetIfNeededKeeps, DestroyKeeps, StopTimerKeeps,
       TakeDownKeeps,
     ResetUnlessDoneKeeps, FreeAdminKeeps, BackToDefaultKeeps, DeviceInitKeeps,
     DeviceInitFailsKeeps, EnableMsixKeeps, EnableMsixFailsKeeps, UpAgainKeeps,
       UpAgainFailsKeeps,
     FinishKeeps, FinishFailsKeeps, DisableMsixKeeps, DestroyAdminKeeps, ResetInvalidKeeps,
     UpIfWasUpKeeps, OpenedKeeps DEF Step

LEMMA UserKeeps ==
    ASSUME IInv, User \/ Removal
    PROVE  IInv'
  BY OpenInterfaceKeeps, CloseInterfaceKeeps, ReconfigureKeeps, XdpSetKeeps, LargeLlqKeeps,
     SuspendKeeps, ResumeKeeps, ReloadKeeps, ReloadDownKeeps, ReloadUpKeeps, RemoveKeeps,
     RemoveStopsTimerKeeps, RemoveCancelsTaskKeeps, RemoveTakesKeeps, UnregisterKeeps,
     RemoveFreesKeeps DEF User, Removal

LEMMA IInvStep == IInv /\ [Next]_vars => IInv'
<1> SUFFICES ASSUME IInv, [Next]_vars
             PROVE  IInv'
  OBVIOUS
<1>1. CASE \E who \in Requesters : TryLock(who) \/ Trigger(who)
  BY <1>1, TryLockKeeps, TriggerKeeps
<1>2. CASE AdminStops \/ TimerMissesCompletions \/ Timer
  BY <1>2, AdminStopsKeeps, TimerMissesCompletionsKeeps, TimerFiresKeeps, TimerRearmsKeeps,
     TimerQueuesResetKeeps DEF Timer
<1>3. CASE Step \/ Release \/ ResetTask
  BY <1>3, StepKeeps, ReleaseKeeps, ResetTaskKeeps
<1>4. CASE User \/ Removal
  BY <1>4, UserKeeps
<1>5. CASE UNCHANGED vars
  BY <1>5 DEF vars, flagVars, devVars, localVars, watchVars, lockVars, userVars, boundVars,
     IInv, Types, Bounds, Shape, Asking, Alive, Place, Off, Quiet, Running, Stopped,
       Restoring,
     RunsOrStopped, TornDown, Watching, Watched, ToBeTornDown, Whole, UpAndOpen, OwedUp,
       ComingUp,
     Noted, Ordinary, ComesDown, Holding, Suspending, top, Left
<1> QED
  BY <1>1, <1>2, <1>3, <1>4, <1>5 DEF Next

LEMMA IInvAlways == Spec => []IInv
  BY IInvInit, IInvStep, PTL DEF Spec

\* Between two operations nothing is left to do.
LEMMA AtRest ==
    ASSUME IInv, op = "none"
    PROVE  top = "end" /\ Left = {}
  BY EmptyShape DEF IInv, Holding, top, Left

\* The variables keep their types, and nobody who asks for a reset outlives the
\* interrupt, the queues or the timer he belongs to.
THEOREM TypeCorrect == Spec => []TypeOK
<1>1. IInv => TypeOK
  <2> SUFFICES ASSUME IInv
               PROVE  TypeOK
    OBVIOUS
  <2>1. {open, DEVICE_RUNNING, DEV_UP, TRIGGER_RESET, dev_up_before_reset, dev_was_up,
          upFailed,
         restoreFailed, running_state, io, mgmnt_irq, rings, events, reset_task, suspended}
           \subseteq BOOLEAN
    BY DEF IInv, Types
  <2>2. todo \in Seq(Steps)
    BY DEF IInv, Shape, WellFormed
  <2>3. pending \subseteq {who \in Requesters : Alive(who)}
    BY DEF IInv, Asking
  <2>4. ops \in 0..MaxOps /\ requests \in 0..MaxRequests /\ failures \in 0..MaxFailures
    BY DEF IInv, Bounds
  <2> QED
    BY <2>1, <2>2, <2>3, <2>4 DEF IInv, Types, TypeOK
<1> QED
  BY <1>1, IInvAlways, PTL

\* Whatever operations, requests and failures came before, a running device at
\* rest has its timer, or the reset task that will arm it again.
THEOREM AlwaysWatched == Spec => []DeviceIsWatched
<1>1. IInv => DeviceIsWatched
  BY AtRest DEF IInv, Watching, Watched, ToBeTornDown, DeviceIsWatched, atRest
<1> QED
  BY <1>1, IInvAlways, PTL

\* A device stopped by suspend, by devlink reload or by a restore that failed at
\* any step has no timer, interrupt, queue or admin memory left.
THEOREM StopsQuietly == Spec => []StoppedIsQuiet
<1>1. IInv => StoppedIsQuiet
  BY AtRest DEF IInv, Place, RunsOrStopped, Running, Stopped, Quiet, Off, StoppedIsQuiet,
       atRest
<1> QED
  BY <1>1, IInvAlways, PTL

\* However opening, closing, reconfiguring, resets and failures interleave, the
\* driver's interface is up when the stack's is open, and down when it is not.
THEOREM UpWhenOpen == Spec => []UpWithOpen
<1>1. IInv => OpenIsUp
  BY AtRest DEF IInv, UpAndOpen, OwedUp, ComingUp, Noted, OpenIsUp, atRest
<1>2. IInv => UpIsOpen
  <2> SUFFICES ASSUME IInv, ~restoreFailed, reload = "no", removal # "out"
               PROVE  (atRest /\ DEV_UP => open) /\ (At("ena_up") => ~io)
    BY DEF UpIsOpen
  <2>1. ASSUME atRest, DEV_UP
        PROVE  open
    <3>1. Ordinary /\ OwedUp /\ op # "close"
      BY <2>1 DEF atRest, Ordinary, OwedUp
    <3> QED
      BY <3>1 DEF IInv, UpAndOpen
  <2>2. ASSUME At("ena_up")
        PROVE  ~io
    <3>1. top = "ena_up"
      BY <2>2 DEF At, top, First
    <3>2. removal # "freed"
      BY <3>1, AtRest DEF IInv, Holding
    <3> QED
      BY <3>1, <3>2 DEF IInv, UpAndOpen, Ordinary
  <2> QED
    BY <2>1, <2>2
<1> QED
  BY <1>1, <1>2, IInvAlways, PTL DEF UpWithOpen

\* No teardown, restore or race of requesters leaves a reason without its flag.
THEOREM NoHalfRequest == Spec => []RequestIsWhole
<1>1. IInv => RequestIsWhole
  BY AtRest DEF IInv, Whole, ToBeTornDown, RequestIsWhole, atRest
<1> QED
  BY <1>1, IInvAlways, PTL
=============================================================================
