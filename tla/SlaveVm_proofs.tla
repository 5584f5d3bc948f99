--------------------------- MODULE SlaveVm_proofs ---------------------------
(***************************************************************************)
(* What a master that polls before it runs a thread may rely on, for any   *)
(* number of threads.  The invariant is about who has the mutex: the       *)
(* master in an operation, the script, the thread in the VM, or nobody;    *)
(* and about thread_id, which is only trusted after the mutex was seen     *)
(* free, because a thread that was just started has not set it.            *)
(*                                                                         *)
(* A second invariant is about the stack of the slave: for each point      *)
(* where the other side may take over, which calls are on it and how high  *)
(* it is.  Who has the mutex, and so may change the stack, comes from the  *)
(* first.                                                                  *)
(***************************************************************************)
EXTENDS SlaveVm, SequenceTheorems, TLAPS

ControlOK ==
    /\ mutex \in {"free", "held", "lost"}
    /\ id \in Thread \cup {None}
    /\ pc \in {"script", "inside", "polling", "checked", "running"}
    /\ idle \in BOOLEAN /\ holds \in BOOLEAN /\ open \in BOOLEAN /\ done \in BOOLEAN
    /\ slave \in [Thread -> {"none", "started", "identified", "inside", "waiting",
                             "woken", "unlocked"}]

(* A thread that is past its first step has thread_id.                     *)
IdIsSet == \A t \in Thread : slave[t] \notin {"none", "started"} => id = t

(* No thread is before that step when the VM was seen idle, and there is   *)
(* none at all while one is to be started.                                 *)
IdleMeansId ==
    /\ idle => \A t \in Thread : slave[t] # "started"
    /\ pc \in {"checked", "running"} => idle /\ ~holds /\ \A t \in Thread : slave[t] = "none"

(* Who uses the VM has the mutex, and nobody else has.                     *)
OneHolder ==
    /\ InMaster => mutex = "held" /\ ~holds /\ \A t \in Thread : ~InSlave(t)
    /\ \A t \in Thread : InSlave(t) => mutex = "held" /\ ~holds
    /\ holds => mutex # "free"

(* A task that is done does not wait; a closed VM has no operation in it.  *)
DoneIsDone ==
    /\ done => \A t \in Thread : slave[t] \notin {"waiting", "woken"}
    /\ ~open => pc = "script" /\ \A t \in Thread : slave[t] \in {"none", "unlocked"}

IInv == ControlOK /\ OneThread /\ IdIsSet /\ IdleMeansId /\ OneHolder /\ DoneIsDone

LEMMA InitInv == Init => IInv
BY NoneIsNoThread DEF Init, IInv, ControlOK, OneThread, IdIsSet, IdleMeansId, OneHolder,
   DoneIsDone, InMaster, InSlave, Alive

(* The steps of the master leave the threads where they are, but for the   *)
(* one it starts and the one it wakes.                                     *)
LEMMA MasterKeepsInv ==
    ASSUME Careful, IInv, Operation \/ Locking \/ Run
    PROVE  IInv'
<1> USE NoneIsNoThread DEF IInv, ControlOK, OneThread, IdIsSet, IdleMeansId, OneHolder,
        DoneIsDone, InMaster, InSlave, Alive, Script, master, vm
<1>1. CASE Begin BY <1>1 DEF Begin
<1>2. CASE End BY <1>2 DEF End
<1>3. CASE EndDostring BY <1>3 DEF EndDostring
<1>4. CASE IncludePath BY <1>4 DEF IncludePath
<1>5. CASE PollLock BY <1>5 DEF PollLock
<1>6. CASE PollUnlock BY <1>6 DEF PollUnlock
<1>7. CASE Trylock BY <1>7 DEF Trylock
<1>8. CASE Unlock BY <1>8 DEF Unlock
<1>9. CASE Close BY <1>9 DEF Close
<1>10. CASE Signal \/ WakeUp
  <2>1. PICK t \in Thread : Woken(t) BY <1>10 DEF Signal, WakeUp
  <2>2. QED BY <2>1 DEF Woken
<1>11. CASE RunCheck BY <1>11 DEF RunCheck
<1>12. CASE RunRefused BY <1>12 DEF RunRefused
<1>13. CASE RunLock BY <1>13 DEF RunLock
<1>14. CASE RunFail BY <1>14 DEF RunFail
<1>15. CASE \E t \in Thread, argc \in 0 .. MaxArgs : RunStart(t, argc)
  <2>1. PICK t \in Thread, argc \in 0 .. MaxArgs : RunStart(t, argc) BY <1>15
  <2>2. QED BY <2>1 DEF RunStart
<1>16. QED
  BY <1>1, <1>2, <1>3, <1>4, <1>5, <1>6, <1>7, <1>8, <1>9, <1>10, <1>11, <1>12, <1>13,
     <1>14, <1>15 DEF Operation, Locking, Run

LEMMA TaskKeepsInv ==
    ASSUME Careful, IInv, NEW t \in Thread, Task(t)
    PROVE  IInv'
<1> USE NoneIsNoThread DEF IInv, ControlOK, OneThread, IdIsSet, IdleMeansId, OneHolder,
        DoneIsDone, InMaster, InSlave, Alive, Script, master, vm
<1>1. CASE SetId(t) BY <1>1 DEF SetId
<1>2. CASE Enter(t) BY <1>2 DEF Enter
<1>3. CASE Wait(t) BY <1>3 DEF Wait
<1>4. CASE Return(t) BY <1>4 DEF Return
<1>5. CASE Announce(t) BY <1>5 DEF Announce
<1>6. CASE Finish(t) BY <1>6 DEF Finish
<1>7. CASE ClearId(t) BY <1>7 DEF ClearId
<1>8. QED BY <1>1, <1>2, <1>3, <1>4, <1>5, <1>6, <1>7 DEF Task

LEMMA StutterKeepsInv ==
    ASSUME IInv, UNCHANGED vars
    PROVE  IInv'
BY DEF IInv, ControlOK, OneThread, IdIsSet, IdleMeansId, OneHolder, DoneIsDone, InMaster,
   InSlave, Alive, vars, master, vm

(* The invariant holds in every state of a master that polls.              *)
THEOREM ControlInvariance ==
    ASSUME Careful
    PROVE  Spec => []IInv
<1>1. IInv /\ [Next]_vars => IInv'
  BY MasterKeepsInv, TaskKeepsInv, StutterKeepsInv DEF Next
<1>2. QED BY InitInv, <1>1, PTL DEF Spec

(* A master that polls has one thread at a time: thread_id is looked at    *)
(* before the mutex is taken, and is right nevertheless.                   *)
THEOREM OneThreadAtATime ==
    ASSUME Careful
    PROVE  Spec => []OneThread
<1>1. IInv => OneThread BY DEF IInv
<1>2. QED BY ControlInvariance, <1>1, PTL

(* The master and its thread are never in the VM at the same time.         *)
THEOREM VmIsExclusive ==
    ASSUME Careful
    PROVE  Spec => []OneInside
<1>1. IInv => OneInside
  BY DEF IInv, OneThread, OneHolder, OneInside, InSlave, Alive
<1>2. QED BY ControlInvariance, <1>1, PTL

(* A VM that was closed when its last task was done is used by no thread.  *)
THEOREM ClosedVmIsLeft ==
    ASSUME Careful
    PROVE  Spec => []ClosedNotUsed
<1>1. IInv => ClosedNotUsed BY DEF IInv, DoneIsDone, ClosedNotUsed
<1>2. QED BY ControlInvariance, <1>1, PTL

-----------------------------------------------------------------------------
(* The stack of the slave.                                                 *)

StackTypes ==
    /\ top \in Nat
    /\ stack \in Seq(Int) /\ bases \in Seq(Nat)
    /\ kept \in [Thread -> [top : Nat, stack : Seq(Int), bases : Seq(Nat)]]

Nobody == \A t \in Thread : slave[t] \in {"none", "unlocked"}
AllLeft(n) == n <= Len(stack) /\ \A i \in 1 .. n : stack[i] = Left

(* No thread is in the VM: the operation of the master has put one value   *)
(* on the stack, a thread_run two.                                         *)
QuietStack ==
    Nobody =>
        /\ Len(bases) = 1 /\ bases[1] = 0
        /\ pc \in {"script", "polling", "checked"} => AllLeft(Len(stack))
        /\ pc \in {"inside", "checked", "running"} => AllLeft(top)
        /\ pc = "inside" => Len(stack) = top + 1
        /\ pc = "checked" => Len(stack) = top
        /\ pc = "running" => Len(stack) = top + 2

(* A thread was started: function, root table, arguments, their number and *)
(* the top are on the stack.                                               *)
PreparedStack(t) ==
    LET n == Len(stack)
    IN  slave[t] \in {"started", "identified"} =>
            /\ Len(bases) = 1 /\ bases[1] = 0
            /\ n > 3 /\ stack[n] >= 0 /\ stack[n - 1] >= 0
            /\ n = stack[n] + stack[n - 1] + 4
            /\ AllLeft(stack[n])

(* The thread is in its function, called above the function itself.        *)
TaskStack(t) ==
    slave[t] = "inside" =>
        /\ Len(bases) = 2 /\ bases[1] = 0 /\ bases[2] = kept[t].top + 1
        /\ bases[2] <= Len(stack)
        /\ AllLeft(kept[t].top)

(* The thread waits in a second call; the master works above it.           *)
WaitStack(t) ==
    LET k == kept[t].stack
    IN  slave[t] \in {"waiting", "woken"} =>
            /\ bases = kept[t].bases
            /\ Len(bases) = 3 /\ bases[1] = 0 /\ bases[2] = kept[t].top + 1
            /\ bases[2] <= bases[3] /\ Len(k) = bases[3] + 1
            /\ Len(k) <= Len(stack) /\ \A i \in 1 .. Len(k) : stack[i] = k[i]
            /\ AllLeft(kept[t].top)
            /\ pc = "inside" => top >= 1 /\ Len(stack) = bases[3] + top + 1

StackInv ==
    /\ StackTypes /\ QuietStack
    /\ \A t \in Thread : PreparedStack(t) /\ TaskStack(t) /\ WaitStack(t)

(* A stack that is cut or filled up.                                       *)
LEMMA KeepIsStack ==
    ASSUME stack \in Seq(Int), NEW n \in Nat
    PROVE  /\ Keep(n) \in Seq(Int) /\ Len(Keep(n)) = n
           /\ \A i \in 1 .. n : Keep(n)[i] = IF i <= Len(stack) THEN stack[i] ELSE Other
<1>1. DOMAIN stack = 1 .. Len(stack) /\ Len(stack) \in Nat
  BY LenProperties
<1>2. \A i \in 1 .. Len(stack) : stack[i] \in Int
  BY ElementOfSeq
<1>3. Keep(n) \in [1 .. n -> Int]
  BY <1>1, <1>2 DEF Keep, Other
<1>4. Keep(n) \in Seq(Int) /\ Len(Keep(n)) = n
  BY <1>3
<1>5. QED BY <1>1, <1>4 DEF Keep

LEMMA InitStack == Init => StackInv
BY EmptySeq DEF Init, StackInv, StackTypes, QuietStack, PreparedStack, TaskStack, WaitStack,
   AllLeft, NothingKept, Nobody

(* The operations of the master that touch the stack, with the mutex.      *)
(* Whoever may take the mutex finds a base below the top of the stack.     *)
LEMMA BaseIsBelow ==
    ASSUME StackInv, \A t \in Thread : slave[t] \in {"none", "unlocked", "waiting", "woken"}
    PROVE  /\ Len(stack) \in Nat /\ Base \in Nat /\ Base <= Len(stack)
           /\ Nobody => Base = 0
           /\ \A t \in Thread : slave[t] \in {"waiting", "woken"} => Base = bases[3] /\ Base < Len(stack)
<1>1. Len(stack) \in Nat /\ \A i \in 1 .. Len(bases) : bases[i] \in Nat
  BY ElementOfSeq DEF StackInv, StackTypes
<1>2. CASE Nobody
  <2>1. QuietStack BY DEF StackInv
  <2>2. Base = 0 BY <1>2, <2>1 DEF QuietStack, Base
  <2>3. QED BY <1>1, <1>2, <2>2 DEF Nobody
<1>3. CASE ~Nobody
  <2>1. ASSUME NEW t \in Thread, slave[t] \in {"waiting", "woken"}
        PROVE  Base = bases[3] /\ Base < Len(stack) /\ Base \in Nat
    <3>1. WaitStack(t) BY DEF StackInv
    <3>2. QED BY <1>1, <2>1, <3>1 DEF WaitStack, Base
  <2>2. PICK t \in Thread : slave[t] \in {"waiting", "woken"} BY <1>3 DEF Nobody
  <2>3. QED BY <1>1, <1>3, <2>1, <2>2
<1>4. QED BY <1>2, <1>3

(* What is on the stack up to the frames of the thread that waits is enough *)
(* for it.                                                                 *)
LEMMA WaitIsKept ==
    ASSUME StackTypes, NEW t \in Thread, WaitStack(t), slave[t] \in {"waiting", "woken"},
           UNCHANGED <<bases, kept>>, Len(stack') \in Nat, Len(stack') > bases[3],
           \A i \in 1 .. bases[3] + 1 : stack'[i] = stack[i],
           pc' = "inside" => top' >= 1 /\ Len(stack') = bases[3] + top' + 1
    PROVE  WaitStack(t)'
<1>1. /\ bases = kept[t].bases /\ Len(bases) = 3 /\ bases[1] = 0
      /\ bases[2] = kept[t].top + 1 /\ bases[2] <= bases[3]
      /\ Len(kept[t].stack) = bases[3] + 1
      /\ \A i \in 1 .. Len(kept[t].stack) : stack[i] = kept[t].stack[i]
      /\ AllLeft(kept[t].top)
  BY DEF WaitStack
<1>2. kept[t].top \in Nat /\ bases[3] \in Nat
  BY <1>1, ElementOfSeq DEF StackTypes
<1>3. AllLeft(kept[t].top)'
  <2>1. kept'[t].top = kept[t].top /\ kept[t].top < bases[3] + 1 BY <1>1, <1>2
  <2>2. kept[t].top <= Len(stack') BY <2>1, <1>2
  <2>3. \A i \in 1 .. kept[t].top : stack'[i] = stack[i] BY <2>1, <1>2
  <2>4. QED BY <1>1, <2>1, <2>2, <2>3 DEF AllLeft
<1>4. QED BY <1>1, <1>2, <1>3 DEF WaitStack

LEMMA BeginKeepsStack ==
    ASSUME IInv, StackInv, Begin
    PROVE  StackInv'
<1>1. /\ pc = "script" /\ pc' = "inside" /\ mutex = "free"
      /\ top' = Len(stack) - Base /\ stack' = Append(stack, Other)
      /\ UNCHANGED <<slave, bases, kept>>
  BY DEF Begin, Script, Gettop
<1>2. \A t \in Thread : slave[t] \in {"none", "unlocked", "waiting", "woken"}
  BY <1>1 DEF IInv, ControlOK, OneHolder, InSlave
<1>3. StackTypes /\ QuietStack /\ \A t \in Thread : WaitStack(t)
  BY DEF StackInv
<1>4. /\ Len(stack) \in Nat /\ Base \in Nat /\ Base <= Len(stack)
      /\ Nobody => Base = 0
      /\ \A t \in Thread : slave[t] \in {"waiting", "woken"} => Base = bases[3] /\ Base < Len(stack)
  BY <1>2, BaseIsBelow
<1>5. /\ stack' \in Seq(Int) /\ Len(stack') = Len(stack) + 1
      /\ \A i \in 1 .. Len(stack) : stack'[i] = stack[i]
  BY <1>1, <1>3, AppendProperties DEF StackTypes, Other
<1>6. StackTypes' BY <1>1, <1>3, <1>4, <1>5 DEF StackTypes
<1>7. QuietStack'
  BY <1>1, <1>3, <1>4, <1>5 DEF QuietStack, Nobody, AllLeft
<1>8. ASSUME NEW t \in Thread PROVE (PreparedStack(t) /\ TaskStack(t) /\ WaitStack(t))'
  <2>1. PreparedStack(t)' /\ TaskStack(t)' BY <1>1, <1>2 DEF PreparedStack, TaskStack
  <2>2. CASE slave[t] \in {"waiting", "woken"}
    <3>1. WaitStack(t) /\ StackTypes BY <1>3
    <3>2. bases[3] \in Nat BY <1>4, <2>2
    <3>3. Base = bases[3] /\ Base < Len(stack) BY <1>4, <2>2
    <3>4. /\ Len(stack') \in Nat /\ Len(stack') > bases[3]
          /\ \A i \in 1 .. bases[3] + 1 : stack'[i] = stack[i]
          /\ top' >= 1 /\ Len(stack') = bases[3] + top' + 1
      BY <1>1, <1>4, <1>5, <3>2, <3>3, SMTT(30)
    <3>5. UNCHANGED <<bases, kept>> BY <1>1
    <3>6. WaitStack(t)' BY <2>2, <3>1, <3>4, <3>5, WaitIsKept
    <3>7. QED BY <2>1, <3>6
  <2>3. CASE slave[t] \notin {"waiting", "woken"} BY <1>1, <2>1, <2>3 DEF WaitStack
  <2>4. QED BY <2>1, <2>2, <2>3
<1>9. QED BY <1>6, <1>7, <1>8 DEF StackInv

(* End of an operation: the stack is cut to where the operation began, and *)
(* dostring may leave a value.                                             *)
LEMMA EndKeepsStack ==
    ASSUME IInv, StackInv, End \/ EndDostring
    PROVE  StackInv'
<1> DEFINE n == Base + top
<1>1. /\ pc = "inside" /\ pc' = "script" /\ UNCHANGED <<slave, bases, kept, top>>
      /\ stack' = Keep(n) \/ stack' = Append(Keep(n), Left)
  BY DEF End, EndDostring, Settop
<1>2. \A t \in Thread : slave[t] \in {"none", "unlocked", "waiting", "woken"}
  BY <1>1 DEF IInv, ControlOK, OneHolder, InSlave, InMaster
<1>3. StackTypes /\ QuietStack /\ \A t \in Thread : WaitStack(t)
  BY DEF StackInv
<1>4. /\ Len(stack) \in Nat /\ Base \in Nat /\ Base <= Len(stack)
      /\ Nobody => Base = 0
      /\ \A t \in Thread : slave[t] \in {"waiting", "woken"} => Base = bases[3] /\ Base < Len(stack)
  BY <1>2, BaseIsBelow
<1>5. n \in Nat /\ n <= Len(stack)
  <2>1. CASE Nobody BY <2>1, <1>1, <1>3, <1>4 DEF QuietStack, StackTypes, AllLeft
  <2>2. CASE ~Nobody
    <3>1. PICK t \in Thread : slave[t] \in {"waiting", "woken"} BY <1>2, <2>2 DEF Nobody
    <3>2. QED BY <3>1, <1>1, <1>3, <1>4, SMTT(30) DEF WaitStack, StackTypes
  <2>3. QED BY <2>1, <2>2
<1> HIDE DEF n
<1>6. /\ Keep(n) \in Seq(Int) /\ Len(Keep(n)) = n
      /\ \A i \in 1 .. n : Keep(n)[i] = stack[i]
  BY <1>3, <1>4, <1>5, KeepIsStack DEF StackTypes
<1>7. /\ stack' \in Seq(Int) /\ Len(stack') \in {n, n + 1}
      /\ \A i \in 1 .. n : stack'[i] = stack[i]
      /\ Len(stack') = n + 1 => stack'[n + 1] = Left
  <2>1. Left \in Int BY DEF Left
  <2>2. CASE stack' = Keep(n) BY <2>2, <1>5, <1>6
  <2>3. CASE stack' = Append(Keep(n), Left) BY <2>1, <2>3, <1>5, <1>6, AppendProperties
  <2>4. QED BY <1>1, <2>2, <2>3
<1>8. StackTypes' BY <1>1, <1>3, <1>7 DEF StackTypes
<1>9. QuietStack'
  <2>1. SUFFICES ASSUME Nobody PROVE QuietStack' BY <1>1 DEF QuietStack, Nobody
  <2>2. n = top /\ AllLeft(top) /\ Len(bases) = 1 /\ bases[1] = 0
    BY <2>1, <1>1, <1>3, <1>4 DEF QuietStack, StackTypes, n
  <2>3. \A i \in 1 .. Len(stack') : stack'[i] = Left
    BY <2>2, <1>5, <1>7 DEF AllLeft
  <2>4. AllLeft(Len(stack))' BY <2>3, <1>5, <1>7 DEF AllLeft
  <2>5. QED BY <2>2, <2>4, <1>1 DEF QuietStack
<1>10. ASSUME NEW t \in Thread PROVE (PreparedStack(t) /\ TaskStack(t) /\ WaitStack(t))'
  <2>1. PreparedStack(t)' /\ TaskStack(t)' BY <1>1, <1>2 DEF PreparedStack, TaskStack
  <2>2. CASE slave[t] \in {"waiting", "woken"}
    <3>1. WaitStack(t) /\ StackTypes /\ bases[3] \in Nat BY <1>3, <1>4, <2>2
    <3>2. top >= 1 /\ top \in Nat BY <1>1, <2>2, <3>1 DEF WaitStack, StackTypes
    <3>3. n = bases[3] + top BY <1>4, <2>2 DEF n
    <3>4. WaitStack(t)' BY <1>1, <1>7, <2>2, <3>1, <3>2, <3>3, WaitIsKept, SMTT(30)
    <3>5. QED BY <2>1, <3>4
  <2>3. CASE slave[t] \notin {"waiting", "woken"} BY <1>1, <2>1, <2>3 DEF WaitStack
  <2>4. QED BY <2>1, <2>2, <2>3
<1>11. QED BY <1>8, <1>9, <1>10 DEF StackInv

(* Steps that leave the stack alone: polls, locks, signals, thread_id.     *)
LEMMA UntouchedStack ==
    ASSUME StackInv, UNCHANGED <<stack, bases, kept, top>>,
           \A t \in Thread : \/ slave'[t] = slave[t]
                             \/ slave[t] = "waiting" /\ slave'[t] = "woken"
                             \/ slave[t] = "started" /\ slave'[t] = "identified",
           pc' = pc \/ (pc \in {"script", "polling", "checked"} /\ pc' \in {"script", "polling"})
    PROVE  StackInv'
<1>1. StackTypes /\ QuietStack
  BY DEF StackInv
<1>2. StackTypes' BY <1>1 DEF StackTypes
<1>3. Nobody' => Nobody BY DEF Nobody
<1>4. QuietStack' BY <1>1, <1>3 DEF QuietStack, AllLeft
<1>5. ASSUME NEW t \in Thread PROVE (PreparedStack(t) /\ TaskStack(t) /\ WaitStack(t))'
  <2>1. PreparedStack(t) /\ TaskStack(t) /\ WaitStack(t) BY DEF StackInv
  <2>2. PreparedStack(t)' BY <2>1 DEF PreparedStack, AllLeft
  <2>3. TaskStack(t)' BY <2>1 DEF TaskStack, AllLeft
  <2>4. WaitStack(t)' BY <2>1 DEF WaitStack, AllLeft
  <2>5. QED BY <2>2, <2>3, <2>4
<1>6. QED BY <1>2, <1>4, <1>5 DEF StackInv

(* thread_run up to the start of the thread.  No thread is in the VM.      *)
LEMMA RunKeepsStack ==
    ASSUME Careful, IInv, IInv', StackInv, RunCheck \/ RunLock \/ RunFail
    PROVE  StackInv'
<1>1. UNCHANGED <<slave, bases, kept>>
  BY DEF RunCheck, RunLock, RunFail, vm
<1>2. \A t \in Thread : slave[t] = "none"
  BY <1>1 DEF RunCheck, RunLock, RunFail, IInv, IdleMeansId
<1>3. Nobody BY <1>2 DEF Nobody
<1>4. StackTypes /\ QuietStack /\ Len(stack) \in Nat
  BY LenProperties DEF StackInv, StackTypes
<1>5. Base = 0 BY <1>3, <1>4 DEF QuietStack, Base
<1>6. \A t \in Thread : (PreparedStack(t) /\ TaskStack(t) /\ WaitStack(t))'
  BY <1>1, <1>2 DEF PreparedStack, TaskStack, WaitStack
<1>7. CASE RunCheck
  <2>1. pc = "script" /\ pc' = "checked" /\ stack' = stack /\ top' = Len(stack)
    BY <1>4, <1>5, <1>7 DEF RunCheck, Script, Gettop, vm
  <2>2. StackTypes' BY <1>1, <1>4, <2>1 DEF StackTypes
  <2>3. QuietStack' BY <1>1, <1>3, <1>4, <2>1 DEF QuietStack, AllLeft
  <2>4. QED BY <1>6, <2>2, <2>3 DEF StackInv
<1>8. CASE RunLock
  <2>1. pc = "checked" /\ pc' = "running" /\ top' = top /\ stack' = stack \o <<Other, Other>>
    BY <1>8 DEF RunLock
  <2>2. <<Other, Other>> \in Seq(Int) /\ Len(<<Other, Other>>) = 2 BY DEF Other
  <2>3. /\ stack' \in Seq(Int) /\ Len(stack') = Len(stack) + 2
        /\ \A i \in 1 .. Len(stack) : stack'[i] = stack[i]
    BY <1>4, <2>1, <2>2, ConcatProperties DEF StackTypes
  <2>4. StackTypes' BY <1>1, <1>4, <2>1, <2>3 DEF StackTypes
  <2>5. QuietStack' BY <1>1, <1>3, <1>4, <2>1, <2>3 DEF QuietStack, AllLeft
  <2>6. QED BY <1>6, <2>4, <2>5 DEF StackInv
<1>9. CASE RunFail
  <2>1. pc = "running" /\ pc' = "script" /\ top' = top /\ stack' = Keep(top)
    <3>1. Settop(top) = Keep(top)
      <4>1. top \in Nat BY <1>4 DEF StackTypes
      <4>2. Base + top = top BY <4>1, <1>5
      <4>3. QED BY <4>2 DEF Settop
    <3>2. QED BY <1>9, <3>1 DEF RunFail
  <2>2. top \in Nat /\ AllLeft(top)
    BY <1>3, <1>4, <2>1 DEF QuietStack, StackTypes
  <2>3. /\ stack' \in Seq(Int) /\ Len(stack') = top
        /\ \A i \in 1 .. top : stack'[i] = Left
    <3>1. stack \in Seq(Int) BY <1>4 DEF StackTypes
    <3>2. /\ Keep(top) \in Seq(Int) /\ Len(Keep(top)) = top
          /\ \A i \in 1 .. top : Keep(top)[i] = IF i <= Len(stack) THEN stack[i] ELSE Other
      BY <2>2, <3>1, KeepIsStack
    <3>3. QED BY <1>4, <2>1, <2>2, <3>2 DEF AllLeft
  <2>4. StackTypes' BY <1>1, <1>4, <2>1, <2>3 DEF StackTypes
  <2>5. QuietStack' BY <1>1, <1>3, <1>4, <2>1, <2>2, <2>3 DEF QuietStack, AllLeft
  <2>6. QED BY <1>6, <2>4, <2>5 DEF StackInv
<1>10. QED BY <1>7, <1>8, <1>9

LEMMA StartKeepsStack ==
    ASSUME Careful, IInv, StackInv, NEW t \in Thread, NEW argc \in 0 .. MaxArgs, RunStart(t, argc)
    PROVE  StackInv'
<1> DEFINE args == [i \in 1 .. argc |-> Other]
<1>1. /\ pc = "running" /\ pc' = "script" /\ stack' = stack \o args \o <<argc, top>>
      /\ UNCHANGED <<top, bases, kept>>
      /\ slave' = [slave EXCEPT ![t] = "started"]
  BY DEF RunStart
<1>2. \A u \in Thread : slave[u] = "none"
  BY <1>1 DEF IInv, IdleMeansId
<1>3. /\ StackTypes /\ Len(bases) = 1 /\ bases[1] = 0 /\ Len(stack) = top + 2 /\ AllLeft(top)
      /\ top \in Nat /\ argc \in Nat
  BY <1>1, <1>2, Bounds, SMTT(30) DEF StackInv, StackTypes, QuietStack, Nobody
<1>4. args \in Seq(Int) /\ Len(args) = argc
  BY <1>3 DEF Other
<1> HIDE DEF args
<1>5. /\ stack \o args \in Seq(Int) /\ Len(stack \o args) = top + 2 + argc
      /\ \A i \in 1 .. top : (stack \o args)[i] = stack[i]
  <2>1. stack \in Seq(Int) BY <1>3 DEF StackTypes
  <2>2. /\ stack \o args \in Seq(Int) /\ Len(stack \o args) = Len(stack) + Len(args)
        /\ \A i \in 1 .. Len(stack) + Len(args) :
              (stack \o args)[i] = IF i <= Len(stack) THEN stack[i] ELSE args[i - Len(stack)]
    BY <1>4, <2>1, ConcatProperties
  <2>3. QED BY <1>3, <1>4, <2>2
<1>6. /\ <<argc, top>> \in Seq(Int) /\ Len(<<argc, top>>) = 2
      /\ <<argc, top>>[1] = argc /\ <<argc, top>>[2] = top
  BY <1>3
<1>7. /\ stack' \in Seq(Int) /\ Len(stack') = top + argc + 4
      /\ \A i \in 1 .. top : stack'[i] = stack[i]
      /\ stack'[top + argc + 3] = argc /\ stack'[top + argc + 4] = top
  <2> DEFINE s == stack \o args
             e == <<argc, top>>
  <2>1. s \in Seq(Int) /\ e \in Seq(Int) /\ stack' = s \o e /\ Len(s) = top + 2 + argc /\ Len(e) = 2
        /\ \A i \in 1 .. top : s[i] = stack[i]
        /\ e[1] = argc /\ e[2] = top
    BY <1>1, <1>5, <1>6
  <2> HIDE DEF s, e
  <2>2. /\ s \o e \in Seq(Int) /\ Len(s \o e) = Len(s) + Len(e)
        /\ \A i \in 1 .. Len(s) + Len(e) : (s \o e)[i] = IF i <= Len(s) THEN s[i] ELSE e[i - Len(s)]
    BY <2>1, ConcatProperties
  <2>3. stack' \in Seq(Int) /\ Len(stack') = top + argc + 4 BY <1>3, <2>1, <2>2
  <2>4. \A i \in 1 .. top : stack'[i] = stack[i] BY <1>3, <2>1, <2>2
  <2>5. stack'[top + argc + 3] = e[1] BY <1>3, <2>1, <2>2, SMTT(30)
  <2>6. stack'[top + argc + 4] = e[2] BY <1>3, <2>1, <2>2, SMTT(30)
  <2>7. e[1] = argc /\ e[2] = top BY <1>6 DEF e
  <2>8. stack'[top + argc + 3] = argc /\ stack'[top + argc + 4] = top BY <2>5, <2>6, <2>7
  <2>9. QED BY <2>3, <2>4, <2>8
<1>8. StackTypes' BY <1>1, <1>3, <1>7 DEF StackTypes
<1>9. slave'[t] = "started" /\ \A u \in Thread \ {t} : slave'[u] = "none"
  BY <1>1, <1>2 DEF IInv, ControlOK
<1>10. QuietStack' BY <1>9 DEF QuietStack, Nobody
<1>11. ASSUME NEW u \in Thread PROVE (PreparedStack(u) /\ TaskStack(u) /\ WaitStack(u))'
  <2>1. TaskStack(u)' /\ WaitStack(u)' BY <1>9 DEF TaskStack, WaitStack
  <2>2. AllLeft(top)' BY <1>1, <1>3, <1>7 DEF AllLeft
  <2>3. stack'[Len(stack')] = top /\ stack'[Len(stack') - 1] = argc BY <1>3, <1>7
  <2>4. PreparedStack(u)' BY <1>1, <1>3, <1>7, <1>9, <2>2, <2>3, SMTT(30) DEF PreparedStack
  <2>5. QED BY <2>1, <2>4
<1>12. QED BY <1>8, <1>10, <1>11 DEF StackInv

(* The thread takes what thread_run put there.                             *)
LEMMA EnterKeepsStack ==
    ASSUME IInv, StackInv, NEW t \in Thread, Enter(t)
    PROVE  StackInv'
<1> DEFINE n == Len(stack)
           tp == stack[n]
           argc == stack[n - 1]
<1>1. /\ slave[t] = "identified" /\ slave' = [slave EXCEPT ![t] = "inside"]
      /\ kept' = [kept EXCEPT ![t].top = tp] /\ stack' = Keep(n - 2)
      /\ bases' = Append(bases, n - 3 - argc) /\ UNCHANGED top
  BY DEF Enter, master
<1>2. StackTypes /\ PreparedStack(t)
  BY DEF StackInv
<1>3. n \in Nat /\ tp \in Int /\ argc \in Int
  BY <1>1, <1>2, ElementOfSeq, SMTT(30) DEF StackTypes, PreparedStack
<1>4. /\ Len(bases) = 1 /\ bases[1] = 0 /\ tp \in Nat /\ argc \in Nat /\ n = tp + argc + 4
      /\ \A i \in 1 .. tp : stack[i] = Left
  BY <1>1, <1>2, <1>3 DEF PreparedStack, AllLeft
<1>5. /\ stack' \in Seq(Int) /\ Len(stack') = n - 2
      /\ \A i \in 1 .. tp : stack'[i] = Left
  <2>1. n - 2 \in Nat BY <1>3, <1>4
  <2>2. stack \in Seq(Int) BY <1>2 DEF StackTypes
  <2> HIDE DEF n, tp, argc
  <2>3. /\ Keep(n - 2) \in Seq(Int) /\ Len(Keep(n - 2)) = n - 2
        /\ \A i \in 1 .. n - 2 : Keep(n - 2)[i] = IF i <= Len(stack) THEN stack[i] ELSE Other
    BY <2>1, <2>2, KeepIsStack
  <2>4. n = Len(stack) BY DEF n
  <2>5. \A i \in 1 .. tp : Keep(n - 2)[i] = Left
    <3>1. TAKE i \in 1 .. tp
    <3>2. i \in 1 .. n - 2 /\ i <= Len(stack) BY <1>3, <1>4, <2>4
    <3>3. stack[i] = Left BY <1>4
    <3>4. QED BY <2>3, <3>2, <3>3
  <2>6. stack' = Keep(n - 2) BY <1>1
  <2>7. QED BY <2>3, <2>5, <2>6
<1>6. n - 3 - argc = tp + 1 BY <1>3, <1>4
<1>7. bases' \in Seq(Nat) /\ Len(bases') = 2 /\ bases'[1] = 0 /\ bases'[2] = tp + 1
  <2>1. bases \in Seq(Nat) /\ tp + 1 \in Nat BY <1>2, <1>4, SMTT(30) DEF StackTypes
  <2>2. bases' = Append(bases, tp + 1) BY <1>1, <1>6
  <2> HIDE DEF n, tp, argc
  <2>3. Len(bases) = 1 /\ bases[1] = 0 BY <1>4
  <2>4. /\ Append(bases, tp + 1) \in Seq(Nat) /\ Len(Append(bases, tp + 1)) = 2
        /\ Append(bases, tp + 1)[1] = 0 /\ Append(bases, tp + 1)[2] = tp + 1
    <3> DEFINE x == tp + 1
    <3>1. x \in Nat BY <2>1
    <3> HIDE DEF x
    <3>2. /\ Append(bases, x) \in Seq(Nat) /\ Len(Append(bases, x)) = Len(bases) + 1
          /\ \A i \in 1 .. Len(bases) : Append(bases, x)[i] = bases[i]
          /\ Append(bases, x)[Len(bases) + 1] = x
      BY <2>1, <3>1, AppendProperties
    <3>3. Append(bases, x)[1] = bases[1] BY <2>3, <3>2
    <3>4. QED BY <2>3, <3>2, <3>3 DEF x
  <2>5. QED BY <2>2, <2>4
<1>8. kept'[t].top = tp /\ kept' \in [Thread -> [top : Nat, stack : Seq(Int), bases : Seq(Nat)]]
  BY <1>1, <1>2, <1>4 DEF StackTypes
<1> HIDE DEF n, tp, argc
<1>9. StackTypes' BY <1>1, <1>2, <1>5, <1>7, <1>8 DEF StackTypes
<1>10. slave'[t] = "inside" /\ \A u \in Thread \ {t} : slave'[u] = "none"
  BY <1>1 DEF IInv, ControlOK, OneThread, Alive
<1>11. QuietStack' BY <1>10 DEF QuietStack, Nobody
<1>12. ASSUME NEW u \in Thread PROVE (PreparedStack(u) /\ TaskStack(u) /\ WaitStack(u))'
  <2>1. PreparedStack(u)' /\ WaitStack(u)' BY <1>10 DEF PreparedStack, WaitStack
  <2>2. tp <= Len(stack') /\ tp + 1 <= Len(stack') BY <1>3, <1>4, <1>5
  <2>3. AllLeft(kept[t].top)' BY <1>5, <1>8, <2>2 DEF AllLeft
  <2>4. TaskStack(t)' BY <1>7, <1>8, <2>2, <2>3 DEF TaskStack
  <2>5. u # t => TaskStack(u)' BY <1>10 DEF TaskStack
  <2>6. QED BY <2>1, <2>4, <2>5
<1>13. QED BY <1>9, <1>11, <1>12 DEF StackInv

(* A thread in the VM is the only one, and the master is in no operation.  *)
LEMMA AloneInside ==
    ASSUME IInv, NEW t \in Thread, slave[t] \in {"inside", "woken", "unlocked"}
    PROVE  /\ \A u \in Thread \ {t} : slave[u] = "none"
           /\ slave[t] = "inside" => pc = "script"
<1>1. \A u \in Thread \ {t} : slave[u] = "none"
  BY DEF IInv, ControlOK, OneThread, Alive
<1>2. slave[t] = "inside" => pc = "script"
  BY DEF IInv, ControlOK, OneHolder, IdleMeansId, InMaster, InSlave
<1>3. QED BY <1>1, <1>2

LEMMA WaitKeepsStack ==
    ASSUME IInv, StackInv, NEW t \in Thread, Wait(t)
    PROVE  StackInv'
<1>1. /\ slave[t] = "inside" /\ slave' = [slave EXCEPT ![t] = "waiting"]
      /\ stack' = Append(stack, Other) /\ bases' = Append(bases, Len(stack))
      /\ kept' = [kept EXCEPT ![t].stack = stack', ![t].bases = bases']
      /\ UNCHANGED <<top, pc>>
  BY DEF Wait, master
<1>2. StackTypes /\ TaskStack(t) BY DEF StackInv
<1>3. pc = "script" /\ \A u \in Thread \ {t} : slave[u] = "none"
  BY <1>1, AloneInside
<1>4. slave'[t] = "waiting" /\ \A u \in Thread \ {t} : slave'[u] = "none"
  BY <1>1, <1>3 DEF IInv, ControlOK
<1>5. /\ stack \in Seq(Int) /\ bases \in Seq(Nat) /\ Len(stack) \in Nat /\ kept[t].top \in Nat
      /\ Len(bases) = 2 /\ bases[1] = 0 /\ bases[2] = kept[t].top + 1
      /\ bases[2] <= Len(stack) /\ AllLeft(kept[t].top)
  BY <1>1, <1>2, LenProperties DEF StackTypes, TaskStack
<1>6. /\ stack' \in Seq(Int) /\ Len(stack') = Len(stack) + 1
      /\ \A i \in 1 .. Len(stack) : stack'[i] = stack[i]
  BY <1>1, <1>5, AppendProperties DEF Other
<1>7. /\ bases' \in Seq(Nat) /\ Len(bases') = Len(bases) + 1
      /\ \A i \in 1 .. Len(bases) : bases'[i] = bases[i]
      /\ bases'[Len(bases) + 1] = Len(stack)
  <2> DEFINE x == Len(stack)
  <2>1. x \in Nat BY <1>5
  <2>2. bases' = Append(bases, x) BY <1>1
  <2>3. x = Len(stack) /\ bases \in Seq(Nat) BY <1>5
  <2> HIDE DEF x
  <2>4. /\ Append(bases, x) \in Seq(Nat) /\ Len(Append(bases, x)) = Len(bases) + 1
        /\ \A i \in 1 .. Len(bases) : Append(bases, x)[i] = bases[i]
        /\ Append(bases, x)[Len(bases) + 1] = x
    BY <2>1, <2>3, AppendProperties
  <2>5. QED BY <2>2, <2>3, <2>4
<1>8. Len(bases') = 3 /\ bases'[1] = 0 /\ bases'[2] = bases[2] /\ bases'[3] = Len(stack)
  BY <1>5, <1>7
<1>9. /\ kept' \in [Thread -> [top : Nat, stack : Seq(Int), bases : Seq(Nat)]]
      /\ kept'[t].top = kept[t].top /\ kept'[t].stack = stack' /\ kept'[t].bases = bases'
  BY <1>1, <1>2, <1>6, <1>7 DEF StackTypes
<1>10. StackTypes' BY <1>1, <1>2, <1>6, <1>7, <1>9 DEF StackTypes
<1>11. QuietStack' BY <1>4 DEF QuietStack, Nobody
<1>12. AllLeft(kept[t].top)'
  <2>1. kept[t].top <= Len(stack) /\ \A i \in 1 .. kept[t].top : stack[i] = Left
    BY <1>5 DEF AllLeft
  <2>2. kept[t].top <= Len(stack') BY <1>5, <1>6, <2>1
  <2>3. \A i \in 1 .. kept[t].top : stack'[i] = Left
    <3>1. TAKE i \in 1 .. kept[t].top
    <3>2. i \in 1 .. Len(stack) BY <1>5, <2>1
    <3>3. QED BY <1>6, <2>1, <3>2
  <2>4. QED BY <1>9, <2>2, <2>3 DEF AllLeft
<1>13. WaitStack(t)' BY <1>1, <1>3, <1>5, <1>6, <1>8, <1>9, <1>12 DEF WaitStack
<1>14. ASSUME NEW u \in Thread PROVE (PreparedStack(u) /\ TaskStack(u) /\ WaitStack(u))'
  <2>1. PreparedStack(u)' /\ TaskStack(u)' BY <1>4 DEF PreparedStack, TaskStack
  <2>2. u # t => WaitStack(u)' BY <1>4 DEF WaitStack
  <2>3. QED BY <1>13, <2>1, <2>2
<1>15. QED BY <1>10, <1>11, <1>14 DEF StackInv

LEMMA ReturnKeepsStack ==
    ASSUME IInv, StackInv, NEW t \in Thread, Return(t)
    PROVE  StackInv'
<1>1. /\ slave[t] = "woken" /\ slave' = [slave EXCEPT ![t] = "inside"]
      /\ stack' = Keep(Base) /\ bases' = SubSeq(bases, 1, Len(bases) - 1)
      /\ UNCHANGED <<top, pc, kept>>
  BY DEF Return, LeaveCall, master
<1>2. StackTypes /\ WaitStack(t) BY DEF StackInv
<1>3. \A u \in Thread \ {t} : slave[u] = "none" BY <1>1, AloneInside
<1>4. slave'[t] = "inside" /\ \A u \in Thread \ {t} : slave'[u] = "none"
  BY <1>1, <1>3 DEF IInv, ControlOK
<1>5. /\ stack \in Seq(Int) /\ bases \in Seq(Nat) /\ Len(stack) \in Nat /\ kept[t].top \in Nat
      /\ Len(bases) = 3 /\ bases[1] = 0 /\ bases[2] = kept[t].top + 1
      /\ bases[2] <= bases[3] /\ bases[3] + 1 <= Len(stack) /\ AllLeft(kept[t].top)
  BY <1>1, <1>2, LenProperties DEF StackTypes, WaitStack
<1>6. Base = bases[3] /\ Base \in Nat
  <2>1. Base = bases[3] BY <1>5 DEF Base
  <2>2. 3 \in 1 .. Len(bases) BY <1>5
  <2>3. bases[3] \in Nat BY <1>5, <2>2, ElementOfSeq
  <2>4. QED BY <2>1, <2>3
<1>7. /\ stack' \in Seq(Int) /\ Len(stack') = bases[3]
      /\ \A i \in 1 .. bases[3] : stack'[i] = stack[i]
  <2>1. /\ Keep(Base) \in Seq(Int) /\ Len(Keep(Base)) = Base
        /\ \A i \in 1 .. Base : Keep(Base)[i] = IF i <= Len(stack) THEN stack[i] ELSE Other
    BY <1>5, <1>6, KeepIsStack
  <2>2. stack' \in Seq(Int) /\ Len(stack') = bases[3] BY <1>1, <1>6, <2>1
  <2>3. \A i \in 1 .. bases[3] : stack'[i] = stack[i]
    <3>1. TAKE i \in 1 .. bases[3]
    <3>2. i \in 1 .. Base /\ i <= Len(stack) BY <1>5, <1>6
    <3>3. QED BY <1>1, <2>1, <3>2
  <2>4. QED BY <2>2, <2>3
<1>8. bases' \in Seq(Nat) /\ Len(bases') = 2 /\ bases'[1] = 0 /\ bases'[2] = bases[2]
  <2>1. bases' = SubSeq(bases, 1, 2) BY <1>1, <1>5
  <2>2. QED BY <1>5, <2>1, SubSeqProperties
<1>9. StackTypes' BY <1>1, <1>2, <1>7, <1>8 DEF StackTypes
<1>10. QuietStack' BY <1>4 DEF QuietStack, Nobody
<1>11. AllLeft(kept[t].top)'
  <2>1. kept[t].top <= bases[3] BY <1>5, <1>6
  <2>2. \A i \in 1 .. kept[t].top : stack[i] = Left BY <1>5 DEF AllLeft
  <2>3. kept[t].top <= Len(stack') BY <1>7, <2>1
  <2>4. \A i \in 1 .. kept[t].top : stack'[i] = Left
    <3>1. TAKE i \in 1 .. kept[t].top
    <3>2. i \in 1 .. bases[3] BY <1>5, <1>6, <2>1
    <3>3. QED BY <1>7, <2>2, <3>2
  <2>5. kept'[t].top = kept[t].top BY <1>1
  <2>6. QED BY <2>3, <2>4, <2>5 DEF AllLeft
<1>12. TaskStack(t)' BY <1>1, <1>5, <1>7, <1>8, <1>11 DEF TaskStack
<1>13. ASSUME NEW u \in Thread PROVE (PreparedStack(u) /\ TaskStack(u) /\ WaitStack(u))'
  <2>1. PreparedStack(u)' /\ WaitStack(u)' BY <1>4 DEF PreparedStack, WaitStack
  <2>2. u # t => TaskStack(u)' BY <1>4 DEF TaskStack
  <2>3. QED BY <1>12, <2>1, <2>2
<1>14. QED BY <1>9, <1>10, <1>13 DEF StackInv

LEMMA FinishKeepsStack ==
    ASSUME IInv, StackInv, NEW t \in Thread, Finish(t)
    PROVE  StackInv'
<1>1. /\ slave[t] = "inside" /\ slave' = [slave EXCEPT ![t] = "unlocked"]
      /\ stack' = Keep(bases[Len(bases) - 1] + kept[t].top)
      /\ bases' = SubSeq(bases, 1, Len(bases) - 1)
      /\ UNCHANGED <<top, pc, kept>>
  BY DEF Finish, master
<1>2. StackTypes /\ TaskStack(t) BY DEF StackInv
<1>3. pc = "script" /\ \A u \in Thread \ {t} : slave[u] = "none"
  BY <1>1, AloneInside
<1>4. slave'[t] = "unlocked" /\ \A u \in Thread \ {t} : slave'[u] = "none"
  BY <1>1, <1>3 DEF IInv, ControlOK
<1>5. /\ stack \in Seq(Int) /\ bases \in Seq(Nat) /\ Len(stack) \in Nat /\ kept[t].top \in Nat
      /\ Len(bases) = 2 /\ bases[1] = 0 /\ AllLeft(kept[t].top)
  BY <1>1, <1>2, LenProperties DEF StackTypes, TaskStack
<1>6. stack' = Keep(kept[t].top)
  <2>1. bases[Len(bases) - 1] + kept[t].top = kept[t].top BY <1>5
  <2>2. QED BY <1>1, <2>1
<1>7. /\ stack' \in Seq(Int) /\ Len(stack') = kept[t].top
      /\ \A i \in 1 .. kept[t].top : stack'[i] = Left
  <2> DEFINE n == kept[t].top
  <2>1. n \in Nat BY <1>5
  <2>2. /\ Keep(n) \in Seq(Int) /\ Len(Keep(n)) = n
        /\ \A i \in 1 .. n : Keep(n)[i] = IF i <= Len(stack) THEN stack[i] ELSE Other
    BY <1>5, <2>1, KeepIsStack
  <2>3. n <= Len(stack) /\ \A i \in 1 .. n : stack[i] = Left BY <1>5 DEF AllLeft
  <2> HIDE DEF n
  <2>4. \A i \in 1 .. n : Keep(n)[i] = Left BY <1>5, <2>1, <2>2, <2>3, SMTT(30)
  <2>5. stack' = Keep(n) BY <1>6 DEF n
  <2>6. QED BY <2>2, <2>4, <2>5 DEF n
<1>8. bases' \in Seq(Nat) /\ Len(bases') = 1 /\ bases'[1] = 0
  <2>1. bases' = SubSeq(bases, 1, 1) BY <1>1, <1>5
  <2>2. QED BY <1>5, <2>1, SubSeqProperties
<1>9. StackTypes' BY <1>1, <1>2, <1>7, <1>8 DEF StackTypes
<1>10. AllLeft(Len(stack))' BY <1>5, <1>7 DEF AllLeft
<1>11. QuietStack' BY <1>1, <1>3, <1>8, <1>10 DEF QuietStack
<1>12. \A u \in Thread : (PreparedStack(u) /\ TaskStack(u) /\ WaitStack(u))'
  BY <1>4 DEF PreparedStack, TaskStack, WaitStack
<1>13. QED BY <1>9, <1>11, <1>12 DEF StackInv

LEMMA ClearKeepsStack ==
    ASSUME IInv, StackInv, NEW t \in Thread, ClearId(t)
    PROVE  StackInv'
<1>1. /\ slave[t] = "unlocked" /\ slave' = [slave EXCEPT ![t] = "none"]
      /\ kept' = [kept EXCEPT ![t] = NothingKept] /\ UNCHANGED <<top, pc, stack, bases>>
  BY DEF ClearId, master
<1>2. \A u \in Thread \ {t} : slave[u] = "none" BY <1>1, AloneInside
<1>3. \A u \in Thread : slave'[u] = "none" BY <1>1, <1>2 DEF IInv, ControlOK
<1>4. Nobody BY <1>1, <1>2 DEF Nobody
<1>5. StackTypes /\ QuietStack BY DEF StackInv
<1>6. NothingKept \in [top : Nat, stack : Seq(Int), bases : Seq(Nat)]
  BY EmptySeq DEF NothingKept
<1>7. StackTypes' BY <1>1, <1>5, <1>6 DEF StackTypes
<1>8. QuietStack' BY <1>1, <1>4, <1>5 DEF QuietStack, AllLeft
<1>9. \A u \in Thread : (PreparedStack(u) /\ TaskStack(u) /\ WaitStack(u))'
  BY <1>3 DEF PreparedStack, TaskStack, WaitStack
<1>10. QED BY <1>7, <1>8, <1>9 DEF StackInv

LEMMA MasterKeepsStack ==
    ASSUME Careful, IInv, IInv', StackInv, Operation \/ Locking \/ Run
    PROVE  StackInv'
<1>1. CASE Begin BY <1>1, BeginKeepsStack
<1>2. CASE End \/ EndDostring BY <1>2, EndKeepsStack
<1>3. CASE IncludePath BY <1>3, UntouchedStack DEF IncludePath, Script, master, vm
<1>4. CASE PollLock BY <1>4, UntouchedStack DEF PollLock, Script, vm
<1>5. CASE PollUnlock BY <1>5, UntouchedStack DEF PollUnlock, vm
<1>6. CASE Trylock BY <1>6, UntouchedStack DEF Trylock, Script, vm
<1>7. CASE Unlock BY <1>7, UntouchedStack DEF Unlock, Script, vm
<1>8. CASE Close BY <1>8, UntouchedStack DEF Close, Script, master, vm
<1>9. CASE Signal \/ WakeUp
  <2>1. PICK t \in Thread : Woken(t) BY <1>9 DEF Signal, WakeUp
  <2>2. UNCHANGED <<stack, bases, kept, top>> /\ pc' = pc BY <2>1 DEF Woken, master, vm
  <2>3. /\ slave[t] = "waiting" /\ slave'[t] = "woken"
        /\ \A u \in Thread : u # t => slave'[u] = slave[u]
    BY <2>1 DEF Woken, IInv, ControlOK
  <2>4. QED BY <2>2, <2>3, UntouchedStack
<1>10. CASE RunCheck \/ RunLock \/ RunFail BY <1>10, RunKeepsStack
<1>11. CASE RunRefused BY <1>11, UntouchedStack DEF RunRefused, vm
<1>12. CASE \E t \in Thread, argc \in 0 .. MaxArgs : RunStart(t, argc)
  BY <1>12, StartKeepsStack
<1>13. QED
  BY <1>1, <1>2, <1>3, <1>4, <1>5, <1>6, <1>7, <1>8, <1>9, <1>10, <1>11, <1>12
     DEF Operation, Locking, Run

LEMMA TaskKeepsStack ==
    ASSUME IInv, StackInv, NEW t \in Thread, Task(t)
    PROVE  StackInv'
<1>1. CASE SetId(t)
  <2>1. UNCHANGED <<stack, bases, kept, top>> /\ pc' = pc BY <1>1 DEF SetId, master, vm
  <2>2. /\ slave[t] = "started" /\ slave'[t] = "identified"
        /\ \A u \in Thread : u # t => slave'[u] = slave[u]
    BY <1>1 DEF SetId, IInv, ControlOK
  <2>3. QED BY <2>1, <2>2, UntouchedStack
<1>2. CASE Announce(t)
  <2>1. UNCHANGED <<stack, bases, kept, top>> /\ pc' = pc /\ slave' = slave
    BY <1>2 DEF Announce, master, vm
  <2>2. QED BY <2>1, UntouchedStack
<1>3. QED
  BY <1>1, <1>2, EnterKeepsStack, WaitKeepsStack, ReturnKeepsStack, FinishKeepsStack,
     ClearKeepsStack DEF Task

LEMMA StutterKeepsStack ==
    ASSUME StackInv, UNCHANGED vars
    PROVE  StackInv'
<1>1. UNCHANGED <<stack, bases, kept, top>> /\ pc' = pc /\ slave' = slave
  BY DEF vars, master, vm
<1>2. QED BY <1>1, UntouchedStack

(* The invariant holds in every state of a master that polls.              *)
THEOREM StackInvariance ==
    ASSUME Careful
    PROVE  Spec => []StackInv
<1>1. IInv /\ IInv' /\ StackInv /\ [Next]_vars => StackInv'
  BY MasterKeepsStack, TaskKeepsStack, StutterKeepsStack DEF Next
<1>2. QED BY InitStack, ControlInvariance, <1>1, PTL DEF Spec

(* Every variable of the slave and its master keeps its type, whatever     *)
(* thread_run and the calls put on the stack.                              *)
THEOREM SlaveTypes ==
    ASSUME Careful
    PROVE  Spec => []TypeOK
<1>1. IInv /\ StackInv => TypeOK
  BY DEF IInv, ControlOK, StackInv, StackTypes, TypeOK
<1>2. QED BY ControlInvariance, StackInvariance, <1>1, PTL

(* A thread that comes back from slavevm_thread_cond_wait finds its frames *)
(* as it left them, whatever the master called in the meantime.            *)
THEOREM FramesAreKept ==
    ASSUME Careful
    PROVE  Spec => []FramesKept
<1>1. ASSUME StackInv PROVE FramesKept
  <2>1. SUFFICES ASSUME NEW t \in Thread, slave[t] \in {"waiting", "woken"}
                 PROVE  /\ bases = kept[t].bases
                        /\ Len(stack) >= Len(kept[t].stack)
                        /\ Keep(Len(kept[t].stack)) = kept[t].stack
    BY DEF FramesKept
  <2> DEFINE k == kept[t].stack
  <2>2. StackTypes /\ WaitStack(t) BY <1>1 DEF StackInv
  <2>3. stack \in Seq(Int) /\ k \in Seq(Int) /\ Len(k) \in Nat /\ Len(stack) \in Nat
    BY <2>2, LenProperties DEF StackTypes
  <2>4. /\ bases = kept[t].bases /\ Len(k) <= Len(stack)
        /\ \A i \in 1 .. Len(k) : stack[i] = k[i]
    BY <2>1, <2>2 DEF WaitStack
  <2> HIDE DEF k
  <2>5. /\ Keep(Len(k)) \in Seq(Int) /\ Len(Keep(Len(k))) = Len(k)
        /\ \A i \in 1 .. Len(k) : Keep(Len(k))[i] = IF i <= Len(stack) THEN stack[i] ELSE Other
    BY <2>3, KeepIsStack
  <2>6. \A i \in 1 .. Len(k) : Keep(Len(k))[i] = k[i]
    <3>1. TAKE i \in 1 .. Len(k)
    <3>2. i <= Len(stack) BY <2>3, <2>4
    <3>3. QED BY <2>4, <2>5, <3>2
  <2>7. Keep(Len(k)) = k BY <2>3, <2>5, <2>6, SeqEqual
  <2>8. QED BY <2>3, <2>4, <2>7 DEF k
<1>2. QED BY StackInvariance, <1>1, PTL

(* A thread finds the call that thread_run made ready for it, and an       *)
(* operation or a task leaves nothing on the stack but what dostring does. *)
THEOREM StackIsAccounted ==
    ASSUME Careful
    PROVE  Spec => []StackAccounted
<1>1. ASSUME IInv, StackInv PROVE StackAccounted
  <2>1. StackTypes /\ QuietStack /\ Len(stack) \in Nat /\ bases \in Seq(Nat)
    BY <1>1, LenProperties DEF StackInv, StackTypes
  <2>2. ASSUME NEW t \in Thread, slave[t] \in {"started", "identified"}
        PROVE  LET n == Len(stack)
               IN  /\ n > 3 /\ stack[n] >= 0 /\ stack[n - 1] >= 0
                   /\ Gettop = stack[n] + 2 + stack[n - 1] + 2
    <3>1. PreparedStack(t) BY <1>1 DEF StackInv
    <3> DEFINE n == Len(stack)
    <3>2. /\ n > 3 /\ stack[n] >= 0 /\ stack[n - 1] >= 0
          /\ n = stack[n] + stack[n - 1] + 4 /\ Base = 0
      BY <2>2, <3>1 DEF PreparedStack, Base
    <3>3. stack[n] \in Int /\ stack[n - 1] \in Int
      <4>1. stack \in Seq(Int) /\ n \in 1 .. Len(stack) /\ n - 1 \in 1 .. Len(stack)
        BY <2>1, <3>2, SMTT(30) DEF StackTypes
      <4> HIDE DEF n
      <4>2. QED BY <4>1, ElementOfSeq
    <3>4. QED BY <2>1, <3>2, <3>3 DEF Gettop
  <2>3. ASSUME pc \notin {"inside", "running"}, \A t \in Thread : slave[t] \in {"none", "unlocked"}
        PROVE  bases = <<0>> /\ \A i \in 1 .. Len(stack) : stack[i] = Left
    <3>1. pc \in {"script", "polling", "checked"} BY <1>1, <2>3 DEF IInv, ControlOK
    <3>2. Len(bases) = 1 /\ bases[1] = 0 /\ AllLeft(Len(stack))
      BY <2>1, <2>3, <3>1 DEF QuietStack, Nobody
    <3>3. <<0>> \in Seq(Nat) /\ Len(<<0>>) = 1 /\ <<0>>[1] = 0 OBVIOUS
    <3>4. bases = <<0>> BY <2>1, <3>2, <3>3, SeqEqual
    <3>5. QED BY <3>2, <3>4 DEF AllLeft
  <2>4. QED BY <2>2, <2>3 DEF StackAccounted
<1>2. QED BY ControlInvariance, StackInvariance, <1>1, PTL
=============================================================================
