------------------------------ MODULE SlaveVm -------------------------------
(***************************************************************************)
(* A SlaveVM run as a thread (sq_slave_vm.cpp): a script of the master     *)
(* operates on another VM, and may start a thread that calls a function    *)
(* there.  One mutex protects the VM: thread_run takes it and the thread   *)
(* gives it back, at its end or while it waits in                          *)
(* slavevm_thread_cond_wait, when the master may use the VM under the      *)
(* frames of the thread that waits.                                        *)
(*                                                                         *)
(* The steps are those between which the other thread may run.  A call     *)
(* that only fails ("Could not aquire slave lock", "already running") is   *)
(* no step.  The master's script is one that                               *)
(*   - unlocks what it locked, or what a thread_run left locked: it takes  *)
(*     false for that if it knew that no thread had the mutex;             *)
(*   - closes the VM when slave_state tells that the last task has nothing *)
(*     left to do: a task sets it to busy when it begins, to done when it  *)
(*     waits no more;                                                      *)
(*   - if Careful, runs a thread when is_thread_idle has been true since   *)
(*     the last one was started.                                           *)
(***************************************************************************)
EXTENDS Integers, Sequences, FiniteSets

CONSTANTS Thread,    \* threads of the slave
          None,      \* no thread
          MaxArgs,   \* bound on the arguments of thread_run
          MaxStack,  \* bound on the values on the stack of the VM
          Careful    \* whether the master polls before it runs a thread

ASSUME NoneIsNoThread == None \notin Thread
ASSUME Bounds == MaxArgs \in Nat /\ MaxStack \in Nat
ASSUME CarefulOrNot == Careful \in BOOLEAN

VARIABLES mutex,  \* free, held, or lost: held by a call that has returned
          id,     \* thread_id
          pc,     \* where the master is
          top,    \* the local top of the operation the master is in
          idle,   \* script: no thread was started since the VM was seen idle
          holds,  \* script: it has the mutex
          open,   \* whether the VM has not been closed
          done,   \* slave_state: the task waits no more
          slave,  \* where each thread is
          stack,  \* the stack of the VM: integers, Other values, and those Left
          bases,  \* the stack bases of its calls, outermost first
          kept    \* the local top of each thread, and stack and bases as it
                  \* left them when it waited

master == <<pc, top, idle, holds>>
vm == <<stack, bases, kept>>
vars == <<mutex, id, master, open, done, slave, vm>>

Other == -1
Left == -2
Alive(t) == slave[t] # "none"
Base == bases[Len(bases)]

(* The stack with n values: cut, or filled with null.                      *)
Keep(n) == [i \in 1 .. n |-> IF i \in DOMAIN stack THEN stack[i] ELSE Other]

(* sq_gettop and sq_settop count from the base of the call on top.         *)
Gettop == Len(stack) - Base
Settop(n) == Keep(Base + n)

NothingKept == [top |-> 0, stack |-> <<>>, bases |-> <<>>]

Script == pc = "script" /\ open

(* The call on top returns: its frame goes.                                *)
LeaveCall ==
    /\ stack' = Keep(Base)
    /\ bases' = SubSeq(bases, 1, Len(bases) - 1)

-----------------------------------------------------------------------------
(* Operations of the master.                                               *)

(* call, set, get, dofile, loadfile, compilestring, dostring: with the     *)
(* mutex, they put values on the stack, here one.                          *)
Begin ==
    /\ Script /\ mutex = "free" /\ Len(stack) < MaxStack
    /\ mutex' = "held" /\ pc' = "inside"
    /\ top' = Gettop /\ stack' = Append(stack, Other)
    /\ UNCHANGED <<id, idle, holds, open, done, slave, bases, kept>>

(* Mutant: the top is taken for one from the bottom of the stack.          *)
EndAbsolute ==
    /\ pc = "inside"
    /\ mutex' = "free" /\ pc' = "script"
    /\ stack' = Keep(top)
    /\ UNCHANGED <<id, top, idle, holds, open, done, slave, bases, kept>>

(* Mutant: an error returns past the unlock.                               *)
EndLocked ==
    /\ pc = "inside"
    /\ mutex' \in {"free", "held"} /\ pc' = "script"
    /\ stack' = Settop(top)
    /\ UNCHANGED <<id, top, idle, holds, open, done, slave, bases, kept>>

(* All of them but dostring reset the stack, whatever happened.            *)
End ==
    /\ pc = "inside"
    /\ mutex' = "free" /\ pc' = "script"
    /\ stack' = Settop(top)
    /\ UNCHANGED <<id, top, idle, holds, open, done, slave, bases, kept>>

(* dostring resets it after an error only.                                 *)
EndDostring ==
    /\ pc = "inside"
    /\ mutex' = "free" /\ pc' = "script"
    /\ stack' = Append(Settop(top), Left)
    /\ UNCHANGED <<id, top, idle, holds, open, done, slave, bases, kept>>

(* set_include_path and get_include_path of a VM that no thread is in take *)
(* the mutex, destroy it and do not give it back.                          *)
IncludePath ==
    /\ Script /\ mutex = "free" /\ \A t \in Thread : ~Alive(t)
    /\ mutex' = "lost"
    /\ UNCHANGED <<id, master, open, done, slave, vm>>

(* is_thread_idle: trylock, and unlock.                                    *)
PollLock ==
    /\ Script /\ mutex = "free"
    /\ mutex' = "held" /\ pc' = "polling"
    /\ UNCHANGED <<id, top, idle, holds, open, done, slave, vm>>

(* Mutant: an idle VM stays locked.                                        *)
PollKeepLock ==
    /\ pc = "polling"
    /\ pc' = "script" /\ idle' = TRUE
    /\ UNCHANGED <<mutex, id, top, holds, open, done, slave, vm>>

PollUnlock ==
    /\ pc = "polling"
    /\ mutex' = "free" /\ pc' = "script" /\ idle' = TRUE
    /\ UNCHANGED <<id, top, holds, open, done, slave, vm>>

(* thread_trylock and thread_unlock.                                       *)
Trylock ==
    /\ Script /\ mutex = "free"
    /\ mutex' = "held" /\ holds' = TRUE
    /\ UNCHANGED <<id, pc, top, idle, open, done, slave, vm>>

Unlock ==
    /\ Script /\ holds
    /\ mutex' = "free" /\ holds' = FALSE
    /\ UNCHANGED <<id, pc, top, idle, open, done, slave, vm>>

(* Mutant: without checkTryLock.                                           *)
CloseUnlocked ==
    /\ Script /\ done
    /\ mutex' = "held" /\ open' = FALSE
    /\ UNCHANGED <<id, master, done, slave, vm>>

Close ==
    /\ Script /\ done /\ mutex = "free"
    /\ mutex' = "held" /\ open' = FALSE
    /\ UNCHANGED <<id, master, done, slave, vm>>

-----------------------------------------------------------------------------
(* thread_run.                                                             *)

(* Mutant: the index of the value on top.                                  *)
RunCheckBelow ==
    /\ Script /\ id = None /\ Len(stack) + 4 + MaxArgs <= MaxStack
    /\ Careful => idle /\ ~holds
    /\ pc' = "checked" /\ top' = Gettop - 1
    /\ UNCHANGED <<mutex, id, idle, holds, open, done, slave, vm>>

(* It looks at thread_id and reads the top before it has the mutex.        *)
RunCheck ==
    /\ Script /\ id = None /\ Len(stack) + 4 + MaxArgs <= MaxStack
    /\ Careful => idle /\ ~holds
    /\ pc' = "checked" /\ top' = Gettop
    /\ UNCHANGED <<mutex, id, idle, holds, open, done, slave, vm>>

(* Without the mutex it returns false.                                     *)
RunRefused ==
    /\ pc = "checked" /\ mutex # "free"
    /\ pc' = "script" /\ holds' = idle
    /\ UNCHANGED <<mutex, id, top, idle, open, done, slave, vm>>

(* Function and root table go on the stack.                                *)
RunLock ==
    /\ pc = "checked" /\ mutex = "free"
    /\ mutex' = "held" /\ pc' = "running"
    /\ stack' = stack \o <<Other, Other>>
    /\ UNCHANGED <<id, top, idle, holds, open, done, slave, bases, kept>>

(* Mutant: the stack is not reset when the thread does not start.          *)
RunFailUnreset ==
    /\ pc = "running"
    /\ pc' = "script" /\ holds' = idle
    /\ UNCHANGED <<mutex, id, top, idle, open, done, slave, vm>>

(* No closure, no copy of an argument, or no thread: false, and the mutex  *)
(* stays locked.                                                           *)
RunFail ==
    /\ pc = "running"
    /\ pc' = "script" /\ holds' = idle
    /\ stack' = Settop(top)
    /\ UNCHANGED <<mutex, id, top, idle, open, done, slave, bases, kept>>

(* The arguments, their number and the top; the mutex is the thread's now. *)
RunStart(t, argc) ==
    /\ pc = "running" /\ ~Alive(t)
    /\ pc' = "script" /\ idle' = FALSE
    /\ stack' = stack \o [i \in 1 .. argc |-> Other] \o <<argc, top>>
    /\ slave' = [slave EXCEPT ![t] = "started"]
    /\ UNCHANGED <<mutex, id, top, holds, open, done, bases, kept>>

-----------------------------------------------------------------------------
(* slaveThreadTask.                                                        *)

SetId(t) ==
    /\ slave[t] = "started"
    /\ slave' = [slave EXCEPT ![t] = "identified"]
    /\ id' = t
    /\ UNCHANGED <<mutex, master, open, done, vm>>

(* It takes the top and the number of arguments from the stack and calls   *)
(* the function with the root table and the arguments; the task begins by  *)
(* setting slave_state to busy.                                            *)
Enter(t) ==
    LET n == Len(stack)  argc == stack[n - 1]
    IN  /\ slave[t] = "identified"
        /\ n >= 2 /\ stack[n] >= 0 /\ argc \in 0 .. n - 3
        /\ slave' = [slave EXCEPT ![t] = "inside"]
        /\ kept' = [kept EXCEPT ![t].top = stack[n]]
        /\ stack' = Keep(n - 2)
        /\ bases' = Append(bases, n - 3 - argc)
        /\ done' = FALSE
        /\ UNCHANGED <<mutex, id, master, open>>

(* slavevm_thread_cond_wait gives the mutex back.                          *)
Wait(t) ==
    /\ slave[t] = "inside" /\ ~done /\ Len(stack) < MaxStack
    /\ slave' = [slave EXCEPT ![t] = "waiting"]
    /\ stack' = Append(stack, Other)
    /\ bases' = Append(bases, Len(stack))
    /\ kept' = [kept EXCEPT ![t].stack = stack', ![t].bases = bases']
    /\ mutex' = "free"
    /\ UNCHANGED <<id, master, open, done>>

Woken(t) ==
    /\ slave[t] = "waiting"
    /\ slave' = [slave EXCEPT ![t] = "woken"]
    /\ UNCHANGED <<mutex, id, master, open, done, vm>>

(* thread_cond_signal.                                                     *)
Signal == Script /\ \E t \in Thread : Woken(t)

(* A wait may also end by itself.                                          *)
WakeUp == \E t \in Thread : Woken(t)

(* Mutant: the wait ends without the mutex.                                *)
ReturnUnlocked(t) ==
    /\ slave[t] = "woken"
    /\ slave' = [slave EXCEPT ![t] = "inside"]
    /\ mutex' = "held"
    /\ LeaveCall
    /\ UNCHANGED <<id, master, open, done, kept>>

(* cond_wait has the mutex again and returns to the task.                  *)
Return(t) ==
    /\ slave[t] = "woken" /\ mutex = "free"
    /\ slave' = [slave EXCEPT ![t] = "inside"]
    /\ mutex' = "held"
    /\ LeaveCall
    /\ UNCHANGED <<id, master, open, done, kept>>

Announce(t) ==
    /\ slave[t] = "inside" /\ ~done
    /\ done' = TRUE
    /\ UNCHANGED <<mutex, id, master, open, slave, vm>>

(* The function returns, the stack is reset and the mutex given back.      *)
Finish(t) ==
    /\ slave[t] = "inside" /\ done
    /\ slave' = [slave EXCEPT ![t] = "unlocked"]
    /\ bases' = SubSeq(bases, 1, Len(bases) - 1)
    /\ stack' = Keep(bases[Len(bases) - 1] + kept[t].top)
    /\ mutex' = "free"
    /\ UNCHANGED <<id, master, open, done, kept>>

(* thread_id is cleared without the mutex.                                 *)
ClearId(t) ==
    /\ slave[t] = "unlocked"
    /\ slave' = [slave EXCEPT ![t] = "none"]
    /\ id' = None
    /\ kept' = [kept EXCEPT ![t] = NothingKept]
    /\ UNCHANGED <<mutex, master, open, done, stack, bases>>

-----------------------------------------------------------------------------
Init ==
    /\ mutex = "free" /\ id = None
    /\ pc = "script" /\ top = 0 /\ idle = TRUE /\ holds = FALSE
    /\ open = TRUE /\ done = TRUE
    /\ slave = [t \in Thread |-> "none"]
    /\ stack = <<>> /\ bases = <<0>>
    /\ kept = [t \in Thread |-> NothingKept]

Operation == Begin \/ End \/ EndDostring \/ IncludePath \/ PollLock \/ PollUnlock
Locking == Trylock \/ Unlock \/ Close \/ Signal \/ WakeUp
Run == RunCheck \/ RunRefused \/ RunLock \/ RunFail
          \/ \E t \in Thread, argc \in 0 .. MaxArgs : RunStart(t, argc)
Task(t) == SetId(t) \/ Enter(t) \/ Wait(t) \/ Return(t) \/ Announce(t) \/ Finish(t)
              \/ ClearId(t)

Next == Operation \/ Locking \/ Run \/ \E t \in Thread : Task(t)

Spec == Init /\ [][Next]_vars

(* An operation of the master ends, a task waits or ends, and cond_wait    *)
(* gets the mutex if it is free again and again; the script gives back     *)
(* what it locked, and signals again and again, as in test-slave-vm.nut.   *)
Fairness ==
    /\ WF_vars(End \/ EndDostring) /\ WF_vars(PollUnlock)
    /\ WF_vars(RunRefused \/ RunLock \/ RunFail \/ \E t \in Thread, argc \in 0 .. MaxArgs : RunStart(t, argc))
    /\ WF_vars(Unlock) /\ SF_vars(Signal)
    /\ \A t \in Thread :
          /\ WF_vars(SetId(t) \/ Enter(t) \/ Finish(t) \/ ClearId(t))
          /\ WF_vars(Wait(t) \/ Announce(t))
          /\ SF_vars(Return(t))

FairSpec == Spec /\ Fairness

-----------------------------------------------------------------------------
InMaster == pc \in {"inside", "polling", "running"}
InSlave(t) == slave[t] \in {"started", "identified", "inside"}

TypeOK ==
    /\ mutex \in {"free", "held", "lost"}
    /\ id \in Thread \cup {None}
    /\ pc \in {"script", "inside", "polling", "checked", "running"}
    /\ top \in Nat
    /\ idle \in BOOLEAN /\ holds \in BOOLEAN /\ open \in BOOLEAN /\ done \in BOOLEAN
    /\ slave \in [Thread -> {"none", "started", "identified", "inside", "waiting",
                             "woken", "unlocked"}]
    /\ stack \in Seq(Int) /\ bases \in Seq(Nat)
    /\ kept \in [Thread -> [top : Nat, stack : Seq(Int), bases : Seq(Nat)]]

(* "slavevm already running in a thread": there is one thread at a time.   *)
OneThread == \A t, u \in Thread : Alive(t) /\ Alive(u) => t = u

(* The mutex is held by the master, the thread it started, or nobody, and  *)
(* who works on the VM has it.                                             *)
OneInside ==
    /\ InMaster => ~holds /\ \A t \in Thread : ~InSlave(t)
    /\ \A t, u \in Thread : InSlave(t) /\ InSlave(u) => t = u
    /\ InMaster \/ (\E t \in Thread : InSlave(t)) => mutex = "held"

(* A thread that waits finds the stack as it left it, with what dostring   *)
(* leaves above, whatever the master did with the VM in the meantime.      *)
FramesKept ==
    \A t \in Thread :
        slave[t] \in {"waiting", "woken"} =>
            /\ bases = kept[t].bases
            /\ Len(stack) >= Len(kept[t].stack)
            /\ Keep(Len(kept[t].stack)) = kept[t].stack

(* A thread finds the call that thread_run made ready for it; when nobody  *)
(* is in the VM, its stack has nothing but what dostring left.             *)
StackAccounted ==
    LET n == Len(stack)
    IN  /\ \A t \in Thread : slave[t] \in {"started", "identified"} =>
              /\ n > 3 /\ stack[n] >= 0 /\ stack[n - 1] >= 0
              /\ Gettop = stack[n] + 2 + stack[n - 1] + 2
        /\ pc \notin {"inside", "running"} /\ (\A t \in Thread : slave[t] \in {"none", "unlocked"}) =>
              bases = <<0>> /\ \A i \in 1 .. n : stack[i] = Left

(* No thread is to use the VM once it is closed.                           *)
ClosedNotUsed == ~open => \A t \in Thread : slave[t] \in {"none", "unlocked"}

(* The mutex comes free.                                                   *)
LockComesFree == mutex = "held" ~> mutex # "held" \/ ~open

(* A thread that waits goes on.                                            *)
WaitsEnd == \A t \in Thread : slave[t] \in {"waiting", "woken"} ~> slave[t] = "inside"
=============================================================================
