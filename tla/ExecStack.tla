----------------------------- MODULE ExecStack -----------------------------
(***************************************************************************)
(* The call stack of one SquiLu VM (sqvm.cpp): frames, exception traps,    *)
(* generators that leave the stack and come back, suspension, and the      *)
(* nesting of SQVM::Execute and native functions on the C++ stack.         *)
(*                                                                         *)
(* v is the SQVM: _callsstack (ci is the last frame), _stackbase, _etraps, *)
(* _nnativecalls, and acts, the activations of Execute and of native       *)
(* functions on the C++ stack, with the locals of Execute.  Bytecode is    *)
(* any that the compiler emits: a frame pops only its own traps and has    *)
(* none left when it returns.                                              *)
(*                                                                         *)
(* A frame's stack base is its depth.  A trap is the base it restores and  *)
(* its nesting in its frame, which stands for the handler's address.       *)
(***************************************************************************)
EXTENDS Integers, Sequences, SequencesExt, FiniteSets

CONSTANTS Gen,          \* generators
          None,         \* no generator
          MaxFrames,    \* bound on the depth of calls by scripts
          MaxTraps,     \* bound on the traps set at a time
          MaxNative,    \* MAX_NATIVE_CALLS
          ResumeGen,    \* the generators scripts resume with resume
          ForeachGen,   \* the generators scripts loop over with foreach
          ApiGen,       \* the generators native code resumes with sq_resume
          TryGen        \* the generators that yield inside a try

ASSUME NoneIsNoGenerator == None \notin Gen
ASSUME Bounds == MaxFrames \in Nat /\ MaxTraps \in Nat /\ MaxNative \in Nat
ASSUME Uses == ResumeGen \cup ForeachGen \cup ApiGen \cup TryGen \subseteq Gen

VARIABLES v,    \* the VM
          gens, \* the generators: the state, traps and root flag they keep
          susp  \* _suspended, _suspended_root, _suspended_traps

vars == <<v, gens, susp>>

Ci(w) == Last(w.frames)
Top(w) == Last(w.acts)

Frame(kind, g, n, root) == [kind |-> kind, gen |-> g, etraps |-> n, root |-> root]
Activation(kind, traps, raise, why) ==
    [kind |-> kind, traps |-> traps, raise |-> raise, why |-> why, throws |-> FALSE]

EnterFrame(w, f) == [w EXCEPT !.frames = Append(@, f), !.base = @ + 1]
LeaveFrame(w) == [w EXCEPT !.frames = Front(@), !.base = @ - 1]

(* AutoDec ad(&_nnativecalls), and the ++ and -- of CallNative.            *)
Enter(w, a) == [w EXCEPT !.acts = Append(@, a), !.nnative = @ + 1]
Leave(w) == [w EXCEPT !.acts = Front(@), !.nnative = @ - 1]

(* Mutant: one call too many.                                              *)
CanNestBeyond(w) == w.nnative <= MaxNative

CanNest(w) == w.nnative + 1 <= MaxNative

(* Execute with ET_CALL: why is who called it.                             *)
Execute(w, raise, why) ==
    EnterFrame(Enter(w, Activation("exec", 0, raise, why)), Frame("script", None, 0, TRUE))

(* Mutant: the handler is called whether or not a trap is set.             *)
ThrowReports(w) ==
    LET u == [w EXCEPT !.acts[Len(w.acts)].throws = TRUE]
    IN  IF Top(w).raise /\ CanNest(w) THEN Execute(u, FALSE, "handler") ELSE u

(* exception_trap: the error handler runs before anything is unwound, and  *)
(* only for an error this Execute has no trap for.                         *)
Throw(w) ==
    LET u == [w EXCEPT !.acts[Len(w.acts)].throws = TRUE]
    IN  IF Top(w).traps = 0 /\ Top(w).raise /\ CanNest(w)
        THEN Execute(u, FALSE, "handler") ELSE u

(* Execute returns: a metamethod that failed throws in its caller; a host, *)
(* a native function and exception_trap go on.                             *)
ExecuteReturns(w, ok) ==
    LET u == Leave(w)
    IN  IF ~ok /\ Top(w).why = "metamethod" THEN Throw(u) ELSE u

Idle == v.acts = <<>>
InScript == ~Idle /\ Top(v).kind = "exec" /\ ~Top(v).throws
InTrap == ~Idle /\ Top(v).kind = "exec" /\ Top(v).throws
InNative == ~Idle /\ Top(v).kind = "native"

Room == Len(v.frames) < MaxFrames

-----------------------------------------------------------------------------
(* Generators.                                                             *)

NoGen == [state |-> "none", etraps |-> <<>>, root |-> FALSE]

(* Mutant: the traps of a generator keep the stack base they were set at.  *)
RebaseNot(traps, d) == traps

Rebase(traps, d) == [i \in DOMAIN traps |-> [traps[i] EXCEPT !.base = @ + d]]

Kill(g) == IF g = None THEN gens
           ELSE [gens EXCEPT ![g] = [@ EXCEPT !.state = "dead"]]

(* Mutant: the traps come back in the order they were taken.               *)
ResumeFrameReversed(w, g) ==
    LET traps == gens[g].etraps
        u == EnterFrame(w, Frame("script", g, Len(traps), gens[g].root))
    IN  [u EXCEPT !.etraps = @ \o Rebase(traps, u.base)]

(* SQGenerator::Resume: a frame on top, with the traps the generator took  *)
(* along, made absolute again.                                             *)
ResumeFrame(w, g) ==
    LET traps == Reverse(gens[g].etraps)
        u == EnterFrame(w, Frame("script", g, Len(traps), gens[g].root))
    IN  [u EXCEPT !.etraps = @ \o Rebase(traps, u.base)]

Resumed(g) == [gens EXCEPT ![g] = [@ EXCEPT !.state = "running", !.etraps = <<>>]]

(* A call of a generator function: StartCall enters a frame, yields it and *)
(* returns.                                                                *)
NewGenerator(g) ==
    /\ InScript /\ gens[g].state = "none"
    /\ gens' = [gens EXCEPT ![g] = [NoGen EXCEPT !.state = "suspended"]]
    /\ UNCHANGED <<v, susp>>

(* Mutant: the traps of the generator still count in this Execute.         *)
YieldCounted ==
    LET ci == Ci(v)  n == ci.etraps  rest == Len(v.etraps) - n
        taken == SubSeq(v.etraps, rest + 1, Len(v.etraps))
        w == LeaveFrame([v EXCEPT !.etraps = SubSeq(@, 1, rest)])
    IN  /\ InScript /\ ci.gen # None
        /\ n > 0 => ci.gen \in TryGen
        /\ gens' = [gens EXCEPT ![ci.gen] =
                       [state |-> "suspended", etraps |-> Reverse(Rebase(taken, -v.base)),
                        root |-> ci.root]]
        /\ v' = IF ci.root THEN ExecuteReturns(w, TRUE) ELSE w
        /\ UNCHANGED susp

(* SQGenerator::Yield: the frame's traps leave with the generator, topmost *)
(* first and relative to the frame.                                        *)
Yield ==
    LET ci == Ci(v)  n == ci.etraps  rest == Len(v.etraps) - n
        taken == SubSeq(v.etraps, rest + 1, Len(v.etraps))
        w == LeaveFrame([v EXCEPT !.etraps = SubSeq(@, 1, rest),
                                  !.acts[Len(v.acts)].traps = @ - n])
    IN  /\ InScript /\ ci.gen # None
        /\ n > 0 => ci.gen \in TryGen
        /\ gens' = [gens EXCEPT ![ci.gen] =
                       [state |-> "suspended", etraps |-> Reverse(Rebase(taken, -v.base)),
                        root |-> ci.root]]
        /\ v' = IF ci.root THEN ExecuteReturns(w, TRUE) ELSE w
        /\ UNCHANGED susp

(* _OP_RESUME.                                                             *)
Resume(g) ==
    /\ InScript /\ g \in ResumeGen /\ gens[g].state # "none" /\ Room
    /\ IF gens[g].state = "suspended"
       THEN /\ v' = [ResumeFrame(v, g) EXCEPT !.acts[Len(v.acts)].traps = @ + Len(gens[g].etraps)]
            /\ gens' = Resumed(g)
       ELSE v' = Throw(v) /\ UNCHANGED gens
    /\ UNCHANGED susp

(* _OP_FOREACH resumes the generator too, and does not add its traps.      *)
ForeachStep(g) ==
    /\ InScript /\ g \in ForeachGen /\ Room
    /\ gens[g].state \in {"suspended", "running"}
    /\ Top(v).traps > -MaxTraps  \* bounds how far the count is off
    /\ IF gens[g].state = "suspended"
       THEN v' = ResumeFrame(v, g) /\ gens' = Resumed(g)
       ELSE v' = Throw(v) /\ UNCHANGED gens
    /\ UNCHANGED susp

-----------------------------------------------------------------------------
(* The other instructions that touch the call stack.                       *)

CallScript ==
    /\ InScript /\ Room
    /\ v' = EnterFrame(v, Frame("script", None, 0, FALSE))
    /\ UNCHANGED <<gens, susp>>

CallNative ==
    /\ InScript /\ Room
    /\ v' = IF CanNest(v)
            THEN Enter(EnterFrame(v, Frame("native", None, 0, FALSE)),
                       Activation("native", 0, FALSE, "script"))
            ELSE Throw(v)
    /\ UNCHANGED <<gens, susp>>

(* A metamethod that is a script closure: an Execute inside the first.     *)
CallMetaMethod ==
    /\ InScript /\ Room
    /\ v' = IF CanNest(v) THEN Execute(v, FALSE, "metamethod") ELSE Throw(v)
    /\ UNCHANGED <<gens, susp>>

PushTrap ==
    /\ InScript /\ Len(v.etraps) < MaxTraps
    /\ v' = [v EXCEPT !.etraps = Append(@, [base |-> v.base, nest |-> Ci(v).etraps + 1]),
                      !.frames[Len(v.frames)].etraps = @ + 1,
                      !.acts[Len(v.acts)].traps = @ + 1]
    /\ UNCHANGED <<gens, susp>>

(* _OP_POPTRAP n: the end of a try, or a return, break or goto out of n.   *)
PopTrap ==
    /\ InScript
    /\ \E n \in 1 .. Ci(v).etraps :
          v' = [v EXCEPT !.etraps = SubSeq(@, 1, Len(@) - n),
                         !.frames[Len(v.frames)].etraps = @ - n,
                         !.acts[Len(v.acts)].traps = @ - n]
    /\ UNCHANGED <<gens, susp>>

ThrowOp ==
    /\ InScript
    /\ v' = Throw(v)
    /\ UNCHANGED <<gens, susp>>

Return ==
    LET w == LeaveFrame(v)
    IN  /\ InScript /\ Ci(v).etraps = 0
        /\ gens' = Kill(Ci(v).gen)
        /\ v' = IF Ci(v).root THEN ExecuteReturns(w, TRUE) ELSE w
        /\ UNCHANGED susp

-----------------------------------------------------------------------------
(* exception_trap, one frame at a time.                                    *)

Catch ==
    /\ InTrap /\ Ci(v).etraps > 0
    /\ v' = [v EXCEPT !.base = Last(v.etraps).base, !.etraps = Front(@),
                      !.frames[Len(v.frames)].etraps = @ - 1,
                      !.acts[Len(v.acts)].traps = @ - 1, !.acts[Len(v.acts)].throws = FALSE]
    /\ UNCHANGED <<gens, susp>>

(* Mutant: a generator that is unwound is not killed.                      *)
UnwindAlive ==
    LET w == LeaveFrame(v)
    IN  /\ InTrap /\ Ci(v).etraps = 0
        /\ v' = IF Ci(v).root \/ w.frames = <<>> THEN ExecuteReturns(w, FALSE) ELSE w
        /\ UNCHANGED <<gens, susp>>

Unwind ==
    LET w == LeaveFrame(v)
    IN  /\ InTrap /\ Ci(v).etraps = 0
        /\ gens' = Kill(Ci(v).gen)
        /\ v' = IF Ci(v).root \/ w.frames = <<>> THEN ExecuteReturns(w, FALSE) ELSE w
        /\ UNCHANGED susp

-----------------------------------------------------------------------------
(* Native functions: they call scripts, return, fail, turn into a tail     *)
(* call, or suspend the VM.                                                *)

NativeCall(raise) ==
    /\ InNative /\ Room
    /\ CanNest(v)
    /\ v' = Execute(v, raise, "native")
    /\ UNCHANGED <<gens, susp>>

NativeReturn ==
    /\ InNative
    /\ v' = LeaveFrame(Leave(v))
    /\ UNCHANGED <<gens, susp>>

(* Mutant: a failing native function leaves its frame behind.              *)
NativeFailFrame ==
    /\ InNative
    /\ v' = Throw(Leave(v))
    /\ UNCHANGED <<gens, susp>>

(* Also suspending where Suspend refuses to, and a refused sq_call.        *)
NativeFail ==
    /\ InNative
    /\ v' = Throw(LeaveFrame(Leave(v)))
    /\ UNCHANGED <<gens, susp>>

NativeTailCall ==
    /\ InNative
    /\ v' = [Leave(v) EXCEPT !.frames[Len(v.frames)].kind = "script"]
    /\ UNCHANGED <<gens, susp>>

(* Mutant: Suspend does not look at the native calls in between.           *)
SuspendAnywhere ==
    LET w == LeaveFrame(Leave(v))
    IN  /\ InNative
        /\ ~susp.on
        /\ susp' = [on |-> TRUE, root |-> Ci(w).root, traps |-> Top(w).traps]
        /\ v' = ExecuteReturns(w, TRUE)
        /\ UNCHANGED gens

(* The native frame is left, Execute returns and the script frames stay.   *)
Suspend ==
    LET w == LeaveFrame(Leave(v))
    IN  /\ InNative
        /\ ~susp.on /\ v.nnative = 2
        /\ susp' = [on |-> TRUE, root |-> Ci(w).root, traps |-> Top(w).traps]
        /\ v' = ExecuteReturns(w, TRUE)
        /\ UNCHANGED gens

-----------------------------------------------------------------------------
(* The host.                                                               *)

HostCall(raise) ==
    /\ Idle /\ Room /\ CanNest(v)
    /\ v' = Execute(v, raise, "host")
    /\ UNCHANGED <<gens, susp>>

(* sq_wakeupvm, with a value or with the pending error.                    *)
WakeUp(raise, throw) ==
    LET w == [Enter(v, Activation("exec", susp.traps, raise, "host"))
                 EXCEPT !.frames[Len(v.frames)].root = susp.root]
    IN  /\ Idle /\ susp.on /\ CanNest(v)
        /\ susp' = [susp EXCEPT !.on = FALSE]
        /\ v' = IF throw THEN Throw(w) ELSE w
        /\ UNCHANGED gens

(* sq_resume of a suspended generator: its frame becomes a root.           *)
HostResume(g, raise) ==
    LET n == Len(gens[g].etraps)
        w == ResumeFrame(Enter(v, Activation("exec", n, raise,
                                             IF Idle THEN "host" ELSE "native")), g)
    IN  /\ g \in ApiGen /\ (Idle \/ InNative)
        /\ Room /\ CanNest(v) /\ gens[g].state = "suspended"
        /\ v' = [w EXCEPT !.frames[Len(w.frames)].root = TRUE]
        /\ gens' = Resumed(g)
        /\ UNCHANGED susp

Init ==
    /\ v = [frames |-> <<>>, base |-> 0, etraps |-> <<>>, acts |-> <<>>, nnative |-> 0]
    /\ gens = [g \in Gen |-> NoGen]
    /\ susp = [on |-> FALSE, root |-> FALSE, traps |-> 0]

Next ==
    \/ \E g \in Gen : NewGenerator(g) \/ Resume(g) \/ ForeachStep(g)
    \/ \E g \in Gen, raise \in BOOLEAN : HostResume(g, raise)
    \/ Yield \/ CallScript \/ CallNative \/ CallMetaMethod
    \/ PushTrap \/ PopTrap \/ ThrowOp \/ Return
    \/ Catch \/ Unwind
    \/ NativeReturn \/ NativeFail \/ NativeTailCall \/ Suspend
    \/ \E raise \in BOOLEAN : NativeCall(raise) \/ HostCall(raise)
    \/ \E raise, throw \in BOOLEAN : WakeUp(raise, throw)

Spec == Init /\ [][Next]_vars

-----------------------------------------------------------------------------
TypeOK ==
    /\ v.frames \in Seq([kind : {"script", "native"}, gen : Gen \cup {None},
                         etraps : 0 .. MaxTraps, root : BOOLEAN])
    /\ v.base \in Nat /\ v.nnative \in 0 .. MaxNative
    /\ v.etraps \in Seq([base : Nat, nest : 1 .. MaxTraps])
    /\ v.acts \in Seq([kind : {"exec", "native"}, traps : Int, raise : BOOLEAN,
                       why : {"host", "script", "native", "metamethod", "handler"},
                       throws : BOOLEAN])
    /\ gens \in [Gen -> [state : {"none", "suspended", "running", "dead"},
                         etraps : Seq([base : {0}, nest : 1 .. MaxTraps]), root : BOOLEAN]]
    /\ susp \in [on : BOOLEAN, root : BOOLEAN, traps : Int]

(* The trap stack is made of the traps of each frame, outermost frame and  *)
(* outermost try first, however often its generator yielded and wherever   *)
(* it was resumed: an error is caught by the innermost try around it.      *)
TrapsMatchFrames ==
    /\ ToSet(v.etraps) = {t \in [base : DOMAIN v.frames, nest : 1 .. MaxTraps] :
                             t.nest <= v.frames[t.base].etraps}
    /\ \A p, q \in DOMAIN v.etraps :
          p < q => \/ v.etraps[p].base < v.etraps[q].base
                   \/ /\ v.etraps[p].base = v.etraps[q].base
                      /\ v.etraps[p].nest < v.etraps[q].nest

(* _stackbase is that of the frame ci, also after an error was caught      *)
(* several frames up.                                                      *)
StackbaseOfCi == v.base = Len(v.frames)

Roots(frames) == {i \in DOMAIN frames : frames[i].root}
Natives(frames) == {i \in DOMAIN frames : frames[i].kind = "native"}
Execs(acts) == {k \in DOMAIN acts : acts[k].kind = "exec"}
Asleep(s) == IF s.on THEN 1 ELSE 0

UpTo(S, i) == Cardinality({j \in S : j <= i})

(* The traps set by the frames from the r-th root to the next.             *)
TrapsOfRoot(frames, etraps, r) ==
    Cardinality({p \in DOMAIN etraps : UpTo(Roots(frames), etraps[p].base) = r})

(* The root that belongs to the Execute at k.                              *)
RootOf(acts, s, k) == Asleep(s) + UpTo(Execs(acts), k)

(* Each Execute on the C++ stack owns one root frame, each native function *)
(* one native frame, and below them a suspended VM keeps the frames of     *)
(* one Execute, also while a host calls into it.                           *)
RootsMatchExecs ==
    /\ Cardinality(Roots(v.frames)) = Asleep(susp) + Cardinality(Execs(v.acts))
    /\ Cardinality(Natives(v.frames)) = Cardinality(DOMAIN v.acts \ Execs(v.acts))
    /\ InNative <=> ~Idle /\ Ci(v).kind = "native"

(* The local traps of an Execute, by which it decides if an error goes to  *)
(* the error handler, is the number of traps of its frames, also when the  *)
(* VM sleeps in between.                                                   *)
TrapsExact ==
    /\ susp.on => susp.traps = TrapsOfRoot(v.frames, v.etraps, 1)
    /\ \A k \in Execs(v.acts) :
          v.acts[k].traps = TrapsOfRoot(v.frames, v.etraps, RootOf(v.acts, susp, k))

(* The error handler is called at the moment an error is raised that no    *)
(* try of the script around it, up to the Execute that runs it, catches.   *)
HandlerForUncaught ==
    \A k \in Execs(v.acts) :
        v.acts[k].why = "handler" =>
            /\ k - 1 \in Execs(v.acts)
            /\ TrapsOfRoot(v.frames, v.etraps, RootOf(v.acts, susp, k - 1)) = 0

(* A generator runs in one frame, or in none.                              *)
GeneratorInOneFrame ==
    \A g \in Gen :
        Cardinality({i \in DOMAIN v.frames : v.frames[i].gen = g})
            = IF gens[g].state = "running" THEN 1 ELSE 0

(* When nothing runs, no native call is counted any more, and frames are   *)
(* left only of a VM that can be woken.                                    *)
QuietWhenIdle ==
    Idle => /\ v.nnative = 0
            /\ v.frames # <<>> <=> susp.on

(* The assertions in _OP_RETURN and _OP_YIELD.                             *)
AssertNoTraps == InScript /\ Ci(v).root /\ Ci(v).etraps = 0 => Top(v).traps = 0
=============================================================================
