------------------------------- MODULE Outers -------------------------------
(***************************************************************************)
(* Captured locals of one SquiLu VM (sqvm.cpp): a closure that captures a  *)
(* local holds an SQOuter that points at the stack slot while the local is *)
(* in scope and owns the value afterwards.  _openouters lists the outers   *)
(* that still point into the stack, highest slot first.                    *)
(*                                                                         *)
(* v is the SQVM with the outers; a frame has the locals above its base,   *)
(* and scopes, the compiler's view of the blocks the instruction is in: the*)
(* number of locals below each.  A slot and a closure also carry the       *)
(* variable they stand for, which nothing but the properties looks at.     *)
(*                                                                         *)
(* An outer is at a slot of the stack (_valptr == _stack._vals + _idx), or *)
(* at its own value; it is gone if it points into a buffer that the stack, *)
(* when it grew, has left.                                                 *)
(***************************************************************************)
EXTENDS Integers, Sequences, SequencesExt, FiniteSets, FiniteSetsExt

CONSTANTS Closure,    \* closures, each with one captured variable
          None,       \* no closure
          NoVal,      \* no value
          Value,      \* values of locals
          Null,       \* the one that a local starts with
          MaxFrames,  \* bound on the depth of calls
          MaxLocals,  \* bound on the locals of a frame
          MaxStack,   \* bound on the locals of all frames
          MaxScopes,  \* bound on the nested blocks of a frame
          MaxValues,  \* bound on the places with a value other than Null
          Stray       \* what may leave a captured local in a way that the code
                      \* does not follow up: of "break", "goto", "error", "host"

ASSUME NoneIsNoClosure == None \notin Closure
ASSUME NoValIsNoValue == NoVal \notin Value
ASSUME FiniteClosures == IsFiniteSet(Closure)
ASSUME Bounds == MaxFrames \in Nat /\ MaxLocals \in Nat \ {0} /\ MaxStack \in Nat /\ MaxScopes \in Nat /\ MaxValues \in Nat
ASSUME NullIsAValue == Null \in Value

VARIABLES v,    \* the VM: stack, frames, open, outers
          clos, \* the closures
          gen   \* a generator: what it keeps while it is suspended

vars == <<v, clos, gen>>

(* A closure captures once, and takes at most one outer.                   *)
Outer == 1 .. Cardinality(Closure)

(* Names for the variables: of those in scope, and of those captured.      *)
Var == 1 .. MaxStack + MaxLocals + Cardinality(Closure)

ASSUME NoneIsNoVariable == None \notin Var

Free == [at |-> "free", idx |-> 0, value |-> NoVal]
NoClosure == [outer |-> 0, var |-> 0]
NoGen == [state |-> "none", vals |-> <<>>]

Top(w) == Last(w.frames)
Locals(w) == Len(w.stack) - Top(w).base
Inner(w) == Last(Top(w).scopes)
Slot(x, var) == [val |-> x, var |-> var]

(* The block of a function begins above its parameters: there is one.      *)
Body == <<[size |-> 1, try |-> FALSE]>>
Frame(k, base, g) == [fn |-> k, base |-> base, scopes |-> Body, gen |-> g]

Named(w) == {w.stack[i].var : i \in DOMAIN w.stack} \cup {clos[k].var : k \in Closure}

(* Whether there may be another place with value x.                        *)
Allowed(x) ==
    \/ x = Null
    \/ Cardinality({i \in DOMAIN v.stack : v.stack[i].val # Null})
         + Cardinality({i \in DOMAIN gen.vals : gen.vals[i] # Null})
         + Cardinality({o \in Outer : v.outers[o].value \notin {Null, NoVal}}) < MaxValues

(* A slot gives its number to its variable, unless a closure keeps an      *)
(* earlier variable of the slot: then the variable takes a spare one.      *)
Names(w, s, n) ==
    LET spare == SetToSeq(Var \ (Named(w) \cup 1 .. MaxStack))
    IN  [i \in 1 .. n |-> IF s + i \in Named(w) THEN spare[i] ELSE s + i]

(* New locals on top of the stack.                                         *)
WithLocals(w, values) ==
    LET names == Names(w, Len(w.stack), Len(values))
    IN  [w EXCEPT !.stack = @ \o [i \in DOMAIN values |-> Slot(values[i], names[i])]]

-----------------------------------------------------------------------------
(* The list of open outers.                                                *)

AtOrAbove(w, o, i) == w.outers[o].at = "stack" /\ w.outers[o].idx >= i

(* How many outers a walk from the head passes that are at or above slot i.*)
Passed(w, i) ==
    Min({n \in 0 .. Len(w.open) : n = Len(w.open) \/ ~AtOrAbove(w, w.open[n + 1], i)})

(* Mutant: the outer of the slot itself stays open.                        *)
CloseOutersAbove(w, i) ==
    LET n == Passed(w, i + 1)
        shut == ToSet(SubSeq(w.open, 1, n))
    IN  [w EXCEPT !.open = SubSeq(@, n + 1, Len(@)),
                  !.outers = [o \in Outer |->
                      IF o \in shut
                      THEN [at |-> "own", idx |-> 0, value |-> w.stack[w.outers[o].idx].val]
                      ELSE @[o]]]

(* CloseOuters: those at or above slot i take their value along.           *)
CloseOuters(w, i) ==
    LET n == Passed(w, i)
        shut == ToSet(SubSeq(w.open, 1, n))
    IN  [w EXCEPT !.open = SubSeq(@, n + 1, Len(@)),
                  !.outers = [o \in Outer |->
                      IF o \in shut
                      THEN [at |-> "own", idx |-> 0, value |-> w.stack[w.outers[o].idx].val]
                      ELSE @[o]]]

(* Mutant: a new outer goes to the head of the list.                       *)
FindOuterAtHead(w, i) ==
    LET n == Passed(w, i)
        there == {j \in 1 .. n : w.outers[w.open[j]].idx = i}
        o == Min({x \in Outer : w.outers[x].at = "free"})
    IN  IF there # {} THEN [vm |-> w, outer |-> w.open[Min(there)]]
        ELSE [vm |-> [w EXCEPT !.open = <<o>> \o @,
                               !.outers[o] = [at |-> "stack", idx |-> i, value |-> NoVal]],
              outer |-> o]

(* FindOuter: the outer of slot i, a new one behind those above it.        *)
FindOuter(w, i) ==
    LET n == Passed(w, i)
        there == {j \in 1 .. n : w.outers[w.open[j]].idx = i}
        o == Min({x \in Outer : w.outers[x].at = "free"})
    IN  IF there # {} THEN [vm |-> w, outer |-> w.open[Min(there)]]
        ELSE [vm |-> [w EXCEPT !.open = InsertAt(@, n + 1, o),
                               !.outers[o] = [at |-> "stack", idx |-> i, value |-> NoVal]],
              outer |-> o]

Repoint(w, os, at) ==
    [w EXCEPT !.outers = [o \in Outer |-> IF o \in os THEN [@[o] EXCEPT !.at = at] ELSE @[o]]]

Moved(w) == Repoint(w, {o \in Outer : w.outers[o].at = "stack"}, "gone")

(* Mutant: the outers still point into the old buffer.                     *)
RelocateNone(w) == w

RelocateOuters(w) == Repoint(w, ToSet(w.open), "stack")

(* EnterFrame with the locals on top: the stack may have to grow.          *)
EnterFrame(w, frame, values, moves) ==
    LET u == WithLocals([w EXCEPT !.frames = Append(@, frame)], values)
    IN  IF moves THEN RelocateOuters(Moved(u)) ELSE u

(* LeaveFrame for the frames above the first d.                            *)
LeaveFrames(w, d) ==
    IF d = Len(w.frames) THEN w
    ELSE [CloseOuters(w, w.frames[d + 1].base + 1)
             EXCEPT !.frames = SubSeq(@, 1, d), !.stack = SubSeq(@, 1, w.frames[d + 1].base)]

(* The compiler forgets the locals of the top frame above the first n, and *)
(* the blocks above the first b.                                           *)
Truncate(w, b, n) ==
    [w EXCEPT !.stack = SubSeq(@, 1, Top(w).base + n),
              !.frames[Len(w.frames)].scopes = SubSeq(@, 1, b)]

(* _OP_CLOSE above the first n locals; the compiler emits it where a       *)
(* function captures one of them, and elsewhere there is none to close.    *)
CloseAbove(w, n) == CloseOuters(w, Top(w).base + n + 1)

(* No outer is left open above the stack, and none closed below it.        *)
Exactly(w, u) ==
    \A j \in DOMAIN w.open :
        w.outers[w.open[j]].idx > Len(u.stack) <=> w.open[j] \notin ToSet(u.open)
-----------------------------------------------------------------------------
(* Calls.                                                                  *)

Running == v.frames # <<>>
Room(n) == Len(v.frames) < MaxFrames /\ Len(v.stack) + n <= MaxStack
Callable(k) == k # None => clos[k] # NoClosure

(* A call by the host, or by the function on top, with one parameter.      *)
Call(k, x) ==
    /\ Room(1) /\ Callable(k) /\ Allowed(x)
    /\ \E moves \in BOOLEAN :
          v' = EnterFrame(v, Frame(k, Len(v.stack), FALSE), <<x>>, moves)
    /\ UNCHANGED <<clos, gen>>

(* _OP_TAILCALL takes over the frame; the compiler emits none in a try, and *)
(* the generator here makes none.                                          *)
TailCall(k, x) ==
    LET w == Truncate(CloseOuters(v, Top(v).base + 1), 1, 0)
        u == WithLocals([w EXCEPT !.frames[Len(w.frames)].fn = k], <<x>>)
    IN  /\ Running /\ ~Top(v).gen /\ Callable(k) /\ Allowed(x)
        /\ \A i \in DOMAIN Top(v).scopes : ~Top(v).scopes[i].try
        /\ \E moves \in BOOLEAN :
              v' = IF moves THEN RelocateOuters(Moved(u)) ELSE u
        /\ UNCHANGED <<clos, gen>>

(* A generator whose frame is left is killed.                              *)
Killed(d) == IF \E i \in DOMAIN v.frames : i > d /\ v.frames[i].gen
             THEN [NoGen EXCEPT !.state = "dead"] ELSE gen

Return ==
    /\ Running
    /\ v' = LeaveFrames(v, Len(v.frames) - 1)
    /\ gen' = Killed(Len(v.frames) - 1)
    /\ UNCHANGED clos

(* SQVM::Finalize; a VM that is used afterwards is another one.            *)
Finalize ==
    /\ Running
    /\ v' = [CloseOuters(v, 1) EXCEPT !.frames = <<>>, !.stack = <<>>]
    /\ gen' = Killed(0)
    /\ UNCHANGED clos

(* sq_reservestack by a native function that the function on top calls: it *)
(* moves the stack and leaves the outers behind.                           *)
ReserveStack ==
    /\ Running
    /\ "host" \in Stray \/ v.open = <<>>
    /\ v' = Moved(v)
    /\ UNCHANGED <<clos, gen>>

-----------------------------------------------------------------------------
(* Blocks, and the ways out of them.                                       *)

RoomForLocal == Locals(v) < MaxLocals /\ Len(v.stack) < MaxStack

Declare ==
    /\ Running /\ RoomForLocal
    /\ v' = WithLocals(v, <<Null>>)
    /\ UNCHANGED <<clos, gen>>

(* BEGIN_SCOPE; that of a try pushes its trap.                             *)
BeginScope(try) ==
    /\ Running /\ Len(Top(v).scopes) < MaxScopes /\ ~Top(v).gen
    /\ try => RoomForLocal  \* room for the error
    /\ v' = [v EXCEPT !.frames[Len(v.frames)].scopes =
                          Append(@, [size |-> Locals(v), try |-> try])]
    /\ UNCHANGED <<clos, gen>>

(* END_SCOPE, at the end of the block.                                     *)
EndScope ==
    LET b == Len(Top(v).scopes) - 1  n == Inner(v).size
    IN  /\ Running /\ b > 0
        /\ v' = Truncate(CloseAbove(v, n), b, n)
        /\ UNCHANGED <<clos, gen>>

(* A jump to a place in block b where n locals are declared: RESOLVE_OUTERS *)
(* closes the locals of the innermost block, whichever blocks are left.    *)
Jump(kind, b, n) ==
    LET u == Truncate(CloseAbove(v, Inner(v).size), b, n)
    IN  /\ kind \in Stray \/ Exactly(v, u)
        /\ v' = u
        /\ UNCHANGED <<clos, gen>>

(* break and continue leave all but b blocks.                              *)
Break(b) ==
    /\ Running /\ b \in 1 .. Len(Top(v).scopes) - 1
    /\ Jump("break", b, Top(v).scopes[b + 1].size)

(* goto also goes to a label further up, or in the same block.             *)
Goto(b, n) ==
    LET scopes == Top(v).scopes
    IN  /\ Running
        /\ b \in DOMAIN scopes /\ n \in scopes[b].size .. Locals(v)
        /\ b < Len(scopes) => n <= scopes[b + 1].size
        /\ Jump("goto", b, n)

(* Where the handler of the innermost try is.                              *)
Tries == {t \in (DOMAIN v.frames) \X (1 .. MaxScopes) :
             t[2] \in DOMAIN v.frames[t[1]].scopes /\ v.frames[t[1]].scopes[t[2]].try}

(* exception_trap: frames are left up to the one with the handler, and the *)
(* error becomes the first local of the block of the catch, which takes    *)
(* the place of that of the try.                                           *)
Throw(x) ==
    /\ Running /\ Allowed(x)
    /\ IF Tries = {}
       THEN v' = LeaveFrames(v, 0) /\ gen' = Killed(0)
       ELSE LET d == Max({t[1] : t \in Tries})
                b == Max({t[2] : t \in {s \in Tries : s[1] = d}})
                w == LeaveFrames(v, d)
                u == Truncate(w, b, Top(w).scopes[b].size)
            IN  /\ "error" \in Stray \/ Exactly(w, u)
                /\ v' = [WithLocals(u, <<x>>) EXCEPT !.frames[d].scopes[b].try = FALSE]
                /\ gen' = Killed(d)
    /\ UNCHANGED clos

-----------------------------------------------------------------------------
(* Closures and variables.                                                 *)

Unborn == {k \in Closure : clos[k] = NoClosure}

(* CLOSURE_OP of a function with a free variable of the function on top.   *)
CaptureLocal(k, i) ==
    LET s == Top(v).base + i
        found == FindOuter(v, s)
    IN  /\ Running /\ k \in Unborn /\ i \in 1 .. Locals(v)
        /\ clos' = [clos EXCEPT ![k] = [outer |-> found.outer, var |-> v.stack[s].var]]
        /\ v' = found.vm
        /\ UNCHANGED gen

(* CLOSURE_OP of a function with the free variable of the one on top.      *)
CaptureOuter(k) ==
    /\ Running /\ k \in Unborn /\ Top(v).fn # None
    /\ clos' = [clos EXCEPT ![k] = clos[Top(v).fn]]
    /\ UNCHANGED <<v, gen>>

(* sq_bindenv clones a closure: the clone has the same outer.              *)
CloneClosure(k, l) ==
    /\ k \in Unborn /\ l \notin Unborn
    /\ clos' = [clos EXCEPT ![k] = clos[l]]
    /\ UNCHANGED <<v, gen>>

SetLocal(i, x) ==
    /\ Running /\ i \in 1 .. Locals(v) /\ Allowed(x)
    /\ v' = [v EXCEPT !.stack[Top(v).base + i].val = x]
    /\ UNCHANGED <<clos, gen>>

(* _OP_SETOUTER of the function on top, or sq_setfreevariable of any       *)
(* closure; through a stale pointer it writes to freed memory.             *)
SetOuter(k, x) ==
    LET o == clos[k].outer  p == v.outers[o]
    IN  /\ k \notin Unborn /\ Allowed(x)
        /\ v' = CASE p.at = "own" -> [v EXCEPT !.outers[o].value = x]
                  [] p.at = "stack" -> [v EXCEPT !.stack[p.idx].val = x]
                  [] OTHER -> v
        /\ UNCHANGED <<clos, gen>>

-----------------------------------------------------------------------------
(* A generator.                                                            *)

(* Its function has no free variables and no blocks; called, it keeps the  *)
(* parameter.                                                              *)
NewGenerator(x) ==
    /\ Running /\ gen.state = "none" /\ Allowed(x)
    /\ gen' = [state |-> "suspended", vals |-> <<x>>]
    /\ UNCHANGED <<v, clos>>

(* _OP_YIELD closes the outers, then the generator keeps the locals.       *)
Yield ==
    LET d == Len(v.frames)
    IN  /\ Running /\ Top(v).gen
        /\ v' = LeaveFrames(v, d - 1)
        /\ gen' = [state |-> "suspended", vals |-> [i \in 1 .. Locals(v) |-> v.stack[Top(v).base + i].val]]
        /\ UNCHANGED clos

(* Mutant: the generator keeps the values that are back on the stack.      *)
ResumeKeeping ==
    /\ Room(Len(gen.vals)) /\ gen.state = "suspended"
    /\ \E moves \in BOOLEAN :
          v' = EnterFrame(v, Frame(None, Len(v.stack), TRUE), gen.vals, moves)
    /\ gen' = [gen EXCEPT !.state = "running"]
    /\ UNCHANGED clos

(* SQGenerator::Resume: the values go back to the stack.                   *)
Resume ==
    /\ Room(Len(gen.vals)) /\ gen.state = "suspended"
    /\ \E moves \in BOOLEAN :
          v' = EnterFrame(v, Frame(None, Len(v.stack), TRUE), gen.vals, moves)
    /\ gen' = [NoGen EXCEPT !.state = "running"]
    /\ UNCHANGED clos

Init ==
    /\ v = [stack |-> <<>>, frames |-> <<>>, open |-> <<>>,
            outers |-> [o \in Outer |-> Free]]
    /\ clos = [k \in Closure |-> NoClosure]
    /\ gen = NoGen

Next ==
    \/ \E k \in Closure \cup {None}, x \in Value : Call(k, x) \/ TailCall(k, x)
    \/ \E x \in Value : Throw(x) \/ NewGenerator(x)
    \/ \E try \in BOOLEAN : BeginScope(try)
    \/ \E b \in 1 .. MaxScopes : Break(b) \/ \E n \in 0 .. MaxLocals : Goto(b, n)
    \/ \E k \in Closure, i \in 1 .. MaxLocals : CaptureLocal(k, i)
    \/ \E i \in 1 .. MaxLocals, x \in Value : SetLocal(i, x)
    \/ \E k \in Closure, x \in Value : SetOuter(k, x)
    \/ \E k \in Closure : CaptureOuter(k) \/ \E l \in Closure : CloneClosure(k, l)
    \/ Declare \/ Return \/ EndScope \/ Finalize \/ ReserveStack \/ Yield \/ Resume

Spec == Init /\ [][Next]_vars

-----------------------------------------------------------------------------
Scopes == Seq([size : 0 .. MaxLocals, try : BOOLEAN])

TypeOK ==
    /\ v.stack \in Seq([val : Value, var : Var]) /\ v.open \in Seq(Outer)
    /\ v.frames \in Seq([fn : Closure \cup {None}, base : Nat, scopes : Scopes,
                         gen : BOOLEAN])
    /\ v.outers \in [Outer -> [at : {"free", "stack", "gone", "own"}, idx : Nat,
                                value : Value \cup {NoVal}]]
    /\ clos \in [Closure -> [outer : Outer \cup {0}, var : Var \cup {0}]]
    /\ gen \in [state : {"suspended"}, vals : Seq(Value)]
              \cup [state : {"none", "running", "dead"}, vals : {<<>>}]

(* The open outers point at slots in use of the stack where it is now, by  *)
(* descending slot and one for a slot, so that FindOuter and CloseOuters   *)
(* may stop at the first below; every other outer has its own value.       *)
OpenListExact ==
    /\ \A j \in DOMAIN v.open :
          v.outers[v.open[j]].at = "stack" /\ v.outers[v.open[j]].idx \in DOMAIN v.stack
    /\ \A i, j \in DOMAIN v.open :
          i < j => v.outers[v.open[i]].idx > v.outers[v.open[j]].idx
    /\ \A o \in Outer \ ToSet(v.open) : v.outers[o].at \in {"free", "own"}

(* What the outer of a closure reads.                                      *)
Read(o) == LET p == v.outers[o]
           IN  CASE p.at = "own" -> p.value
                 [] p.at = "stack" /\ p.idx \in DOMAIN v.stack -> v.stack[p.idx].val
                 [] OTHER -> NoVal

(* Scoping is lexical: closures share an outer if and only if they         *)
(* captured the same variable, the outer is the slot of that variable      *)
(* while it is in scope, and no other slot.                                *)
FreeVariablesAreLexical ==
    /\ \A k \in Closure \ Unborn :
          LET q == clos[k]  p == v.outers[q.outer]
          IN  IF \E i \in DOMAIN v.stack : v.stack[i].var = q.var
              THEN /\ p.at = "stack" /\ p.idx \in DOMAIN v.stack
                   /\ v.stack[p.idx].var = q.var
              ELSE p.at = "own"
    /\ \A k, l \in Closure \ Unborn : clos[k].var = clos[l].var <=> clos[k].outer = clos[l].outer

(* The calls, the variables in scope, the values of the variables and what *)
(* the closures have captured, as Variables has them.                      *)
Calls == [d \in DOMAIN v.frames |->
             [fn |-> v.frames[d].fn, below |-> v.frames[d].base, gen |-> v.frames[d].gen]]
Scope == [i \in DOMAIN v.stack |-> v.stack[i].var]
Cell == [x \in Var |->
            IF \E i \in DOMAIN v.stack : v.stack[i].var = x
            THEN v.stack[CHOOSE i \in DOMAIN v.stack : v.stack[i].var = x].val
            ELSE IF \E k \in Closure : clos[k].var = x
            THEN Read(clos[CHOOSE k \in Closure : clos[k].var = x].outer)
            ELSE NoVal]
Holds == [k \in Closure |-> IF clos[k] = NoClosure THEN None ELSE clos[k].var]

(* The promise of Variables: a step changes the value of the variable it   *)
(* assigns to, as a function names it, and of no other.                    *)
Captured == INSTANCE Variables WITH
    calls <- Calls, scope <- Scope, cell <- Cell, clos <- Holds

ImplementsVariables == Captured!Spec
=============================================================================
