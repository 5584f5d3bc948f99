----------------------------- MODULE Variables -----------------------------
(***************************************************************************)
(* What captured locals promise: a local is a variable, a closure that     *)
(* captures it keeps that variable, and both see each other's assignments, *)
(* wherever the value is kept and however long the closure lives.  A       *)
(* generator that yields keeps the values of its locals, not the           *)
(* variables: resumed, it has new ones.                                    *)
(***************************************************************************)
EXTENDS Integers, Sequences, SequencesExt, FiniteSets

CONSTANTS Closure,  \* closures, each with one captured variable
          Var,      \* variables
          Value,    \* values of variables
          NoVal,    \* the value of a variable that nothing can reach
          None      \* no closure, no variable

VARIABLES calls,  \* the calls: the closure that runs and how many locals are below
          scope,  \* the variables the locals of all calls name, outermost first
          cell,   \* the values of the variables
          clos,   \* the variable each closure captured
          gen     \* a generator: its state, closure and the values it keeps

vars == <<calls, scope, cell, clos, gen>>

Reached(s, c) == {s[i] : i \in DOMAIN s} \cup {c[k] : k \in Closure}

(* What is out of reach has no value.                                      *)
Settle(s, c, values) ==
    /\ scope' = s
    /\ clos' = c
    /\ cell' = [v \in Var |-> IF v \in Reached(s, c) THEN values[v] ELSE NoVal]

(* New variables for new locals with these values, above the first n.      *)
Bind(n, values) ==
    LET kept == SubSeq(scope, 1, n)
        new == SubSeq(scope', n + 1, Len(scope'))
    IN  /\ Len(new) = Len(values) /\ IsInjective(new)
        /\ ToSet(new) \subseteq Var \ Reached(kept, clos)
        /\ Settle(kept \o new, clos,
                  [v \in Var |-> IF \E i \in DOMAIN new : new[i] = v
                                 THEN values[CHOOSE i \in DOMAIN new : new[i] = v]
                                 ELSE cell[v]])

Leave(n) == Settle(SubSeq(scope, 1, n), clos, cell)
Write(v, x) == Settle(scope, clos, [cell EXCEPT ![v] = x])

(* The generator ends with its call, here when all calls above d end.      *)
Ended(d) == IF \E i \in DOMAIN calls : i > d /\ calls[i].gen
            THEN [state |-> "dead", vals |-> <<>>] ELSE gen

Call(k, x) ==
    /\ calls' = Append(calls, [fn |-> k, below |-> Len(scope), gen |-> FALSE])
    /\ Bind(Len(scope), <<x>>)
    /\ UNCHANGED gen

TailCall(k, x) ==
    /\ calls # <<>>
    /\ calls' = [calls EXCEPT ![Len(calls)].fn = k]
    /\ Bind(Last(calls).below, <<x>>)
    /\ UNCHANGED gen

Return ==
    /\ calls # <<>>
    /\ calls' = Front(calls)
    /\ Leave(Last(calls).below)
    /\ gen' = Ended(Len(calls) - 1)

Declare(x) == Bind(Len(scope), <<x>>) /\ UNCHANGED <<calls, gen>>

LeaveLocals(n) ==
    /\ calls # <<>> /\ n >= Last(calls).below
    /\ Leave(n)
    /\ UNCHANGED <<calls, gen>>

Assign(x) ==
    /\ calls # <<>>
    /\ \E i \in Last(calls).below + 1 .. Len(scope) : Write(scope[i], x)
    /\ UNCHANGED <<calls, gen>>

AssignFree(k, x) ==
    /\ clos[k] # None
    /\ Write(clos[k], x)
    /\ UNCHANGED <<calls, gen>>

Capture(k, v) ==
    /\ clos[k] = None
    /\ \/ calls # <<>> /\ \E i \in Last(calls).below + 1 .. Len(scope) : v = scope[i]
       \/ \E l \in Closure : v = clos[l]
    /\ Settle(scope, [clos EXCEPT ![k] = v], cell)
    /\ UNCHANGED <<calls, gen>>

(* The error becomes a local of the call that catches it.                  *)
Catch(d, n, x) ==
    /\ calls' = SubSeq(calls, 1, d)
    /\ n >= calls[d].below
    /\ Bind(n, <<x>>)
    /\ gen' = Ended(d)

Stop ==
    /\ calls' = <<>>
    /\ Leave(0)
    /\ gen' = Ended(0)

NewGenerator(x) ==
    /\ gen.state = "none"
    /\ gen' = [state |-> "suspended", vals |-> <<x>>]
    /\ UNCHANGED <<calls, scope, cell, clos>>

Yield ==
    /\ calls # <<>> /\ Last(calls).gen
    /\ calls' = Front(calls)
    /\ gen' = [state |-> "suspended",
               vals |-> [i \in 1 .. Len(scope) - Last(calls).below
                            |-> cell[scope[Last(calls).below + i]]]]
    /\ Leave(Last(calls).below)

Resume ==
    /\ gen.state = "suspended"
    /\ calls' = Append(calls, [fn |-> None, below |-> Len(scope), gen |-> TRUE])
    /\ Bind(Len(scope), gen.vals)
    /\ gen' = [state |-> "running", vals |-> <<>>]

Init ==
    /\ calls = <<>> /\ scope = <<>>
    /\ cell = [v \in Var |-> NoVal]
    /\ clos = [k \in Closure |-> None]
    /\ gen = [state |-> "none", vals |-> <<>>]

Next ==
    \/ \E k \in Closure \cup {None}, x \in Value : Call(k, x) \/ TailCall(k, x)
    \/ \E x \in Value : Declare(x) \/ Assign(x) \/ NewGenerator(x)
    \/ \E k \in Closure, x \in Value : AssignFree(k, x)
    \/ \E n \in 0 .. Len(scope) : LeaveLocals(n)
    \/ \E k \in Closure, v \in Var : Capture(k, v)
    \/ \E d \in DOMAIN calls, n \in 0 .. Len(scope), x \in Value : Catch(d, n, x)
    \/ Return \/ Stop \/ Yield \/ Resume

Spec == Init /\ [][Next]_vars
=============================================================================
