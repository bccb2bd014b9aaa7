-------------------------- MODULE PromiseSemantics --------------------------
(***************************************************************************)
(* What evaluating a promise tree promises, without stack, contexts or     *)
(* buffers: each promise is met or unmet by rule, and it is asked for only *)
(* when the promises before it have left its parent undecided.             *)
(* PromiseEval implements this.                                            *)
(***************************************************************************)
EXTENDS PromiseTree

VARIABLE result

Undecided == [n \in Node |-> "none"]

\* The k-th nested promise of p has the given result.
Nested(p, k, v) == result[Children[p][k]] = v

\* Roots are asked for by a client, the others by their parent.
Demanded(n) ==
  \/ n \in Roots
  \/ \E p \in Node : \E k \in 1 .. Len(Children[p]) :
       /\ Children[p][k] = n
       /\ result[p] = "none"
       /\ \A j \in 1 .. k - 1 : Nested(p, j, GoesOn(Kind[p]))

Negated(v) == IF v = "met" THEN "unmet" ELSE "met"

\* An (and) fails, and an (or) succeeds, with the first nested promise that
\* does so, and those after it are not evaluated at all.
Rule(n, v) ==
  \/ /\ Kind[n] \in Nary
     /\ \E k \in 1 .. Len(Children[n]) :
          /\ \A j \in 1 .. k - 1 : Nested(n, j, GoesOn(Kind[n]))
          /\ Nested(n, k, v)
          /\ \A j \in k + 1 .. Len(Children[n]) : Nested(n, j, "none")
          /\ v = GoesOn(Kind[n]) => k = Len(Children[n])
  \/ Kind[n] = "not"   /\ Nested(n, 1, Negated(v))
  \/ Kind[n] = "true"  /\ ~ Nested(n, 1, "none") /\ v = "met"
  \/ Kind[n] = "false" /\ ~ Nested(n, 1, "none") /\ v = "unmet"
  \/ Kind[n] \in Unary \ {"not", "true", "false"} /\ Nested(n, 1, v)
  \/ Kind[n] \in {"setvar", "info", "warn", "error", "restart"} /\ v = "met"
  \/ Kind[n] \in {"exec", "pipe", "template"}

Decide(n) ==
  /\ result[n] = "none"
  /\ Demanded(n)
  /\ \E v \in {"met", "unmet"} : Rule(n, v) /\ result' = [result EXCEPT ![n] = v]

\* A new evaluation starts from nothing.
Forget == result' = Undecided

Init == result = Undecided
Next == Forget \/ \E n \in Node : Decide(n)
Spec == Init /\ [][Next]_result
=============================================================================
