---------------------------- MODULE PromiseTree ----------------------------
(***************************************************************************)
(* The promise trees that package promise evaluates, and the getters that  *)
(* supply their string arguments.                                          *)
(*                                                                         *)
(* A tree is data: the parser resolves every named promise into a copy of  *)
(* its body, so a node belongs to one tree and is called at most once per  *)
(* evaluation.  The shape of the trees is a parameter; the assumptions     *)
(* below are what the New functions and the parser let through.            *)
(*                                                                         *)
(* A string is a sequence of atoms, some of them blank.  Left out: the     *)
(* command line of an execution, the paths and user names of (indir),      *)
(* (asuser) and (eval), and the "name=value" text of (setenv), each of     *)
(* which stands for itself as the node that carries it.                    *)
(***************************************************************************)
EXTENDS Integers, Sequences, FiniteSets

CONSTANTS
  Node,       \* the promises of all trees
  Top,        \* stands for the context ExecPromise builds; not a promise
  Roots,      \* the promises a client may send
  Kind,       \* Node -> the type of the promise
  Children,   \* Node -> its nested promises, in order
  Parent,     \* Node -> the promise it is nested in, or Top
  Depth,      \* Node and Top -> nesting depth
  Params,     \* Node -> its string arguments, as getters
  VarName,    \* Node -> the variable a (setvar) or (readvar) binds
  Stages,     \* Node -> the execution types of a (test), (change) or (pipe)
  Printed,    \* Node -> what its command writes to standard output
  Atom, Blank, Missing,
  Var, Unset,
  InitVars,   \* the variables every run starts with
  OsEnv       \* the environment of the server process

Scope == Node \union {Top}
Value == Seq(Atom)
Dict  == [Var -> Value \union {Unset}]

ExecType == {"change", "test"}

Leaves == {"setvar", "exec", "pipe", "info", "warn", "error",
           "template", "restart"}
Unary  == {"not", "true", "false", "named", "indir", "asuser", "setenv",
           "eval", "readvar"}
Nary   == {"and", "or"}
Kinds  == Leaves \union Unary \union Nary

\* The result of a nested promise after which the loops of (and) and (or)
\* go on to the next; no other promise has a next one.
GoesOn(kind) == CASE kind = "and" -> "met"
                  [] kind = "or"  -> "unmet"
                  [] OTHER        -> "never"

\* One of the getters that may stand where a string argument is expected.
SimpleGetter ==      [kind : {"const"}, value : Value]
              \union [kind : {"arg"}, pos : Nat]
              \union [kind : {"var"}, name : Var]
              \union [kind : {"env"}, name : Var]

Getter == SimpleGetter
          \union [kind : {"join"}, left : SimpleGetter, right : SimpleGetter]

ASSUME ForestAssumption ==
  /\ Top \notin Node
  /\ Roots \subseteq Node
  /\ Children \in [Node -> Seq(Node)]
  /\ Parent \in [Node -> Scope]
  /\ Depth \in [Scope -> Nat]
  /\ Depth[Top] = 0
  /\ \A n \in Node : Depth[n] = Depth[Parent[n]] + 1
  /\ \A r \in Roots : Parent[r] = Top
  /\ \A n \in Node : \A k \in 1 .. Len(Children[n]) :
        Parent[Children[n][k]] = n
  /\ \A n \in Node : \A j, k \in 1 .. Len(Children[n]) :
        Children[n][j] = Children[n][k] => j = k

\* What New accepts: (and) and (or) take two or more nested promises, the
\* unary promises one, the others none; (readvar) takes an execution or a
\* named promise.  The tree an (eval) runs is its one child: like a root, it
\* is a named promise.
ASSUME ArityAssumption ==
  /\ Kind \in [Node -> Kinds]
  /\ \A n \in Node : Kind[n] \in Nary   => Len(Children[n]) >= 2
  /\ \A n \in Node : Kind[n] \in Unary  => Len(Children[n]) = 1
  /\ \A n \in Node : Kind[n] \in Leaves => Len(Children[n]) = 0
  /\ \A n \in Node : Kind[n] = "readvar" =>
        Kind[Children[n][1]] \in {"exec", "pipe", "named"}
  /\ \A n \in Node : Kind[n] = "eval" => Kind[Children[n][1]] = "named"
  /\ \A r \in Roots : Kind[r] = "named"

ASSUME DataAssumption ==
  /\ Blank \subseteq Atom
  /\ Missing \in Value
  /\ Unset \notin Value
  /\ Params \in [Node -> Seq(Getter)]
  /\ \A n \in Node : Kind[n] = "setvar" => Len(Params[n]) = 1
  /\ VarName \in [Node -> Var]
  /\ Stages \in [Node -> Seq(ExecType)]
  /\ \A n \in Node : Kind[n] = "exec" => Len(Stages[n]) = 1
  /\ Printed \in [Node -> Value]
  /\ InitVars \in Dict
  /\ OsEnv \in [Var -> Value]

NoVars == [x \in Var |-> Unset]

-----------------------------------------------------------------------------
(***************************************************************************)
(* Strings and getters.                                                    *)
(***************************************************************************)

\* strings.TrimSpace, which (setvar) and (readvar) apply to what they store.
Leading(v)  == {i \in 1 .. Len(v) : \A j \in 1 .. i : v[j] \in Blank}
Trailing(v) == {i \in 1 .. Len(v) : \A j \in i .. Len(v) : v[j] \in Blank}
TrimSpace(v) ==
  SubSeq(v, Cardinality(Leading(v)) + 1, Len(v) - Cardinality(Trailing(v)))

\* GetValue of the constant, argument, variable and environment getters.
\* An argument that was not passed is the empty string, a variable that is
\* not set reads as the text "missing".
ArgValue(pos, args)  == IF pos < Len(args) THEN args[pos + 1] ELSE <<>>
VarValue(name, vars) == IF vars[name] = Unset THEN Missing ELSE vars[name]
GetSimple(g, args, vars) ==
  CASE g.kind = "const" -> g.value
    [] g.kind = "arg"   -> ArgValue(g.pos, args)
    [] g.kind = "var"   -> VarValue(g.name, vars)
    [] g.kind = "env"   -> OsEnv[g.name]

GetValue(g, args, vars) ==
  IF g.kind = "join"
    THEN GetSimple(g.left, args, vars) \o GetSimple(g.right, args, vars)
    ELSE GetSimple(g, args, vars)

\* The arguments a named promise passes on, evaluated for its caller.
ParsedArguments(n, args, vars) ==
  [i \in 1 .. Len(Params[n]) |-> GetValue(Params[n][i], args, vars)]

CountStages(stages, type) == Cardinality({i \in DOMAIN stages : stages[i] = type})
=============================================================================
