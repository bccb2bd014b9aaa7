---------------------------- MODULE PromiseEval ----------------------------
(***************************************************************************)
(* ExecPromise and the Eval methods of package promise: the depth-first    *)
(* evaluation of a promise tree, run after run in one server process.      *)
(*                                                                         *)
(* The Go call stack is the path from the root to "cur": a promise is      *)
(* "open" while its Eval is on the stack, and "met" or "unmet" once it has *)
(* returned.  pos[n] counts the nested promises n has called; for a        *)
(* command it is 1 once the command has been started.                      *)
(*                                                                         *)
(* Every Eval gets a pointer to a Context.  Some promises pass it on, some *)
(* pass a shallow copy, whose Vars is still the caller's map and whose Env *)
(* may still share the caller's backing array; only a named promise copies *)
(* the map.  So ctx[n] holds references: ctx[n].vars is the scope that     *)
(* owns the map (in dict), ctx[n].env a slice of a backing array (in       *)
(* array).  The output buffer is shared by the whole run.                  *)
(*                                                                         *)
(* The goroutines that copy the output of an execution into that buffer    *)
(* are not waited for: when the command has ended, some of its text has    *)
(* reached the buffer, some may be lost, and some may still arrive         *)
(* (pending) at any later moment.  ExecCommand follows them in detail, and *)
(* also what their unsynchronised writes do to each other.                 *)
(***************************************************************************)
EXTENDS PromiseTree

CONSTANTS
  Verbose,    \* whether the client asked for the output of tests too
  MaxRuns     \* bound: promises sent to the process

ASSUME RunAssumption == Verbose \in BOOLEAN /\ MaxRuns \in Nat

VARIABLES
  cur,        \* the promise on top of the stack; Top when none is
  status, pos, ctx,
  dict,       \* Scope -> the map of variables it owns
  array,      \* Scope -> the backing array of Env it allocated
  stdout,     \* the contents of ExecStdout
  pending,    \* Node -> output of its command that may still arrive
  logger,     \* the counters of logging.Logger
  carried,    \* what the counters were when the current run began
  report,     \* the counters logged at the end of the last complete run
  outcome,    \* of the current or last run
  runs

tree == <<cur, status, pos, ctx>>
data == <<dict, array>>
text == <<stdout, pending>>
book == <<carried, report, runs>>
vars == <<cur, status, pos, ctx, dict, array, stdout, pending,
          logger, carried, report, outcome, runs>>

Result   == {"met", "unmet"}
Counters == [changes : Nat, tests : Nat, warnings : Nat, errors : Nat]
Slice    == [array : Scope, len : Nat]
Context  == [args : Seq(Value), vars : Scope, env : Slice,
             dir : Scope, cred : Scope]

\* Logger.Reset
Zero == [changes |-> 0, tests |-> 0, warnings |-> 0, errors |-> 0]

\* The context and the arguments ExecPromise evaluates the tree with.
TopContext == [args |-> <<>>, vars |-> Top, env |-> [array |-> Top, len |-> 0],
               dir |-> Top, cred |-> Top]

TypeOK ==
  /\ cur \in Scope
  /\ status \in [Node -> {"idle", "open"} \union Result]
  /\ pos \in [Node -> Nat]
  /\ ctx \in [Node -> Context]
  /\ dict \in [Scope -> Dict]
  /\ array \in [Scope -> Seq(Scope)]
  /\ stdout \in Value
  /\ pending \in [Node -> Value]
  /\ logger \in Counters
  /\ carried \in Counters
  /\ report \in Counters
  /\ outcome \in {"none", "running", "panic", "redefined"} \union Result
  /\ runs \in Nat

Init ==
  /\ cur = Top
  /\ status = [n \in Node |-> "idle"]
  /\ pos = [n \in Node |-> 0]
  /\ ctx = [n \in Node |-> TopContext]
  /\ dict = [s \in Scope |-> NoVars]
  /\ array = [s \in Scope |-> <<>>]
  /\ stdout = <<>>
  /\ pending = [n \in Node |-> <<>>]
  /\ logger = Zero
  /\ carried = Zero
  /\ report = Zero
  /\ outcome = "none"
  /\ runs = 0

-----------------------------------------------------------------------------
(***************************************************************************)
(* A run.                                                                  *)
(***************************************************************************)

FreshStack(r) == [n \in Node |-> IF n = r THEN "open" ELSE "idle"]

\* The server counts a warning when the client has another version.
VersionChecked == {logger, [logger EXCEPT !.warnings = @ + 1]}

\* ExecPromise is called with a decoded tree: fresh variables and buffers.
Start(r) ==
  /\ outcome # "running"
  /\ runs < MaxRuns
  /\ runs' = runs + 1
  /\ outcome' = "running"
  /\ cur' = r
  /\ status' = FreshStack(r)
  /\ pos' = [n \in Node |-> 0]
  /\ ctx' = [n \in Node |-> TopContext]
  /\ dict' = [s \in Scope |-> IF s = Top THEN InitVars ELSE NoVars]
  /\ array' = [s \in Scope |-> <<>>]
  /\ stdout' = <<>>
  /\ pending' = [n \in Node |-> <<>>]
  /\ logger' \in VersionChecked
  /\ carried' = logger'
  /\ UNCHANGED report

\* The root's Eval has returned: the counters are logged and reset.
Report ==
  /\ outcome = "running"
  /\ cur = Top
  /\ \E r \in Roots : status[r] \in Result /\ outcome' = status[r]
  /\ report' = logger
  /\ logger' = Zero
  /\ UNCHANGED <<tree, data, text, carried, runs>>

\* A panic unwinds to ExecPromise, which recovers it into an error before
\* the deferred Reset was registered: the counters stay as they are.
Abort(why) ==
  /\ outcome' = why
  /\ UNCHANGED <<tree, data, text, logger, book>>

-----------------------------------------------------------------------------
(***************************************************************************)
(* Promises with nested promises.                                          *)
(***************************************************************************)

Active(n) == outcome = "running" /\ cur = n

LastResult(n) == IF pos[n] = 0 THEN "none" ELSE status[Children[n][pos[n]]]

CallsNext_NeverStops(n) == pos[n] < Len(Children[n])

\* The loops of (and) and (or); the others call their one promise.
CallsNext(n) ==
  /\ pos[n] < Len(Children[n])
  /\ pos[n] = 0 \/ LastResult(n) = GoesOn(Kind[n])

\* append(ctx.Env, e): written into the spare capacity of the array the
\* slice shares, or into a copy of twice the size that n allocates.
HasRoom(s) == s.len < Len(array[s.array])
Appended_DropsLast(n, s) ==
  IF HasRoom(s)
    THEN [array EXCEPT ![s.array] = [@ EXCEPT ![s.len + 1] = n]]
    ELSE [array EXCEPT ![n] = [i \in 1 .. 2 * s.len + 1 |->
            IF i < s.len THEN array[s.array][i] ELSE n]]
Appended(n, s) ==
  IF HasRoom(s)
    THEN [array EXCEPT ![s.array] = [@ EXCEPT ![s.len + 1] = n]]
    ELSE [array EXCEPT ![n] =
            [i \in 1 .. (IF s.len = 0 THEN 1 ELSE 2 * s.len) |->
               IF i <= s.len THEN array[s.array][i]
               ELSE IF i = s.len + 1 THEN n ELSE Top]]
AppendedSlice(n, s) ==
  [array |-> IF HasRoom(s) THEN s.array ELSE n, len |-> s.len + 1]

\* What each type of promise changes in the copy of the context it makes.
BodyContext_SharesVars(n) ==
  [ctx[n] EXCEPT !.args = ParsedArguments(n, ctx[n].args, dict[ctx[n].vars])]
BodyContext(n) ==
  [ctx[n] EXCEPT !.args = ParsedArguments(n, ctx[n].args, dict[ctx[n].vars]),
                 !.vars = n]
DirContext(n)  == [ctx[n] EXCEPT !.dir = n]
UserContext(n) == [ctx[n] EXCEPT !.cred = n]
EnvContext(n)  == [ctx[n] EXCEPT !.env = AppendedSlice(n, ctx[n].env)]
TreeContext(n) == [ctx[n] EXCEPT !.args = <<>>, !.dir = n]

\* The context n calls its nested promises with.
ChildContext(n) ==
  CASE Kind[n] = "named"  -> BodyContext(n)
    [] Kind[n] = "indir"  -> DirContext(n)
    [] Kind[n] = "asuser" -> UserContext(n)
    [] Kind[n] = "setenv" -> EnvContext(n)
    [] Kind[n] = "eval"   -> TreeContext(n)
    [] OTHER -> ctx[n]

\* The map a named promise makes for its body is a copy of its caller's.
CalleeDict_Empty(n) == IF Kind[n] = "named" THEN [dict EXCEPT ![n] = NoVars] ELSE dict
CalleeDict(n) ==
  IF Kind[n] = "named" THEN [dict EXCEPT ![n] = dict[ctx[n].vars]] ELSE dict

Call(n) ==
  /\ Active(n)
  /\ CallsNext(n)
  /\ LET child == Children[n][pos[n] + 1] IN
     /\ cur' = child
     /\ status' = [status EXCEPT ![child] = "open"]
     /\ ctx' = [ctx EXCEPT ![child] = ChildContext(n)]
  /\ pos' = [pos EXCEPT ![n] = @ + 1]
  /\ dict' = CalleeDict(n)
  /\ array' = IF Kind[n] = "setenv" THEN Appended(n, ctx[n].env) ELSE array
  /\ UNCHANGED <<text, logger, book, outcome>>

\* A missing directory, an unknown user, an input that is absent or does
\* not compile.
CallFails(n) ==
  /\ Active(n)
  /\ Kind[n] \in {"indir", "asuser", "eval"}
  /\ pos[n] = 0
  /\ Abort("panic")

Finish(n, result) ==
  /\ status' = [status EXCEPT ![n] = result]
  /\ cur' = Parent[n]

Verdict_NotForgotten(n) ==
  CASE Kind[n] = "true"  -> "met"
    [] Kind[n] = "false" -> "unmet"
    [] OTHER -> LastResult(n)
Verdict(n) ==
  CASE Kind[n] = "not"   -> IF LastResult(n) = "met" THEN "unmet" ELSE "met"
    [] Kind[n] = "true"  -> "met"
    [] Kind[n] = "false" -> "unmet"
    [] OTHER -> LastResult(n)

Decided_AllCalled(n) == pos[n] > 0 /\ pos[n] = Len(Children[n])
Decided(n) == pos[n] > 0 /\ ~ CallsNext(n)

Return(n) ==
  /\ Active(n)
  /\ Kind[n] \notin Leaves \union {"readvar"}
  /\ Decided(n)
  /\ Finish(n, Verdict(n))
  /\ UNCHANGED <<pos, ctx, data, text, logger, book, outcome>>

-----------------------------------------------------------------------------
(***************************************************************************)
(* Variables.                                                              *)
(***************************************************************************)

Bound(n) == dict[ctx[n].vars][VarName[n]]

\* A variable may be bound again only to the value it has; otherwise the
\* evaluation panics, whichever promise bound it.
Bind(n, value, result) ==
  \/ /\ Bound(n) \in {Unset, value}
     /\ dict' = [dict EXCEPT ![ctx[n].vars][VarName[n]] = value]
     /\ Finish(n, result)
     /\ UNCHANGED <<pos, ctx, array, text, logger, book, outcome>>
  \/ /\ Bound(n) \notin {Unset, value}
     /\ Abort("redefined")

SetVar(n) ==
  /\ Active(n)
  /\ Kind[n] = "setvar"
  /\ LET c == ctx[n] IN
     Bind(n, TrimSpace(GetValue(Params[n][1], c.args, dict[c.vars])), "met")

\* Takes what the output buffer holds when the nested promise returns.
ReadVar(n) ==
  /\ Active(n)
  /\ Kind[n] = "readvar"
  /\ Decided(n)
  /\ Bind(n, TrimSpace(stdout), LastResult(n))

-----------------------------------------------------------------------------
(***************************************************************************)
(* Commands.                                                               *)
(***************************************************************************)

Prefix(s, k) == SubSeq(s, 1, k)

Counted_First(stages) ==
  [logger EXCEPT !.changes = @ + CountStages(Prefix(stages, 1), "change"),
                 !.tests   = @ + CountStages(Prefix(stages, 1), "test")]
\* Increments the execution counter for each of the stages.
Counted(stages) ==
  [logger EXCEPT !.changes = @ + CountStages(stages, "change"),
                 !.tests   = @ + CountStages(stages, "test")]

\* The output of tests is shown, and text on standard error counted as a
\* warning, only when the client is verbose.
Shown(n) == Verbose \/ \E i \in 1 .. Len(Stages[n]) : Stages[n][i] = "change"
WithStderr(n, l) ==
  {l} \union (IF Shown(n) THEN {[l EXCEPT !.warnings = @ + 1]} ELSE {})

\* processOutput empties the buffers, then the command is started ...
StartExec(n) ==
  /\ Active(n)
  /\ Kind[n] = "exec"
  /\ pos[n] = 0
  /\ stdout' = <<>>
  /\ \/ pos' = [pos EXCEPT ![n] = 1] /\ outcome' = outcome
     \/ pos' = pos /\ outcome' = "panic"
  /\ UNCHANGED <<cur, status, ctx, data, pending, logger, book>>

\* ... and once it has ended Eval goes on: i atoms of its output are in the
\* buffer by then, those from i+1 to j are still to come, the rest is lost.
EndExec(n) ==
  /\ Active(n)
  /\ Kind[n] = "exec"
  /\ pos[n] = 1
  /\ \E i \in 0 .. Len(Printed[n]) : \E j \in i .. Len(Printed[n]) :
       /\ stdout' = stdout \o Prefix(Printed[n], i)
       /\ pending' = [pending EXCEPT ![n] = SubSeq(Printed[n], i + 1, j)]
  /\ logger' \in WithStderr(n, Counted(Stages[n]))
  /\ \E result \in Result : Finish(n, result)
  /\ UNCHANGED <<pos, ctx, data, book, outcome>>

\* Text of an earlier command reaches the buffer of the run.
LateOutput(n) ==
  /\ outcome = "running"
  /\ pending[n] # <<>>
  /\ stdout' = stdout \o pending[n]
  /\ pending' = [pending EXCEPT ![n] = <<>>]
  /\ UNCHANGED <<tree, data, logger, book, outcome>>

\* All stages but the last are started and counted one after the other; a
\* stage that does not start panics, and an empty pipe has no last stage.
StartPipe(n) ==
  /\ Active(n)
  /\ Kind[n] = "pipe"
  /\ pos[n] = 0
  /\ LET upstream == Len(Stages[n]) - 1 IN
     \/ /\ upstream >= 0
        /\ logger' = Counted(Prefix(Stages[n], upstream))
        /\ stdout' = <<>>
        /\ pos' = [pos EXCEPT ![n] = 1]
        /\ outcome' = outcome
     \/ /\ \/ upstream < 0 /\ logger' = logger
           \/ \E k \in 1 .. upstream :
                logger' = Counted(Prefix(Stages[n], k - 1))
        /\ outcome' = "panic"
        /\ UNCHANGED <<stdout, pos>>
  /\ UNCHANGED <<cur, status, ctx, data, pending, book>>

\* The last stage writes straight into the buffer and is waited for; when
\* it does not start, the pipe is unmet and the buffer stays empty.
EndPipe(n) ==
  /\ Active(n)
  /\ Kind[n] = "pipe"
  /\ pos[n] = 1
  /\ \E result \in Result, started \in BOOLEAN :
       /\ started \/ result = "unmet"
       /\ stdout' = IF started THEN stdout \o Printed[n] ELSE stdout
       /\ Finish(n, result)
  /\ logger' \in WithStderr(n, logger)
  /\ UNCHANGED <<pos, ctx, data, pending, book, outcome>>

-----------------------------------------------------------------------------
(***************************************************************************)
(* Messages, templates, restarts.                                          *)
(***************************************************************************)

\* The text itself is left out.
Log(n) ==
  /\ Active(n)
  /\ Kind[n] \in {"info", "warn", "error"}
  /\ logger' = [logger EXCEPT
       !.warnings = IF Kind[n] = "warn"  THEN @ + 1 ELSE @,
       !.errors   = IF Kind[n] = "error" THEN @ + 1 ELSE @]
  /\ Finish(n, "met")
  /\ UNCHANGED <<pos, ctx, data, text, book, outcome>>

\* Input that does not parse, a template that cannot be read or executed,
\* an output file that cannot be created: the promise is unmet.
Template(n) ==
  /\ Active(n)
  /\ Kind[n] = "template"
  /\ \E result \in Result : Finish(n, result)
  /\ UNCHANGED <<pos, ctx, data, text, logger, book, outcome>>

\* The process signals itself and goes on; a new executable that is absent
\* or cannot be moved into place panics.
Restart(n) ==
  /\ Active(n)
  /\ Kind[n] = "restart"
  /\ \/ /\ Finish(n, "met")
        /\ UNCHANGED <<pos, ctx, data, text, logger, book, outcome>>
     \/ Abort("panic")

-----------------------------------------------------------------------------
EvalStep(n) ==
  \/ Call(n) \/ CallFails(n) \/ Return(n)
  \/ SetVar(n) \/ ReadVar(n)
  \/ StartExec(n) \/ EndExec(n) \/ StartPipe(n) \/ EndPipe(n)
  \/ Log(n) \/ Template(n) \/ Restart(n)

Next ==
  \/ \E r \in Roots : Start(r)
  \/ \E n \in Node : EvalStep(n) \/ LateOutput(n)
  \/ Report

Spec == Init /\ [][Next]_vars

\* Commands end and the evaluator is not suspended: while a run lasts, some
\* step of it is eventually taken.
Step == Report \/ \E n \in Node : EvalStep(n)
FairSpec == Spec /\ WF_vars(Step)

-----------------------------------------------------------------------------
(***************************************************************************)
(* What holds of the evaluator.                                            *)
(***************************************************************************)
Open(n) == status[n] = "open"

\* The open promises are one path from a root to cur: each is the nested
\* promise its parent has called last, and cur is the deepest.
StackIsPath ==
  /\ cur # Top => Open(cur)
  /\ \A n \in Node : Open(n) =>
       /\ Depth[n] <= Depth[cur]
       /\ \/ n \in Roots
          \/ /\ Parent[n] # Top
             /\ Open(Parent[n])
             /\ pos[Parent[n]] \in 1 .. Len(Children[Parent[n]])
             /\ Children[Parent[n]][pos[Parent[n]]] = n
       /\ \A m \in Node : Open(m) /\ Depth[m] = Depth[n] => m = n

\* Nested promises are called in order, each at most once, and only while
\* the results so far leave the parent undecided.
CalledInOrder ==
  \A n \in Node :
    /\ status[n] = "idle" => pos[n] = 0
    /\ status[n] \in {"idle", "open"} =>
         \A k \in 1 .. Len(Children[n]) :
           LET s == status[Children[n][k]] IN
           /\ k < pos[n] => s = GoesOn(Kind[n])
           /\ k = pos[n] => s # "idle"
           /\ k > pos[n] => s = "idle"

\* The map a promise writes to is that of the innermost named promise it is
\* nested in, so an open promise never owns or outlives the map it uses,
\* and below a named promise nothing refers to a map from above it.
ScopesNest ==
  /\ \A n \in Node : Open(n) =>
       /\ Depth[ctx[n].vars] < Depth[n]
       /\ ctx[n].vars # Top => pos[ctx[n].vars] > 0
       /\ \A m \in Node : Open(m) /\ Kind[m] = "named" /\ Depth[m] < Depth[n]
                           => Depth[ctx[n].vars] >= Depth[m]
  /\ \A n \in Node : pos[n] = 0 => dict[n] = NoVars

\* A promise that binds x in the map of m has returned.
BoundIn(m, x) ==
  \E n \in Node : /\ Kind[n] \in {"setvar", "readvar"} /\ VarName[n] = x
                  /\ ctx[n].vars = m /\ status[n] \in Result

\* The body of a named promise has the variables of its caller, and differs
\* from it only in those that a promise of this very body has bound: nothing
\* comes in from a named promise it has called itself, and none is lost.
ScopeExact ==
  \A m \in Node : Open(m) /\ Kind[m] = "named" /\ pos[m] > 0 =>
    \A x \in Var : \/ dict[m][x] = dict[ctx[m].vars][x]
                   \/ dict[m][x] # Unset /\ BoundIn(m, x)

\* While a named promise is being evaluated, nothing that happens in its
\* body changes the variables of its caller.
CallerScopeFrozen ==
  [][\A m \in Node : outcome = "running" /\ Open(m) /\ Kind[m] = "named"
                      => dict'[ctx[m].vars] = dict[ctx[m].vars]]_vars

\* Along the path to n: the (setenv) promises in order, and the innermost
\* promise of one of the given types.
EnvPath[n \in Scope] ==
  IF n = Top THEN <<>>
  ELSE IF Kind[n] = "setenv" THEN Append(EnvPath[Parent[n]], n)
  ELSE EnvPath[Parent[n]]
Innermost(kinds) ==
  LET up[n \in Scope] == IF n = Top \/ Kind[n] \in kinds THEN n ELSE up[Parent[n]]
  IN up

\* Although slices share backing arrays, the environment a promise sees is
\* exactly what the (setenv) promises around it have set, and its directory
\* and user come from the innermost promises that set them.
ContextExact ==
  \A n \in Node : Open(n) =>
    LET c == ctx[n] IN
    /\ SubSeq(array[c.env.array], 1, c.env.len) = EnvPath[Parent[n]]
    /\ c.dir = Innermost({"indir", "eval"})[Parent[n]]
    /\ c.cred = Innermost({"asuser"})[Parent[n]]

\* The results follow the rules of the promises and nothing is evaluated
\* that the rules do not ask for.
ResultOf == [n \in Node |-> IF status[n] \in Result THEN status[n] ELSE "none"]
Semantics == INSTANCE PromiseSemantics WITH result <- ResultOf
ResultsFollowRules == Semantics!Spec

\* A run comes to an end: with a report, or with a panic.
RunEnds == (outcome = "running") ~> (outcome # "running")
=============================================================================
