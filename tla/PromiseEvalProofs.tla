------------------------- MODULE PromiseEvalProofs -------------------------
(***************************************************************************)
(* Theorems about the evaluator, for all trees.                            *)
(***************************************************************************)
EXTENDS PromiseClaims, SequenceTheorems, FiniteSetTheorems, TLAPS

(***************************************************************************)
(* Strings, getters and counts: each operator of PromiseTree yields a      *)
(* value of the expected kind, for every tree.                             *)
(***************************************************************************)

\* A part of a string that lies within the string is a string.
LEMMA PartOfValue ==
  ASSUME NEW S, NEW v \in Seq(S), NEW i \in Int, NEW j \in Int,
         i >= 1, j <= Len(v)
  PROVE  SubSeq(v, i, j) \in Seq(S)
<1>1. \A k \in i .. j : v[k] \in S
  BY LenProperties, ElementOfSeq
<1> QED BY <1>1, SubSeqProperties

\* What strings.TrimSpace returns is a string again.
LEMMA TrimSpaceType ==
  ASSUME NEW v \in Value
  PROVE  TrimSpace(v) \in Value
<1>1. Len(v) \in Nat
  BY LenProperties DEF Value
<1>2. IsFiniteSet(1 .. Len(v))
  BY <1>1, FS_Interval
<1>3. Leading(v) \in SUBSET (1 .. Len(v)) /\ Trailing(v) \in SUBSET (1 .. Len(v))
  BY DEF Leading, Trailing
<1>4. IsFiniteSet(Leading(v)) /\ IsFiniteSet(Trailing(v))
  BY <1>2, <1>3, FS_Subset
<1>5. Cardinality(Leading(v)) \in Nat /\ Cardinality(Trailing(v)) \in Nat
  BY <1>4, FS_CardinalityType
<1> QED
  BY <1>1, <1>5, PartOfValue DEF TrimSpace, Value

\* A getter yields a string, whatever the arguments and variables in scope.
LEMMA GetSimpleType ==
  ASSUME NEW g \in SimpleGetter, NEW args \in Seq(Value), NEW d \in Dict
  PROVE  GetSimple(g, args, d) \in Value
<1>1. CASE g \in [kind : {"const"}, value : Value]
  BY <1>1 DEF GetSimple, ArgValue, VarValue
<1>2. CASE g \in [kind : {"arg"}, pos : Nat]
  <2>1. g.pos \in Nat /\ g.kind = "arg"
    BY <1>2
  <2>2. <<>> \in Value
    BY DEF Value
  <2>3. ASSUME g.pos < Len(args) PROVE args[g.pos + 1] \in Value
    BY <2>1, <2>3, LenProperties, ElementOfSeq
  <2> QED BY <2>1, <2>2, <2>3 DEF GetSimple, ArgValue, VarValue
<1>3. CASE g \in [kind : {"var"}, name : Var]
  <2>1. g.name \in Var /\ g.kind = "var"
    BY <1>3
  <2>2. d[g.name] \in Value \union {Unset}
    BY <2>1 DEF Dict
  <2> QED BY <2>1, <2>2, DataAssumption DEF GetSimple, ArgValue, VarValue
<1>4. CASE g \in [kind : {"env"}, name : Var]
  BY <1>4, DataAssumption DEF GetSimple, ArgValue, VarValue
<1> QED BY <1>1, <1>2, <1>3, <1>4 DEF SimpleGetter

LEMMA GetValueType ==
  ASSUME NEW g \in Getter, NEW args \in Seq(Value), NEW d \in Dict
  PROVE  GetValue(g, args, d) \in Value
<1>1. CASE g \in SimpleGetter
  <2>1. g.kind # "join"
    BY <1>1 DEF SimpleGetter
  <2> QED BY <1>1, <2>1, GetSimpleType DEF GetValue
<1>2. CASE g \in [kind : {"join"}, left : SimpleGetter, right : SimpleGetter]
  <2>1. g.kind = "join" /\ g.left \in SimpleGetter /\ g.right \in SimpleGetter
    BY <1>2
  <2>2. GetSimple(g.left, args, d) \in Value /\ GetSimple(g.right, args, d) \in Value
    BY <2>1, GetSimpleType
  <2> QED BY <2>1, <2>2, ConcatProperties DEF GetValue, Value
<1> QED BY <1>1, <1>2 DEF Getter

\* The arguments passed to a named promise are strings.
LEMMA ParsedArgumentsType ==
  ASSUME NEW n \in Node, NEW args \in Seq(Value), NEW d \in Dict
  PROVE  ParsedArguments(n, args, d) \in Seq(Value)
<1>1. Params[n] \in Seq(Getter) /\ Len(Params[n]) \in Nat
  BY DataAssumption, LenProperties
<1>2. \A i \in 1 .. Len(Params[n]) : GetValue(Params[n][i], args, d) \in Value
  BY <1>1, ElementOfSeq, GetValueType
<1> QED BY <1>1, <1>2 DEF ParsedArguments

\* Counting the stages of a type gives a number.
LEMMA CountStagesType ==
  ASSUME NEW s \in Seq(ExecType), NEW type
  PROVE  CountStages(s, type) \in Nat
<1>1. IsFiniteSet(1 .. Len(s)) /\ DOMAIN s = 1 .. Len(s)
  BY LenProperties, FS_Interval
<1>2. {i \in DOMAIN s : s[i] = type} \in SUBSET (1 .. Len(s))
  BY <1>1
<1> QED BY <1>1, <1>2, FS_Subset, FS_CardinalityType DEF CountStages

(***************************************************************************)
(* Types.                                                                  *)
(***************************************************************************)

\* The context passed to a nested promise is a context.
LEMMA ChildContextType ==
  ASSUME TypeOK, NEW n \in Node
  PROVE  ChildContext(n) \in Context
<1> DEFINE c == ctx[n]
<1>1. c \in Context /\ c.args \in Seq(Value) /\ c.vars \in Scope /\ c.env \in Slice
  BY DEF TypeOK, Context
<1>2. ParsedArguments(n, c.args, dict[c.vars]) \in Seq(Value)
  BY <1>1, ParsedArgumentsType DEF TypeOK
<1>3. AppendedSlice(n, c.env) \in Slice
  BY <1>1 DEF AppendedSlice, Slice, Scope
<1>4. <<>> \in Seq(Value) /\ n \in Scope
  BY DEF Scope
<1> QED
  BY <1>1, <1>2, <1>3, <1>4 DEF ChildContext, BodyContext, DirContext, UserContext, EnvContext,
                TreeContext, Context

\* No environment slice is longer than its backing array, and a promise
\* that has not called yet has allocated no array.  (Needed for the type of
\* array: append copies the part of the old array that is in use.)
SlicesInBounds ==
  /\ \A n \in Node : ctx[n].env.len <= Len(array[ctx[n].env.array])
  /\ \A n \in Node : pos[n] = 0 => array[n] = <<>>

\* No promise calls more nested promises than it has.
PosInBounds == \A n \in Node : Kind[n] \notin Leaves => pos[n] <= Len(Children[n])

TypeInv == TypeOK /\ SlicesInBounds /\ PosInBounds

\* What append returns, and how long the arrays are then.
LEMMA AppendedType ==
  ASSUME TypeOK, NEW n \in Node, NEW s \in Slice,
         s.len <= Len(array[s.array]), array[n] = <<>>
  PROVE  /\ Appended(n, s) \in [Scope -> Seq(Scope)]
         /\ \A m \in Scope : m # n => Len(Appended(n, s)[m]) = Len(array[m])
         /\ s.len + 1 <= Len(Appended(n, s)[AppendedSlice(n, s).array])
<1>1. s.array \in Scope /\ s.len \in Nat /\ n \in Scope /\ Top \in Scope
  BY DEF Slice, Scope
<1>2. array \in [Scope -> Seq(Scope)] /\ array[s.array] \in Seq(Scope)
  BY <1>1 DEF TypeOK
<1>3. Len(array[s.array]) \in Nat
  BY <1>2, LenProperties
<1>4. CASE HasRoom(s)
  <2> DEFINE new == [array[s.array] EXCEPT ![s.len + 1] = n]
  <2>1. s.len + 1 \in 1 .. Len(array[s.array])
    BY <1>1, <1>3, <1>4 DEF HasRoom
  <2>2. new \in Seq(Scope) /\ Len(new) = Len(array[s.array])
    BY <1>1, <1>2, <2>1, ExceptSeq
  <2>3. Appended(n, s) = [array EXCEPT ![s.array] = new]
    BY <1>4 DEF Appended
  <2>4. AppendedSlice(n, s).array = s.array
    BY <1>4 DEF AppendedSlice
  <2> HIDE DEF new
  <2> DEFINE next == [array EXCEPT ![s.array] = new]
  <2>5. /\ next \in [Scope -> Seq(Scope)]
        /\ next[s.array] = new
        /\ \A m \in Scope : m # s.array => next[m] = array[m]
    BY <1>1, <1>2, <2>2
  <2> HIDE DEF next
  <2>6. \A m \in Scope : Len(next[m]) = Len(array[m])
    BY <2>2, <2>5
  <2>7. s.len + 1 <= Len(next[s.array])
    BY <1>1, <1>3, <2>1, <2>2, <2>5
  <2> QED BY <2>3, <2>4, <2>5, <2>6, <2>7 DEF next
<1>5. CASE ~ HasRoom(s)
  <2> DEFINE size == IF s.len = 0 THEN 1 ELSE 2 * s.len
             new == [i \in 1 .. size |->
                       IF i <= s.len THEN array[s.array][i]
                       ELSE IF i = s.len + 1 THEN n ELSE Top]
  <2>1. size \in Nat /\ s.len + 1 <= size
    BY <1>1
  <2>2. s.len = Len(array[s.array])
    BY <1>1, <1>3, <1>5 DEF HasRoom
  <2>3. \A i \in 1 .. size : i <= s.len => array[s.array][i] \in Scope
    BY <1>2, <2>1, <2>2, ElementOfSeq
  <2>4. \A i \in 1 .. size : new[i] \in Scope
    BY <1>1, <2>3
  <2> HIDE DEF size
  <2>5. new \in Seq(Scope) /\ Len(new) = size
    BY <2>1, <2>4
  <2>6. Appended(n, s) = [array EXCEPT ![n] = new]
    BY <1>5 DEF Appended, size
  <2>7. AppendedSlice(n, s).array = n
    BY <1>5 DEF AppendedSlice
  <2> HIDE DEF new
  <2> QED BY <1>1, <1>2, <2>1, <2>5, <2>6, <2>7
<1> QED BY <1>4, <1>5

\* The counters after some stages have been counted.
LEMMA CountedType ==
  ASSUME TypeOK, NEW s \in Seq(ExecType)
  PROVE  Counted(s) \in Counters
<1>1. CountStages(s, "change") \in Nat /\ CountStages(s, "test") \in Nat
  BY CountStagesType
<1>2. logger \in Counters /\ logger.changes \in Nat /\ logger.tests \in Nat
  BY DEF TypeOK, Counters
<1> DEFINE c == logger.changes + CountStages(s, "change")
           t == logger.tests + CountStages(s, "test")
<1>3. c \in Nat /\ t \in Nat
  BY <1>1, <1>2
<1>4. Counted(s) = [logger EXCEPT !.changes = c, !.tests = t]
  BY DEF Counted
<1> HIDE DEF c, t
<1> QED BY <1>2, <1>3, <1>4 DEF Counters

\* ... and after a warning for text on standard error.
LEMMA WithStderrType ==
  ASSUME NEW n \in Node, NEW l \in Counters, NEW k \in WithStderr(n, l)
  PROVE  k \in Counters
BY DEF WithStderr, Counters

LEMMA ForestFacts ==
  /\ Top \in Scope /\ Top \notin Node /\ Node \subseteq Scope /\ Roots \subseteq Node
  /\ \A n \in Node : /\ Parent[n] \in Scope
                     /\ Children[n] \in Seq(Node)
                     /\ Len(Children[n]) \in Nat
                     /\ \A k \in 1 .. Len(Children[n]) : Children[n][k] \in Node
  /\ \A r \in Roots : r \in Scope
BY ForestAssumption, LenProperties, ElementOfSeq DEF Scope

LEMMA InitType == Init => TypeInv
<1> SUFFICES ASSUME Init PROVE TypeInv
  OBVIOUS
<1> USE DEF Init
<1>1. <<>> \in Value /\ <<>> \in Seq(Value) /\ <<>> \in Seq(Scope)
  BY DEF Value
<1>2. TopContext \in Context
  BY <1>1, ForestFacts DEF TopContext, Context, Slice
<1>3. NoVars \in Dict
  BY DEF NoVars, Dict
<1>4. Zero \in Counters
  BY DEF Zero, Counters
<1>5. TypeOK
  BY <1>1, <1>2, <1>3, <1>4, ForestFacts DEF TypeOK
<1>6. SlicesInBounds
  BY ForestFacts DEF SlicesInBounds, TopContext
<1>7. PosInBounds
  BY ForestFacts DEF PosInBounds
<1> QED BY <1>5, <1>6, <1>7 DEF TypeInv

LEMMA StartType ==
  ASSUME TypeInv, NEW r \in Roots, Start(r)
  PROVE  TypeInv'
<1> USE DEF Start
<1>1. <<>> \in Value /\ <<>> \in Seq(Value) /\ <<>> \in Seq(Scope)
  BY DEF Value
<1>2. TopContext \in Context
  BY <1>1, ForestFacts DEF TopContext, Context, Slice
<1>3. NoVars \in Dict /\ InitVars \in Dict
  BY DataAssumption DEF NoVars, Dict
<1>4. status' \in [Node -> {"idle", "open"} \union Result]
  BY DEF FreshStack
<1>5. TypeOK'
  <2>1. dict' \in [Scope -> Dict] /\ array' \in [Scope -> Seq(Scope)]
    BY <1>1, <1>3
  <2>2. cur' \in Scope /\ pos' \in [Node -> Nat] /\ ctx' \in [Node -> Context]
    BY <1>2, ForestFacts
  <2>3. stdout' \in Value /\ pending' \in [Node -> Value]
    BY <1>1
  <2>4. logger' \in Counters /\ carried' \in Counters /\ report' \in Counters
    <3>1. logger \in Counters /\ report \in Counters
      BY DEF TypeInv, TypeOK
    <3>2. [logger EXCEPT !.warnings = @ + 1] \in Counters
      BY <3>1 DEF Counters
    <3> QED BY <3>1, <3>2 DEF VersionChecked
  <2>5. outcome' = "running" /\ runs' \in Nat
    BY DEF TypeInv, TypeOK
  <2> QED BY <1>4, <2>1, <2>2, <2>3, <2>4, <2>5 DEF TypeOK
<1>6. SlicesInBounds'
  BY ForestFacts DEF SlicesInBounds, TopContext
<1>7. PosInBounds'
  BY ForestFacts DEF PosInBounds
<1> QED BY <1>5, <1>6, <1>7 DEF TypeInv

\* A step that leaves the contexts and the arrays as they are only has to
\* keep the types of the rest.
LEMMA OtherTypes ==
  ASSUME TypeInv, UNCHANGED <<ctx, array, carried, runs>>,
         pos' \in [Node -> Nat],
         \A n \in Node : pos'[n] = 0 => pos[n] = 0,
         \A n \in Node : Kind[n] \notin Leaves => pos'[n] = pos[n],
         cur' \in Scope, status' \in [Node -> {"idle", "open"} \union Result],
         dict' \in [Scope -> Dict], stdout' \in Value,
         pending' \in [Node -> Value],
         logger' \in Counters, report' \in Counters,
         outcome' \in {"none", "running", "panic", "redefined"} \union Result
  PROVE  TypeInv'
<1>1. TypeOK'
  BY DEF TypeInv, TypeOK
<1>2. SlicesInBounds'
  BY DEF TypeInv, SlicesInBounds
<1>3. PosInBounds'
  BY DEF TypeInv, PosInBounds
<1> QED BY <1>1, <1>2, <1>3 DEF TypeInv

LEMMA CallType ==
  ASSUME TypeInv, NEW n \in Node, Call(n)
  PROVE  TypeInv'
<1> DEFINE child == Children[n][pos[n] + 1]
           s == ctx[n].env
<1>1. pos[n] \in Nat /\ pos[n] < Len(Children[n]) /\ child \in Node /\ n \in Scope
  BY ForestFacts DEF Call, CallsNext, TypeInv, TypeOK
<1>2. ChildContext(n) \in Context
  BY ChildContextType DEF TypeInv
<1>3. /\ ctx \in [Node -> Context] /\ s \in Slice /\ s.len \in Nat
      /\ s.array \in Scope /\ ctx[n].vars \in Scope
      /\ s.len <= Len(array[s.array])
  BY DEF TypeInv, TypeOK, Context, Slice, SlicesInBounds
<1>4. ctx' = [ctx EXCEPT ![child] = ChildContext(n)]
  BY DEF Call
<1>5. ctx' \in [Node -> Context]
  BY <1>1, <1>2, <1>3, <1>4
<1>6. pos' = [pos EXCEPT ![n] = pos[n] + 1] /\ pos' \in [Node -> Nat]
  BY <1>1 DEF Call, TypeInv, TypeOK
<1>7. dict' \in [Scope -> Dict]
  BY <1>1, <1>3 DEF Call, CalleeDict, TypeInv, TypeOK
<1>8. Kind[n] = "setenv" => pos[n] = 0
  <2> SUFFICES ASSUME Kind[n] = "setenv" PROVE pos[n] = 0
    OBVIOUS
  <2>1. Len(Children[n]) = 1
    BY ArityAssumption DEF Unary
  <2> QED BY <1>1, <2>1
<1>9. /\ array' \in [Scope -> Seq(Scope)]
      /\ \A m \in Scope : m # n => Len(array'[m]) = Len(array[m])
      /\ Kind[n] # "setenv" => array' = array
      /\ Kind[n] = "setenv" =>
           /\ array[n] = <<>>
           /\ s.len + 1 <= Len(array'[AppendedSlice(n, s).array])
  <2>1. CASE Kind[n] = "setenv"
    <3>1. array[n] = <<>>
      BY <1>8, <2>1 DEF TypeInv, SlicesInBounds
    <3>2. array' = Appended(n, s)
      BY <2>1 DEF Call
    <3> QED BY <1>3, <2>1, <3>1, <3>2, AppendedType DEF TypeInv
  <2>2. CASE Kind[n] # "setenv"
    BY <2>2 DEF Call, TypeInv, TypeOK
  <2> QED BY <2>1, <2>2
<1>10. TypeOK'
  <2>1. cur' \in Scope /\ status' \in [Node -> {"idle", "open"} \union Result]
    BY <1>1, ForestFacts DEF Call, TypeInv, TypeOK
  <2>2. UNCHANGED <<stdout, pending, logger, carried, report, outcome, runs>>
    BY DEF Call, text, book
  <2> QED BY <1>5, <1>6, <1>7, <1>9, <2>1, <2>2 DEF TypeInv, TypeOK
<1>11. SlicesInBounds'
  <2>1. ASSUME NEW m \in Node PROVE ctx'[m].env.len <= Len(array'[ctx'[m].env.array])
    <3> DEFINE t == ctx[m].env
    <3>1. t.array \in Scope /\ t.len \in Nat /\ t.len <= Len(array[t.array])
      BY DEF TypeInv, TypeOK, Context, Slice, SlicesInBounds
    <3>2. \A a \in Scope : Len(array[a]) <= Len(array'[a])
      <4>1. ASSUME NEW a \in Scope PROVE Len(array[a]) \in Nat /\ Len(array'[a]) \in Nat
        BY <1>9, LenProperties DEF TypeInv, TypeOK
      <4>2. Len(<<>>) = 0
        OBVIOUS
      <4> QED BY <1>9, <4>1, <4>2
    <3>3. \A a \in Scope : Len(array[a]) \in Nat /\ Len(array'[a]) \in Nat
      BY <1>9, LenProperties DEF TypeInv, TypeOK
    <3>4. CASE m # child
      <4>1. ctx'[m] = ctx[m]
        BY <1>4, <1>3, <3>4
      <4> QED BY <3>1, <3>2, <3>3, <4>1
    <3>5. CASE m = child
      <4>1. ctx'[m] = ChildContext(n)
        BY <1>1, <1>3, <1>4, <3>5
      <4>2. CASE Kind[n] = "setenv"
        <5>1. ctx'[m].env = AppendedSlice(n, s)
          BY <1>3, <4>1, <4>2 DEF ChildContext, BodyContext, DirContext, UserContext, EnvContext,
                TreeContext, Context
        <5> QED BY <1>9, <4>2, <5>1 DEF AppendedSlice
      <4>3. CASE Kind[n] # "setenv"
        <5>1. ctx'[m].env = s
          BY <1>3, <4>1, <4>3 DEF ChildContext, BodyContext, DirContext, UserContext, EnvContext,
                TreeContext, Context
        <5> QED BY <1>3, <1>9, <4>3, <5>1
      <4> QED BY <4>2, <4>3
    <3> QED BY <3>4, <3>5
  <2>2. ASSUME NEW m \in Node, pos'[m] = 0 PROVE array'[m] = <<>>
    <3>1. m # n /\ pos[m] = 0
      BY <1>1, <1>6, <2>2 DEF TypeInv, TypeOK
    <3>2. array[m] = <<>> /\ m \in Scope
      BY <3>1, ForestFacts DEF TypeInv, SlicesInBounds
    <3>3. array'[m] \in Seq(Scope) /\ Len(array'[m]) = 0
      BY <1>9, <3>1, <3>2
    <3> QED BY <3>3, EmptySeq
  <2> QED BY <2>1, <2>2 DEF SlicesInBounds
<1>12. PosInBounds'
  BY <1>1, <1>6, ForestFacts, SMTT(20) DEF PosInBounds, TypeInv, TypeOK
<1> QED BY <1>10, <1>11, <1>12 DEF TypeInv

\* The result of the nested promise called last is a status, and ending
\* with a result keeps the types of the stack.
LEMMA LastResultType ==
  ASSUME TypeInv, NEW n \in Node, Kind[n] \notin Leaves, Decided(n)
  PROVE  /\ pos[n] \in 1 .. Len(Children[n])
         /\ Children[n][pos[n]] \in Node
         /\ LastResult(n) = status[Children[n][pos[n]]]
         /\ LastResult(n) \in {"idle", "open"} \union Result
<1>1. pos[n] \in Nat /\ pos[n] > 0 /\ pos[n] <= Len(Children[n])
  BY DEF Decided, TypeInv, TypeOK, PosInBounds
<1>2. Children[n][pos[n]] \in Node
  BY <1>1, ForestFacts
<1> QED BY <1>1, <1>2, ForestFacts DEF LastResult, TypeInv, TypeOK

LEMMA FinishType ==
  ASSUME TypeInv, NEW n \in Node, NEW v \in {"idle", "open"} \union Result,
         Finish(n, v)
  PROVE  /\ cur' \in Scope
         /\ status' \in [Node -> {"idle", "open"} \union Result]
BY ForestFacts DEF Finish, TypeInv, TypeOK

\* Stopping with a panic changes nothing but the outcome.
LEMMA AbortType ==
  ASSUME TypeInv, NEW why \in {"panic", "redefined"}, Abort(why)
  PROVE  TypeInv'
<1>1. UNCHANGED <<cur, status, pos, ctx, dict, array, stdout, pending,
                  logger, carried, report, runs>>
  BY DEF Abort, tree, data, text, book
<1>2. outcome' \in {"none", "running", "panic", "redefined"} \union Result
  BY DEF Abort
<1> QED BY <1>1, <1>2, OtherTypes DEF TypeInv, TypeOK

LEMMA ReturnType ==
  ASSUME TypeInv, NEW n \in Node, Return(n)
  PROVE  TypeInv'
<1>1. Verdict(n) \in {"idle", "open"} \union Result
  BY LastResultType DEF Return, Verdict, Result
<1>2. cur' \in Scope /\ status' \in [Node -> {"idle", "open"} \union Result]
  BY <1>1, FinishType DEF Return
<1>3. UNCHANGED <<pos, ctx, dict, array, stdout, pending, logger,
                  carried, report, runs, outcome>>
  BY DEF Return, data, text, book
<1> QED BY <1>2, <1>3, OtherTypes DEF TypeInv, TypeOK

LEMMA BindType ==
  ASSUME TypeInv, NEW n \in Node, NEW value \in Value,
         NEW v \in {"idle", "open"} \union Result, Bind(n, value, v)
  PROVE  TypeInv'
<1>1. CASE Abort("redefined")
  BY <1>1, AbortType
<1>2. CASE /\ dict' = [dict EXCEPT ![ctx[n].vars][VarName[n]] = value]
           /\ Finish(n, v)
           /\ UNCHANGED <<pos, ctx, array, text, logger, book, outcome>>
  <2>1. ctx[n].vars \in Scope /\ VarName[n] \in Var
    BY DataAssumption DEF TypeInv, TypeOK, Context
  <2>2. dict' \in [Scope -> Dict]
    BY <1>2, <2>1 DEF TypeInv, TypeOK, Dict
  <2>3. cur' \in Scope /\ status' \in [Node -> {"idle", "open"} \union Result]
    BY <1>2, FinishType
  <2>4. UNCHANGED <<pos, ctx, array, stdout, pending, logger,
                    carried, report, runs, outcome>>
    BY <1>2 DEF text, book
  <2> QED BY <2>2, <2>3, <2>4, OtherTypes DEF TypeInv, TypeOK
<1> QED BY <1>1, <1>2 DEF Bind

LEMMA SetVarType ==
  ASSUME TypeInv, NEW n \in Node, SetVar(n)
  PROVE  TypeInv'
<1> DEFINE value == GetValue(Params[n][1], ctx[n].args, dict[ctx[n].vars])
<1>1. Params[n] \in Seq(Getter) /\ Len(Params[n]) = 1
  BY DataAssumption DEF SetVar
<1>2. Params[n][1] \in Getter
  BY <1>1, ElementOfSeq
<1>3. ctx[n].args \in Seq(Value) /\ dict[ctx[n].vars] \in Dict
  BY DEF TypeInv, TypeOK, Context
<1>4. TrimSpace(value) \in Value
  BY <1>2, <1>3, GetValueType, TrimSpaceType
<1>5. Bind(n, TrimSpace(value), "met")
  BY DEF SetVar
<1> QED BY <1>4, <1>5, BindType DEF Result

LEMMA ReadVarType ==
  ASSUME TypeInv, NEW n \in Node, ReadVar(n)
  PROVE  TypeInv'
<1>1. TrimSpace(stdout) \in Value
  BY TrimSpaceType DEF TypeInv, TypeOK
<1>2. LastResult(n) \in {"idle", "open"} \union Result
  BY LastResultType DEF ReadVar, Leaves
<1> QED BY <1>1, <1>2, BindType DEF ReadVar

LEMMA LogType ==
  ASSUME TypeInv, NEW n \in Node, Log(n)
  PROVE  TypeInv'
<1>4. logger' \in Counters
  <2> DEFINE w == IF Kind[n] = "warn"  THEN logger.warnings + 1 ELSE logger.warnings
             e == IF Kind[n] = "error" THEN logger.errors + 1 ELSE logger.errors
  <2>1. logger \in Counters /\ logger.warnings \in Nat /\ logger.errors \in Nat
    BY DEF TypeInv, TypeOK, Counters
  <2>2. w \in Nat /\ e \in Nat
    BY <2>1
  <2>3. logger' = [logger EXCEPT !.warnings = w, !.errors = e]
    BY DEF Log
  <2> HIDE DEF w, e
  <2> QED BY <2>1, <2>2, <2>3 DEF Counters
<1>5. cur' \in Scope /\ status' \in [Node -> {"idle", "open"} \union Result]
  BY FinishType DEF Log, Result
<1>6. UNCHANGED <<pos, ctx, dict, array, stdout, pending, carried, report,
                  runs, outcome>>
  BY DEF Log, data, text, book
<1> QED BY <1>4, <1>5, <1>6, OtherTypes DEF TypeInv, TypeOK

LEMMA StartExecType ==
  ASSUME TypeInv, NEW n \in Node, StartExec(n)
  PROVE  TypeInv'
<1>1. /\ pos' \in [Node -> Nat]
      /\ \A m \in Node : pos'[m] = 0 => pos[m] = 0
      /\ \A m \in Node : Kind[m] \notin Leaves => pos'[m] = pos[m]
  <2>1. pos' = pos \/ pos' = [pos EXCEPT ![n] = 1]
    BY DEF StartExec
  <2>2. Kind[n] \in Leaves /\ pos \in [Node -> Nat]
    BY DEF StartExec, Leaves, TypeInv, TypeOK
  <2> QED BY <2>1, <2>2
<1>2. stdout' \in Value
  BY DEF StartExec, Value
<1>3. outcome' \in {"none", "running", "panic", "redefined"} \union Result
  BY DEF StartExec, TypeInv, TypeOK
<1>4. UNCHANGED <<cur, status, ctx, dict, array, pending, logger,
                  carried, report, runs>>
  BY DEF StartExec, data, book
<1> QED BY <1>1, <1>2, <1>3, <1>4, OtherTypes DEF TypeInv, TypeOK

LEMMA EndExecType ==
  ASSUME TypeInv, NEW n \in Node, EndExec(n)
  PROVE  TypeInv'
<1>1. Printed[n] \in Seq(Atom) /\ Len(Printed[n]) \in Nat /\ stdout \in Seq(Atom)
  BY DataAssumption, LenProperties DEF Value, TypeInv, TypeOK
<1>2. PICK i \in 0 .. Len(Printed[n]) : \E j \in i .. Len(Printed[n]) :
         /\ stdout' = stdout \o Prefix(Printed[n], i)
         /\ pending' = [pending EXCEPT ![n] = SubSeq(Printed[n], i + 1, j)]
  BY DEF EndExec
<1>3. PICK j \in i .. Len(Printed[n]) :
         /\ stdout' = stdout \o Prefix(Printed[n], i)
         /\ pending' = [pending EXCEPT ![n] = SubSeq(Printed[n], i + 1, j)]
  BY <1>2
<1>4. Prefix(Printed[n], i) \in Seq(Atom) /\ SubSeq(Printed[n], i + 1, j) \in Seq(Atom)
  BY <1>1, PartOfValue DEF Prefix
<1>5. stdout' \in Value
  BY <1>1, <1>3, <1>4, ConcatProperties DEF Value
<1>6. pending' \in [Node -> Value]
  BY <1>3, <1>4 DEF TypeInv, TypeOK, Value
<1>7. Stages[n] \in Seq(ExecType)
  BY DataAssumption
<1>8. logger' \in Counters
  BY <1>7, CountedType, WithStderrType DEF EndExec, TypeInv
<1>9. cur' \in Scope /\ status' \in [Node -> {"idle", "open"} \union Result]
  BY FinishType DEF EndExec, Result
<1>10. UNCHANGED <<pos, ctx, dict, array, carried, report, runs, outcome>>
  BY DEF EndExec, data, book
<1> QED BY <1>5, <1>6, <1>8, <1>9, <1>10, OtherTypes DEF TypeInv, TypeOK

LEMMA LateOutputType ==
  ASSUME TypeInv, NEW n \in Node, LateOutput(n)
  PROVE  TypeInv'
<1>1. stdout \in Seq(Atom) /\ pending[n] \in Seq(Atom) /\ <<>> \in Seq(Atom)
  BY DEF Value, TypeInv, TypeOK
<1>2. stdout' \in Value /\ pending' \in [Node -> Value]
  BY <1>1, ConcatProperties DEF LateOutput, Value, TypeInv, TypeOK
<1>3. UNCHANGED <<cur, status, pos, ctx, dict, array, logger,
                  carried, report, runs, outcome>>
  BY DEF LateOutput, tree, data, book
<1> QED BY <1>2, <1>3, OtherTypes DEF TypeInv, TypeOK

LEMMA StartPipeType ==
  ASSUME TypeInv, NEW n \in Node, StartPipe(n)
  PROVE  TypeInv'
<1>1. Stages[n] \in Seq(ExecType) /\ Len(Stages[n]) \in Nat
  BY DataAssumption, LenProperties
<1>2. \A k \in Int : k <= Len(Stages[n]) => Prefix(Stages[n], k) \in Seq(ExecType)
  BY <1>1, PartOfValue DEF Prefix
<1>3. \A k \in Int : k <= Len(Stages[n]) => Counted(Prefix(Stages[n], k)) \in Counters
  BY <1>2, CountedType DEF TypeInv
<1>4. logger' \in Counters
  BY <1>1, <1>3 DEF StartPipe, TypeInv, TypeOK
<1>5. /\ pos' \in [Node -> Nat]
      /\ \A m \in Node : pos'[m] = 0 => pos[m] = 0
      /\ \A m \in Node : Kind[m] \notin Leaves => pos'[m] = pos[m]
  <2>1. pos' = pos \/ pos' = [pos EXCEPT ![n] = 1]
    BY DEF StartPipe
  <2>2. Kind[n] \in Leaves /\ pos \in [Node -> Nat]
    BY DEF StartPipe, Leaves, TypeInv, TypeOK
  <2> QED BY <2>1, <2>2
<1>6. stdout' \in Value
  <2>1. stdout' = <<>> \/ stdout' = stdout
    BY DEF StartPipe
  <2>2. <<>> \in Value
    BY DEF Value
  <2> QED BY <2>1, <2>2 DEF TypeInv, TypeOK
<1>7. outcome' \in {"none", "running", "panic", "redefined"} \union Result
  BY DEF StartPipe, TypeInv, TypeOK
<1>8. UNCHANGED <<cur, status, ctx, dict, array, pending,
                  carried, report, runs>>
  BY DEF StartPipe, data, book
<1> QED BY <1>4, <1>5, <1>6, <1>7, <1>8, OtherTypes DEF TypeInv, TypeOK

LEMMA EndPipeType ==
  ASSUME TypeInv, NEW n \in Node, EndPipe(n)
  PROVE  TypeInv'
<1>1. stdout \in Seq(Atom) /\ Printed[n] \in Seq(Atom)
  BY DataAssumption DEF Value, TypeInv, TypeOK
<1>2. stdout' \in Value
  BY <1>1, ConcatProperties DEF EndPipe, Value
<1>3. logger' \in Counters
  BY WithStderrType DEF EndPipe, TypeInv, TypeOK
<1>4. cur' \in Scope /\ status' \in [Node -> {"idle", "open"} \union Result]
  BY FinishType DEF EndPipe, Result
<1>5. UNCHANGED <<pos, ctx, dict, array, pending, carried, report,
                  runs, outcome>>
  BY DEF EndPipe, data, book
<1> QED BY <1>2, <1>3, <1>4, <1>5, OtherTypes DEF TypeInv, TypeOK

LEMMA TemplateType ==
  ASSUME TypeInv, NEW n \in Node, Template(n)
  PROVE  TypeInv'
<1>1. cur' \in Scope /\ status' \in [Node -> {"idle", "open"} \union Result]
  BY FinishType DEF Template, Result
<1>2. UNCHANGED <<pos, ctx, dict, array, stdout, pending, logger,
                  carried, report, runs, outcome>>
  BY DEF Template, data, text, book
<1> QED BY <1>1, <1>2, OtherTypes DEF TypeInv, TypeOK

LEMMA RestartType ==
  ASSUME TypeInv, NEW n \in Node, Restart(n)
  PROVE  TypeInv'
<1>1. CASE Abort("panic")
  BY <1>1, AbortType
<1>2. CASE /\ Finish(n, "met")
           /\ UNCHANGED <<pos, ctx, data, text, logger, book, outcome>>
  <2>1. cur' \in Scope /\ status' \in [Node -> {"idle", "open"} \union Result]
    BY <1>2, FinishType DEF Result
  <2>2. UNCHANGED <<pos, ctx, dict, array, stdout, pending, logger,
                    carried, report, runs, outcome>>
    BY <1>2 DEF data, text, book
  <2> QED BY <2>1, <2>2, OtherTypes DEF TypeInv, TypeOK
<1> QED BY <1>1, <1>2 DEF Restart

LEMMA ReportType ==
  ASSUME TypeInv, Report
  PROVE  TypeInv'
<1>1. logger' \in Counters /\ report' \in Counters
  BY DEF Report, Zero, Counters, TypeInv, TypeOK
<1>2. outcome' \in {"none", "running", "panic", "redefined"} \union Result
  BY DEF Report
<1>3. UNCHANGED <<cur, status, pos, ctx, dict, array, stdout, pending,
                  carried, runs>>
  BY DEF Report, tree, data, text
<1> QED BY <1>1, <1>2, <1>3, OtherTypes DEF TypeInv, TypeOK

LEMMA TypeStep == TypeInv /\ [Next]_vars => TypeInv'
<1> SUFFICES ASSUME TypeInv, [Next]_vars PROVE TypeInv'
  OBVIOUS
<1>1. ASSUME NEW r \in Roots, Start(r) PROVE TypeInv'
  BY <1>1, StartType
<1>2. ASSUME NEW n \in Node, EvalStep(n) PROVE TypeInv'
  <2>1. CASE CallFails(n)
    BY <2>1, AbortType DEF CallFails
  <2> QED
    BY <1>2, <2>1, CallType, ReturnType, SetVarType, ReadVarType, StartExecType,
       EndExecType, StartPipeType, EndPipeType, LogType, TemplateType,
       RestartType DEF EvalStep
<1>3. ASSUME NEW n \in Node, LateOutput(n) PROVE TypeInv'
  BY <1>3, LateOutputType
<1>4. CASE Report
  BY <1>4, ReportType
<1>5. CASE UNCHANGED vars
  <2>1. UNCHANGED <<cur, status, pos, ctx, dict, array, stdout, pending,
                    logger, carried, report, outcome, runs>>
    BY <1>5 DEF vars
  <2> QED BY <2>1, OtherTypes DEF TypeInv, TypeOK
<1> QED BY <1>1, <1>2, <1>3, <1>4, <1>5 DEF Next

LEMMA TypeInvariant == Spec => []TypeInv
<1>1. Init => TypeInv
  BY InitType
<1>2. TypeInv /\ [Next]_vars => TypeInv'
  BY TypeStep
<1> QED BY <1>1, <1>2, PTL DEF Spec

\* Type correctness of the evaluator: every value it computes from the
\* arguments, variables and outputs of any tree is of the expected type.
THEOREM TypeCorrect == Spec => []TypeOK
<1>1. TypeInv => TypeOK
  BY DEF TypeInv
<1> QED BY <1>1, TypeInvariant, PTL

(***************************************************************************)
(* The stack: StackIsPath and CalledInOrder.  Only Start, Call, the ending *)
(* of a promise and the start of a command touch what they speak of.       *)
(***************************************************************************)
StackInv == StackIsPath /\ CalledInOrder

LEMMA TreeFacts ==
  /\ \A n \in Scope : Depth[n] \in Nat
  /\ Depth[Top] = 0
  /\ \A n \in Node : Depth[n] = Depth[Parent[n]] + 1
  /\ \A n \in Node : Depth[n] > 0 /\ Parent[n] # n
  /\ \A r \in Roots : Parent[r] = Top
  /\ \A n \in Node : \A k \in 1 .. Len(Children[n]) : Parent[Children[n][k]] = n
  /\ \A n \in Node : \A j, k \in 1 .. Len(Children[n]) :
        Children[n][j] = Children[n][k] => j = k
<1>1. \A n \in Node : n \in Scope /\ Parent[n] \in Scope
  BY ForestFacts
<1> QED BY <1>1, ForestAssumption

LEMMA GoesOnFacts ==
  \A n \in Node : GoesOn(Kind[n]) # "idle" /\ GoesOn(Kind[n]) # "open"
BY DEF GoesOn

LEMMA StartStack ==
  ASSUME TypeInv, NEW r \in Roots, Start(r)
  PROVE  StackInv'
<1>1. /\ cur' = r /\ r \in Node /\ r # Top
      /\ status' = [n \in Node |-> IF n = r THEN "open" ELSE "idle"]
      /\ pos' = [n \in Node |-> 0]
  BY ForestFacts DEF Start, FreshStack
<1>2. StackIsPath'
  BY <1>1, TreeFacts, ForestFacts DEF StackIsPath, Open
<1>3. \A n \in Node : \A k \in 1 .. Len(Children[n]) : Children[n][k] # r
  BY <1>1, TreeFacts, ForestFacts
<1>4. CalledInOrder'
  BY <1>1, <1>3, ForestFacts DEF CalledInOrder
<1> QED BY <1>2, <1>4 DEF StackInv

LEMMA CallStack ==
  ASSUME TypeInv, StackInv, NEW n \in Node, Call(n)
  PROVE  StackInv'
<1> DEFINE c == Children[n][pos[n] + 1]
<1>1. /\ cur = n /\ n # Top /\ Open(n) /\ pos[n] \in Nat
      /\ pos[n] + 1 \in 1 .. Len(Children[n])
      /\ pos[n] = 0 \/ LastResult(n) = GoesOn(Kind[n])
  BY ForestFacts DEF Call, Active, CallsNext, TypeInv, TypeOK, StackInv, StackIsPath
<1>2. c \in Node /\ Parent[c] = n /\ Depth[c] = Depth[n] + 1 /\ c # n
  BY <1>1, ForestFacts, TreeFacts
<1>3. status[c] = "idle" /\ pos[c] = 0
  BY <1>1, <1>2 DEF StackInv, CalledInOrder, Open
<1>4. cur' = c /\ status' = [status EXCEPT ![c] = "open"]
      /\ pos' = [pos EXCEPT ![n] = pos[n] + 1]
  BY DEF Call
<1>5. /\ status'[c] = "open" /\ \A m \in Node : m # c => status'[m] = status[m]
      /\ pos'[n] = pos[n] + 1 /\ \A m \in Node : m # n => pos'[m] = pos[m]
  BY <1>2, <1>4 DEF TypeInv, TypeOK
<1> HIDE DEF c
<1>6. ASSUME NEW m \in Node, Open(m)
      PROVE  /\ Depth[m] <= Depth[n]
             /\ m \in Roots \/ (/\ Parent[m] # Top /\ Open(Parent[m])
                               /\ Parent[m] # n /\ Parent[m] \in Node
                               /\ pos[Parent[m]] \in 1 .. Len(Children[Parent[m]])
                               /\ Children[Parent[m]][pos[Parent[m]]] = m)
  <2>1. Depth[m] <= Depth[n]
    BY <1>1, <1>6 DEF StackInv, StackIsPath
  <2>2. Parent[m] # n
    BY <2>1, <1>1, TreeFacts, ForestFacts
  <2> QED BY <2>1, <2>2, <1>6, ForestFacts DEF StackInv, StackIsPath, Scope
<1>7. StackIsPath'
  <2>1. cur' # Top => Open(cur)'
    BY <1>4, <1>5 DEF Open
  <2>2. ASSUME NEW m \in Node, Open(m)'
        PROVE  /\ Depth[m] <= Depth[cur']
               /\ \/ m \in Roots
                  \/ /\ Parent[m] # Top /\ Open(Parent[m])'
                     /\ pos'[Parent[m]] \in 1 .. Len(Children[Parent[m]])
                     /\ Children[Parent[m]][pos'[Parent[m]]] = m
               /\ \A o \in Node : Open(o)' /\ Depth[o] = Depth[m] => o = m
    <3>1. CASE m = c
      <4>1. Open(n)' /\ n # Top
        BY <1>1, <1>2, <1>5 DEF Open
      <4>2. \A o \in Node : Open(o)' /\ Depth[o] = Depth[m] => o = m
        BY <1>2, <1>5, <1>6, <3>1, TreeFacts, ForestFacts DEF Open
      <4>3. Children[n][pos'[n]] = c
        BY <1>5 DEF c
      <4> QED BY <1>1, <1>2, <1>4, <1>5, <3>1, <4>1, <4>2, <4>3, TreeFacts, ForestFacts
    <3>2. CASE m # c
      <4>1. Open(m)
        BY <1>5, <2>2, <3>2 DEF Open
      <4>2. Depth[m] <= Depth[n] /\ Depth[n] < Depth[c]
        BY <1>2, <1>6, <4>1, TreeFacts, ForestFacts
      <4>3. Depth[m] <= Depth[cur']
        BY <1>2, <1>4, <4>2, TreeFacts, ForestFacts
      <4>4. \A o \in Node : Open(o)' /\ Depth[o] = Depth[m] => o = m
        <5>1. ASSUME NEW o \in Node, Open(o)', Depth[o] = Depth[m] PROVE o = m
          <6>1. o # c
            BY <1>2, <4>2, <5>1, TreeFacts, ForestFacts
          <6>2. Open(o)
            BY <1>5, <5>1, <6>1 DEF Open
          <6> QED BY <4>1, <5>1, <6>2 DEF StackInv, StackIsPath
        <5> QED BY <5>1
      <4>5. CASE m \in Roots
        BY <4>3, <4>4, <4>5
      <4>6. CASE m \notin Roots
        <5>1. /\ Parent[m] # Top /\ Open(Parent[m])
              /\ Parent[m] # n /\ Parent[m] \in Node
              /\ pos[Parent[m]] \in 1 .. Len(Children[Parent[m]])
              /\ Children[Parent[m]][pos[Parent[m]]] = m
          BY <1>6, <4>1, <4>6
        <5>2. Open(Parent[m])' /\ pos'[Parent[m]] = pos[Parent[m]]
          BY <1>5, <5>1 DEF Open
        <5> QED BY <4>3, <4>4, <5>1, <5>2
      <4> QED BY <4>5, <4>6
    <3> QED BY <3>1, <3>2
  <2> QED BY <2>1, <2>2 DEF StackIsPath
<1>8. CalledInOrder'
  <2>1. ASSUME NEW m \in Node, status'[m] = "idle" PROVE pos'[m] = 0
    <3>1. m # c /\ status[m] = "idle" /\ m # n
      BY <1>1, <1>5, <2>1 DEF Open
    <3> QED BY <1>5, <3>1 DEF StackInv, CalledInOrder
  <2>2. ASSUME NEW m \in Node, status'[m] \in {"idle", "open"},
               NEW k \in 1 .. Len(Children[m])
        PROVE  /\ k < pos'[m] => status'[Children[m][k]] = GoesOn(Kind[m])
               /\ k = pos'[m] => status'[Children[m][k]] # "idle"
               /\ k > pos'[m] => status'[Children[m][k]] = "idle"
    <3>1. Children[m][k] \in Node /\ Parent[Children[m][k]] = m
      BY ForestFacts, TreeFacts
    <3>2. CASE m = n
      <4>1. Children[m][k] = c <=> k = pos[n] + 1
        BY <1>1, <3>2, TreeFacts DEF c
      <4>2. k < pos[n] => status[Children[n][k]] = GoesOn(Kind[n])
        BY <1>1, <3>2 DEF StackInv, CalledInOrder, Open
      <4>3. k > pos[n] => status[Children[n][k]] = "idle"
        BY <1>1, <3>2 DEF StackInv, CalledInOrder, Open
      <4>4. k = pos[n] => status[Children[n][k]] = GoesOn(Kind[n])
        BY <1>1, <3>2 DEF LastResult
      <4> QED BY <1>1, <1>5, <3>1, <3>2, <4>1, <4>2, <4>3, <4>4
    <3>3. CASE m # n
      <4>1. Children[m][k] # c
        BY <1>2, <3>1, <3>3
      <4>2. status'[Children[m][k]] = status[Children[m][k]] /\ pos'[m] = pos[m]
        BY <1>5, <3>1, <3>3, <4>1
      <4>3. status[m] \in {"idle", "open"}
        BY <1>3, <1>5, <2>2
      <4> QED BY <4>2, <4>3 DEF StackInv, CalledInOrder
    <3> QED BY <3>2, <3>3
  <2> QED BY <2>1, <2>2 DEF CalledInOrder
<1> QED BY <1>7, <1>8 DEF StackInv

LEMMA FinishStack ==
  ASSUME TypeInv, StackInv, NEW n \in Node, cur = n, NEW v \in Result,
         Finish(n, v), pos' = pos
  PROVE  StackInv'
<1>1. n # Top /\ Open(n)
  BY ForestFacts DEF StackInv, StackIsPath
<1>2. cur' = Parent[n] /\ status'[n] = v /\ v # "open" /\ v # "idle"
      /\ \A m \in Node : m # n => status'[m] = status[m]
  BY DEF Finish, TypeInv, TypeOK, Result
<1>3. Parent[n] # Top => /\ Parent[n] \in Node /\ Parent[n] # n
                        /\ Open(Parent[n])
                        /\ pos[Parent[n]] \in 1 .. Len(Children[Parent[n]])
                        /\ Children[Parent[n]][pos[Parent[n]]] = n
  BY <1>1, TreeFacts, ForestFacts DEF StackInv, StackIsPath, Scope
<1>4. StackIsPath'
  <2>1. cur' # Top => Open(cur)'
    BY <1>2, <1>3 DEF Open
  <2>2. ASSUME NEW m \in Node, Open(m)'
        PROVE  /\ Depth[m] <= Depth[cur']
               /\ \/ m \in Roots
                  \/ /\ Parent[m] # Top /\ Open(Parent[m])'
                     /\ pos'[Parent[m]] \in 1 .. Len(Children[Parent[m]])
                     /\ Children[Parent[m]][pos'[Parent[m]]] = m
               /\ \A o \in Node : Open(o)' /\ Depth[o] = Depth[m] => o = m
    <3>1. Open(m) /\ m # n
      BY <1>2, <2>2 DEF Open
    <3>2. Depth[m] <= Depth[n] /\ Depth[m] # Depth[n]
      BY <1>1, <3>1 DEF StackInv, StackIsPath
    <3>3. Depth[m] <= Depth[cur']
      BY <1>2, <3>2, TreeFacts, ForestFacts
    <3>4. \A o \in Node : Open(o)' /\ Depth[o] = Depth[m] => o = m
      BY <1>2, <3>1 DEF Open, StackInv, StackIsPath
    <3>5. CASE m \notin Roots
      <4>1. /\ Parent[m] # Top /\ Open(Parent[m]) /\ Parent[m] \in Node
            /\ pos[Parent[m]] \in 1 .. Len(Children[Parent[m]])
            /\ Children[Parent[m]][pos[Parent[m]]] = m
        BY <3>1, <3>5, ForestFacts DEF StackInv, StackIsPath, Scope
      <4>2. Parent[m] # n
        BY <3>2, TreeFacts, ForestFacts
      <4>3. Open(Parent[m])'
        BY <1>2, <4>1, <4>2 DEF Open
      <4> QED BY <3>3, <3>4, <4>1, <4>3
    <3> QED BY <3>3, <3>4, <3>5
  <2> QED BY <2>1, <2>2 DEF StackIsPath
<1>5. CalledInOrder'
  <2>1. ASSUME NEW m \in Node, status'[m] = "idle" PROVE pos'[m] = 0
    BY <1>2, <2>1 DEF StackInv, CalledInOrder
  <2>2. ASSUME NEW m \in Node, status'[m] \in {"idle", "open"},
               NEW k \in 1 .. Len(Children[m])
        PROVE  /\ k < pos'[m] => status'[Children[m][k]] = GoesOn(Kind[m])
               /\ k = pos'[m] => status'[Children[m][k]] # "idle"
               /\ k > pos'[m] => status'[Children[m][k]] = "idle"
    <3>1. Children[m][k] \in Node /\ Parent[Children[m][k]] = m
      BY ForestFacts, TreeFacts
    <3>2. status[m] \in {"idle", "open"} /\ m # n
      BY <1>2, <2>2
    <3>3. CASE Children[m][k] = n
      <4>1. m # Top /\ Children[m][pos[m]] = n /\ pos[m] \in 1 .. Len(Children[m])
        BY <1>3, <3>1, <3>3, ForestFacts
      <4>2. k = pos[m]
        BY <3>3, <4>1, TreeFacts
      <4>3. status'[Children[m][k]] # "idle"
        BY <1>2, <3>3
      <4> QED BY <4>1, <4>2, <4>3, ForestFacts
    <3>4. CASE Children[m][k] # n
      BY <1>2, <3>1, <3>2, <3>4 DEF StackInv, CalledInOrder
    <3> QED BY <3>3, <3>4
  <2> QED BY <2>1, <2>2 DEF CalledInOrder
<1> QED BY <1>4, <1>5 DEF StackInv

\* Starting the command of a leaf only sets its own position.
LEMMA CommandStack ==
  ASSUME TypeInv, StackInv, NEW n \in Node, cur = n, Kind[n] \in Leaves,
         pos' = [pos EXCEPT ![n] = 1], UNCHANGED <<cur, status>>
  PROVE  StackInv'
<1>1. n # Top /\ Open(n) /\ Len(Children[n]) = 0
  BY ForestFacts, ArityAssumption DEF StackInv, StackIsPath
<1>2. \A m \in Node : m # n => pos'[m] = pos[m]
  BY DEF TypeInv, TypeOK
<1>3. StackIsPath'
  <2>1. ASSUME NEW m \in Node, Open(m), m \notin Roots
        PROVE  Parent[m] \in Node /\ Parent[m] # n
    BY <1>1, <2>1, ForestFacts DEF StackInv, StackIsPath, Scope
  <2> QED BY <1>2, <2>1 DEF StackInv, StackIsPath, Open
<1>4. CalledInOrder'
  BY <1>1, <1>2 DEF StackInv, CalledInOrder, Open
<1> QED BY <1>3, <1>4 DEF StackInv

LEMMA SameStack ==
  ASSUME StackInv, UNCHANGED <<cur, status, pos>>
  PROVE  StackInv'
BY DEF StackInv, StackIsPath, CalledInOrder, Open

\* When a promise is about to return, the nested promise it called last has
\* ended: it is deeper than the deepest open one.
LEMMA LastHasEnded ==
  ASSUME TypeInv, StackInv, NEW n \in Node, cur = n, Kind[n] \notin Leaves, Decided(n)
  PROVE  LastResult(n) \in Result
<1> DEFINE c == Children[n][pos[n]]
<1>1. pos[n] \in 1 .. Len(Children[n]) /\ c \in Node /\ LastResult(n) = status[c]
      /\ status[c] \in {"idle", "open"} \union Result
  BY LastResultType
<1>2. Open(n) /\ Depth[c] = Depth[n] + 1
  <2>1. n # Top
    BY ForestFacts
  <2>2. Parent[c] = n
    BY <1>1, TreeFacts
  <2> QED BY <1>1, <2>1, <2>2, TreeFacts DEF StackInv, StackIsPath
<1>3. status[c] # "idle"
  BY <1>1, <1>2 DEF StackInv, CalledInOrder, Open
<1>4. status[c] # "open"
  BY <1>1, <1>2, TreeFacts, ForestFacts DEF StackInv, StackIsPath, Open
<1> QED BY <1>1, <1>3, <1>4

LEMMA VerdictIsResult ==
  ASSUME TypeInv, StackInv, NEW n \in Node, Return(n)
  PROVE  Verdict(n) \in Result
<1>1. LastResult(n) \in Result
  BY LastHasEnded DEF Return, Active
<1> QED BY <1>1 DEF Verdict, Result

\* The three ways a step of the evaluator can affect the stack, besides a
\* call: a promise ends, a command starts, or nothing happens to it.
LEMMA StackEffect ==
  ASSUME TypeInv, StackInv, NEW n \in Node, EvalStep(n), ~ Call(n)
  PROVE  /\ cur = n
         /\ \/ (\E v \in Result : Finish(n, v)) /\ pos' = pos
            \/ /\ Kind[n] \in Leaves /\ pos' = [pos EXCEPT ![n] = 1]
               /\ UNCHANGED <<cur, status>>
            \/ UNCHANGED <<cur, status, pos>>
<1>1. CASE CallFails(n)
  BY <1>1 DEF CallFails, Active, Abort, tree
<1>2. CASE Return(n)
  BY <1>2, VerdictIsResult DEF Return, Active
<1>3. CASE SetVar(n)
  <2>1. "met" \in Result
    BY DEF Result
  <2> QED BY <1>3, <2>1 DEF SetVar, Active, Bind, Abort, tree
<1>4. CASE ReadVar(n)
  <2>1. LastResult(n) \in Result
    BY <1>4, LastHasEnded DEF ReadVar, Active, Leaves
  <2> QED BY <1>4, <2>1 DEF ReadVar, Active, Bind, Abort, tree
<1>5. CASE StartExec(n)
  BY <1>5 DEF StartExec, Active, Leaves
<1>6. CASE EndExec(n)
  BY <1>6 DEF EndExec, Active
<1>7. CASE StartPipe(n)
  BY <1>7 DEF StartPipe, Active, Leaves
<1>8. CASE EndPipe(n)
  BY <1>8 DEF EndPipe, Active
<1>9. CASE Log(n)
  BY <1>9 DEF Log, Active, Result
<1>10. CASE Template(n)
  BY <1>10 DEF Template, Active
<1>11. CASE Restart(n)
  BY <1>11 DEF Restart, Active, Abort, tree, Result
<1> QED BY <1>1, <1>2, <1>3, <1>4, <1>5, <1>6, <1>7, <1>8, <1>9, <1>10, <1>11
        DEF EvalStep

LEMMA StackStep == TypeInv /\ StackInv /\ [Next]_vars => StackInv'
<1> SUFFICES ASSUME TypeInv, StackInv, [Next]_vars PROVE StackInv'
  OBVIOUS
<1>1. ASSUME NEW r \in Roots, Start(r) PROVE StackInv'
  BY <1>1, StartStack
<1>2. ASSUME NEW n \in Node, EvalStep(n) PROVE StackInv'
  BY <1>2, CallStack, StackEffect, FinishStack, CommandStack, SameStack
<1>3. ASSUME NEW n \in Node, LateOutput(n) PROVE StackInv'
  BY <1>3, SameStack DEF LateOutput, tree
<1>4. CASE Report
  BY <1>4, SameStack DEF Report, tree
<1>5. CASE UNCHANGED vars
  BY <1>5, SameStack DEF vars
<1> QED BY <1>1, <1>2, <1>3, <1>4, <1>5 DEF Next

LEMMA InitStack == Init => StackInv
<1> SUFFICES ASSUME Init PROVE StackInv
  OBVIOUS
<1> QED BY ForestFacts DEF Init, StackInv, StackIsPath, CalledInOrder, Open

LEMMA StackInvariant == Spec => [](TypeInv /\ StackInv)
<1>1. Init => TypeInv /\ StackInv
  BY InitType, InitStack
<1>2. TypeInv /\ StackInv /\ [Next]_vars => (TypeInv /\ StackInv)'
  BY TypeStep, StackStep
<1> QED BY <1>1, <1>2, PTL DEF Spec

\* The open promises always form one path that ends in cur: evaluation is
\* strictly depth-first, in every interleaving with late output and panics.
THEOREM EvaluationIsDepthFirst == Spec => []StackIsPath
<1>1. StackInv => StackIsPath
  BY DEF StackInv
<1> QED BY <1>1, StackInvariant, PTL

\* Nested promises are called in order and the rules of (and) and (or) stop
\* the loop: no promise is evaluated that the results so far rule out.
THEOREM EvaluationShortCircuits == Spec => []CalledInOrder
<1>1. StackInv => CalledInOrder
  BY DEF StackInv
<1> QED BY <1>1, StackInvariant, PTL

(***************************************************************************)
(* The scopes of variables: ScopesNest and ScopeExact.                     *)
(***************************************************************************)
ScopeInv == ScopesNest /\ ScopeExact
FullInv  == TypeInv /\ StackInv /\ ScopeInv

\* Apart from a call, a step of the evaluator changes no context, and no map
\* except for binding one variable, that is not yet bound to anything else,
\* in the map in scope.
BindsOne(n) ==
  \E value \in Value :
    /\ Kind[n] \in {"setvar", "readvar"}
    /\ Bound(n) \in {Unset, value}
    /\ dict' = [dict EXCEPT ![ctx[n].vars] =
                  [dict[ctx[n].vars] EXCEPT ![VarName[n]] = value]]
    /\ status'[n] \in Result

LEMMA DictEffect ==
  ASSUME TypeInv, StackInv, NEW n \in Node, EvalStep(n), ~ Call(n)
  PROVE  ctx' = ctx /\ (dict' = dict \/ BindsOne(n))
<1>1. ASSUME NEW value \in Value, NEW v \in Result, Bind(n, value, v),
             Kind[n] \in {"setvar", "readvar"}
      PROVE  ctx' = ctx /\ (dict' = dict \/ BindsOne(n))
  <2>1. CASE Abort("redefined")
    BY <2>1 DEF Abort, tree, data
  <2>2. CASE /\ Bound(n) \in {Unset, value}
             /\ dict' = [dict EXCEPT ![ctx[n].vars][VarName[n]] = value]
             /\ Finish(n, v)
             /\ UNCHANGED ctx
    <3>1. status'[n] = v
      BY <2>2 DEF Finish, TypeInv, TypeOK
    <3> QED BY <1>1, <2>2, <3>1 DEF BindsOne
  <2> QED BY <1>1, <2>1, <2>2 DEF Bind
<1>2. CASE SetVar(n)
  <2>1. Params[n][1] \in Getter
    <3>1. Params[n] \in Seq(Getter) /\ Len(Params[n]) = 1
      BY <1>2, DataAssumption DEF SetVar
    <3> QED BY <3>1, ElementOfSeq
  <2>2. ctx[n].args \in Seq(Value) /\ dict[ctx[n].vars] \in Dict
    BY DEF TypeInv, TypeOK, Context
  <2>3. TrimSpace(GetValue(Params[n][1], ctx[n].args, dict[ctx[n].vars])) \in Value
    BY <2>1, <2>2, GetValueType, TrimSpaceType
  <2> QED BY <1>1, <1>2, <2>3 DEF SetVar, Result
<1>3. CASE ReadVar(n)
  <2>1. TrimSpace(stdout) \in Value
    BY TrimSpaceType DEF TypeInv, TypeOK
  <2>2. LastResult(n) \in Result
    BY <1>3, LastHasEnded DEF ReadVar, Active, Leaves
  <2> QED BY <1>1, <1>3, <2>1, <2>2 DEF ReadVar
<1>4. CASE CallFails(n) \/ Restart(n)
  BY <1>4 DEF CallFails, Restart, Abort, tree, data
<1>5. CASE StartExec(n) \/ EndExec(n) \/ StartPipe(n) \/ EndPipe(n)
  BY <1>5 DEF StartExec, EndExec, StartPipe, EndPipe, data
<1>6. CASE Return(n) \/ Log(n) \/ Template(n)
  BY <1>6 DEF Return, Log, Template, data
<1> QED BY <1>2, <1>3, <1>4, <1>5, <1>6 DEF EvalStep

\* Apart from a call, a step of the evaluator opens no promise, and only
\* moves positions up.
LEMMA StatusEffect ==
  ASSUME TypeInv, StackInv, NEW n \in Node, EvalStep(n), ~ Call(n)
  PROVE  /\ cur = n /\ Open(n)
         /\ \A m \in Node : Open(m)' => Open(m)
         /\ \A m \in Node : pos[m] > 0 => pos'[m] > 0
         /\ \A m \in Node : pos'[m] = 0 => pos[m] = 0
         /\ \A m \in Node : Kind[m] = "named" => pos'[m] = pos[m]
         /\ \A m \in Node : status[m] \in Result => status'[m] \in Result
<1>1. cur = n /\ Open(n)
  BY StackEffect, ForestFacts DEF StackInv, StackIsPath
<1>2. \A m \in Node : pos[m] \in Nat
  BY DEF TypeInv, TypeOK
<1>3. CASE (\E v \in Result : Finish(n, v)) /\ pos' = pos
  BY <1>1, <1>3 DEF Finish, Open, TypeInv, TypeOK, Result
<1>4. CASE /\ Kind[n] \in Leaves /\ pos' = [pos EXCEPT ![n] = 1]
           /\ UNCHANGED <<cur, status>>
  <2>1. Kind[n] # "named"
    BY <1>4 DEF Leaves
  <2>2. pos'[n] = 1 /\ \A m \in Node : m # n => pos'[m] = pos[m]
    BY <1>4 DEF TypeInv, TypeOK
  <2> QED BY <1>1, <1>2, <1>4, <2>1, <2>2 DEF Open
<1>5. CASE UNCHANGED <<cur, status, pos>>
  BY <1>1, <1>5 DEF Open
<1> QED BY <1>3, <1>4, <1>5, StackEffect

\* The map in scope at cur is none of those the open named promises around
\* it were called with.
LEMMA ScopesApart ==
  ASSUME TypeInv, StackInv, ScopesNest, NEW n \in Node, cur = n, Open(n),
         NEW m \in Node, Open(m), Kind[m] = "named"
  PROVE  /\ ctx[m].vars # n
         /\ m # n => ctx[n].vars # ctx[m].vars
<1>1. Depth[m] <= Depth[n] /\ (m # n => Depth[m] # Depth[n])
  BY DEF StackInv, StackIsPath
<1>2. ctx[m].vars \in Scope /\ ctx[n].vars \in Scope /\ m \in Scope /\ n \in Scope
  BY ForestFacts DEF TypeInv, TypeOK, Context
<1>3. Depth[ctx[m].vars] < Depth[m]
  BY DEF ScopesNest
<1>4. Depth[m] \in Nat /\ Depth[n] \in Nat /\ Depth[ctx[m].vars] \in Nat
      /\ Depth[ctx[n].vars] \in Nat
  BY <1>2, TreeFacts
<1>5. m # n => Depth[ctx[n].vars] >= Depth[m]
  BY <1>1, <1>4 DEF ScopesNest
<1> QED BY <1>1, <1>3, <1>4, <1>5

\* What binding one variable does to the maps.
LEMMA BindsOneEffect ==
  ASSUME TypeInv, NEW n \in Node, BindsOne(n)
  PROVE  /\ \A s \in Scope : s # ctx[n].vars => dict'[s] = dict[s]
         /\ \A x \in Var : x # VarName[n] =>
              dict'[ctx[n].vars][x] = dict[ctx[n].vars][x]
         /\ dict'[ctx[n].vars][VarName[n]] # Unset
<1>1. PICK value \in Value :
        /\ Bound(n) \in {Unset, value}
        /\ dict' = [dict EXCEPT ![ctx[n].vars] =
                      [dict[ctx[n].vars] EXCEPT ![VarName[n]] = value]]
  BY DEF BindsOne
<1>2. ctx[n].vars \in Scope /\ VarName[n] \in Var /\ dict[ctx[n].vars] \in Dict
  BY DataAssumption DEF TypeInv, TypeOK, Context
<1> QED BY <1>1, <1>2, DataAssumption DEF TypeInv, TypeOK, Dict

LEMMA StartScope ==
  ASSUME TypeInv, NEW r \in Roots, Start(r)
  PROVE  ScopeInv'
<1>1. /\ \A n \in Node : status'[n] = "open" => n = r
      /\ \A n \in Node : ctx'[n].vars = Top /\ pos'[n] = 0 /\ dict'[n] = NoVars
  BY ForestFacts DEF Start, FreshStack, TopContext
<1>2. \A n \in Node : Depth[n] > Depth[Top] /\ Depth[n] \in Nat
  BY TreeFacts, ForestFacts
<1>3. ScopesNest'
  BY <1>1, <1>2, ForestFacts DEF ScopesNest, Open
<1>4. ScopeExact'
  BY <1>1 DEF ScopeExact
<1> QED BY <1>3, <1>4 DEF ScopeInv

LEMMA EffectScope ==
  ASSUME FullInv, NEW n \in Node, EvalStep(n), ~ Call(n)
  PROVE  ScopeInv'
<1>1. /\ cur = n /\ Open(n)
      /\ \A m \in Node : Open(m)' => Open(m)
      /\ \A m \in Node : pos[m] > 0 => pos'[m] > 0
      /\ \A m \in Node : pos'[m] = 0 => pos[m] = 0
      /\ \A m \in Node : Kind[m] = "named" => pos'[m] = pos[m]
      /\ \A m \in Node : status[m] \in Result => status'[m] \in Result
  BY StatusEffect DEF FullInv
<1>2. ctx' = ctx /\ (dict' = dict \/ BindsOne(n))
  BY DictEffect DEF FullInv
<1>3. \A m \in Node : ctx[m].vars \in Scope /\ m \in Scope
  BY ForestFacts DEF FullInv, TypeInv, TypeOK, Context
<1>4. ScopesNest'
  <2>1. ASSUME NEW m \in Node, pos'[m] = 0 PROVE dict'[m] = NoVars
    <3>1. pos[m] = 0 /\ dict[m] = NoVars
      BY <1>1, <2>1 DEF FullInv, ScopeInv, ScopesNest
    <3>2. ctx[n].vars # m
      BY <1>1, <3>1, ForestFacts DEF FullInv, ScopeInv, ScopesNest
    <3> QED BY <1>2, <1>3, <3>1, <3>2, BindsOneEffect DEF FullInv
  <2>2. ASSUME NEW m \in Node, Open(m)'
        PROVE  /\ Depth[ctx'[m].vars] < Depth[m]
               /\ ctx'[m].vars # Top => pos'[ctx'[m].vars] > 0
               /\ \A o \in Node : Open(o)' /\ Kind[o] = "named" /\ Depth[o] < Depth[m]
                                  => Depth[ctx'[m].vars] >= Depth[o]
    <3>1. Open(m)
      BY <1>1, <2>2
    <3>2. ctx[m].vars # Top => ctx[m].vars \in Node
      BY <1>3 DEF Scope
    <3> QED BY <1>1, <1>2, <3>1, <3>2 DEF FullInv, ScopeInv, ScopesNest
  <2> QED BY <2>1, <2>2 DEF ScopesNest
<1>5. ScopeExact'
  <2>1. ASSUME NEW m \in Node, Open(m)', Kind[m] = "named", pos'[m] > 0, NEW x \in Var
        PROVE  \/ dict'[m][x] = dict'[ctx'[m].vars][x]
               \/ dict'[m][x] # Unset /\ BoundIn(m, x)'
    <3>1. Open(m) /\ pos[m] > 0
      BY <1>1, <2>1
    <3>2. \/ dict[m][x] = dict[ctx[m].vars][x]
          \/ dict[m][x] # Unset /\ BoundIn(m, x)
      BY <2>1, <3>1 DEF FullInv, ScopeInv, ScopeExact
    <3>3. BoundIn(m, x) => BoundIn(m, x)'
      BY <1>1, <1>2 DEF BoundIn
    <3>4. CASE dict' = dict
      BY <1>2, <3>2, <3>3, <3>4
    <3>5. CASE BindsOne(n)
      <4>1. m # n
        BY <2>1, <3>5 DEF BindsOne
      <4>2. ctx[n].vars # ctx[m].vars
        BY <1>1, <2>1, <3>1, <4>1, ScopesApart DEF FullInv, ScopeInv
      <4>3. dict'[ctx[m].vars] = dict[ctx[m].vars]
        BY <1>3, <3>5, <4>2, BindsOneEffect DEF FullInv
      <4>4. CASE m = ctx[n].vars /\ x = VarName[n]
        <5>1. dict'[m][x] # Unset
          BY <3>5, <4>4, BindsOneEffect DEF FullInv
        <5>2. BoundIn(m, x)'
          BY <1>2, <3>5, <4>4 DEF BoundIn, BindsOne
        <5> QED BY <5>1, <5>2
      <4>5. CASE ~ (m = ctx[n].vars /\ x = VarName[n])
        <5>1. dict'[m][x] = dict[m][x]
          BY <1>3, <3>5, <4>5, BindsOneEffect DEF FullInv
        <5> QED BY <1>2, <3>2, <3>3, <4>3, <5>1
      <4> QED BY <4>4, <4>5
    <3> QED BY <1>2, <3>4, <3>5
  <2> QED BY <2>1 DEF ScopeExact
<1> QED BY <1>4, <1>5 DEF ScopeInv

\* The facts about a call that the scopes depend on.
LEMMA CallEffect ==
  ASSUME TypeInv, StackInv, NEW n \in Node, Call(n)
  PROVE  LET c == Children[n][pos[n] + 1] IN
         /\ cur = n /\ Open(n) /\ c \in Node /\ c # n
         /\ Depth[c] = Depth[n] + 1
         /\ ~ Open(c) /\ pos[c] = 0
         /\ status[c] = "idle" /\ status' = [status EXCEPT ![c] = "open"]
         /\ \A m \in Node : Open(m)' => Open(m) \/ m = c
         /\ pos'[n] > 0 /\ pos'[c] = 0
         /\ \A m \in Node : m # n => pos'[m] = pos[m]
         /\ ctx'[c] = ChildContext(n)
         /\ \A m \in Node : m # c => ctx'[m] = ctx[m]
         /\ dict' = CalleeDict(n)
         /\ Kind[n] = "named" => pos[n] = 0
<1> DEFINE c == Children[n][pos[n] + 1]
<1>1. cur = n /\ Open(n) /\ pos[n] \in Nat /\ pos[n] < Len(Children[n])
  BY ForestFacts DEF Call, Active, CallsNext, TypeInv, TypeOK, StackInv, StackIsPath
<1>2. c \in Node /\ Parent[c] = n
  <2>1. pos[n] + 1 \in 1 .. Len(Children[n])
    BY <1>1, ForestFacts
  <2> QED BY <2>1, ForestFacts, TreeFacts
<1>3. Depth[c] = Depth[n] + 1 /\ c # n
  BY <1>2, TreeFacts
<1>4. status[c] = "idle" /\ pos[c] = 0
  BY <1>1, <1>2, ForestFacts DEF StackInv, CalledInOrder, Open
<1>5. /\ status' = [status EXCEPT ![c] = "open"]
      /\ pos' = [pos EXCEPT ![n] = pos[n] + 1]
      /\ ctx' = [ctx EXCEPT ![c] = ChildContext(n)]
      /\ dict' = CalleeDict(n)
  BY DEF Call
<1>6. Kind[n] = "named" => pos[n] = 0
  <2> SUFFICES ASSUME Kind[n] = "named" PROVE pos[n] = 0
    OBVIOUS
  <2>1. Len(Children[n]) = 1
    BY ArityAssumption DEF Unary
  <2>2. pos[n] \in Nat /\ pos[n] < Len(Children[n])
    BY <1>1
  <2> QED BY <2>1, <2>2
<1> HIDE DEF c
<1>7. /\ ~ Open(c) /\ pos[c] = 0
      /\ \A m \in Node : Open(m)' => Open(m) \/ m = c
      /\ pos'[n] > 0 /\ pos'[c] = 0
      /\ \A m \in Node : m # n => pos'[m] = pos[m]
  BY <1>1, <1>2, <1>3, <1>4, <1>5 DEF TypeInv, TypeOK, Open
<1>8. /\ ctx'[c] = ChildContext(n)
      /\ \A m \in Node : m # c => ctx'[m] = ctx[m]
  BY <1>2, <1>5 DEF TypeInv, TypeOK
<1> QED BY <1>1, <1>2, <1>3, <1>4, <1>5, <1>6, <1>7, <1>8 DEF c

\* Only a named promise calls with a map of its own.
LEMMA ChildVars ==
  ASSUME TypeInv, NEW n \in Node
  PROVE  ChildContext(n).vars = IF Kind[n] = "named" THEN n ELSE ctx[n].vars
<1>1. ctx[n] \in Context
  BY DEF TypeInv, TypeOK
<1> QED BY <1>1 DEF ChildContext, BodyContext, DirContext, UserContext, EnvContext,
                TreeContext, Context

LEMMA CalleeDictEffect ==
  ASSUME TypeInv, NEW n \in Node
  PROVE  /\ \A s \in Scope : s # n => CalleeDict(n)[s] = dict[s]
         /\ Kind[n] = "named" => CalleeDict(n)[n] = dict[ctx[n].vars]
         /\ Kind[n] # "named" => CalleeDict(n) = dict
BY ForestFacts DEF CalleeDict, TypeInv, TypeOK

LEMMA CallScope ==
  ASSUME FullInv, NEW n \in Node, Call(n)
  PROVE  ScopeInv'
<1> DEFINE c == Children[n][pos[n] + 1]
<1>1. /\ cur = n /\ Open(n) /\ c \in Node /\ c # n
      /\ Depth[c] = Depth[n] + 1
      /\ ~ Open(c) /\ pos[c] = 0
      /\ \A m \in Node : Open(m)' => Open(m) \/ m = c
      /\ pos'[n] > 0 /\ pos'[c] = 0
      /\ \A m \in Node : m # n => pos'[m] = pos[m]
      /\ ctx'[c] = ChildContext(n)
      /\ \A m \in Node : m # c => ctx'[m] = ctx[m]
      /\ dict' = CalleeDict(n)
      /\ Kind[n] = "named" => pos[n] = 0
  BY CallEffect DEF FullInv
<1> HIDE DEF c
<1>2. ctx'[c].vars = IF Kind[n] = "named" THEN n ELSE ctx[n].vars
  BY <1>1, ChildVars DEF FullInv
<1>3. /\ \A s \in Scope : s # n => dict'[s] = dict[s]
      /\ Kind[n] = "named" => dict'[n] = dict[ctx[n].vars]
      /\ Kind[n] # "named" => dict' = dict
  BY <1>1, CalleeDictEffect DEF FullInv
<1>4. \A m \in Node : /\ ctx[m].vars \in Scope /\ m \in Scope /\ Depth[m] \in Nat
                      /\ Depth[ctx[m].vars] \in Nat
                      /\ (ctx[m].vars # Top => ctx[m].vars \in Node)
  BY ForestFacts, TreeFacts DEF FullInv, TypeInv, TypeOK, Context, Scope
<1>5. \A m \in Node : Open(m) => Depth[m] <= Depth[n] /\ (Depth[m] = Depth[n] => m = n)
  BY <1>1 DEF FullInv, StackInv, StackIsPath
<1>8. status[c] = "idle" /\ status' = [status EXCEPT ![c] = "open"]
  BY CallEffect DEF FullInv, c
<1>6. ScopesNest'
  <2>1. ASSUME NEW m \in Node, pos'[m] = 0 PROVE dict'[m] = NoVars
    <3>1. m # n
      BY <1>1, <2>1
    <3> QED BY <1>1, <1>3, <1>4, <2>1, <3>1 DEF FullInv, ScopeInv, ScopesNest
  <2>2. ASSUME NEW m \in Node, Open(m)', m # c
        PROVE  /\ Depth[ctx'[m].vars] < Depth[m]
               /\ ctx'[m].vars # Top => pos'[ctx'[m].vars] > 0
               /\ \A o \in Node : Open(o)' /\ Kind[o] = "named" /\ Depth[o] < Depth[m]
                                  => Depth[ctx'[m].vars] >= Depth[o]
    <3>1. Open(m) /\ ctx'[m] = ctx[m]
      BY <1>1, <2>2
    <3>2. ctx[m].vars # Top => pos'[ctx[m].vars] > 0
      BY <1>1, <1>4, <3>1 DEF FullInv, ScopeInv, ScopesNest
    <3>3. ~ Depth[c] < Depth[m]
      BY <1>1, <1>4, <1>5, <3>1
    <3>4. \A o \in Node : Open(o)' /\ Kind[o] = "named" /\ Depth[o] < Depth[m]
                         => Depth[ctx[m].vars] >= Depth[o]
      BY <1>1, <3>1, <3>3 DEF FullInv, ScopeInv, ScopesNest
    <3> QED BY <3>1, <3>2, <3>4 DEF FullInv, ScopeInv, ScopesNest
  <2>3. /\ Depth[ctx'[c].vars] < Depth[c]
        /\ ctx'[c].vars # Top => pos'[ctx'[c].vars] > 0
        /\ \A o \in Node : Open(o)' /\ Kind[o] = "named" /\ Depth[o] < Depth[c]
                           => Depth[ctx'[c].vars] >= Depth[o]
    <3>1. CASE Kind[n] = "named"
      <4>1. ctx'[c].vars = n
        BY <1>2, <3>1
      <4>2. \A o \in Node : Open(o)' /\ Depth[o] < Depth[c] => Depth[n] >= Depth[o]
        BY <1>1, <1>4
      <4> QED BY <1>1, <1>4, <4>1, <4>2
    <3>2. CASE Kind[n] # "named"
      <4>1. ctx'[c].vars = ctx[n].vars
        BY <1>2, <3>2
      <4>2. Depth[ctx[n].vars] < Depth[n]
            /\ (ctx[n].vars # Top => pos[ctx[n].vars] > 0)
        BY <1>1 DEF FullInv, ScopeInv, ScopesNest
      <4>3. ctx[n].vars # Top => pos'[ctx[n].vars] > 0
        BY <1>1, <1>4, <4>2
      <4>4. ASSUME NEW o \in Node, Open(o)', Kind[o] = "named", Depth[o] < Depth[c]
            PROVE  Depth[ctx[n].vars] >= Depth[o]
        <5>1. Open(o) /\ o # n
          BY <1>1, <1>4, <3>2, <4>4
        <5>2. Depth[o] < Depth[n]
          BY <1>4, <1>5, <5>1
        <5> QED BY <1>1, <4>4, <5>1, <5>2 DEF FullInv, ScopeInv, ScopesNest
      <4> QED BY <1>1, <1>4, <4>1, <4>2, <4>3, <4>4
    <3> QED BY <3>1, <3>2
  <2>4. \A m \in Node : Open(m)' =>
          /\ Depth[ctx'[m].vars] < Depth[m]
          /\ ctx'[m].vars # Top => pos'[ctx'[m].vars] > 0
          /\ \A o \in Node : Open(o)' /\ Kind[o] = "named" /\ Depth[o] < Depth[m]
                             => Depth[ctx'[m].vars] >= Depth[o]
    BY <1>1, <2>2, <2>3
  <2> QED BY <2>1, <2>4 DEF ScopesNest
<1>7. ScopeExact'
  <2>1. ASSUME NEW m \in Node, Open(m)', Kind[m] = "named", pos'[m] > 0, NEW x \in Var
        PROVE  \/ dict'[m][x] = dict'[ctx'[m].vars][x]
               \/ dict'[m][x] # Unset /\ BoundIn(m, x)'
    <3>1. m # c /\ Open(m) /\ ctx'[m] = ctx[m]
      BY <1>1, <2>1
    <3>2. ctx[m].vars # n
      BY <1>1, <2>1, <3>1, ScopesApart DEF FullInv, ScopeInv
    <3>3. dict'[ctx[m].vars] = dict[ctx[m].vars]
      BY <1>3, <1>4, <3>2
    <3>4. CASE m = n
      BY <1>3, <2>1, <3>1, <3>3, <3>4
    <3>5. CASE m # n
      <4>1. pos[m] > 0 /\ dict'[m] = dict[m]
        BY <1>1, <1>3, <1>4, <2>1, <3>5
      <4>2. \/ dict[m][x] = dict[ctx[m].vars][x]
            \/ dict[m][x] # Unset /\ BoundIn(m, x)
        BY <2>1, <3>1, <4>1 DEF FullInv, ScopeInv, ScopeExact
      <4>3. BoundIn(m, x) => BoundIn(m, x)'
        <5>1. ASSUME NEW o \in Node, status[o] \in Result
              PROVE  ctx'[o] = ctx[o] /\ status'[o] \in Result
          BY <1>1, <1>8, <5>1 DEF Result, FullInv, TypeInv, TypeOK
        <5> QED BY <5>1 DEF BoundIn
      <4> QED BY <3>1, <3>3, <4>1, <4>2, <4>3
    <3> QED BY <3>4, <3>5
  <2> QED BY <2>1 DEF ScopeExact
<1> QED BY <1>6, <1>7 DEF ScopeInv

LEMMA SameScope ==
  ASSUME ScopeInv, UNCHANGED <<status, pos, ctx, dict>>
  PROVE  ScopeInv'
BY DEF ScopeInv, ScopesNest, ScopeExact, BoundIn, Open

LEMMA FullStep == FullInv /\ [Next]_vars => FullInv'
<1> SUFFICES ASSUME FullInv, [Next]_vars PROVE FullInv'
  OBVIOUS
<1>1. TypeInv' /\ StackInv'
  BY TypeStep, StackStep DEF FullInv
<1>2. ASSUME NEW r \in Roots, Start(r) PROVE ScopeInv'
  BY <1>2, StartScope DEF FullInv
<1>3. ASSUME NEW n \in Node, EvalStep(n) PROVE ScopeInv'
  BY <1>3, CallScope, EffectScope
<1>4. ASSUME NEW n \in Node, LateOutput(n) PROVE ScopeInv'
  BY <1>4, SameScope DEF LateOutput, tree, data, FullInv
<1>5. CASE Report
  BY <1>1, <1>5, SameScope DEF Report, tree, data, FullInv
<1>6. CASE UNCHANGED vars
  BY <1>1, <1>6, SameScope DEF vars, FullInv
<1> QED BY <1>1, <1>2, <1>3, <1>4, <1>5, <1>6 DEF Next, FullInv

LEMMA InitFull == Init => FullInv
<1> SUFFICES ASSUME Init PROVE FullInv
  OBVIOUS
<1>1. \A n \in Node : ~ Open(n) /\ dict[n] = NoVars
  BY ForestFacts DEF Init, Open
<1>2. ScopeInv
  BY <1>1 DEF ScopeInv, ScopesNest, ScopeExact
<1> QED BY <1>2, InitType, InitStack DEF FullInv

\* The inductive invariant of the evaluator.
THEOREM EvaluatorInvariant == Spec => []FullInv
<1> QED BY InitFull, FullStep, PTL DEF Spec

\* An open promise never owns or outlives the map it binds variables in, and
\* below a named promise nothing refers to a map from above it.
THEOREM ScopesAreNested == Spec => []ScopesNest
<1>1. FullInv => ScopesNest
  BY DEF FullInv, ScopeInv
<1> QED BY <1>1, EvaluatorInvariant, PTL

\* The body of a named promise differs from its caller in no variable but
\* those it has bound itself.
THEOREM ScopesAreExact == Spec => []ScopeExact
<1>1. FullInv => ScopeExact
  BY DEF FullInv, ScopeInv
<1> QED BY <1>1, EvaluatorInvariant, PTL

\* Nothing that happens in the body of a named promise changes the variables
\* of its caller.
THEOREM CallersScopeIsFrozen == Spec => CallerScopeFrozen
<1> DEFINE Frozen == \A m \in Node :
             outcome = "running" /\ Open(m) /\ Kind[m] = "named"
               => dict'[ctx[m].vars] = dict[ctx[m].vars]
<1>1. FullInv /\ [Next]_vars => [Frozen]_vars
  <2> SUFFICES ASSUME FullInv, Next, NEW m \in Node, outcome = "running",
                      Open(m), Kind[m] = "named"
               PROVE  dict'[ctx[m].vars] = dict[ctx[m].vars]
    OBVIOUS
  <2>1. ctx[m].vars \in Scope
    BY DEF FullInv, TypeInv, TypeOK, Context
  <2>2. ASSUME NEW n \in Node, Call(n) PROVE dict'[ctx[m].vars] = dict[ctx[m].vars]
    <3>1. cur = n /\ Open(n) /\ dict' = CalleeDict(n)
      BY <2>2, CallEffect DEF FullInv
    <3>2. ctx[m].vars # n
      BY <3>1, ScopesApart DEF FullInv, ScopeInv
    <3> QED BY <2>1, <3>1, <3>2, CalleeDictEffect DEF FullInv
  <2>3. ASSUME NEW n \in Node, EvalStep(n), ~ Call(n)
        PROVE  dict'[ctx[m].vars] = dict[ctx[m].vars]
    <3>1. cur = n /\ Open(n) /\ (dict' = dict \/ BindsOne(n))
      BY <2>3, StatusEffect, DictEffect DEF FullInv
    <3>2. CASE BindsOne(n)
      <4>1. m # n
        BY <3>2 DEF BindsOne
      <4>2. ctx[n].vars # ctx[m].vars
        BY <3>1, <4>1, ScopesApart DEF FullInv, ScopeInv
      <4> QED BY <2>1, <3>2, <4>2, BindsOneEffect DEF FullInv
    <3> QED BY <3>1, <3>2
  <2>4. ASSUME NEW n \in Node, LateOutput(n) PROVE dict' = dict
    BY <2>4 DEF LateOutput, data
  <2>5. CASE Report
    BY <2>5 DEF Report, data
  <2>6. \A r \in Roots : ~ Start(r)
    BY DEF Start
  <2> QED BY <2>2, <2>3, <2>4, <2>5, <2>6 DEF Next
<1> QED BY <1>1, EvaluatorInvariant, PTL DEF CallerScopeFrozen, Spec

(***************************************************************************)
(* The contexts: ContextExact.  What it compares with is defined along the *)
(* parents of a promise, so the equations of these definitions come first; *)
(* a property of all promises is proved from a least deep exception.       *)
(***************************************************************************)

\* A set of numbers that is not empty has a least one.  (Induction: the
\* theorems of the library take the induction hypothesis as an operator,
\* which the provers cannot instantiate; a least counterexample is a value.)
LEMMA LeastNumber ==
  ASSUME NEW T \in SUBSET Nat, T # {}
  PROVE  \E m \in T : \A k \in T : m <= k
<1> DEFINE R == {ss \in Nat \X Nat : ss[1] < ss[2]}
<1>1. IsWellFoundedOn(R, Nat)
  BY NatLessThanWellFounded DEF OpToRel
<1> HIDE DEF R
<1>2. PICK m \in T : \A k \in T : ~ (<<k, m>> \in R)
  BY <1>1, WFMin
<1>3. \A k \in T : k \in Nat /\ m \in Nat /\ ~ (k < m)
  BY <1>2 DEF R
<1> QED BY <1>3

\* A value can be defined for every promise from that of its parent.
LEMMA AlongParents ==
  ASSUME NEW V, NEW base \in V, NEW G \in [Node -> [V -> V]]
  PROVE  \E f \in [Scope -> V] :
           f[Top] = base /\ \A n \in Node : f[n] = G[n][f[Parent[n]]]
<1> DEFINE Upto(k) == {n \in Scope : Depth[n] <= k}
           Good(f, k) == /\ f \in [Upto(k) -> V]
                         /\ f[Top] = base
                         /\ \A n \in Node : n \in Upto(k) => f[n] = G[n][f[Parent[n]]]
<1>0. /\ Top \in Scope /\ Top \notin Node /\ Depth[Top] = 0
      /\ \A n \in Scope : Depth[n] \in Nat /\ (n # Top => n \in Node)
      /\ \A n \in Node : n \in Scope /\ Parent[n] \in Scope /\ Depth[n] = Depth[Parent[n]] + 1
  BY ForestFacts, TreeFacts DEF Scope
<1>1. \A k \in Nat : \E f : Good(f, k)
  <2> SUFFICES ASSUME NEW j \in Nat, ~ \E f : Good(f, j)
               PROVE  FALSE
    OBVIOUS
  <2> DEFINE Bad == {k \in Nat : ~ \E f : Good(f, k)}
  <2>1. PICK k \in Bad : \A i \in Bad : k <= i
    <3> HIDE DEF Good
    <3>1. Bad \in SUBSET Nat /\ j \in Bad
      OBVIOUS
    <3> HIDE DEF Bad
    <3> QED BY <3>1, LeastNumber
  <2>2. CASE k = 0
    <3> DEFINE f == [n \in Upto(0) |-> base]
    <3>1. f \in [Upto(0) -> V] /\ f[Top] = base
      BY <1>0
    <3>2. \A n \in Node : n \notin Upto(0)
      BY <1>0
    <3>3. Good(f, 0)
      BY <3>1, <3>2
    <3> QED BY <2>1, <2>2, <3>3
  <2>3. CASE k # 0
    <3>1. k \in Nat /\ k - 1 \in Nat
      BY <2>1, <2>3
    <3>2. k - 1 \notin Bad
      <4> HIDE DEF Bad
      <4> QED BY <2>1, <3>1
    <3>3. PICK f : Good(f, k - 1)
      BY <3>1, <3>2
    <3> DEFINE g == [n \in Upto(k) |-> IF n \in Upto(k - 1) THEN f[n]
                                                            ELSE G[n][f[Parent[n]]]]
    <3>4. /\ \A n \in Node : n \in Upto(k) => Parent[n] \in Upto(k - 1)
          /\ Upto(k - 1) \subseteq Upto(k) /\ Top \in Upto(k - 1)
      BY <1>0, <3>1
    <3>5. \A n \in Upto(k) : g[n] \in V
      BY <1>0, <3>3, <3>4
    <3>6. \A n \in Node : n \in Upto(k) => g[n] = G[n][g[Parent[n]]]
      BY <1>0, <3>3, <3>4
    <3>7. g[Top] = base
      BY <3>3, <3>4
    <3>8. Good(g, k)
      <4>1. g \in [Upto(k) -> V]
        BY <3>5
      <4> HIDE DEF g, Upto
      <4> QED BY <3>6, <3>7, <4>1
    <3> QED BY <2>1, <3>8
  <2> QED BY <2>2, <2>3
<1>2. ASSUME NEW j \in Nat, NEW k \in Nat, NEW f, NEW g, Good(f, j), Good(g, k),
             NEW m \in Upto(j), m \in Upto(k)
      PROVE  f[m] = g[m]
  <2> DEFINE Bad == {d \in Nat : \E n \in Scope : /\ n \in Upto(j) /\ n \in Upto(k)
                                                 /\ Depth[n] = d /\ f[n] # g[n]}
  <2> SUFFICES ASSUME f[m] # g[m]
               PROVE  FALSE
    OBVIOUS
  <2>1. Depth[m] \in Bad
    BY <1>0, <1>2
  <2>2. PICK d \in Bad : \A i \in Bad : d <= i
    <3>1. Bad \in SUBSET Nat
      OBVIOUS
    <3> HIDE DEF Bad
    <3> QED BY <2>1, <3>1, LeastNumber
  <2>3. PICK n \in Scope : n \in Upto(j) /\ n \in Upto(k) /\ Depth[n] = d /\ f[n] # g[n]
    BY <2>2
  <2>4. n \in Node
    BY <1>0, <1>2, <2>3
  <2>5. /\ Parent[n] \in Upto(j) /\ Parent[n] \in Upto(k)
        /\ Depth[Parent[n]] \in Nat /\ Depth[Parent[n]] < d
    BY <1>0, <2>3, <2>4
  <2>6. f[Parent[n]] = g[Parent[n]]
    BY <2>2, <2>5, <1>0
  <2>7. f[n] = G[n][f[Parent[n]]] /\ g[n] = G[n][g[Parent[n]]]
    BY <1>2, <2>3, <2>4
  <2> QED BY <2>3, <2>6, <2>7
<1> DEFINE at(k) == CHOOSE f : Good(f, k)
           F == [n \in Scope |-> at(Depth[n])[n]]
<1>3. \A k \in Nat : Good(at(k), k)
  BY <1>1
<1> HIDE DEF at
<1>4. F \in [Scope -> V]
  <2>1. \A n \in Scope : Depth[n] \in Nat /\ n \in Upto(Depth[n])
    BY <1>0
  <2>2. \A n \in Scope : at(Depth[n]) \in [Upto(Depth[n]) -> V]
    BY <1>3, <2>1
  <2> HIDE DEF Upto
  <2> QED BY <2>1, <2>2
<1>5. F[Top] = base
  BY <1>0, <1>3
<1>6. ASSUME NEW n \in Node PROVE F[n] = G[n][F[Parent[n]]]
  <2> DEFINE p == Parent[n]
  <2>1. /\ n \in Scope /\ n \in Upto(Depth[n]) /\ Depth[n] \in Nat
        /\ p \in Scope /\ p \in Upto(Depth[n]) /\ p \in Upto(Depth[p]) /\ Depth[p] \in Nat
    BY <1>0
  <2>2. Good(at(Depth[n]), Depth[n]) /\ Good(at(Depth[p]), Depth[p])
    BY <1>3, <2>1
  <2>3. at(Depth[n])[n] = G[n][at(Depth[n])[p]]
    BY <2>1, <2>2
  <2>4. at(Depth[n])[p] = at(Depth[p])[p]
    <3> HIDE DEF Good, Upto
    <3> QED BY <1>2, <2>1, <2>2
  <2> QED BY <2>1, <2>3, <2>4
<1> QED BY <1>4, <1>5, <1>6

\* What holds of Top and of a promise if it holds of its parent holds of all.
LEMMA HoldsAlongParents ==
  ASSUME NEW S, Top \in S, \A n \in Node : Parent[n] \in S => n \in S
  PROVE  Scope \subseteq S
<1> SUFFICES ASSUME NEW m \in Scope, m \notin S
             PROVE  FALSE
  OBVIOUS
<1> DEFINE Bad == {d \in Nat : \E n \in Scope \ S : Depth[n] = d}
<1>1. PICK d \in Bad : \A i \in Bad : d <= i
  <2>1. Bad \in SUBSET Nat /\ Depth[m] \in Bad
    BY TreeFacts
  <2> HIDE DEF Bad
  <2> QED BY <2>1, LeastNumber
<1>2. PICK n \in Scope \ S : Depth[n] = d
  BY <1>1
<1>3. n \in Node /\ Parent[n] \in Scope \ S
  BY <1>2, ForestFacts DEF Scope
<1>4. Depth[Parent[n]] \in Nat /\ Depth[Parent[n]] < d
  BY <1>2, <1>3, TreeFacts
<1>5. Depth[Parent[n]] \in Bad
  BY <1>3, <1>4
<1> QED BY <1>1, <1>4, <1>5, TreeFacts

\* The path of (setenv) promises, from that of the parent.
LEMMA EnvPathFacts ==
  /\ EnvPath \in [Scope -> Seq(Scope)]
  /\ EnvPath[Top] = <<>>
  /\ \A n \in Node : EnvPath[n] = IF Kind[n] = "setenv"
                                  THEN Append(EnvPath[Parent[n]], n)
                                  ELSE EnvPath[Parent[n]]
<1> DEFINE V == Seq(Scope)
           G == [n \in Node |-> [v \in V |-> IF Kind[n] = "setenv" THEN Append(v, n) ELSE v]]
           Eq(f) == f = [n \in Scope |->
                           IF n = Top THEN <<>>
                           ELSE IF Kind[n] = "setenv" THEN Append(f[Parent[n]], n)
                           ELSE f[Parent[n]]]
<1>1. <<>> \in V /\ G \in [Node -> [V -> V]]
  BY ForestFacts, AppendProperties
<1>2. PICK f \in [Scope -> V] :
        f[Top] = <<>> /\ \A n \in Node : f[n] = G[n][f[Parent[n]]]
  <2> HIDE DEF G, V
  <2> QED BY <1>1, AlongParents
<1>3. Eq(f)
  <2>1. \A n \in Scope : n # Top => n \in Node /\ f[Parent[n]] \in V
    BY <1>2, ForestFacts DEF Scope
  <2> QED BY <1>2, <2>1
<1>4. EnvPath = CHOOSE g : Eq(g)
  BY DEF EnvPath
<1>5. Eq(EnvPath)
  <2> HIDE DEF Eq
  <2> QED BY <1>3, <1>4
<1> HIDE DEF G
<1>6. EnvPath = [n \in Scope |-> EnvPath[n]]
  BY <1>5
<1>7. EnvPath[Top] = <<>>
  BY <1>5, ForestFacts
<1>8. \A n \in Node : EnvPath[n] = IF Kind[n] = "setenv"
                                   THEN Append(EnvPath[Parent[n]], n)
                                   ELSE EnvPath[Parent[n]]
  BY <1>5, ForestFacts
<1>9. Scope \subseteq {n \in Scope : EnvPath[n] \in V}
  <2> DEFINE S == {n \in Scope : EnvPath[n] \in V}
  <2>1. Top \in S
    BY <1>1, <1>7, ForestFacts
  <2>2. ASSUME NEW n \in Node, Parent[n] \in S PROVE n \in S
    <3>1. n \in Scope /\ EnvPath[Parent[n]] \in Seq(Scope)
      BY <2>2, ForestFacts
    <3>2. Append(EnvPath[Parent[n]], n) \in Seq(Scope)
      BY <3>1, AppendProperties
    <3> QED BY <1>8, <3>1, <3>2
  <2>3. Scope \subseteq S
    <3> HIDE DEF S
    <3> QED BY <2>1, <2>2, HoldsAlongParents
  <2> QED BY <2>3
<1> QED BY <1>6, <1>7, <1>8, <1>9

\* The innermost promise of some types, from that of the parent.
LEMMA InnermostFacts ==
  ASSUME NEW kinds
  PROVE  /\ Innermost(kinds)[Top] = Top
         /\ \A n \in Node : Innermost(kinds)[n] = IF Kind[n] \in kinds THEN n
                                                 ELSE Innermost(kinds)[Parent[n]]
<1> DEFINE G == [n \in Node |-> [v \in Scope |-> IF Kind[n] \in kinds THEN n ELSE v]]
           Eq(f) == f = [n \in Scope |->
                           IF n = Top \/ Kind[n] \in kinds THEN n ELSE f[Parent[n]]]
<1>1. Top \in Scope /\ G \in [Node -> [Scope -> Scope]]
  BY ForestFacts
<1>2. PICK f \in [Scope -> Scope] :
        f[Top] = Top /\ \A n \in Node : f[n] = G[n][f[Parent[n]]]
  <2> HIDE DEF G
  <2> QED BY <1>1, AlongParents
<1>3. Eq(f)
  <2>1. \A n \in Scope : n # Top => n \in Node /\ f[Parent[n]] \in Scope
    BY <1>2, ForestFacts DEF Scope
  <2> QED BY <1>2, <2>1
<1>4. Innermost(kinds) = CHOOSE g : Eq(g)
  BY DEF Innermost
<1>5. Eq(Innermost(kinds))
  <2> HIDE DEF Eq
  <2> QED BY <1>3, <1>4
<1> QED BY <1>5, ForestFacts

\* The slices of the open promises get longer on the way down, and each is
\* of an array that a promise further up has allocated.
SlicesGrow ==
  \A n \in Node : Open(n) =>
    /\ Depth[ctx[n].env.array] < Depth[n]
    /\ \A m \in Node : Open(m) /\ Depth[m] <= Depth[n]
                          => ctx[m].env.len <= ctx[n].env.len

ContextInv == SlicesGrow /\ ContextExact

\* What append does to the arrays: the slice that it returns is the one it is
\* given and the new element, and another slice keeps its elements if it is
\* not longer and not of the array that n allocates.
LEMMA AppendedElements ==
  ASSUME TypeOK, NEW n \in Node, NEW s \in Slice, s.len <= Len(array[s.array])
  PROVE  LET a == Appended(n, s)
             t == AppendedSlice(n, s)
         IN  /\ t \in Slice /\ t.len = s.len + 1 /\ t.array \in {s.array, n}
             /\ \A i \in 1 .. s.len : a[t.array][i] = array[s.array][i]
             /\ a[t.array][s.len + 1] = n
             /\ \A r \in Scope : \A i \in 1 .. s.len :
                  r # n => a[r][i] = array[r][i]
<1>1. s.array \in Scope /\ s.len \in Nat /\ n \in Scope
  BY DEF Slice, Scope
<1>2. array \in [Scope -> Seq(Scope)] /\ array[s.array] \in Seq(Scope)
  BY <1>1 DEF TypeOK
<1>3. Len(array[s.array]) \in Nat
  BY <1>2, LenProperties
<1>4. AppendedSlice(n, s) \in Slice /\ AppendedSlice(n, s).len = s.len + 1
      /\ AppendedSlice(n, s).array = IF HasRoom(s) THEN s.array ELSE n
  BY <1>1 DEF AppendedSlice, Slice
<1>5. CASE HasRoom(s)
  <2> DEFINE new == [array[s.array] EXCEPT ![s.len + 1] = n]
  <2>1. s.len + 1 \in DOMAIN array[s.array]
    BY <1>1, <1>2, <1>3, <1>5, LenProperties DEF HasRoom
  <2>2. new[s.len + 1] = n /\ \A i \in 1 .. s.len : new[i] = array[s.array][i]
    BY <1>1, <1>2, <1>3, <2>1, LenProperties
  <2>3. Appended(n, s) = [array EXCEPT ![s.array] = new]
    BY <1>5 DEF Appended
  <2> HIDE DEF new
  <2>4. /\ Appended(n, s)[s.array] = new
        /\ \A r \in Scope : r # s.array => Appended(n, s)[r] = array[r]
    BY <1>1, <1>2, <2>3
  <2> QED BY <1>1, <1>4, <1>5, <2>2, <2>4
<1>6. CASE ~ HasRoom(s)
  <2> DEFINE size == IF s.len = 0 THEN 1 ELSE 2 * s.len
             new == [i \in 1 .. size |->
                       IF i <= s.len THEN array[s.array][i]
                       ELSE IF i = s.len + 1 THEN n ELSE Top]
  <2>1. size \in Nat /\ s.len + 1 <= size
    BY <1>1
  <2>2. new[s.len + 1] = n /\ \A i \in 1 .. s.len : new[i] = array[s.array][i]
    BY <1>1, <2>1
  <2>3. Appended(n, s) = [array EXCEPT ![n] = new]
    BY <1>6 DEF Appended
  <2> HIDE DEF new
  <2>4. /\ Appended(n, s)[n] = new
        /\ \A r \in Scope : r # n => Appended(n, s)[r] = array[r]
    BY <1>1, <1>2, <2>3
  <2> QED BY <1>1, <1>4, <1>6, <2>2, <2>4
<1> QED BY <1>5, <1>6

\* Apart from a call, a step of the evaluator writes to no array.
LEMMA ArrayEffect ==
  ASSUME NEW n \in Node, EvalStep(n), ~ Call(n)
  PROVE  array' = array
BY DEF EvalStep, CallFails, Return, SetVar, ReadVar, Bind, StartExec, EndExec, StartPipe,
       EndPipe, Log, Template, Restart, Abort, data

\* Two sequences of the same length and elements are the same.
LEMMA PrefixIs ==
  ASSUME NEW S, NEW s \in Seq(S), NEW l \in Nat, l <= Len(s), NEW t \in Seq(S),
         Len(t) = l, \A i \in 1 .. l : s[i] = t[i]
  PROVE  SubSeq(s, 1, l) = t
<1>1. SubSeq(s, 1, l) \in Seq(S) /\ Len(SubSeq(s, 1, l)) = l
      /\ \A i \in 1 .. l : SubSeq(s, 1, l)[i] = s[i]
  <2>1. Len(s) \in Nat
    BY LenProperties
  <2>2. \A i \in 1 .. l : s[i] \in S
    BY <2>1, ElementOfSeq
  <2> QED BY <2>1, <2>2, SubSeqProperties
<1> QED BY <1>1, SeqEqual

LEMMA PrefixElements ==
  ASSUME NEW S, NEW s \in Seq(S), NEW l \in Nat, l <= Len(s), NEW t,
         SubSeq(s, 1, l) = t
  PROVE  t \in Seq(S) /\ Len(t) = l /\ \A i \in 1 .. l : t[i] = s[i]
<1>1. Len(s) \in Nat
  BY LenProperties
<1>2. \A i \in 1 .. l : s[i] \in S
  BY <1>1, ElementOfSeq
<1> QED BY <1>1, <1>2, SubSeqProperties

\* Only (setenv) calls with another environment, (indir) and (eval) with
\* another directory, (asuser) with another user.
LEMMA ChildPlace ==
  ASSUME TypeInv, NEW n \in Node
  PROVE  /\ ChildContext(n).env = IF Kind[n] = "setenv" THEN AppendedSlice(n, ctx[n].env)
                                                        ELSE ctx[n].env
         /\ ChildContext(n).dir = IF Kind[n] \in {"indir", "eval"} THEN n ELSE ctx[n].dir
         /\ ChildContext(n).cred = IF Kind[n] \in {"asuser"} THEN n ELSE ctx[n].cred
<1>1. ctx[n] \in Context
  BY DEF TypeInv, TypeOK
<1> QED BY <1>1 DEF ChildContext, BodyContext, DirContext, UserContext, EnvContext,
                TreeContext, Context

LEMMA StartContext ==
  ASSUME TypeInv, NEW r \in Roots, Start(r)
  PROVE  ContextInv'
<1>1. \A n \in Node : Open(n)' => /\ n = r /\ Parent[n] = Top /\ Depth[n] > 0
                                  /\ ctx'[n] = TopContext
  BY ForestFacts, TreeFacts DEF Start, FreshStack, Open
<1>2. array'[Top] = <<>> /\ SubSeq(<<>>, 1, 0) = <<>>
  BY ForestFacts DEF Start
<1>3. SlicesGrow'
  BY <1>1, TreeFacts DEF SlicesGrow, TopContext
<1>4. ContextExact'
  <2>1. /\ EnvPath[Top] = <<>>
        /\ Innermost({"indir", "eval"})[Top] = Top /\ Innermost({"asuser"})[Top] = Top
    BY EnvPathFacts, InnermostFacts
  <2>2. /\ TopContext.env.array = Top /\ TopContext.env.len = 0
        /\ TopContext.dir = Top /\ TopContext.cred = Top
    BY DEF TopContext
  <2> QED BY <1>1, <1>2, <2>1, <2>2 DEF ContextExact
<1> QED BY <1>3, <1>4 DEF ContextInv

LEMMA EffectContext ==
  ASSUME FullInv, ContextInv, NEW n \in Node, EvalStep(n), ~ Call(n)
  PROVE  ContextInv'
<1>1. \A m \in Node : Open(m)' => Open(m)
  BY StatusEffect DEF FullInv
<1>2. ctx' = ctx /\ array' = array
  BY DictEffect, ArrayEffect DEF FullInv
<1> QED BY <1>1, <1>2 DEF ContextInv, SlicesGrow, ContextExact

LEMMA SameContext ==
  ASSUME ContextInv, UNCHANGED <<status, ctx, array>>
  PROVE  ContextInv'
BY DEF ContextInv, SlicesGrow, ContextExact, Open

\* The environment of a promise that is called, and that of the promises
\* around it afterwards.
LEMMA CallEnv ==
  ASSUME FullInv, ContextInv, NEW n \in Node, Call(n)
  PROVE  LET c == Children[n][pos[n] + 1]
             e == ctx'[c].env
         IN  /\ e.array = n \/ e = ctx[n].env \/ e.array = ctx[n].env.array
             /\ ctx[n].env.len <= e.len
             /\ SubSeq(array'[e.array], 1, e.len) = EnvPath[n]
             /\ \A m \in Node : Open(m) =>
                  SubSeq(array'[ctx[m].env.array], 1, ctx[m].env.len) = EnvPath[Parent[m]]
<1> DEFINE c == Children[n][pos[n] + 1]
           s == ctx[n].env
<1>1. cur = n /\ Open(n) /\ c \in Node /\ ctx'[c] = ChildContext(n)
  BY CallEffect DEF FullInv
<1>2. array' = IF Kind[n] = "setenv" THEN Appended(n, s) ELSE array
  BY DEF Call
<1>3. ctx'[c].env = IF Kind[n] = "setenv" THEN AppendedSlice(n, s) ELSE s
  BY <1>1, ChildPlace DEF FullInv
<1>4. \A m \in Node : /\ ctx[m].env \in Slice /\ ctx[m].env.array \in Scope
                      /\ ctx[m].env.len \in Nat
                      /\ ctx[m].env.len <= Len(array[ctx[m].env.array])
                      /\ array[ctx[m].env.array] \in Seq(Scope)
                      /\ Parent[m] \in Scope /\ EnvPath[Parent[m]] \in Seq(Scope)
  BY ForestFacts, EnvPathFacts DEF FullInv, TypeInv, TypeOK, SlicesInBounds, Context, Slice
<1>5. \A m \in Node : Open(m) =>
        /\ SubSeq(array[ctx[m].env.array], 1, ctx[m].env.len) = EnvPath[Parent[m]]
        /\ Depth[m] <= Depth[n]
        /\ ctx[m].env.len <= s.len
        /\ Depth[ctx[m].env.array] < Depth[m]
  BY <1>1 DEF ContextInv, ContextExact, SlicesGrow, FullInv, StackInv, StackIsPath
<1>6. CASE Kind[n] # "setenv"
  <2>1. EnvPath[n] = EnvPath[Parent[n]]
    BY <1>6, EnvPathFacts
  <2> QED BY <1>1, <1>2, <1>3, <1>4, <1>5, <1>6, <2>1
<1>7. CASE Kind[n] = "setenv"
  <2> DEFINE t == AppendedSlice(n, s)
  <2>1. EnvPath[n] = Append(EnvPath[Parent[n]], n)
    BY <1>7, EnvPathFacts
  <2>2. array' = Appended(n, s) /\ ctx'[c].env = t
    BY <1>2, <1>3, <1>7
  <2>3. /\ t \in Slice /\ t.len = s.len + 1 /\ t.array \in {s.array, n}
        /\ \A i \in 1 .. s.len : array'[t.array][i] = array[s.array][i]
        /\ array'[t.array][s.len + 1] = n
        /\ \A r \in Scope : \A i \in 1 .. s.len : r # n => array'[r][i] = array[r][i]
    BY <1>4, <2>2, AppendedElements, SMTT(20) DEF FullInv, TypeInv
  <2>4. array' \in [Scope -> Seq(Scope)] /\ SlicesInBounds'
    BY TypeStep DEF FullInv, TypeInv, TypeOK, Next, EvalStep
  <2>5. ASSUME NEW m \in Node, Open(m)
        PROVE  SubSeq(array'[ctx[m].env.array], 1, ctx[m].env.len) = EnvPath[Parent[m]]
    <3>1. ctx[m].env.array # n
      BY <1>5, <2>5, <1>4, ForestFacts, TreeFacts
    <3> HIDE DEF s, t
    <3>2. \A i \in 1 .. ctx[m].env.len : array'[ctx[m].env.array][i] = array[ctx[m].env.array][i]
      <4>1. /\ ctx[m].env.len <= s.len /\ ctx[m].env.len \in Nat /\ s.len \in Nat
            /\ ctx[m].env.array \in Scope
        BY <1>4, <1>5, <2>5 DEF s
      <4>2. \A i \in 1 .. ctx[m].env.len : i \in 1 .. s.len
        BY <4>1
      <4> QED BY <2>3, <3>1, <4>1, <4>2
    <3>3. ctx[m].env.len <= Len(array'[ctx[m].env.array])
      <4>1. m # c /\ ctx'[m] = ctx[m]
        BY <2>5, CallEffect DEF FullInv
      <4> QED BY <2>4, <4>1 DEF SlicesInBounds
    <3>4. /\ Len(EnvPath[Parent[m]]) = ctx[m].env.len
          /\ \A i \in 1 .. ctx[m].env.len : EnvPath[Parent[m]][i] = array[ctx[m].env.array][i]
      BY <1>4, <1>5, <2>5, PrefixElements
    <3>5. array'[ctx[m].env.array] \in Seq(Scope)
      BY <1>4, <2>4
    <3>6. /\ ctx[m].env.len \in Nat /\ EnvPath[Parent[m]] \in Seq(Scope)
          /\ \A i \in 1 .. ctx[m].env.len :
               array'[ctx[m].env.array][i] = EnvPath[Parent[m]][i]
      BY <1>4, <3>2, <3>4
    <3> QED BY <3>6, <3>2, <3>3, <3>4, <3>5, PrefixIs
  <2>6. SubSeq(array'[t.array], 1, t.len) = EnvPath[n]
    <3> DEFINE p == EnvPath[Parent[n]]
    <3>1. p \in Seq(Scope) /\ Len(p) = s.len /\ \A i \in 1 .. s.len : p[i] = array[s.array][i]
      <4>1. /\ s.len \in Nat /\ array[s.array] \in Seq(Scope) /\ s.len <= Len(array[s.array])
            /\ SubSeq(array[s.array], 1, s.len) = p
        BY <1>1, <1>4, <1>5
      <4> HIDE DEF p, s
      <4> QED BY <4>1, PrefixElements
    <3>2. n \in Scope /\ t.array \in Scope /\ t.len \in Nat /\ s.len \in Nat
      BY <1>4, <2>3, ForestFacts DEF Slice
    <3>3. /\ EnvPath[n] \in Seq(Scope) /\ Len(EnvPath[n]) = t.len
          /\ \A i \in 1 .. s.len : EnvPath[n][i] = p[i]
          /\ EnvPath[n][s.len + 1] = n
      BY <2>1, <2>3, <3>1, <3>2, AppendProperties
    <3>4. \A i \in 1 .. t.len : array'[t.array][i] = EnvPath[n][i]
      BY <2>3, <3>1, <3>2, <3>3
    <3>5. t.len <= Len(array'[t.array])
      BY <1>1, <2>2, <2>4 DEF SlicesInBounds
    <3>6. array'[t.array] \in Seq(Scope)
      BY <2>4, <3>2
    <3> HIDE DEF s, t
    <3> QED BY <3>2, <3>3, <3>4, <3>5, <3>6, PrefixIs
  <2> QED BY <1>4, <2>2, <2>3, <2>5, <2>6
<1> QED BY <1>6, <1>7

LEMMA CallContext ==
  ASSUME FullInv, ContextInv, NEW n \in Node, Call(n)
  PROVE  ContextInv'
<1> DEFINE c == Children[n][pos[n] + 1]
           e == ctx'[c].env
<1>1. /\ cur = n /\ Open(n) /\ c \in Node /\ c # n
      /\ Depth[c] = Depth[n] + 1 /\ ~ Open(c)
      /\ \A m \in Node : Open(m)' => Open(m) \/ m = c
      /\ ctx'[c] = ChildContext(n)
      /\ \A m \in Node : m # c => ctx'[m] = ctx[m]
  BY CallEffect DEF FullInv
<1>2. /\ e.array = n \/ e = ctx[n].env \/ e.array = ctx[n].env.array
      /\ ctx[n].env.len <= e.len
      /\ SubSeq(array'[e.array], 1, e.len) = EnvPath[n]
      /\ \A m \in Node : Open(m) =>
           SubSeq(array'[ctx[m].env.array], 1, ctx[m].env.len) = EnvPath[Parent[m]]
  BY CallEnv
<1>3. Parent[c] = n
  <2>1. pos[n] \in Nat /\ pos[n] < Len(Children[n])
    BY SMTT(20) DEF Call, CallsNext, FullInv, TypeInv, TypeOK
  <2> QED BY <2>1, TreeFacts, ForestFacts
<1>4. \A m \in Node : Open(m) => Depth[m] <= Depth[n] /\ Depth[m] \in Nat
                                 /\ ctx[m].env.len <= ctx[n].env.len
                                 /\ Depth[ctx[m].env.array] < Depth[m]
  BY <1>1, TreeFacts, ForestFacts DEF ContextInv, SlicesGrow, FullInv, StackInv, StackIsPath
<1>5. TypeInv'
  BY TypeStep DEF FullInv, Next, EvalStep
<1>6. \A m \in Node : ctx[m].env.len \in Nat /\ ctx'[m].env.len \in Nat
                      /\ Depth[ctx[m].env.array] \in Nat /\ Depth[m] \in Nat
  BY <1>5, ForestFacts, TreeFacts DEF FullInv, TypeInv, TypeOK, Context, Slice
<1>7. /\ ChildContext(n).dir = IF Kind[n] \in {"indir", "eval"} THEN n ELSE ctx[n].dir
      /\ ChildContext(n).cred = IF Kind[n] \in {"asuser"} THEN n ELSE ctx[n].cred
  <2>1. TypeInv
    BY DEF FullInv
  <2> QED BY <2>1, ChildPlace
<1> HIDE DEF c
<1>8. SlicesGrow'
  <2>1. Depth[e.array] < Depth[c]
    BY <1>1, <1>2, <1>4, <1>6
  <2>2. ASSUME NEW m \in Node, Open(m) PROVE ctx[m].env.len <= e.len
    BY <1>1, <1>2, <1>4, <1>6, <2>2
  <2>3. \A m \in Node : Open(m) => m # c /\ ctx'[m] = ctx[m] /\ ~ Depth[c] <= Depth[m]
    BY <1>1, <1>4, <1>6
  <2> QED BY <1>1, <1>6, <2>1, <2>2, <2>3 DEF ContextInv, SlicesGrow
<1>9. ContextExact'
  <2>1. ASSUME NEW m \in Node, Open(m)', m # c
        PROVE  LET x == ctx'[m] IN
               /\ SubSeq(array'[x.env.array], 1, x.env.len) = EnvPath[Parent[m]]
               /\ x.dir = Innermost({"indir", "eval"})[Parent[m]]
               /\ x.cred = Innermost({"asuser"})[Parent[m]]
    BY <1>1, <1>2, <2>1 DEF ContextInv, ContextExact
  <2>2. /\ ctx'[c].dir = Innermost({"indir", "eval"})[n]
        /\ ctx'[c].cred = Innermost({"asuser"})[n]
    <3>1. \A kinds : Innermost(kinds)[n] = IF Kind[n] \in kinds THEN n
                                            ELSE Innermost(kinds)[Parent[n]]
      BY InnermostFacts
    <3>2. /\ ctx[n].dir = Innermost({"indir", "eval"})[Parent[n]]
          /\ ctx[n].cred = Innermost({"asuser"})[Parent[n]]
      BY <1>1 DEF ContextInv, ContextExact
    <3> QED BY <1>1, <1>7, <3>1, <3>2
  <2> QED BY <1>2, <1>3, <2>1, <2>2 DEF ContextExact
<1> QED BY <1>8, <1>9 DEF ContextInv

LEMMA ContextStep == FullInv /\ ContextInv /\ [Next]_vars => ContextInv'
<1> SUFFICES ASSUME FullInv, ContextInv, [Next]_vars PROVE ContextInv'
  OBVIOUS
<1>1. ASSUME NEW r \in Roots, Start(r) PROVE ContextInv'
  BY <1>1, StartContext DEF FullInv
<1>2. ASSUME NEW n \in Node, EvalStep(n) PROVE ContextInv'
  BY <1>2, CallContext, EffectContext
<1>3. ASSUME NEW n \in Node, LateOutput(n) PROVE ContextInv'
  BY <1>3, SameContext DEF LateOutput, tree, data
<1>4. CASE Report
  BY <1>4, SameContext DEF Report, tree, data
<1>5. CASE UNCHANGED vars
  BY <1>5, SameContext DEF vars
<1> QED BY <1>1, <1>2, <1>3, <1>4, <1>5 DEF Next

\* Although slices share backing arrays, the environment a promise sees is
\* exactly what the (setenv) promises around it have set, and its directory
\* and user come from the innermost promises that set them.
THEOREM ContextsAreExact == Spec => []ContextExact
<1>1. Init => ContextInv
  BY ForestFacts DEF Init, ContextInv, SlicesGrow, ContextExact, Open
<1>2. FullInv /\ ContextInv /\ [Next]_vars => (FullInv /\ ContextInv)'
  BY FullStep, ContextStep
<1>3. ContextInv => ContextExact
  BY DEF ContextInv
<1> QED BY <1>1, <1>2, <1>3, InitFull, PTL DEF Spec

(***************************************************************************)
(* The counters.  What they are exactly: each execution that has returned  *)
(* and each upstream stage that has been started, on top of what they were *)
(* when the run began.  CountedOnce follows.                               *)
(***************************************************************************)
CountersExact ==
  outcome \in {"running"} \union Result =>
    /\ Counts.changes = carried.changes + ExecsOf("change") + UpstreamOf("change")
    /\ Counts.tests = carried.tests + ExecsOf("test") + UpstreamOf("test")

\* The stages of one promise, counted.
LEMMA OnePromise ==
  ASSUME NEW n \in Node, NEW stages \in [Node -> Seq(ExecType)], NEW type
  PROVE  /\ IsFiniteSet(PlacesIn(n, stages, type))
         /\ Cardinality(PlacesIn(n, stages, type)) = CountStages(stages[n], type)
         /\ CountStages(stages[n], type) \in Nat
<1> DEFINE at == {i \in DOMAIN stages[n] : stages[n][i] = type}
<1>1. IsFiniteSet(at)
  <2>1. IsFiniteSet(1 .. Len(stages[n])) /\ DOMAIN stages[n] = 1 .. Len(stages[n])
    BY LenProperties, FS_Interval
  <2> QED BY <2>1, FS_Subset
<1>2. IsFiniteSet({n}) /\ Cardinality({n}) = 1
  BY FS_Singleton
<1>3. IsFiniteSet({n} \X at) /\ Cardinality({n} \X at) = Cardinality({n}) * Cardinality(at)
  BY <1>1, <1>2, FS_Product
<1>4. Cardinality(at) \in Nat
  BY <1>1, FS_CardinalityType
<1> QED BY <1>2, <1>3, <1>4 DEF CountStages, PlacesIn

\* Finitely many promises have finitely many stages.
LEMMA PlacesFinite ==
  ASSUME NEW S \in SUBSET Node, IsFiniteSet(S),
         NEW stages \in [Node -> Seq(ExecType)], NEW type
  PROVE  /\ IsFiniteSet(Places(S, stages, type))
         /\ Cardinality(Places(S, stages, type)) \in Nat
<1> DEFINE parts == {PlacesIn(n, stages, type) : n \in S}
<1>1. IsFiniteSet(parts)
  <2> DEFINE f == [n \in S |-> PlacesIn(n, stages, type)]
  <2>1. f \in Surjection(S, parts)
    BY DEF Surjection
  <2> HIDE DEF f, parts
  <2> QED BY <2>1, FS_Surjection
<1>2. \A p \in parts : IsFiniteSet(p)
  BY OnePromise
<1>3. Places(S, stages, type) = UNION parts
  BY DEF Places
<1> HIDE DEF parts
<1> QED BY <1>1, <1>2, <1>3, FS_UNION, FS_CardinalityType

\* One more promise adds the stages it has of the type.
LEMMA OneMorePromise ==
  ASSUME NEW S \in SUBSET Node, IsFiniteSet(S), NEW e \in Node, e \notin S,
         NEW stages \in [Node -> Seq(ExecType)], NEW type
  PROVE  Cardinality(Places(S \union {e}, stages, type)) =
           Cardinality(Places(S, stages, type)) + CountStages(stages[e], type)
<1> DEFINE one == PlacesIn(e, stages, type)
           old == Places(S, stages, type)
           all == Places(S \union {e}, stages, type)
<1>1. IsFiniteSet(old) /\ Cardinality(old) \in Nat
  BY PlacesFinite
<1>2. /\ IsFiniteSet(one) /\ Cardinality(one) = CountStages(stages[e], type)
      /\ Cardinality(one) \in Nat
  BY OnePromise
<1>3. all = old \union one /\ old \intersect one = {}
  BY DEF Places, PlacesIn
<1> HIDE DEF one, old, all
<1>4. Cardinality(all) = Cardinality(old) + Cardinality(one) - Cardinality(old \intersect one)
  BY <1>1, <1>2, <1>3, FS_Union
<1>5. Cardinality(old \intersect one) = 0
  BY <1>3, FS_EmptySet
<1>6. Cardinality(all) = Cardinality(old) + Cardinality(one)
  BY <1>1, <1>2, <1>4, <1>5
<1> QED BY <1>2, <1>6 DEF old, all

\* The counters, and that the promises they count are finitely many.
CountersInv ==
  /\ IsFiniteSet(EndedExecs)
  /\ IsFiniteSet(StartedPipes)
  /\ CountersExact

LEMMA UpstreamType == Upstream \in [Node -> Seq(ExecType)]
<1> SUFFICES ASSUME NEW n \in Node PROVE Prefix(Stages[n], Len(Stages[n]) - 1) \in Seq(ExecType)
  BY DEF Upstream
<1>1. Stages[n] \in Seq(ExecType) /\ Len(Stages[n]) \in Nat
  BY DataAssumption, LenProperties
<1>2. \A i \in 1 .. Len(Stages[n]) - 1 : Stages[n][i] \in ExecType
  BY <1>1, ElementOfSeq
<1> QED BY <1>1, <1>2, SubSeqProperties DEF Prefix

\* What a step that counts nothing leaves as it is.
CountsNothing ==
  /\ EndedExecs' = EndedExecs
  /\ StartedPipes' = StartedPipes
  /\ carried' = carried
  /\ \/ outcome' = "running" /\ logger'.changes = logger.changes /\ logger'.tests = logger.tests
     \/ outcome' \in {"panic", "redefined"}

LEMMA NothingCounted ==
  ASSUME CountersInv, outcome = "running", CountsNothing
  PROVE  CountersInv'
<1>1. "running" \notin Result /\ "panic" \notin Result /\ "redefined" \notin Result
  BY DEF Result
<1>2. /\ Counts.changes = carried.changes + ExecsOf("change") + UpstreamOf("change")
      /\ Counts.tests = carried.tests + ExecsOf("test") + UpstreamOf("test")
  BY DEF CountersInv, CountersExact
<1>3. ExecsOf("change")' = ExecsOf("change") /\ ExecsOf("test")' = ExecsOf("test")
      /\ UpstreamOf("change")' = UpstreamOf("change") /\ UpstreamOf("test")' = UpstreamOf("test")
  BY DEF CountsNothing, ExecsOf, UpstreamOf, Places
<1>4. CountersExact'
  BY <1>1, <1>2, <1>3 DEF CountersExact, Counts, CountsNothing
<1> QED BY <1>4 DEF CountersInv, CountsNothing

\* The end of a promise that is no execution, or of none, ends no execution.
LEMMA SameExecs ==
  ASSUME TypeInv, NEW n \in Node, Kind[n] # "exec" \/ (status[n] \notin Result /\ status'[n] \notin Result),
         \A m \in Node : m # n => (status'[m] \in Result <=> status[m] \in Result)
  PROVE  EndedExecs' = EndedExecs
BY DEF EndedExecs

LEMMA SamePipes ==
  ASSUME TypeInv, NEW n \in Node, Kind[n] # "pipe",
         \A m \in Node : m # n => pos'[m] = pos[m]
  PROVE  StartedPipes' = StartedPipes
BY DEF StartedPipes

LEMMA CallCounts ==
  ASSUME FullInv, NEW n \in Node, Call(n)
  PROVE  CountsNothing
<1> DEFINE c == Children[n][pos[n] + 1]
<1>1. /\ c \in Node /\ status[c] = "idle" /\ status' = [status EXCEPT ![c] = "open"]
      /\ \A m \in Node : m # n => pos'[m] = pos[m]
  BY CallEffect DEF FullInv
<1>2. Kind[n] # "pipe"
  <2>1. pos[n] \in Nat /\ pos[n] < Len(Children[n])
    BY DEF Call, CallsNext, FullInv, TypeInv, TypeOK
  <2> QED BY <2>1, ArityAssumption DEF Leaves
<1> HIDE DEF c
<1>3. EndedExecs' = EndedExecs
  BY <1>1, SameExecs DEF FullInv, TypeInv, TypeOK, Result
<1>4. StartedPipes' = StartedPipes
  BY <1>1, <1>2, SamePipes DEF FullInv
<1> QED BY <1>3, <1>4 DEF CountsNothing, Call, Active, book

\* A promise other than an execution returns.
LEMMA FinishCounts ==
  ASSUME FullInv, NEW n \in Node, Kind[n] # "exec", NEW v, Finish(n, v), pos' = pos
  PROVE  EndedExecs' = EndedExecs /\ StartedPipes' = StartedPipes
<1>1. \A m \in Node : m # n => status'[m] = status[m]
  BY DEF Finish, FullInv, TypeInv, TypeOK
<1>2. EndedExecs' = EndedExecs
  BY <1>1, SameExecs DEF FullInv
<1>3. StartedPipes' = StartedPipes
  BY DEF StartedPipes
<1> QED BY <1>2, <1>3

LEMMA AbortCounts ==
  ASSUME NEW why \in {"panic", "redefined"}, Abort(why)
  PROVE  CountsNothing
BY DEF Abort, CountsNothing, EndedExecs, StartedPipes, tree, book

LEMMA BindCounts ==
  ASSUME FullInv, NEW n \in Node, Active(n), Kind[n] # "exec", NEW value, NEW v, Bind(n, value, v)
  PROVE  CountsNothing
<1>1. CASE Abort("redefined")
  BY <1>1, AbortCounts
<1>2. CASE Finish(n, v) /\ UNCHANGED <<pos, ctx, array, text, logger, book, outcome>>
  BY <1>2, FinishCounts DEF CountsNothing, Active, book
<1> QED BY <1>1, <1>2 DEF Bind

\* Text on standard error is a warning, no test and no change.
LEMMA StderrCounts ==
  ASSUME NEW n \in Node, NEW l \in Counters, NEW k \in WithStderr(n, l)
  PROVE  k.changes = l.changes /\ k.tests = l.tests
BY DEF WithStderr, Counters

LEMMA CountedCounts ==
  ASSUME TypeInv, NEW s
  PROVE  /\ Counted(s).changes = logger.changes + CountStages(s, "change")
         /\ Counted(s).tests = logger.tests + CountStages(s, "test")
BY DEF Counted, TypeInv, TypeOK, Counters

LEMMA SumsAreNumbers ==
  ASSUME FullInv, CountersInv
  PROVE  /\ \A type : ExecsOf(type) \in Nat /\ UpstreamOf(type) \in Nat
         /\ \A type : \A n \in Node : /\ CountStages(Stages[n], type) \in Nat
                                     /\ CountStages(Upstream[n], type) \in Nat
         /\ carried.changes \in Nat /\ carried.tests \in Nat
<1>1. EndedExecs \in SUBSET Node /\ StartedPipes \in SUBSET Node
      /\ IsFiniteSet(EndedExecs) /\ IsFiniteSet(StartedPipes)
      /\ Stages \in [Node -> Seq(ExecType)] /\ Upstream \in [Node -> Seq(ExecType)]
  BY DataAssumption, UpstreamType DEF EndedExecs, StartedPipes, CountersInv
<1>2. \A type : ExecsOf(type) \in Nat /\ UpstreamOf(type) \in Nat
  BY <1>1, PlacesFinite DEF ExecsOf, UpstreamOf
<1>3. \A type : \A n \in Node : /\ CountStages(Stages[n], type) \in Nat
                              /\ CountStages(Upstream[n], type) \in Nat
  BY <1>1, CountStagesType
<1> QED BY <1>2, <1>3 DEF FullInv, TypeInv, TypeOK, Counters

\* The counters after a step that ends an execution or starts a pipe.
LEMMA EndExecCounts ==
  ASSUME FullInv, CountersInv, NEW n \in Node, EndExec(n)
  PROVE  CountersInv'
<1>1. /\ cur = n /\ outcome = "running" /\ outcome' = "running" /\ Kind[n] = "exec"
      /\ status[n] = "open"
      /\ carried' = carried /\ pos' = pos
  BY ForestFacts DEF EndExec, Active, book, FullInv, StackInv, StackIsPath, Open
<1>2. PICK r \in Result : Finish(n, r)
  BY DEF EndExec
<1>3. status'[n] = r /\ \A m \in Node : m # n => status'[m] = status[m]
  BY <1>2 DEF Finish, FullInv, TypeInv, TypeOK
<1>4. EndedExecs' = EndedExecs \union {n} /\ n \notin EndedExecs
  BY <1>1, <1>3 DEF EndedExecs, Result
<1>5. StartedPipes' = StartedPipes
  BY <1>1 DEF StartedPipes
<1>6. logger'.changes = logger.changes + CountStages(Stages[n], "change")
      /\ logger'.tests = logger.tests + CountStages(Stages[n], "test")
  <2>1. Counted(Stages[n]) \in Counters
    BY CountedType, DataAssumption DEF FullInv, TypeInv
  <2> QED BY <2>1, StderrCounts, CountedCounts DEF EndExec, FullInv
<1>7. \A type : /\ ExecsOf(type)' = ExecsOf(type) + CountStages(Stages[n], type)
                 /\ UpstreamOf(type)' = UpstreamOf(type)
  <2>1. EndedExecs \in SUBSET Node /\ IsFiniteSet(EndedExecs)
        /\ Stages \in [Node -> Seq(ExecType)]
    BY DataAssumption DEF EndedExecs, CountersInv
  <2>2. \A type : Cardinality(Places(EndedExecs \union {n}, Stages, type)) =
                    Cardinality(Places(EndedExecs, Stages, type)) + CountStages(Stages[n], type)
    BY <1>4, <2>1, OneMorePromise
  <2> QED BY <1>4, <1>5, <2>2 DEF ExecsOf, UpstreamOf, Places
<1>8. /\ logger.changes = carried.changes + ExecsOf("change") + UpstreamOf("change")
      /\ logger.tests = carried.tests + ExecsOf("test") + UpstreamOf("test")
  BY <1>1 DEF CountersInv, CountersExact, Counts, Result
<1>9. /\ logger'.changes = carried.changes + ExecsOf("change")' + UpstreamOf("change")'
      /\ logger'.tests = carried.tests + ExecsOf("test")' + UpstreamOf("test")'
  <2>1. /\ ExecsOf("change")' = ExecsOf("change") + CountStages(Stages[n], "change")
        /\ ExecsOf("test")' = ExecsOf("test") + CountStages(Stages[n], "test")
        /\ UpstreamOf("change")' = UpstreamOf("change")
        /\ UpstreamOf("test")' = UpstreamOf("test")
    BY <1>7
  <2>2. /\ ExecsOf("change") \in Nat /\ ExecsOf("test") \in Nat
        /\ UpstreamOf("change") \in Nat /\ UpstreamOf("test") \in Nat
        /\ CountStages(Stages[n], "change") \in Nat /\ CountStages(Stages[n], "test") \in Nat
        /\ carried.changes \in Nat /\ carried.tests \in Nat
    BY SumsAreNumbers
  <2> QED BY <1>6, <1>8, <2>1, <2>2
<1>10. CountersExact'
  BY <1>1, <1>9 DEF CountersExact, Counts, Result
<1> QED BY <1>4, <1>5, <1>10, FS_AddElement DEF CountersInv

LEMMA StartPipeCounts ==
  ASSUME FullInv, CountersInv, NEW n \in Node, StartPipe(n)
  PROVE  CountersInv'
<1>1. /\ cur = n /\ outcome = "running" /\ Kind[n] = "pipe" /\ pos[n] = 0
      /\ carried' = carried /\ status' = status
  BY DEF StartPipe, Active, book
<1>2. EndedExecs' = EndedExecs
  BY <1>1 DEF EndedExecs
<1>3. CASE outcome' = "panic" /\ UNCHANGED pos
  <2>1. CountsNothing
    BY <1>1, <1>2, <1>3 DEF CountsNothing, StartedPipes
  <2> QED BY <1>1, <2>1, NothingCounted
<1>4. CASE /\ logger' = Counted(Prefix(Stages[n], Len(Stages[n]) - 1))
           /\ pos' = [pos EXCEPT ![n] = 1]
           /\ outcome' = outcome
  <2>1. StartedPipes' = StartedPipes \union {n} /\ n \notin StartedPipes
    BY <1>1, <1>4 DEF StartedPipes, FullInv, TypeInv, TypeOK
  <2>2. logger'.changes = logger.changes + CountStages(Upstream[n], "change")
        /\ logger'.tests = logger.tests + CountStages(Upstream[n], "test")
    BY <1>4, CountedCounts DEF FullInv, Upstream
  <2>3. \A type : /\ UpstreamOf(type)' = UpstreamOf(type) + CountStages(Upstream[n], type)
                   /\ ExecsOf(type)' = ExecsOf(type)
    <3>1. StartedPipes \in SUBSET Node /\ IsFiniteSet(StartedPipes)
      BY DEF StartedPipes, CountersInv
    <3>2. \A type : Cardinality(Places(StartedPipes \union {n}, Upstream, type)) =
                      Cardinality(Places(StartedPipes, Upstream, type))
                        + CountStages(Upstream[n], type)
      BY <2>1, <3>1, OneMorePromise, UpstreamType
    <3> QED BY <1>2, <2>1, <3>2 DEF ExecsOf, UpstreamOf, Places, Upstream
  <2>4. /\ logger.changes = carried.changes + ExecsOf("change") + UpstreamOf("change")
        /\ logger.tests = carried.tests + ExecsOf("test") + UpstreamOf("test")
    BY <1>1 DEF CountersInv, CountersExact, Counts, Result
  <2>5. /\ logger'.changes = carried.changes + ExecsOf("change")' + UpstreamOf("change")'
        /\ logger'.tests = carried.tests + ExecsOf("test")' + UpstreamOf("test")'
    <3>1. /\ UpstreamOf("change")' = UpstreamOf("change") + CountStages(Upstream[n], "change")
          /\ UpstreamOf("test")' = UpstreamOf("test") + CountStages(Upstream[n], "test")
          /\ ExecsOf("change")' = ExecsOf("change")
          /\ ExecsOf("test")' = ExecsOf("test")
      BY <2>3
    <3>2. /\ ExecsOf("change") \in Nat /\ ExecsOf("test") \in Nat
          /\ UpstreamOf("change") \in Nat /\ UpstreamOf("test") \in Nat
          /\ CountStages(Upstream[n], "change") \in Nat
          /\ CountStages(Upstream[n], "test") \in Nat
          /\ carried.changes \in Nat /\ carried.tests \in Nat
      BY SumsAreNumbers
    <3> QED BY <2>2, <2>4, <3>1, <3>2
  <2>6. CountersExact'
    BY <1>1, <1>4, <2>5 DEF CountersExact, Counts, Result
  <2> QED BY <1>2, <2>1, <2>6, FS_AddElement DEF CountersInv
<1> QED BY <1>3, <1>4 DEF StartPipe

\* All other steps of the evaluator.
LEMMA OtherCounts ==
  ASSUME FullInv, NEW n \in Node, EvalStep(n), ~ EndExec(n), ~ StartPipe(n)
  PROVE  CountsNothing
<1>1. CASE CallFails(n)
  BY <1>1, AbortCounts DEF CallFails
<1>2. CASE Return(n)
  BY <1>2, FinishCounts DEF Return, CountsNothing, Active, Leaves, book
<1>3. CASE SetVar(n) \/ ReadVar(n)
  BY <1>3, BindCounts DEF SetVar, ReadVar
<1>4. CASE StartExec(n)
  <2>1. Kind[n] # "pipe" /\ status' = status /\ carried' = carried /\ logger' = logger
        /\ outcome' \in {"running", "panic"}
        /\ \A m \in Node : m # n => pos'[m] = pos[m]
    BY <1>4 DEF StartExec, Active, book, FullInv, TypeInv, TypeOK
  <2>2. EndedExecs' = EndedExecs /\ StartedPipes' = StartedPipes
    BY <2>1, SamePipes DEF EndedExecs, FullInv
  <2> QED BY <2>1, <2>2 DEF CountsNothing
<1>5. CASE EndPipe(n)
  <2>1. logger \in Counters
    BY DEF FullInv, TypeInv, TypeOK
  <2>2. logger'.changes = logger.changes /\ logger'.tests = logger.tests
    BY <1>5, <2>1, StderrCounts DEF EndPipe
  <2> QED BY <1>5, <2>2, FinishCounts DEF EndPipe, CountsNothing, Active, book
<1>6. CASE Log(n)
  <2>1. logger'.changes = logger.changes /\ logger'.tests = logger.tests
    BY <1>6 DEF Log, FullInv, TypeInv, TypeOK, Counters
  <2>2. Kind[n] # "exec" /\ Finish(n, "met") /\ pos' = pos
        /\ outcome' = "running" /\ carried' = carried
    BY <1>6 DEF Log, Active, book
  <2> QED BY <2>1, <2>2, FinishCounts DEF CountsNothing
<1>7. CASE Template(n)
  BY <1>7, FinishCounts DEF Template, CountsNothing, Active, book
<1>8. CASE Restart(n)
  <2>1. CASE Abort("panic")
    BY <2>1, AbortCounts
  <2>2. CASE Finish(n, "met") /\ UNCHANGED <<pos, ctx, data, text, logger, book, outcome>>
    BY <1>8, <2>2, FinishCounts DEF Restart, CountsNothing, Active, book
  <2> QED BY <1>8, <2>1, <2>2 DEF Restart
<1>9. CASE Call(n)
  BY <1>9, CallCounts
<1> QED BY <1>1, <1>2, <1>3, <1>4, <1>5, <1>6, <1>7, <1>8, <1>9 DEF EvalStep

LEMMA CountersStep == FullInv /\ CountersInv /\ [Next]_vars => CountersInv'
<1> SUFFICES ASSUME FullInv, CountersInv, [Next]_vars PROVE CountersInv'
  OBVIOUS
<1>1. ASSUME NEW r \in Roots, Start(r) PROVE CountersInv'
  <2>1. /\ EndedExecs' = {} /\ StartedPipes' = {}
    BY <1>1 DEF Start, FreshStack, EndedExecs, StartedPipes, Result
  <2>2. \A type : ExecsOf(type)' = 0 /\ UpstreamOf(type)' = 0
    BY <2>1, FS_EmptySet DEF ExecsOf, UpstreamOf, Places
  <2>3. outcome' = "running" /\ carried' = logger' /\ logger' \in Counters
    <3>1. TypeInv'
      BY <1>1, StartType DEF FullInv
    <3>2. outcome' = "running" /\ carried' = logger'
      BY <1>1 DEF Start
    <3> QED BY <3>1, <3>2 DEF TypeInv, TypeOK
  <2>4. CountersExact'
    <3>1. Counts' = logger'
      BY <2>3 DEF Counts, Result
    <3>2. carried'.changes \in Nat /\ carried'.tests \in Nat
      BY <2>3 DEF Counters
    <3>3. /\ ExecsOf("change")' = 0 /\ UpstreamOf("change")' = 0
          /\ ExecsOf("test")' = 0 /\ UpstreamOf("test")' = 0
      BY <2>2
    <3> QED BY <2>3, <3>1, <3>2, <3>3 DEF CountersExact
  <2> QED BY <2>1, <2>4, FS_EmptySet DEF CountersInv
<1>2. ASSUME NEW n \in Node, EvalStep(n) PROVE CountersInv'
  <2>1. outcome = "running"
    BY <1>2 DEF EvalStep, Call, CallFails, Return, SetVar, ReadVar, StartExec, EndExec,
                StartPipe, EndPipe, Log, Template, Restart, Active
  <2> QED BY <1>2, <2>1, EndExecCounts, StartPipeCounts, OtherCounts, NothingCounted
<1>3. ASSUME NEW n \in Node, LateOutput(n) PROVE CountersInv'
  <2>1. outcome = "running" /\ CountsNothing
    BY <1>3 DEF LateOutput, CountsNothing, EndedExecs, StartedPipes, tree, book
  <2> QED BY <2>1, NothingCounted
<1>4. CASE Report
  <2>1. /\ outcome = "running" /\ outcome' \in Result /\ report' = logger /\ carried' = carried
        /\ EndedExecs' = EndedExecs /\ StartedPipes' = StartedPipes
    BY <1>4 DEF Report, tree, EndedExecs, StartedPipes
  <2>2. \A type : ExecsOf(type)' = ExecsOf(type) /\ UpstreamOf(type)' = UpstreamOf(type)
    BY <2>1 DEF ExecsOf, UpstreamOf, Places
  <2> QED BY <2>1, <2>2 DEF CountersInv, CountersExact, Counts, Result
<1>5. CASE UNCHANGED vars
  BY <1>5 DEF vars, CountersInv, CountersExact, Counts, ExecsOf, UpstreamOf, Places,
              EndedExecs, StartedPipes
<1> QED BY <1>1, <1>2, <1>3, <1>4, <1>5 DEF Next

LEMMA CountersInvariant == Spec => [](FullInv /\ CountersInv)
<1>1. Init => CountersInv
  <2> SUFFICES ASSUME Init PROVE CountersInv
    OBVIOUS
  <2>1. EndedExecs = {} /\ StartedPipes = {}
    BY DEF Init, EndedExecs, StartedPipes, Result
  <2>2. CountersExact
    BY DEF Init, CountersExact, Result
  <2> QED BY <2>1, <2>2, FS_EmptySet DEF CountersInv
<1>2. FullInv /\ CountersInv /\ [Next]_vars => (FullInv /\ CountersInv)'
  BY FullStep, CountersStep
<1> QED BY <1>1, <1>2, InitFull, PTL DEF Spec

\* The upstream stages of pipes are some of their stages.
LEMMA UpstreamAreStages ==
  ASSUME CountersInv, NEW type
  PROVE  UpstreamOf(type) <= StagesOf(type) /\ StagesOf(type) \in Nat
<1>1. StartedPipes \in SUBSET Node /\ IsFiniteSet(StartedPipes)
      /\ Stages \in [Node -> Seq(ExecType)]
  BY DataAssumption DEF StartedPipes, CountersInv
<1>2. /\ IsFiniteSet(Places(StartedPipes, Stages, type))
      /\ StagesOf(type) \in Nat
  BY <1>1, PlacesFinite DEF StagesOf
<1>3. Places(StartedPipes, Upstream, type) \subseteq Places(StartedPipes, Stages, type)
  <2> SUFFICES ASSUME NEW n \in StartedPipes
               PROVE  PlacesIn(n, Upstream, type) \subseteq PlacesIn(n, Stages, type)
    BY DEF Places
  <2>1. n \in Node /\ Stages[n] \in Seq(ExecType) /\ Len(Stages[n]) \in Nat
        /\ DOMAIN Stages[n] = 1 .. Len(Stages[n])
    BY <1>1, LenProperties
  <2>2. \A i \in 1 .. Len(Stages[n]) - 1 : Stages[n][i] \in ExecType
    BY <2>1, ElementOfSeq
  <2>3. Upstream[n] = SubSeq(Stages[n], 1, Len(Stages[n]) - 1)
    BY <2>1 DEF Upstream, Prefix
  <2>4. \A i \in DOMAIN Upstream[n] : i \in DOMAIN Stages[n] /\ Upstream[n][i] = Stages[n][i]
    BY <2>1, <2>2, <2>3, SubSeqProperties
  <2> QED BY <2>4 DEF PlacesIn
<1> QED BY <1>2, <1>3, FS_Subset DEF UpstreamOf, StagesOf

\* The counters follow the executions of the tree: none that has returned is
\* skipped, none is counted twice, and the report of a run says the same.
THEOREM StagesAreCountedOnce == Spec => []CountedOnce
<1>1. ASSUME FullInv, CountersInv PROVE CountedOnce
  <2>1. /\ ExecsOf("change") \in Nat /\ UpstreamOf("change") \in Nat
        /\ ExecsOf("test") \in Nat /\ UpstreamOf("test") \in Nat
        /\ carried.changes \in Nat /\ carried.tests \in Nat
    BY <1>1, SumsAreNumbers
  <2>2. /\ UpstreamOf("change") <= StagesOf("change") /\ StagesOf("change") \in Nat
        /\ UpstreamOf("test") <= StagesOf("test") /\ StagesOf("test") \in Nat
    BY <1>1, UpstreamAreStages
  <2>3. outcome \in {"running"} \union Result =>
          /\ Counts.changes = carried.changes + ExecsOf("change") + UpstreamOf("change")
          /\ Counts.tests = carried.tests + ExecsOf("test") + UpstreamOf("test")
    BY <1>1 DEF CountersInv, CountersExact
  <2> QED BY <2>1, <2>2, <2>3 DEF CountedOnce
<1> QED BY <1>1, CountersInvariant, PTL

(***************************************************************************)
(* The evaluator implements PromiseSemantics: the end of a promise is the  *)
(* decision on its result, the start of a run forgets all results, every   *)
(* other step changes none.                                                *)
(***************************************************************************)

\* The instance has its own copies of the definitions of PromiseTree.
LEMMA SameTree ==
  /\ \A kind : Semantics!GoesOn(kind) = GoesOn(kind)
  /\ Semantics!Nary = Nary
  /\ Semantics!Unary = Unary
BY DEF Semantics!GoesOn, GoesOn, Semantics!Nary, Nary, Semantics!Unary, Unary

\* A promise is on the stack only because its result is asked for.
LEMMA OpenIsDemanded ==
  ASSUME TypeInv, StackInv, NEW n \in Node, Open(n)
  PROVE  Semantics!Demanded(n)
<1>1. CASE n \in Roots
  BY <1>1 DEF Semantics!Demanded
<1>2. CASE n \notin Roots
  <2> DEFINE p == Parent[n]
             k == pos[p]
  <2>1. p \in Node /\ Open(p) /\ k \in 1 .. Len(Children[p]) /\ Children[p][k] = n
    BY <1>2, ForestFacts DEF StackInv, StackIsPath, Scope
  <2>2. ResultOf[p] = "none"
    BY <2>1 DEF ResultOf, Open, Result
  <2>3. ASSUME NEW j \in 1 .. k - 1
        PROVE  ResultOf[Children[p][j]] = GoesOn(Kind[p])
    <3>1. j \in 1 .. Len(Children[p]) /\ j < pos[p] /\ Children[p][j] \in Node
      BY <2>1, ForestFacts
    <3>2. status[Children[p][j]] = GoesOn(Kind[p])
      BY <2>1, <3>1 DEF StackInv, CalledInOrder, Open
    <3>3. status[Children[p][j]] \in {"idle", "open"} \union Result
      BY <3>1 DEF TypeInv, TypeOK
    <3>4. status[Children[p][j]] \in Result
      BY <2>1, <3>2, <3>3, GoesOnFacts
    <3> QED BY <3>1, <3>2, <3>4 DEF ResultOf
  <2>4. \A j \in 1 .. k - 1 : Semantics!Nested(p, j, GoesOn(Kind[p]))
    BY <2>3 DEF Semantics!Nested
  <2> HIDE DEF p, k
  <2> QED BY <2>1, <2>2, <2>4, SameTree DEF Semantics!Demanded
<1> QED BY <1>1, <1>2

LEMMA FinishRefines ==
  ASSUME TypeInv, StackInv, NEW n \in Node, cur = n, NEW v \in Result,
         Finish(n, v), Semantics!Rule(n, v)
  PROVE  Semantics!Decide(n)
<1>1. Open(n)
  BY ForestFacts DEF StackInv, StackIsPath
<1>2. ResultOf[n] = "none"
  BY <1>1 DEF ResultOf, Open, Result
<1>3. ResultOf' = [ResultOf EXCEPT ![n] = v]
  BY DEF Finish, ResultOf, TypeInv, TypeOK, Result
<1>4. v \in {"met", "unmet"}
  BY DEF Result
<1> QED BY <1>1, <1>2, <1>3, <1>4, OpenIsDemanded DEF Semantics!Decide

\* What the abstract specification sees of the nested promises of n when n
\* returns.
LEMMA NestedResults ==
  ASSUME TypeInv, StackInv, NEW n \in Node, cur = n, Kind[n] \notin Leaves, Decided(n)
  PROVE  /\ pos[n] \in 1 .. Len(Children[n])
         /\ LastResult(n) \in Result
         /\ Semantics!Nested(n, pos[n], LastResult(n))
         /\ \A j \in 1 .. pos[n] - 1 : Semantics!Nested(n, j, GoesOn(Kind[n]))
         /\ \A j \in pos[n] + 1 .. Len(Children[n]) : Semantics!Nested(n, j, "none")
<1>1. /\ pos[n] \in 1 .. Len(Children[n]) /\ Children[n][pos[n]] \in Node
      /\ LastResult(n) = status[Children[n][pos[n]]]
  BY LastResultType
<1>2. LastResult(n) \in Result
  BY LastHasEnded
<1>3. Open(n)
  BY ForestFacts DEF StackInv, StackIsPath
<1>4. ASSUME NEW j \in 1 .. pos[n] - 1
      PROVE  ResultOf[Children[n][j]] = GoesOn(Kind[n])
  <2>1. j \in 1 .. Len(Children[n]) /\ j < pos[n] /\ Children[n][j] \in Node
    BY <1>1, ForestFacts
  <2>2. status[Children[n][j]] = GoesOn(Kind[n])
    BY <1>3, <2>1 DEF StackInv, CalledInOrder, Open
  <2>3. status[Children[n][j]] \in {"idle", "open"} \union Result
    BY <2>1 DEF TypeInv, TypeOK
  <2>4. status[Children[n][j]] \in Result
    BY <2>2, <2>3, GoesOnFacts
  <2> QED BY <2>1, <2>2, <2>4 DEF ResultOf
<1>5. ASSUME NEW j \in pos[n] + 1 .. Len(Children[n])
      PROVE  ResultOf[Children[n][j]] = "none"
  <2>1. j \in 1 .. Len(Children[n]) /\ j > pos[n] /\ Children[n][j] \in Node
    BY <1>1, ForestFacts
  <2>2. status[Children[n][j]] = "idle"
    BY <1>3, <2>1 DEF StackInv, CalledInOrder, Open
  <2> QED BY <2>1, <2>2 DEF ResultOf, Result
<1>6. ResultOf[Children[n][pos[n]]] = LastResult(n)
  BY <1>1, <1>2 DEF ResultOf
<1> QED BY <1>1, <1>2, <1>4, <1>5, <1>6 DEF Semantics!Nested

LEMMA ReturnRefines ==
  ASSUME TypeInv, StackInv, NEW n \in Node, Return(n)
  PROVE  Semantics!Rule(n, Verdict(n))
<1> DEFINE last == LastResult(n)
<1>1. cur = n /\ Kind[n] \notin Leaves /\ Decided(n)
  BY DEF Return, Active
<1>2. /\ pos[n] \in 1 .. Len(Children[n])
      /\ last \in Result
      /\ Semantics!Nested(n, pos[n], last)
      /\ \A j \in 1 .. pos[n] - 1 : Semantics!Nested(n, j, GoesOn(Kind[n]))
      /\ \A j \in pos[n] + 1 .. Len(Children[n]) : Semantics!Nested(n, j, "none")
  BY <1>1, NestedResults
<1>3. last = GoesOn(Kind[n]) => pos[n] = Len(Children[n])
  BY <1>1, <1>2, ForestFacts DEF Decided, CallsNext
<1>4. Kind[n] \in Kinds
  BY ArityAssumption
<1>5. CASE Kind[n] \in Nary
  <2>1. Verdict(n) = last
    BY <1>5 DEF Verdict, Nary
  <2> HIDE DEF last
  <2>2. /\ pos[n] \in 1 .. Len(Children[n])
        /\ \A j \in 1 .. pos[n] - 1 : Semantics!Nested(n, j, GoesOn(Kind[n]))
        /\ Semantics!Nested(n, pos[n], Verdict(n))
        /\ \A j \in pos[n] + 1 .. Len(Children[n]) : Semantics!Nested(n, j, "none")
        /\ Verdict(n) = GoesOn(Kind[n]) => pos[n] = Len(Children[n])
    BY <1>2, <1>3, <2>1
  <2> QED BY <1>5, <2>2, SameTree DEF Semantics!Rule
<1>6. CASE Kind[n] \in Unary
  <2>1. pos[n] = 1
    <3>1. Len(Children[n]) = 1
      BY <1>6, ArityAssumption
    <3> HIDE DEF last
    <3> QED BY <1>2, <3>1
  <2>2. Semantics!Nested(n, 1, last) /\ last \in {"met", "unmet"}
    BY <1>2, <2>1 DEF Result
  <2>3. Kind[n] = "not" => Verdict(n) = Semantics!Negated(last)
    BY <2>2 DEF Verdict, Semantics!Negated
  <2>4. Kind[n] = "true" => Verdict(n) = "met"
    BY DEF Verdict
  <2>5. Kind[n] = "false" => Verdict(n) = "unmet"
    BY DEF Verdict
  <2>6. Kind[n] \notin {"not", "true", "false"} => Verdict(n) = last
    BY DEF Verdict
  <2>7. Semantics!Nested(n, 1, Semantics!Negated(Semantics!Negated(last)))
    BY <2>2 DEF Semantics!Negated
  <2>8. ~ Semantics!Nested(n, 1, "none")
    BY <2>2 DEF Semantics!Nested
  <2> HIDE DEF last
  <2> QED BY <1>6, <2>2, <2>3, <2>4, <2>5, <2>6, <2>7, <2>8, SameTree DEF Semantics!Rule
<1> QED BY <1>1, <1>4, <1>5, <1>6 DEF Kinds

\* Every step but a call either decides a promise or changes no result.
LEMMA StepRefines ==
  ASSUME TypeInv, StackInv, NEW n \in Node, EvalStep(n), ~ Call(n)
  PROVE  Semantics!Decide(n) \/ status' = status
<1>1. cur = n
  BY StackEffect
<1>2. CASE Return(n)
  BY <1>1, <1>2, ReturnRefines, VerdictIsResult, FinishRefines DEF Return
<1>3. ASSUME NEW v \in Result, Finish(n, v), Kind[n] \in {"exec", "pipe", "template"}
      PROVE  Semantics!Decide(n)
  <2>1. Semantics!Rule(n, v)
    BY <1>3 DEF Semantics!Rule
  <2> QED BY <1>1, <1>3, <2>1, FinishRefines
<1>4. ASSUME Finish(n, "met"),
             Kind[n] \in {"setvar", "info", "warn", "error", "restart"}
      PROVE  Semantics!Decide(n)
  <2>1. Semantics!Rule(n, "met") /\ "met" \in Result
    BY <1>4 DEF Semantics!Rule, Result
  <2> QED BY <1>1, <1>4, <2>1, FinishRefines
<1>5. CASE ReadVar(n)
  <2>1. Kind[n] = "readvar" /\ Kind[n] \notin Leaves /\ Decided(n)
    BY <1>5 DEF ReadVar, Leaves
  <2>2. /\ pos[n] \in 1 .. Len(Children[n]) /\ LastResult(n) \in Result
        /\ Semantics!Nested(n, pos[n], LastResult(n))
    BY <1>1, <2>1, NestedResults
  <2>3. pos[n] = 1
    <3>1. Len(Children[n]) = 1
      BY <2>1, ArityAssumption DEF Unary
    <3> QED BY <2>2, <3>1
  <2>4. Semantics!Rule(n, LastResult(n))
    BY <2>1, <2>2, <2>3, SameTree DEF Semantics!Rule, Unary
  <2>5. Finish(n, LastResult(n)) \/ status' = status
    BY <1>5 DEF ReadVar, Bind, Abort, tree
  <2> QED BY <1>1, <2>2, <2>4, <2>5, FinishRefines
<1>6. CASE SetVar(n)
  BY <1>4, <1>6 DEF SetVar, Bind, Abort, tree
<1>7. CASE EndExec(n) \/ EndPipe(n) \/ Template(n)
  BY <1>3, <1>7 DEF EndExec, EndPipe, Template
<1>8. CASE Log(n) \/ Restart(n)
  BY <1>4, <1>8 DEF Log, Restart, Abort, tree
<1>9. CASE CallFails(n) \/ StartExec(n) \/ StartPipe(n)
  BY <1>9 DEF CallFails, StartExec, StartPipe, Abort, tree
<1> QED BY <1>2, <1>5, <1>6, <1>7, <1>8, <1>9 DEF EvalStep

\* Evaluation implements the abstract semantics of promises: results follow
\* the rules, and nothing is decided that was not asked for.
THEOREM EvaluatorImplementsSemantics == Spec => ResultsFollowRules
<1>1. Init => Semantics!Init
  BY DEF Init, Semantics!Init, Semantics!Undecided, ResultOf, Result
<1>2. ASSUME TypeInv, StackInv, [Next]_vars
      PROVE  [Semantics!Next]_ResultOf
  <2>1. ASSUME status' = status PROVE ResultOf' = ResultOf
    BY <2>1 DEF ResultOf
  <2>2. ASSUME NEW r \in Roots, Start(r) PROVE Semantics!Forget
    BY <2>2 DEF Start, FreshStack, Semantics!Forget, Semantics!Undecided,
                ResultOf, Result
  <2>3. ASSUME NEW n \in Node, Call(n) PROVE ResultOf' = ResultOf
    <3> DEFINE c == Children[n][pos[n] + 1]
    <3>1. /\ c \in Node /\ status[c] = "idle"
          /\ status' = [status EXCEPT ![c] = "open"]
      BY <1>2, <2>3, CallEffect
    <3> HIDE DEF c
    <3>2. ASSUME NEW m \in Node
          PROVE  (status'[m] \in Result <=> status[m] \in Result)
                 /\ (status[m] \in Result => status'[m] = status[m])
      BY <1>2, <3>1 DEF Result, TypeInv, TypeOK
    <3> QED BY <3>2 DEF ResultOf
  <2>4. ASSUME NEW n \in Node, EvalStep(n), ~ Call(n)
        PROVE  Semantics!Decide(n) \/ ResultOf' = ResultOf
    BY <1>2, <2>1, <2>4, StepRefines
  <2>5. ASSUME NEW n \in Node, LateOutput(n) PROVE ResultOf' = ResultOf
    BY <2>1, <2>5 DEF LateOutput, tree
  <2>6. CASE Report
    BY <2>1, <2>6 DEF Report, tree
  <2>7. CASE UNCHANGED vars
    BY <2>1, <2>7 DEF vars
  <2> QED BY <1>2, <2>2, <2>3, <2>4, <2>5, <2>6, <2>7 DEF Next, Semantics!Next
<1> QED BY <1>1, <1>2, StackInvariant, PTL
        DEF Spec, ResultsFollowRules, Semantics!Spec

(***************************************************************************)
(* The end of a run: what RunEnds rests on beside its fairness.            *)
(***************************************************************************)

\* A command is started once; what may still arrive is of a command that has
\* ended; and when the stack is empty the Eval of a root has returned.
Ending ==
  /\ \A n \in Node : Kind[n] \in Leaves => pos[n] <= 1
  /\ \A n \in Node : pending[n] # <<>> => status[n] \in Result
  /\ outcome = "running" /\ cur = Top => \E r \in Roots : status[r] \in Result

\* The conditions of Report and of the steps of a promise, by its type.
ReportReady == cur = Top /\ \E r \in Roots : status[r] \in Result
StepReady(n) ==
  \/ CallsNext(n)
  \/ Kind[n] \notin Leaves /\ Decided(n)
  \/ Kind[n] \in {"exec", "pipe"} /\ pos[n] \in {0, 1}
  \/ Kind[n] \in Leaves \ {"exec", "pipe"}

\* How far a promise, its late output and the run have got.
EvalRank(n) ==
  IF status[n] = "idle" THEN 0
  ELSE IF status[n] = "open" THEN pos[n] + 1 ELSE Len(Children[n]) + 3
OutputRank(n) ==
  IF status[n] \notin Result THEN 0 ELSE IF pending[n] # <<>> THEN 1 ELSE 2
RunRank == IF outcome = "running" THEN 0 ELSE 1

Part == {"eval", "output", "run"}
Rank(k, n) ==
  IF k = "eval" THEN EvalRank(n) ELSE IF k = "output" THEN OutputRank(n) ELSE RunRank

\* What can be done in a run, and what has been.
PossibleIn(n) == (Part \X {n}) \X (1 .. Len(Children[n]) + 3)
Possible == UNION {PossibleIn(n) : n \in Node}
Done == {d \in Possible : d[2] <= Rank(d[1][1], d[1][2])}

LEMMA InitEnding == Init => Ending
<1> SUFFICES ASSUME Init PROVE Ending
  OBVIOUS
<1> QED BY DEF Init, Ending

\* A step of the evaluator, but a call, leaves what may still arrive as it
\* is, but for that of the command that ends.
LEMMA PendingEffect ==
  ASSUME TypeInv, NEW n \in Node, EvalStep(n)
  PROVE  /\ \A m \in Node : m # n => pending'[m] = pending[m]
         /\ pending'[n] = pending[n] \/ \E v \in Result : Finish(n, v)
<1>1. CASE EndExec(n)
  <2>1. \A m \in Node : m # n => pending'[m] = pending[m]
    BY <1>1 DEF EndExec, TypeInv, TypeOK
  <2>2. \E v \in Result : Finish(n, v)
    BY <1>1 DEF EndExec
  <2> QED BY <2>1, <2>2
<1>2. CASE ~ EndExec(n)
  <2>1. pending' = pending
    BY <1>2 DEF EvalStep, Call, CallFails, Return, SetVar, ReadVar, Bind, StartExec,
         StartPipe, EndPipe, Log, Template, Restart, Abort, text
  <2> QED BY <2>1
<1> QED BY <1>1, <1>2

\* What a step of the evaluator other than a call does: its promise returns,
\* its command starts, or the run panics.
LEMMA EvalEffect ==
  ASSUME TypeInv, StackInv, Ending, NEW n \in Node, EvalStep(n), ~ Call(n),
         outcome = "running"
  PROVE  /\ cur = n /\ Open(n)
         /\ \A m \in Node : m # n => status'[m] = status[m] /\ pos'[m] = pos[m]
         /\ \/ /\ status'[n] \in Result /\ pos'[n] = pos[n] /\ cur' = Parent[n]
               /\ outcome' = outcome
            \/ /\ status'[n] = status[n] /\ pos[n] = 0 /\ pos'[n] = 1 /\ cur' = cur
               /\ Kind[n] \in Leaves /\ outcome' = outcome
            \/ /\ status'[n] = status[n] /\ pos'[n] = pos[n] /\ cur' = cur
               /\ outcome' # "running"
<1>1. cur = n /\ Open(n)
  BY StatusEffect
<1>2. status \in [Node -> {"idle", "open"} \union Result] /\ pos \in [Node -> Nat]
  BY DEF TypeInv, TypeOK
<1>3. CASE (\E v \in Result : Finish(n, v)) /\ pos' = pos /\ outcome' = outcome
  BY <1>1, <1>2, <1>3 DEF Finish
<1>4. CASE /\ Kind[n] \in Leaves /\ pos[n] = 0 /\ pos' = [pos EXCEPT ![n] = 1]
           /\ UNCHANGED <<cur, status, outcome>>
  BY <1>1, <1>2, <1>4
<1>5. CASE UNCHANGED <<cur, status, pos>> /\ outcome' # "running"
  BY <1>1, <1>5
<1>6. \/ (\E v \in Result : Finish(n, v)) /\ pos' = pos /\ outcome' = outcome
      \/ /\ Kind[n] \in Leaves /\ pos[n] = 0 /\ pos' = [pos EXCEPT ![n] = 1]
         /\ UNCHANGED <<cur, status, outcome>>
      \/ UNCHANGED <<cur, status, pos>> /\ outcome' # "running"
  <2>1. CASE CallFails(n)
    BY <2>1 DEF CallFails, Abort, tree
  <2>2. CASE Return(n)
    BY <2>2, VerdictIsResult DEF Return
  <2>3. CASE SetVar(n)
    <3>1. "met" \in Result
      BY DEF Result
    <3> QED BY <2>3, <3>1 DEF SetVar, Bind, Abort, tree
  <2>4. CASE ReadVar(n)
    <3>1. LastResult(n) \in Result
      BY <2>4, LastHasEnded DEF ReadVar, Active, Leaves
    <3> QED BY <2>4, <3>1 DEF ReadVar, Bind, Abort, tree
  <2>5. CASE StartExec(n)
    BY <2>5 DEF StartExec, Leaves
  <2>6. CASE EndExec(n)
    BY <2>6 DEF EndExec
  <2>7. CASE StartPipe(n)
    BY <2>7 DEF StartPipe, Leaves
  <2>8. CASE EndPipe(n)
    BY <2>8 DEF EndPipe
  <2>9. CASE Log(n)
    BY <2>9 DEF Log, Result
  <2>10. CASE Template(n)
    BY <2>10 DEF Template
  <2>11. CASE Restart(n)
    BY <2>11 DEF Restart, Abort, tree, Result
  <2> QED BY <2>1, <2>2, <2>3, <2>4, <2>5, <2>6, <2>7, <2>8, <2>9, <2>10, <2>11
          DEF EvalStep
<1> QED BY <1>3, <1>4, <1>5, <1>6

\* What a call does to the ranks.
LEMMA CallMoves ==
  ASSUME TypeInv, StackInv, NEW n \in Node, Call(n)
  PROVE  LET c == Children[n][pos[n] + 1] IN
         /\ c \in Node /\ c # n /\ Open(n) /\ Kind[n] \notin Leaves
         /\ status[c] = "idle" /\ status'[c] = "open"
         /\ pos'[c] = pos[c]
         /\ status'[n] = status[n] /\ pos'[n] = pos[n] + 1
         /\ \A m \in Node : m # n /\ m # c =>
              status'[m] = status[m] /\ pos'[m] = pos[m]
         /\ pending' = pending /\ cur' = c /\ c # Top /\ outcome' = outcome
<1> DEFINE c == Children[n][pos[n] + 1]
<1>1. /\ c \in Node /\ c # n /\ Open(n) /\ status[c] = "idle" /\ pos[c] = 0
      /\ status' = [status EXCEPT ![c] = "open"]
      /\ \A m \in Node : m # n => pos'[m] = pos[m]
  BY CallEffect
<1>2. /\ pos' = [pos EXCEPT ![n] = pos[n] + 1] /\ cur' = c /\ outcome' = outcome
      /\ pending' = pending
  BY DEF Call, text
<1>3. Kind[n] \notin Leaves
  <2>1. pos[n] \in Nat /\ pos[n] < Len(Children[n])
    BY DEF Call, CallsNext, TypeInv, TypeOK
  <2>2. Kind[n] \in Leaves => Len(Children[n]) = 0
    BY ArityAssumption
  <2> QED BY <2>1, <2>2
<1> HIDE DEF c
<1>4. status \in [Node -> {"idle", "open"} \union Result] /\ pos \in [Node -> Nat]
  BY DEF TypeInv, TypeOK
<1>5. c # Top
  BY <1>1, ForestFacts
<1>6. /\ status'[c] = "open" /\ status'[n] = status[n] /\ pos'[n] = pos[n] + 1
      /\ \A m \in Node : m # n /\ m # c =>
           status'[m] = status[m] /\ pos'[m] = pos[m]
  BY <1>1, <1>2, <1>4
<1> QED BY <1>1, <1>2, <1>3, <1>5, <1>6 DEF c

LEMMA EndingStep == TypeInv /\ StackInv /\ Ending /\ [Next]_vars => Ending'
<1> SUFFICES ASSUME TypeInv, StackInv, Ending, [Next]_vars PROVE Ending'
  OBVIOUS
<1>0. status \in [Node -> {"idle", "open"} \union Result] /\ pos \in [Node -> Nat]
  BY DEF TypeInv, TypeOK
<1>1. ASSUME NEW r \in Roots, Start(r) PROVE Ending'
  <2>1. /\ cur' = r /\ r # Top
        /\ pos' = [n \in Node |-> 0] /\ pending' = [n \in Node |-> <<>>]
    BY <1>1, ForestFacts DEF Start
  <2> QED BY <2>1 DEF Ending
<1>2. ASSUME NEW n \in Node, Call(n) PROVE Ending'
  <2>1. PICK c \in Node :
          /\ Kind[n] \notin Leaves
          /\ status[c] = "idle" /\ pos'[c] = pos[c] /\ c # n
          /\ status'[n] = status[n]
          /\ \A m \in Node : m # n /\ m # c =>
               status'[m] = status[m] /\ pos'[m] = pos[m]
          /\ pending' = pending /\ cur' = c /\ c # Top
    BY <1>2, CallMoves
  <2>2. \A m \in Node : status[m] \in Result => status'[m] \in Result
    BY <2>1 DEF Result
  <2>3. \A m \in Node : Kind[m] \in Leaves => pos'[m] = pos[m]
    BY <2>1
  <2> QED BY <2>1, <2>2, <2>3 DEF Ending
<1>3. ASSUME NEW n \in Node, EvalStep(n), ~ Call(n) PROVE Ending'
  <2>0. outcome = "running"
    BY <1>3 DEF EvalStep, CallFails, Return, SetVar, ReadVar, StartExec, EndExec,
         StartPipe, EndPipe, Log, Template, Restart, Active
  <2>1. /\ cur = n /\ Open(n)
        /\ \A m \in Node : m # n => status'[m] = status[m] /\ pos'[m] = pos[m]
        /\ \/ /\ status'[n] \in Result /\ pos'[n] = pos[n] /\ cur' = Parent[n]
           \/ /\ status'[n] = status[n] /\ pos'[n] = 1 /\ cur' = cur
           \/ /\ status'[n] = status[n] /\ pos'[n] = pos[n] /\ cur' = cur
    BY <1>3, <2>0, EvalEffect
  <2>2. \A m \in Node : status[m] \in Result => status'[m] \in Result
    BY <2>1
  <2>3. \A m \in Node : Kind[m] \in Leaves => pos'[m] <= 1
    BY <2>1 DEF Ending
  <2>4. \A m \in Node : pending'[m] # <<>> => status'[m] \in Result
    <3>1. ASSUME NEW v \in Result, Finish(n, v) PROVE status'[n] \in Result
      BY <1>0, <3>1 DEF Finish
    <3>2. \A m \in Node : pending'[m] = pending[m] \/ status'[m] \in Result
      BY <1>3, <3>1, PendingEffect
    <3> QED BY <2>2, <3>2 DEF Ending
  <2>5. cur' = Top => \E r \in Roots : status'[r] \in Result
    <3> SUFFICES ASSUME cur' = Top PROVE n \in Roots /\ status'[n] \in Result
      OBVIOUS
    <3>1. Parent[n] = Top /\ status'[n] \in Result
      BY <2>1, ForestFacts
    <3> QED BY <2>1, <3>1 DEF StackInv, StackIsPath
  <2> QED BY <2>3, <2>4, <2>5 DEF Ending
<1>4. ASSUME NEW n \in Node, LateOutput(n) PROVE Ending'
  <2>1. /\ UNCHANGED <<cur, status, pos, outcome>>
        /\ \A m \in Node : pending'[m] # <<>> => pending[m] # <<>>
    BY <1>4 DEF LateOutput, tree, TypeInv, TypeOK
  <2> QED BY <2>1 DEF Ending
<1>5. CASE Report
  <2>1. UNCHANGED <<cur, status, pos, pending>> /\ outcome' # "running"
    BY <1>5 DEF Report, tree, text, Result
  <2> QED BY <2>1 DEF Ending
<1>6. CASE UNCHANGED vars
  BY <1>6 DEF vars, Ending
<1> QED BY <1>1, <1>2, <1>3, <1>4, <1>5, <1>6 DEF Next

LEMMA EndingInvariant == Spec => [](TypeInv /\ StackInv /\ Ending)
<1>1. TypeInv /\ StackInv /\ Ending /\ [Next]_vars => Ending'
  BY EndingStep
<1> QED BY <1>1, StackInvariant, InitEnding, PTL DEF Spec

\* The evaluator never gets stuck, whatever the tree: a run that has not ended
\* has a promise on top of the stack whose condition for a next step holds,
\* or its root has returned and it is reported.
THEOREM EvaluatorNeverStuck ==
  Spec => [](outcome = "running" =>
               ReportReady \/ (cur \in Node /\ Open(cur) /\ StepReady(cur)))
<1>1. ASSUME TypeInv, StackInv, Ending, outcome = "running", cur # Top
      PROVE  cur \in Node /\ Open(cur) /\ StepReady(cur)
  <2>1. cur \in Node /\ Open(cur)
    BY <1>1 DEF StackInv, StackIsPath, TypeInv, TypeOK, Scope
  <2>2. PICK n \in Node : n = cur
    BY <2>1
  <2>3. pos[n] \in Nat /\ Len(Children[n]) \in Nat
    BY ForestFacts, <1>1 DEF TypeInv, TypeOK
  <2>4. CASE Kind[n] \in Leaves
    <3>1. pos[n] <= 1
      BY <1>1, <2>4 DEF Ending
    <3>2. pos[n] \in {0, 1}
      BY <2>3, <3>1
    <3> QED BY <2>1, <2>2, <2>4, <3>2 DEF StepReady
  <2>5. CASE Kind[n] \notin Leaves
    <3>1. Len(Children[n]) > 0
      <4>1. Kind[n] \in Unary \/ Kind[n] \in Nary
        BY <2>5, ArityAssumption DEF Kinds
      <4>2. Len(Children[n]) = 1 \/ Len(Children[n]) >= 2
        BY <4>1, ArityAssumption
      <4>3. \A k \in Nat : k = 1 \/ k >= 2 => k > 0
        OBVIOUS
      <4> QED BY <2>3, <4>2, <4>3
    <3>2. CallsNext(n) \/ Decided(n)
      <4>1. CASE pos[n] = 0
        BY <3>1, <4>1 DEF CallsNext
      <4>2. CASE pos[n] # 0
        BY <2>3, <4>2 DEF Decided
      <4> QED BY <4>1, <4>2
    <3> QED BY <2>1, <2>2, <2>5, <3>2 DEF StepReady
  <2> QED BY <2>4, <2>5
<1>2. TypeInv /\ StackInv /\ Ending =>
        (outcome = "running" =>
           ReportReady \/ (cur \in Node /\ Open(cur) /\ StepReady(cur)))
  BY <1>1 DEF Ending, ReportReady
<1> QED BY <1>2, EndingInvariant, PTL

\* The ranks are within what is possible.
Ranged ==
  \A n \in Node :
    /\ EvalRank(n) \in 0 .. Len(Children[n]) + 3
    /\ OutputRank(n) \in 0 .. Len(Children[n]) + 3
    /\ RunRank \in 0 .. Len(Children[n]) + 3
    /\ Open(n) => EvalRank(n) < Len(Children[n]) + 3

LEMMA RanksAre == TypeInv /\ Ending => Ranged
<1> SUFFICES ASSUME TypeInv, Ending, NEW n \in Node
             PROVE  /\ EvalRank(n) \in 0 .. Len(Children[n]) + 3
                    /\ OutputRank(n) \in 0 .. Len(Children[n]) + 3
                    /\ RunRank \in 0 .. Len(Children[n]) + 3
                    /\ Open(n) => EvalRank(n) < Len(Children[n]) + 3
  BY DEF Ranged
<1>1. pos[n] \in Nat /\ Len(Children[n]) \in Nat
  BY ForestFacts DEF TypeInv, TypeOK
<1>2. pos[n] <= Len(Children[n]) + 1
  BY <1>1 DEF TypeInv, PosInBounds, Ending
<1> QED BY <1>1, <1>2 DEF EvalRank, OutputRank, RunRank, Open

\* Every rank stays or grows in a step of a run, and one grows.
LEMMA RanksMove ==
  ASSUME TypeInv, StackInv, Ending, outcome = "running", Next,
         TypeInv', Ranged
  PROVE  /\ \A k \in Part : \A n \in Node : Rank(k, n) <= Rank(k, n)'
         /\ \E k \in Part : \E n \in Node : Rank(k, n) < Rank(k, n)'
<1>0. /\ \A n \in Node : pos[n] \in Nat /\ pos'[n] \in Nat /\ Len(Children[n]) \in Nat
      /\ RunRank = 0 /\ RunRank' \in {0, 1} /\ (outcome' # "running" => RunRank' = 1)
      /\ \A n \in Node : OutputRank(n) \in {0, 1, 2} /\ OutputRank(n)' \in {0, 1, 2}
  BY ForestFacts DEF TypeInv, TypeOK, RunRank, OutputRank
<1>a. \A n \in Node : EvalRank(n) \in Nat /\ EvalRank(n)' \in Nat
  <2>1. ASSUME NEW n \in Node PROVE EvalRank(n) \in Nat /\ EvalRank(n)' \in Nat
    BY <1>0 DEF EvalRank
  <2> QED BY <2>1
<1>b. SUFFICES
        /\ \A n \in Node : EvalRank(n) <= EvalRank(n)' /\ OutputRank(n) <= OutputRank(n)'
        /\ \E n \in Node : \/ EvalRank(n) < EvalRank(n)'
                           \/ OutputRank(n) < OutputRank(n)'
                           \/ RunRank < RunRank'
  <2>1. \A n \in Node :
          /\ Rank("eval", n) = EvalRank(n) /\ Rank("eval", n)' = EvalRank(n)'
          /\ Rank("output", n) = OutputRank(n) /\ Rank("output", n)' = OutputRank(n)'
          /\ Rank("run", n) = RunRank /\ Rank("run", n)' = RunRank'
    BY DEF Rank
  <2>2. RunRank <= RunRank'
    BY <1>0
  <2> QED BY <1>b, <2>1, <2>2 DEF Part
<1>1. ASSUME NEW n \in Node, status'[n] = status[n], pos'[n] = pos[n]
      PROVE  EvalRank(n)' = EvalRank(n)
  BY <1>1 DEF EvalRank
<1>2. ASSUME NEW n \in Node, status[n] \in Result => status'[n] \in Result,
             status[n] \in Result => pending'[n] = <<>> \/ pending'[n] = pending[n]
      PROVE  OutputRank(n) <= OutputRank(n)'
  BY <1>2 DEF OutputRank
<1>3. ASSUME NEW n \in Node, Call(n)
      PROVE  /\ \A m \in Node : EvalRank(m) <= EvalRank(m)' /\ OutputRank(m) <= OutputRank(m)'
             /\ EvalRank(n) < EvalRank(n)'
  <2>1. PICK c \in Node :
          /\ Open(n) /\ status[c] = "idle" /\ status'[c] = "open" /\ c # n
          /\ status'[n] = status[n] /\ pos'[n] = pos[n] + 1
          /\ \A m \in Node : m # n /\ m # c =>
               status'[m] = status[m] /\ pos'[m] = pos[m]
          /\ pending' = pending
    BY <1>3, CallMoves
  <2>2. EvalRank(n) < EvalRank(n)'
    BY <1>0, <2>1 DEF EvalRank, Open
  <2>3. EvalRank(c) <= EvalRank(c)'
    BY <1>0, <2>1 DEF EvalRank
  <2>4. ASSUME NEW m \in Node PROVE EvalRank(m) <= EvalRank(m)'
    <3>1. CASE m # n /\ m # c
      BY <1>1, <1>a, <2>1, <3>1
    <3> QED BY <1>a, <2>2, <2>3, <3>1
  <2>5. ASSUME NEW m \in Node PROVE OutputRank(m) <= OutputRank(m)'
    BY <1>2, <2>1 DEF Result
  <2> QED BY <2>2, <2>4, <2>5
<1>4. ASSUME NEW n \in Node, EvalStep(n), ~ Call(n)
      PROVE  /\ \A m \in Node : EvalRank(m) <= EvalRank(m)' /\ OutputRank(m) <= OutputRank(m)'
             /\ EvalRank(n) < EvalRank(n)' \/ RunRank < RunRank'
  <2>1. /\ Open(n)
        /\ \A m \in Node : m # n => status'[m] = status[m] /\ pos'[m] = pos[m]
        /\ \/ status'[n] \in Result
           \/ status'[n] = status[n] /\ pos[n] = 0 /\ pos'[n] = 1
           \/ status'[n] = status[n] /\ pos'[n] = pos[n] /\ outcome' # "running"
    BY <1>4, EvalEffect
  <2>2. EvalRank(n) < Len(Children[n]) + 3
    BY <2>1 DEF Ranged
  <2>3. status'[n] \in Result => EvalRank(n)' = Len(Children[n]) + 3
    BY DEF EvalRank, Result
  <2>4. /\ EvalRank(n) <= EvalRank(n)'
        /\ EvalRank(n) < EvalRank(n)' \/ RunRank < RunRank'
    <3>1. CASE status'[n] \in Result
      BY <1>0, <1>a, <2>2, <2>3, <3>1
    <3>2. CASE status'[n] = status[n] /\ pos[n] = 0 /\ pos'[n] = 1
      BY <2>1, <3>2 DEF EvalRank, Open
    <3>3. CASE status'[n] = status[n] /\ pos'[n] = pos[n] /\ outcome' # "running"
      BY <1>0, <1>1, <1>a, <3>3
    <3> QED BY <2>1, <3>1, <3>2, <3>3
  <2>5. ASSUME NEW m \in Node PROVE EvalRank(m) <= EvalRank(m)'
    BY <1>1, <1>a, <2>1, <2>4
  <2>6. ASSUME NEW m \in Node PROVE OutputRank(m) <= OutputRank(m)'
    <3>1. CASE m # n
      <4>1. status'[m] = status[m] /\ pending'[m] = pending[m]
        BY <1>4, <2>1, <3>1, PendingEffect
      <4> QED BY <1>2, <4>1
    <3>2. CASE m = n
      BY <1>2, <2>1, <3>2 DEF Open, Result
    <3> QED BY <3>1, <3>2
  <2> QED BY <2>4, <2>5, <2>6
<1>5. ASSUME NEW n \in Node, LateOutput(n)
      PROVE  /\ \A m \in Node : EvalRank(m) <= EvalRank(m)' /\ OutputRank(m) <= OutputRank(m)'
             /\ OutputRank(n) < OutputRank(n)'
  <2>1. /\ UNCHANGED <<status, pos>> /\ pending[n] # <<>> /\ pending'[n] = <<>>
        /\ \A m \in Node : m # n => pending'[m] = pending[m]
    BY <1>5 DEF LateOutput, tree, TypeInv, TypeOK
  <2>2. OutputRank(n) < OutputRank(n)'
    BY <2>1 DEF OutputRank, Ending
  <2>3. ASSUME NEW m \in Node PROVE EvalRank(m) <= EvalRank(m)' /\ OutputRank(m) <= OutputRank(m)'
    BY <1>1, <1>2, <1>a, <2>1
  <2> QED BY <2>2, <2>3
<1>6. CASE Report
  <2>1. /\ UNCHANGED <<status, pos, pending>> /\ outcome' # "running"
        /\ \E r \in Roots : r \in Node
    BY <1>6, ForestFacts DEF Report, tree, text, Result
  <2>2. ASSUME NEW m \in Node PROVE EvalRank(m) <= EvalRank(m)' /\ OutputRank(m) <= OutputRank(m)'
    BY <1>1, <1>2, <1>a, <2>1
  <2> QED BY <1>0, <2>1, <2>2
<1>7. \A r \in Roots : ~ Start(r)
  BY DEF Start
<1> QED BY <1>3, <1>4, <1>5, <1>6, <1>7 DEF Next

LEMMA PossibleIsFinite == IsFiniteSet(Node) => IsFiniteSet(Possible)
<1>1. ASSUME NEW n \in Node PROVE IsFiniteSet(PossibleIn(n))
  <2> DEFINE last == Len(Children[n]) + 3
  <2>1. 1 \in Int /\ last \in Int
    BY ForestFacts
  <2> HIDE DEF last
  <2>2. IsFiniteSet(1 .. last)
    BY <2>1, FS_Interval
  <2>3. IsFiniteSet(Part)
    <3>1. IsFiniteSet({"eval"} \union {"output"})
      BY FS_Singleton, FS_AddElement
    <3>2. IsFiniteSet(({"eval"} \union {"output"}) \union {"run"})
      BY <3>1, FS_AddElement
    <3>3. Part = ({"eval"} \union {"output"}) \union {"run"}
      BY DEF Part
    <3> QED BY <3>2, <3>3
  <2>4. IsFiniteSet({n})
    BY FS_Singleton
  <2>5. IsFiniteSet(Part \X {n})
    BY <2>3, <2>4, FS_Product
  <2>6. IsFiniteSet((Part \X {n}) \X (1 .. last))
    BY <2>2, <2>5, FS_Product
  <2> QED BY <2>6 DEF PossibleIn, last
<1>2. ASSUME IsFiniteSet(Node) PROVE IsFiniteSet({PossibleIn(n) : n \in Node})
  <2> DEFINE f == [n \in Node |-> PossibleIn(n)]
             T == {PossibleIn(n) : n \in Node}
  <2>1. f \in Surjection(Node, T)
    BY DEF Surjection
  <2> HIDE DEF f, T
  <2>2. IsFiniteSet(T)
    BY <1>2, <2>1, FS_Surjection
  <2> QED BY <2>2 DEF T
<1> DEFINE T == {PossibleIn(n) : n \in Node}
<1>3. \A t \in T : IsFiniteSet(t)
  BY <1>1
<1>4. IsFiniteSet(Node) => IsFiniteSet(T)
  BY <1>2
<1> HIDE DEF T
<1>5. IsFiniteSet(Node) => IsFiniteSet(UNION T)
  BY <1>3, <1>4, FS_UNION
<1> QED BY <1>5 DEF Possible, T

\* Every step of a run, of the evaluator or of output that comes late, does
\* something new, and in a finite forest only finitely much is possible: no
\* promise makes an evaluation go on for ever.
THEOREM EvaluationStepsAreFinite ==
  /\ IsFiniteSet(Node) => IsFiniteSet(Possible)
  /\ Spec => [][outcome = "running" => Done \subseteq Done' /\ Done # Done']_vars
<1>1. ASSUME TypeInv, StackInv, Ending, outcome = "running", Next, TypeInv', Ranged, Ranged'
      PROVE  Done \subseteq Done' /\ Done # Done'
  <2>1. /\ \A k \in Part : \A n \in Node : Rank(k, n) <= Rank(k, n)'
        /\ \E k \in Part : \E n \in Node : Rank(k, n) < Rank(k, n)'
    BY <1>1, RanksMove
  <2>2. ASSUME NEW k \in Part, NEW n \in Node
        PROVE  Rank(k, n) \in 0 .. Len(Children[n]) + 3 /\ Rank(k, n)' \in 0 .. Len(Children[n]) + 3
    BY <1>1 DEF Ranged, Rank
  <2>3. \A n \in Node : Len(Children[n]) \in Nat
    BY ForestFacts
  <2>4. ASSUME NEW d \in Done PROVE d \in Done'
    <3>1. PICK k \in Part, n \in Node : d[1] = <<k, n>> /\ d[2] \in 1 .. Len(Children[n]) + 3
      BY DEF Done, Possible, PossibleIn
    <3>2. d \in Possible /\ d[2] <= Rank(k, n)
      BY <3>1 DEF Done
    <3>3. Rank(k, n) <= Rank(k, n)' /\ Rank(k, n) \in Nat /\ Rank(k, n)' \in Nat /\ d[2] \in Nat
      BY <2>1, <2>2, <2>3, <3>1
    <3>4. d[2] <= Rank(k, n)'
      BY <3>2, <3>3
    <3> QED BY <3>1, <3>2, <3>4 DEF Done, Possible, PossibleIn, Part
  <2>5. PICK k \in Part, n \in Node : Rank(k, n) < Rank(k, n)'
    BY <2>1
  <2> DEFINE d == <<<<k, n>>, Rank(k, n)'>>
  <2>6. d \in Possible
    <3>1. Rank(k, n)' \in 1 .. Len(Children[n]) + 3
      BY <2>2, <2>3, <2>5
    <3> QED BY <3>1 DEF Possible, PossibleIn
  <2>7. d \in Done' /\ d \notin Done
    <3>1. ~ (Rank(k, n)' <= Rank(k, n)) /\ Rank(k, n)' <= Rank(k, n)'
      BY <2>2, <2>3, <2>5
    <3> QED BY <2>6, <3>1 DEF Done, Possible, PossibleIn, Part
  <2> QED BY <2>4, <2>7
<1>2. TypeInv /\ StackInv /\ Ending /\ TypeInv' /\ Ranged /\ Ranged' /\ [Next]_vars
        => [outcome = "running" => Done \subseteq Done' /\ Done # Done']_vars
  BY <1>1
<1>3. Spec => [][outcome = "running" => Done \subseteq Done' /\ Done # Done']_vars
  BY <1>2, EndingInvariant, RanksAre, PTL DEF Spec
<1> QED BY <1>3, PossibleIsFinite
=============================================================================
