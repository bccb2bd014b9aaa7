---------------------------- MODULE PromiseClaims ----------------------------
(***************************************************************************)
(* What the counters logged at the end of a run say of it, whatever else   *)
(* has been evaluated in the process before, and what the Readme says of   *)
(* changes, reports and variables.                                         *)
(***************************************************************************)
EXTENDS PromiseEval

\* Executions of the current run whose Eval has returned, pipes whose
\* upstream stages have been started, and pipes all of whose stages ran.
EndedExecs   == {n \in Node : Kind[n] = "exec" /\ status[n] \in Result}
StartedPipes == {n \in Node : Kind[n] = "pipe" /\ pos[n] = 1}
MetPipes     == {n \in Node : Kind[n] = "pipe" /\ status[n] = "met"}

\* The stages of a pipe but the last.
Upstream == [n \in Node |-> Prefix(Stages[n], Len(Stages[n]) - 1)]

\* Where these promises have a stage of this type.
PlacesIn(n, stages, type) == {n} \X {i \in DOMAIN stages[n] : stages[n][i] = type}
Places(S, stages, type) == UNION {PlacesIn(n, stages, type) : n \in S}

ExecsOf(type)    == Cardinality(Places(EndedExecs, Stages, type))
UpstreamOf(type) == Cardinality(Places(StartedPipes, Upstream, type))
StagesOf(type)   == Cardinality(Places(StartedPipes, Stages, type))

\* Last stages that were certainly executed.
LastsOf(type) ==
  Cardinality({n \in MetPipes : Stages[n][Len(Stages[n])] = type})

Counts == IF outcome \in Result THEN report ELSE logger

\* The counters, and the report at the end, grow with the tree that is
\* evaluated: every execution that has returned and every upstream stage that
\* has been started is counted, wherever it is in the tree, and nothing is
\* counted twice or without being part of a promise that has begun.  Whether
\* the last stage of a pipe is counted, and what an aborted run leaves, is
\* the matter of ChangesReported.
CountedOnce ==
  outcome \in {"running"} \union Result =>
    /\ Counts.changes - carried.changes \in
         ExecsOf("change") + UpstreamOf("change") .. ExecsOf("change") + StagesOf("change")
    /\ Counts.tests - carried.tests \in
         ExecsOf("test") + UpstreamOf("test") .. ExecsOf("test") + StagesOf("test")

-----------------------------------------------------------------------------
(***************************************************************************)
(* What the documents say and the code does otherwise.                     *)
(***************************************************************************)

\* Readme.md:69, of changes: "you surly want that be reported"; and what is
\* logged at the end of a run are the changes "executed in" the time of this
\* run (context.go:643).  The report of a run counts every change that it has
\* executed, and none that it has not.
ChangesReported ==
  outcome \in Result =>
    report.changes \in ExecsOf("change") + UpstreamOf("change") + LastsOf("change")
                         .. ExecsOf("change") + StagesOf("change")

\* Readme.md:110: "This way you can overwrite variables locally".  No run is
\* ended for binding a variable that the body of a named promise has only
\* inherited.
OverwritesLocally ==
  outcome = "redefined" =>
    LET m == ctx[cur].vars IN m \in Node => BoundIn(m, VarName[cur])
=============================================================================
