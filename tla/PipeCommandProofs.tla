------------------------- MODULE PipeCommandProofs -------------------------
(***************************************************************************)
(* Proofs about PipeCommand, for every number of stages, whatever each     *)
(* wants to read, and every size of the kernel pipes.                      *)
(***************************************************************************)
EXTENDS PipeCommand, FiniteSetTheorems, WellFoundedInduction, TLAPS

-----------------------------------------------------------------------------
(***************************************************************************)
(* The inductive invariant: pipes hold what they can; no stage reads more  *)
(* than any stage up to it wants; one that has ended has passed on the     *)
(* least of these; what Eval has waited for is reaped, its pipe closed.    *)
(***************************************************************************)
Conserved ==
  \A i \in Stage :
    /\ wrote[i] <= read[i] /\ read[i] <= Takes[i]
    /\ i < Stages => InPipe(i) \in 0 .. PipeSize

Limited == \A i \in Stage : \A j \in 1 .. i : read[i] <= Takes[j]

Finished ==
  \A i \in Stage : Ended(i) =>
    wrote[i] = read[i] /\ \E j \in 1 .. i : read[i] = Takes[j]

Waited ==
  /\ pc = "run" => next = 1
  /\ \A i \in Upstream :
       \/ pc = "wait" /\ i < next
       \/ pc \in {"return", "returned"}
       => proc[i] = "reaped" /\ ~ serverEnd[i]

PipeInv == TypeOK /\ Conserved /\ Limited /\ Finished /\ Waited /\ ReadEndStays

\* A number that is among those and at most each of them is the least.
LEMMA LeastIsGets ==
  ASSUME NEW i \in Stage, NEW n \in {Takes[j] : j \in 1 .. i},
         \A j \in 1 .. i : n <= Takes[j]
  PROVE  Gets(i) = n
<1> DEFINE S == {Takes[j] : j \in 1 .. i}
           least(x) == x \in S /\ \A y \in S : x <= y
<1>1. least(n)
  OBVIOUS
<1>2. S \subseteq Nat
  BY PipeAssumption DEF Stage
<1>3. ASSUME NEW m, least(m) PROVE m = n
  BY <1>1, <1>2, <1>3
<1>4. Gets(i) = CHOOSE x \in S : \A y \in S : x <= y
  BY DEF Gets, Min
<1> QED BY <1>1, <1>3, <1>4

LEMMA InitPipe == Init => PipeInv
BY PipeAssumption DEF Init, PipeInv, TypeOK, Conserved, Limited, Finished, Waited,
   ReadEndStays, InPipe, Alive, Ended, Stage, Upstream

\* The steps of Eval and the warning: they move no line.
LEMMA EvalKeeps ==
  ASSUME PipeInv, Eval \/ Warn
  PROVE  PipeInv'
<1>0. /\ Stages \in Nat \ {0} /\ next \in 1 .. Stages
      /\ proc \in [Stage -> {"none", "running", "exited", "reaped"}]
      /\ serverEnd \in [Upstream -> BOOLEAN]
      /\ Stages \in Stage /\ 1 \in 1 .. Stages
      /\ MoreStages => next \in Stage /\ next \in Upstream /\ next + 1 \in 1 .. Stages
  BY PipeAssumption DEF PipeInv, TypeOK, MoreStages, Stage, Upstream
<1>1. TypeOK'
  <2>1. CASE StartStage
    BY <1>0, <2>1 DEF PipeInv, TypeOK, StartStage, files
  <2>2. CASE StartLast
    BY <1>0, <2>2 DEF PipeInv, TypeOK, StartLast, files
  <2>3. CASE RunReturns
    BY <1>0, <2>3 DEF PipeInv, TypeOK, RunReturns, files
  <2>4. CASE WaitStage
    BY <1>0, <2>4 DEF PipeInv, TypeOK, WaitStage, files
  <2>5. CASE WaitEnds \/ Leave \/ Warn
    BY <1>0, <2>5 DEF PipeInv, TypeOK, WaitEnds, Leave, Warn, files
  <2> QED BY <2>1, <2>2, <2>3, <2>4, <2>5 DEF Eval
<1>2. read' = read /\ wrote' = wrote
  BY DEF Eval, Warn, StartStage, StartLast, RunReturns, WaitStage, WaitEnds, Leave, files
<1>3. Conserved' /\ Limited'
  BY <1>2 DEF PipeInv, Conserved, Limited, InPipe
<1>4. ASSUME NEW i \in Stage, Ended(i)' PROVE Ended(i)
  BY <1>4 DEF PipeInv, TypeOK, Eval, Warn, StartStage, StartLast, RunReturns, WaitStage,
     WaitEnds, Leave, Ended, Exited
<1>5. Finished'
  BY <1>2, <1>4 DEF PipeInv, Finished
<1>6. Waited' /\ ReadEndStays'
  <2>a. pc' = "run" => next' = 1
    BY DEF PipeInv, Waited, Eval, Warn, StartStage, StartLast, RunReturns, WaitStage,
       WaitEnds, Leave
  <2> SUFFICES ASSUME NEW i \in Upstream
               PROVE  /\ \/ pc' = "wait" /\ i < next'
                         \/ pc' \in {"return", "returned"}
                         => proc'[i] = "reaped" /\ ~ serverEnd'[i]
                      /\ proc'[i] = "running" => serverEnd'[i]
    BY <2>a DEF Waited, ReadEndStays, Alive
  <2>0. /\ i \in Stage /\ i # Stages /\ i < Stages /\ i \in Nat \ {0}
        /\ proc[i] = "running" => serverEnd[i]
        /\ \/ pc = "wait" /\ i < next
           \/ pc \in {"return", "returned"}
           => proc[i] = "reaped" /\ ~ serverEnd[i]
    BY PipeAssumption DEF PipeInv, Waited, ReadEndStays, Alive, Stage, Upstream
  <2>1. CASE StartStage
    BY <1>0, <2>0, <2>1 DEF StartStage
  <2>2. CASE StartLast
    BY <1>0, <2>0, <2>2 DEF StartLast, Stage
  <2>3. CASE RunReturns
    <3>1. pc = "run" /\ pc' = "wait" /\ next' = next /\ serverEnd' = serverEnd
          /\ proc' = [proc EXCEPT ![Stages] = "reaped"]
      BY <2>3 DEF RunReturns
    <3>2. next = 1
      BY <3>1 DEF PipeInv, Waited
    <3> QED BY <1>0, <2>0, <3>1, <3>2
  <2>4. CASE WaitStage
    BY <1>0, <2>0, <2>4 DEF WaitStage, Exited
  <2>5. CASE WaitEnds \/ Leave \/ Warn
    BY <1>0, <2>0, <2>5 DEF WaitEnds, AllWaited, Leave, Warn
  <2> QED BY <2>1, <2>2, <2>3, <2>4, <2>5 DEF Eval
<1> QED BY <1>1, <1>3, <1>5, <1>6 DEF PipeInv

\* What a pipe holds is between nothing and its size.
LEMMA Counts ==
  ASSUME PipeInv, NEW i \in Stage
  PROVE  /\ read[i] \in Nat /\ wrote[i] \in Nat /\ wrote[i] <= read[i]
         /\ \A j \in 1 .. i : read[i] <= Takes[j]
         /\ i > 1 => /\ i - 1 \in Stage /\ i - 1 \in Upstream
                     /\ read[i - 1] \in Nat /\ wrote[i - 1] \in Nat
                     /\ wrote[i - 1] <= read[i - 1]
                     /\ read[i] <= wrote[i - 1]
                     /\ InPipe(i - 1) = wrote[i - 1] - read[i]
  <1>1. i \in Nat \ {0} /\ i <= Stages
    BY PipeAssumption DEF Stage
  <1>2. ASSUME i > 1
        PROVE  i - 1 \in Stage /\ i - 1 \in Upstream /\ i - 1 < Stages /\ (i - 1) + 1 = i
    BY <1>1, <1>2, PipeAssumption DEF Stage, Upstream
  <1> QED BY <1>2 DEF PipeInv, TypeOK, Conserved, Limited, InPipe

\* A stage reads a line, writes one, or exits.
LEMMA ProcessKeeps ==
  ASSUME PipeInv, NEW i \in Stage, Process(i)
  PROVE  PipeInv'
<1>0. /\ Stages \in Nat \ {0} /\ Takes \in [Stage -> Nat] /\ PipeSize \in Nat
      /\ Stage = 1 .. Stages
      /\ proc \in [Stage -> {"none", "running", "exited", "reaped"}]
      /\ read \in [Stage -> Nat] /\ wrote \in [Stage -> Nat]
  BY PipeAssumption DEF PipeInv, TypeOK, Stage
<1>1. TypeOK'
  <2>1. CASE Reads(i)
    BY <2>1 DEF PipeInv, TypeOK, Reads
  <2>2. CASE Writes(i)
    BY <2>2 DEF PipeInv, TypeOK, Writes
  <2>3. CASE Exits(i)
    BY <1>0, <2>3 DEF PipeInv, TypeOK, Exits, files
  <2> QED BY <2>1, <2>2, <2>3 DEF Process
<1>2. Waited' /\ ReadEndStays'
  <2>1. /\ pc' = pc /\ next' = next /\ serverEnd' = serverEnd
        /\ proc' = proc \/ (proc[i] = "running" /\ proc' = [proc EXCEPT ![i] = "exited"])
    BY DEF Process, Reads, Writes, Exits, files, Alive
  <2>2. \A k \in Upstream :
          /\ proc[k] = "reaped" => proc'[k] = "reaped"
          /\ proc'[k] = "running" => proc[k] = "running"
    <3>1. Upstream \subseteq Stage
      BY <1>0 DEF Upstream
    <3> QED BY <1>0, <2>1, <3>1
  <2> QED BY <2>1, <2>2 DEF PipeInv, Waited, ReadEndStays, Alive
<1>3. CASE Reads(i)
  <2>0. /\ Alive(i) /\ read[i] < Takes[i] /\ wrote[i] = read[i]
        /\ i > 1 => InPipe(i - 1) > 0
        /\ read' = [read EXCEPT ![i] = @ + 1]
        /\ wrote' = wrote /\ proc' = proc
    BY <1>3 DEF Reads
  <2>1. \A j \in 1 .. i : read[i] + 1 <= Takes[j]
    <3> SUFFICES ASSUME NEW j \in 1 .. i PROVE read[i] + 1 <= Takes[j]
      OBVIOUS
    <3>1. CASE j = i
      BY <1>0, <2>0, <3>1
    <3>2. CASE j < i
      <4>1. i > 1 /\ j \in 1 .. i - 1 /\ j \in Stage
        BY <1>0, <3>2
      <4>2. read[i - 1] <= Takes[j]
        BY <4>1, Counts
      <4>3. /\ wrote[i - 1] - read[i] > 0 /\ wrote[i - 1] <= read[i - 1]
            /\ read[i - 1] \in Nat /\ wrote[i - 1] \in Nat
        BY <2>0, <4>1, Counts
      <4>4. Takes[j] \in Nat /\ read[i] \in Nat
        BY <1>0, <4>1
      <4> QED BY <4>2, <4>3, <4>4
    <3> QED BY <1>0, <3>1, <3>2
  <2>2. Limited'
    BY <1>0, <2>0, <2>1 DEF PipeInv, Limited
  <2>3. Conserved'
    <3> SUFFICES ASSUME NEW k \in Stage
                 PROVE  /\ wrote[k] <= read'[k] /\ read'[k] <= Takes[k]
                        /\ k < Stages => wrote[k] - read'[k + 1] \in 0 .. PipeSize
      BY <2>0 DEF Conserved, InPipe
    <3>1. /\ wrote[k] <= read[k] /\ read[k] <= Takes[k]
          /\ k < Stages => wrote[k] - read[k + 1] \in 0 .. PipeSize
      BY DEF PipeInv, Conserved, InPipe
    <3>2. CASE k = i
      BY <1>0, <2>0, <3>1, <3>2
    <3>3. CASE k + 1 = i
      <4>1. k = i - 1 /\ i > 1 /\ k \in Nat /\ read'[k] = read[k] /\ read'[i] = read[i] + 1
        BY <1>0, <2>0, <3>3
      <4>2. wrote[k] - read[i] > 0 /\ wrote[k] - read[i] \in 0 .. PipeSize
        BY <2>0, <3>1, <3>3, <4>1, <1>0 DEF InPipe
      <4>3. wrote[k] \in Nat /\ read[i] \in Nat
        BY <1>0
      <4>4. k < Stages => wrote[k] - read'[k + 1] \in 0 .. PipeSize
        <5>1. read'[k + 1] = read[i] + 1
          BY <3>3, <4>1
        <5>2. wrote[k] - (read[i] + 1) \in 0 .. PipeSize
          <6>1. PipeSize \in Nat
            BY <1>0
          <6> QED BY <4>2, <4>3, <6>1
        <5> QED BY <5>1, <5>2
      <4> QED BY <3>1, <4>1, <4>4
    <3>4. CASE k # i /\ k + 1 # i
      BY <1>0, <2>0, <3>1, <3>4
    <3> QED BY <3>2, <3>3, <3>4
  <2>4. Finished'
    BY <1>0, <2>0 DEF PipeInv, Finished, Ended, Alive
  <2> QED BY <1>1, <1>2, <2>2, <2>3, <2>4 DEF PipeInv
<1>4. CASE Writes(i)
  <2>0. /\ Alive(i) /\ wrote[i] < read[i]
        /\ i < Stages => wrote[i] - read[i + 1] < PipeSize
        /\ wrote' = [wrote EXCEPT ![i] = @ + 1]
        /\ read' = read /\ proc' = proc
    BY <1>4 DEF Writes, HasRoom, InPipe
  <2>1. Limited'
    BY <2>0 DEF PipeInv, Limited
  <2>2. Conserved'
    <3> SUFFICES ASSUME NEW k \in Stage
                 PROVE  /\ wrote'[k] <= read[k] /\ read[k] <= Takes[k]
                        /\ k < Stages => wrote'[k] - read[k + 1] \in 0 .. PipeSize
      BY <2>0 DEF Conserved, InPipe
    <3>1. /\ wrote[k] <= read[k] /\ read[k] <= Takes[k]
          /\ k < Stages => wrote[k] - read[k + 1] \in 0 .. PipeSize
      BY DEF PipeInv, Conserved, InPipe
    <3>2. wrote[k] \in Nat /\ read[k] \in Nat /\ (k < Stages => read[k + 1] \in Nat)
      BY <1>0
    <3>3. CASE k = i
      <4>1. wrote'[k] = wrote[k] + 1 /\ wrote[k] < read[k]
        BY <1>0, <2>0, <3>3
      <4>2. k < Stages => wrote[k] - read[k + 1] < PipeSize
        BY <2>0, <3>3
      <4>3. wrote'[k] <= read[k]
        BY <3>2, <4>1
      <4>4. k < Stages => wrote'[k] - read[k + 1] \in 0 .. PipeSize
        <5> SUFFICES ASSUME k < Stages
                     PROVE  (wrote[k] + 1) - read[k + 1] \in 0 .. PipeSize
          BY <4>1
        <5>1. PipeSize \in Nat
          BY <1>0
        <5> QED BY <3>1, <3>2, <4>2, <5>1
      <4> QED BY <3>1, <4>3, <4>4
    <3>4. CASE k # i
      BY <1>0, <2>0, <3>1, <3>4
    <3> QED BY <3>3, <3>4
  <2>3. Finished'
    BY <1>0, <2>0 DEF PipeInv, Finished, Ended, Alive
  <2> QED BY <1>1, <1>2, <2>1, <2>2, <2>3 DEF PipeInv
<1>5. CASE Exits(i)
  <2>0. /\ Alive(i) /\ wrote[i] = read[i]
        /\ read[i] = Takes[i] \/ EndOfInput(i)
        /\ proc' = [proc EXCEPT ![i] = "exited"]
        /\ read' = read /\ wrote' = wrote
    BY <1>5 DEF Exits, files
  <2>1. \E j \in 1 .. i : read[i] = Takes[j]
    <3>1. CASE read[i] = Takes[i]
      BY <1>0, <3>1
    <3>2. CASE EndOfInput(i)
      <4>1. i > 1 /\ InPipe(i - 1) = 0 /\ Ended(i - 1)
        BY <3>2 DEF EndOfInput
      <4>2. /\ wrote[i - 1] = read[i - 1]
            /\ \E j \in 1 .. i - 1 : read[i - 1] = Takes[j]
        BY <4>1, Counts DEF PipeInv, Finished
      <4>3. read[i] = read[i - 1]
        BY <4>1, <4>2, Counts
      <4> QED BY <1>0, <4>1, <4>2, <4>3
    <3> QED BY <2>0, <3>1, <3>2
  <2>2. Finished'
    BY <1>0, <2>0, <2>1 DEF PipeInv, Finished, Ended
  <2>3. Conserved' /\ Limited'
    BY <2>0 DEF PipeInv, Conserved, Limited, InPipe
  <2> QED BY <1>1, <1>2, <2>2, <2>3 DEF PipeInv
<1> QED BY <1>3, <1>4, <1>5 DEF Process

LEMMA PipeInvariant == Spec => []PipeInv
<1>1. PipeInv /\ [Next]_vars => PipeInv'
  <2> SUFFICES ASSUME PipeInv, [Next]_vars PROVE PipeInv'
    OBVIOUS
  <2>1. CASE Next
    BY <2>1, EvalKeeps, ProcessKeeps DEF Next
  <2>2. CASE UNCHANGED vars
    BY <2>2 DEF vars, files, PipeInv, TypeOK, Conserved, Limited, Finished, Waited,
       ReadEndStays, InPipe, Ended, Alive
  <2> QED BY <2>1, <2>2
<1> QED BY InitPipe, <1>1, PTL DEF Spec

-----------------------------------------------------------------------------
(***************************************************************************)
(* The theorems.                                                           *)
(***************************************************************************)

\* The state of a pipe is well typed: Eval waits for none but its stages.
THEOREM PipeTypeCorrect == Spec => []TypeOK
<1>1. PipeInv => TypeOK
  BY DEF PipeInv
<1> QED BY <1>1, PipeInvariant, PTL

\* A stage is never killed by SIGPIPE: the server holds the read end of its
\* pipe for as long as it runs.  This is why Exits is the only way to end.
THEOREM NoStageIsBroken == Spec => []ReadEndStays
<1>1. PipeInv => ReadEndStays
  BY DEF PipeInv
<1> QED BY <1>1, PipeInvariant, PTL

\* A pipe that is met or unmet has left no process and no open pipe behind,
\* and has the whole output of its last stage.
THEOREM PipesComplete == Spec => []Complete
<1>1. PipeInv => Complete
  <2> SUFFICES ASSUME PipeInv, pc = "returned"
               PROVE  /\ \A i \in Upstream : proc[i] = "reaped" /\ ~ serverEnd[i]
                      /\ proc[Stages] = "reaped" => wrote[Stages] = Gets(Stages)
    BY DEF Complete
  <2>1. \A i \in Upstream : proc[i] = "reaped" /\ ~ serverEnd[i]
    BY DEF PipeInv, Waited
  <2>2. ASSUME proc[Stages] = "reaped" PROVE wrote[Stages] = Gets(Stages)
    <3>1. Stages \in Stage
      BY PipeAssumption DEF Stage
    <3>2. wrote[Stages] = read[Stages] /\ \E j \in 1 .. Stages : read[Stages] = Takes[j]
      BY <2>2, <3>1 DEF PipeInv, Finished, Ended
    <3>3. \A j \in 1 .. Stages : read[Stages] <= Takes[j]
      BY <3>1 DEF PipeInv, Limited
    <3> QED BY <3>1, <3>2, <3>3, LeastIsGets
  <2> QED BY <2>1, <2>2
<1> QED BY <1>1, PipeInvariant, PTL

-----------------------------------------------------------------------------
(***************************************************************************)
(* A pipe comes to an end: what PipeReturns says, but for the fairness     *)
(* that lets a step happen that can.  Each step does something that was    *)
(* not done before, of what is finite, and until the end there is one.     *)
(***************************************************************************)

\* What can be counted of Eval, the watchdog and the stages.
Counter == {"eval", "watchdog", "process", "read", "write"} \X Stage

Count(c) ==
  CASE c[1] = "eval" ->
         (CASE pc = "start" -> 0
            [] pc = "run" -> 1
            [] pc = "wait" -> 2
            [] pc \in {"return", "panic"} -> 3
            [] OTHER -> 4)
    [] c[1] = "watchdog" -> (IF watchdog = "waiting" THEN 0 ELSE 1)
    [] c[1] = "process" ->
         (CASE proc[c[2]] = "none" -> 0
            [] proc[c[2]] = "running" -> 1
            [] proc[c[2]] = "exited" -> 2
            [] OTHER -> 3)
    [] c[1] = "read" -> read[c[2]]
    [] OTHER -> wrote[c[2]]

\* What can be done, no stage reads more than the first wants, and what has
\* been.
Possible == Counter \X (1 .. Takes[1] + 4)
Done     == {d \in Possible : d[2] <= Count(d[1])}

\* The conditions of the steps of Eval and of a stage.
EvalReady ==
  \/ pc = "start"
  \/ pc = "run" /\ Exited(Stages)
  \/ pc = "wait" /\ (AllWaited \/ (MoreStages /\ Exited(next)))
  \/ pc \in {"return", "panic"} /\ watchdog = "waiting"

Ready(i) ==
  /\ Alive(i)
  /\ \/ read[i] < Takes[i] /\ wrote[i] = read[i] /\ (i > 1 => InPipe(i - 1) > 0)
     \/ wrote[i] < read[i] /\ HasRoom(i)
     \/ wrote[i] = read[i] /\ (read[i] = Takes[i] \/ EndOfInput(i))

\* Where no step is possible the pipe has ended, or the server was warned of
\* a long run, or the last stage did not start and nobody reads the others.
NeverStuck ==
  LeavesRoom =>
    \/ EvalReady
    \/ \E i \in Stage : Ready(i)
    \/ pc \in {"returned", "aborted"}
    \/ pc \in {"return", "panic"} /\ watchdog = "warned"
    \/ pc = "wait" /\ proc[Stages] = "none"

\* Which stages have been started, and which of them not waited for.
Started ==
  /\ pc = "start" =>
       \A i \in Stage : IF i < next THEN proc[i] \in {"running", "exited"}
                                    ELSE proc[i] = "none"
  /\ pc \in {"run", "wait"} =>
       \A i \in Upstream :
         proc[i] # "none" /\ (i >= next => proc[i] # "reaped")
  /\ pc = "run" => proc[Stages] \in {"running", "exited"}
  /\ pc = "wait" => proc[Stages] \in {"none", "reaped"}
  /\ watchdog = "gone" => pc \in {"returned", "aborted"}

LEMMA StagesAre ==
  /\ Stages \in Nat \ {0} /\ Stage = 1 .. Stages /\ Upstream = 1 .. Stages - 1
  /\ Stages \in Stage /\ 1 \in Stage /\ Upstream \subseteq Stage
  /\ \A i \in Stage : i = Stages \/ i \in Upstream
  /\ Takes \in [Stage -> Nat] /\ PipeSize \in Nat \ {0}
BY PipeAssumption DEF Stage, Upstream

LEMMA InitStarted == Init => Started
BY StagesAre DEF Init, Started

LEMMA StartedStep ==
  ASSUME PipeInv, Started, [Next]_vars
  PROVE  Started'
<1>0. /\ next \in 1 .. Stages
      /\ proc \in [Stage -> {"none", "running", "exited", "reaped"}]
  BY DEF PipeInv, TypeOK
<1>1. CASE StartStage
  BY <1>0, <1>1, StagesAre DEF StartStage, MoreStages, Started
<1>2. CASE StartLast
  <2>1. \A i \in Upstream : proc[i] \in {"running", "exited"} /\ proc'[i] = proc[i]
    BY <1>0, <1>2, StagesAre DEF StartLast, Started
  <2>2. proc[Stages] = "none"
    BY <1>0, <1>2, StagesAre DEF StartLast, Started
  <2> QED BY <1>0, <1>2, <2>1, <2>2, StagesAre DEF StartLast, Started
<1>3. CASE RunReturns
  <2>1. \A i \in Upstream : proc'[i] = proc[i]
    BY <1>0, <1>3, StagesAre DEF RunReturns
  <2> QED BY <1>0, <1>3, <2>1, StagesAre DEF RunReturns, Started
<1>4. CASE WaitStage
  <2>1. /\ \A i \in Stage \ {next} : proc'[i] = proc[i]
        /\ proc'[next] = "reaped" /\ next \in Upstream
    BY <1>0, <1>4, StagesAre DEF WaitStage, MoreStages
  <2>2. pc = "wait" /\ pc' = "wait" /\ next' = next + 1 /\ watchdog' = watchdog
    BY <1>4 DEF WaitStage
  <2>3. \A i \in Upstream : proc'[i] # "none" /\ (i >= next + 1 => proc'[i] # "reaped")
    BY <1>0, <2>1, <2>2, StagesAre DEF Started
  <2> QED BY <1>0, <2>1, <2>2, <2>3, StagesAre DEF Started
<1>5. CASE WaitEnds \/ Leave \/ Warn
  BY <1>5 DEF WaitEnds, Leave, Warn, Started
<1>6. ASSUME NEW k \in Stage, Process(k) PROVE Started'
  <2>1. /\ pc' = pc /\ next' = next /\ watchdog' = watchdog
        /\ proc' = proc \/ (proc[k] = "running" /\ proc' = [proc EXCEPT ![k] = "exited"])
    BY <1>6 DEF Process, Reads, Writes, Exits, files, Alive
  <2>2. \A i \in Stage : \/ proc'[i] = proc[i]
                         \/ proc[i] = "running" /\ proc'[i] = "exited"
    BY <1>0, <2>1
  <2> QED BY <2>1, <2>2, StagesAre DEF Started
<1>7. CASE UNCHANGED vars
  BY <1>7 DEF vars, files, Started
<1> QED BY <1>1, <1>2, <1>3, <1>4, <1>5, <1>6, <1>7 DEF Next, Eval

LEMMA StartedInvariant == Spec => [](PipeInv /\ Started)
<1>1. PipeInv /\ Started /\ [Next]_vars => Started'
  BY StartedStep
<1> QED BY <1>1, InitStarted, PipeInvariant, PTL DEF Spec

-----------------------------------------------------------------------------
(***************************************************************************)
(* Each step is progress.                                                  *)
(***************************************************************************)
LEMMA CountsAre ==
  /\ \A i \in Stage :
       /\ Count(<<"eval", i>>) =
            (CASE pc = "start" -> 0
               [] pc = "run" -> 1
               [] pc = "wait" -> 2
               [] pc \in {"return", "panic"} -> 3
               [] OTHER -> 4)
       /\ Count(<<"watchdog", i>>) = (IF watchdog = "waiting" THEN 0 ELSE 1)
       /\ Count(<<"process", i>>) =
            (CASE proc[i] = "none" -> 0
               [] proc[i] = "running" -> 1
               [] proc[i] = "exited" -> 2
               [] OTHER -> 3)
       /\ Count(<<"read", i>>) = read[i]
       /\ Count(<<"write", i>>) = wrote[i]
  /\ \A c \in Counter : \E i \in Stage :
       c \in {<<"eval", i>>, <<"watchdog", i>>, <<"process", i>>, <<"read", i>>,
              <<"write", i>>}
<1>1. \A c \in Counter : \E i \in Stage :
       c \in {<<"eval", i>>, <<"watchdog", i>>, <<"process", i>>, <<"read", i>>,
              <<"write", i>>}
  BY DEF Counter
<1>2. ASSUME NEW i \in Stage
      PROVE  /\ Count(<<"eval", i>>) =
                  (CASE pc = "start" -> 0
                     [] pc = "run" -> 1
                     [] pc = "wait" -> 2
                     [] pc \in {"return", "panic"} -> 3
                     [] OTHER -> 4)
             /\ Count(<<"watchdog", i>>) = (IF watchdog = "waiting" THEN 0 ELSE 1)
             /\ Count(<<"process", i>>) =
                  (CASE proc[i] = "none" -> 0
                     [] proc[i] = "running" -> 1
                     [] proc[i] = "exited" -> 2
                     [] OTHER -> 3)
             /\ Count(<<"read", i>>) = read[i]
             /\ Count(<<"write", i>>) = wrote[i]
  BY DEF Count
<1> QED BY <1>1, <1>2

\* No count exceeds what is possible.
Bounded == \A c \in Counter : Count(c) \in 0 .. Takes[1] + 4

LEMMA CountsBounded ==
  ASSUME PipeInv
  PROVE  Bounded
<1> SUFFICES ASSUME NEW i \in Stage
             PROVE  /\ Count(<<"eval", i>>) \in 0 .. Takes[1] + 4
                    /\ Count(<<"watchdog", i>>) \in 0 .. Takes[1] + 4
                    /\ Count(<<"process", i>>) \in 0 .. Takes[1] + 4
                    /\ Count(<<"read", i>>) \in 0 .. Takes[1] + 4
                    /\ Count(<<"write", i>>) \in 0 .. Takes[1] + 4
  BY CountsAre DEF Bounded
<1>1. Takes[1] \in Nat /\ 0 \in Nat /\ 1 \in 1 .. i
  BY StagesAre
<1>2. read[i] \in Nat /\ wrote[i] \in Nat /\ wrote[i] <= read[i] /\ read[i] <= Takes[1]
  BY <1>1, Counts
<1>3. /\ Count(<<"eval", i>>) \in 0 .. 4
      /\ Count(<<"watchdog", i>>) \in 0 .. 4
      /\ Count(<<"process", i>>) \in 0 .. 4
  <2>1. Count(<<"eval", i>>) \in 0 .. 4
    BY DEF Count
  <2>2. Count(<<"watchdog", i>>) \in 0 .. 4
    BY DEF Count
  <2>3. Count(<<"process", i>>) \in 0 .. 4
    BY DEF Count
  <2> QED BY <2>1, <2>2, <2>3
<1>4. Count(<<"read", i>>) = read[i] /\ Count(<<"write", i>>) = wrote[i]
  BY CountsAre
<1> QED BY <1>1, <1>2, <1>3, <1>4

\* A step adds to a count and takes from none.
LEMMA StepCounts ==
  ASSUME PipeInv, Started, Next
  PROVE  /\ \A c \in Counter : Count(c) <= Count(c)'
         /\ \E c \in Counter : Count(c) < Count(c)'
<1>0. /\ next \in 1 .. Stages
      /\ proc \in [Stage -> {"none", "running", "exited", "reaped"}]
      /\ read \in [Stage -> Nat] /\ wrote \in [Stage -> Nat]
      /\ pc \in {"start", "run", "wait", "return", "returned", "panic", "aborted"}
      /\ watchdog \in {"waiting", "warned", "gone"}
  BY DEF PipeInv, TypeOK
<1> DEFINE At(p)  == CASE p = "start" -> 0 [] p = "run" -> 1 [] p = "wait" -> 2
                       [] p \in {"return", "panic"} -> 3 [] OTHER -> 4
           Age(w) == IF w = "waiting" THEN 0 ELSE 1
           Of(p)  == CASE p = "none" -> 0 [] p = "running" -> 1
                       [] p = "exited" -> 2 [] OTHER -> 3
\* It is enough to see which of the variables move.
<1>a. ASSUME At(pc) <= At(pc'), Age(watchdog) <= Age(watchdog'),
             \A i \in Stage : /\ Of(proc[i]) <= Of(proc'[i])
                              /\ read[i] <= read'[i] /\ wrote[i] <= wrote'[i],
             \/ At(pc) < At(pc')
             \/ Age(watchdog) < Age(watchdog')
             \/ \E i \in Stage : \/ Of(proc[i]) < Of(proc'[i])
                                 \/ read[i] < read'[i]
                                 \/ wrote[i] < wrote'[i]
      PROVE  /\ \A c \in Counter : Count(c) <= Count(c)'
             /\ \E c \in Counter : Count(c) < Count(c)'
  <2>1. \A i \in Stage :
          /\ Count(<<"eval", i>>) = At(pc) /\ Count(<<"eval", i>>)' = At(pc')
          /\ Count(<<"watchdog", i>>) = Age(watchdog)
          /\ Count(<<"watchdog", i>>)' = Age(watchdog')
          /\ Count(<<"process", i>>) = Of(proc[i])
          /\ Count(<<"process", i>>)' = Of(proc'[i])
          /\ Count(<<"read", i>>) = read[i] /\ Count(<<"read", i>>)' = read'[i]
          /\ Count(<<"write", i>>) = wrote[i] /\ Count(<<"write", i>>)' = wrote'[i]
    BY DEF Count
  <2> HIDE DEF At, Age, Of
  <2>2. ASSUME NEW c \in Counter PROVE Count(c) <= Count(c)'
    <3>1. PICK i \in Stage : c = <<"eval", i>> \/ c = <<"watchdog", i>>
            \/ c = <<"process", i>> \/ c = <<"read", i>> \/ c = <<"write", i>>
      BY CountsAre
    <3> QED BY <1>a, <2>1, <3>1
  <2>3. \A i \in Stage :
          <<"eval", i>> \in Counter /\ <<"watchdog", i>> \in Counter
          /\ <<"process", i>> \in Counter /\ <<"read", i>> \in Counter
          /\ <<"write", i>> \in Counter
    BY DEF Counter
  <2>4. 1 \in Stage
    BY StagesAre
  <2> QED BY <1>a, <2>1, <2>2, <2>3, <2>4
<1>b. \A p : At(p) \in 0 .. 4 /\ Age(p) \in 0 .. 1 /\ Of(p) \in 0 .. 3
  OBVIOUS
<1>c. /\ At("start") = 0 /\ At("run") = 1 /\ At("wait") = 2 /\ At("return") = 3
      /\ At("panic") = 3 /\ At("returned") = 4 /\ At("aborted") = 4
      /\ Age("waiting") = 0 /\ Age("warned") = 1 /\ Age("gone") = 1
      /\ Of("none") = 0 /\ Of("running") = 1 /\ Of("exited") = 2 /\ Of("reaped") = 3
  OBVIOUS
<1>d. \A i \in Stage : read[i] \in Nat /\ wrote[i] \in Nat
  BY <1>0
<1> HIDE DEF At, Age, Of
<1>1. CASE StartStage
  <2>1. /\ next \in Stage /\ proc[next] = "none" /\ pc = "start"
        /\ \/ proc' = [proc EXCEPT ![next] = "running"] /\ pc' = pc
           \/ proc' = proc /\ pc' = "panic"
        /\ read' = read /\ wrote' = wrote /\ watchdog' = watchdog
    <3>1. next \in Stage /\ pc = "start" /\ ~ (next < next)
      BY <1>0, <1>1, StagesAre DEF StartStage
    <3>2. proc[next] = "none"
      BY <3>1 DEF Started
    <3> QED BY <1>1, <3>1, <3>2 DEF StartStage, files
  <2> QED BY <1>0, <1>a, <1>b, <1>c, <1>d, <2>1
<1>2. CASE StartLast
  <2>1. /\ Stages \in Stage /\ proc[Stages] = "none" /\ pc = "start"
        /\ proc' = [proc EXCEPT ![Stages] = "running"] \/ proc' = proc
        /\ pc' = "run" \/ pc' = "wait"
        /\ read' = read /\ wrote' = wrote /\ watchdog' = watchdog
    BY <1>0, <1>2, StagesAre DEF StartLast, Started, files
  <2> QED BY <1>0, <1>a, <1>b, <1>c, <1>d, <2>1
<1>3. CASE RunReturns
  <2>1. /\ Stages \in Stage /\ proc[Stages] = "exited" /\ pc = "run"
        /\ proc' = [proc EXCEPT ![Stages] = "reaped"] /\ pc' = "wait"
        /\ read' = read /\ wrote' = wrote /\ watchdog' = watchdog
    BY <1>3, StagesAre DEF RunReturns, Exited, files
  <2> QED BY <1>0, <1>a, <1>b, <1>c, <1>d, <2>1
<1>4. CASE WaitStage
  <2>1. /\ next \in Stage /\ proc[next] = "exited"
        /\ proc' = [proc EXCEPT ![next] = "reaped"] /\ pc' = pc
        /\ read' = read /\ wrote' = wrote /\ watchdog' = watchdog
    BY <1>0, <1>4, StagesAre DEF WaitStage, Exited, files
  <2> QED BY <1>0, <1>a, <1>b, <1>c, <1>d, <2>1
<1>5. CASE WaitEnds
  <2>1. pc = "wait" /\ pc' = "return" /\ proc' = proc /\ read' = read
        /\ wrote' = wrote /\ watchdog' = watchdog
    BY <1>5 DEF WaitEnds, files
  <2> QED BY <1>0, <1>a, <1>b, <1>c, <1>d, <2>1
<1>6. CASE Leave
  <2>1. /\ pc \in {"return", "panic"} /\ pc' \in {"returned", "aborted"}
        /\ watchdog = "waiting" /\ watchdog' = "gone"
        /\ proc' = proc /\ read' = read /\ wrote' = wrote
    BY <1>6 DEF Leave, files
  <2> QED BY <1>0, <1>a, <1>b, <1>c, <1>d, <2>1
<1>7. CASE Warn
  <2>1. /\ pc' = pc /\ watchdog = "waiting" /\ watchdog' = "warned"
        /\ proc' = proc /\ read' = read /\ wrote' = wrote
    BY <1>7 DEF Warn, files
  <2> QED BY <1>0, <1>a, <1>b, <1>c, <1>d, <2>1
<1>8. ASSUME NEW k \in Stage, Process(k)
      PROVE  /\ \A c \in Counter : Count(c) <= Count(c)'
             /\ \E c \in Counter : Count(c) < Count(c)'
  <2>1. pc' = pc /\ watchdog' = watchdog
    BY <1>8 DEF Process, Reads, Writes, Exits
  <2>2. CASE Reads(k)
    <3>1. read' = [read EXCEPT ![k] = @ + 1] /\ wrote' = wrote /\ proc' = proc
      BY <2>2 DEF Reads
    <3> QED BY <1>0, <1>a, <1>b, <1>d, <2>1, <3>1
  <2>3. CASE Writes(k)
    <3>1. wrote' = [wrote EXCEPT ![k] = @ + 1] /\ read' = read /\ proc' = proc
      BY <2>3 DEF Writes
    <3> QED BY <1>0, <1>a, <1>b, <1>d, <2>1, <3>1
  <2>4. CASE Exits(k)
    <3>1. /\ proc[k] = "running" /\ proc' = [proc EXCEPT ![k] = "exited"]
          /\ read' = read /\ wrote' = wrote
      BY <2>4 DEF Exits, Alive, files
    <3> QED BY <1>0, <1>a, <1>b, <1>c, <1>d, <2>1, <3>1
  <2> QED BY <1>8, <2>2, <2>3, <2>4 DEF Process
<1> QED BY <1>1, <1>2, <1>3, <1>4, <1>5, <1>6, <1>7, <1>8 DEF Next, Eval

\* Every step does something new of what is finite, so a pipe takes finitely
\* many of them, whatever the stages and however they are scheduled.
THEOREM PipeStepsAreFinite ==
  IsFiniteSet(Possible) /\ (Spec => [][Done \subseteq Done' /\ Done # Done']_vars)
<1>1. IsFiniteSet(Possible)
  <2>1. IsFiniteSet(Stage) /\ IsFiniteSet(1 .. Takes[1] + 4)
    <3>1. 1 \in Int /\ Stages \in Int /\ Takes[1] + 4 \in Int
      BY StagesAre
    <3> QED BY <3>1, StagesAre, FS_Interval
  <2>2. IsFiniteSet({"eval", "watchdog", "process", "read", "write"})
    <3>1. IsFiniteSet({})
      BY FS_EmptySet
    <3>2. IsFiniteSet({"eval"})
      BY FS_Singleton
    <3>3. IsFiniteSet({"eval"} \cup {"watchdog"})
      BY <3>2, FS_AddElement
    <3>4. IsFiniteSet(({"eval"} \cup {"watchdog"}) \cup {"process"})
      BY <3>3, FS_AddElement
    <3>5. IsFiniteSet((({"eval"} \cup {"watchdog"}) \cup {"process"}) \cup {"read"})
      BY <3>4, FS_AddElement
    <3>6. IsFiniteSet(((({"eval"} \cup {"watchdog"}) \cup {"process"}) \cup {"read"})
                        \cup {"write"})
      BY <3>5, FS_AddElement
    <3>7. ((({"eval"} \cup {"watchdog"}) \cup {"process"}) \cup {"read"}) \cup {"write"}
            = {"eval", "watchdog", "process", "read", "write"}
      OBVIOUS
    <3> QED BY <3>6, <3>7
  <2>3. IsFiniteSet(Counter)
    BY <2>1, <2>2, FS_Product DEF Counter
  <2> QED BY <2>1, <2>3, FS_Product DEF Possible
<1>2. ASSUME PipeInv, Started, Bounded, Bounded', Next
      PROVE  Done \subseteq Done' /\ Done # Done'
  <2>1. /\ \A c \in Counter : Count(c) <= Count(c)'
        /\ \E c \in Counter : Count(c) < Count(c)'
    BY <1>2, StepCounts
  <2>2. \A c \in Counter : Count(c) \in 0 .. Takes[1] + 4
    BY <1>2 DEF Bounded
  <2>3. \A c \in Counter : Count(c)' \in 0 .. Takes[1] + 4
    BY <1>2 DEF Bounded, Counter
  <2>4. Takes[1] \in Nat
    BY StagesAre
  <2>5. Done' = {d \in Possible : d[2] <= Count(d[1])'}
    BY DEF Done, Possible, Counter
  <2>6. ASSUME NEW d \in Done PROVE d \in Done'
    <3>1. d \in Possible /\ d[2] <= Count(d[1]) /\ d[1] \in Counter /\ d[2] \in Nat
      BY <2>4 DEF Done, Possible
    <3> QED BY <2>1, <2>2, <2>3, <2>4, <2>5, <3>1
  <2>7. PICK c \in Counter : Count(c) < Count(c)'
    BY <2>1
  <2> DEFINE d == <<c, Count(c)'>>
  <2>8. Count(c) \in Nat /\ Count(c)' \in 1 .. Takes[1] + 4
    BY <2>2, <2>3, <2>4, <2>7
  <2>9. d \in Possible /\ d[1] = c /\ d[2] = Count(c)'
    BY <2>8 DEF Possible
  <2>10. d \in Done' /\ d \notin Done
    <3> HIDE DEF d
    <3>1. d[2] <= Count(c)' /\ ~ (d[2] <= Count(c))
      BY <2>4, <2>7, <2>8, <2>9
    <3> QED BY <2>5, <2>9, <3>1 DEF Done
  <2> QED BY <2>6, <2>10
<1>3. Spec => [][Done \subseteq Done' /\ Done # Done']_vars
  <2>1. PipeInv => Bounded
    BY CountsBounded
  <2> QED BY <1>2, <2>1, StartedInvariant, PTL DEF Spec
<1> QED BY <1>1, <1>3

-----------------------------------------------------------------------------
(***************************************************************************)
(* There is always a step.                                                 *)
(***************************************************************************)
LEMMA LeastOf ==
  ASSUME NEW T \in SUBSET Nat, T # {}
  PROVE  \E m \in T : \A k \in T : m <= k
<1> DEFINE R == {ss \in Nat \X Nat : ss[1] < ss[2]}
<1>1. IsWellFoundedOn(R, Nat)
  BY NatLessThanWellFounded DEF OpToRel
<1> HIDE DEF R
<1>2. PICK m \in T : \A k \in T : <<k, m>> \notin R
  BY <1>1, WFMin
<1>3. \A k \in T : k \in Nat /\ m \in Nat /\ ~ (k < m)
  BY <1>2 DEF R
<1> QED BY <1>3

\* Of any stages there is a first and a last.
LEMMA FirstAndLast ==
  ASSUME NEW T \in SUBSET Stage, T # {}
  PROVE  /\ \E m \in T : \A k \in T : m <= k
         /\ \E m \in T : \A k \in T : k <= m
<1>1. Stages \in Nat /\ \A k \in T : k \in Nat /\ k <= Stages
  BY StagesAre
<1>2. \E m \in T : \A k \in T : m <= k
  BY <1>1, LeastOf
<1>3. \E m \in T : \A k \in T : k <= m
  <2> DEFINE U == {Stages - k : k \in T}
  <2>1. U \in SUBSET Nat /\ U # {}
    BY <1>1
  <2>2. PICK u \in U : \A v \in U : u <= v
    <3> HIDE DEF U
    <3> QED BY <2>1, LeastOf
  <2>3. PICK m \in T : u = Stages - m
    OBVIOUS
  <2>4. ASSUME NEW k \in T PROVE k <= m
    <3>1. Stages - m <= Stages - k
      BY <2>2, <2>3
    <3> QED BY <1>1, <3>1
  <2> QED BY <2>4
<1> QED BY <1>2, <1>3

\* What a stage gets is what one up to it wants, and no more than any wants.
LEMMA GetsIs ==
  ASSUME NEW i \in Stage
  PROVE  /\ \E j \in 1 .. i : Gets(i) = Takes[j]
         /\ \A j \in 1 .. i : Gets(i) <= Takes[j]
         /\ Gets(i) \in Nat
<1> DEFINE S == {Takes[j] : j \in 1 .. i}
<1>1. \A j \in 1 .. i : j \in Stage
  BY StagesAre
<1>2. S \in SUBSET Nat /\ S # {}
  BY <1>1, StagesAre
<1>3. PICK n \in S : \A m \in S : n <= m
  <2> HIDE DEF S
  <2> QED BY <1>2, LeastOf
<1>4. \A j \in 1 .. i : n <= Takes[j]
  BY <1>3
<1>5. Gets(i) = n
  BY <1>3, <1>4, LeastIsGets
<1> QED BY <1>2, <1>3, <1>4, <1>5

\* If no stage can do anything none is alive: the last one that waits for
\* room would write to one that is content with what it has, and the first
\* of those that wait for input has one before it that has ended.
LEMMA NoneAlive ==
  ASSUME PipeInv, LeavesRoom, \A i \in Stage : proc[i] # "none",
         \A i \in Stage : ~ Ready(i)
  PROVE  \A i \in Stage : ~ Alive(i)
<1>0. \A i \in Stage : ~ Alive(i) => Ended(i)
  BY DEF PipeInv, TypeOK, Alive, Ended
<1> DEFINE Full == {i \in Stage : Alive(i) /\ wrote[i] < read[i]}
<1>1. Full = {}
  <2> SUFFICES ASSUME Full # {} PROVE FALSE
    OBVIOUS
  <2>1. PICK i \in Full : \A k \in Full : k <= i
    <3>1. Full \in SUBSET Stage
      OBVIOUS
    <3> HIDE DEF Full
    <3> QED BY <3>1, FirstAndLast
  <2>2. i \in Stage /\ Alive(i) /\ wrote[i] < read[i] /\ i < Stages /\ ~ (InPipe(i) < PipeSize)
    BY <2>1 DEF Ready, HasRoom
  <2>3. i \in Upstream /\ i + 1 \in Stage /\ i + 1 > 1 /\ (i + 1) - 1 = i /\ ~ (i + 1 <= i)
    BY <2>2, StagesAre
  <2>4. /\ read[i] \in Nat /\ wrote[i] \in Nat /\ read[i + 1] \in Nat
        /\ wrote[i + 1] \in Nat /\ wrote[i + 1] <= read[i + 1]
        /\ InPipe(i) = wrote[i] - read[i + 1] /\ InPipe(i) >= PipeSize
    <3>1. /\ read[i] \in Nat /\ wrote[i] \in Nat /\ read[i + 1] \in Nat
          /\ wrote[i + 1] \in Nat
      BY <2>2, <2>3 DEF PipeInv, TypeOK
    <3>2. wrote[i + 1] <= read[i + 1] /\ InPipe(i) = wrote[i] - read[i + 1]
      BY <2>3 DEF PipeInv, Conserved, InPipe
    <3>3. PipeSize \in Nat
      BY StagesAre
    <3> QED BY <2>2, <3>1, <3>2, <3>3
  <2>5. ~ Alive(i + 1)
    <3> SUFFICES ASSUME Alive(i + 1) PROVE FALSE
      OBVIOUS
    <3>1. wrote[i + 1] = read[i + 1]
      BY <2>1, <2>3, <2>4
    <3>2. InPipe((i + 1) - 1) > 0
      BY <2>3, <2>4, StagesAre
    <3>3. ~ (read[i + 1] < Takes[i + 1]) /\ read[i + 1] # Takes[i + 1]
      BY <2>3, <3>1, <3>2 DEF Ready
    <3>4. Takes[i + 1] \in Nat /\ read[i + 1] <= Takes[i + 1]
      BY <2>3, StagesAre DEF PipeInv, Conserved
    <3> QED BY <2>4, <3>3, <3>4
  <2>6. PICK j \in 1 .. i + 1 : read[i + 1] = Takes[j]
    BY <1>0, <2>3, <2>5 DEF PipeInv, Finished
  <2>7. Gets(i + 1) <= read[i + 1] /\ Gets(i + 1) \in Nat
    BY <2>3, <2>6, GetsIs
  <2>8. read[i] <= Gets(i) /\ Gets(i) \in Nat
    BY <2>2, Counts, GetsIs
  <2>9. Gets(i) - Gets(i + 1) <= PipeSize
    BY <2>3 DEF LeavesRoom
  <2>10. PipeSize \in Nat
    BY StagesAre
  <2> HIDE DEF Full
  <2> QED BY <2>2, <2>4, <2>7, <2>8, <2>9, <2>10
<1> DEFINE Hungry == {i \in Stage : Alive(i)}
<1> SUFFICES ASSUME Hungry # {} PROVE FALSE
  OBVIOUS
<1>2. PICK i \in Hungry : \A k \in Hungry : i <= k
  <2>1. Hungry \in SUBSET Stage
    OBVIOUS
  <2> HIDE DEF Hungry
  <2> QED BY <2>1, FirstAndLast
<1>3. /\ i \in Stage /\ Alive(i) /\ read[i] \in Nat /\ wrote[i] \in Nat
      /\ wrote[i] = read[i] /\ Takes[i] \in Nat /\ read[i] <= Takes[i]
  <2>1. /\ i \in Stage /\ Alive(i) /\ read[i] \in Nat /\ wrote[i] \in Nat
        /\ wrote[i] <= read[i] /\ Takes[i] \in Nat /\ read[i] <= Takes[i]
    BY StagesAre DEF PipeInv, TypeOK, Conserved
  <2>2. ~ (wrote[i] < read[i])
    BY <1>1, <2>1
  <2> QED BY <2>1, <2>2
<1>4. /\ read[i] # Takes[i] /\ ~ EndOfInput(i)
      /\ read[i] < Takes[i] => i > 1 /\ ~ (InPipe(i - 1) > 0)
  BY <1>3 DEF Ready
<1>5. i > 1 /\ ~ (InPipe(i - 1) > 0) /\ i - 1 \in Stage /\ InPipe(i - 1) \in Nat
  <2>1. i > 1 /\ ~ (InPipe(i - 1) > 0)
    BY <1>3, <1>4
  <2> QED BY <1>3, <2>1, Counts
<1>6. ~ (i <= i - 1)
  BY <1>3, StagesAre
<1>7. Ended(i - 1)
  BY <1>0, <1>2, <1>5, <1>6
<1> QED BY <1>4, <1>5, <1>7 DEF EndOfInput

\* If each stage leaves no more unread than its pipe holds, a pipe whose last
\* stage has started, any number of stages and any size of the kernel pipes,
\* does not get stuck: there is no deadlock of the stages among each other,
\* nor of Eval, that waits for them in order, with them.
THEOREM PipeNeverStuck == Spec => []NeverStuck
<1>1. ASSUME PipeInv, Started PROVE NeverStuck
  <2> SUFFICES ASSUME LeavesRoom, ~ EvalReady, \A i \in Stage : ~ Ready(i),
                      pc \notin {"returned", "aborted"},
                      ~ (pc \in {"return", "panic"} /\ watchdog = "warned"),
                      ~ (pc = "wait" /\ proc[Stages] = "none")
               PROVE  FALSE
    BY DEF NeverStuck
  <2>1. pc \in {"run", "wait"}
    <3>1. /\ pc \in {"start", "run", "wait", "return", "returned", "panic", "aborted"}
          /\ watchdog \in {"waiting", "warned", "gone"}
      BY <1>1 DEF PipeInv, TypeOK
    <3> QED BY <1>1, <3>1 DEF EvalReady, Started
  <2>2. \A i \in Stage : proc[i] # "none"
    BY <1>1, <2>1, StagesAre DEF Started
  <2>3. \A i \in Stage : ~ Alive(i)
    BY <1>1, <2>2, NoneAlive
  <2>4. \A i \in Stage : proc[i] \in {"exited", "reaped"}
    BY <1>1, <2>2, <2>3 DEF PipeInv, TypeOK, Alive
  <2>5. CASE pc = "run"
    BY <1>1, <2>4, <2>5, StagesAre DEF Started, EvalReady, Exited
  <2>6. CASE pc = "wait"
    <3>1. next \in 1 .. Stages /\ next # Stages
      BY <1>1, <2>6 DEF PipeInv, TypeOK, EvalReady, AllWaited
    <3>2. next \in Upstream /\ next \in Stage /\ MoreStages
      BY <3>1, StagesAre DEF MoreStages
    <3>3. proc[next] # "reaped"
      BY <1>1, <2>6, <3>1, <3>2 DEF Started
    <3> QED BY <2>4, <2>6, <3>2, <3>3 DEF EvalReady, Exited
  <2> QED BY <2>1, <2>5, <2>6
<1> QED BY <1>1, StartedInvariant, PTL
=============================================================================
