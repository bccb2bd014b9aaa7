---------------------------- MODULE PipeCommand ----------------------------
(***************************************************************************)
(* PipePromise.Eval: the processes of a pipe, the kernel pipes between     *)
(* them and the evaluating goroutine.  The counters, which Eval increments *)
(* as it starts the stages, are in PromiseEval.                            *)
(*                                                                         *)
(* A stage is a filter: it reads a line, writes a line, and exits when its *)
(* input ends or when it has taken the lines it wants (as head does).  The *)
(* first stage needs no input.  Lines are anonymous and pipes are queues,  *)
(* so what the pipe after stage i holds is the difference of two counts.   *)
(*                                                                         *)
(* StdoutPipe leaves the read end open in the server until the stage has   *)
(* been waited for, so a stage that is not read any more finds a pipe      *)
(* without a reader only after it has exited.                              *)
(***************************************************************************)
EXTENDS Integers, FiniteSetsExt

CONSTANTS
  Stages,     \* the number of stages of the pipe
  Takes,      \* stage -> the lines it wants; what the first stage writes
  PipeSize    \* bound: lines a kernel pipe holds

Stage    == 1 .. Stages
Upstream == 1 .. Stages - 1

ASSUME PipeAssumption ==
  /\ Stages \in Nat \ {0}
  /\ Takes \in [Stage -> Nat]
  /\ PipeSize \in Nat \ {0}

VARIABLES
  pc,         \* where Eval is
  next,       \* the stage Eval starts or waits for next
  proc,       \* stage -> its process
  read,       \* stage -> lines it has read
  wrote,      \* stage -> lines it has written
  serverEnd,  \* upstream stage -> whether the server holds the read end
  result,     \* whether the last stage succeeded
  watchdog    \* the goroutine that warns after five minutes

files == <<read, wrote>>
vars  == <<pc, next, proc, read, wrote, serverEnd, result, watchdog>>

TypeOK ==
  /\ pc \in {"start", "run", "wait", "return", "returned", "panic", "aborted"}
  /\ next \in 1 .. Stages
  /\ proc \in [Stage -> {"none", "running", "exited", "reaped"}]
  /\ read \in [Stage -> Nat]
  /\ wrote \in [Stage -> Nat]
  /\ serverEnd \in [Upstream -> BOOLEAN]
  /\ result \in {"none", "met", "unmet"}
  /\ watchdog \in {"waiting", "warned", "gone"}

Init ==
  /\ pc = "start"
  /\ next = 1
  /\ proc = [i \in Stage |-> "none"]
  /\ read = [i \in Stage |-> 0]
  /\ wrote = [i \in Stage |-> 0]
  /\ serverEnd = [i \in Upstream |-> FALSE]
  /\ result = "none"
  /\ watchdog = "waiting"

Alive(i) == proc[i] = "running"
Ended(i) == proc[i] \in {"exited", "reaped"}

-----------------------------------------------------------------------------
(***************************************************************************)
(* Eval.                                                                   *)
(***************************************************************************)

MoreStages == next < Stages

\* The stages before the last are started in order; one that cannot be
\* started, or gets no pipe, panics.
StartStage ==
  /\ pc = "start"
  /\ MoreStages
  /\ \/ /\ proc' = [proc EXCEPT ![next] = "running"]
        /\ serverEnd' = [serverEnd EXCEPT ![next] = TRUE]
        /\ next' = next + 1
        /\ pc' = pc
     \/ /\ pc' = "panic"
        /\ UNCHANGED <<proc, serverEnd, next>>
  /\ UNCHANGED <<files, result, watchdog>>

\* The last stage; when it cannot be started the pipe is unmet.
StartLast ==
  /\ pc = "start"
  /\ next = Stages
  /\ \/ /\ proc' = [proc EXCEPT ![Stages] = "running"]
        /\ pc' = "run"
        /\ result' = result
     \/ /\ pc' = "wait"
        /\ result' = "unmet"
        /\ proc' = proc
  /\ next' = 1
  /\ UNCHANGED <<files, serverEnd, watchdog>>

Exited(i) == proc[i] = "exited"

\* Run returns with the status of the last stage, its output copied.
RunReturns ==
  /\ pc = "run"
  /\ Exited(Stages)
  /\ proc' = [proc EXCEPT ![Stages] = "reaped"]
  /\ result' \in {"met", "unmet"}
  /\ pc' = "wait"
  /\ UNCHANGED <<next, files, serverEnd, watchdog>>

\* Then the other stages are waited for, in order.
WaitStage ==
  /\ pc = "wait"
  /\ MoreStages
  /\ Exited(next)
  /\ proc' = [proc EXCEPT ![next] = "reaped"]
  /\ serverEnd' = [serverEnd EXCEPT ![next] = FALSE]
  /\ next' = next + 1
  /\ UNCHANGED <<pc, files, result, watchdog>>

AllWaited_NotLast == next >= Stages - 1
AllWaited == next = Stages
WaitEnds ==
  /\ pc = "wait"
  /\ AllWaited
  /\ pc' = "return"
  /\ UNCHANGED <<next, proc, files, serverEnd, result, watchdog>>

\* The deferred "quit <- true" meets the watchdog or blocks.
Leave ==
  /\ pc \in {"return", "panic"}
  /\ watchdog = "waiting"
  /\ watchdog' = "gone"
  /\ pc' = IF pc = "return" THEN "returned" ELSE "aborted"
  /\ UNCHANGED <<next, proc, files, serverEnd, result>>

Warn ==
  /\ watchdog = "waiting"
  /\ watchdog' = "warned"
  /\ UNCHANGED <<pc, next, proc, files, serverEnd, result>>

-----------------------------------------------------------------------------
(***************************************************************************)
(* The processes.                                                          *)
(***************************************************************************)
InPipe(i) == wrote[i] - read[i + 1]

\* A read takes a line from the pipe before stage i, or waits for one.
Reads(i) ==
  /\ Alive(i)
  /\ read[i] < Takes[i] /\ wrote[i] = read[i]
  /\ i > 1 => InPipe(i - 1) > 0
  /\ read' = [read EXCEPT ![i] = @ + 1]
  /\ UNCHANGED <<pc, next, proc, wrote, serverEnd, result, watchdog>>

\* A write to the next stage waits while the pipe is full; the output of
\* the last stage goes to the buffer of the run, which is always drained.
HasRoom(i) == i < Stages => InPipe(i) < PipeSize
Writes(i) ==
  /\ Alive(i)
  /\ wrote[i] < read[i]
  /\ HasRoom(i)
  /\ wrote' = [wrote EXCEPT ![i] = @ + 1]
  /\ UNCHANGED <<pc, next, proc, read, serverEnd, result, watchdog>>

EndOfInput_WriteEndKept(i) == FALSE
EndOfInput(i) == i > 1 /\ InPipe(i - 1) = 0 /\ Ended(i - 1)

\* A stage exits when it is done; SIGPIPE reaches none (ReadEndStays).
Exits(i) ==
  /\ Alive(i)
  /\ wrote[i] = read[i]
  /\ read[i] = Takes[i] \/ EndOfInput(i)
  /\ proc' = [proc EXCEPT ![i] = "exited"]
  /\ UNCHANGED <<pc, next, files, serverEnd, result, watchdog>>

-----------------------------------------------------------------------------
Eval == StartStage \/ StartLast \/ RunReturns \/ WaitStage \/ WaitEnds \/ Leave
Process(i) == Reads(i) \/ Writes(i) \/ Exits(i)

Next == Eval \/ Warn \/ \E i \in Stage : Process(i)

Spec == Init /\ [][Next]_vars

FairSpec == Spec /\ WF_vars(Eval) /\ \A i \in Stage : WF_vars(Process(i))

-----------------------------------------------------------------------------
(***************************************************************************)
(* Properties.                                                             *)
(***************************************************************************)

\* The lines stage i gets, when every stage before it gets what it wants.
Gets(i) == Min({Takes[j] : j \in 1 .. i})

\* The server holds the read end of the pipe after a stage for as long as
\* the stage runs: it is never killed by SIGPIPE.
ReadEndStays == \A i \in Upstream : Alive(i) => serverEnd[i]

\* When a pipe is met or unmet, no process of it is left, and what the last
\* stage has written is in the buffer: all of what it gets, if it started.
Complete ==
  pc = "returned" =>
    /\ \A i \in Upstream : proc[i] = "reaped" /\ ~ serverEnd[i]
    /\ proc[Stages] = "reaped" => wrote[Stages] = Gets(Stages)

\* Eval comes back if the server is not warned of a long run and every stage
\* leaves no more unread than its pipe holds.
LeavesRoom ==
  \A i \in Upstream : Gets(i) - Gets(i + 1) <= PipeSize
Evaluating == pc \notin {"returned", "aborted"}
PipeReturns ==
  LeavesRoom =>
    (pc = "run" ~> (~ Evaluating \/ watchdog = "warned"))
=============================================================================
