---------------------------- MODULE ExecCommand ----------------------------
(***************************************************************************)
(* ExecPromise.Eval, one execution after another: the goroutine that       *)
(* evaluates, the child process, the two goroutines that copy its standard *)
(* output and standard error through a scanner and a buffered writer into  *)
(* the buffers of the run, and the watchdog.                               *)
(*                                                                         *)
(* A line is a record of the execution that writes it and its position.    *)
(* Whether a line fills the buffered writer (4096 bytes) is left open; one *)
(* in Long is more than the scanner takes (64 KiB).                        *)
(*                                                                         *)
(* Eval and processOutput have value receivers, so the WaitGroup the       *)
(* copiers use is a copy that dies with processOutput, and the one Eval    *)
(* waits for is never incremented.  The copiers are joined with nothing.   *)
(* They write into the buffers that the next execution resets and fills at *)
(* the same time.  A bytes.Buffer is not made for that: its Write reads    *)
(* the length, makes the slice longer and copies last.  A Reset before the *)
(* second step uncovers what the array still holds of earlier commands; a  *)
(* Reset before the third leaves no room behind the length that was read,  *)
(* which is a panic in a goroutine nobody recovers, the end of the server, *)
(* or, behind length 0, a short write, which the buffered writer never     *)
(* gets over.                                                              *)
(***************************************************************************)
EXTENDS Integers, Sequences, FiniteSets

CONSTANTS
  Execs,      \* bound: executions of the run, 1 .. Execs
  Writes,     \* Exec -> the streams its lines go to, in order
  Long,       \* the lines the scanner gives up at
  PipeSize    \* bound: lines a kernel pipe holds

Exec   == 1 .. Execs
Stream == {"out", "err"}
Line   == [exec : Exec, no : Nat]

\* What the array holds where nothing has been written.
Zero == [exec |-> 0, no |-> 0]
Cell == Line \union {Zero}

ASSUME ExecAssumption ==
  /\ Execs \in Nat
  /\ Writes \in [Exec -> Seq(Stream)]
  /\ Long \subseteq Line
  /\ PipeSize \in Nat \ {0}

VARIABLES
  now,        \* the current execution, 0 before the first
  pc,         \* where its Eval is
  child,      \* Exec -> the process it starts
  written,    \* Exec -> how many of its lines the process has written
  pipe,       \* Exec -> Stream -> the lines in the kernel pipe
  readEnd,    \* Exec -> whether the read ends are open
  copier,     \* Exec -> Stream -> the goroutine reading the pipe
  held,       \* Exec -> Stream -> the lines in its buffered writer
  base,       \* Exec -> Stream -> the length of the buffer its write has read
  array,      \* Stream -> the array of ctx.ExecStdout and ctx.ExecStderr
  length,     \* Stream -> how much of the array is the buffer's contents
  late,       \* Stream -> history: Eval reset the buffer under a copier
  watchdog    \* Exec -> the goroutine that warns after five minutes

process == <<child, written>>
buffer  == <<array, length>>
output  == <<pipe, readEnd, copier, held, base, array, length, late>>
vars    == <<now, pc, child, written, pipe, readEnd, copier, held, base,
             array, length, late, watchdog>>

TypeOK ==
  /\ now \in 0 .. Execs
  /\ pc \in {"idle", "output", "start", "wait", "waitOutput", "account",
             "return", "panic", "aborted"}
  /\ child \in [Exec -> {"none", "running", "exited"}]
  /\ written \in [Exec -> Nat]
  /\ pipe \in [Exec -> [Stream -> Seq(Line)]]
  /\ readEnd \in [Exec -> BOOLEAN]
  /\ copier \in [Exec -> [Stream -> {"none", "scan", "grow", "copy", "drain", "done",
                                  "panicked"}]]
  /\ held \in [Exec -> [Stream -> Seq(Line)]]
  /\ base \in [Exec -> [Stream -> Nat]]
  /\ array \in [Stream -> Seq(Cell)]
  /\ length \in [Stream -> Nat]
  /\ late \in [Stream -> BOOLEAN]
  /\ watchdog \in [Exec -> {"none", "waiting", "warned", "gone"}]

Init ==
  /\ now = 0
  /\ pc = "idle"
  /\ child = [e \in Exec |-> "none"]
  /\ written = [e \in Exec |-> 0]
  /\ pipe = [e \in Exec |-> [s \in Stream |-> <<>>]]
  /\ readEnd = [e \in Exec |-> FALSE]
  /\ copier = [e \in Exec |-> [s \in Stream |-> "none"]]
  /\ held = [e \in Exec |-> [s \in Stream |-> <<>>]]
  /\ base = [e \in Exec |-> [s \in Stream |-> 0]]
  /\ array = [s \in Stream |-> <<>>]
  /\ length = [s \in Stream |-> 0]
  /\ late = [s \in Stream |-> FALSE]
  /\ watchdog = [e \in Exec |-> "none"]

-----------------------------------------------------------------------------
(***************************************************************************)
(* Eval.                                                                   *)
(***************************************************************************)

\* The watchdog is started first.
Enter ==
  /\ pc = "idle"
  /\ now < Execs
  /\ now' = now + 1
  /\ pc' = "output"
  /\ watchdog' = [watchdog EXCEPT ![now + 1] = "waiting"]
  /\ UNCHANGED <<process, output>>

\* Resets the buffers, which keep their arrays, and starts the copiers, unless
\* there is no pipe left.
Reset_Stderr == [length EXCEPT !["err"] = 0]
Reset == [s \in Stream |-> 0]
Copying(e, s) == copier[e][s] \notin {"none", "done"}
ProcessOutput ==
  /\ pc = "output"
  /\ length' = Reset
  /\ late' = [s \in Stream |-> \E e \in Exec : Copying(e, s)]
  /\ \/ /\ pc' = "start"
        /\ readEnd' = [readEnd EXCEPT ![now] = TRUE]
        /\ copier' = [copier EXCEPT ![now] = [s \in Stream |-> "scan"]]
     \/ /\ pc' = "panic"
        /\ UNCHANGED <<readEnd, copier>>
  /\ UNCHANGED <<now, process, pipe, held, base, array, watchdog>>

\* cmd.Start; a command that cannot be started closes its pipes.
StartChild ==
  /\ pc = "start"
  /\ \/ /\ pc' = "wait"
        /\ child' = [child EXCEPT ![now] = "running"]
        /\ readEnd' = readEnd
     \/ /\ pc' = "panic"
        /\ readEnd' = [readEnd EXCEPT ![now] = FALSE]
        /\ child' = child
  /\ UNCHANGED <<now, written, pipe, copier, held, base, buffer, late, watchdog>>

\* cmd.Wait closes the read ends when the process has exited, read or not.
ChildGone_Unchecked == TRUE
ChildGone == child[now] = "exited"
WaitChild ==
  /\ pc = "wait"
  /\ ChildGone
  /\ pc' = "waitOutput"
  /\ readEnd' = [readEnd EXCEPT ![now] = FALSE]
  /\ UNCHANGED <<now, process, pipe, copier, held, base, buffer, late, watchdog>>

\* p.wgOutput.Wait on the WaitGroup that stays zero.
WaitOutput ==
  /\ pc = "waitOutput"
  /\ pc' = "account"
  /\ UNCHANGED <<now, process, output, watchdog>>

\* The buffers are logged, which leaves them as they are, and the execution
\* is counted.
Logged_Consumed == [s \in Stream |-> 0]
Logged == length
Account ==
  /\ pc = "account"
  /\ pc' = "return"
  /\ length' = Logged
  /\ UNCHANGED <<now, process, pipe, readEnd, copier, held, base, array, late,
                 watchdog>>

\* The deferred "quit <- true": it meets the watchdog or blocks.
WatchdogReceives == watchdog[now] = "waiting"
Leave ==
  /\ pc \in {"return", "panic"}
  /\ WatchdogReceives
  /\ pc' = IF pc = "return" THEN "idle" ELSE "aborted"
  /\ watchdog' = [watchdog EXCEPT ![now] = "gone"]
  /\ UNCHANGED <<now, process, output>>

\* Five minutes have passed: the watchdog logs its warning and is gone.
Warn(e) ==
  /\ watchdog[e] = "waiting"
  /\ watchdog' = [watchdog EXCEPT ![e] = "warned"]
  /\ UNCHANGED <<now, pc, process, output>>

-----------------------------------------------------------------------------
(***************************************************************************)
(* The child process.                                                      *)
(***************************************************************************)

\* A write blocks while the pipe is full.
ChildWrites(e) ==
  /\ child[e] = "running"
  /\ written[e] < Len(Writes[e])
  /\ LET no == written[e] + 1
         s  == Writes[e][no]
     IN /\ Len(pipe[e][s]) < PipeSize
        /\ pipe' = [pipe EXCEPT ![e][s] = Append(@, [exec |-> e, no |-> no])]
        /\ written' = [written EXCEPT ![e] = no]
  /\ UNCHANGED <<now, pc, child, readEnd, copier, held, base, buffer, late, watchdog>>

ChildExits(e) ==
  /\ child[e] = "running"
  /\ written[e] = Len(Writes[e])
  /\ child' = [child EXCEPT ![e] = "exited"]
  /\ UNCHANGED <<now, pc, written, output, watchdog>>

-----------------------------------------------------------------------------
(***************************************************************************)
(* The copiers.                                                            *)
(***************************************************************************)

Readable(e, s) == readEnd[e] /\ pipe[e][s] # <<>>

\* One line of the scanner goes into the buffered writer, which may be full
\* and then writes to the buffer of the run: Write reads the length first.
CopierScans(e, s) ==
  /\ copier[e][s] = "scan"
  /\ Readable(e, s)
  /\ Head(pipe[e][s]) \notin Long
  /\ pipe' = [pipe EXCEPT ![e][s] = Tail(@)]
  /\ held' = [held EXCEPT ![e][s] = Append(@, Head(pipe[e][s]))]
  /\ \/ /\ copier' = [copier EXCEPT ![e][s] = "grow"]
        /\ base' = [base EXCEPT ![e][s] = length[s]]
     \/ UNCHANGED <<copier, base>>
  /\ UNCHANGED <<now, pc, process, readEnd, buffer, late, watchdog>>

\* A buffered writer with an error takes no line any more.
CopierDrains(e, s) ==
  /\ copier[e][s] = "drain"
  /\ Readable(e, s)
  /\ Head(pipe[e][s]) \notin Long
  /\ pipe' = [pipe EXCEPT ![e][s] = Tail(@)]
  /\ UNCHANGED <<now, pc, process, readEnd, copier, held, base, buffer, late, watchdog>>

\* The scanner ends: all writers are gone, the read end has been closed
\* under it, or the line is too long.  What is held is flushed.
ScanEnds_WouldBlock(e, s) == pipe[e][s] = <<>> \/ ~ readEnd[e]
ScanEnds_OnlyEOF(e, s) == pipe[e][s] = <<>> /\ child[e] = "exited"
ScanEnds(e, s) ==
  \/ pipe[e][s] = <<>> /\ child[e] = "exited"
  \/ ~ readEnd[e]
  \/ Readable(e, s) /\ Head(pipe[e][s]) \in Long

CopierEnds(e, s) ==
  /\ copier[e][s] \in {"scan", "drain"}
  /\ ScanEnds(e, s)
  /\ IF held[e][s] = <<>>
       THEN copier' = [copier EXCEPT ![e][s] = "done"] /\ base' = base
       ELSE /\ copier' = [copier EXCEPT ![e][s] = "grow"]
            /\ base' = [base EXCEPT ![e][s] = length[s]]
  /\ UNCHANGED <<now, pc, process, pipe, readEnd, held, buffer, late, watchdog>>

\* grow makes the slice longer, in the old array if there is room and else
\* in a new one, into which it copies what the buffer has now.
Grown(q, len, n) ==
  [i \in 1 .. 2 * Len(q) + n |-> IF i <= len /\ i <= Len(q) THEN q[i] ELSE Zero]
CopierGrows(e, s) ==
  /\ copier[e][s] = "grow"
  /\ LET n   == Len(held[e][s])
         top == base[e][s] + n
     IN /\ array' = IF top <= Len(array[s]) THEN array
                    ELSE [array EXCEPT ![s] = Grown(@, length[s], n)]
        /\ length' = [length EXCEPT ![s] = top]
  /\ copier' = [copier EXCEPT ![e][s] = "copy"]
  /\ UNCHANGED <<now, pc, process, pipe, readEnd, held, base, late, watchdog>>

\* The lines go behind the length that was read, as far as the buffer now
\* reaches; if it does not even reach there, the goroutine panics.
Filled(q, from, room, lines) ==
  [i \in 1 .. Len(q) |->
     IF i - from \in 1 .. Len(lines) /\ i - from <= room THEN lines[i - from] ELSE q[i]]
CopierCopies(e, s) ==
  /\ copier[e][s] = "copy"
  /\ LET from == base[e][s]
         room == length[s] - from
     IN IF room < 0
          THEN /\ copier' = [copier EXCEPT ![e][s] = "panicked"]
               /\ UNCHANGED <<array, held, base>>
          ELSE /\ array' = [array EXCEPT ![s] = Filled(@, from, room, held[e][s])]
               /\ held' = [held EXCEPT ![e][s] = <<>>]
               /\ copier' = [copier EXCEPT ![e][s] =
                    IF Len(held[e][s]) <= room THEN "scan" ELSE "drain"]
               /\ base' = [base EXCEPT ![e][s] = 0]
  /\ UNCHANGED <<now, pc, process, pipe, readEnd, length, late, watchdog>>

-----------------------------------------------------------------------------
\* A panic in a goroutine of its own ends the process.
Crashed == \E e \in Exec : \E s \in Stream : copier[e][s] = "panicked"

Eval ==
  /\ ~ Crashed
  /\ \/ Enter \/ ProcessOutput \/ StartChild \/ WaitChild \/ WaitOutput
     \/ Account \/ Leave
Child(e) ==
  /\ ~ Crashed
  /\ ChildWrites(e) \/ ChildExits(e)
Copier(e, s) ==
  /\ ~ Crashed
  /\ \/ CopierScans(e, s) \/ CopierDrains(e, s) \/ CopierEnds(e, s)
     \/ CopierGrows(e, s) \/ CopierCopies(e, s)
Watchdog(e) ==
  /\ ~ Crashed
  /\ Warn(e)

Next ==
  \/ Eval
  \/ \E e \in Exec : Child(e) \/ Watchdog(e) \/ \E s \in Stream : Copier(e, s)

Spec == Init /\ [][Next]_vars

\* The Go scheduler runs every goroutine that can go on, the system every
\* process; no fairness for the five minutes, which a run need not last.
FairSpec ==
  /\ Spec
  /\ WF_vars(Eval)
  /\ \A e \in Exec : WF_vars(Child(e)) /\ \A s \in Stream : WF_vars(Copier(e, s))

-----------------------------------------------------------------------------
(***************************************************************************)
(* Properties.                                                             *)
(***************************************************************************)

\* If nobody was writing to a buffer when it was reset, then nothing is lost,
\* doubled or mixed up on the way: what has been copied into it, what the
\* copier holds and what is in the pipe are together the lines that the
\* command has written to the stream so far, in order, and nothing else.
Owner == IF pc = "output" THEN now - 1 ELSE now
Settled(s) == IF copier[Owner][s] = "copy" THEN base[Owner][s] ELSE length[s]
OnTheWay(s) == SubSeq(array[s], 1, Settled(s)) \o held[Owner][s] \o pipe[Owner][s]
LinesOf(q, e, s) ==
  /\ \A i \in 1 .. Len(q) :
       q[i].exec = e /\ q[i].no \in 1 .. written[e] /\ Writes[e][q[i].no] = s
  /\ \A i, j \in 1 .. Len(q) : i < j => q[i].no < q[j].no
  /\ \A no \in 1 .. written[e] :
       Writes[e][no] = s => \E i \in 1 .. Len(q) : q[i].no = no
OutputExact ==
  Owner > 0 =>
    \A s \in Stream : ~ late[s] => LinesOf(OnTheWay(s), Owner, s)

\* The server dies of its output only if Eval has reset a buffer under a
\* copier of an earlier command.
CrashNeedsLate == Crashed => \E s \in Stream : late[s]

\* Executions do not overlap: all earlier ones have left nothing but copiers,
\* and a watchdog is waiting only for the current one.
OneAtATime ==
  \A e \in Exec :
    /\ e < now => child[e] = "exited" /\ ~ readEnd[e] /\ watchdog[e] = "gone"
    /\ watchdog[e] = "waiting" => e = now /\ pc \notin {"idle", "aborted"}

\* Eval comes back, unless the watchdog has warned before, the server has
\* crashed or the command writes more than a pipe holds after a line too long
\* for the scanner.
Clean(e) ==
  \A l \in Long : l.exec = e =>
    Cardinality({no \in l.no .. Len(Writes[e]) : Writes[e][no] = Writes[e][l.no]})
      <= PipeSize
Evaluating(e) == now = e /\ pc \notin {"idle", "aborted"}
EvalReturns ==
  \A e \in Exec : Clean(e) =>
    (Evaluating(e) ~> (~ Evaluating(e) \/ watchdog[e] = "warned" \/ Crashed))

\* No copier outlives its command for good, while the server lives.
CopiersEnd ==
  \A e \in Exec : \A s \in Stream :
    (copier[e][s] # "none" /\ Clean(e)) ~> (copier[e][s] = "done" \/ Crashed)

=============================================================================
