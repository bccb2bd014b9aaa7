---------------------------- MODULE ClientWatch ----------------------------
(***************************************************************************)
(* The command "client watch": the loop that compiles the input folder and *)
(* sends the promise, the goroutine that turns events of the file-system   *)
(* watcher into triggers of that loop, and the Throttle between them.      *)
(*                                                                         *)
(* What the loop has read is seen as the number of changes it knows of;    *)
(* compiling and sending may fail, the watcher may report errors.  Time is *)
(* counted in steps of a clock.                                            *)
(*                                                                         *)
(* Only the input folder itself is watched.  Compiling reads what is below *)
(* it, the folders that links lead to and the library folder as well, and  *)
(* a change there gives no event.                                          *)
(***************************************************************************)
EXTENDS Integers

CONSTANTS
  MaxEdits,   \* bound: changes of what is compiled
  MaxEvents,  \* bound: events that one change causes
  MaxErrors,  \* bound: errors of the watcher not yet received
  MaxIdle,    \* bound: time that passes before the next change
  MaxLate,    \* bound: time a sleeper may oversleep
  RunTime,    \* dt, the minimum time slice of the Throttle
  Num, Den    \* f = Num / Den, time to sleep per time run

ASSUME WatchAssumption ==
  /\ MaxEdits \in Nat /\ MaxEvents \in Nat /\ MaxErrors \in Nat
  /\ MaxIdle \in Nat /\ MaxLate \in Nat /\ RunTime \in Nat
  /\ Num \in Nat /\ Den \in Nat \ {0}

VARIABLES
  main,       \* the loop
  watcher,    \* the goroutine that receives the events
  version,    \* changes made so far to what is compiled
  announced,  \* the last of them that was in the input folder itself
  read,       \* changes the last compilation is certain to have seen
  events,     \* events not yet received
  errors,     \* errors not yet received
  triggered,  \* Throttle.trg
  running,    \* Throttle.tr, accumulated time running
  stopped,    \* Throttle.ts, accumulated time stopped
  earliest,   \* Throttle.tt, earliest throttle time
  since,      \* when the current call of Throttle began
  now

folder   == <<version, announced, events, errors>>
throttle == <<triggered, running, stopped, earliest, since>>
vars     == <<main, watcher, version, announced, read, events, errors,
              triggered, running, stopped, earliest, since, now>>

TypeOK ==
  /\ main \in {"compile", "connect", "send", "wait", "ended"}
  /\ watcher \in {"select", "throttle", "sleep", "trigger", "report"}
  /\ version \in Nat /\ announced \in Nat /\ read \in Nat
  /\ events \in Nat /\ errors \in Nat
  /\ triggered \in BOOLEAN
  /\ running \in Nat /\ stopped \in Nat
  /\ earliest \in Nat /\ since \in Nat /\ now \in Nat

\* The folder is watched before it is compiled for the first time.
Init ==
  /\ main = "compile" /\ watcher = "select"
  /\ version = 0 /\ announced = 0 /\ read = 0
  /\ events = 0 /\ errors = 0
  /\ triggered = FALSE
  /\ running = 0 /\ stopped = 0
  /\ earliest = RunTime /\ since = 0 /\ now = 0

-----------------------------------------------------------------------------
(***************************************************************************)
(* The folder, its watcher and the clock.                                  *)
(***************************************************************************)
\* A change of the input folder itself, which gives events, or of another
\* place that is compiled, which gives none.
EditInput ==
  /\ announced' = version + 1
  /\ \E k \in 1 .. MaxEvents : events' = events + k
EditElsewhere == UNCHANGED <<announced, events>>
Edit ==
  /\ version < MaxEdits
  /\ version' = version + 1
  /\ EditInput \/ EditElsewhere
  /\ UNCHANGED <<main, watcher, read, errors, throttle, now>>

WatchFails ==
  /\ errors < MaxErrors
  /\ errors' = errors + 1
  /\ UNCHANGED <<main, watcher, version, announced, read, events, throttle, now>>

\* The time the Throttle owes.
Share(time) == (time * Num) \div Den
Due == Share(running) - stopped

Sleeps == watcher = "sleep" /\ now < since + Due + MaxLate
Tick ==
  /\ Sleeps \/ (watcher # "sleep" /\ now < earliest + MaxIdle)
  /\ now' = now + 1
  /\ UNCHANGED <<main, watcher, read, folder, throttle>>

-----------------------------------------------------------------------------
(***************************************************************************)
(* The goroutine that receives the events.                                 *)
(***************************************************************************)
AfterEvent_Coalesced == IF main = "wait" THEN "throttle" ELSE "select"
AfterEvent == IF triggered THEN "select" ELSE "throttle"

\* An event is dropped while the Throttle is triggered.
ReceiveEvent ==
  /\ watcher = "select"
  /\ events > 0
  /\ events' = events - 1
  /\ watcher' = AfterEvent
  /\ UNCHANGED <<main, version, announced, read, errors, throttle, now>>

\* The error is sent on a channel that nobody receives from.
ReceiveError ==
  /\ watcher = "select"
  /\ errors > 0
  /\ errors' = errors - 1
  /\ watcher' = "report"
  /\ UNCHANGED <<main, version, announced, read, events, throttle, now>>

Stopped == stopped + now - since
\* What Throttle does on its way out, after stopping since t0.
Leave(t0) ==
  /\ watcher' = "trigger"
  /\ triggered' = FALSE
  /\ earliest' = now + RunTime
  /\ since' = t0

Running_GapOnly == running + now - earliest
Running == running + now - earliest + RunTime
\* Before the minimum time slice is over Throttle returns at once, later it
\* makes the goroutine sleep for the time due.
Throttle ==
  /\ watcher = "throttle"
  /\ \/ /\ now < earliest
        /\ watcher' = "trigger"
        /\ UNCHANGED <<running, stopped, earliest, since, triggered>>
     \/ /\ now >= earliest
        /\ running' = Running
        /\ stopped' = stopped
        /\ \/ /\ Share(Running) > stopped
              /\ watcher' = "sleep"
              /\ triggered' = TRUE
              /\ since' = now
              /\ earliest' = earliest
           \/ /\ Share(Running) <= stopped
              /\ Leave(now)
  /\ UNCHANGED <<main, read, folder, now>>

Wake ==
  /\ watcher = "sleep"
  /\ now >= since + Due
  /\ stopped' = Stopped
  /\ Leave(since)
  /\ UNCHANGED <<main, read, running, folder, now>>

-----------------------------------------------------------------------------
(***************************************************************************)
(* The loop.                                                               *)
(***************************************************************************)

\* A change made while the folder is being read need not have been seen.
\* What does not compile is logged only.
Compile ==
  /\ main = "compile"
  /\ read' = version
  /\ main' \in {"connect", "wait"}
  /\ UNCHANGED <<watcher, folder, throttle, now>>

\* Any other error, also one that the server answers, ends the command.
Connect ==
  /\ main = "connect"
  /\ main' \in {"send", "ended"}
  /\ UNCHANGED <<watcher, read, folder, throttle, now>>

SendPromise ==
  /\ main = "send"
  /\ main' \in {"wait", "ended"}
  /\ UNCHANGED <<watcher, read, folder, throttle, now>>

\* The unbuffered channel "trigger".
CanTrigger_NoWait == watcher = "trigger"
CanTrigger == watcher = "trigger" /\ main = "wait"
Trigger ==
  /\ CanTrigger
  /\ watcher' = "select"
  /\ main' = IF main = "wait" THEN "compile" ELSE main
  /\ UNCHANGED <<read, folder, throttle, now>>

MainError ==
  /\ main = "wait"
  /\ errors > 0
  /\ errors' = errors - 1
  /\ main' = "ended"
  /\ UNCHANGED <<watcher, version, announced, read, events, throttle, now>>

Receiver == ReceiveEvent \/ ReceiveError \/ Throttle \/ Wake
Loop     == Compile \/ Connect \/ SendPromise \/ Trigger \/ MainError

\* The process ends with the loop.
Next ==
  /\ main # "ended"
  /\ Edit \/ WatchFails \/ Tick \/ Receiver \/ Loop

Spec == Init /\ [][Next]_vars

\* Time passes for a sleeper, goroutines that can go on do, and servers
\* answer.
FairSpec ==
  /\ Spec
  /\ WF_vars(main # "ended" /\ Loop)
  /\ WF_vars(main # "ended" /\ Receiver)
  /\ WF_vars(main # "ended" /\ watcher = "sleep" /\ Tick)

-----------------------------------------------------------------------------
(***************************************************************************)
(* Properties.                                                             *)
(***************************************************************************)

\* A change of the input folder itself that the last compilation may have
\* missed is on its way: as an event not yet received, as a trigger not yet
\* delivered, or because the loop is about to compile again.
NoChangeLost ==
  announced > read =>
    \/ events > 0
    \/ watcher \in {"throttle", "sleep", "trigger"}
    \/ main \in {"compile", "ended"}

\* So every change up to the last of the input folder itself is read, unless
\* the command ends before or the receiver has got an error of the watcher.
ChangeIsRead ==
  \A v \in 1 .. MaxEdits :
    announced >= v ~> (read >= v \/ main = "ended" \/ watcher = "report")

\* All time up to the last stop is accounted once, as running or as stopped.
TimeAccounted ==
  IF watcher = "sleep" THEN running + stopped = since
                       ELSE running + stopped = earliest - RunTime

=============================================================================
