# llconf, specified in TLA+

llconf is a configuration-management tool. A client parses promises, a small
Lisp-like language, resolves them into one tree, and sends the tree over
TLS/SPDY to a server process (as root, on the machine to be configured), which
evaluates it, logs what it did and sends the output back.

This directory holds specifications of the parts of llconf whose behaviour is
hard to see from a unit test, TLC configurations that check them on small
instances, and TLAPS proofs for every part. Every
definition is translated from the Go source; `PROJECT.json` says from which
lines ("map").

## 1. Inventory

State, operations and interactions of each part, and what makes it correct.

### Promise evaluation (`promise/*_promise.go`, `in_dir.go`, `as_user.go`, `set_env.go`)

*State*: the Go call stack; per call a `Context` (arguments, variables,
environment, directory, credentials) of which some promises make a shallow
copy; the maps of variables and backing arrays those copies share; the output
buffers of the run; the counters of the Logger.
*Operations*: `New` (checks types and number of arguments) and `Eval` of each of
the twenty types of promise; `GetValue` of the getters.
*Interacts with*: the run context (calls the root's `Eval`, recovers panics),
the Logger (counters), the executions and pipes below.
*Hard*: aliasing (shared maps, shared spare capacity of slices), panics as
control flow, counters incremented in three places, output that arrives after
the promise that reads it.
*Correct when*: (and) and (or) short-circuit and nothing is executed that the
tree does not ask for; a named promise sees its caller's variables and never
changes them, and its own are gone when it returns; environment, directory and user
are those of the enclosing promises; a run ends; its report is what it did.

### Executions (`promise/exec_promise.go`, `ExecPromise`)

*State*: child process, two kernel pipes, two goroutines copying them through a
scanner and a `bufio.Writer`, two shared buffers, one watchdog goroutine.
*Operations*: `Eval`, `processOutput`, the copiers, the watchdog.
*Hard*: the copiers are not joined (the `WaitGroup` is copied), `cmd.Wait`
closes the pipes under them, buffers are reset while old copiers still write,
the deferred send to the watchdog blocks when it has gone.
*Correct when*: output is complete, in order and of this command, a late copier
does not end the server, `Eval` returns, nothing is left behind.

### Pipes (same file, `PipePromise`)

*State*: one process per stage, a kernel pipe between neighbours whose read end
the server holds too, the watchdog.
*Operations*: start the stages, run the last, wait for the rest.
*Hard*: full pipes, a stage that stops reading, one of several that does not
start. *Correct when*: no output is lost, no process is left, `Eval` returns.

### Counters and Logger (`logging/logging.go`)

*State*: one global Logger: `Out`, four counters. *Operations*: increment,
`Reset`, `SetOutput`. *Hard*: it is global, runs are not. *Correct when*: a report has what
its own run did.

### Run context (`context/context.go`)

*State*: the parsed arguments, directories, certificates, datastore, server or
client. *Operations*: `ExecPromise` (evaluate, recover, report), `SendPromise`,
`CreateClient`, `StartServer`, parsing of the input folder, certificate
commands, an optional run log. *Hard*: panics recovered after some of the
deferred work was not registered; the single check whether the server lives.

### Server (`server/server.go`, `util/listener.go`)

*State*: listener, tomb, one goroutine per connection, the Logger's output.
*Operations*: accept with a timeout of one second, receive, decode, evaluate,
answer, close. *Interacts with*: clients (promise and answer, one at a time),
run context (callback `OnPromiseReceived`), main goroutine (signal, close).
*Hard*: every connection redirects the same Logger; one failed connection kills
the tomb; shutdown races acceptance. *Correct when*: each promise is answered once,
its output goes to its client, a stop drains and ends.

### Client watch (`cmd/client_watch.go`, `util/throttle.go`)

*State*: the loop that compiles and sends; the goroutine that receives from the
file-system watcher; the Throttle (two accumulated times, the earliest time to
throttle, a flag); two unbuffered channels. *Operations*: receive an event or an
error, throttle, sleep, trigger; compile, connect, send, wait.
*Hard*: a trigger waits while the loop is busy, an error is sent on a channel
nobody receives from; only the input folder itself is watched, not what is below
it, behind its links or in the library folder, which are compiled too. *Correct
when*: every change of the input folder itself is read by a later compilation, as
long as neither the command has ended nor the receiver is stuck with an error; the
Throttle accounts all time and sleeps its share of it.

### Lexer (`compiler/lexer`, `compiler/token`)

*State*: the text, offsets, two depths, the next state function; a goroutine
that sends tokens on an unbuffered channel. *Operations*: eleven state
functions. *Hard*: spaces are removed by backing up; two counters of depth
beside the parser's recursion; errors that are not returned.

### Parser and resolver (`compiler/parser/parser.go`)

*State*: the recursive calls with their partial promises, the map of unresolved
promises. *Operations*: `parse`, `parseArg`, `parseGetter`, `parseJoiner` take
tokens; `resolve` and `resolvePrimary` follow names through that map.
*Interacts with*: one lexer after another, the `New` function of each type of promise.
*Hard*: tokens a function ignores, names that refer to themselves, files in any
division. *Correct when*: what is written is what is parsed; what can be
resolved is, anything else is an error; it ends.

### Upgrade on SIGUSR2 (`context.go`, `server.go`, goagain, upstart)

*State*: the processes of a machine, which of them have the listening socket
open, accept, are dying; who forked whom; the connections they serve.
*Operations*: start with a new listener or with the one of the parent, kill the
parent, the check whether the server lives, wait for signals, close the
datastore before forking, close the server; (restart), which sends SIGUSR2 to
its own process. *Hard*: the old process may be evaluating while the new one
starts, serves and kills it; upstart starts another when the first has ended;
any of them may crash. *Correct when*: the port stays bound and no connection is
lost; servers at a time are one family; the successor gets the datastore.

### Data store and key pair (`store/datastore.go`, `context.go`, `cmd/server_cert.go`)

*State*: the bolt file of client certificates with its lock, the two files of
the server's key pair. *Operations*: `New`, `Pool`, `StoreCert`, `RemoveCert`,
`Close`; `ensureServerCert` and `generateCert`. *Hard*: look-up and change are
two transactions, under the lock of the file, which is the only thing that keeps
other processes out; two files are written one after the other, under no lock,
before the store is opened; a crash in between. *Correct when*: a command takes
effect once or not at all; a pair that is found can be loaded.

### Compiler (`compiler/compiler.go`)

*State*: one goroutine per folder with its recursive calls, the unbuffered
channel of paths, the global map of links. *Operations*: `Compile`,
`listFiles`. *Hard*: the map is shared by goroutines without a lock and by all
compilations of a process; links that lead in a circle, to nothing or to what is
found anyway; files that go away; walkers nobody receives from any more.
*Correct when*: a compilation that succeeds has read every file; it ends; the
process survives.

### Not modelled

* **Text and file helpers** (`util/striplines.go`, `io/io.go`): `Striplines`
  lays out output for the log; package io is used by nothing but its tests.
  `util/helper.go` is `FileExists`, which `DataStore` has.
* **Command line** (`main.go`, `cmd/*.go`, `version.go`): flags, and commands that
  call into the run context in sequence. `server run`, `server cert add` and
  `server cert rm` are the processes of `Upgrade`; `client watch` is above.
* **Of the run context**: arguments and directories, the certificates of the
  client (the same code as for the server's), its signal handler, the run log.
* **Of the server**: TLS and SPDY, beyond that a connection can fail.
* **Of the Logger**: formatting, levels and the syslog hook.
* **Packaging** (`docker/`, `upstart/`, `Makefile`): no program state.

## 2. Modules

| Module | What it is | Source |
|---|---|---|
| `PromiseTree` | the trees as data, their assumptions, the getters | `promise.go`, the `New` functions, `*_getter.go` |
| `PromiseEval` | the evaluator: one action per step of an `Eval` | the `Eval` methods, `ExecPromise` in `context.go` |
| `PromiseSemantics` | what evaluation promises, without stack or context | abstract |
| `PromiseClaims` | EXTENDS `PromiseEval`: what the counters must hold, what the Readme says | properties |
| `PromiseEvalProofs` | theorems on the evaluator and its counters | proofs |
| `ExecCommand` | one execution after another, with process, copiers, watchdog | `exec_promise.go` |
| `PipeCommand` | one pipe, with its processes and kernel pipes | `exec_promise.go` |
| `ExecCommandProofs`, `PipeCommandProofs` | theorems on them | proofs |
| `Server` | acceptor, handlers, tomb, main goroutine, Logger | `server.go`, `context.go`, `listener.go` |
| `ServerProofs` | theorems on the server | proofs |
| `DataStore` | the processes of a machine at the key pair and the store | `datastore.go`, `context.go`, `server_cert.go` |
| `Upgrade` | EXTENDS `DataStore`: servers that start, hand over, end, crash | `context.go`, `server.go`, `restart_promise.go` |
| `Service` | what clients may expect, whatever the processes | abstract |
| `UpgradeProofs` | theorems on both | proofs |
| `ClientWatch` | the loop, the receiver, the Throttle, a clock | `client_watch.go`, `throttle.go` |
| `ClientWatchProofs` | theorems on the client watch | proofs |
| `Lexer` | the lexer goroutine: one action per state function | `lexer.go`, `interface.go`, `token.go` |
| `Parser` | EXTENDS `Lexer`: the parser that takes its tokens, and the resolver | `parser.go` |
| `ParserClaims` | EXTENDS `Parser`: which promises can be resolved, by sets of promises | properties |
| `ParserProofs` | theorems on the lexer and the parser | proofs |
| `Compiler` | the walking goroutines and `Compile`, one compilation after another | `compiler.go` |
| `CompilerProofs` | theorems on the compiler | proofs |
| `MCPromiseTrees`, `MCPromiseClaims`, `MCExecCommand`, `MCPipeCommand`, `MCParser`, `MCCompiler` | instances for TLC | |

How they compose. `PromiseEval` EXTENDS `PromiseTree` and has the whole
evaluator; its `StartExec`/`EndExec`/`LateOutput` and `StartPipe`/`EndPipe` are
summaries of what `ExecCommand` and `PipeCommand` follow step by step: a
prefix of the output is in the buffer when `Eval` returns, some of the rest may
come later, some never (`OutputExact` in `ExecCommand` is the reason:
what is not in the buffer is still on its way, in order); a pipe's output is complete (`Complete` in `PipeCommand`).
`PromiseEval` implements `PromiseSemantics` by the refinement mapping
`ResultOf`. `Server` sees a run only through where its output goes; several
runs at once exist only there. `Upgrade` EXTENDS `DataStore`, so that a process
goes from the key pair over the lock of the store to the socket; it has the
goroutines of `Server` summarised: whether a process accepts, which connections
it serves, whether it is dying. It implements `Service` with the mapping
`up <- bound # {}`. `Compiler` hands the files it found to `Parser` in the code;
here it only knows that a file met twice does not parse. `Parser` and `Lexer`
share the channel: a token is taken by the function of the parser that was
called last, and the next state function runs when all tokens of the one before
have been taken. `ClientWatch` sees compiling and sending as steps that succeed
or fail.

### State and code

| Variable | Code |
|---|---|
| `cur`, `status`, `pos` | the Go stack: promise on top; in `Eval` or returned with a result; loop index, or whether a command has been started |
| `ctx[n]` | the `*Context` that `n.Eval` was called with, and its `Constants` (`args`) |
| `dict[s]` | the `Variables` map that `s` made; `Top` is `ExecPromise` |
| `array[s]` | the backing array of `Env` that an `append` in `s` allocated |
| `stdout`, `pending` | `ctx.ExecStdout`; text on its way in a copier |
| `logger`, `carried`, `report`, `outcome` | the counters; the counters a run found; the counters it logged; what `ExecPromise` returned |
| `pc`, `child`, `pipe`, `copier`, `held`, `base`, `array`, `length`, `watchdog` (`ExecCommand`) | where `Eval` is; the process; kernel pipes; the goroutines of `processOutput`; their `bufio.Writer`; the length a `Write` has read; the arrays and the lengths of the slices of the two `bytes.Buffer`; the goroutine started at the top of `Eval` |
| `late` (`ExecCommand`) | history: at the last `Reset` a copier of an earlier command was still there |
| `proc`, `read`, `wrote`, `serverEnd` (`PipeCommand`) | the processes of the stages, lines read and written, the read ends the server holds |
| `dying`, `acceptor`, `handler`, `listening`, `out`, `main` (`Server`) | the tomb, the goroutine in `run`, those in `receive`, the listener, `Logger.Out`, the goroutine in `StartServer` |
| `main`, `watcher`, `triggered`, `running`, `stopped`, `earliest`, `since` (`ClientWatch`) | the loop, the receiving goroutine, the fields `trg`, `tr`, `ts`, `tt` of the Throttle, `t0` |
| `version`, `announced`, `read`, `events`, `errors` (`ClientWatch`) | changes of what is compiled, the last of them in the watched folder itself, those the last compilation is certain to have seen, what the watcher has to report |
| `pc`, `job`, `lock`, `stored`, `keyFile`, `certFile` (`DataStore`) | where the main goroutine of each process is, its command, the lock on the bolt file and its entries, the contents of the pair |
| `parent`, `forked`, `bound`, `acceptor`, `dying`, `conn`, `at` (`Upgrade`) | who forked a process and whether goagain has forked in it; the listening socket; the goroutine in `run`, the tomb; connections and who serves them |
| `symlinks`, `inputs`, `at`, `stack` (`Compiler`) | the map of links; what `Compile` has read; the walking goroutines and their calls of `listFiles` |
| `state`, `start`, `pos`, `parenDepth`, `getterDepth`, `tokens` (`Lexer`) | the fields of the same names; `tokens` is what the current state function has still to send |
| `frames`, `unresolved`, `resolved`, `outcome` (`Parser`) | the Go stack of the parser; the two maps of `Parse`; what it returns |

### Abstractions

* A string is a sequence of atoms, some of them blank: enough for joining and
  `TrimSpace`. Command lines, paths, user names and the text of (setenv) stand
  for themselves as the promise that carries them.
* The variable a (setvar) or (readvar) binds is fixed by the tree; in the code
  its name is a getter too. A join has two parts and no join inside. An argument
  position is a natural number.
* In `PromiseEval` an `Eval` that does not call anything is one step; a call and
  a return are a step each, so that late output and failures can come between.
  Unsynchronised writes to the shared `bytes.Buffer` are
  resolved in `ExecCommand`; `PromiseEval` appends late output as a whole, and has
  no crash of a copier.
* The text of a log promise is left out. Whether the client has another version
  than the server, which counts as a warning, is open in `PromiseEval`.
* In `ExecCommand` the unit is a line. Whether a line fills the 4096 bytes of
  the buffered writer is left open; `Long` are the lines over the scanner's limit.
  A `Write` reads the length, makes the slice longer (in a new array, into which it
  copies what the buffer has then, if the old one has no room), and copies the lines
  behind the length it has read, in three steps between which another goroutine may
  write or reset. Every line has the same size, one cell of the array; a
  re-allocation with its copying and the final copy are a step each. A copier that
  finds the buffer shorter than the length it has read panics, which ends the
  process: what a command does that is left without a server is not followed. What the
  read end closed under it leaves in a pipe counts as still on its way.
* In `PipeCommand` lines are anonymous and stages are filters that copy.
* In `Server` a run is its begin and its end. TLS, SPDY and decoding appear as
  failures. The counters are in `PromiseEval`, one run at a time: two runs at
  once race on plain integers, and nothing can be said of their reports.
* In `DataStore` a certificate is its id, and the content of a file is who wrote
  it. A crash keeps what a write call has written. A process number is used once.
* In `Upgrade` goagain is what its use shows: `Wait` calls `OnBeforeSIGUSR2`,
  forks once, and returns on other signals. Asked a second time it may return,
  which counts as a fault, as do a stop, a lost client and the crash of a server.
* In `Compiler` a layout of the file system is fixed but for one file that may be
  removed; entries are visited in the order of `filepath.Walk`. A directory has an
  entry once and is not resolved to one of its own; a link is not resolved to itself. The runtime ends
  the process when it notices two goroutines at the map, which it may at any time
  one of them is writing.
* In `ClientWatch` a change is of the input folder itself (`EditInput`), and then
  causes one event or more, or of another place that is compiled (`EditElsewhere`),
  and then causes none. Time is a number of steps; 1/4 is the share for the 0.8 that
  the command passes to `NewThrottle`. A throttle that always sleeps (r = 0) is
  not reachable from the command and left out.
* In `Lexer` a text is a sequence of bytes by class, and the words of the
  language have one letter. A space outside ASCII has three bytes, because
  backing up goes by the width of runes; a text is whole runes (`IsText`): what
  is not UTF-8 is left out. Letters outside ASCII, line numbers
  and the wording of errors are left out. Of the builtins `Parser` has what their
  `New` looks at: how many children and arguments there are, and whether the children
  are executions, pipes, named promises or anything else (`Kind`). A promise that is
  resolved is kept only as resolved, and a stack overflow is a bound, `MaxDepth`.

## 3. Runs

All runs set `CHECK_DEADLOCK FALSE`, because every one of these systems may
stop: a process that has been sent all its promises (a bound, `MaxRuns`), a
run that panicked, a server that exited. Where stopping would be wrong a
liveness property says so. Type invariants are theorems; the run `parsing` checks
that of the lexer too, because it says that tokens stay within the text.

### Runs that pass

| Run | Module and configuration | Bounds | What it shows |
|---|---|---|---|
| `evaluation` | `MCPromiseClaims`, `PromiseEval.cfg` | four trees with each type of promise in them, 2 runs | order of calls, scopes, context, refinement of `PromiseSemantics`, nothing counted twice or missed but the ends of pipes, termination |
| `execution` | `MCExecCommand`, `ExecCommand.cfg` | 2 executions, 6 lines, a pipe holds 1 line, one line too long | what is in the buffers, what late output of one command can do to the next, when `Eval` returns, that copiers end |
| `pipe` | `MCPipeCommand`, `PipeCommand.cfg` | 3 stages, 5 lines, a pipe holds 2 | a pipe that returns has its output, leaves nothing, and ends |
| `server` | `Server`, `Server.cfg` | 3 connections | Logger never on a closed connection, answers paired, shutdown drains and ends |
| `watch` | `ClientWatch`, `ClientWatch.cfg` | 3 changes of up to 2 events, 1 error, a time slice of 2 | no change of the watched folder is lost, all time is accounted once |
| `parsing` | `MCParser`, `Parser.cfg` | 1516 texts of promises with every kind of argument and of child, in one file and in two, and 20 that cannot be read; all texts of up to 3 runes of 11 classes behind six beginnings, with and without an end | what is written is parsed and resolved; lexer and parser agree; parsing ends |
| `upgrade` | `Upgrade`, `Upgrade.cfg` | 3 processes, 1 client who comes back, 1 certificate id, files absent, half there or old | the service goes on over upgrades, one family serves, the successor gets the store, the pair is usable, commands take effect once |
| `compile` | `MCCompiler`, `Compiler.cfg` | 2 folders, 9 layouts, 2 compilations, 1 file removed | no file is lost, what a crash needs, compilations end |

Why the bounds suffice. *Trees*: `scopes` binds, copies, extends and reads
variables above, inside and after a named promise; `env` has two (setenv) that
share spare capacity of one array (the slice grows 1, 2, 4, so the third and
fourth element need five of them); `reports` has every promise that counts or
can panic, an (eval) and an empty pipe; `overwrites` sets one variable above and
inside of a named promise. Two runs are needed for what one leaves
to the next. *Executions*: two, because
what outlives a command meets at most the buffers of the next, and a pipe of
one line already blocks; two lines of the first and three of the second to one
stream are what it takes for a write behind a length that a reset, or a shorter
write, has taken away. All lines go to standard output: the two streams have a
copier and a buffer each and meet only in the process that writes. The theorems
hold for any number of executions and lines of both streams. *Connections*: two interfere, a third meets what they leave; the theorems of
`ServerProofs` hold for any number. *Processes*: a parent, its successor, and one
that competes with either or succeeds again; a command may also be any of the
three. One client, because a connection that another makes while the promise
that asked for the upgrade has been answered is also one of this client. The
theorems of `UpgradeProofs` hold for any number of both. *Layouts*: without a
link; a linked folder; links below both folders, to two folders and to the same;
a link back; a link to nothing; a link to a file; an input folder that is itself
below a link; two links, one with the suffix, to a file without it. Two compilations, as the second meets the map and the walkers of
the first. *Watch*: a change while the loop is busy, one while
the receiver sleeps and one while the trigger is pending; `MaxIdle` exceeds the
time slice, so that the Throttle is called early, late and too late; `MaxLate`
lets a sleeper oversleep, so that nothing is owed afterwards; the theorems hold
for any values. *Parsing*: the promises nest three deep, call each other, in cycles
too, call what does not exist, and one has the name of a builtin; their layouts
have spaces, newlines and wide spaces between items, and in texts of their own a wide
space directly behind a name and a space before the colon of a getter; `MaxDepth` is larger than
any expansion without a cycle needs. Three runes behind a beginning reach
every branch of every state function.

What the properties say:

* `CalledInOrder`: nested promises are called in order, once, and only while the
  results so far leave the parent undecided.
* `ScopesNest`, `ScopeExact`, `CallerScopeFrozen`: no promise below a named promise
  holds a reference to a map from above it; the variables of the body are those of
  the caller but for what promises of this very body have bound; nothing inside
  changes the caller's map. None says whether the body may bind what its caller has
  bound: `OverwritesLocally` does, below.
* `ContextExact`: although contexts are shallow copies, the environment is
  exactly what the enclosing (setenv) promises set, in order.
* `ResultsFollowRules`: `PromiseSemantics` is implemented.
* `CountedOnce`: the counters of a run have every execution and every upstream stage
  of a pipe, wherever it is in the tree, and nothing twice. Of the last stage of a
  pipe, and of what an aborted run leaves, it says nothing: `ChangesReported` does,
  below.
* `OutputExact`, `CrashNeedsLate`, `OneAtATime`: a buffer that was not reset under a
  copier has, with what is still on its way, the lines of the command in order, none
  lost, doubled or of another command; a copier panics only if some buffer was;
  nothing but a copier outlives an execution.
* `EvalReturns`, `CopiersEnd`, `PipeReturns`: return and clean-up, if the
  watchdog has not warned and no pipe is left full without a reader.
* `Complete`: a pipe that returns has all its last stage gets and left nothing.
* `OutRestored`, `Paired`, `Drained`, `StopEnds`: the Logger writes to the server
  or to a client whose promise runs; each promise is answered once; a stopped
  server has answered what it received, and exits.
* `NoChangeLost`, `ChangeIsRead`: a change of the input folder itself that the last
  compilation may have missed is on its way (as an event, a trigger, or because the loop is about to
  compile), and so it is read, unless the command ends or the receiver is
  stuck with an error of the watcher that nobody receives. Changes elsewhere may
  stay unread.
* `TimeAccounted`: what the Throttle has added up as time run and time stopped is all
  time up to its last stop, whatever was overslept.
* `PairUsable`: a pair that processes find is one a server can load, also after
  crashes, unless two generated it at once or one ended while the certificate
  was truncated (`spoiled`). `CommandsTakeEffect`: for each id, additions and
  removals that succeeded add up to what is stored.
* `ServiceGoesOn`: `Service` is implemented. `OneFamily`: of two processes that
  serve one has forked the other. `SuccessorServes`: a successor gets the store
  its parent closed, or ends; `ConnectionServed`: a connection is accepted.
* `ReadsAll`: a compilation that succeeds has read all files below its folders,
  links followed, and no others than those a link with the suffix stands for, if
  nothing is broken and no link was met before.
  `FirstSucceeds`, `CrashNeedsTwo`, `CompileEnds`: when the first compilation may
  fail, when the process may crash, and that links in a circle do no harm.
* `NestingAgrees`: for any text the parser is in as many promises as the lexer
  has open. `ParsesBack`: a text that stands for promises is parsed into them; one with
  a space where the lexer does not take it is refused, or the program dies, and never
  taken for other promises.
  `ResolvedIfSound`: resolved exactly if it can be: each name stands for one
  promise, what they are built from is there and accepts its arguments and the number
  and kinds of its children, and of any promises one needs none
  of the others nor itself. The stack overflows only on a cycle, or if it has less
  room than there are promises (`Fits`; on the instance it always has more).
  `ParseEnds`.

### Runs that find a violation

Each checks one statement of a document, comment or message of the repository
that the code does not keep (`PROJECT.json`, "findings", quotes the line).

| Run | Statement | What happens instead |
|---|---|---|
| `changes_reported` | a (change) is reported (Readme), with the run that executed it (log message) | not if it is the last stage of a pipe; and the report of a run has the changes of a run before it that panicked |
| `overwrites_locally` | a variable can be overwritten in a named promise (Readme) | (setvar) panics, as the copied dictionary already has it |
| `files_read` | all files of the input folder are read, recursively (Readme) | a link to nothing ends the walk with a line in the log; a linked folder is walked by the first compilation only |
| `death_noticed` | "server died" ends the process; upstart respawns it | looked at once, right after the start |

### Observations without a run

Behaviour met while translating that the models have but that no run singles out:

* "wait until output is processed" (exec_promise.go:183) waits for nothing:
  `processOutput` has a value receiver, and its goroutines use a copy of the
  `WaitGroup`. So (readvar), which stores the standard output of the invoked command
  (Readme.md:125), may store a part of it (`Bind` after `EndExec`), or lines that a
  copier of the command before has written since the `Reset`.
* A copier of an earlier command that is in the middle of a `Write` when the buffer is
  reset panics and ends the server, or uncovers what the array still has of earlier
  commands (`CopierGrows`, `CopierCopies`); behind length 0 it drops what it holds and
  everything after (`CopierDrains`).
* A change below the input folder, behind one of its links or in the library folder
  is compiled but not watched (client_watch.go:41; `EditElsewhere`).
* Log promises evaluate their arguments with an empty dictionary
  (log_promise.go:45 and 49), so [var:x] is never found there.
* A stage of a pipe before one that stops reading blocks for ever once its
  pipe is full, because the server holds the read end (`ReadEndStays`).
* Once the watchdog has warned, after five minutes, nobody receives what the
  deferred send at exec_promise.go:164 sends: `Eval` never comes back
  (`EvalReturns` has this as its exception).
* With two clients, the end of one run resets the counters of the other, and the
  output of one goes to the other client or to the server's own output, as both
  redirect the one Logger (server.go:195; `Redirected`).
* The comment at throttle.go:54-56 has 1/(1-r) as the ratio of run to sleep times;
  the code, and the comment at line 78, have r/(1-r) (`Share`).
* A space outside ASCII directly behind a name is not ignored as others are
  (lexer.go:174): removing it backs up by the width of the rune behind, so the
  lexer slices backwards and panics, or the token is cut or begins inside of a rune
  (`removeTrailingWhitespace`; `WideTexts` in `MCParser`).
* Two (restart)s at a time can leave no server: the second SIGUSR2 may end the
  parent before its successor serves, and the successor, finding no parent to
  kill, ends too (`RestartAgain`, `Fails`).
* A connection that fails between the start of a successor and its only check
  ends the successor after it has killed its parent (`Lose`, `CheckAlive`).
* `server cert add` waits without a limit while a server runs, which holds the
  store, and gets it only while an upgrade is on its way: before the successor.
* Two first starts at once, or a crash while the certificate is written, leave a
  pair that does not belong together or is truncated. It exists, so it is never
  generated again, and no server starts (`spoiled`).
* SIGTERM to the parent during an upgrade does not stop the successor.
* An input folder below a link has each of its files found twice, by its own name
  and by that behind the link, so that the first compilation of a process fails;
  if the folder is a link itself, the second compilation reads nothing of it.
* A file without the suffix is read if a link with it is met after another link to
  the same file has been; if it is met first, the file goes by its own name and is
  not read. Which is first is up to the goroutines if they are below two folders.
* An (eval) in a server compiles with the map of the process, from as many
  handlers as evaluate one: further walkers at the map of links.
* `Striplines.Lines` counts one line too many, and `processOutput` writes the lines
  of a command without their newlines.
* The types (setenv) and (template) and the getter of the environment are not
  registered with gob in `context.go`, so a tree that has one cannot be sent to
  a server. In `MCPromiseTrees` they occur below an (eval), whose tree is
  compiled where it is evaluated.
* A promise with a blank name, `( )`, makes the lexer slice backwards and
  panic (`Sliceable`), and with it the process.
* `[var :x]` is refused although the space before the separator is removed: the
  rune after the type is then taken for the separator (`lexGetterType`).
* `[foo "x"]` is parsed into a nil getter, and the third bracket of
  `[var [var:x]]` is ignored (`parseGetter` and `parse` skip what they do not know).
* An unclosed getter, or an error of the parser, leaves the lexer goroutine
  sending for ever.
* Promises that name each other resolve without end (`overflow`). A promise of
  the user that has the name of a builtin replaces it.
* The flag of the Throttle that drops events is never set when an event is
  received: the receiver itself is what sleeps (`Begun` in `ClientWatchProofs`).

### Fairness

* `PromiseEval!FairSpec`: weak fairness of the evaluating goroutine. That a
  started command ends is part of it; `ExecCommand` and `PipeCommand` say when
  it does.
* `ExecCommand`, `PipeCommand`: weak fairness of `Eval`, of each process and of
  each copier: the Go runtime and the kernel run what can run. None for the
  five minutes of the watchdog, which may or may not elapse.
* `Server`: weak fairness of main, of the acceptor (its timeout of a second
  included) and of each handler, which assumes that each run ends; and of a
  client that has asked nothing leaving or getting lost: a client command ends after its answer,
  and keep-alive drops one that is gone. None for signals, new
  connections or new promises.
* `ClientWatch`: weak fairness of the loop and of the receiver (compiling and
  talking to the server end, with or without an error), and of the clock while
  the receiver sleeps. None for changes, errors or time otherwise.
* `Upgrade`: weak fairness of the main goroutine of each process, of its acceptor,
  of a handler answering and of a client leaving that has its answer. None for
  starts, commands, signals, crashes, new connections or promises.
* `Compiler`: weak fairness of `Compile` and of each walker, while the process
  lives. None for another compilation or for removing a file.
* `Parser`: weak fairness of the lexer goroutine and of the parser.

## 4. Proofs

`PromiseEvalProofs` holds for every forest of
promises, every getter, every output and any number of runs that satisfy
`ForestAssumption`, `ArityAssumption`, `DataAssumption` and `RunAssumption`.
These say what the `New` functions and the parser let through: parents and
children agree, a promise occurs once, each type has its number of nested
promises, roots are named promises. TLC evaluates them in every run.

The invariant is built in layers, `FullInv == TypeInv /\ StackInv /\ ScopeInv`
and on top of it `ContextInv` and `CountersInv`:

* `TypeInv`: `TypeOK` alone is not inductive. `append` copies the used part of
  the shared array, so its result is a sequence of scopes only if no slice
  is longer than its array (`SlicesInBounds`); a call takes the next child,
  so the loop index must be within the children (`PosInBounds`).
* `StackInv` (`StackIsPath /\ CalledInOrder`): with one path on the stack, a
  return goes to the one promise that waits for it. Needs the depths of the tree.
* `ScopeInv` (`ScopesNest /\ ScopeExact`): that the body of a named promise keeps
  what it inherited but for what it has bound itself needs that no two open named promises use the same map, that
  the map in use belongs to the innermost of them, and that a promise
  not yet called owns an empty map.
* `ContextInv` (`SlicesGrow /\ ContextExact`): an `append` may write over the
  spare capacity of an array that an outer slice shares. It is harmless because
  the slices of the open promises get longer on the way down, so what is
  overwritten lies behind the end of all of them (`SlicesGrow`).
* `CountersInv`: the counters are exactly those of the executions and upstream stages
  beside what the run found (`CountersExact`, from which `CountedOnce` follows); the
  promises counted are finitely many, in a tree that need not
  be, so that one more is a count of one more.

`EnvPath` and `Innermost`, the reference definitions of `ContextExact`, are
recursive functions along the parents. That such a function exists, and what it
returns, is proved by a least counterexample (`AlongParents`, `LeastNumber`):
the depth of a promise is a natural number, and a set of these has a least one.

The step lemmas describe the effect of each action (on the stack, on the maps, on
the results) once; the invariance proofs then go by kind of effect.

That a run ends (`RunEnds`) is proved but for its fairness, as two theorems; the
same is done for executions, pipes and a server that is to stop. While the run lasts, the
condition of some step holds; and each step does something new (`Done` grows) of
what is possible at all, which is finite (`Possible`), so that a scheduler that
takes steps that can be taken cannot go on for ever. The conditions are written out, because
`ENABLED` is out of the prover's reach; TLC has compared them with `ENABLED` on the
instances of the runs. For the evaluator this needs `Ending`: a command is started once, late
output is that of a command that has ended, and when the stack is empty the
`Eval` of a root has returned.

| Theorem | Statement |
|---|---|
| `TypeCorrect` | `Spec => []TypeOK` |
| `EvaluationIsDepthFirst` | `Spec => []StackIsPath` |
| `EvaluationShortCircuits` | `Spec => []CalledInOrder` |
| `ScopesAreNested` | `Spec => []ScopesNest` |
| `ScopesAreExact` | `Spec => []ScopeExact` |
| `CallersScopeIsFrozen` | `Spec => CallerScopeFrozen` |
| `ContextsAreExact` | `Spec => []ContextExact` |
| `StagesAreCountedOnce` | `Spec => []CountedOnce` |
| `EvaluatorImplementsSemantics` | `Spec => ResultsFollowRules`: each step decides one demanded promise by its rule, forgets, or stutters |
| `EvaluatorNeverStuck` | while a run lasts, the promise on top of the stack has a step, or the root can be reported |
| `EvaluationStepsAreFinite` | each step of a run does something new; for finite `Node` that is finite |

`ExecCommandProofs` holds for any number of executions, whatever they write, and
any size of a kernel pipe (`ExecAssumption`). `ExecInv` adds to `TypeOK` what each value of `pc` says of the
execution at hand and that those before are over (`Phase`), and that the lines of an
execution that have not reached the buffer, in its copier and behind it in its pipe,
are sorted by when they were written (`Sorted`).

`Outputs`, on top of it, is what `OutputIsExact` and `CrashesAreLate` rest on: while a
buffer was not reset under a copier, no copier but that of the command at hand is
there (`Alone`), so that the length it has read is the length of the buffer until it
has grown it (`Exact` follows each line through the three steps of a write), and
it finds the room that it has made.

For `NeverStuck` it takes `Flow`: which watchdog and which copiers there are at each
value of `pc`, that the lines in a pipe are those the command has written to that
stream, and that a scanner ends only with the command or at a line that is too
long. Then a command that has no room in a pipe has a copier that can read
from it: if that one had given up on a long line, the lines in the pipe would be among
those from this one on, and `Clean` says that they all fit (`RoomBehind`, by an injection
into their numbers). `ExecStepsAreFinite` counts the lines that are out of the pipe, those a write has
begun with, has made room for and is over with, as sets of line numbers, beside the
ranks of `Eval`, child, watchdog and copiers; `Buffers` says which lines a copier has.

| Theorem | Statement |
|---|---|
| `ExecTypeCorrect` | `Spec => []TypeOK` |
| `ExecutionsDoNotOverlap` | `Spec => []OneAtATime` |
| `OutputIsExact` | `Spec => []OutputExact` |
| `CrashesAreLate` | `Spec => []CrashNeedsLate` |
| `ExecNeverStuck` | `Spec => []NeverStuck`: `Eval`, a clean command and its copiers cannot deadlock, nor can a copier left behind, unless the watchdog has warned |
| `ExecStepsAreFinite` | `Possible` is finite and each step adds to `Done` |

`PipeCommandProofs` holds for any number of stages, whatever each takes. `PipeInv`
adds that no stage writes what it has not read and no pipe has more than it holds
(`Conserved`), that no stage reads more than any before it takes (`Limited`), that one
that has ended has passed on just the least of these (`Finished`), and which
stages `Eval` has waited for (`Waited`).

`NeverStuck` needs which stages have been started at each value of `pc` (`Started`).
Suppose that all are stuck, and that each leaves no more unread than a pipe holds
(`LeavesRoom`). The last stage that has something to write faces a full pipe with a
reader that has nothing to write, and so reads or has ended; in the second case
what it left fits. So nobody writes. The first stage that lives
then has a predecessor that has ended, and gets the end of the input.

| Theorem | Statement |
|---|---|
| `PipeTypeCorrect` | `Spec => []TypeOK` |
| `NoStageIsBroken` | `Spec => []ReadEndStays` |
| `PipesComplete` | `Spec => []Complete` |
| `PipeNeverStuck` | `Spec => []NeverStuck`: under `LeavesRoom`, a pipe whose last stage has started cannot deadlock, unless the watchdog has warned |
| `PipeStepsAreFinite` | `Possible` is finite and each step adds to `Done` |

`ServerProofs` holds for any number of connections. Its invariant `ServerInv` adds to
`TypeOK`, `OutRestored` and `Paired` what they rest on: `Linked` (no handler before
its client has connected; a client closes when it has its answer; a received
promise stays unanswered only if the client was lost), `Unredirected` (with the
flag no-redirect the output is never changed) and `ClosedLast` (the listener
is closed when main has exited and the tomb is dead).

| Theorem | Statement |
|---|---|
| `ServerTypeCorrect` | `Spec => []TypeOK` |
| `LoggerIsRestored` | `Spec => []OutRestored` |
| `AnswersArePaired` | `Spec => []Paired` |
| `ShutdownDrains` | `Spec => []Drained` |
| `StopNeverStuck` | while main waits for the tomb, main, the acceptor or a handler can go on, or a client that has its answer is still to leave |
| `StopStepsAreFinite` | while the tomb is dying, each step, of the server or of a client, adds to `Done`; for finite `Conn` `Possible` is finite |

`ClientWatchProofs` holds for any number of changes, events and errors and any
setting of the Throttle. `WatchInv` adds `Begun`: only a sleeper has set the flag
of the Throttle, and it began to sleep in the past. The first part is what
`NoChangeLost` needs (no event is dropped without a trigger to follow), the
second that the time stopped stays a natural number.

| Theorem | Statement |
|---|---|
| `WatchTypeCorrect` | `Spec => []TypeOK` |
| `ChangesAreOnTheirWay` | `Spec => []NoChangeLost` |
| `TimeIsAccounted` | `Spec => []TimeAccounted` |

`UpgradeProofs` holds for any number of processes, connections and certificates.
`UpgradeInv` has two halves. `StoreInv`: who uses the store holds its lock, what
it has looked up is still so (`Jobs`), and what the files hold at each step of
the one process that generates them (`KeyPair`). `ServeInv`: a process has one
successor (`Ties`), which has the socket until it serves, as has whoever serves
(`Sockets`); of two processes with the socket one is leaving or succeeds the
other (`Chain`); and without a fault only processes that are leaving are dying, a
successor's parent waits for it, and somebody serves (`Faultless`), which makes
the port stay bound when a process ends.

`Line`, on top of `UpgradeInv`, is what the two liveness properties of the run rest on: of the
processes with the socket at most one has not forked, one that has forked waits for
signals or is leaving, the lock of the store is never held by a process that has forked,
and an acceptor ends only when its tomb is dying. So a successor that has not
its own way to go waits for the store, and then for a process that has just started
and will find the port in use; never for its parent (`SuccessorsGoOn`).

| Theorem | Statement |
|---|---|
| `UpgradeTypeCorrect` | `Spec => []TypeOK` |
| `PairIsUsable` | `Spec => []PairUsable` |
| `StoreKeepsCount` | `Spec => []CommandsTakeEffect` |
| `ServersAreOneFamily` | `Spec => []OneFamily` |
| `UpgradeImplementsService` | `Spec => ServiceGoesOn`: each step is one of `Service`, or a stutter |
| `SuccessorsGoOn` | a successor can go on, or a process without the socket that holds the store can |
| `ConnectionsAreAwaited` | without a fault, while a connection waits some acceptor accepts that is not dying |

`CompilerProofs` holds for any layout and number of folders and compilations
(`CompilerAssumption`). It has three invariants:

* `CompilerInv`: all a walker has on its stack is reached from its folder
  (`Within`), so that a walker at a link has links below its folder (`Engaged`),
  and walkers of later compilations have not begun (`Later`).
* `Lossless`, with `ReadingInv`: what has not been read is ahead of a walker. What
  is ahead is a least set, which would need induction over the layout. So it is
  said of all sets: one that has what the stacks are going to visit (`Planned`)
  and is closed, but for links that are in the map (`Closing`), has every file that
  has not been read. A step of a walker is covered by adding the path that it
  has dealt with to any set that has what is ahead afterwards (`StepLossless`). At
  the end the empty set is such a set.
* `MetOnce`, of the first compilation where there is one way to each path: there
  is a set of paths that have been met (`Met`), one that is ahead has not been, but
  what leads to it has (`Fits`), and what is ahead is ahead once, of all walkers
  and all their calls (`Distinct`, `Apart`). So what a link stands for is not in
  the map when the link is met, and no file is read twice.

| Theorem | Statement |
|---|---|
| `CompilerTypeCorrect` | `Spec => []TypeOK` |
| `CrashesNeedTwo` | `Spec => []CrashNeedsTwo` |
| `OnlyReachedIsRead` | `Spec => []InputsReached`: nothing is read that is not below a folder, links followed |
| `NothingIsLost` | `Spec => []ReadsAll` |
| `FirstCompiles` | `Spec => []FirstSucceeds` |

`ParserProofs` holds for every text of whole runes, any number of files and any
builtins (`LexerAssumption`, `ParserAssumption`: the end of the input is no
letter). `ParserInv` is the lexer's invariant and that of the stack:

* `LexerInv` adds to the types what a state function finds where it starts
  (`Place`), the promises and getters it is in (`Depth`), and in which order the
  tokens of one state function are sent (`Queue`). Skipping spaces and backing
  up over them are recursive functions over the text; what they return is proved
  by the least offset that would be wrong (`Descends`, `SkipIsDescent`,
  `BackIsDescent`).
* `Nest`: the stack is the open promises, and above them what takes a getter
  apart: joiners, and at the top a function of the getter or of the argument.
  It is never deeper than the promises and getters that the lexer had open when it
  sent the token at hand (`Promises`, `Getters`), which is why a function of the
  parser that skips a token it does not know cannot lose a bracket of a promise.
* `ResolvesInv`: who is at the bottom while promises are resolved.

`ResolvedIfSound` needs two more, and no hypothesis beside the two assumptions:

* `TreeInv`: the promises the parser makes are finite trees. There is a finite set
  `W` of promises, with each its children (`Built`), that has all that are in the
  map, on the stack and in the making. So all that resolving may meet, as deep as
  it goes, is finite (`InnerIsBuilt`). `LevelsExist` shows that the recursive function
  in `Inner` is defined, by the least level that would not be.
* `ResolverInv`: a promise is stuck if it is in a set each of which is wrong (not
  one child, an unknown name, arguments or children that `New` refuses) or needs another of the set
  (`Stuck`): the greatest fixed point, so that no induction over promises is needed.
  Each frame of the resolver's stack is called by the one below it for the promise
  that this one needs next, and what it needed before is not stuck (`Chain`). So a
  resolver that returns has met nothing stuck (`ChainReturn`), and what is
  not stuck is sound and without a cycle (`NotStuck`). A stack deeper than the
  number of names and promises has two frames for the same one (by a
  pigeonhole, `StackBound`), and what is between these needs itself (`RepeatedCall`).

| Theorem | Statement |
|---|---|
| `TypeCorrect` | `Spec => []TypeOK` |
| `NestingIsExact` | `Spec => []NestingAgrees` |
| `ResolvingIsSound` | `Spec => []ResolvedIfSound` |

Only model-checked:

* All liveness: the step from "some step is possible, each is new and there are
  finitely many" to "it ends" takes the fairness, which is about `ENABLED`. Of
  `RunEnds`, `EvalReturns`, `CopiersEnd`, `PipeReturns` and `StopEnds` that is all that
  is left to TLC (of `CopiersEnd` and `StopEnds`, that the copier or the server is
  not passed over); of `SuccessorServes` and `ConnectionServed` also that
  the steps on the way are finitely many. Of `ParseEnds`, `CompileEnds` and
  `ChangeIsRead` nothing is proved: a text, a layout of
  folders or a queue of events needs a measure by induction over it.
* `ParsesBack`: what it says a text stands for is a recursion over promises that nest (RECURSIVE
  operators, in `MCParser`), and it is about the texts of the run only.

## 5. What is left

1. `ExecCommand` implements the execution steps of `PromiseEval` (a refinement),
   `PipeCommand` likewise.
2. `Server` in place of the summary of a process in `Upgrade`: one module with the
   handlers of two processes step by step.
3. The certificates of the client and its signal handler, as processes of
   `DataStore`.

The hazards without a property say why in `PROJECT.json`.

## 6. Running

    tlc -workers 2 -config PromiseEval.cfg MCPromiseClaims
    tlapm PromiseEvalProofs.tla

The longest TLC run takes about two minutes; the proofs take some minutes.
