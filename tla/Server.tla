------------------------------- MODULE Server -------------------------------
(***************************************************************************)
(* package server with StartServer and ExecPromise of package context: the *)
(* goroutine that accepts connections, one goroutine per connection, the   *)
(* tomb they all run in, the main goroutine that waits for a signal, and   *)
(* the Logger that every connection redirects to its client.               *)
(*                                                                         *)
(* A handler receives promises one after the other.  Running one is seen   *)
(* only through where its output goes; PromiseEval has the rest, Upgrade   *)
(* the processes on either side of a SIGUSR2.  The TLS handshake fails     *)
(* like any first read of a connection.                                    *)
(***************************************************************************)
EXTENDS Integers, FiniteSets

CONSTANTS
  Conn,        \* the connections clients may make
  Stdout,      \* the server's own standard output; not a connection
  NoRedirect   \* the flag no-redirect

ASSUME ServerAssumption ==
  /\ Stdout \notin Conn
  /\ NoRedirect \in BOOLEAN

VARIABLES
  main,       \* the main goroutine
  dying,      \* whether the tomb is dying
  listening,  \* whether the listener is open
  acceptor,   \* the goroutine in run()
  handler,    \* connection -> the goroutine in receive()
  conn,       \* connection -> its state as the client left it
  asked,      \* connection -> whether a promise is on its way or received
  out         \* Logger.Out

tomb   == <<main, dying, listening, acceptor>>
client == <<conn, asked>>
vars   == <<main, dying, listening, acceptor, handler, conn, asked, out>>

Running == {"exec", "restore"}
Serving == Running \union {"await", "receive", "reject", "respond", "check"}

TypeOK ==
  /\ main \in {"start", "wait", "closing", "exited"}
  /\ dying \in BOOLEAN /\ listening \in BOOLEAN
  /\ acceptor \in {"check", "accept", "done"}
  /\ handler \in [Conn -> {"none", "backlog", "done", "failed"} \union Serving]
  /\ conn \in [Conn -> {"none", "open", "closed", "lost"}]
  /\ asked \in [Conn -> {"no", "sent", "received"}]
  /\ out \in Conn \union {Stdout}

Init ==
  /\ main = "start"
  /\ dying = FALSE /\ listening = TRUE
  /\ acceptor = "check"
  /\ handler = [c \in Conn |-> "none"]
  /\ conn = [c \in Conn |-> "none"]
  /\ asked = [c \in Conn |-> "no"]
  /\ out = Stdout

-----------------------------------------------------------------------------
(***************************************************************************)
(* Clients.                                                                *)
(***************************************************************************)

\* The kernel completes a connection before the server accepts it.
Connect(c) ==
  /\ listening
  /\ conn[c] = "none"
  /\ conn' = [conn EXCEPT ![c] = "open"]
  /\ handler' = [handler EXCEPT ![c] = "backlog"]
  /\ UNCHANGED <<tomb, asked, out>>

\* A handler closes its connection when it returns.
Connected(c) == conn[c] = "open" /\ handler[c] \notin {"done", "failed"}

\* SendPromise waits for the answer to a promise before anything else.
Send(c) ==
  /\ Connected(c)
  /\ asked[c] = "no"
  /\ asked' = [asked EXCEPT ![c] = "sent"]
  /\ UNCHANGED <<tomb, handler, conn, out>>

\* A client closes its channel when it has its answer, or is lost before.
Close(c) ==
  /\ Connected(c)
  /\ asked[c] = "no"
  /\ conn' = [conn EXCEPT ![c] = "closed"]
  /\ UNCHANGED <<tomb, handler, asked, out>>

Lose(c) ==
  /\ Connected(c)
  /\ conn' = [conn EXCEPT ![c] = "lost"]
  /\ UNCHANGED <<tomb, handler, asked, out>>

-----------------------------------------------------------------------------
(***************************************************************************)
(* run(): the acceptor.                                                    *)
(***************************************************************************)

\* The tomb is dead when none of its goroutines is left.
Dead_AcceptorOnly == acceptor = "done"
Dead == acceptor = "done" /\ \A c \in Conn : handler[c] \notin Serving

AcceptorChecks ==
  /\ acceptor = "check"
  /\ acceptor' = IF dying THEN "done" ELSE "accept"
  /\ UNCHANGED <<main, dying, listening, handler, client, out>>

\* A connection gets a goroutine of the tomb, dying or not.
Accept(c) ==
  /\ acceptor = "accept"
  /\ handler[c] = "backlog"
  /\ handler' = [handler EXCEPT ![c] = "await"]
  /\ acceptor' = "check"
  /\ UNCHANGED <<main, dying, listening, client, out>>

\* The listener gives up after a second; any other error kills the tomb.
AcceptTimesOut ==
  /\ acceptor = "accept"
  /\ acceptor' = "check"
  /\ UNCHANGED <<main, dying, listening, handler, client, out>>

AcceptFails ==
  /\ acceptor = "accept"
  /\ acceptor' = "done"
  /\ dying' = TRUE
  /\ UNCHANGED <<main, listening, handler, client, out>>

-----------------------------------------------------------------------------
(***************************************************************************)
(* receive(): a handler.                                                   *)
(***************************************************************************)
Goes(c, from, to) == handler[c] = from /\ handler' = [handler EXCEPT ![c] = to]

\* A handler that returns an error kills the tomb.
Fails(c, from) ==
  /\ Goes(c, from, "failed")
  /\ dying' = TRUE
  /\ UNCHANGED <<main, listening, acceptor, client, out>>

Await(c) ==
  /\ conn[c] = "open" \/ asked[c] = "sent"
  /\ Goes(c, "await", "receive")
  /\ UNCHANGED <<tomb, client, out>>

AwaitFails(c) == conn[c] # "open" /\ Fails(c, "await")

Redirected(c) == IF NoRedirect THEN out ELSE c
Restored_Kept == out
Restored == IF NoRedirect THEN out ELSE Stdout

\* A promise arrives; its run starts unless it does not decode.
Receive(c) ==
  /\ asked[c] = "sent"
  /\ asked' = [asked EXCEPT ![c] = "received"]
  /\ \/ Goes(c, "receive", "exec") /\ out' = Redirected(c)
     \/ Goes(c, "receive", "reject") /\ out' = out
  /\ UNCHANGED <<tomb, conn>>

ReceiveEOF(c) ==
  /\ conn[c] = "closed"
  /\ Goes(c, "receive", "done")
  /\ UNCHANGED <<tomb, client, out>>

ReceiveFails(c) == conn[c] = "lost" /\ Fails(c, "receive")

\* ExecPromise returns, or recovers a panic; then the output is directed
\* back to the server.
ExecPromise(c) ==
  /\ Goes(c, "exec", "restore")
  /\ UNCHANGED <<tomb, client, out>>

Restore(c) ==
  /\ Goes(c, "restore", "respond")
  /\ out' = Restored
  /\ UNCHANGED <<tomb, client>>

\* The answer, after which the handler goes on unless the tomb is dying.
AfterAnswer_NoCheck(c) == "receive"
AfterAnswer_Repeats(c) == IF dying THEN "respond" ELSE "receive"
AfterAnswer(c) == IF dying THEN "done" ELSE "receive"

Respond(c) ==
  /\ conn[c] = "open"
  /\ Goes(c, "respond", "check")
  /\ asked' = [asked EXCEPT ![c] = "no"]
  /\ UNCHANGED <<tomb, conn, out>>

Reject(c) ==
  /\ conn[c] = "open"
  /\ Goes(c, "reject", "done")
  /\ asked' = [asked EXCEPT ![c] = "no"]
  /\ UNCHANGED <<tomb, conn, out>>

RespondFails(c) == conn[c] # "open" /\ (Fails(c, "respond") \/ Fails(c, "reject"))

CheckDying(c) ==
  /\ Goes(c, "check", AfterAnswer(c))
  /\ UNCHANGED <<tomb, client, out>>

Handler(c) ==
  \/ Await(c) \/ AwaitFails(c)
  \/ Receive(c) \/ ReceiveEOF(c) \/ ReceiveFails(c)
  \/ ExecPromise(c) \/ Restore(c)
  \/ Respond(c) \/ Reject(c) \/ RespondFails(c) \/ CheckDying(c)

-----------------------------------------------------------------------------
(***************************************************************************)
(* StartServer: the main goroutine.                                        *)
(***************************************************************************)

\* Whether the server has died is looked at once, right after the start.
CheckAlive ==
  /\ main = "start"
  /\ main' = IF dying THEN "exited" ELSE "wait"
  /\ UNCHANGED <<dying, listening, acceptor, handler, client, out>>

\* goagain.Wait returns on a signal; Close kills the tomb ...
Signal ==
  /\ main = "wait"
  /\ main' = "closing"
  /\ dying' = TRUE
  /\ UNCHANGED <<listening, acceptor, handler, client, out>>

\* ... and closes the listener when the tomb is dead.
Closed ==
  /\ main = "closing"
  /\ Dead
  /\ main' = "exited"
  /\ listening' = FALSE
  /\ UNCHANGED <<dying, acceptor, handler, client, out>>

Main     == CheckAlive \/ Closed
Acceptor == AcceptorChecks \/ AcceptTimesOut \/ AcceptFails \/ \E c \in Conn : Accept(c)
Client(c) == Connect(c) \/ Send(c) \/ Close(c) \/ Lose(c)

Next ==
  \/ main # "exited" /\ (Main \/ Signal \/ Acceptor \/ \E c \in Conn : Handler(c))
  \/ \E c \in Conn : Client(c)

Spec == Init /\ [][Next]_vars

\* Goroutines that can go on do.  A client without a question closes its
\* connection or is lost (TCP keep-alive), unless it asks again.
FairSpec ==
  /\ Spec
  /\ WF_vars(main # "exited" /\ Main)
  /\ WF_vars(main # "exited" /\ Acceptor)
  /\ \A c \in Conn : /\ WF_vars(main # "exited" /\ Handler(c))
                     /\ WF_vars(asked[c] = "no" /\ (Close(c) \/ Lose(c)))

-----------------------------------------------------------------------------
(***************************************************************************)
(* Properties.                                                             *)
(***************************************************************************)

\* Whatever handlers redirect and restore meanwhile, the Logger writes to
\* the server's own standard output or to a client whose promise is running:
\* never to a connection that is closed, and to none when no promise runs.
OutRestored == out # Stdout => handler[out] \in Running

\* A handler answers each promise it has received, once.
Paired ==
  \A c \in Conn :
    /\ handler[c] \in Running \union {"reject", "respond"} => asked[c] = "received"
    /\ asked[c] = "received" =>
         handler[c] \in Running \union {"reject", "respond", "failed"}

\* A server stopped by a signal has answered every promise it received,
\* unless the connection was lost, and none is still running.
Drained ==
  main = "exited" /\ ~ listening =>
    \A c \in Conn : /\ handler[c] \notin Serving
                    /\ asked[c] = "received" => conn[c] = "lost"

\* It does stop, also when clients keep on asking.
StopEnds == (main = "closing") ~> (main = "exited")

-----------------------------------------------------------------------------
\* StartServer returns when the server has died ("server died"), so that
\* upstart can respawn it.
DeathNoticed == (acceptor = "done") ~> (main = "exited")
=============================================================================
