---------------------------- MODULE ServerProofs ----------------------------
(***************************************************************************)
(* Theorems about the server, for any number of clients.                   *)
(***************************************************************************)
EXTENDS Server, FiniteSetTheorems, TLAPS

\* How a connection and its handler hang together: a handler exists only
\* once the client has connected, a client closes its connection only when
\* it has its answer, and a received promise stays unanswered only if the
\* client was lost.
Linked ==
  \A c \in Conn :
    /\ conn[c] = "none" => handler[c] = "none"
    /\ conn[c] = "closed" => asked[c] = "no"
    /\ asked[c] = "received" /\ handler[c] = "failed" => conn[c] = "lost"

\* With the flag no-redirect, Logger.Out is never set.
Unredirected == NoRedirect => out = Stdout

\* The listener is closed last: main has exited and the tomb is dead.
ClosedLast == ~ listening => main = "exited" /\ Dead

ServerInv ==
  TypeOK /\ OutRestored /\ Paired /\ Linked /\ Unredirected /\ ClosedLast

-----------------------------------------------------------------------------
LEMMA InitInv == Init => ServerInv
<1> SUFFICES ASSUME Init
             PROVE  ServerInv
  OBVIOUS
<1>1. TypeOK
  BY DEF Init, TypeOK, Serving, Running
<1>2. OutRestored /\ Unredirected /\ ClosedLast
  BY DEF Init, OutRestored, Unredirected, ClosedLast
<1>3. Paired /\ Linked
  BY DEF Init, Paired, Linked, Running
<1> QED
  BY <1>1, <1>2, <1>3 DEF ServerInv

\* What a client does touches its own connection only.
LEMMA ClientStep ==
  ASSUME ServerInv, NEW c \in Conn, Client(c)
  PROVE  ServerInv'
<1> USE DEF ServerInv, TypeOK, OutRestored, Paired, Linked, Unredirected,
            ClosedLast, Dead, Running, Serving, tomb
<1>1. CASE Connect(c)
  BY <1>1 DEF Connect
<1>2. CASE Send(c)
  BY <1>2 DEF Send, Connected
<1>3. CASE Close(c)
  BY <1>3 DEF Close, Connected
<1>4. CASE Lose(c)
  BY <1>4 DEF Lose, Connected
<1> QED
  BY <1>1, <1>2, <1>3, <1>4 DEF Client

\* The acceptor starts handlers, and is running only while the listener is
\* open.
LEMMA AcceptorStep ==
  ASSUME ServerInv, main # "exited", Acceptor
  PROVE  ServerInv'
<1> USE DEF ServerInv, TypeOK, OutRestored, Paired, Linked, Unredirected,
            ClosedLast, Dead, Running, Serving, client
<1>1. CASE AcceptorChecks
  BY <1>1 DEF AcceptorChecks
<1>2. CASE AcceptTimesOut
  BY <1>2 DEF AcceptTimesOut
<1>3. CASE AcceptFails
  BY <1>3 DEF AcceptFails
<1>4. ASSUME NEW c \in Conn, Accept(c)
      PROVE  ServerInv'
  BY <1>4 DEF Accept
<1> QED
  BY <1>1, <1>2, <1>3, <1>4 DEF Acceptor

LEMMA MainStep ==
  ASSUME ServerInv, main # "exited", Main \/ Signal
  PROVE  ServerInv'
<1> USE DEF ServerInv, TypeOK, OutRestored, Paired, Linked, Unredirected,
            ClosedLast, Dead, Running, Serving, client
<1>1. CASE CheckAlive
  BY <1>1 DEF CheckAlive
<1>2. CASE Closed
  BY <1>2 DEF Closed
<1>3. CASE Signal
  BY <1>3 DEF Signal
<1> QED
  BY <1>1, <1>2, <1>3 DEF Main

\* A handler is running only while the listener is open, and answers, or
\* fails at a lost connection, before it receives again.
LEMMA HandlerStep ==
  ASSUME ServerInv, main # "exited", NEW c \in Conn, Handler(c)
  PROVE  ServerInv'
<1> USE DEF ServerInv, TypeOK, OutRestored, Paired, Linked, Unredirected,
            ClosedLast, Dead, Running, Serving, client, tomb, Goes
<1>1. CASE Await(c)
  BY <1>1 DEF Await
<1>2. CASE AwaitFails(c)
  BY <1>2 DEF AwaitFails, Fails
<1>3. CASE Receive(c)
  BY <1>3 DEF Receive, Redirected
<1>4. CASE ReceiveEOF(c)
  BY <1>4 DEF ReceiveEOF
<1>5. CASE ReceiveFails(c)
  BY <1>5 DEF ReceiveFails, Fails
<1>6. CASE ExecPromise(c)
  BY <1>6 DEF ExecPromise
<1>7. CASE Restore(c)
  BY <1>7, ServerAssumption DEF Restore, Restored
<1>8. CASE Respond(c)
  BY <1>8 DEF Respond
<1>9. CASE Reject(c)
  BY <1>9 DEF Reject
<1>10. CASE RespondFails(c)
  <2>1. conn[c] = "lost"
    BY <1>10 DEF RespondFails, Fails
  <2>2. CASE Fails(c, "respond")
    BY <2>1, <2>2 DEF Fails
  <2>3. CASE Fails(c, "reject")
    BY <2>1, <2>3 DEF Fails
  <2> QED
    BY <1>10, <2>2, <2>3 DEF RespondFails
<1>11. CASE CheckDying(c)
  BY <1>11 DEF CheckDying, AfterAnswer
<1> QED
  BY <1>1, <1>2, <1>3, <1>4, <1>5, <1>6, <1>7, <1>8, <1>9, <1>10, <1>11
     DEF Handler

LEMMA StepInv == ServerInv /\ [Next]_vars => ServerInv'
<1> SUFFICES ASSUME ServerInv, [Next]_vars
             PROVE  ServerInv'
  OBVIOUS
<1>1. CASE UNCHANGED vars
  BY <1>1 DEF vars, ServerInv, TypeOK, OutRestored, Paired, Linked,
              Unredirected, ClosedLast, Dead
<1>2. ASSUME NEW c \in Conn, Client(c)
      PROVE  ServerInv'
  BY <1>2, ClientStep
<1>3. ASSUME main # "exited", NEW c \in Conn, Handler(c)
      PROVE  ServerInv'
  BY <1>3, HandlerStep
<1>4. ASSUME main # "exited", Acceptor
      PROVE  ServerInv'
  BY <1>4, AcceptorStep
<1>5. ASSUME main # "exited", Main \/ Signal
      PROVE  ServerInv'
  BY <1>5, MainStep
<1> QED
  BY <1>1, <1>2, <1>3, <1>4, <1>5 DEF Next

LEMMA ServerInvariant == Spec => []ServerInv
BY InitInv, StepInv, PTL DEF Spec

-----------------------------------------------------------------------------
\* Every reachable state of the server is well typed.
THEOREM ServerTypeCorrect == Spec => []TypeOK
<1>1. ServerInv => TypeOK
  BY DEF ServerInv
<1> QED
  BY ServerInvariant, <1>1, PTL

\* Whatever the handlers of any number of clients redirect and restore in
\* whatever order, server.go leaves the Logger on standard output or on a
\* client whose promise is running.
THEOREM LoggerIsRestored == Spec => []OutRestored
<1>1. ServerInv => OutRestored
  BY DEF ServerInv
<1> QED
  BY ServerInvariant, <1>1, PTL

\* A handler (receive in server.go) answers each promise once.
THEOREM AnswersArePaired == Spec => []Paired
<1>1. ServerInv => Paired
  BY DEF ServerInv
<1> QED
  BY ServerInvariant, <1>1, PTL

\* A server stopped by a signal has answered every promise it received
\* from a client that is not lost, and no handler is still running.
THEOREM ShutdownDrains == Spec => []Drained
<1>1. ServerInv => Drained
  <2> SUFFICES ASSUME ServerInv, ~ listening, NEW c \in Conn
               PROVE  /\ handler[c] \notin Serving
                      /\ asked[c] = "received" => conn[c] = "lost"
    BY DEF Drained
  <2>1. handler[c] \notin Serving
    BY DEF ServerInv, ClosedLast, Dead
  <2>2. asked[c] = "received" => handler[c] = "failed"
    BY <2>1 DEF ServerInv, Paired, Serving
  <2> QED
    BY <2>1, <2>2 DEF ServerInv, Linked
<1> QED
  BY ServerInvariant, <1>1, PTL

-----------------------------------------------------------------------------
(***************************************************************************)
(* The safety half of StopEnds.                                            *)
(***************************************************************************)

\* The conditions of Closed, of Acceptor and of Handler(c), and of a client
\* that owes the next move because it has been answered.
MainReady       == main = "closing" /\ Dead
AcceptorReady   == acceptor \in {"check", "accept"}
HandlerReady(c) ==
  \/ handler[c] \in Serving \ {"receive"}
  \/ handler[c] = "receive" /\ (asked[c] = "sent" \/ conn[c] # "open")
ClientReady(c)  == Connected(c) /\ asked[c] = "no"

\* A server that is to stop is never stuck: its goroutines do not wait for
\* each other, but for clients that have their answers at most.
THEOREM StopNeverStuck ==
  Spec => [](main = "closing" =>
               \/ MainReady \/ AcceptorReady
               \/ \E c \in Conn : HandlerReady(c)
               \/ \E c \in Conn : ClientReady(c))
<1>1. ASSUME ServerInv, main = "closing", ~ MainReady, ~ AcceptorReady
      PROVE  \E c \in Conn : HandlerReady(c) \/ ClientReady(c)
  <2>1. acceptor = "done"
    BY <1>1 DEF ServerInv, TypeOK, AcceptorReady
  <2>2. PICK c \in Conn : handler[c] \in Serving
    BY <1>1, <2>1 DEF MainReady, Dead
  <2>3. CASE handler[c] = "receive" /\ asked[c] # "sent" /\ conn[c] = "open"
    BY <1>1, <2>3 DEF ServerInv, TypeOK, Paired, Running, ClientReady, Connected
  <2>4. CASE ~ (handler[c] = "receive" /\ asked[c] # "sent" /\ conn[c] = "open")
    BY <2>2, <2>4 DEF HandlerReady
  <2> QED
    BY <2>3, <2>4
<1>2. ServerInv =>
        (main = "closing" =>
           \/ MainReady \/ AcceptorReady
           \/ \E c \in Conn : HandlerReady(c)
           \/ \E c \in Conn : ClientReady(c))
  BY <1>1
<1> QED
  BY ServerInvariant, <1>2, PTL

\* How far main, the acceptor, a handler, its client's question and the
\* connection are.  While the tomb is dying no handler begins again.
MainRank ==
  CASE main = "start" -> 0 [] main = "wait" -> 1 [] main = "closing" -> 2 [] OTHER -> 3
AcceptorRank ==
  CASE acceptor = "accept" -> 0 [] acceptor = "check" -> 1 [] OTHER -> 2
HandlerRank(c) ==
  CASE handler[c] = "none" -> 0
    [] handler[c] = "backlog" -> 1
    [] handler[c] = "await" -> 2
    [] handler[c] = "receive" -> 3
    [] handler[c] = "exec" -> 4
    [] handler[c] = "restore" -> 5
    [] handler[c] \in {"reject", "respond"} -> 6
    [] handler[c] = "check" -> 7
    [] OTHER -> 8
AskedRank(c) ==
  CASE asked[c] = "received" -> 1
    [] asked[c] = "sent" -> IF HandlerRank(c) <= 3 THEN 1 ELSE 3
    [] OTHER -> IF HandlerRank(c) <= 3 THEN 0 ELSE 2
ConnRank(c) ==
  CASE conn[c] = "none" -> 0 [] conn[c] = "open" -> 1 [] OTHER -> 2

Who == Conn \union {Stdout}   \* Stdout stands for the server itself
Rank(k, c) ==
  CASE k = "main" /\ c = Stdout -> MainRank
    [] k = "acceptor" /\ c = Stdout -> AcceptorRank
    [] k = "handler" /\ c # Stdout -> HandlerRank(c)
    [] k = "asked" /\ c # Stdout -> AskedRank(c)
    [] k = "conn" /\ c # Stdout -> ConnRank(c)
    [] OTHER -> 0

\* What can be done, and what has been.
Part == {"main", "acceptor", "handler", "asked", "conn"}
Possible == (Part \X Who) \X (1 .. 8)
Done == {d \in Possible : d[2] <= Rank(d[1][1], d[1][2])}

LEMMA RanksAre ==
  /\ MainRank \in 0 .. 8 /\ AcceptorRank \in 0 .. 8
  /\ \A c \in Conn : HandlerRank(c) \in 0 .. 8 /\ AskedRank(c) \in 0 .. 8 /\ ConnRank(c) \in 0 .. 8
  /\ \A k \in Part : \A c \in Who : Rank(k, c) \in 0 .. 8
<1>1. MainRank \in 0 .. 8 /\ AcceptorRank \in 0 .. 8
  BY DEF MainRank, AcceptorRank
<1>2. ASSUME NEW c \in Conn
      PROVE  HandlerRank(c) \in 0 .. 8 /\ AskedRank(c) \in 0 .. 8 /\ ConnRank(c) \in 0 .. 8
  BY DEF HandlerRank, AskedRank, ConnRank
<1>3. ASSUME NEW k \in Part, NEW c \in Who PROVE Rank(k, c) \in 0 .. 8
  BY <1>1, <1>2 DEF Rank, Who
<1> QED
  BY <1>1, <1>2, <1>3

Kept(c) ==
  HandlerRank(c)' = HandlerRank(c) /\ AskedRank(c)' = AskedRank(c) /\ ConnRank(c)' = ConnRank(c)
Moved(c) ==
  /\ HandlerRank(c) <= HandlerRank(c)' /\ AskedRank(c) <= AskedRank(c)'
  /\ ConnRank(c) <= ConnRank(c)'
  /\ \/ HandlerRank(c) < HandlerRank(c)' \/ AskedRank(c) < AskedRank(c)'
     \/ ConnRank(c) < ConnRank(c)'

LEMMA RanksElsewhere ==
  ASSUME NEW c \in Conn, handler'[c] = handler[c], asked'[c] = asked[c], conn'[c] = conn[c]
  PROVE  Kept(c)
<1>1. HandlerRank(c)' = HandlerRank(c)
  BY DEF HandlerRank
<1> QED
  BY <1>1 DEF Kept, AskedRank, ConnRank

\* A step of a client or of a handler.
LEMMA ClientMoves ==
  ASSUME ServerInv, NEW c \in Conn, Client(c)
  PROVE  Moved(c) /\ \A d \in Conn \ {c} : Kept(d)
<1> USE DEF ServerInv, TypeOK, tomb
<1>1. \A d \in Conn \ {c} :
        handler'[d] = handler[d] /\ asked'[d] = asked[d] /\ conn'[d] = conn[d]
  BY DEF Client, Connect, Send, Close, Lose
<1>2. \A d \in Conn \ {c} : Kept(d)
  BY <1>1, RanksElsewhere
<1>3. CASE Connect(c)
  <2>1. /\ handler[c] = "none" /\ handler'[c] = "backlog" /\ asked'[c] = asked[c]
        /\ conn[c] = "none" /\ conn'[c] = "open"
    BY <1>3 DEF Connect, Linked
  <2> QED
    BY <1>2, <2>1 DEF Moved, HandlerRank, AskedRank, ConnRank
<1>4. CASE Send(c)
  <2>1. /\ handler'[c] = handler[c] /\ conn'[c] = conn[c]
        /\ asked[c] = "no" /\ asked'[c] = "sent"
    BY <1>4 DEF Send
  <2>2. HandlerRank(c)' = HandlerRank(c) /\ HandlerRank(c) \in Nat
    BY <2>1 DEF HandlerRank
  <2>3. ConnRank(c)' = ConnRank(c) /\ ConnRank(c) \in Nat
    BY <2>1 DEF ConnRank
  <2>4. AskedRank(c) < AskedRank(c)'
    BY <2>1, <2>2 DEF AskedRank
  <2>5. AskedRank(c) \in Nat /\ AskedRank(c)' \in Nat
    BY DEF AskedRank
  <2> QED
    BY <1>2, <2>2, <2>3, <2>4, <2>5 DEF Moved
<1>5. CASE Close(c) \/ Lose(c)
  <2>1. /\ handler'[c] = handler[c] /\ asked'[c] = asked[c]
        /\ conn[c] = "open" /\ conn'[c] \in {"closed", "lost"}
    BY <1>5 DEF Close, Lose, Connected
  <2>2. HandlerRank(c)' = HandlerRank(c) /\ HandlerRank(c) \in Nat
    BY <2>1 DEF HandlerRank
  <2>3. AskedRank(c)' = AskedRank(c) /\ AskedRank(c) \in Nat
    BY <2>1, <2>2 DEF AskedRank
  <2>4. ConnRank(c) = 1 /\ ConnRank(c)' = 2
    BY <2>1 DEF ConnRank
  <2> QED
    BY <1>2, <2>2, <2>3, <2>4 DEF Moved
<1> QED
  BY <1>2, <1>3, <1>4, <1>5 DEF Client

LEMMA HandlerMoves ==
  ASSUME ServerInv, dying, NEW c \in Conn, Handler(c)
  PROVE  Moved(c) /\ (\A d \in Conn \ {c} : Kept(d)) /\ main' = main /\ acceptor' = acceptor
<1> USE DEF ServerInv, TypeOK, tomb, client, Goes
<1>0. main' = main /\ acceptor' = acceptor
  BY DEF Handler, Await, AwaitFails, Receive, ReceiveEOF, ReceiveFails, ExecPromise, Restore,
         Respond, Reject, RespondFails, CheckDying, Fails
<1>1. \A d \in Conn \ {c} :
        handler'[d] = handler[d] /\ asked'[d] = asked[d] /\ conn'[d] = conn[d]
  BY DEF Handler, Await, AwaitFails, Receive, ReceiveEOF, ReceiveFails, ExecPromise, Restore,
         Respond, Reject, RespondFails, CheckDying, Fails
<1>2. \A d \in Conn \ {c} : Kept(d)
  BY <1>1, RanksElsewhere
<1>3. /\ conn'[c] = conn[c]
      /\ \/ /\ handler[c] = "await" /\ handler'[c] \in {"receive", "failed"}
            /\ asked'[c] = asked[c]
         \/ /\ handler[c] = "receive" /\ handler'[c] \in {"exec", "reject"}
            /\ asked[c] = "sent" /\ asked'[c] = "received"
         \/ /\ handler[c] = "receive" /\ handler'[c] \in {"done", "failed"}
            /\ asked'[c] = asked[c]
         \/ /\ handler[c] = "exec" /\ handler'[c] = "restore"
            /\ asked[c] = "received" /\ asked'[c] = "received"
         \/ /\ handler[c] = "restore" /\ handler'[c] = "respond"
            /\ asked[c] = "received" /\ asked'[c] = "received"
         \/ /\ handler[c] \in {"reject", "respond"} /\ handler'[c] \in {"check", "done", "failed"}
            /\ asked[c] = "received" /\ asked'[c] \in {"no", "received"}
         \/ /\ handler[c] = "check" /\ handler'[c] = "done"
            /\ asked'[c] = asked[c]
  <2>1. CASE Await(c) \/ AwaitFails(c)
    BY <2>1 DEF Await, AwaitFails, Fails
  <2>2. CASE Receive(c)
    BY <2>2 DEF Receive
  <2>3. CASE ReceiveEOF(c) \/ ReceiveFails(c)
    BY <2>3 DEF ReceiveEOF, ReceiveFails, Fails
  <2>4. CASE ExecPromise(c) \/ Restore(c)
    BY <2>4 DEF ExecPromise, Restore, Paired, Running
  <2>5. CASE Respond(c) \/ Reject(c)
    BY <2>5 DEF Respond, Reject, Paired
  <2>6. CASE RespondFails(c)
    BY <2>6 DEF RespondFails, Fails, Paired
  <2>7. CASE CheckDying(c)
    BY <2>7 DEF CheckDying, AfterAnswer
  <2> QED
    BY <2>1, <2>2, <2>3, <2>4, <2>5, <2>6, <2>7 DEF Handler
<1>4. ConnRank(c)' = ConnRank(c) /\ ConnRank(c) \in Nat
  BY <1>3 DEF ConnRank
<1>5. /\ HandlerRank(c) \in Nat /\ HandlerRank(c)' \in Nat
      /\ HandlerRank(c) < HandlerRank(c)'
      /\ HandlerRank(c) > 3 => HandlerRank(c)' > 3
      /\ handler[c] \in {"await", "receive"} => HandlerRank(c) <= 3
      /\ handler[c] \in {"exec", "restore", "reject", "respond", "check"} => HandlerRank(c) > 3
  BY <1>3 DEF HandlerRank
<1>6. AskedRank(c) \in Nat /\ AskedRank(c)' \in Nat /\ AskedRank(c) <= AskedRank(c)'
  BY <1>3, <1>5 DEF AskedRank
<1> QED
  BY <1>0, <1>2, <1>4, <1>5, <1>6 DEF Moved

\* A step of the acceptor or of main.
LEMMA AcceptorMoves ==
  ASSUME ServerInv, dying, Acceptor
  PROVE  /\ main' = main /\ AcceptorRank < AcceptorRank'
         /\ \A c \in Conn : Kept(c) \/ Moved(c)
<1> USE DEF ServerInv, TypeOK, client
<1>1. CASE AcceptorChecks \/ AcceptTimesOut \/ AcceptFails
  <2>1. /\ main' = main /\ UNCHANGED <<handler, asked, conn>>
        /\ \/ acceptor = "check" /\ acceptor' = "done"
           \/ acceptor = "accept" /\ acceptor' \in {"check", "done"}
    BY <1>1 DEF AcceptorChecks, AcceptTimesOut, AcceptFails
  <2>2. AcceptorRank < AcceptorRank'
    BY <2>1 DEF AcceptorRank
  <2> QED
    BY <2>1, <2>2, RanksElsewhere
<1>2. ASSUME NEW c \in Conn, Accept(c)
      PROVE  /\ main' = main /\ AcceptorRank < AcceptorRank'
             /\ \A d \in Conn : Kept(d) \/ Moved(d)
  <2>1. /\ main' = main /\ UNCHANGED <<asked, conn>>
        /\ acceptor = "accept" /\ acceptor' = "check"
        /\ handler[c] = "backlog" /\ handler'[c] = "await"
        /\ \A d \in Conn \ {c} : handler'[d] = handler[d]
    BY <1>2 DEF Accept
  <2>2. AcceptorRank < AcceptorRank'
    BY <2>1 DEF AcceptorRank
  <2>3. \A d \in Conn \ {c} : Kept(d)
    BY <2>1, RanksElsewhere
  <2>4. Moved(c)
    BY <2>1 DEF Moved, HandlerRank, AskedRank, ConnRank
  <2> QED
    BY <2>1, <2>2, <2>3, <2>4
<1> QED
  BY <1>1, <1>2 DEF Acceptor

LEMMA MainMoves ==
  ASSUME ServerInv, dying, main # "exited", Main \/ Signal
  PROVE  /\ MainRank < MainRank' /\ acceptor' = acceptor
         /\ \A c \in Conn : Kept(c)
<1>1. /\ UNCHANGED <<acceptor, handler, asked, conn>>
      /\ \/ main = "start" /\ main' = "exited"
         \/ main = "wait" /\ main' = "closing"
         \/ main = "closing" /\ main' = "exited"
  BY DEF Main, CheckAlive, Closed, Signal, client
<1>2. MainRank < MainRank'
  BY <1>1 DEF MainRank
<1> QED
  BY <1>1, <1>2, RanksElsewhere

\* Every step while the tomb is dying, of the server or of a client, does
\* something new, and only finitely much is possible with finitely many
\* clients: a stop is not put off by clients that keep on asking.
THEOREM StopStepsAreFinite ==
  /\ IsFiniteSet(Conn) => IsFiniteSet(Possible)
  /\ Spec => [][dying => Done \subseteq Done' /\ Done # Done']_vars
<1>1. ASSUME IsFiniteSet(Conn) PROVE IsFiniteSet(Possible)
  <2>1. IsFiniteSet(Who)
    BY <1>1, FS_AddElement DEF Who
  <2>2. IsFiniteSet(Part)
    <3>1. IsFiniteSet({"main"} \cup {"acceptor"})
      BY FS_Singleton, FS_AddElement
    <3>2. IsFiniteSet(({"main"} \cup {"acceptor"}) \cup {"handler"})
      BY <3>1, FS_AddElement
    <3>3. IsFiniteSet((({"main"} \cup {"acceptor"}) \cup {"handler"}) \cup {"asked"})
      BY <3>2, FS_AddElement
    <3>4. IsFiniteSet(((({"main"} \cup {"acceptor"}) \cup {"handler"}) \cup {"asked"})
                        \cup {"conn"})
      BY <3>3, FS_AddElement
    <3>5. ((({"main"} \cup {"acceptor"}) \cup {"handler"}) \cup {"asked"}) \cup {"conn"}
            = Part
      BY DEF Part
    <3> QED
      BY <3>4, <3>5
  <2>3. IsFiniteSet(1 .. 8)
    <3>1. 1 \in Int /\ 8 \in Int
      OBVIOUS
    <3> QED
      BY <3>1, FS_Interval
  <2>4. IsFiniteSet(Part \X Who)
    BY <2>1, <2>2, FS_Product
  <2> QED
    BY <2>3, <2>4, FS_Product DEF Possible
<1>2. ASSUME ServerInv, dying, Next
      PROVE  Done \subseteq Done' /\ Done # Done'
  <2>1. /\ MainRank <= MainRank' /\ AcceptorRank <= AcceptorRank'
        /\ \A c \in Conn : Kept(c) \/ Moved(c)
        /\ \/ MainRank < MainRank' \/ AcceptorRank < AcceptorRank'
           \/ \E c \in Conn : Moved(c)
    <3>1. /\ main' = main => MainRank' = MainRank
          /\ acceptor' = acceptor => AcceptorRank' = AcceptorRank
      BY DEF MainRank, AcceptorRank
    <3>2. ASSUME NEW c \in Conn, Client(c)
          PROVE  main' = main /\ acceptor' = acceptor
      BY <3>2 DEF Client, Connect, Send, Close, Lose, tomb
    <3>3. MainRank \in Nat /\ AcceptorRank \in Nat /\ MainRank' \in Nat /\ AcceptorRank' \in Nat
      BY DEF MainRank, AcceptorRank
    <3>4. CASE \E c \in Conn : Client(c)
      BY <1>2, <3>1, <3>2, <3>3, <3>4, ClientMoves
    <3>5. CASE \E c \in Conn : Handler(c)
      BY <1>2, <3>1, <3>3, <3>5, HandlerMoves
    <3>6. CASE Acceptor
      BY <1>2, <3>1, <3>3, <3>6, AcceptorMoves
    <3>7. CASE main # "exited" /\ (Main \/ Signal)
      BY <1>2, <3>1, <3>3, <3>7, MainMoves
    <3> QED
      BY <1>2, <3>4, <3>5, <3>6, <3>7 DEF Next
  <2>2. ASSUME NEW c \in Conn
        PROVE  /\ HandlerRank(c)' \in 0 .. 8 /\ AskedRank(c)' \in 0 .. 8
               /\ ConnRank(c)' \in 0 .. 8
    BY DEF HandlerRank, AskedRank, ConnRank
  <2>3. MainRank' \in 0 .. 8 /\ AcceptorRank' \in 0 .. 8
    BY DEF MainRank, AcceptorRank
  <2>4. ASSUME NEW c \in Conn
        PROVE  /\ HandlerRank(c) <= HandlerRank(c)' /\ AskedRank(c) <= AskedRank(c)'
               /\ ConnRank(c) <= ConnRank(c)'
    BY <2>1, RanksAre DEF Kept, Moved
  <2>5. /\ Rank("main", Stdout) = MainRank /\ Rank("main", Stdout)' = MainRank'
        /\ Rank("acceptor", Stdout) = AcceptorRank
        /\ Rank("acceptor", Stdout)' = AcceptorRank'
    BY DEF Rank
  <2>6. ASSUME NEW c \in Conn
        PROVE  /\ Rank("handler", c) = HandlerRank(c)
               /\ Rank("handler", c)' = HandlerRank(c)'
               /\ Rank("asked", c) = AskedRank(c) /\ Rank("asked", c)' = AskedRank(c)'
               /\ Rank("conn", c) = ConnRank(c) /\ Rank("conn", c)' = ConnRank(c)'
    <3>1. c # Stdout
      BY ServerAssumption
    <3> QED
      BY <3>1 DEF Rank
  <2>7. ASSUME NEW k \in Part, NEW c \in Who
        PROVE  /\ Rank(k, c) \in 0 .. 8 /\ Rank(k, c)' \in 0 .. 8
               /\ Rank(k, c) <= Rank(k, c)'
    <3>1. CASE k \in {"main", "acceptor"} /\ c = Stdout
      BY <2>1, <2>3, <2>5, <3>1, RanksAre
    <3>2. CASE k \in {"handler", "asked", "conn"} /\ c # Stdout
      <4>1. c \in Conn
        BY <3>2 DEF Who
      <4> QED
        BY <2>2, <2>4, <2>6, <3>2, <4>1, RanksAre
    <3>3. CASE \/ k \in {"main", "acceptor"} /\ c # Stdout
               \/ k \in {"handler", "asked", "conn"} /\ c = Stdout
      <4>1. Rank(k, c) = 0 /\ Rank(k, c)' = 0
        BY <3>3 DEF Rank
      <4> QED
        BY <4>1
    <3> QED
      BY <3>1, <3>2, <3>3 DEF Part
  <2>8. PICK k \in Part, c \in Who : Rank(k, c) < Rank(k, c)'
    <3>1. /\ Stdout \in Who /\ Conn \subseteq Who
          /\ "main" \in Part /\ "acceptor" \in Part /\ "handler" \in Part
          /\ "asked" \in Part /\ "conn" \in Part
      BY DEF Who, Part
    <3>2. CASE MainRank < MainRank' \/ AcceptorRank < AcceptorRank'
      BY <2>5, <3>1, <3>2
    <3>3. ASSUME NEW d \in Conn, Moved(d)
          PROVE  \E j \in Part : Rank(j, d) < Rank(j, d)'
      BY <2>6, <3>1, <3>3 DEF Moved
    <3> QED
      BY <2>1, <3>1, <3>2, <3>3
  <2>9. ASSUME NEW d \in Done PROVE d \in Done'
    <3>1. d \in Possible /\ d[1][1] \in Part /\ d[1][2] \in Who /\ d[2] \in 1 .. 8
          /\ d[2] <= Rank(d[1][1], d[1][2])
      BY DEF Done, Possible
    <3>2. d[2] <= Rank(d[1][1], d[1][2])'
      BY <2>7, <3>1
    <3>3. d \in Possible'
      BY <3>1 DEF Possible, Part, Who
    <3> QED
      BY <3>2, <3>3 DEF Done
  <2>10. PICK n \in 1 .. 8 : n <= Rank(k, c)' /\ ~ (n <= Rank(k, c))
    <3> DEFINE i == Rank(k, c)
               j == Rank(k, c)'
    <3>1. i \in 0 .. 8 /\ j \in 0 .. 8 /\ i < j
      BY <2>7, <2>8
    <3> HIDE DEF i, j
    <3>2. j \in 1 .. 8 /\ j <= j /\ ~ (j <= i)
      BY <3>1
    <3> QED
      BY <3>2 DEF i, j
  <2> DEFINE d == <<<<k, c>>, n>>
  <2>11. d \in Possible
    BY DEF Possible
  <2>12. d \in Done' /\ d \notin Done
    BY <2>10, <2>11 DEF Done
  <2> QED
    BY <2>9, <2>12
<1>3. ServerInv /\ [Next]_vars => [dying => Done \subseteq Done' /\ Done # Done']_vars
  BY <1>2
<1>4. Spec => [][dying => Done \subseteq Done' /\ Done # Done']_vars
  BY <1>3, ServerInvariant, PTL DEF Spec
<1> QED
  BY <1>1, <1>4
=============================================================================
