------------------------------ MODULE Upgrade ------------------------------
(***************************************************************************)
(* StartServer in every process of a machine: starting with a listener of  *)
(* its own or with the one of its parent, the upgrade on SIGUSR2 that a    *)
(* (restart) promise asks for, the end of the parent, and crashes.         *)
(*                                                                         *)
(* Module Server has one process in detail; here its goroutines are        *)
(* summarised by whether it accepts and which connections it serves.       *)
(* goagain is seen through its use: Wait calls OnBeforeSIGUSR2 and forks,  *)
(* once, and returns on other signals; asked again it returns or goes on.  *)
(* A signal before Wait is the default of the Go runtime: SIGUSR2 is       *)
(* ignored, the others end the process.                                    *)
(***************************************************************************)
EXTENDS DataStore

CONSTANT Conn     \* clients, each with a connection at a time

ASSUME ConnAssumption == Proc \cap Conn = {}

VARIABLES
  parent,     \* process -> the one that forked it
  forked,     \* the processes that have forked a successor
  bound,      \* the processes that have the listening socket open
  acceptor,   \* process -> the goroutine in run()
  dying,      \* the processes whose tomb is dying
  conn,       \* client -> the state of its connection
  at,         \* client -> the process that serves it
  fault       \* history: a crash, a stop, a lost client, a second restart

family == <<parent, forked>>
server == <<bound, acceptor, dying>>
client == <<conn, at>>
vars   == <<pc, job, id, keyFile, certFile, spoiled, lock, stored,
            added, removed,
            parent, forked, bound, acceptor, dying, conn, at, fault>>

Serving  == {"kill", "alive", "wait", "closing"}
Ended    == {"none", "exited"}
Open(c)  == conn[c] \in {"served", "asked"}

TypeOK ==
  /\ pc \in [Proc -> Ended \union Starting \union {"open"} \union Serving]
  /\ job \in [Proc -> Job] /\ id \in [Proc -> Id \union {Nobody}]
  /\ keyFile \in Content /\ certFile \in Content /\ spoiled \in BOOLEAN
  /\ lock \in Proc \union {Nobody} /\ stored \subseteq Id
  /\ added \in [Id -> Nat] /\ removed \in [Id -> Nat]
  /\ parent \in [Proc -> Proc \union {Nobody}] /\ forked \subseteq Proc
  /\ bound \subseteq Proc /\ dying \subseteq Proc
  /\ acceptor \in [Proc -> {"none", "on", "done"}]
  /\ conn \in [Conn -> {"none", "waiting", "served", "asked", "reset"}]
  /\ at \in [Conn -> Proc \union {Nobody}]
  /\ fault \in BOOLEAN

\* A first start, a start after a crash between the two files, or a later one.
Init ==
  /\ pc = [p \in Proc |-> "none"]
  /\ job = [p \in Proc |-> "none"]
  /\ id = [p \in Proc |-> Nobody]
  /\ keyFile \in {Absent, Old}
  /\ certFile \in {Absent, keyFile}
  /\ spoiled = FALSE
  /\ lock = Nobody
  /\ stored = Initially
  /\ added = [i \in Id |-> 0] /\ removed = [i \in Id |-> 0]
  /\ parent = [p \in Proc |-> Nobody]
  /\ forked = {}
  /\ bound = {}
  /\ acceptor = [p \in Proc |-> "none"]
  /\ dying = {}
  /\ conn = [c \in Conn |-> "none"]
  /\ at = [c \in Conn |-> Nobody]
  /\ fault = FALSE

-----------------------------------------------------------------------------
(***************************************************************************)
(* The start and the end of a process.                                     *)
(***************************************************************************)

\* A user, upstart (respawn) or another promise starts a process.
Start(p) ==
  /\ Begins(p)
  /\ \/ job' = [job EXCEPT ![p] = "run"] /\ id' = id
     \/ \E j \in {"add", "rm"}, i \in Id :
          job' = [job EXCEPT ![p] = j] /\ id' = [id EXCEPT ![p] = i]
  /\ UNCHANGED <<pair, store, family, server, client, fault>>

\* The system closes what the process had open: the store, its connections
\* and its share of the listening socket, whose backlog ends with the last.
Cut(p) ==
  [c \in Conn |->
     IF \/ Open(c) /\ at[c] = p
        \/ conn[c] = "waiting" /\ bound \subseteq {p}
       THEN "reset" ELSE conn[c]]

Exits(p) ==
  /\ Ends(p)
  /\ bound' = bound \ {p}
  /\ acceptor' = [acceptor EXCEPT ![p] = "none"]
  /\ dying' = dying \ {p}
  /\ conn' = Cut(p)
  /\ UNCHANGED <<keyFile, certFile, stored, added, removed, family, at>>

\* A process is killed or gives up after an error of the system.
Crash(p) ==
  /\ pc[p] \notin Ended
  /\ Exits(p)
  /\ spoiled' = (spoiled \/ pc[p] = "writeCert")
  /\ fault' = (fault \/ acceptor[p] # "none")

-----------------------------------------------------------------------------
(***************************************************************************)
(* StartServer.                                                            *)
(***************************************************************************)

\* The certificate or the pool cannot be loaded.  While p has the store open
\* the pool does not change.
CannotLoad(p) == ~ Usable(keyFile, certFile) \/ NoCerts

\* listenTCP fails while any process has the address.
PortFree_Always == TRUE
PortFree == bound = {}

Fails(p) ==
  /\ \/ pc[p] = "load" /\ CannotLoad(p)
     \/ pc[p] = "load" /\ parent[p] = Nobody /\ ~ PortFree  \* address in use
     \/ pc[p] = "kill" /\ pc[parent[p]] = "exited"          \* no such process
     \/ pc[p] = "alive" /\ p \in dying                      \* server died
  /\ Exits(p)
  /\ UNCHANGED <<spoiled, fault>>

CreateListenerAndRun(p) ==
  /\ pc[p] = "load" /\ ~ CannotLoad(p)
  /\ parent[p] = Nobody /\ PortFree
  /\ pc' = [pc EXCEPT ![p] = "alive"]
  /\ bound' = {p}
  /\ acceptor' = [acceptor EXCEPT ![p] = "on"]
  /\ UNCHANGED <<command, pair, store, family, dying, client, fault>>

\* The goroutine that accepts is started before the parent is killed.
Resumed_Not(p) == acceptor
Resumed(p) == [acceptor EXCEPT ![p] = "on"]

ReuseListenerAndRun(p) ==
  /\ pc[p] = "load" /\ ~ CannotLoad(p)
  /\ parent[p] # Nobody
  /\ pc' = [pc EXCEPT ![p] = "kill"]
  /\ acceptor' = Resumed(p)
  /\ UNCHANGED <<command, pair, store, family, bound, dying, client, fault>>

\* goagain.Kill: SIGQUIT, on which Wait returns in the parent.
Kill(p) ==
  /\ pc[p] = "kill"
  /\ LET q == parent[p] IN
       /\ pc[q] \in {"wait", "closing"}
       /\ pc' = [pc EXCEPT ![p] = "alive", ![q] = "closing"]
       /\ dying' = dying \union {q}
  /\ UNCHANGED <<command, pair, store, family, bound, acceptor, client, fault>>

CheckAlive(p) ==
  /\ p \notin dying
  /\ At(p, "alive", "wait")
  /\ UNCHANGED <<command, pair, store, family, server, client, fault>>

\* SIGTERM or SIGINT.
Stop(p) ==
  /\ At(p, "wait", "closing")
  /\ dying' = dying \union {p}
  /\ fault' = TRUE
  /\ UNCHANGED <<command, pair, store, family, bound, acceptor, client>>

\* server.Close has waited for the goroutines and closes the listener.
Drained_Acceptor(p) == acceptor[p] = "done"
Drained(p) == acceptor[p] = "done" /\ \A c \in Conn : Open(c) => at[c] # p

Closed(p) ==
  /\ pc[p] = "closing"
  /\ Drained(p)
  /\ Exits(p)
  /\ UNCHANGED <<spoiled, fault>>

AcceptorStops(p) ==
  /\ p \in dying /\ acceptor[p] = "on"
  /\ acceptor' = [acceptor EXCEPT ![p] = "done"]
  /\ UNCHANGED <<pc, command, pair, store, family, bound, dying, client, fault>>

-----------------------------------------------------------------------------
(***************************************************************************)
(* SIGUSR2.                                                                *)
(***************************************************************************)

\* OnBeforeSIGUSR2 closes the store.
BeforeFork_Kept(p) == lock
BeforeFork(p) == Released(p)

\* The handler of c evaluates (restart), which signals its own process.  The
\* successor q inherits the listening socket.
Restart(c, q) ==
  /\ conn[c] = "asked"
  /\ LET p == at[c] IN
       /\ pc[p] = "wait" /\ p \notin forked
       /\ Begins(q)
       /\ job' = [job EXCEPT ![q] = "run"]
       /\ parent' = [parent EXCEPT ![q] = p]
       /\ forked' = forked \union {p}
       /\ lock' = BeforeFork(p)
       /\ bound' = bound \union {q}
  /\ UNCHANGED <<id, pair, stored, added, removed, acceptor, dying,
                 client, fault>>

\* Asked again Wait returns (or goes on).
RestartAgain(c) ==
  /\ conn[c] = "asked"
  /\ LET p == at[c] IN
       /\ p \in forked
       /\ At(p, "wait", "closing")
       /\ dying' = dying \union {p}
  /\ fault' = TRUE
  /\ UNCHANGED <<command, pair, store, family, bound, acceptor, client>>

-----------------------------------------------------------------------------
(***************************************************************************)
(* Connections: the handlers, as far as one process looks to another.      *)
(***************************************************************************)
others == <<pc, command, pair, store, family, bound, acceptor>>

Becomes(c, from, to) ==
  conn[c] = from /\ conn' = [conn EXCEPT ![c] = to] /\ UNCHANGED others

Unserved(c) == at' = [at EXCEPT ![c] = Nobody]

Connect(c) ==
  bound # {} /\ Becomes(c, "none", "waiting") /\ UNCHANGED <<at, dying, fault>>

\* Any process whose acceptor runs takes it, dying or not.
Accept(c, p) ==
  /\ acceptor[p] = "on"
  /\ Becomes(c, "waiting", "served")
  /\ at' = [at EXCEPT ![c] = p]
  /\ UNCHANGED <<dying, fault>>

Ask(c) == Becomes(c, "served", "asked") /\ UNCHANGED <<at, dying, fault>>

\* The handler ends with its answer when the tomb is dying.
Answer(c) ==
  /\ IF at[c] \in dying THEN Becomes(c, "asked", "none") /\ Unserved(c)
                        ELSE Becomes(c, "asked", "served") /\ at' = at
  /\ UNCHANGED <<dying, fault>>

\* A client leaves, and may come back.
Leave(c) == Becomes(c, "served", "none") /\ Unserved(c) /\ UNCHANGED <<dying, fault>>

\* The error of a handler kills the tomb.
Lose(c) ==
  /\ Open(c)
  /\ Becomes(c, conn[c], "none") /\ Unserved(c)
  /\ dying' = dying \union {at[c]}
  /\ fault' = TRUE

-----------------------------------------------------------------------------
Runs(p) ==
  \/ StoreStep(p) /\ UNCHANGED <<family, server, client, fault>>
  \/ Fails(p) \/ CreateListenerAndRun(p) \/ ReuseListenerAndRun(p) \/ Kill(p)
  \/ CheckAlive(p) \/ Closed(p)
Accepts(p) == AcceptorStops(p) \/ \E c \in Conn : Accept(c, p)
Client(c)  == Connect(c) \/ Ask(c) \/ Answer(c) \/ Leave(c) \/ Lose(c)

Next ==
  \/ \E p \in Proc : Start(p) \/ Runs(p) \/ Accepts(p) \/ Crash(p) \/ Stop(p)
  \/ \E c \in Conn : Client(c) \/ RestartAgain(c) \/ \E q \in Proc : Restart(c, q)

Spec == Init /\ [][Next]_vars

\* Goroutines that can go on do; a client that has its answer leaves.
FairSpec ==
  /\ Spec
  /\ \A p \in Proc : WF_vars(Runs(p)) /\ WF_vars(Accepts(p))
  /\ \A c \in Conn : WF_vars(Answer(c)) /\ WF_vars(Leave(c))

-----------------------------------------------------------------------------
(***************************************************************************)
(* Properties.                                                             *)
(***************************************************************************)

\* An upgrade is invisible to clients: while nothing fails and nobody stops
\* the server, the port stays bound, and no connection is lost on the way
\* from a process to its successor.
svc == INSTANCE Service WITH up <- bound # {}
ServiceGoesOn == svc!Spec

\* Of two processes that serve, one is the successor of the other: a server
\* started besides, as upstart does when the first process ends, never
\* serves another generation of configuration on the same port.
Serves(p) == acceptor[p] = "on" /\ p \notin dying
OneFamily ==
  \A p, q \in Proc :
    p # q /\ Serves(p) /\ Serves(q) => parent[p] = q \/ parent[q] = p

\* A successor does not wait for ever for the store of its parent, or of
\* whichever process opened it in between: again and again there is none on
\* its way, as each has come to serve or has ended.
Coming(p) == parent[p] # Nobody /\ pc[p] \in Starting \union {"open", "kill", "alive"}
SuccessorServes == []<> ~ \E p \in Proc : Coming(p)

\* A connection is accepted, by whichever process, unless there is a fault.
ConnectionServed ==
  \A c \in Conn : (conn[c] = "waiting") ~> (conn[c] # "waiting" \/ fault)
=============================================================================
