---------------------------- MODULE UpgradeProofs ----------------------------
(***************************************************************************)
(* For any number of processes, connections and certificates: the store    *)
(* and the key pair stay sound, processes that serve belong together, and  *)
(* an upgrade implements the service that clients expect.                  *)
(***************************************************************************)
EXTENDS Upgrade, TLAPS

\* On its way to take over: a process that its parent still waits for.
Rising == {"check", "open", "load", "kill"} \union Generating
Past   == {"open", "load"} \union Command

-----------------------------------------------------------------------------
\* Each command knows its id, and holds the store while it uses it.
Jobs ==
  \A p \in Proc :
    /\ pc[p] \notin Ended => job[p] # "none"
    /\ job[p] \in {"add", "rm"} => id[p] \in Id
    /\ pc[p] \in Command => job[p] # "run"
    /\ pc[p] = "load" => job[p] = "run"
    /\ pc[p] \in Command \union {"load"} => lock = p
    /\ pc[p] = "write" => Applies(p)

\* The pair while one process is generating it, and when none is.
Half(p) ==
  /\ \A q \in Proc : pc[q] \in Generating => q = p
  /\ pc[p] # "writeCert" => certFile = Absent
  /\ pc[p] = "writeCert" => certFile = Empty
  /\ pc[p] \in {"openCert", "writeCert"} => keyFile = p
KeyPair ==
  /\ \A p \in Proc : pc[p] \in Past => Exist
  /\ \A p \in Proc : pc[p] \in Generating \ {"openKey"} => keyFile # Absent
  /\ ~ spoiled =>
       \/ \E p \in Proc : pc[p] \in Generating /\ Half(p)
       \/ /\ \A p \in Proc : pc[p] \notin Generating
          /\ certFile = Absent \/ Usable(keyFile, certFile)

StoreInv == Jobs /\ KeyPair /\ CommandsTakeEffect

\* A process has one successor at most, and each has the socket.
Ties ==
  /\ \A p \in Proc : parent[p] # Nobody => parent[p] \in forked
  /\ \A p, q \in Proc : parent[p] = parent[q] /\ parent[p] # Nobody => p = q
  /\ \A p \in Proc : pc[p] = "none" => parent[p] = Nobody
  /\ \A p \in Proc : pc[p] = "kill" => parent[p] # Nobody
  /\ \A p \in Proc : pc[p] \in Rising /\ parent[p] # Nobody => p \in bound

Sockets ==
  /\ \A p \in bound : job[p] = "run" /\ pc[p] \in Rising \union Serving
  /\ \A p \in Proc : acceptor[p] # "none" <=> pc[p] \in Serving
  /\ \A p \in Proc : pc[p] \in Serving => p \in bound
  /\ \A p \in dying : pc[p] \in Serving
  /\ \A p \in Proc : pc[p] = "closing" => p \in dying
  /\ \A c \in Conn : Open(c) => at[c] \in Proc /\ pc[at[c]] \in Serving
  /\ \A c \in Conn : conn[c] = "waiting" => bound # {}

\* Of two processes with the socket one is leaving, or is the parent of the
\* other, which has not killed it yet.
Succeeds(p, q) == parent[p] = q /\ pc[p] \in Rising
Chain ==
  \A p, q \in bound :
    \/ p = q \/ pc[p] = "closing" \/ pc[q] = "closing"
    \/ Succeeds(p, q) \/ Succeeds(q, p)

\* Unless there was a fault, only processes that are leaving are dying, a
\* successor's parent waits for it, and somebody serves.
Lively(p) == pc[p] \in {"alive", "wait"}
Faultless ==
  ~ fault =>
    /\ \A p \in dying : pc[p] = "closing"
    /\ \A p \in Proc : pc[p] \in Rising /\ parent[p] # Nobody => pc[parent[p]] = "wait"
    /\ bound # {} => \E p \in Proc : Lively(p)

ServeInv == Ties /\ Sockets /\ Chain /\ Faultless
UpgradeInv == TypeOK /\ StoreInv /\ ServeInv

-----------------------------------------------------------------------------
(***************************************************************************)
(* Types.                                                                  *)
(***************************************************************************)
LEMMA InitTypeOK == Init => TypeOK
<1>. SUFFICES ASSUME Init PROVE TypeOK
  OBVIOUS
<1>. QED
  BY StoreAssumption DEF Init, TypeOK, Job, Content, Ended

LEMMA StoreStepTypeOK ==
  ASSUME TypeOK, Jobs, NEW p \in Proc, StoreStep(p),
         UNCHANGED <<family, server, client, fault>>
  PROVE  TypeOK'
<1>. USE DEF TypeOK, At, Ends, Released, pair, store, command, family, server,
             client, Job, Content, Starting, Generating, Command, Ended
<1>1. CASE EnsureCert(p)
  BY <1>1 DEF EnsureCert
<1>2. CASE GenerateCert(p)
  BY <1>2 DEF GenerateCert
<1>3. CASE NewStore(p)
  BY <1>3 DEF NewStore
<1>4. CASE Lookup(p)
  BY <1>4 DEF Lookup
<1>5. CASE Write(p)
  <2>1. CASE Put(p)
    BY <1>5, <2>1 DEF Write, Put, Jobs
  <2>2. CASE Delete(p)
    BY <1>5, <2>2 DEF Write, Delete, Jobs
  <2>. QED
    BY <1>5, <2>1, <2>2 DEF Write
<1>. QED
  BY <1>1, <1>2, <1>3, <1>4, <1>5 DEF StoreStep

LEMMA ProcessTypeOK ==
  ASSUME TypeOK, Ties, NEW p \in Proc,
         \/ Start(p) \/ Crash(p) \/ Fails(p) \/ CreateListenerAndRun(p)
         \/ ReuseListenerAndRun(p) \/ Kill(p) \/ CheckAlive(p) \/ Stop(p)
         \/ Closed(p) \/ AcceptorStops(p)
  PROVE  TypeOK'
<1>. USE DEF TypeOK, At, Ends, Released, pair, store, command, family, server,
             client, Job, Content, Starting, Generating, Command, Ended, Serving
<1>1. CASE Start(p)
  BY <1>1 DEF Start, Begins
<1>2. ASSUME Exits(p), spoiled' \in BOOLEAN, fault' \in BOOLEAN PROVE TypeOK'
  BY <1>2 DEF Exits, Cut
<1>3. CASE Crash(p) \/ Fails(p) \/ Closed(p)
  BY <1>2, <1>3 DEF Crash, Fails, Closed
<1>4. CASE CreateListenerAndRun(p)
  BY <1>4 DEF CreateListenerAndRun
<1>5. CASE ReuseListenerAndRun(p)
  BY <1>5 DEF ReuseListenerAndRun, Resumed
<1>6. CASE Kill(p)
  BY <1>6 DEF Kill, Ties
<1>7. CASE CheckAlive(p) \/ Stop(p)
  BY <1>7 DEF CheckAlive, Stop
<1>8. CASE AcceptorStops(p)
  BY <1>8 DEF AcceptorStops
<1>. QED
  BY <1>1, <1>3, <1>4, <1>5, <1>6, <1>7, <1>8

LEMMA ConnectionTypeOK ==
  ASSUME TypeOK, Sockets, NEW c \in Conn,
         \/ Client(c) \/ RestartAgain(c)
         \/ \E q \in Proc : Restart(c, q) \/ Accept(c, q)
  PROVE  TypeOK'
<1>. USE DEF TypeOK, At, Becomes, others, Released, pair, store, command, family,
             server, client, Job, Content, Starting, Generating, Command, Ended,
             Serving
<1>0. Open(c) => at[c] \in Proc
  BY DEF Sockets
<1>1. CASE Client(c)
  <2>1. CASE Answer(c)
    BY <2>1 DEF Answer, Unserved
  <2>2. CASE Lose(c)
    BY <1>0, <2>2 DEF Lose, Unserved
  <2>3. CASE Connect(c) \/ Ask(c) \/ Leave(c)
    BY <2>3 DEF Connect, Ask, Leave, Unserved
  <2>. QED
    BY <1>1, <2>1, <2>2, <2>3 DEF Client
<1>2. CASE RestartAgain(c)
  BY <1>0, <1>2 DEF RestartAgain, Open
<1>3. ASSUME NEW q \in Proc, Restart(c, q) PROVE TypeOK'
  BY <1>0, <1>3 DEF Restart, Begins, BeforeFork, Open
<1>4. ASSUME NEW q \in Proc, Accept(c, q) PROVE TypeOK'
  BY <1>4 DEF Accept
<1>. QED
  BY <1>1, <1>2, <1>3, <1>4

-----------------------------------------------------------------------------
(***************************************************************************)
(* The store and the key pair.                                             *)
(***************************************************************************)
LEMMA InitStoreInv == Init => StoreInv
<1>. SUFFICES ASSUME Init PROVE StoreInv
  OBVIOUS
<1>1. Jobs
  BY DEF Init, Jobs, Ended, Command
<1>2. KeyPair
  BY StoreAssumption DEF Init, KeyPair, Past, Generating, Command, Usable, Exist
<1>3. CommandsTakeEffect
  BY DEF Init, CommandsTakeEffect, Count
<1>. QED
  BY <1>1, <1>2, <1>3 DEF StoreInv

LEMMA StoreStepJobs ==
  ASSUME TypeOK, Jobs, NEW p \in Proc, StoreStep(p)
  PROVE  Jobs'
<1>. USE StoreAssumption DEF TypeOK, Jobs, Applies, At, Ends, Released, pair,
         store, command, Job, Generating, Command, Ended
<1>1. CASE EnsureCert(p)
  BY <1>1 DEF EnsureCert
<1>2. CASE GenerateCert(p)
  BY <1>2 DEF GenerateCert
<1>3. CASE NewStore(p)
  BY <1>3 DEF NewStore, Unlocked
<1>4. CASE Lookup(p)
  BY <1>4 DEF Lookup
<1>5. CASE Write(p)
  BY <1>5 DEF Write, Put, Delete
<1>. QED
  BY <1>1, <1>2, <1>3, <1>4, <1>5 DEF StoreStep

LEMMA StoreStepKeyPair ==
  ASSUME TypeOK, KeyPair, NEW p \in Proc, StoreStep(p)
  PROVE  KeyPair'
<1>. USE StoreAssumption DEF TypeOK, KeyPair, Half, Usable, Exist, Past, At, Ends,
         pair, store, command, Generating, Command, Content
<1>1. CASE EnsureCert(p)
  BY <1>1 DEF EnsureCert
<1>2. CASE GenerateCert(p)
  <2>1. CASE pc[p] = "openKey"
    BY <1>2, <2>1 DEF GenerateCert
  <2>2. CASE pc[p] = "writeKey"
    BY <1>2, <2>2 DEF GenerateCert
  <2>3. CASE pc[p] = "openCert"
    BY <1>2, <2>3 DEF GenerateCert
  <2>4. CASE pc[p] = "writeCert"
    BY <1>2, <2>4 DEF GenerateCert
  <2>. QED
    BY <1>2, <2>1, <2>2, <2>3, <2>4 DEF GenerateCert
<1>3. CASE NewStore(p)
  BY <1>3 DEF NewStore
<1>4. CASE Lookup(p)
  BY <1>4 DEF Lookup
<1>5. CASE Write(p)
  BY <1>5 DEF Write
<1>. QED
  BY <1>1, <1>2, <1>3, <1>4, <1>5 DEF StoreStep

LEMMA StoreStepEffect ==
  ASSUME TypeOK, Jobs, CommandsTakeEffect, NEW p \in Proc, StoreStep(p)
  PROVE  CommandsTakeEffect'
<1>1. CASE UNCHANGED <<stored, added, removed>>
  BY <1>1 DEF CommandsTakeEffect, Count
<1>2. CASE Write(p)
  <2>. DEFINE i == id[p]
  <2>1. i \in Id /\ Applies(p)
    BY <1>2 DEF Write, Put, Delete, Jobs
  <2>2. SUFFICES ASSUME NEW k \in Id
                 PROVE  Count(k \in Initially) + added'[k]
                          = Count(k \in stored') + removed'[k]
    BY DEF CommandsTakeEffect, Count
  <2>3. Count(k \in Initially) + added[k] = Count(k \in stored) + removed[k]
    BY DEF CommandsTakeEffect
  <2>4. CASE Put(p)
    BY <2>1, <2>3, <2>4 DEF Put, Applies, Count, TypeOK
  <2>5. CASE Delete(p)
    BY <2>1, <2>3, <2>5 DEF Delete, Applies, Count, TypeOK
  <2>. QED
    BY <1>2, <2>4, <2>5 DEF Write
<1>. QED
  BY <1>1, <1>2 DEF StoreStep, EnsureCert, GenerateCert, NewStore, Lookup, store

\* Other steps start a process, end one or lead it on in the server.
GoesOn(p) ==
  /\ pc[p] \in {"load"} \union Serving /\ pc'[p] \in Serving
  /\ job'[p] = job[p] /\ id'[p] = id[p]
LEMMA ElsewhereKeepsStoreInv ==
  ASSUME TypeOK, StoreInv,
         UNCHANGED <<keyFile, certFile, stored, added, removed>>,
         spoiled => spoiled',
         \A p \in Proc :
           \/ pc'[p] = pc[p] /\ job'[p] = job[p] /\ id'[p] = id[p]
           \/ pc[p] = "none" /\ pc'[p] = "check" /\ job'[p] # "none"
                /\ (job'[p] \in {"add", "rm"} => id'[p] \in Id)
           \/ GoesOn(p)
           \/ pc'[p] = "exited" /\ job'[p] = "none"
                /\ (pc[p] = "writeCert" => spoiled'),
         \A p \in Proc : pc'[p] \in Command \union {"load"} => lock' = lock
  PROVE  StoreInv'
<1>. USE DEF StoreInv
<1>1. Jobs'
  BY DEF Jobs, Applies, GoesOn, Command, Ended, Serving, TypeOK
<1>2. KeyPair'
  <2>. USE DEF KeyPair, GoesOn, Generating, Command, Serving
  <2>1. \A p \in Proc : pc'[p] \in Past => pc[p] \in Past
    BY DEF Past
  <2>2. \A p \in Proc : pc'[p] \in Generating => pc[p] = pc'[p]
    OBVIOUS
  <2>3. ASSUME ~ spoiled', NEW p \in Proc, pc[p] \in Generating, Half(p)
        PROVE  \/ pc'[p] \in Generating /\ Half(p)'
               \/ (\A q \in Proc : pc'[q] \notin Generating) /\ certFile' = Absent
    BY <2>2, <2>3 DEF Half
  <2>. QED
    BY <2>1, <2>2, <2>3 DEF Exist, Usable
<1>3. CommandsTakeEffect'
  BY DEF CommandsTakeEffect, Count
<1>. QED
  BY <1>1, <1>2, <1>3

LEMMA ProcessKeepsStoreInv ==
  ASSUME TypeOK, StoreInv, Ties, NEW p \in Proc,
         \/ Start(p) \/ Crash(p) \/ Fails(p) \/ CreateListenerAndRun(p)
         \/ ReuseListenerAndRun(p) \/ Kill(p) \/ CheckAlive(p) \/ Stop(p)
         \/ Closed(p) \/ AcceptorStops(p)
  PROVE  StoreInv'
<1>. USE DEF TypeOK, At, pair, store, command, GoesOn, Serving, Command
<1>1. CASE Start(p)
  BY <1>1, ElsewhereKeepsStoreInv DEF Start, Begins
<1>2. ASSUME Exits(p), spoiled => spoiled', pc[p] = "writeCert" => spoiled'
      PROVE  StoreInv'
  <2>1. \A q \in Proc : pc'[q] \in Command \union {"load"} => lock' = lock
    BY <1>2 DEF Exits, Ends, Released, StoreInv, Jobs
  <2>. QED
    BY <1>2, <2>1, ElsewhereKeepsStoreInv DEF Exits, Ends
<1>3. CASE Crash(p) \/ Fails(p) \/ Closed(p)
  BY <1>2, <1>3 DEF Crash, Fails, Closed
<1>4. CASE CreateListenerAndRun(p) \/ ReuseListenerAndRun(p)
  BY <1>4, ElsewhereKeepsStoreInv DEF CreateListenerAndRun, ReuseListenerAndRun
<1>5. CASE Kill(p)
  BY <1>5, ElsewhereKeepsStoreInv DEF Kill
<1>6. CASE CheckAlive(p) \/ Stop(p)
  BY <1>6, ElsewhereKeepsStoreInv DEF CheckAlive, Stop
<1>7. CASE AcceptorStops(p)
  BY <1>7, ElsewhereKeepsStoreInv DEF AcceptorStops
<1>. QED
  BY <1>1, <1>3, <1>4, <1>5, <1>6, <1>7

LEMMA ConnectionKeepsStoreInv ==
  ASSUME TypeOK, StoreInv, Sockets, NEW c \in Conn,
         \/ Client(c) \/ RestartAgain(c)
         \/ \E q \in Proc : Restart(c, q) \/ Accept(c, q)
  PROVE  StoreInv'
<1>. USE DEF TypeOK, At, pair, store, command, GoesOn, Serving, Command
<1>1. CASE Client(c) \/ \E q \in Proc : Accept(c, q)
  BY <1>1, ElsewhereKeepsStoreInv
     DEF Client, Connect, Accept, Ask, Answer, Leave, Lose, Becomes, others
<1>2. CASE RestartAgain(c)
  BY <1>2, ElsewhereKeepsStoreInv DEF RestartAgain
<1>3. ASSUME NEW q \in Proc, Restart(c, q) PROVE StoreInv'
  <2>1. \A r \in Proc : pc'[r] \in Command \union {"load"} => lock' = lock
    <3>1. /\ at[c] \in Proc
          /\ pc[at[c]] = "wait"
          /\ pc' = [pc EXCEPT ![q] = "check"]
          /\ lock' = Released(at[c])
      BY <1>3 DEF Restart, Begins, BeforeFork, Sockets, Open
    <3>. QED
      BY <3>1 DEF Released, StoreInv, Jobs
  <2>. QED
    BY <1>3, <2>1, ElsewhereKeepsStoreInv DEF Restart, Begins
<1>. QED
  BY <1>1, <1>2, <1>3

-----------------------------------------------------------------------------
(***************************************************************************)
(* The processes that serve.                                               *)
(***************************************************************************)
LEMMA InitServeInv == Init => ServeInv
<1>. SUFFICES ASSUME Init PROVE ServeInv
  OBVIOUS
<1>. QED
  BY DEF Init, ServeInv, Ties, Sockets, Chain, Faultless, Serving, Rising,
         Generating, Open

\* Before it is through with the store a process moves without anything else.
LEMMA StoreStepServeInv ==
  ASSUME TypeOK, Jobs, ServeInv, NEW p \in Proc, StoreStep(p),
         UNCHANGED <<family, server, client, fault>>
  PROVE  ServeInv'
<1>1. /\ UNCHANGED <<parent, forked, bound, acceptor, dying, conn, at, fault>>
      /\ \A q \in Proc : q # p => pc'[q] = pc[q] /\ job'[q] = job[q]
      /\ pc[p] \in {"check", "open"} \union Generating \union Command
      /\ \/ /\ pc[p] \notin Command /\ job'[p] = job[p]
            /\ pc'[p] \in Rising \ {"kill"} \/ (pc'[p] = "lookup" /\ job[p] # "run")
         \/ pc[p] \in Command /\ pc'[p] \in {"write", "exited"}
  BY DEF StoreStep, EnsureCert, GenerateCert, NewStore, Lookup, Write, At, Ends,
         command, family, server, client, TypeOK, Generating, Command, Rising
<1>. USE <1>1 DEF ServeInv, Rising, Generating, Command, Serving
<1>2. p \in bound => pc'[p] \in Rising /\ job'[p] = "run"
  BY DEF Sockets, Jobs
<1>3. Ties'
  BY DEF Ties, Sockets, Jobs
<1>4. Sockets'
  BY <1>2 DEF Sockets, Open, TypeOK
<1>5. Chain'
  BY <1>2 DEF Chain, Succeeds, TypeOK
<1>6. Faultless'
  BY DEF Faultless, Lively, TypeOK
<1>. QED
  BY <1>3, <1>4, <1>5, <1>6

\* The end of a process that does not serve, or that is not the last to.
LEMMA ExitKeepsServeInv ==
  ASSUME TypeOK, Jobs, ServeInv, NEW p \in Proc, Exits(p), fault => fault',
         ~ fault' => ~ Lively(p)
  PROVE  ServeInv'
<1>1. /\ pc' = [pc EXCEPT ![p] = "exited"]
      /\ job' = [job EXCEPT ![p] = "none"]
      /\ bound' = bound \ {p}
      /\ acceptor' = [acceptor EXCEPT ![p] = "none"]
      /\ dying' = dying \ {p}
      /\ conn' = Cut(p)
      /\ UNCHANGED <<parent, forked, at>>
  BY DEF Exits, Ends, family
<1>. USE DEF ServeInv, TypeOK, Serving, Rising, Generating
<1>2. Ties'
  BY <1>1 DEF Ties
<1>3. Sockets'
  BY <1>1 DEF Sockets, Cut, Open
<1>4. Chain'
  BY <1>1 DEF Chain, Succeeds
<1>5. ASSUME ~ fault' PROVE Faultless'
  <2>1. pc[p] \notin {"alive", "wait"}
    BY <1>5 DEF Lively
  <2>. QED
    BY <1>1, <1>5, <2>1 DEF Faultless, Lively
<1>. QED
  BY <1>2, <1>3, <1>4, <1>5 DEF Faultless

LEMMA ProcessKeepsServeInv ==
  ASSUME TypeOK, Jobs, ServeInv, NEW p \in Proc,
         \/ Start(p) \/ Crash(p) \/ Fails(p) \/ CreateListenerAndRun(p)
         \/ ReuseListenerAndRun(p) \/ Kill(p) \/ CheckAlive(p) \/ Stop(p)
         \/ Closed(p) \/ AcceptorStops(p)
  PROVE  ServeInv'
<1>. USE DEF ServeInv, TypeOK, Serving, Rising, Generating, At, family, server,
             client, command, pair, store
<1>1. CASE Start(p)
  <2>1. Ties'
    BY <1>1 DEF Start, Begins, Ties
  <2>2. Sockets'
    BY <1>1 DEF Start, Begins, Sockets, Open
  <2>3. Chain'
    BY <1>1 DEF Start, Begins, Chain, Succeeds, Sockets
  <2>4. Faultless'
    BY <1>1 DEF Start, Begins, Faultless, Lively, Ties
  <2>. QED
    BY <2>1, <2>2, <2>3, <2>4
<1>2. CASE Crash(p)
  BY <1>2, ExitKeepsServeInv DEF Crash, Sockets, Lively
<1>3. CASE Fails(p)
  BY <1>3, ExitKeepsServeInv DEF Fails, Lively, Faultless
<1>4. CASE Closed(p)
  BY <1>4, ExitKeepsServeInv DEF Closed, Lively
<1>5. CASE CreateListenerAndRun(p)
  <2>0. /\ pc[p] = "load" /\ job[p] = "run"
        /\ parent[p] = Nobody /\ bound = {} /\ bound' = {p}
        /\ pc' = [pc EXCEPT ![p] = "alive"]
        /\ acceptor' = [acceptor EXCEPT ![p] = "on"]
        /\ UNCHANGED <<job, parent, forked, dying, conn, at, fault>>
    BY <1>5 DEF CreateListenerAndRun, PortFree, Jobs
  <2>1. Ties'
    BY <2>0 DEF Ties
  <2>2. Sockets'
    BY <2>0 DEF Sockets, Open
  <2>3. Chain'
    BY <2>0 DEF Chain
  <2>4. Faultless'
    BY <2>0 DEF Faultless, Lively, Sockets
  <2>. QED
    BY <2>1, <2>2, <2>3, <2>4
<1>6. CASE ReuseListenerAndRun(p)
  <2>0. /\ pc[p] = "load" /\ parent[p] # Nobody /\ p \in bound
        /\ pc' = [pc EXCEPT ![p] = "kill"]
        /\ acceptor' = [acceptor EXCEPT ![p] = "on"]
        /\ UNCHANGED <<job, parent, forked, bound, dying, conn, at, fault>>
    BY <1>6 DEF ReuseListenerAndRun, Resumed, Ties
  <2>1. Ties'
    BY <2>0 DEF Ties
  <2>2. Sockets'
    BY <2>0 DEF Sockets, Open
  <2>3. Chain'
    BY <2>0 DEF Chain, Succeeds
  <2>4. Faultless'
    BY <2>0 DEF Faultless, Lively, Sockets
  <2>. QED
    BY <2>1, <2>2, <2>3, <2>4
<1>7. CASE Kill(p)
  <2>. DEFINE q == parent[p]
  <2>0. /\ pc[p] = "kill" /\ q \in Proc /\ q # p
        /\ pc[q] \in {"wait", "closing"}
        /\ pc' = [pc EXCEPT ![p] = "alive", ![q] = "closing"]
        /\ dying' = dying \union {q}
        /\ UNCHANGED <<job, parent, forked, bound, acceptor, conn, at, fault>>
    BY <1>7 DEF Kill, Ties
  <2>. HIDE DEF q
  <2>1. Ties'
    BY <2>0 DEF Ties
  <2>2. Sockets'
    BY <2>0 DEF Sockets, Open
  <2>3. Chain'
    BY <2>0 DEF Chain, Succeeds, q
  <2>4. Faultless'
    BY <2>0 DEF Faultless, Lively, Ties, q
  <2>. QED
    BY <2>1, <2>2, <2>3, <2>4
<1>8. CASE CheckAlive(p) \/ Stop(p)
  <2>0. /\ pc[p] \in {"alive", "wait"}
        /\ \/ pc' = [pc EXCEPT ![p] = "wait"] /\ UNCHANGED <<dying, fault>>
           \/ /\ pc' = [pc EXCEPT ![p] = "closing"]
              /\ dying' = dying \union {p} /\ fault' = TRUE
        /\ UNCHANGED <<job, parent, forked, bound, acceptor, conn, at>>
    BY <1>8 DEF CheckAlive, Stop
  <2>1. Ties'
    BY <2>0 DEF Ties
  <2>2. Sockets'
    BY <2>0 DEF Sockets, Open
  <2>3. Chain'
    BY <2>0 DEF Chain, Succeeds
  <2>4. Faultless'
    BY <2>0 DEF Faultless, Lively
  <2>. QED
    BY <2>1, <2>2, <2>3, <2>4
<1>9. CASE AcceptorStops(p)
  <2>1. Sockets'
    BY <1>9 DEF AcceptorStops, Sockets, Open
  <2>. QED
    BY <1>9, <2>1 DEF AcceptorStops, Ties, Chain, Succeeds, Faultless, Lively
<1>. QED
  BY <1>1, <1>2, <1>3, <1>4, <1>5, <1>6, <1>7, <1>8, <1>9

LEMMA ConnectionKeepsServeInv ==
  ASSUME TypeOK, Jobs, ServeInv, NEW c \in Conn,
         \/ Client(c) \/ RestartAgain(c)
         \/ \E q \in Proc : Restart(c, q) \/ Accept(c, q)
  PROVE  ServeInv'
<1>. USE DEF ServeInv, TypeOK, Serving, Rising, Generating, At, family, server,
             client, command, pair, store
<1>1. CASE Client(c) \/ \E q \in Proc : Accept(c, q)
  <2>0. /\ UNCHANGED <<pc, job, parent, forked, bound, acceptor>>
        /\ \/ UNCHANGED <<dying, fault>>
           \/ Open(c) /\ dying' = dying \union {at[c]} /\ fault' = TRUE
    BY <1>1 DEF Client, Connect, Ask, Answer, Leave, Lose, Accept, Becomes, others
  <2>1. Sockets'
    <3>1. CASE Lose(c)
      BY <3>1 DEF Lose, Becomes, Unserved, others, Sockets, Open
    <3>2. CASE Answer(c)
      BY <3>2 DEF Answer, Becomes, Unserved, others, Sockets, Open
    <3>3. CASE Connect(c) \/ Ask(c) \/ Leave(c)
      BY <3>3 DEF Connect, Ask, Leave, Becomes, Unserved, others, Sockets, Open
    <3>4. ASSUME NEW q \in Proc, Accept(c, q) PROVE Sockets'
      BY <3>4 DEF Accept, Becomes, others, Sockets, Open
    <3>. QED
      BY <1>1, <3>1, <3>2, <3>3, <3>4 DEF Client
  <2>2. Ties' /\ Chain'
    BY <2>0 DEF Ties, Chain, Succeeds
  <2>3. Faultless'
    BY <2>0 DEF Faultless, Lively
  <2>. QED
    BY <2>1, <2>2, <2>3
<1>2. CASE RestartAgain(c)
  <2>. DEFINE p == at[c]
  <2>0. /\ p \in Proc /\ pc[p] = "wait"
        /\ pc' = [pc EXCEPT ![p] = "closing"]
        /\ dying' = dying \union {p} /\ fault' = TRUE
        /\ UNCHANGED <<job, parent, forked, bound, acceptor, conn, at>>
    BY <1>2 DEF RestartAgain, Sockets, Open
  <2>. HIDE DEF p
  <2>1. Ties' /\ Chain' /\ Faultless'
    BY <2>0 DEF Ties, Chain, Succeeds, Faultless
  <2>2. Sockets'
    BY <2>0 DEF Sockets, Open
  <2>. QED
    BY <2>1, <2>2
<1>3. ASSUME NEW q \in Proc, Restart(c, q) PROVE ServeInv'
  <2>. DEFINE p == at[c]
  <2>0. /\ p \in Proc /\ pc[p] = "wait" /\ p \notin forked /\ p \in bound
        /\ pc[q] = "none" /\ q \notin bound /\ parent[q] = Nobody
        /\ pc' = [pc EXCEPT ![q] = "check"]
        /\ job' = [job EXCEPT ![q] = "run"]
        /\ parent' = [parent EXCEPT ![q] = p]
        /\ forked' = forked \union {p}
        /\ bound' = bound \union {q}
        /\ UNCHANGED <<acceptor, dying, conn, at, fault>>
    BY <1>3 DEF Restart, Begins, Sockets, Open, Ties
  <2>. HIDE DEF p
  <2>1. Ties'
    BY <2>0, StoreAssumption DEF Ties
  <2>2. Sockets'
    BY <2>0 DEF Sockets, Open
  <2>3. \A r \in bound : r = p \/ pc[r] = "closing"
    BY <2>0, StoreAssumption DEF Chain, Succeeds, Ties
  <2>4. Chain'
    BY <2>0, <2>3 DEF Chain, Succeeds
  <2>5. Faultless'
    BY <2>0 DEF Faultless, Lively
  <2>. QED
    BY <2>1, <2>2, <2>4, <2>5
<1>. QED
  BY <1>1, <1>2, <1>3

-----------------------------------------------------------------------------
(***************************************************************************)
(* The theorems.                                                           *)
(***************************************************************************)
LEMMA StepKeepsUpgradeInv == UpgradeInv /\ [Next]_vars => UpgradeInv'
<1>. SUFFICES ASSUME UpgradeInv, [Next]_vars PROVE UpgradeInv'
  OBVIOUS
<1>. USE DEF UpgradeInv
<1>1. CASE UNCHANGED vars
  BY <1>1 DEF vars, TypeOK, StoreInv, Jobs, Applies, KeyPair, Half, Usable, Exist,
              CommandsTakeEffect, ServeInv, Ties, Sockets, Open, Chain, Succeeds,
              Faultless, Lively
<1>2. ASSUME NEW p \in Proc, StoreStep(p), UNCHANGED <<family, server, client, fault>>
      PROVE  UpgradeInv'
  BY <1>2, StoreStepTypeOK, StoreStepJobs, StoreStepKeyPair, StoreStepEffect,
     StoreStepServeInv DEF StoreInv
<1>3. ASSUME NEW p \in Proc,
             \/ Start(p) \/ Crash(p) \/ Fails(p) \/ CreateListenerAndRun(p)
             \/ ReuseListenerAndRun(p) \/ Kill(p) \/ CheckAlive(p) \/ Stop(p)
             \/ Closed(p) \/ AcceptorStops(p)
      PROVE  UpgradeInv'
  BY <1>3, ProcessTypeOK, ProcessKeepsStoreInv, ProcessKeepsServeInv
     DEF StoreInv, ServeInv
<1>4. ASSUME NEW c \in Conn,
             \/ Client(c) \/ RestartAgain(c)
             \/ \E q \in Proc : Restart(c, q) \/ Accept(c, q)
      PROVE  UpgradeInv'
  BY <1>4, ConnectionTypeOK, ConnectionKeepsStoreInv, ConnectionKeepsServeInv
     DEF StoreInv, ServeInv
<1>. QED
  BY <1>1, <1>2, <1>3, <1>4 DEF Next, Runs, Accepts

LEMMA UpgradeInvariant == Spec => []UpgradeInv
<1>1. Init => UpgradeInv
  BY InitTypeOK, InitStoreInv, InitServeInv DEF UpgradeInv
<1>. QED
  BY <1>1, StepKeepsUpgradeInv, PTL DEF Spec

\* All processes, files, certificates and connections are well typed.
THEOREM UpgradeTypeCorrect == Spec => []TypeOK
<1>1. UpgradeInv => TypeOK
  BY DEF UpgradeInv
<1>. QED
  BY <1>1, UpgradeInvariant, PTL

\* A server finds a key pair it can load, whatever processes have crashed.
THEOREM PairIsUsable == Spec => []PairUsable
<1>1. UpgradeInv => PairUsable
  BY DEF UpgradeInv, StoreInv, KeyPair, Exist, Past, PairUsable, Command
<1>. QED
  BY <1>1, UpgradeInvariant, PTL

\* Commands take effect once, although they use two transactions.
THEOREM StoreKeepsCount == Spec => []CommandsTakeEffect
<1>1. UpgradeInv => CommandsTakeEffect
  BY DEF UpgradeInv, StoreInv
<1>. QED
  BY <1>1, UpgradeInvariant, PTL

\* Two processes that serve are parent and successor.
THEOREM ServersAreOneFamily == Spec => []OneFamily
<1>1. UpgradeInv => OneFamily
  BY DEF UpgradeInv, ServeInv, Sockets, Chain, Succeeds, OneFamily, Serves
<1>. QED
  BY <1>1, UpgradeInvariant, PTL

-----------------------------------------------------------------------------
(***************************************************************************)
(* The refinement of Service.                                              *)
(***************************************************************************)

\* The end of a process is a fault, or invisible to clients.
LEMMA ExitRefines ==
  ASSUME TypeOK, ServeInv, NEW p \in Proc, Exits(p), fault => fault',
         ~ fault' => ~ Lively(p) /\ \A c \in Conn : Open(c) => at[c] # p
  PROVE  svc!Fault \/ UNCHANGED svc!vars
<1>. USE DEF TypeOK, svc!Fault, svc!vars
<1>1. bound' = bound \ {p} /\ conn' = Cut(p)
  BY DEF Exits
<1>2. CASE fault'
  BY <1>1, <1>2 DEF Cut
<1>3. CASE ~ fault'
  <2>1. bound # {} => \E q \in bound : q # p
    BY <1>3 DEF ServeInv, Faultless, Sockets, Lively, Serving
  <2>2. \A c \in Conn : conn[c] = "waiting" => bound # {}
    BY DEF ServeInv, Sockets
  <2>3. Cut(p) = conn
    BY <1>3, <2>1, <2>2 DEF Cut
  <2>4. (bound' # {}) = (bound # {})
    <3>1. bound' # {} <=> bound # {}
      BY <1>1, <2>1
    <3>. QED
      BY <3>1
  <2>5. fault = FALSE /\ fault' = FALSE
    BY <1>3
  <2>. QED
    BY <1>1, <2>3, <2>4, <2>5
<1>. QED
  BY <1>2, <1>3

LEMMA ProcessRefines ==
  ASSUME TypeOK, ServeInv, NEW p \in Proc,
         \/ Start(p) \/ Crash(p) \/ Fails(p) \/ CreateListenerAndRun(p)
         \/ ReuseListenerAndRun(p) \/ Kill(p) \/ CheckAlive(p) \/ Stop(p)
         \/ Closed(p) \/ AcceptorStops(p)
  PROVE  [svc!Next]_svc!vars
<1>. USE DEF svc!Next, svc!vars, client, server
<1>1. CASE Start(p) \/ CheckAlive(p)
  BY <1>1 DEF Start, CheckAlive
<1>2. CASE Crash(p)
  BY <1>2, ExitRefines DEF Crash, ServeInv, Sockets, Lively, Serving, Ended, TypeOK
<1>3. CASE Fails(p)
  BY <1>3, ExitRefines
     DEF Fails, ServeInv, Sockets, Faultless, Lively, Serving, Rising, Ties
<1>4. CASE Closed(p)
  BY <1>4, ExitRefines DEF Closed, Drained, Lively
<1>5. CASE CreateListenerAndRun(p)
  BY <1>5 DEF CreateListenerAndRun, svc!ComesUp
<1>6. CASE ReuseListenerAndRun(p) \/ Kill(p) \/ AcceptorStops(p)
  BY <1>6 DEF ReuseListenerAndRun, Kill, AcceptorStops
<1>7. CASE Stop(p)
  BY <1>7 DEF Stop, svc!Fault, TypeOK
<1>. QED
  BY <1>1, <1>2, <1>3, <1>4, <1>5, <1>6, <1>7

LEMMA ConnectionRefines ==
  ASSUME TypeOK, NEW c \in Conn,
         \/ Client(c) \/ RestartAgain(c)
         \/ \E q \in Proc : Restart(c, q) \/ Accept(c, q)
  PROVE  [svc!Next]_svc!vars
<1>. USE DEF svc!Next, svc!vars, Becomes, svc!Becomes, others, server, client
<1>1. CASE Connect(c)
  BY <1>1 DEF Connect, svc!Connect
<1>2. CASE \E q \in Proc : Accept(c, q)
  BY <1>2 DEF Accept, svc!Serve
<1>3. CASE Ask(c)
  BY <1>3 DEF Ask, svc!Ask
<1>4. CASE Answer(c)
  BY <1>4 DEF Answer, svc!Answer
<1>5. CASE Leave(c)
  BY <1>5 DEF Leave, svc!Leave
<1>6. CASE Lose(c) \/ RestartAgain(c)
  BY <1>6 DEF Lose, RestartAgain, svc!Fault, TypeOK
<1>7. ASSUME NEW q \in Proc, Restart(c, q) PROVE svc!ComesUp
  BY <1>7 DEF Restart, svc!ComesUp
<1>. QED
  BY <1>1, <1>2, <1>3, <1>4, <1>5, <1>6, <1>7 DEF Client

\* Whatever processes the server of a machine consists of, it is up once it
\* has come up, and connections are served, until there is a fault.
THEOREM UpgradeImplementsService == Spec => ServiceGoesOn
<1>1. Init => svc!Init
  BY DEF Init, svc!Init
<1>2. UpgradeInv /\ [Next]_vars => [svc!Next]_svc!vars
  <2>. SUFFICES ASSUME UpgradeInv, [Next]_vars PROVE [svc!Next]_svc!vars
    OBVIOUS
  <2>1. CASE UNCHANGED vars
    BY <2>1 DEF vars, svc!vars
  <2>2. ASSUME NEW p \in Proc, StoreStep(p), UNCHANGED <<family, server, client, fault>>
        PROVE  UNCHANGED svc!vars
    BY <2>2 DEF server, client, svc!vars
  <2>. QED
    BY <2>1, <2>2, ProcessRefines, ConnectionRefines
       DEF Next, Runs, Accepts, UpgradeInv
<1>. QED
  BY <1>1, <1>2, UpgradeInvariant, PTL DEF Spec, ServiceGoesOn, svc!Spec

-----------------------------------------------------------------------------
(***************************************************************************)
(* Who waits for whom.                                                     *)
(***************************************************************************)

\* The processes with the socket are a line of successors, so that one at most
\* has not forked; a process that has forked has closed the store and been a
\* server; an acceptor ends only when its tomb is dying.
Line ==
  /\ \A p, q \in bound : p \notin forked /\ q \notin forked => p = q
  /\ \A p \in forked : pc[p] \in {"wait", "closing", "exited"}
  /\ \A p \in Proc :
       lock = p => p \notin forked /\ pc[p] \in Command \union {"load"} \union Serving
  /\ \A p \in Proc : acceptor[p] = "done" => p \in dying

LEMMA StoreStepKeepsLine ==
  ASSUME UpgradeInv, Line, NEW p \in Proc, StoreStep(p),
         UNCHANGED <<family, server, client, fault>>
  PROVE  Line'
<1>1. /\ UNCHANGED <<forked, bound, acceptor, dying>>
      /\ \A q \in Proc : q # p => pc'[q] = pc[q]
      /\ pc[p] \in {"check", "open"} \union Generating \union Command
      /\ \/ lock' = lock /\ pc[p] \notin Command
            /\ pc'[p] \in {"open"} \union Generating
         \/ lock = Nobody /\ lock' = p /\ pc[p] = "open" /\ pc'[p] \in {"load", "lookup"}
         \/ pc[p] = "lookup" /\ lock' = lock /\ pc'[p] = "write"
         \/ pc[p] \in Command /\ lock' = Released(p) /\ pc'[p] = "exited"
  BY DEF StoreStep, EnsureCert, GenerateCert, NewStore, Unlocked, Lookup, Write, At, Ends,
         store, family, server, UpgradeInv, TypeOK, Generating, Command
<1>2. p \notin forked
  BY <1>1 DEF Line, Generating, Command
<1>3. lock \in Proc \union {Nobody} /\ Nobody \notin Proc /\ forked \subseteq Proc
  BY StoreAssumption DEF UpgradeInv, TypeOK
<1>. QED
  BY <1>1, <1>2, <1>3 DEF Line, Released, Generating, Command, Serving

LEMMA ExitKeepsLine ==
  ASSUME UpgradeInv, Line, NEW p \in Proc, Exits(p)
  PROVE  Line'
<1>1. /\ pc' = [pc EXCEPT ![p] = "exited"]
      /\ bound' = bound \ {p}
      /\ acceptor' = [acceptor EXCEPT ![p] = "none"]
      /\ dying' = dying \ {p}
      /\ lock' = Released(p)
      /\ forked' = forked
  BY DEF Exits, Ends, family
<1>2. lock \in Proc \union {Nobody} /\ Nobody \notin Proc
  BY StoreAssumption DEF UpgradeInv, TypeOK
<1>. QED
  BY <1>1, <1>2 DEF UpgradeInv, TypeOK, Line, Released

LEMMA ProcessKeepsLine ==
  ASSUME UpgradeInv, Line, NEW p \in Proc,
         \/ Start(p) \/ Crash(p) \/ Fails(p) \/ CreateListenerAndRun(p)
         \/ ReuseListenerAndRun(p) \/ Kill(p) \/ CheckAlive(p) \/ Stop(p)
         \/ Closed(p) \/ AcceptorStops(p)
  PROVE  Line'
<1>. USE DEF UpgradeInv, TypeOK, Serving, At, family, server, store
<1>1. CASE Start(p)
  <2>1. /\ pc[p] = "none" /\ pc' = [pc EXCEPT ![p] = "check"]
        /\ UNCHANGED <<forked, bound, acceptor, dying, lock>>
    BY <1>1 DEF Start, Begins
  <2>. QED
    BY <2>1 DEF Line, Command
<1>2. CASE Crash(p) \/ Fails(p) \/ Closed(p)
  BY <1>2, ExitKeepsLine DEF Crash, Fails, Closed
<1>3. CASE CreateListenerAndRun(p)
  <2>1. /\ pc[p] = "load" /\ bound' = {p}
        /\ pc' = [pc EXCEPT ![p] = "alive"]
        /\ acceptor' = [acceptor EXCEPT ![p] = "on"]
        /\ UNCHANGED <<forked, dying, lock>>
    BY <1>3 DEF CreateListenerAndRun
  <2>. QED
    BY <2>1 DEF Line
<1>4. CASE ReuseListenerAndRun(p)
  <2>1. /\ pc[p] = "load"
        /\ pc' = [pc EXCEPT ![p] = "kill"]
        /\ acceptor' = [acceptor EXCEPT ![p] = "on"]
        /\ UNCHANGED <<forked, bound, dying, lock>>
    BY <1>4 DEF ReuseListenerAndRun, Resumed
  <2>. QED
    BY <2>1 DEF Line
<1>5. CASE Kill(p)
  <2>. DEFINE q == parent[p]
  <2>1. /\ pc[p] = "kill" /\ q \in Proc /\ q # p /\ pc[q] \in {"wait", "closing"}
        /\ pc' = [pc EXCEPT ![p] = "alive", ![q] = "closing"]
        /\ dying' = dying \union {q}
        /\ UNCHANGED <<forked, bound, acceptor, lock>>
    BY <1>5 DEF Kill, ServeInv, Ties
  <2>. HIDE DEF q
  <2>. QED
    BY <2>1 DEF Line
<1>6. CASE CheckAlive(p) \/ Stop(p)
  <2>1. /\ pc[p] \in {"alive", "wait"}
        /\ \/ pc' = [pc EXCEPT ![p] = "wait"] /\ dying' = dying
           \/ pc' = [pc EXCEPT ![p] = "closing"] /\ dying' = dying \union {p}
        /\ UNCHANGED <<forked, bound, acceptor, lock>>
    BY <1>6 DEF CheckAlive, Stop
  <2>. QED
    BY <2>1 DEF Line
<1>7. CASE AcceptorStops(p)
  BY <1>7 DEF AcceptorStops, Line
<1>. QED
  BY <1>1, <1>2, <1>3, <1>4, <1>5, <1>6, <1>7

LEMMA ConnectionKeepsLine ==
  ASSUME UpgradeInv, Line, NEW c \in Conn,
         \/ Client(c) \/ RestartAgain(c)
         \/ \E q \in Proc : Restart(c, q) \/ Accept(c, q)
  PROVE  Line'
<1>. USE DEF UpgradeInv, TypeOK, Serving, At, family, server, store
<1>1. CASE Client(c) \/ \E q \in Proc : Accept(c, q)
  <2>1. UNCHANGED <<pc, forked, bound, acceptor, lock>> /\ dying \subseteq dying'
    BY <1>1 DEF Client, Connect, Ask, Answer, Leave, Lose, Accept, Becomes, others
  <2>. QED
    BY <2>1 DEF Line
<1>2. CASE RestartAgain(c)
  <2>. DEFINE p == at[c]
  <2>1. /\ p \in Proc /\ pc[p] = "wait"
        /\ pc' = [pc EXCEPT ![p] = "closing"] /\ dying' = dying \union {p}
        /\ UNCHANGED <<forked, bound, acceptor, lock>>
    BY <1>2 DEF RestartAgain, ServeInv, Sockets, Open
  <2>. HIDE DEF p
  <2>. QED
    BY <2>1 DEF Line
<1>3. ASSUME NEW q \in Proc, Restart(c, q) PROVE Line'
  <2>. DEFINE p == at[c]
  <2>0. /\ conn[c] = "asked" /\ pc[p] = "wait" /\ p \notin forked
        /\ pc[q] = "none" /\ pc' = [pc EXCEPT ![q] = "check"]
        /\ forked' = forked \union {p} /\ bound' = bound \union {q}
        /\ lock' = BeforeFork(p)
        /\ UNCHANGED <<acceptor, dying>>
    BY <1>3 DEF Restart, Begins
  <2>1. /\ p \in Proc /\ p \in bound /\ p # q /\ q \notin bound
        /\ lock' = IF lock = p THEN Nobody ELSE lock
    <3>1. p \in Proc /\ pc[p] \in Serving
      BY <2>0 DEF ServeInv, Sockets, Open
    <3>2. p \in bound /\ q \notin bound
      BY <2>0, <3>1 DEF ServeInv, Sockets, Rising, Generating
    <3>. QED
      BY <2>0, <3>1, <3>2 DEF BeforeFork, Released
  <2>2. lock \in Proc \union {Nobody} /\ Nobody \notin Proc
    BY StoreAssumption
  <2>. HIDE DEF p
  <2>3. \A r, s \in bound' : r \notin forked' /\ s \notin forked' => r = s
    BY <2>0, <2>1 DEF Line
  <2>4. \A r \in forked' : pc'[r] \in {"wait", "closing", "exited"}
    BY <2>0, <2>1 DEF Line
  <2>5. \A r \in Proc :
          lock' = r => /\ r \notin forked'
                       /\ pc'[r] \in Command \union {"load"} \union Serving
    BY <2>0, <2>1, <2>2 DEF Line, Command
  <2>6. \A r \in Proc : acceptor'[r] = "done" => r \in dying'
    BY <2>0, <2>1 DEF Line
  <2>. QED
    BY <2>3, <2>4, <2>5, <2>6 DEF Line
<1>. QED
  BY <1>1, <1>2, <1>3

LEMMA LineInvariant == Spec => [](UpgradeInv /\ Line)
<1>1. Init => Line
  BY StoreAssumption DEF Init, Line
<1>2. UpgradeInv /\ Line /\ [Next]_vars => Line'
  <2>. SUFFICES ASSUME UpgradeInv, Line, [Next]_vars PROVE Line'
    OBVIOUS
  <2>1. CASE UNCHANGED vars
    BY <2>1 DEF vars, Line
  <2>2. ASSUME NEW p \in Proc, StoreStep(p), UNCHANGED <<family, server, client, fault>>
        PROVE  Line'
    BY <2>2, StoreStepKeepsLine
  <2>3. ASSUME NEW p \in Proc,
               \/ Start(p) \/ Crash(p) \/ Fails(p) \/ CreateListenerAndRun(p)
               \/ ReuseListenerAndRun(p) \/ Kill(p) \/ CheckAlive(p) \/ Stop(p)
               \/ Closed(p) \/ AcceptorStops(p)
        PROVE  Line'
    BY <2>3, ProcessKeepsLine
  <2>4. ASSUME NEW c \in Conn,
               \/ Client(c) \/ RestartAgain(c)
               \/ \E q \in Proc : Restart(c, q) \/ Accept(c, q)
        PROVE  Line'
    BY <2>4, ConnectionKeepsLine
  <2>. QED
    BY <2>1, <2>2, <2>3, <2>4 DEF Next, Runs, Accepts
<1>. QED
  BY <1>1, <1>2, UpgradeInvariant, PTL DEF Spec

\* Nothing keeps a process that has its own way to go: it is not waiting for
\* the lock of the store or for its parent, and is not a server that waits for
\* signals or connections.  This is the condition of Runs(p).
Unhindered(p) ==
  \/ pc[p] \in Starting \union {"alive"}
  \/ pc[p] = "open" /\ Unlocked
  \/ pc[p] = "kill" /\ pc[parent[p]] \in {"wait", "closing", "exited"}

\* A successor is never kept from taking over by a server, its parent least of
\* all: if it waits for the store then for a process that has just opened it,
\* has not got the socket and will end or give up by itself (context.go closes
\* the store before goagain forks, and listenTCP refuses a second listener).
THEOREM SuccessorsGoOn ==
  Spec => [](\A p \in Proc : Coming(p) =>
               \/ Unhindered(p)
               \/ lock \in Proc \ bound /\ Unhindered(lock))
<1>1. ASSUME UpgradeInv, Line, NEW p \in Proc, Coming(p), ~ Unhindered(p)
      PROVE  lock \in Proc \ bound /\ Unhindered(lock)
  <2>1. /\ parent[p] # Nobody /\ lock \in Proc \union {Nobody}
        /\ pc[p] \in {"open", "kill"}
    BY <1>1 DEF Coming, Unhindered, UpgradeInv, TypeOK
  <2>2. pc[p] # "kill"
    BY <1>1, <2>1 DEF UpgradeInv, ServeInv, Ties, Line, Unhindered
  <2>3. pc[p] = "open" /\ lock \in Proc /\ p \in bound
    BY <1>1, <2>1, <2>2 DEF Unhindered, Unlocked, UpgradeInv, ServeInv, Ties, Rising
  <2>. DEFINE q == lock
  <2>4. q \in Proc /\ q \notin forked /\ pc[q] \in Command \union {"load"} \union Serving
    BY <1>1, <2>3 DEF Line
  <2>5. p \notin forked /\ p # q
    BY <1>1, <2>3, <2>4 DEF Line, Command, Serving
  <2>6. q \notin bound
    BY <1>1, <2>3, <2>4, <2>5 DEF Line
  <2>7. pc[q] \in Command \union {"load"}
    BY <1>1, <2>4, <2>6 DEF UpgradeInv, ServeInv, Sockets
  <2>. QED
    BY <2>4, <2>6, <2>7 DEF Unhindered, Starting
<1>2. UpgradeInv /\ Line =>
        \A p \in Proc : Coming(p) =>
          \/ Unhindered(p)
          \/ lock \in Proc \ bound /\ Unhindered(lock)
  BY <1>1
<1>. QED
  BY <1>2, LineInvariant, PTL

\* At every moment of an upgrade without a fault there is a goroutine that
\* accepts the connections that wait at the socket.
THEOREM ConnectionsAreAwaited ==
  Spec => [](~ fault => \A c \in Conn :
               conn[c] = "waiting" => \E p \in Proc : acceptor[p] = "on" /\ p \notin dying)
<1>1. ASSUME UpgradeInv, Line, ~ fault, NEW c \in Conn, conn[c] = "waiting"
      PROVE  \E p \in Proc : acceptor[p] = "on" /\ p \notin dying
  <2>1. bound # {}
    BY <1>1 DEF UpgradeInv, ServeInv, Sockets
  <2>2. PICK p \in Proc : pc[p] \in {"alive", "wait"}
    BY <1>1, <2>1 DEF UpgradeInv, ServeInv, Faultless, Lively
  <2>3. p \notin dying
    BY <1>1, <2>2 DEF UpgradeInv, ServeInv, Faultless
  <2>4. acceptor[p] \in {"on", "done"}
    BY <1>1, <2>2 DEF UpgradeInv, TypeOK, ServeInv, Sockets, Serving
  <2>. QED
    BY <1>1, <2>3, <2>4 DEF Line
<1>2. UpgradeInv /\ Line =>
        (~ fault => \A c \in Conn :
           conn[c] = "waiting" => \E p \in Proc : acceptor[p] = "on" /\ p \notin dying)
  BY <1>1
<1>. QED
  BY <1>2, LineInvariant, PTL
=============================================================================
