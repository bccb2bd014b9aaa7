----------------------------- MODULE DataStore -----------------------------
(***************************************************************************)
(* What llconf processes of one user share on disk: the key pair of the    *)
(* server, which the first process that needs it generates, and the store  *)
(* of client certificates, a bolt file that one process at a time has      *)
(* open.  The processes are "server run", "server cert add" and "server    *)
(* cert rm"; each is a process with a new number.  This module has them up *)
(* to where a command ends or a server has the store open; Upgrade goes on.*)
(*                                                                         *)
(* A file is absent, empty (WriteFile has truncated it), old, or is given  *)
(* by the process that generated it.  The client has the same code for its *)
(* own files.                                                              *)
(***************************************************************************)
EXTENDS Naturals, FiniteSets

CONSTANTS
  Proc,       \* processes, by number
  Nobody,     \* no process
  Absent, Empty, Old,  \* contents of a file that no process of these wrote
  Id,         \* ids of client certificates
  Initially   \* the ids stored in the beginning

ASSUME StoreAssumption ==
  /\ Proc \subseteq Nat /\ IsFiniteSet(Proc)
  /\ {Nobody, Absent, Empty, Old} \cap Proc = {}
  /\ Absent # Empty /\ Old \notin {Absent, Empty}
  /\ Initially \subseteq Id

VARIABLES
  pc,         \* process -> where its main goroutine is
  job,        \* process -> the command it runs
  id,         \* process -> the id it was given
  keyFile,    \* server.privkey.pem
  certFile,   \* server.cert.pem
  spoiled,    \* history: the pair was generated twice at once, or half
  lock,       \* the process that has the bolt file open
  stored,     \* the ids in the store
  added,      \* history: id -> how often "cert add" succeeded
  removed     \* history: id -> how often "cert rm" did

pair    == <<keyFile, certFile, spoiled>>
store   == <<lock, stored, added, removed>>
command == <<job, id>>

Job     == {"none", "run", "add", "rm"}
Content == {Absent, Empty, Old} \union Proc

Generating == {"openKey", "writeKey", "openCert", "writeCert"}
Command    == {"lookup", "write"}
Starting   == {"check", "load"} \union Generating \union Command

At(p, from, to) == pc[p] = from /\ pc' = [pc EXCEPT ![p] = to]

\* The end of a process, which closes the store if it had that open.
Released(p) == IF lock = p THEN Nobody ELSE lock
Ends(p) ==
  /\ pc' = [pc EXCEPT ![p] = "exited"]
  /\ job' = [job EXCEPT ![p] = "none"]
  /\ id' = [id EXCEPT ![p] = Nobody]
  /\ lock' = Released(p)

\* A new process gets the next number.
Begins(p) ==
  /\ \A q \in Proc : q < p => pc[q] # "none"
  /\ At(p, "none", "check")

\* The contents that a server is able to load.
Usable(key, cert) == key = cert /\ key \notin {Absent, Empty}

-----------------------------------------------------------------------------
(***************************************************************************)
(* ensureServerCert: before the store is opened, so under no lock.         *)
(***************************************************************************)

\* Files are never removed, so the two tests of the code are as good as one.
Exist_KeyOnly == keyFile # Absent
Exist == keyFile # Absent /\ certFile # Absent

EnsureCert(p) ==
  /\ At(p, "check", IF Exist THEN "open" ELSE "openKey")
  /\ UNCHANGED <<command, keyFile, certFile, store>>
  /\ spoiled' = (spoiled \/ (~ Exist /\ \E q \in Proc \ {p} : pc[q] \in Generating))

\* generateCert writes the key, then the certificate; each WriteFile
\* truncates or creates the file first.
GenerateCert(p) ==
  /\ \/ At(p, "openKey", "writeKey") /\ keyFile' = Empty /\ UNCHANGED certFile
     \/ At(p, "writeKey", "openCert") /\ keyFile' = p /\ UNCHANGED certFile
     \/ At(p, "openCert", "writeCert") /\ certFile' = Empty /\ UNCHANGED keyFile
     \/ At(p, "writeCert", "open") /\ certFile' = p /\ UNCHANGED keyFile
  /\ UNCHANGED <<command, spoiled, store>>

-----------------------------------------------------------------------------
(***************************************************************************)
(* store.New, StoreCert and RemoveCert.                                    *)
(***************************************************************************)

\* bolt.Open waits for the lock on the file, without a limit.
Unlocked_Shared == TRUE
Unlocked == lock = Nobody

NewStore(p) ==
  /\ Unlocked
  /\ At(p, "open", IF job[p] = "run" THEN "load" ELSE "lookup")
  /\ lock' = p
  /\ UNCHANGED <<command, pair, stored, added, removed>>

\* An error of Pool: the store has no certificate.
NoCerts == stored = {}

\* Get, in a transaction of its own.  StoreCert wants the id to be new and
\* RemoveCert wants it there; otherwise the command ends with an error.
Applies(p) == IF job[p] = "add" THEN id[p] \notin stored ELSE id[p] \in stored

Lookup(p) ==
  /\ pc[p] = "lookup"
  /\ IF Applies(p) THEN At(p, "lookup", "write") /\ UNCHANGED <<command, lock>>
                   ELSE Ends(p)
  /\ UNCHANGED <<pair, stored, added, removed>>

\* Put or Delete in another; then the deferred Close and the end.
Put(p) ==
  /\ job[p] = "add"
  /\ stored' = stored \union {id[p]}
  /\ added' = [added EXCEPT ![id[p]] = @ + 1]
  /\ UNCHANGED removed

Delete(p) ==
  /\ job[p] = "rm"
  /\ stored' = stored \ {id[p]}
  /\ removed' = [removed EXCEPT ![id[p]] = @ + 1]
  /\ UNCHANGED added

Write(p) ==
  /\ pc[p] = "write"
  /\ Put(p) \/ Delete(p)
  /\ Ends(p)
  /\ UNCHANGED pair

StoreStep(p) ==
  EnsureCert(p) \/ GenerateCert(p) \/ NewStore(p) \/ Lookup(p) \/ Write(p)

-----------------------------------------------------------------------------
(***************************************************************************)
(* Properties.                                                             *)
(***************************************************************************)

\* Once a process has seen to it that the pair exists, and none is generating
\* it, a server can load it: also when an earlier process crashed half-way,
\* unless it left the certificate truncated, or two generated it at once.
PairUsable ==
  (~ spoiled /\ \A p \in Proc : pc[p] \notin Generating) =>
    ((\E p \in Proc : pc[p] \in {"open", "load"} \union Command) =>
       Usable(keyFile, certFile))

\* Every "cert add" and "cert rm" that succeeded took effect, once, although
\* it looks the id up and changes it in two transactions; a command that was
\* refused or killed changed nothing.
Count(b) == IF b THEN 1 ELSE 0
CommandsTakeEffect ==
  \A i \in Id :
    Count(i \in Initially) + added[i] = Count(i \in stored) + removed[i]
=============================================================================
