------------------------- MODULE ExecCommandProofs -------------------------
(***************************************************************************)
(* Proofs about ExecCommand, for every number of executions, whatever they *)
(* write and however large a kernel pipe is.                               *)
(***************************************************************************)
EXTENDS ExecCommand, Functions, SequenceTheorems, FiniteSetTheorems, TLAPS

-----------------------------------------------------------------------------
(***************************************************************************)
(* One execution at a time.                                                *)
(***************************************************************************)

\* An execution that has not begun, and one that is over.
Fresh(e) == child[e] = "none" /\ ~ readEnd[e] /\ watchdog[e] = "none"
Over(e)  == child[e] = "exited" /\ ~ readEnd[e] /\ watchdog[e] = "gone"

Phase ==
  /\ pc # "idle" => now > 0
  /\ \A e \in Exec :
       /\ e > now => Fresh(e)
       /\ e < now \/ (e = now /\ pc = "idle") => Over(e)
       /\ e = now =>
            /\ pc \in {"output", "panic", "aborted"} => child[e] = "none" /\ ~ readEnd[e]
            /\ pc = "start" => child[e] = "none" /\ readEnd[e]
            /\ pc = "wait" => child[e] \in {"running", "exited"} /\ readEnd[e]
            /\ pc \in {"waitOutput", "account", "return"} =>
                 child[e] = "exited" /\ ~ readEnd[e]
            /\ pc = "aborted" => watchdog[e] = "gone"

LEMMA PhaseGives ==
  ASSUME TypeOK, Phase
  PROVE  OneAtATime
<1> SUFFICES ASSUME NEW e \in Exec
             PROVE  /\ e < now => child[e] = "exited" /\ ~ readEnd[e] /\ watchdog[e] = "gone"
                    /\ watchdog[e] = "waiting" => e = now /\ pc \notin {"idle", "aborted"}
  BY DEF OneAtATime
<1>1. e \in Nat /\ now \in Nat
  BY ExecAssumption DEF TypeOK, Exec
<1>2. CASE e < now
  BY <1>1, <1>2 DEF Phase, Over
<1>3. CASE e > now
  BY <1>1, <1>3 DEF Phase, Fresh
<1>4. CASE e = now
  BY <1>4 DEF Phase, Over, TypeOK
<1> QED BY <1>1, <1>2, <1>3, <1>4

\* Changing one entry of a table of tables.
LEMMA TableKept ==
  ASSUME NEW V, NEW f \in [Exec -> [Stream -> V]], NEW e \in Exec, NEW s \in Stream,
         NEW v \in V
  PROVE  /\ [f EXCEPT ![e][s] = v] \in [Exec -> [Stream -> V]]
         /\ \A d \in Exec : \A t \in Stream :
              [f EXCEPT ![e][s] = v][d][t] = IF d = e /\ t = s THEN v ELSE f[d][t]
OBVIOUS

CopierState == {"none", "scan", "grow", "copy", "drain", "done", "panicked"}

LEMMA CopierTyped ==
  ASSUME TypeOK PROVE copier \in [Exec -> [Stream -> CopierState]]
BY DEF TypeOK, CopierState

\* What no copier touches.
LEMMA CopierStays ==
  ASSUME NEW e \in Exec, NEW s \in Stream, Copier(e, s)
  PROVE  /\ now' = now /\ pc' = pc /\ child' = child /\ written' = written
         /\ readEnd' = readEnd /\ late' = late /\ watchdog' = watchdog
BY DEF Copier, CopierScans, CopierDrains, CopierEnds, CopierGrows, CopierCopies, process

\* A longer array begins with what the buffer had, and lines go where there is
\* room for them.
LEMMA GrownFacts ==
  ASSUME NEW q \in Seq(Cell), NEW m \in Nat, NEW n \in Nat
  PROVE  /\ Grown(q, m, n) \in Seq(Cell)
         /\ Len(Grown(q, m, n)) = 2 * Len(q) + n
         /\ \A i \in 1 .. Len(q) : i <= m => Grown(q, m, n)[i] = q[i]
<1>1. 2 * Len(q) + n \in Nat /\ Len(q) \in Nat /\ 1 .. Len(q) \subseteq 1 .. 2 * Len(q) + n
  OBVIOUS
<1>2. Zero \in Cell
  BY DEF Cell
<1>3. \A i \in 1 .. 2 * Len(q) + n :
        (IF i <= m /\ i <= Len(q) THEN q[i] ELSE Zero) \in Cell
  BY <1>2
<1> QED BY <1>1, <1>3 DEF Grown

LEMMA FilledFacts ==
  ASSUME NEW q \in Seq(Cell), NEW from \in Nat, NEW room \in Int, NEW lines \in Seq(Line)
  PROVE  Filled(q, from, room, lines) \in Seq(Cell) /\ Len(Filled(q, from, room, lines)) = Len(q)
<1>1. \A i \in 1 .. Len(q) :
        (IF i - from \in 1 .. Len(lines) /\ i - from <= room THEN lines[i - from] ELSE q[i]) \in Cell
  BY DEF Cell
<1>2. Len(q) \in Nat
  OBVIOUS
<1> QED BY <1>1, <1>2 DEF Filled

\* The steps that type correctness and the phases are about.
LEMMA TypeKept ==
  ASSUME TypeOK, Phase, [Next]_vars
  PROVE  TypeOK'
<1>0. Execs \in Nat /\ now \in 0 .. Execs /\ (pc # "idle" => now \in Exec)
  BY ExecAssumption DEF TypeOK, Phase, Exec
<1>1. CASE Enter
  BY <1>0, <1>1 DEF TypeOK, Enter, process, output, Exec
<1>2. CASE ProcessOutput
  <2>0. /\ length' = [s \in Stream |-> 0] /\ pc' \in {"start", "panic"}
        /\ late' = [s \in Stream |-> \E e \in Exec : Copying(e, s)]
        /\ readEnd' = readEnd \/ readEnd' = [readEnd EXCEPT ![now] = TRUE]
        /\ copier' = copier \/ copier' = [copier EXCEPT ![now] = [s \in Stream |-> "scan"]]
    BY <1>2 DEF ProcessOutput, Reset
  <2>1. /\ readEnd' \in [Exec -> BOOLEAN] /\ length' \in [Stream -> Nat]
        /\ late' \in [Stream -> BOOLEAN]
    BY <2>0 DEF TypeOK
  <2>2. copier' \in [Exec -> [Stream -> CopierState]]
    <3>1. [s \in Stream |-> "scan"] \in [Stream -> CopierState]
      BY DEF CopierState
    <3>2. copier \in [Exec -> [Stream -> CopierState]]
      BY CopierTyped
    <3> QED BY <2>0, <3>1, <3>2
  <2> QED BY <1>2, <2>0, <2>1, <2>2 DEF TypeOK, CopierState, ProcessOutput, process
<1>3. CASE StartChild \/ WaitChild
  BY <1>0, <1>3 DEF TypeOK, StartChild, WaitChild, process, buffer
<1>4. CASE WaitOutput \/ Account \/ Leave
  BY <1>0, <1>4 DEF TypeOK, WaitOutput, Account, Logged, Leave, process, output
<1>5. ASSUME NEW e \in Exec, Child(e) PROVE TypeOK'
  <2>1. CASE ChildWrites(e)
    <3> DEFINE no == written[e] + 1
               s == Writes[e][no]
               l == [exec |-> e, no |-> no]
    <3>1. /\ written[e] < Len(Writes[e])
          /\ pipe' = [pipe EXCEPT ![e][s] = Append(@, l)]
          /\ written' = [written EXCEPT ![e] = no]
          /\ UNCHANGED <<now, pc, child, readEnd, copier, held, base, array, length, late,
                         watchdog>>
      BY <2>1 DEF ChildWrites, buffer
    <3>2. written[e] \in Nat /\ no \in Nat /\ l \in Line
      BY DEF TypeOK, Line
    <3>3. s \in Stream
      BY <3>1, <3>2, ExecAssumption
    <3> HIDE DEF no, s, l
    <3>4. pipe' \in [Exec -> [Stream -> Seq(Line)]]
      BY <3>1, <3>2, <3>3 DEF TypeOK
    <3> QED BY <3>1, <3>2, <3>4 DEF TypeOK
  <2>2. CASE ChildExits(e)
    BY <2>2 DEF TypeOK, ChildExits, output
  <2> QED BY <1>5, <2>1, <2>2 DEF Child
<1>6. ASSUME NEW e \in Exec, Watchdog(e) PROVE TypeOK'
  BY <1>6 DEF TypeOK, Watchdog, Warn, process, output
<1>7. ASSUME NEW e \in Exec, NEW s \in Stream, Copier(e, s) PROVE TypeOK'
  <2>0. /\ pipe \in [Exec -> [Stream -> Seq(Line)]] /\ held \in [Exec -> [Stream -> Seq(Line)]]
        /\ base \in [Exec -> [Stream -> Nat]] /\ copier \in [Exec -> [Stream -> CopierState]]
        /\ array \in [Stream -> Seq(Cell)] /\ length \in [Stream -> Nat]
        /\ base[e][s] \in Nat /\ length[s] \in Nat /\ array[s] \in Seq(Cell)
        /\ held[e][s] \in Seq(Line)
    BY CopierTyped DEF TypeOK
  <2>a. /\ now' = now /\ pc' = pc /\ child' = child /\ written' = written
        /\ readEnd' = readEnd /\ late' = late /\ watchdog' = watchdog
    BY <1>7, CopierStays
  <2>b. ASSUME NEW c \in CopierState
        PROVE  [copier EXCEPT ![e][s] = c] \in [Exec -> [Stream -> CopierState]]
    BY <2>0, TableKept
  <2>c. ASSUME NEW n \in Nat PROVE [base EXCEPT ![e][s] = n] \in [Exec -> [Stream -> Nat]]
    BY <2>0, TableKept
  <2>d. SUFFICES /\ pipe' \in [Exec -> [Stream -> Seq(Line)]]
                 /\ held' \in [Exec -> [Stream -> Seq(Line)]]
                 /\ base' \in [Exec -> [Stream -> Nat]]
                 /\ copier' \in [Exec -> [Stream -> CopierState]]
                 /\ array' \in [Stream -> Seq(Cell)] /\ length' \in [Stream -> Nat]
    BY <2>a DEF TypeOK, CopierState
  <2>e. /\ "grow" \in CopierState /\ "copy" \in CopierState /\ "scan" \in CopierState
        /\ "drain" \in CopierState /\ "panicked" \in CopierState /\ "done" \in CopierState
    BY DEF CopierState
  <2>1. CASE CopierScans(e, s) \/ CopierDrains(e, s)
    <3>1. /\ pipe[e][s] \in Seq(Line) /\ held[e][s] \in Seq(Line) /\ pipe[e][s] # <<>>
      BY <2>1 DEF TypeOK, CopierScans, CopierDrains, Readable
    <3>2. Tail(pipe[e][s]) \in Seq(Line) /\ Append(held[e][s], Head(pipe[e][s])) \in Seq(Line)
      BY <3>1
    <3>3. /\ pipe' = [pipe EXCEPT ![e][s] = Tail(pipe[e][s])]
          /\ \/ held' = held
             \/ held' = [held EXCEPT ![e][s] = Append(held[e][s], Head(pipe[e][s]))]
          /\ copier' = copier \/ copier' = [copier EXCEPT ![e][s] = "grow"]
          /\ base' = base \/ base' = [base EXCEPT ![e][s] = length[s]]
          /\ array' = array /\ length' = length
      BY <2>1 DEF CopierScans, CopierDrains, buffer
    <3>4. /\ pipe' \in [Exec -> [Stream -> Seq(Line)]]
          /\ held' \in [Exec -> [Stream -> Seq(Line)]]
      <4>1. pipe' \in [Exec -> [Stream -> Seq(Line)]]
        <5> DEFINE q == Tail(pipe[e][s])
        <5>1. q \in Seq(Line) /\ pipe' = [pipe EXCEPT ![e][s] = q]
          BY <3>2, <3>3
        <5> HIDE DEF q
        <5> QED BY <2>0, <5>1
      <4>2. held' \in [Exec -> [Stream -> Seq(Line)]]
        <5> DEFINE h == Append(held[e][s], Head(pipe[e][s]))
        <5>1. h \in Seq(Line) /\ (held' = held \/ held' = [held EXCEPT ![e][s] = h])
          BY <3>2, <3>3
        <5> HIDE DEF h
        <5>2. CASE held' = held
          BY <2>0, <5>2
        <5>3. CASE held' = [held EXCEPT ![e][s] = h]
          BY <2>0, <5>1, <5>3
        <5> QED BY <5>1, <5>2, <5>3
      <4> QED BY <4>1, <4>2
    <3>5. copier' \in [Exec -> [Stream -> CopierState]]
      <4>1. CASE copier' = copier
        BY <2>0, <4>1
      <4>2. CASE copier' = [copier EXCEPT ![e][s] = "grow"]
        BY <2>b, <2>e, <4>2
      <4> QED BY <3>3, <4>1, <4>2
    <3>6. base' \in [Exec -> [Stream -> Nat]]
      BY <2>0, <2>c, <3>3
    <3> QED BY <2>0, <3>3, <3>4, <3>5, <3>6
  <2>2. CASE CopierEnds(e, s)
    <3>1. /\ \/ copier' = [copier EXCEPT ![e][s] = "grow"]
             \/ copier' = [copier EXCEPT ![e][s] = "done"]
          /\ base' = base \/ base' = [base EXCEPT ![e][s] = length[s]]
          /\ array' = array /\ length' = length /\ pipe' = pipe /\ held' = held
      BY <2>2 DEF CopierEnds, buffer
    <3>2. copier' \in [Exec -> [Stream -> CopierState]]
      <4>1. CASE copier' = [copier EXCEPT ![e][s] = "grow"]
        BY <2>b, <2>e, <4>1
      <4>2. CASE copier' = [copier EXCEPT ![e][s] = "done"]
        BY <2>b, <2>e, <4>2
      <4> QED BY <3>1, <4>1, <4>2
    <3>3. base' \in [Exec -> [Stream -> Nat]]
      BY <2>0, <2>c, <3>1
    <3> QED BY <2>0, <3>1, <3>2, <3>3
  <2>3. CASE CopierGrows(e, s)
    <3> DEFINE n == Len(held[e][s])
               grown == Grown(array[s], length[s], n)
    <3>1. /\ copier' = [copier EXCEPT ![e][s] = "copy"]
          /\ base' = base /\ pipe' = pipe /\ held' = held
          /\ array' = array \/ array' = [array EXCEPT ![s] = grown]
          /\ length' = [length EXCEPT ![s] = base[e][s] + n]
      BY <2>3 DEF CopierGrows
    <3>2. n \in Nat
      BY <2>0
    <3>3. grown \in Seq(Cell)
      BY <2>0, <3>2, GrownFacts
    <3> DEFINE top == base[e][s] + n
    <3>5. top \in Nat /\ length' = [length EXCEPT ![s] = top]
      BY <2>0, <3>1, <3>2
    <3> HIDE DEF n, grown, top
    <3>6. length' \in [Stream -> Nat]
      BY <2>0, <3>5
    <3>7. array' \in [Stream -> Seq(Cell)]
      BY <2>0, <3>1, <3>3
    <3>4. array' \in [Stream -> Seq(Cell)] /\ length' \in [Stream -> Nat]
      BY <3>6, <3>7
    <3> QED BY <2>0, <2>b, <2>e, <3>1, <3>4
  <2>4. CASE CopierCopies(e, s)
    <3>1. CASE length[s] - base[e][s] < 0
      <4>1. /\ copier' = [copier EXCEPT ![e][s] = "panicked"] /\ base' = base
            /\ array' = array /\ length' = length /\ pipe' = pipe /\ held' = held
        BY <2>4, <3>1 DEF CopierCopies
      <4> QED BY <2>0, <2>b, <2>e, <4>1
    <3>2. CASE ~ (length[s] - base[e][s] < 0)
      <4>1. /\ array' = [array EXCEPT ![s] =
                  Filled(array[s], base[e][s], length[s] - base[e][s], held[e][s])]
            /\ held' = [held EXCEPT ![e][s] = <<>>]
            /\ \/ copier' = [copier EXCEPT ![e][s] = "scan"]
               \/ copier' = [copier EXCEPT ![e][s] = "drain"]
            /\ base' = [base EXCEPT ![e][s] = 0]
            /\ length' = length /\ pipe' = pipe
        BY <2>4, <3>2 DEF CopierCopies
      <4>2. Filled(array[s], base[e][s], length[s] - base[e][s], held[e][s]) \in Seq(Cell)
        BY <2>0, FilledFacts
      <4>3. array' \in [Stream -> Seq(Cell)]
        BY <2>0, <4>1, <4>2
      <4>4. held' \in [Exec -> [Stream -> Seq(Line)]]
        BY <2>0, <4>1
      <4>5. copier' \in [Exec -> [Stream -> CopierState]]
        <5>1. CASE copier' = [copier EXCEPT ![e][s] = "scan"]
          BY <2>b, <2>e, <5>1
        <5>2. CASE copier' = [copier EXCEPT ![e][s] = "drain"]
          BY <2>b, <2>e, <5>2
        <5> QED BY <4>1, <5>1, <5>2
      <4>6. base' \in [Exec -> [Stream -> Nat]]
        BY <2>0, <2>c, <4>1
      <4> QED BY <2>0, <4>1, <4>3, <4>4, <4>5, <4>6
    <3> QED BY <3>1, <3>2
  <2> QED BY <1>7, <2>1, <2>2, <2>3, <2>4 DEF Copier
<1>8. CASE UNCHANGED vars
  BY <1>8 DEF TypeOK, vars
<1> QED BY <1>1, <1>2, <1>3, <1>4, <1>5, <1>6, <1>7, <1>8 DEF Next, Eval

LEMMA PhaseKept ==
  ASSUME TypeOK, Phase, [Next]_vars
  PROVE  Phase'
<1>0. /\ Execs \in Nat /\ now \in 0 .. Execs /\ Exec = 1 .. Execs
      /\ child \in [Exec -> {"none", "running", "exited"}]
      /\ readEnd \in [Exec -> BOOLEAN]
      /\ watchdog \in [Exec -> {"none", "waiting", "warned", "gone"}]
  BY ExecAssumption DEF TypeOK, Exec
<1>1. ASSUME now' = now, pc' = pc, child' = child, readEnd' = readEnd, watchdog' = watchdog
      PROVE  Phase'
  BY <1>1 DEF Phase, Fresh, Over
<1>2. CASE Enter
  <2>1. /\ pc = "idle" /\ pc' = "output" /\ now' = now + 1
        /\ child' = child /\ readEnd' = readEnd
        /\ watchdog' = [watchdog EXCEPT ![now + 1] = "waiting"]
    BY <1>2 DEF Enter, process, output
  <2>2. \A e \in Exec : e > now' => Fresh(e)'
    BY <1>0, <2>1 DEF Phase, Fresh
  <2>3. \A e \in Exec : e < now' => Over(e)'
    BY <1>0, <2>1 DEF Phase, Over
  <2>4. \A e \in Exec : e = now' => child'[e] = "none" /\ ~ readEnd'[e]
    BY <1>0, <2>1 DEF Phase, Fresh
  <2> QED BY <1>0, <2>1, <2>2, <2>3, <2>4 DEF Phase
<1>3. CASE ProcessOutput \/ StartChild \/ WaitChild \/ WaitOutput \/ Account \/ Leave
  <2>0. now' = now /\ pc # "idle"
    BY <1>3 DEF ProcessOutput, StartChild, WaitChild, WaitOutput, Account, Leave
  <2>1. \A e \in Exec : e # now =>
          child'[e] = child[e] /\ readEnd'[e] = readEnd[e] /\ watchdog'[e] = watchdog[e]
    BY <1>0, <1>3 DEF ProcessOutput, StartChild, WaitChild, WaitOutput, Account, Leave,
       process, output
  <2>2. ASSUME NEW e \in Exec
        PROVE  /\ e > now' => Fresh(e)'
               /\ e < now' => Over(e)'
    BY <1>0, <2>0, <2>1 DEF Phase, Fresh, Over
  <2>3. ASSUME NEW e \in Exec, e = now'
        PROVE  /\ pc' = "idle" => Over(e)'
               /\ pc' \in {"output", "panic", "aborted"} => child'[e] = "none" /\ ~ readEnd'[e]
               /\ pc' = "start" => child'[e] = "none" /\ readEnd'[e]
               /\ pc' = "wait" => child'[e] \in {"running", "exited"} /\ readEnd'[e]
               /\ pc' \in {"waitOutput", "account", "return"} =>
                    child'[e] = "exited" /\ ~ readEnd'[e]
               /\ pc' = "aborted" => watchdog'[e] = "gone"
    <3>0. e = now /\ now \in Exec
      BY <2>0, <2>3
    <3>1. CASE ProcessOutput
      BY <1>0, <3>0, <3>1 DEF Phase, ProcessOutput, process
    <3>2. CASE StartChild
      BY <1>0, <3>0, <3>2 DEF Phase, StartChild
    <3>3. CASE WaitChild
      BY <1>0, <3>0, <3>3 DEF Phase, WaitChild, ChildGone, process
    <3>4. CASE WaitOutput \/ Account
      BY <1>0, <3>0, <3>4 DEF Phase, WaitOutput, Account, process, output
    <3>5. CASE Leave
      BY <1>0, <3>0, <3>5 DEF Phase, Over, Leave, process, output
    <3> QED BY <1>3, <3>1, <3>2, <3>3, <3>4, <3>5
  <2>4. pc' # "idle" => now' > 0
    BY <2>0 DEF Phase
  <2> QED BY <1>0, <2>0, <2>2, <2>3, <2>4 DEF Phase
<1>4. ASSUME NEW e \in Exec, Child(e) PROVE Phase'
  <2>1. CASE ChildWrites(e)
    BY <1>1, <2>1 DEF ChildWrites
  <2>2. CASE ChildExits(e)
    <3>1. /\ child[e] = "running" /\ child' = [child EXCEPT ![e] = "exited"]
          /\ UNCHANGED <<now, pc, readEnd, watchdog>>
      BY <2>2 DEF ChildExits, output
    <3>2. e = now /\ pc = "wait"
      <4>1. e = now
        BY <1>0, <3>1 DEF Phase, Fresh, Over
      <4>2. pc \in {"idle", "output", "start", "wait", "waitOutput", "account",
                    "return", "panic", "aborted"}
        BY DEF TypeOK
      <4> QED BY <3>1, <4>1, <4>2 DEF Phase, Over
    <3> QED BY <1>0, <3>1, <3>2 DEF Phase, Fresh, Over
  <2> QED BY <1>4, <2>1, <2>2 DEF Child
<1>5. ASSUME NEW e \in Exec, Watchdog(e) PROVE Phase'
  <2>1. /\ watchdog[e] = "waiting" /\ watchdog' = [watchdog EXCEPT ![e] = "warned"]
        /\ UNCHANGED <<now, pc, child, readEnd>>
    BY <1>5 DEF Watchdog, Warn, process, output
  <2>2. e = now /\ pc \notin {"idle", "aborted"}
    BY <1>0, <2>1 DEF Phase, Fresh, Over
  <2> QED BY <1>0, <2>1, <2>2 DEF Phase, Fresh, Over
<1>6. ASSUME NEW e \in Exec, NEW s \in Stream, Copier(e, s) PROVE Phase'
  BY <1>1, <1>6, CopierStays
<1>7. CASE UNCHANGED vars
  BY <1>1, <1>7 DEF vars
<1> QED BY <1>2, <1>3, <1>4, <1>5, <1>6, <1>7 DEF Next, Eval

-----------------------------------------------------------------------------
(***************************************************************************)
(* The order of lines.                                                     *)
(***************************************************************************)

\* The lines of each execution rise in a sequence, and are all before those
\* in another, or at most a number.
Rising(q) ==
  \A i, j \in 1 .. Len(q) : i < j /\ q[i].exec = q[j].exec => q[i].no < q[j].no
Before(a, b) ==
  \A x \in Range(a), y \in Range(b) : x.exec = y.exec => x.no < y.no
UpTo(q) == \A x \in Range(q) : x.no <= written[x.exec]
Own(q, e) == \A x \in Range(q) : x.exec = e

LEMMA RangeFacts ==
  ASSUME NEW S
  PROVE  /\ Range(<<>>) = {}
         /\ \A q \in Seq(S) : Range(q) \subseteq S
         /\ \A q \in Seq(S), x \in S : Range(Append(q, x)) = Range(q) \union {x}
         /\ \A a, b \in Seq(S) : Range(a \o b) = Range(a) \union Range(b)
         /\ \A q \in Seq(S) : q # <<>> =>
              Range(Tail(q)) \subseteq Range(q) /\ Head(q) \in Range(q)
<1>1. Range(<<>>) = {}
  BY DEF Range
<1>2. \A q \in Seq(S) : Range(q) \subseteq S
  BY DEF Range
<1>3. ASSUME NEW q \in Seq(S), NEW x \in S
      PROVE  Range(Append(q, x)) = Range(q) \union {x}
  <2>1. /\ Append(q, x) \in Seq(S) /\ Len(Append(q, x)) = Len(q) + 1
        /\ \A i \in 1 .. Len(q) : Append(q, x)[i] = q[i]
        /\ Append(q, x)[Len(q) + 1] = x
        /\ DOMAIN q = 1 .. Len(q) /\ Len(q) \in Nat
        /\ DOMAIN Append(q, x) = 1 .. (Len(q) + 1)
    OBVIOUS
  <2>2. ASSUME NEW y \in Range(q) \union {x} PROVE y \in Range(Append(q, x))
    BY <2>1 DEF Range
  <2>3. ASSUME NEW y \in Range(Append(q, x)) PROVE y \in Range(q) \union {x}
    <3>1. PICK i \in 1 .. Len(q) + 1 : y = Append(q, x)[i]
      BY <2>1 DEF Range
    <3> QED BY <2>1, <3>1 DEF Range
  <2> QED BY <2>2, <2>3
<1>4. ASSUME NEW a \in Seq(S), NEW b \in Seq(S)
      PROVE  Range(a \o b) = Range(a) \union Range(b)
  <2>1. /\ a \o b \in Seq(S) /\ Len(a \o b) = Len(a) + Len(b)
        /\ \A i \in 1 .. Len(a) + Len(b) :
             (a \o b)[i] = IF i <= Len(a) THEN a[i] ELSE b[i - Len(a)]
        /\ Len(a) \in Nat /\ Len(b) \in Nat
        /\ DOMAIN a = 1 .. Len(a) /\ DOMAIN b = 1 .. Len(b)
        /\ DOMAIN (a \o b) = 1 .. Len(a) + Len(b)
    BY ConcatProperties
  <2>2. ASSUME NEW y \in Range(a) PROVE y \in Range(a \o b)
    BY <2>1 DEF Range
  <2>3. ASSUME NEW y \in Range(b) PROVE y \in Range(a \o b)
    <3>1. PICK i \in 1 .. Len(b) : y = b[i]
      BY <2>1 DEF Range
    <3>2. /\ Len(a) + i \in 1 .. Len(a) + Len(b) /\ ~ Len(a) + i <= Len(a)
          /\ (Len(a) + i) - Len(a) = i
      BY <2>1
    <3>3. y = (a \o b)[Len(a) + i]
      BY <2>1, <3>1, <3>2
    <3> QED BY <2>1, <3>2, <3>3 DEF Range
  <2>4. ASSUME NEW y \in Range(a \o b) PROVE y \in Range(a) \union Range(b)
    <3>1. PICK i \in 1 .. Len(a) + Len(b) : y = (a \o b)[i]
      BY <2>1 DEF Range
    <3> QED BY <2>1, <3>1 DEF Range
  <2> QED BY <2>2, <2>3, <2>4
<1>5. ASSUME NEW q \in Seq(S), q # <<>>
      PROVE  Range(Tail(q)) \subseteq Range(q) /\ Head(q) \in Range(q)
  BY <1>5 DEF Range
<1> QED BY <1>1, <1>2, <1>3, <1>4, <1>5

\* Rising sequences, put together and taken apart.
LEMMA RisingFacts ==
  /\ Rising(<<>>)
  /\ \A a, b \in Seq(Line) : Rising(a) /\ Rising(b) /\ Before(a, b) => Rising(a \o b)
  /\ \A q \in Seq(Line), x \in Line :
       Rising(q) /\ Before(q, <<x>>) => Rising(Append(q, x))
  /\ \A q \in Seq(Line) : q # <<>> /\ Rising(q) =>
       Rising(Tail(q)) /\ Before(<<Head(q)>>, Tail(q))
<1>1. Rising(<<>>)
  BY DEF Rising
<1>2. ASSUME NEW a \in Seq(Line), NEW b \in Seq(Line), Rising(a), Rising(b), Before(a, b)
      PROVE  Rising(a \o b)
  <2>1. /\ Len(a \o b) = Len(a) + Len(b) /\ Len(a) \in Nat /\ Len(b) \in Nat
        /\ \A i \in 1 .. Len(a) + Len(b) :
             (a \o b)[i] = IF i <= Len(a) THEN a[i] ELSE b[i - Len(a)]
        /\ DOMAIN a = 1 .. Len(a) /\ DOMAIN b = 1 .. Len(b)
    BY ConcatProperties
  <2> SUFFICES ASSUME NEW i \in 1 .. Len(a) + Len(b), NEW j \in 1 .. Len(a) + Len(b),
                      i < j, (a \o b)[i].exec = (a \o b)[j].exec
               PROVE  (a \o b)[i].no < (a \o b)[j].no
    BY <2>1 DEF Rising
  <2>2. CASE j <= Len(a)
    BY <1>2, <2>1, <2>2 DEF Rising
  <2>3. CASE i <= Len(a) /\ ~ j <= Len(a)
    BY <1>2, <2>1, <2>3 DEF Before, Range
  <2>4. CASE ~ i <= Len(a)
    <3>1. /\ i - Len(a) \in 1 .. Len(b) /\ j - Len(a) \in 1 .. Len(b)
          /\ i - Len(a) < j - Len(a) /\ ~ j <= Len(a)
      BY <2>1, <2>4
    <3>2. (a \o b)[i] = b[i - Len(a)] /\ (a \o b)[j] = b[j - Len(a)]
      BY <2>1, <2>4, <3>1
    <3> QED BY <1>2, <3>1, <3>2 DEF Rising
  <2> QED BY <2>1, <2>2, <2>3, <2>4
<1>3. ASSUME NEW q \in Seq(Line), NEW x \in Line, Rising(q), Before(q, <<x>>)
      PROVE  Rising(Append(q, x))
  <2>1. /\ <<x>> \in Seq(Line) /\ Append(q, x) = q \o <<x>>
        /\ Len(<<x>>) = 1
    OBVIOUS
  <2>2. Rising(<<x>>)
    BY <2>1 DEF Rising
  <2> QED BY <1>2, <1>3, <2>1, <2>2
<1>4. ASSUME NEW q \in Seq(Line), q # <<>>, Rising(q)
      PROVE  Rising(Tail(q)) /\ Before(<<Head(q)>>, Tail(q))
  <2>1. /\ Len(Tail(q)) = Len(q) - 1 /\ Len(q) \in Nat \ {0} /\ Head(q) = q[1]
        /\ \A i \in 1 .. Len(q) - 1 : Tail(q)[i] = q[i + 1]
        /\ DOMAIN Tail(q) = 1 .. Len(q) - 1
        /\ Range(<<Head(q)>>) = {q[1]}
    BY <1>4 DEF Range
  <2>2. Rising(Tail(q))
    BY <1>4, <2>1 DEF Rising
  <2>3. ASSUME NEW y \in Range(Tail(q)), q[1].exec = y.exec PROVE q[1].no < y.no
    <3>1. PICK i \in 1 .. Len(q) - 1 : y = q[i + 1]
      BY <2>1 DEF Range
    <3> QED BY <1>4, <2>1, <2>3, <3>1 DEF Rising
  <2> QED BY <2>1, <2>2, <2>3 DEF Before
<1> QED BY <1>1, <1>2, <1>3, <1>4

\* What is on its way from an execution.
Pending(e, s) ==
  /\ Own(held[e][s], e) /\ Own(pipe[e][s], e)
  /\ Rising(held[e][s]) /\ Rising(pipe[e][s]) /\ Before(held[e][s], pipe[e][s])
  /\ UpTo(held[e][s]) /\ UpTo(pipe[e][s])

Sorted == \A s \in Stream : \A e \in Exec : Pending(e, s)

\* Steps that leave the lines where they are.
LEMMA SortedStays ==
  ASSUME Sorted, held' = held, pipe' = pipe, written' = written
  PROVE  Sorted'
BY DEF Sorted, Pending, UpTo

\* The process writes a line with a higher number than all before.
LEMMA WritesSorted ==
  ASSUME TypeOK, Sorted, NEW e \in Exec, ChildWrites(e)
  PROVE  Sorted'
<1> DEFINE no == written[e] + 1
           s == Writes[e][no]
           l == [exec |-> e, no |-> no]
<1>1. /\ written[e] < Len(Writes[e])
      /\ pipe' = [pipe EXCEPT ![e][s] = Append(pipe[e][s], l)]
      /\ written' = [written EXCEPT ![e] = no]
      /\ held' = held
  BY DEF ChildWrites
<1>2. /\ written \in [Exec -> Nat] /\ no \in Nat
      /\ l \in Line /\ l.exec = e /\ l.no = written[e] + 1
  BY DEF TypeOK, Line
<1>3. s \in Stream
  BY <1>1, <1>2, ExecAssumption
<1> HIDE DEF no, s, l
<1>4. \A d \in Exec : \A t \in Stream :
        pipe[d][t] \in Seq(Line) /\ held[d][t] \in Seq(Line)
  BY DEF TypeOK
<1>5. \A d \in Exec : \A t \in Stream :
        pipe'[d][t] = IF d = e /\ t = s THEN Append(pipe[e][s], l) ELSE pipe[d][t]
  BY <1>1, <1>3 DEF TypeOK
<1>6. Range(Append(pipe[e][s], l)) = Range(pipe[e][s]) \union {l} /\ Range(<<l>>) = {l}
  <2>1. Range(<<l>>) = {l}
    BY DEF Range
  <2> QED BY <1>2, <1>3, <1>4, <2>1, RangeFacts
<1>7. \A q \in Seq(Line) : UpTo(q) => UpTo(q)' /\ Before(q, <<l>>)
  <2> SUFFICES ASSUME NEW q \in Seq(Line), UpTo(q), NEW x \in Range(q)
               PROVE  x.no <= written'[x.exec] /\ (x.exec = e => x.no < l.no)
    BY <1>2, <1>6 DEF UpTo, Before
  <2>1. x \in Line /\ x.no <= written[x.exec]
    BY RangeFacts DEF UpTo
  <2>2. x.no \in Nat /\ x.exec \in Exec
    BY <2>1 DEF Line
  <2>3. l.no = written[e] + 1 /\ written'[e] = l.no
    BY <1>1, <1>2 DEF no
  <2>4. x.exec # e => written'[x.exec] = written[x.exec]
    BY <1>1, <1>2, <2>2
  <2> QED BY <1>2, <2>1, <2>2, <2>3, <2>4
<1>8. l.no <= written'[l.exec]
  BY <1>1, <1>2 DEF no
<1>10. ASSUME NEW t \in Stream, NEW d \in Exec PROVE Pending(d, t)'
  <2>0. Pending(d, t)
    BY DEF Sorted
  <2>1. UpTo(held[d][t])' /\ UpTo(pipe[d][t]) /\ Before(held[d][t], <<l>>)
        /\ Before(pipe[d][t], <<l>>) /\ \A x \in Range(pipe[d][t]) : x.no <= written'[x.exec]
    BY <1>1, <1>4, <1>7, <2>0 DEF Pending, UpTo
  <2>2. CASE d = e /\ t = s
    <3>1. pipe'[d][t] = Append(pipe[e][s], l)
      BY <1>5, <2>2
    <3>2. Own(pipe'[d][t], d) /\ UpTo(pipe[d][t])'
      <4>1. Range(pipe'[d][t]) = Range(pipe[d][t]) \union {l}
        BY <1>6, <2>2, <3>1
      <4> QED BY <1>2, <1>8, <2>0, <2>1, <2>2, <4>1 DEF Pending, Own, UpTo
    <3>3. Rising(pipe'[d][t])
      BY <1>2, <1>3, <1>4, <2>0, <2>1, <2>2, <3>1, RisingFacts DEF Pending
    <3>4. Before(held[d][t], pipe'[d][t])
      BY <1>6, <2>0, <2>1, <2>2, <3>1 DEF Pending, Before
    <3> QED BY <1>1, <2>0, <2>1, <3>2, <3>3, <3>4 DEF Pending
  <2>3. CASE ~ (d = e /\ t = s)
    <3>1. pipe'[d][t] = pipe[d][t] /\ held'[d][t] = held[d][t]
      BY <1>1, <1>5, <2>3
    <3>2. UpTo(pipe[d][t])'
      BY <2>1, <3>1 DEF UpTo
    <3> QED BY <2>0, <2>1, <3>1, <3>2 DEF Pending
  <2> QED BY <2>2, <2>3
<1> QED BY <1>10 DEF Sorted

\* A line moves from the pipe to the buffered writer.
LEMMA ScansSorted ==
  ASSUME TypeOK, Sorted, NEW e \in Exec, NEW s \in Stream, CopierScans(e, s)
  PROVE  Sorted'
<1> DEFINE h == Head(pipe[e][s])
           p == Tail(pipe[e][s])
           b == Append(held[e][s], h)
<1>1. /\ pipe[e][s] # <<>> /\ pipe' = [pipe EXCEPT ![e][s] = p]
      /\ held' = [held EXCEPT ![e][s] = b]
      /\ written' = written
  BY DEF CopierScans, Readable, process
<1>2. /\ \A d \in Exec : \A t \in Stream :
           pipe[d][t] \in Seq(Line) /\ held[d][t] \in Seq(Line)
      /\ h \in Line /\ p \in Seq(Line) /\ b \in Seq(Line)
  BY <1>1 DEF TypeOK
<1>3. \A d \in Exec : \A t \in Stream :
        /\ pipe'[d][t] = IF d = e /\ t = s THEN p ELSE pipe[d][t]
        /\ held'[d][t] = IF d = e /\ t = s THEN b ELSE held[d][t]
  <2>0. pipe \in [Exec -> [Stream -> Seq(Line)]] /\ held \in [Exec -> [Stream -> Seq(Line)]]
    BY DEF TypeOK
  <2> HIDE DEF h, p, b
  <2>1. \A d \in Exec : \A t \in Stream :
          pipe'[d][t] = IF d = e /\ t = s THEN p ELSE pipe[d][t]
    BY <1>1, <1>2, <2>0, TableKept
  <2>2. \A d \in Exec : \A t \in Stream :
          held'[d][t] = IF d = e /\ t = s THEN b ELSE held[d][t]
    BY <1>1, <1>2, <2>0, TableKept
  <2> QED BY <2>1, <2>2
<1>4. /\ Range(p) \subseteq Range(pipe[e][s]) /\ h \in Range(pipe[e][s])
      /\ Range(b) = Range(held[e][s]) \union {h}
      /\ Range(<<h>>) = {h}
  <2>1. Range(<<h>>) = {h}
    BY DEF Range
  <2>2. Range(p) \subseteq Range(pipe[e][s]) /\ h \in Range(pipe[e][s])
    BY <1>1, <1>2, RangeFacts
  <2>3. Range(b) = Range(held[e][s]) \union {h}
    <3> HIDE DEF h
    <3> QED BY <1>2, RangeFacts
  <2> QED BY <2>1, <2>2, <2>3
<1>5. Pending(e, s)
  BY DEF Sorted
<1>6. Rising(p) /\ Before(<<h>>, p)
  BY <1>1, <1>2, <1>5, RisingFacts DEF Pending
<1>7. Before(held[e][s], <<h>>) /\ Before(held[e][s], p)
  BY <1>4, <1>5 DEF Pending, Before
<1>8. Rising(b) /\ Before(b, p)
  <2>1. Rising(b)
    BY <1>2, <1>5, <1>7, RisingFacts DEF Pending
  <2>2. Before(b, p)
    BY <1>4, <1>6, <1>7 DEF Before
  <2> QED BY <2>1, <2>2
<1>9. Own(b, e) /\ Own(p, e) /\ UpTo(b) /\ UpTo(p)
  BY <1>4, <1>5 DEF Pending, Own, UpTo
<1> HIDE DEF h, p, b
<1>11. ASSUME NEW t \in Stream, NEW d \in Exec PROVE Pending(d, t)'
  <2>1. CASE d = e /\ t = s
    <3>1. pipe'[d][t] = p /\ held'[d][t] = b
      BY <1>3, <2>1
    <3>2. UpTo(pipe[d][t])' /\ UpTo(held[d][t])'
      BY <1>1, <1>9, <3>1 DEF UpTo
    <3> QED BY <1>6, <1>8, <1>9, <2>1, <3>1, <3>2 DEF Pending
  <2>2. CASE ~ (d = e /\ t = s)
    <3>1. pipe'[d][t] = pipe[d][t] /\ held'[d][t] = held[d][t]
      BY <1>3, <2>2
    <3> QED BY <1>1, <3>1 DEF Sorted, Pending, UpTo
  <2> QED BY <2>1, <2>2
<1> QED BY <1>11 DEF Sorted

\* A line is taken out of the pipe and dropped.
LEMMA DrainsSorted ==
  ASSUME TypeOK, Sorted, NEW e \in Exec, NEW s \in Stream, CopierDrains(e, s)
  PROVE  Sorted'
<1> DEFINE p == Tail(pipe[e][s])
<1>1. /\ pipe[e][s] # <<>> /\ pipe' = [pipe EXCEPT ![e][s] = p]
      /\ held' = held /\ written' = written
  BY DEF CopierDrains, Readable, process
<1>2. pipe \in [Exec -> [Stream -> Seq(Line)]] /\ pipe[e][s] \in Seq(Line)
  BY DEF TypeOK
<1>3. /\ Range(p) \subseteq Range(pipe[e][s]) /\ p \in Seq(Line) /\ Pending(e, s)
  BY <1>1, <1>2, RangeFacts DEF Sorted
<1>4. Own(p, e) /\ UpTo(p) /\ Rising(p) /\ Before(held[e][s], p)
  BY <1>1, <1>2, <1>3, RisingFacts DEF Pending, Own, UpTo, Before
<1> HIDE DEF p
<1>5. ASSUME NEW t \in Stream, NEW d \in Exec PROVE Pending(d, t)'
  <2>1. CASE d = e /\ t = s
    <3>1. pipe'[d][t] = p
      BY <1>1, <1>2, <2>1
    <3> QED BY <1>1, <1>3, <1>4, <2>1, <3>1 DEF Pending, UpTo
  <2>2. CASE ~ (d = e /\ t = s)
    <3>1. pipe'[d][t] = pipe[d][t]
      BY <1>1, <1>2, <2>2
    <3> QED BY <1>1, <3>1 DEF Sorted, Pending, UpTo
  <2> QED BY <2>1, <2>2
<1> QED BY <1>5 DEF Sorted

\* The buffered writer is emptied, or keeps what it holds.
LEMMA CopiesSorted ==
  ASSUME TypeOK, Sorted, NEW e \in Exec, NEW s \in Stream, CopierCopies(e, s)
  PROVE  Sorted'
<1>1. /\ pipe' = pipe /\ written' = written
      /\ held' = held \/ held' = [held EXCEPT ![e][s] = <<>>]
  BY DEF CopierCopies, process
<1>2. held \in [Exec -> [Stream -> Seq(Line)]]
  BY DEF TypeOK
<1>3. ASSUME NEW t \in Stream, NEW d \in Exec PROVE Pending(d, t)'
  <2>1. Pending(d, t) /\ (held'[d][t] = held[d][t] \/ held'[d][t] = <<>>)
    BY <1>1, <1>2 DEF Sorted
  <2> QED BY <1>1, <2>1, RangeFacts, RisingFacts DEF Pending, Own, UpTo, Before
<1> QED BY <1>3 DEF Sorted

LEMMA SortedKept ==
  ASSUME TypeOK, Sorted, [Next]_vars
  PROVE  Sorted'
<1>1. CASE Eval
  <2>1. held' = held /\ pipe' = pipe /\ written' = written
    BY <1>1 DEF Eval, Enter, ProcessOutput, StartChild, WaitChild, WaitOutput, Account,
       Leave, process, output
  <2> QED BY <2>1, SortedStays
<1>2. ASSUME NEW e \in Exec, Child(e) PROVE Sorted'
  <2>1. CASE ChildWrites(e)
    BY <2>1, WritesSorted
  <2>2. CASE ChildExits(e)
    BY <2>2, SortedStays DEF ChildExits, output
  <2> QED BY <1>2, <2>1, <2>2 DEF Child
<1>3. ASSUME NEW e \in Exec, Watchdog(e) PROVE Sorted'
  BY <1>3, SortedStays DEF Watchdog, Warn, process, output
<1>4. ASSUME NEW e \in Exec, NEW s \in Stream, Copier(e, s) PROVE Sorted'
  <2>1. CASE CopierEnds(e, s) \/ CopierGrows(e, s)
    BY <2>1, SortedStays DEF CopierEnds, CopierGrows, process
  <2> QED BY <1>4, <2>1, ScansSorted, DrainsSorted, CopiesSorted DEF Copier
<1>5. CASE UNCHANGED vars
  BY <1>5, SortedStays DEF vars
<1> QED BY <1>1, <1>2, <1>3, <1>4, <1>5 DEF Next

-----------------------------------------------------------------------------
(***************************************************************************)
(* The theorems.                                                           *)
(***************************************************************************)
ExecInv == TypeOK /\ Phase /\ Sorted

LEMMA InitExec == Init => ExecInv
<1> SUFFICES ASSUME Init PROVE ExecInv
  OBVIOUS
<1>1. TypeOK
  BY ExecAssumption DEF Init, TypeOK, Cell
<1>2. Phase
  BY ExecAssumption DEF Init, Phase, Fresh, Exec
<1>3. Sorted
  <2>1. \A e \in Exec : \A s \in Stream :
          held[e][s] = <<>> /\ pipe[e][s] = <<>>
    BY DEF Init
  <2>2. Rising(<<>>) /\ UpTo(<<>>) /\ Before(<<>>, <<>>) /\ \A e : Own(<<>>, e)
    BY RangeFacts, RisingFacts DEF UpTo, Before, Own
  <2>3. ASSUME NEW e \in Exec, NEW s \in Stream PROVE Pending(e, s)
    BY <2>1, <2>2 DEF Pending, UpTo
  <2> QED BY <2>3 DEF Sorted
<1> QED BY <1>1, <1>2, <1>3 DEF ExecInv

LEMMA ExecInvariant == Spec => []ExecInv
<1>1. ExecInv /\ [Next]_vars => ExecInv'
  BY TypeKept, PhaseKept, SortedKept DEF ExecInv
<1> QED BY InitExec, <1>1, PTL DEF Spec

\* The state of the executions is well typed.
THEOREM ExecTypeCorrect == Spec => []TypeOK
<1>1. ExecInv => TypeOK
  BY DEF ExecInv
<1> QED BY <1>1, ExecInvariant, PTL

\* An execution has left nothing but its copiers when the next one begins.
THEOREM ExecutionsDoNotOverlap == Spec => []OneAtATime
<1>1. ExecInv => OneAtATime
  BY PhaseGives DEF ExecInv
<1> QED BY <1>1, ExecInvariant, PTL

-----------------------------------------------------------------------------
(***************************************************************************)
(* The output of a command.  As long as nobody was writing to a buffer     *)
(* when it was reset, only the current command's copier can touch it.      *)
(***************************************************************************)

\* Sequences of cells put together in two ways.
LEMMA LineIsCell == \A q \in Seq(Line) : q \in Seq(Cell)
<1> SUFFICES ASSUME NEW q \in Seq(Line) PROVE q \in Seq(Cell)
  OBVIOUS
<1>1. Line \subseteq Cell
  BY DEF Cell
<1> QED BY <1>1, SeqMonotonic

\* The beginning of an array.
LEMMA Begins ==
  ASSUME NEW q \in Seq(Cell), NEW m \in Nat, m <= Len(q)
  PROVE  /\ SubSeq(q, 1, m) \in Seq(Cell) /\ Len(SubSeq(q, 1, m)) = m
         /\ \A i \in 1 .. m : SubSeq(q, 1, m)[i] = q[i]
<1>1. \A i \in 1 .. m : q[i] \in Cell
  OBVIOUS
<1>2. /\ SubSeq(q, 1, m) \in Seq(Cell)
      /\ Len(SubSeq(q, 1, m)) = IF 1 <= m THEN m - 1 + 1 ELSE 0
      /\ \A i \in 1 .. m - 1 + 1 : SubSeq(q, 1, m)[i] = q[1 + i - 1]
  BY <1>1, SubSeqProperties
<1> QED BY <1>2

LEMMA SameBeginning ==
  ASSUME NEW q \in Seq(Cell), NEW r \in Seq(Cell), NEW m \in Nat,
         m <= Len(q), m <= Len(r), \A i \in 1 .. m : r[i] = q[i]
  PROVE  SubSeq(r, 1, m) = SubSeq(q, 1, m)
<1>1. \A i \in 1 .. m : SubSeq(r, 1, m)[i] = SubSeq(q, 1, m)[i]
  BY Begins
<1> QED BY <1>1, Begins, SeqEqual

LEMMA Joined ==
  \A a, b, c \in Seq(Cell) : (a \o b) \o c = a \o (b \o c)
BY ConcatAssociative

\* A line is passed on from the pipe to the buffered writer.
LEMMA PassedOn ==
  ASSUME NEW b \in Seq(Cell), NEW h \in Seq(Line), NEW p \in Seq(Line), p # <<>>
  PROVE  b \o Append(h, Head(p)) \o Tail(p) = b \o h \o p
<1> DEFINE x == Head(p)
           rest == Tail(p)
<1>1. h \in Seq(Cell) /\ p \in Seq(Cell)
  BY LineIsCell
<1>2. x \in Cell /\ rest \in Seq(Cell) /\ x = p[1] /\ rest = SubSeq(p, 2, Len(p))
  BY <1>1, HeadTailProperties, TailIsSubSeq
<1>3. Len(p) \in Nat \ {0}
  BY <1>1, EmptySeq
<1>4. p = <<x>> \o rest
  <2>1. 1 \in 1 .. Len(p) /\ Len(p) \in 1 .. Len(p)
    BY <1>3
  <2>2. SubSeq(p, 1, Len(p)) = <<p[1]>> \o SubSeq(p, 1 + 1, Len(p))
    BY <1>1, <2>1, SubSeqRecursiveFirst
  <2>3. 1 + 1 = 2
    OBVIOUS
  <2> HIDE DEF x, rest
  <2> QED BY <1>1, <1>2, <2>2, <2>3, SubSeqFull
<1> HIDE DEF x, rest
<1>5. <<x>> \in Seq(Cell) /\ Append(h, x) = h \o <<x>>
  BY <1>1, <1>2, AppendIsConcat
<1>6. b \o (h \o <<x>>) = (b \o h) \o <<x>>
  BY <1>1, <1>5, ConcatAssociative
<1>7. b \o h \in Seq(Cell)
  BY <1>1, ConcatProperties
<1>8. ((b \o h) \o <<x>>) \o rest = (b \o h) \o (<<x>> \o rest)
  <2>1. PICK c \in Seq(Cell) : c = b \o h
    BY <1>7
  <2>2. PICK y \in Seq(Cell) : y = <<x>>
    BY <1>5
  <2>3. PICK r \in Seq(Cell) : r = rest
    BY <1>2
  <2>4. (c \o y) \o r = c \o (y \o r)
    BY Joined
  <2> QED BY <2>1, <2>2, <2>3, <2>4
<1>9. b \o Append(h, x) \o rest = b \o h \o p
  BY <1>4, <1>5, <1>6, <1>8
<1> QED BY <1>9 DEF x, rest

\* The lines that are held go behind the first m cells, where there is room.
LEMMA PutBehind ==
  ASSUME NEW q \in Seq(Cell), NEW m \in Nat, NEW h \in Seq(Line),
         m + Len(h) <= Len(q)
  PROVE  SubSeq(Filled(q, m, Len(h), h), 1, m + Len(h)) = SubSeq(q, 1, m) \o h
<1> DEFINE f == Filled(q, m, Len(h), h)
           n == Len(h)
<1>1. n \in Nat /\ h \in Seq(Cell) /\ Len(q) \in Nat /\ m <= Len(q) /\ m + n \in Nat
  BY LineIsCell
<1>2. f \in Seq(Cell) /\ Len(f) = Len(q)
  BY <1>1, FilledFacts
<1>3. \A i \in 1 .. Len(q) :
        f[i] = IF i - m \in 1 .. n /\ i - m <= n THEN h[i - m] ELSE q[i]
  BY DEF Filled
<1> HIDE DEF f
<1>4. /\ SubSeq(f, 1, m + n) \in Seq(Cell) /\ Len(SubSeq(f, 1, m + n)) = m + n
      /\ \A i \in 1 .. m + n : SubSeq(f, 1, m + n)[i] = f[i]
  BY <1>1, <1>2, Begins
<1>5. /\ SubSeq(q, 1, m) \in Seq(Cell) /\ Len(SubSeq(q, 1, m)) = m
      /\ \A i \in 1 .. m : SubSeq(q, 1, m)[i] = q[i]
  BY <1>1, Begins
<1>6. /\ SubSeq(q, 1, m) \o h \in Seq(Cell) /\ Len(SubSeq(q, 1, m) \o h) = m + n
      /\ \A i \in 1 .. m + n :
           (SubSeq(q, 1, m) \o h)[i] = IF i <= m THEN SubSeq(q, 1, m)[i] ELSE h[i - m]
  BY <1>1, <1>5, ConcatProperties
<1>7. ASSUME NEW i \in 1 .. m + n
      PROVE  SubSeq(f, 1, m + n)[i] = (SubSeq(q, 1, m) \o h)[i]
  <2>1. i \in 1 .. Len(q) /\ f[i] = IF i - m \in 1 .. n THEN h[i - m] ELSE q[i]
    BY <1>1, <1>3
  <2>2. CASE i <= m
    BY <1>1, <1>4, <1>5, <1>6, <2>1, <2>2
  <2>3. CASE i > m
    <3>1. i - m \in 1 .. n
      BY <1>1, <2>3
    <3> QED BY <1>1, <1>4, <1>6, <2>1, <2>3, <3>1
  <2> QED BY <1>1, <2>2, <2>3
<1>8. SubSeq(f, 1, m + n) = SubSeq(q, 1, m) \o h
  BY <1>4, <1>6, <1>7, SeqEqual
<1> QED BY <1>8 DEF f

\* What is on its way from one execution.
Reached(e, s) == IF copier[e][s] = "copy" THEN base[e][s] ELSE length[s]
Whole(e, s) == SubSeq(array[s], 1, Reached(e, s)) \o held[e][s] \o pipe[e][s]
Exact(e, s) ==
  /\ copier[e][s] \notin {"drain", "panicked"}
  /\ length[s] <= Len(array[s])
  /\ copier[e][s] = "grow" => base[e][s] = length[s]
  /\ copier[e][s] = "copy" => length[s] = base[e][s] + Len(held[e][s])
  /\ LinesOf(Whole(e, s), e, s)
Alone(e, s) == \A d \in Exec : d # e => copier[d][s] \in {"none", "done"}
Unbegun(e) ==
  /\ written[e] = 0
  /\ \A s \in Stream : held[e][s] = <<>> /\ pipe[e][s] = <<>> /\ copier[e][s] = "none"

Outputs ==
  /\ \A e \in Exec : e > Owner => Unbegun(e)
  /\ \A e \in Exec : e = Owner => \A s \in Stream : ~ late[s] => Alone(e, s) /\ Exact(e, s)

LEMMA ExactStays ==
  ASSUME NEW e \in Exec, NEW s \in Stream, Exact(e, s),
         copier'[e][s] = copier[e][s], base'[e][s] = base[e][s], held'[e][s] = held[e][s],
         pipe'[e][s] = pipe[e][s], written'[e] = written[e],
         array'[s] = array[s], length'[s] = length[s]
  PROVE  Exact(e, s)'
<1>1. Whole(e, s)' = Whole(e, s)
  BY DEF Whole, Reached
<1>2. LinesOf(Whole(e, s), e, s)'
  BY <1>1 DEF Exact, LinesOf
<1> QED BY <1>2 DEF Exact

\* The steps of Eval.
LEMMA EvalOutputs ==
  ASSUME TypeOK, Phase, Outputs, Eval
  PROVE  Outputs'
<1>0. /\ now \in Nat /\ Exec = 1 .. Execs /\ Execs \in Nat /\ now <= Execs
      /\ copier \in [Exec -> [Stream -> CopierState]]
      /\ late \in [Stream -> BOOLEAN] /\ array \in [Stream -> Seq(Cell)]
      /\ pc # "idle" => now > 0
  <2>1. /\ now \in Nat /\ Exec = 1 .. Execs /\ Execs \in Nat /\ now <= Execs
        /\ pc # "idle" => now > 0
    BY ExecAssumption DEF TypeOK, Phase, Exec
  <2> QED BY <2>1, CopierTyped DEF TypeOK
<1>1. held' = held /\ pipe' = pipe /\ written' = written /\ base' = base /\ array' = array
  BY DEF Eval, Enter, ProcessOutput, StartChild, WaitChild, WaitOutput, Account, Leave,
     process, output, buffer
<1>2. CASE ProcessOutput
  <2>1. /\ pc = "output" /\ pc' \in {"start", "panic"} /\ now' = now
        /\ length' = [s \in Stream |-> 0]
        /\ late' = [s \in Stream |-> \E e \in Exec : Copying(e, s)]
        /\ \/ copier' = [copier EXCEPT ![now] = [s \in Stream |-> "scan"]]
           \/ copier' = copier
    BY <1>2 DEF ProcessOutput, Reset
  <2>2. Owner = now - 1 /\ Owner' = now /\ now \in Exec
    BY <1>0, <2>1 DEF Owner
  <2>3. \A d \in Exec : \A s \in Stream :
          /\ d # now => copier'[d][s] = copier[d][s]
          /\ copier'[d][s] \in {copier[d][s], "scan"}
    BY <1>0, <2>1
  <2>4. ASSUME NEW e \in Exec, e > now PROVE Unbegun(e)'
    <3>1. Unbegun(e)
      BY <1>0, <2>2, <2>4 DEF Outputs
    <3> QED BY <1>0, <1>1, <2>3, <2>4, <3>1 DEF Unbegun
  <2>5. ASSUME NEW s \in Stream, ~ late'[s] PROVE Alone(now, s)' /\ Exact(now, s)'
    <3>1. \A d \in Exec : copier[d][s] \in {"none", "done"}
      BY <2>1, <2>5 DEF Copying
    <3>2. \A d \in Exec : d # now => copier'[d][s] \in {"none", "done"}
      BY <2>3, <3>1
    <3>3. Unbegun(now)
      BY <1>0, <2>2 DEF Outputs
    <3>4. copier'[now][s] \in {"none", "scan"} /\ length'[s] = 0
      BY <2>1, <2>2, <2>3, <3>3 DEF Unbegun
    <3>5. held'[now][s] = <<>> /\ pipe'[now][s] = <<>> /\ written'[now] = 0
      BY <1>1, <2>2, <3>3 DEF Unbegun
    <3>6. SubSeq(array'[s], 1, 0) = <<>>
      BY SubSeqEmpty
    <3>7. Whole(now, s)' = <<>>
      <4>1. SubSeq(array'[s], 1, 0) \o <<>> \o <<>> = <<>>
        BY <3>6, ConcatEmptySeq, EmptySeq
      <4> QED BY <2>1, <3>4, <3>5, <4>1 DEF Whole, Reached
    <3>8. LinesOf(Whole(now, s), now, s)'
      BY <2>1, <3>5, <3>7 DEF LinesOf
    <3>9. Len(array'[s]) \in Nat
      BY <1>0, <1>1
    <3> QED BY <2>1, <3>2, <3>4, <3>8, <3>9 DEF Alone, Exact
  <2> QED BY <2>1, <2>2, <2>4, <2>5 DEF Outputs
<1>3. CASE ~ ProcessOutput
  <2>1. Owner' = Owner
    <3>1. CASE Enter
      BY <1>0, <3>1 DEF Enter, Owner
    <3>2. CASE ~ Enter
      BY <1>3, <3>2 DEF Eval, StartChild, WaitChild, WaitOutput, Account, Leave, Owner
    <3> QED BY <3>1, <3>2
  <2>2. copier' = copier /\ length' = length /\ late' = late
    BY <1>3 DEF Eval, Enter, StartChild, WaitChild, WaitOutput, Account, Logged, Leave,
       output, buffer
  <2>3. ASSUME NEW e \in Exec, e > Owner PROVE Unbegun(e)'
    BY <1>1, <2>2, <2>3 DEF Outputs, Unbegun
  <2>4. ASSUME NEW e \in Exec, e = Owner, NEW s \in Stream, ~ late[s]
        PROVE  Alone(e, s)' /\ Exact(e, s)'
    <3>1. Alone(e, s) /\ Exact(e, s)
      BY <2>4 DEF Outputs
    <3> QED BY <1>1, <2>2, <3>1, ExactStays DEF Alone
  <2> QED BY <2>1, <2>2, <2>3, <2>4 DEF Outputs
<1> QED BY <1>2, <1>3

\* A line more in the pipe.
LEMMA OneMore ==
  ASSUME TypeOK, NEW e \in Exec, NEW s \in Stream, NEW q \in Seq(Cell), LinesOf(q, e, s),
         NEW n \in Nat, n = written[e] + 1, n <= Len(Writes[e]),
         written'[e] = n, Writes[e][n] = s
  PROVE  LinesOf(Append(q, [exec |-> e, no |-> n]), e, s)'
<1> DEFINE l == [exec |-> e, no |-> n]
           r == Append(q, l)
<1>1. l \in Cell /\ l.exec = e /\ l.no = n /\ written[e] \in Nat
  BY DEF Cell, Line, TypeOK
<1> HIDE DEF l
<1>2. /\ r \in Seq(Cell) /\ Len(r) = Len(q) + 1 /\ Len(q) \in Nat
      /\ \A i \in 1 .. Len(q) : r[i] = q[i]
      /\ r[Len(q) + 1] = l
  BY <1>1, AppendProperties
<1> HIDE DEF r
<1>3. /\ \A i \in 1 .. Len(q) :
           q[i].exec = e /\ q[i].no \in 1 .. written[e] /\ Writes[e][q[i].no] = s
      /\ \A i, j \in 1 .. Len(q) : i < j => q[i].no < q[j].no
      /\ \A no \in 1 .. written[e] :
           Writes[e][no] = s => \E i \in 1 .. Len(q) : q[i].no = no
  BY DEF LinesOf
<1>4. ASSUME NEW i \in 1 .. Len(r)
      PROVE  r[i].exec = e /\ r[i].no \in 1 .. n /\ Writes[e][r[i].no] = s
  <2>1. CASE i \in 1 .. Len(q)
    <3>1. r[i] = q[i] /\ q[i].no \in 1 .. written[e]
      BY <1>2, <1>3, <2>1
    <3>2. q[i].no \in 1 .. n
      BY <1>1, <3>1
    <3> QED BY <1>3, <2>1, <3>1, <3>2
  <2>2. CASE i = Len(q) + 1
    <3>1. n \in 1 .. n
      BY <1>1
    <3> QED BY <1>1, <1>2, <2>2, <3>1
  <2> QED BY <1>2, <2>1, <2>2
<1>5. ASSUME NEW i \in 1 .. Len(r), NEW j \in 1 .. Len(r), i < j PROVE r[i].no < r[j].no
  <2>1. i \in 1 .. Len(q) /\ r[i].no = q[i].no /\ q[i].no \in 1 .. written[e]
    BY <1>2, <1>3, <1>5
  <2>2. CASE j \in 1 .. Len(q)
    BY <1>2, <1>3, <1>5, <2>1, <2>2
  <2>3. CASE j = Len(q) + 1
    BY <1>1, <1>2, <2>1, <2>3
  <2> QED BY <1>2, <2>2, <2>3
<1>6. ASSUME NEW no \in 1 .. n, Writes[e][no] = s PROVE \E i \in 1 .. Len(r) : r[i].no = no
  <2>1. CASE no = n
    <3>1. Len(q) + 1 \in 1 .. Len(r)
      BY <1>2
    <3> QED BY <1>1, <1>2, <2>1, <3>1
  <2>2. CASE no \in 1 .. written[e]
    <3>1. PICK i \in 1 .. Len(q) : q[i].no = no
      BY <1>3, <1>6, <2>2
    <3>2. i \in 1 .. Len(r) /\ r[i] = q[i]
      BY <1>2
    <3> QED BY <3>1, <3>2
  <2> QED BY <1>1, <2>1, <2>2
<1>7. LinesOf(r, e, s)'
  BY <1>4, <1>5, <1>6 DEF LinesOf
<1> QED BY <1>7 DEF r, l

\* What the command writes goes behind what it has written before.
LEMMA ChildOutputs ==
  ASSUME TypeOK, Phase, Outputs, NEW e \in Exec, Child(e)
  PROVE  Outputs'
<1>0. /\ now \in Nat /\ Exec = 1 .. Execs /\ Execs \in Nat /\ now <= Execs
      /\ written \in [Exec -> Nat] /\ pipe \in [Exec -> [Stream -> Seq(Line)]]
      /\ held \in [Exec -> [Stream -> Seq(Line)]] /\ array \in [Stream -> Seq(Cell)]
      /\ length \in [Stream -> Nat] /\ base \in [Exec -> [Stream -> Nat]]
  BY ExecAssumption DEF TypeOK, Exec
<1>1. /\ now' = now /\ pc' = pc /\ copier' = copier /\ held' = held /\ base' = base
      /\ array' = array /\ length' = length /\ late' = late /\ child[e] = "running"
  BY DEF Child, ChildWrites, ChildExits, output, buffer
<1>2. Owner' = Owner /\ e = Owner
  <2>1. ~ (e > now) /\ ~ (e < now) /\ ~ (e = now /\ pc = "idle")
    BY <1>1 DEF Phase, Fresh, Over
  <2>2. e = now /\ pc # "idle"
    BY <1>0, <2>1
  <2>3. pc = "wait"
    BY <1>1, <2>2 DEF Phase, TypeOK
  <2> QED BY <1>1, <2>2, <2>3 DEF Owner
<1>3. CASE ChildWrites(e)
  <2>0. PICK no \in Nat : no = written[e] + 1
    BY <1>0
  <2> DEFINE s0 == Writes[e][no]
             l == [exec |-> e, no |-> no]
  <2>1. /\ written[e] < Len(Writes[e])
        /\ pipe' = [pipe EXCEPT ![e][s0] = Append(@, l)]
        /\ written' = [written EXCEPT ![e] = no]
    BY <1>3, <2>0 DEF ChildWrites
  <2>2. no <= Len(Writes[e]) /\ s0 \in Stream /\ l \in Line
    <3>1. Writes[e] \in Seq(Stream) /\ Len(Writes[e]) \in Nat /\ written[e] \in Nat
      BY <1>0, ExecAssumption
    <3>2. no \in 1 .. Len(Writes[e])
      BY <2>0, <2>1, <3>1
    <3> QED BY <3>1, <3>2 DEF Line
  <2>3. written'[e] = no /\ Writes[e][no] = s0
    BY <1>0, <2>1
  <2>4. \A d \in Exec : \A s \in Stream :
          pipe'[d][s] = IF d = e /\ s = s0 THEN Append(pipe[d][s], l) ELSE pipe[d][s]
    <3> HIDE DEF s0, l
    <3> QED BY <1>0, <2>1, <2>2
  <2>5. ASSUME NEW d \in Exec, d > Owner PROVE Unbegun(d)'
    <3>1. Unbegun(d) /\ d # e
      BY <1>0, <1>2, <2>5 DEF Outputs
    <3>2. written'[d] = written[d] /\ \A s \in Stream : pipe'[d][s] = pipe[d][s]
      BY <1>0, <2>1, <2>4, <3>1
    <3> QED BY <1>1, <3>1, <3>2 DEF Unbegun
  <2>6. ASSUME NEW s \in Stream, ~ late[s] PROVE Alone(e, s)' /\ Exact(e, s)'
    <3>0. Alone(e, s) /\ Exact(e, s)
      BY <1>2, <2>6 DEF Outputs
    <3> DEFINE b == SubSeq(array[s], 1, Reached(e, s)) \o held[e][s]
    <3>1. /\ Whole(e, s) = b \o pipe[e][s]
          /\ Whole(e, s)' = b \o pipe'[e][s]
      BY <1>1 DEF Whole, Reached
    <3>2. b \in Seq(Cell) /\ pipe[e][s] \in Seq(Cell) /\ b \o pipe[e][s] \in Seq(Cell)
      <4>1. Reached(e, s) \in Nat /\ Reached(e, s) <= Len(array[s])
        BY <1>0, <3>0 DEF Reached, Exact
      <4>2. SubSeq(array[s], 1, Reached(e, s)) \in Seq(Cell)
        BY <1>0, <4>1, Begins
      <4>3. held[e][s] \in Seq(Cell) /\ pipe[e][s] \in Seq(Cell)
        BY <1>0, LineIsCell
      <4> QED BY <4>2, <4>3, ConcatProperties
    <3> HIDE DEF b
    <3>3. LinesOf(Whole(e, s), e, s)'
      <4>1. CASE s = s0
        <5>1. l \in Cell /\ <<l>> \in Seq(Cell)
          BY <2>2 DEF Cell
        <5>2. Append(b \o pipe[e][s], l) = b \o Append(pipe[e][s], l)
          <6> HIDE DEF l
          <6>1. /\ Append(pipe[e][s], l) = pipe[e][s] \o <<l>>
                /\ Append(b \o pipe[e][s], l) = (b \o pipe[e][s]) \o <<l>>
            BY <3>2, <5>1, AppendIsConcat
          <6>2. (b \o pipe[e][s]) \o <<l>> = b \o (pipe[e][s] \o <<l>>)
            <7> DEFINE c == pipe[e][s]
                       y == <<l>>
            <7>1. b \in Seq(Cell) /\ c \in Seq(Cell) /\ y \in Seq(Cell)
              BY <3>2, <5>1
            <7> HIDE DEF c, y
            <7>2. (b \o c) \o y = b \o (c \o y)
              BY <7>1, ConcatAssociative
            <7> QED BY <7>2 DEF c, y
          <6> QED BY <6>1, <6>2
        <5>3. PICK q \in Seq(Cell) : q = b \o pipe[e][s]
          BY <3>2
        <5>4. LinesOf(q, e, s)
          BY <3>0, <3>1, <5>3 DEF Exact
        <5>5. LinesOf(Append(q, l), e, s)'
          BY <2>0, <2>2, <2>3, <4>1, <5>4, OneMore
        <5>6. Whole(e, s)' = Append(q, l)
          BY <2>4, <3>1, <4>1, <5>2, <5>3
        <5> QED BY <5>5, <5>6 DEF LinesOf
      <4>2. CASE s # s0
        <5>1. Whole(e, s)' = Whole(e, s)
          BY <2>4, <3>1, <4>2
        <5>2. /\ written[e] \in Nat /\ no = written[e] + 1 /\ written'[e] = no
              /\ Writes[e][no] # s
          BY <1>0, <2>0, <2>3, <4>2
        <5>3. PICK q : q = Whole(e, s)
          OBVIOUS
        <5>4. LinesOf(q, e, s)
          BY <3>0, <5>3 DEF Exact
        <5>5. LinesOf(q, e, s)'
          <6>1. 1 .. written'[e] = (1 .. written[e]) \union {no} /\ no \notin 1 .. written[e]
            BY <5>2
          <6> QED BY <5>2, <5>4, <6>1 DEF LinesOf
        <5> QED BY <5>1, <5>3, <5>5 DEF LinesOf
      <4> QED BY <4>1, <4>2
    <3> QED BY <1>1, <3>0, <3>3 DEF Alone, Exact
  <2> QED BY <1>1, <1>2, <2>5, <2>6 DEF Outputs
<1>4. CASE ChildExits(e)
  <2>1. pipe' = pipe /\ written' = written
    BY <1>4 DEF ChildExits, output
  <2>2. ASSUME NEW d \in Exec, d > Owner PROVE Unbegun(d)'
    BY <1>1, <2>1, <2>2 DEF Outputs, Unbegun
  <2>3. ASSUME NEW d \in Exec, d = Owner, NEW s \in Stream, ~ late[s]
        PROVE  Alone(d, s)' /\ Exact(d, s)'
    <3>1. Alone(d, s) /\ Exact(d, s)
      BY <2>3 DEF Outputs
    <3> QED BY <1>1, <2>1, <3>1, ExactStays DEF Alone
  <2> QED BY <1>1, <1>2, <2>2, <2>3 DEF Outputs
<1> QED BY <1>3, <1>4 DEF Child

\* The steps of a copier that has the buffer for itself.
LEMMA CopierExact ==
  ASSUME TypeOK, NEW e \in Exec, NEW s \in Stream, Copier(e, s), Exact(e, s)
  PROVE  Exact(e, s)'
<1>0. /\ copier \in [Exec -> [Stream -> CopierState]]
      /\ pipe \in [Exec -> [Stream -> Seq(Line)]] /\ held \in [Exec -> [Stream -> Seq(Line)]]
      /\ base \in [Exec -> [Stream -> Nat]] /\ array \in [Stream -> Seq(Cell)]
      /\ length \in [Stream -> Nat]
      /\ pipe[e][s] \in Seq(Line) /\ held[e][s] \in Seq(Line) /\ array[s] \in Seq(Cell)
      /\ base[e][s] \in Nat /\ length[s] \in Nat /\ Len(array[s]) \in Nat
      /\ Len(held[e][s]) \in Nat
  <2>1. /\ pipe[e][s] \in Seq(Line) /\ held[e][s] \in Seq(Line) /\ array[s] \in Seq(Cell)
        /\ base[e][s] \in Nat /\ length[s] \in Nat
    BY DEF TypeOK
  <2>2. Len(array[s]) \in Nat /\ Len(held[e][s]) \in Nat
    BY <2>1, LenProperties
  <2> QED BY <2>1, <2>2, CopierTyped DEF TypeOK
<1>1. written' = written
  BY CopierStays
<1>2. ASSUME Whole(e, s)' = Whole(e, s) PROVE LinesOf(Whole(e, s), e, s)'
  BY <1>1, <1>2 DEF Exact, LinesOf
<1>3. CASE CopierScans(e, s)
  <2> DEFINE h == Append(held[e][s], Head(pipe[e][s]))
             p == Tail(pipe[e][s])
  <2>1. /\ copier[e][s] = "scan" /\ pipe[e][s] # <<>>
        /\ pipe' = [pipe EXCEPT ![e][s] = p] /\ held' = [held EXCEPT ![e][s] = h]
        /\ array' = array /\ length' = length
        /\ \/ /\ copier' = [copier EXCEPT ![e][s] = "grow"]
              /\ base' = [base EXCEPT ![e][s] = length[s]]
           \/ copier' = copier /\ base' = base
    BY <1>3 DEF CopierScans, Readable, buffer
  <2>2. SubSeq(array[s], 1, length[s]) \o h \o p
          = SubSeq(array[s], 1, length[s]) \o held[e][s] \o pipe[e][s]
    <3>1. SubSeq(array[s], 1, length[s]) \in Seq(Cell)
      BY <1>0, Begins DEF Exact
    <3> QED BY <1>0, <2>1, <3>1, PassedOn
  <2> HIDE DEF h, p
  <2>3. pipe'[e][s] = p /\ held'[e][s] = h
    BY <1>0, <2>1
  <2>4. \/ copier'[e][s] = "grow" /\ base'[e][s] = length[s]
        \/ copier'[e][s] = "scan"
    BY <1>0, <2>1
  <2>5. Whole(e, s)' = Whole(e, s)
    BY <2>1, <2>2, <2>3, <2>4 DEF Whole, Reached
  <2> QED BY <1>2, <2>1, <2>4, <2>5 DEF Exact
<1>4. CASE CopierDrains(e, s)
  BY <1>4 DEF CopierDrains, Exact
<1>5. CASE CopierEnds(e, s)
  <2>1. /\ copier[e][s] = "scan" /\ pipe' = pipe /\ held' = held /\ array' = array
        /\ length' = length
        /\ \/ /\ copier' = [copier EXCEPT ![e][s] = "grow"]
              /\ base' = [base EXCEPT ![e][s] = length[s]]
           \/ copier' = [copier EXCEPT ![e][s] = "done"]
    BY <1>5 DEF CopierEnds, buffer, Exact
  <2>2. \/ copier'[e][s] = "grow" /\ base'[e][s] = length[s]
        \/ copier'[e][s] = "done"
    BY <1>0, <2>1
  <2>3. Whole(e, s)' = Whole(e, s)
    BY <2>1, <2>2 DEF Whole, Reached
  <2> QED BY <1>2, <2>1, <2>2, <2>3 DEF Exact
<1>6. CASE CopierGrows(e, s)
  <2> DEFINE m == length[s]
             n == Len(held[e][s])
             q == array[s]
             r == array'[s]
  <2>1. /\ copier[e][s] = "grow" /\ pipe' = pipe /\ held' = held /\ base' = base
        /\ copier' = [copier EXCEPT ![e][s] = "copy"]
        /\ base[e][s] = m /\ m <= Len(q)
        /\ length' = [length EXCEPT ![s] = m + n]
    BY <1>6 DEF CopierGrows, Exact
  <2>2. copier'[e][s] = "copy" /\ length'[s] = m + n /\ base'[e][s] = m
    BY <1>0, <2>1
  <2>3. \/ r = q /\ m + n <= Len(q)
        \/ r = Grown(q, m, n)
    BY <1>0, <1>6, <2>1 DEF CopierGrows
  <2>4. /\ r \in Seq(Cell) /\ m <= Len(r) /\ m + n <= Len(r)
        /\ \A i \in 1 .. m : r[i] = q[i]
    <3>1. CASE r = q /\ m + n <= Len(q)
      BY <1>0, <2>1, <3>1
    <3>2. CASE r = Grown(q, m, n)
      <4>1. /\ r \in Seq(Cell) /\ Len(r) = 2 * Len(q) + n
            /\ \A i \in 1 .. Len(q) : i <= m => r[i] = q[i]
        <5>1. n \in Nat /\ m \in Nat /\ q \in Seq(Cell)
          BY <1>0
        <5> HIDE DEF n, m, q, r
        <5> QED BY <3>2, <5>1, GrownFacts
      <4>2. n \in Nat /\ m \in Nat /\ Len(q) \in Nat /\ m <= Len(q)
        BY <1>0, <2>1
      <4> HIDE DEF n, m, q, r
      <4>3. m <= 2 * Len(q) + n /\ m + n <= 2 * Len(q) + n
        BY <4>2
      <4> QED BY <4>1, <4>2, <4>3
    <3> QED BY <2>3, <3>1, <3>2
  <2>5. SubSeq(r, 1, m) = SubSeq(q, 1, m)
    BY <1>0, <2>1, <2>4, SameBeginning
  <2>6. Whole(e, s)' = Whole(e, s)
    BY <2>1, <2>2, <2>5 DEF Whole, Reached
  <2> QED BY <1>2, <2>1, <2>2, <2>4, <2>6 DEF Exact
<1>7. CASE CopierCopies(e, s)
  <2> DEFINE m == base[e][s]
             h == held[e][s]
             n == Len(held[e][s])
             q == array[s]
             r == Filled(q, m, n, h)
  <2>1. /\ copier[e][s] = "copy" /\ length[s] = m + n /\ length[s] - m = n
        /\ m + n <= Len(q)
    BY <1>0, <1>7 DEF CopierCopies, Exact
  <2>2. /\ pipe' = pipe /\ length' = length
        /\ held' = [held EXCEPT ![e][s] = <<>>]
        /\ copier' = [copier EXCEPT ![e][s] = "scan"]
        /\ array' = [array EXCEPT ![s] = r]
    BY <1>0, <1>7, <2>1 DEF CopierCopies
  <2>3. copier'[e][s] = "scan" /\ held'[e][s] = <<>>
    BY <1>0, <2>2
  <2>4. array'[s] = r
    <3> HIDE DEF r
    <3> QED BY <1>0, <2>2
  <2>5. SubSeq(r, 1, m + n) = SubSeq(q, 1, m) \o h
    BY <1>0, <2>1, PutBehind
  <2>6. SubSeq(q, 1, m) \o h \in Seq(Cell)
    BY <1>0, <2>1, Begins, LineIsCell, ConcatProperties
  <2>7. Len(r) = Len(q)
    BY <1>0, FilledFacts
  <2>8. Whole(e, s)' = Whole(e, s)
    <3>1. Whole(e, s)' = SubSeq(r, 1, m + n) \o <<>> \o pipe[e][s]
      BY <2>1, <2>2, <2>3, <2>4 DEF Whole, Reached
    <3>2. (SubSeq(q, 1, m) \o h) \o <<>> = SubSeq(q, 1, m) \o h
      BY <2>6, ConcatEmptySeq
    <3>3. Whole(e, s) = SubSeq(q, 1, m) \o h \o pipe[e][s]
      BY <2>1 DEF Whole, Reached
    <3> QED BY <2>5, <3>1, <3>2, <3>3
  <2> QED BY <1>0, <1>2, <2>1, <2>2, <2>3, <2>4, <2>7, <2>8 DEF Exact
<1> QED BY <1>3, <1>4, <1>5, <1>6, <1>7 DEF Copier

\* A copier passes the lines on, and the only one that does is the current
\* command's.
LEMMA CopierOutputs ==
  ASSUME TypeOK, Outputs, NEW e \in Exec, NEW s \in Stream, Copier(e, s)
  PROVE  Outputs'
<1>0. /\ now \in Nat /\ Exec = 1 .. Execs /\ Execs \in Nat
      /\ copier \in [Exec -> [Stream -> CopierState]]
      /\ pipe \in [Exec -> [Stream -> Seq(Line)]] /\ held \in [Exec -> [Stream -> Seq(Line)]]
      /\ base \in [Exec -> [Stream -> Nat]] /\ array \in [Stream -> Seq(Cell)]
      /\ length \in [Stream -> Nat] /\ late \in [Stream -> BOOLEAN]
  <2>1. now \in Nat /\ Exec = 1 .. Execs /\ Execs \in Nat
    BY ExecAssumption DEF TypeOK, Exec
  <2> QED BY <2>1, CopierTyped DEF TypeOK
<1>1. now' = now /\ pc' = pc /\ written' = written /\ late' = late /\ Owner' = Owner
  BY CopierStays DEF Owner
<1>2. copier[e][s] \notin {"none", "done"}
  BY DEF Copier, CopierScans, CopierDrains, CopierEnds, CopierGrows, CopierCopies
<1>3. \A d \in Exec : \A t \in Stream : ~ (d = e /\ t = s) =>
        /\ copier'[d][t] = copier[d][t] /\ held'[d][t] = held[d][t]
        /\ pipe'[d][t] = pipe[d][t] /\ base'[d][t] = base[d][t]
  <2>1. /\ copier' = copier \/ \E c : copier' = [copier EXCEPT ![e][s] = c]
        /\ base' = base \/ \E b : base' = [base EXCEPT ![e][s] = b]
        /\ held' = held \/ \E h : held' = [held EXCEPT ![e][s] = h]
        /\ pipe' = pipe \/ \E p : pipe' = [pipe EXCEPT ![e][s] = p]
    <3>1. CASE CopierScans(e, s)
      BY <3>1 DEF CopierScans
    <3>2. CASE CopierDrains(e, s)
      BY <3>2 DEF CopierDrains
    <3>3. CASE CopierEnds(e, s)
      BY <3>3 DEF CopierEnds
    <3>4. CASE CopierGrows(e, s)
      BY <3>4 DEF CopierGrows
    <3>5. CASE CopierCopies(e, s)
      BY <3>5 DEF CopierCopies
    <3> QED BY <3>1, <3>2, <3>3, <3>4, <3>5 DEF Copier
  <2>2. \A d \in Exec : \A t \in Stream : ~ (d = e /\ t = s) => copier'[d][t] = copier[d][t]
    <3>1. CASE copier' = copier
      BY <3>1
    <3>2. CASE \E c : copier' = [copier EXCEPT ![e][s] = c]
      BY <1>0, <3>2
    <3> QED BY <2>1, <3>1, <3>2
  <2>3. \A d \in Exec : \A t \in Stream : ~ (d = e /\ t = s) => base'[d][t] = base[d][t]
    <3>1. CASE base' = base
      BY <3>1
    <3>2. CASE \E b : base' = [base EXCEPT ![e][s] = b]
      BY <1>0, <3>2
    <3> QED BY <2>1, <3>1, <3>2
  <2>4. \A d \in Exec : \A t \in Stream : ~ (d = e /\ t = s) => held'[d][t] = held[d][t]
    <3>1. CASE held' = held
      BY <3>1
    <3>2. CASE \E h : held' = [held EXCEPT ![e][s] = h]
      BY <1>0, <3>2
    <3> QED BY <2>1, <3>1, <3>2
  <2>5. \A d \in Exec : \A t \in Stream : ~ (d = e /\ t = s) => pipe'[d][t] = pipe[d][t]
    <3>1. CASE pipe' = pipe
      BY <3>1
    <3>2. CASE \E p : pipe' = [pipe EXCEPT ![e][s] = p]
      BY <1>0, <3>2
    <3> QED BY <2>1, <3>1, <3>2
  <2> QED BY <2>2, <2>3, <2>4, <2>5
<1>4. \A t \in Stream : t # s => array'[t] = array[t] /\ length'[t] = length[t]
  BY <1>0 DEF Copier, CopierScans, CopierDrains, CopierEnds, CopierGrows, CopierCopies, buffer
<1>5. ASSUME NEW d \in Exec, d > Owner PROVE Unbegun(d)'
  <2>1. Unbegun(d) /\ d # e
    BY <1>2, <1>5 DEF Outputs, Unbegun
  <2> QED BY <1>1, <1>3, <2>1 DEF Unbegun
<1>6. ASSUME NEW d \in Exec, d = Owner, NEW t \in Stream, ~ late[t]
      PROVE  Alone(d, t)' /\ Exact(d, t)'
  <2>0. Alone(d, t) /\ Exact(d, t)
    BY <1>6 DEF Outputs
  <2>1. CASE t # s
    <3>1. \A c \in Exec : copier'[c][t] = copier[c][t]
      BY <1>3, <2>1
    <3> QED BY <1>1, <1>3, <1>4, <2>0, <2>1, <3>1, ExactStays DEF Alone
  <2>2. CASE t = s
    <3>1. d = e
      BY <1>2, <2>0, <2>2 DEF Alone
    <3>2. Alone(d, t)'
      BY <1>3, <2>0, <3>1 DEF Alone
    <3>3. Exact(e, s)
      BY <2>0, <2>2, <3>1
    <3> QED BY <1>1, <2>2, <3>1, <3>2, <3>3, CopierExact
  <2> QED BY <2>1, <2>2
<1> QED BY <1>1, <1>5, <1>6 DEF Outputs

LEMMA OutputsStay ==
  ASSUME Outputs, now' = now, pc' = pc, copier' = copier, base' = base, held' = held,
         pipe' = pipe, written' = written, array' = array, length' = length, late' = late
  PROVE  Outputs'
<1>1. Owner' = Owner
  BY DEF Owner
<1>2. ASSUME NEW e \in Exec, e > Owner PROVE Unbegun(e)'
  BY <1>2 DEF Outputs, Unbegun
<1>3. ASSUME NEW e \in Exec, e = Owner, NEW s \in Stream, ~ late[s]
      PROVE  Alone(e, s)' /\ Exact(e, s)'
  <2>1. Alone(e, s) /\ Exact(e, s)
    BY <1>3 DEF Outputs
  <2> QED BY <2>1, ExactStays DEF Alone
<1> QED BY <1>1, <1>2, <1>3 DEF Outputs

LEMMA OwnerIsExec ==
  ASSUME TypeOK, Phase, Owner > 0 PROVE Owner \in Exec
<1>1. now \in 0 .. Execs /\ Execs \in Nat /\ Exec = 1 .. Execs
  BY ExecAssumption DEF TypeOK, Exec
<1> QED BY <1>1 DEF Owner

LEMMA InitOutputs == Init => Outputs
<1> SUFFICES ASSUME Init PROVE Outputs
  OBVIOUS
<1>1. Owner = 0
  BY DEF Init, Owner
<1>2. \A e \in Exec : e # 0
  BY ExecAssumption DEF Exec
<1>3. \A e \in Exec : Unbegun(e)
  BY DEF Init, Unbegun
<1> QED BY <1>1, <1>2, <1>3 DEF Outputs

LEMMA OutputsInvariant == Spec => [](ExecInv /\ Outputs)
<1>1. ExecInv /\ Outputs /\ [Next]_vars => Outputs'
  <2> SUFFICES ASSUME TypeOK, Phase, Outputs, [Next]_vars PROVE Outputs'
    BY DEF ExecInv
  <2>1. ASSUME NEW e \in Exec, Watchdog(e) PROVE Outputs'
    <3>1. /\ now' = now /\ pc' = pc /\ copier' = copier /\ base' = base /\ held' = held
          /\ pipe' = pipe /\ written' = written /\ array' = array /\ length' = length
          /\ late' = late
      BY <2>1 DEF Watchdog, Warn, process, output
    <3> QED BY <3>1, OutputsStay
  <2>2. CASE UNCHANGED vars
    BY <2>2, OutputsStay DEF vars
  <2> QED BY <2>1, <2>2, EvalOutputs, ChildOutputs, CopierOutputs DEF Next
<1>2. ExecInv /\ [Next]_vars => ExecInv'
  BY TypeKept, PhaseKept, SortedKept DEF ExecInv
<1> QED BY InitExec, InitOutputs, <1>1, <1>2, PTL DEF Spec

\* As long as no buffer was reset under a copier, the output of a command is
\* kept to the last line and in order.
THEOREM OutputIsExact == Spec => []OutputExact
<1>1. ExecInv /\ Outputs => OutputExact
  <2> SUFFICES ASSUME TypeOK, Phase, Outputs, Owner > 0, NEW s \in Stream, ~ late[s]
               PROVE  LinesOf(OnTheWay(s), Owner, s)
    BY DEF ExecInv, OutputExact
  <2>1. Owner \in Exec
    BY OwnerIsExec
  <2>2. PICK e \in Exec : e = Owner
    BY <2>1
  <2>3. Exact(e, s)
    BY <2>2 DEF Outputs
  <2>4. OnTheWay(s) = Whole(e, s)
    BY <2>2 DEF OnTheWay, Settled, Whole, Reached
  <2> QED BY <2>2, <2>3, <2>4 DEF Exact
<1> QED BY <1>1, OutputsInvariant, PTL

\* Whatever the commands write, only a buffer that was reset under a copier can
\* end the server.
THEOREM CrashesAreLate == Spec => []CrashNeedsLate
<1>1. ExecInv /\ Outputs => CrashNeedsLate
  <2> SUFFICES ASSUME TypeOK, Phase, Outputs, NEW e \in Exec, NEW s \in Stream,
                      copier[e][s] = "panicked", ~ late[s]
               PROVE  FALSE
    BY DEF ExecInv, CrashNeedsLate, Crashed
  <2>1. CASE e > Owner
    BY <2>1 DEF Outputs, Unbegun
  <2>2. CASE ~ (e > Owner)
    <3>1. Owner \in Exec
      <4>1. e \in Nat /\ e > 0 /\ Owner \in Int
        BY ExecAssumption DEF Exec, Owner, TypeOK
      <4>2. Owner > 0
        BY <2>2, <4>1
      <4> QED BY <4>2, OwnerIsExec
    <3>2. PICK o \in Exec : o = Owner
      BY <3>1
    <3> QED BY <3>2 DEF Outputs, Alone, Exact
  <2> QED BY <2>1, <2>2
<1> QED BY <1>1, OutputsInvariant, PTL

-----------------------------------------------------------------------------
(***************************************************************************)
(* Eval and the copiers come to an end: what EvalReturns and CopiersEnd    *)
(* say, but for the fairness that lets a step happen that can.  First,     *)
(* until the end there is such a step.                                     *)
(***************************************************************************)

\* The conditions of the steps of Eval, of a child and of a copier.
EvalReady ==
  \/ pc = "idle" /\ now < Execs
  \/ pc \in {"output", "start", "waitOutput", "account"}
  \/ pc = "wait" /\ ChildGone
  \/ pc \in {"return", "panic"} /\ WatchdogReceives

ChildReady(e) ==
  /\ child[e] = "running"
  /\ \/ /\ written[e] < Len(Writes[e])
        /\ Len(pipe[e][Writes[e][written[e] + 1]]) < PipeSize
     \/ written[e] = Len(Writes[e])

CopierReady(e, s) ==
  \/ copier[e][s] \in {"scan", "drain"} /\ (Readable(e, s) \/ ScanEnds(e, s))
  \/ copier[e][s] \in {"grow", "copy"}

\* As long as the server lives, Eval can go on, or the command or a copier it
\* waits for, unless the server was warned of a long run; and so can a
\* copier, or what it waits for.
NeverStuck ==
  ~ Crashed => \A e \in Exec : Clean(e) =>
    /\ Evaluating(e) =>
         \/ EvalReady \/ ChildReady(e) \/ \E s \in Stream : CopierReady(e, s)
         \/ pc \in {"return", "panic"} /\ watchdog[e] = "warned"
    /\ \A s \in Stream : copier[e][s] \notin {"none", "done"} =>
         \/ CopierReady(e, s)
         \/ now = e /\ (EvalReady \/ ChildReady(e) \/ \E t \in Stream : CopierReady(e, t))

\* An execution has its watchdog, and a command writes what it has to, each
\* line to its stream.
Guarded == pc \notin {"idle", "aborted"} => watchdog[now] \in {"waiting", "warned"}
Numbered == \A e \in Exec : written[e] <= Len(Writes[e])
Placed(e, s) ==
  \A x \in Range(pipe[e][s]) : x.no \in 1 .. Len(Writes[e]) /\ Writes[e][x.no] = s

\* An open pipe has had a copier, which has ended only at the end of the
\* output or at a line that is too long.
Copied(e, s) ==
  readEnd[e] =>
    /\ copier[e][s] # "none"
    /\ copier[e][s] = "done" =>
         child[e] = "exited" \/ (pipe[e][s] # <<>> /\ Head(pipe[e][s]) \in Long)

Flow ==
  /\ Guarded /\ Numbered
  /\ \A e \in Exec : \A s \in Stream : Placed(e, s) /\ Copied(e, s)

LEMMA InitFlow == Init => Flow
<1> SUFFICES ASSUME Init PROVE Flow
  OBVIOUS
<1>1. Guarded
  BY DEF Init, Guarded
<1>2. Numbered
  BY ExecAssumption DEF Init, Numbered
<1>3. ASSUME NEW e \in Exec, NEW s \in Stream PROVE Placed(e, s) /\ Copied(e, s)
  <2>1. pipe[e][s] = <<>> /\ readEnd[e] = FALSE
    BY DEF Init
  <2>2. Range(pipe[e][s]) = {}
    BY <2>1, RangeFacts
  <2> QED BY <2>1, <2>2 DEF Placed, Copied
<1> QED BY <1>1, <1>2, <1>3 DEF Flow

\* The steps of Eval.
LEMMA EvalFlow ==
  ASSUME TypeOK, Phase, Flow, Eval
  PROVE  Flow'
<1>0. /\ now \in 0 .. Execs /\ Exec = 1 .. Execs /\ Execs \in Nat
      /\ child \in [Exec -> {"none", "running", "exited"}]
      /\ readEnd \in [Exec -> BOOLEAN]
      /\ copier \in [Exec -> [Stream -> CopierState]]
      /\ watchdog \in [Exec -> {"none", "waiting", "warned", "gone"}]
  BY ExecAssumption, CopierTyped DEF TypeOK, Exec
<1>1. pipe' = pipe /\ written' = written
  BY DEF Eval, Enter, ProcessOutput, StartChild, WaitChild, WaitOutput, Account, Leave,
     process, output
<1>2. Numbered'
  BY <1>1 DEF Flow, Numbered
<1>3. \A e \in Exec : \A s \in Stream : Placed(e, s)'
  BY <1>1 DEF Flow, Placed
<1>4. Guarded'
  <2>1. CASE Enter
    BY <1>0, <2>1 DEF Enter, Guarded
  <2>2. CASE Leave
    BY <2>2 DEF Leave, Guarded
  <2>3. CASE ~ Enter /\ ~ Leave
    <3>1. pc \notin {"idle", "aborted"} /\ now' = now /\ watchdog' = watchdog
      BY <2>3 DEF Eval, ProcessOutput, StartChild, WaitChild, WaitOutput, Account
    <3> QED BY <3>1 DEF Flow, Guarded
  <2> QED BY <2>1, <2>2, <2>3
<1>5. ASSUME NEW e \in Exec, NEW s \in Stream PROVE Copied(e, s)'
  <2>0. Copied(e, s) /\ e \in Nat
    BY <1>0 DEF Flow
  <2>1. CASE ProcessOutput
    <3>1. \/ copier' = copier /\ readEnd' = readEnd /\ child' = child
          \/ /\ copier' = [copier EXCEPT ![now] = [t \in Stream |-> "scan"]]
             /\ readEnd' = [readEnd EXCEPT ![now] = TRUE] /\ child' = child
      BY <2>1 DEF ProcessOutput, process
    <3>2. \/ copier'[e][s] = copier[e][s] /\ readEnd'[e] = readEnd[e]
          \/ copier'[e][s] = "scan"
      BY <1>0, <3>1
    <3> QED BY <1>1, <2>0, <3>1, <3>2 DEF Copied
  <2>2. CASE StartChild
    <3>1. /\ copier' = copier /\ pc = "start"
          /\ \/ child' = [child EXCEPT ![now] = "running"] /\ readEnd' = readEnd
             \/ child' = child /\ readEnd' = [readEnd EXCEPT ![now] = FALSE]
      BY <2>2 DEF StartChild
    <3>2. e = now => child[e] = "none"
      BY <3>1 DEF Phase
    <3>3. readEnd'[e] => readEnd[e]
      BY <1>0, <3>1
    <3>4. child[e] = "exited" => child'[e] = "exited"
      BY <1>0, <3>1, <3>2
    <3> QED BY <1>1, <2>0, <3>1, <3>3, <3>4 DEF Copied
  <2>3. CASE WaitChild
    <3>1. copier' = copier /\ child' = child /\ readEnd' = [readEnd EXCEPT ![now] = FALSE]
      BY <2>3 DEF WaitChild, process
    <3>2. readEnd'[e] => readEnd[e]
      BY <1>0, <3>1
    <3> QED BY <1>1, <2>0, <3>1, <3>2 DEF Copied
  <2>4. CASE Enter \/ WaitOutput \/ Account \/ Leave
    <3>1. copier' = copier /\ child' = child /\ readEnd' = readEnd
      BY <2>4 DEF Enter, WaitOutput, Account, Leave, process, output
    <3> QED BY <1>1, <2>0, <3>1 DEF Copied
  <2> QED BY <2>1, <2>2, <2>3, <2>4 DEF Eval
<1> QED BY <1>2, <1>3, <1>4, <1>5 DEF Flow

\* The process writes a line, or exits.
LEMMA ChildFlow ==
  ASSUME TypeOK, Flow, NEW e \in Exec, Child(e)
  PROVE  Flow'
<1>0. /\ now' = now /\ pc' = pc /\ watchdog' = watchdog /\ readEnd' = readEnd
      /\ copier' = copier
  BY DEF Child, ChildWrites, ChildExits, output
<1>1. Guarded'
  BY <1>0 DEF Flow, Guarded
<1>2. CASE ChildExits(e)
  <2>1. pipe' = pipe /\ written' = written /\ child' = [child EXCEPT ![e] = "exited"]
    BY <1>2 DEF ChildExits, output
  <2>2. \A d \in Exec : child[d] = "exited" => child'[d] = "exited"
    BY <2>1 DEF TypeOK
  <2> QED BY <1>0, <1>1, <2>1, <2>2 DEF Flow, Numbered, Placed, Copied
<1>3. CASE ChildWrites(e)
  <2> DEFINE no == written[e] + 1
             s == Writes[e][no]
             l == [exec |-> e, no |-> no]
  <2>1. /\ written[e] < Len(Writes[e])
        /\ pipe' = [pipe EXCEPT ![e][s] = Append(pipe[e][s], l)]
        /\ written' = [written EXCEPT ![e] = no] /\ child' = child
    BY <1>3 DEF ChildWrites
  <2>2. /\ written \in [Exec -> Nat] /\ no \in 1 .. Len(Writes[e]) /\ l \in Line
        /\ s \in Stream /\ pipe \in [Exec -> [Stream -> Seq(Line)]] /\ l.no = no
    <3>1. /\ written \in [Exec -> Nat] /\ Writes[e] \in Seq(Stream)
          /\ pipe \in [Exec -> [Stream -> Seq(Line)]]
      BY ExecAssumption DEF TypeOK
    <3>2. no \in Nat /\ no \in 1 .. Len(Writes[e])
      BY <2>1, <3>1
    <3>3. s \in Stream
      BY <3>1, <3>2
    <3> QED BY <3>1, <3>2, <3>3 DEF Line
  <2>3. Numbered'
    BY <2>1, <2>2 DEF Flow, Numbered
  <2>4. ASSUME NEW d \in Exec, NEW t \in Stream PROVE Placed(d, t)' /\ Copied(d, t)'
    <3>0. Placed(d, t) /\ Copied(d, t)
      BY DEF Flow
    <3>1. CASE d = e /\ t = s
      <4>1. pipe'[d][t] = Append(pipe[d][t], l) /\ pipe[d][t] \in Seq(Line)
        <5> HIDE DEF s, no, l
        <5> QED BY <2>1, <2>2, <3>1
      <4>2. Range(pipe'[d][t]) = Range(pipe[d][t]) \union {l}
        <5> HIDE DEF l
        <5> QED BY <2>2, <4>1, RangeFacts
      <4>3. pipe[d][t] # <<>> =>
              pipe'[d][t] # <<>> /\ Head(pipe'[d][t]) = Head(pipe[d][t])
        <5> HIDE DEF l
        <5> QED BY <2>2, <4>1
      <4>4. Placed(d, t)'
        <5>1. Writes[d][l.no] = t /\ l.no \in 1 .. Len(Writes[d])
          BY <2>2, <3>1
        <5> HIDE DEF l
        <5> QED BY <3>0, <4>2, <5>1 DEF Placed
      <4> QED BY <1>0, <2>1, <3>0, <4>3, <4>4 DEF Copied
    <3>2. CASE ~ (d = e /\ t = s)
      <4>1. pipe'[d][t] = pipe[d][t]
        <5> HIDE DEF s, no, l
        <5> QED BY <2>1, <2>2, <3>2
      <4> QED BY <1>0, <2>1, <3>0, <4>1 DEF Placed, Copied
    <3> QED BY <3>1, <3>2
  <2> QED BY <1>1, <2>3, <2>4 DEF Flow
<1> QED BY <1>2, <1>3 DEF Child

\* A copier.
LEMMA CopierFlow ==
  ASSUME TypeOK, Flow, NEW e \in Exec, NEW s \in Stream, Copier(e, s)
  PROVE  Flow'
<1>0. /\ now' = now /\ pc' = pc /\ watchdog' = watchdog /\ readEnd' = readEnd
      /\ child' = child /\ written' = written
  BY CopierStays
<1>1. Guarded' /\ Numbered'
  BY <1>0 DEF Flow, Guarded, Numbered
<1>2. /\ copier \in [Exec -> [Stream -> CopierState]]
      /\ pipe \in [Exec -> [Stream -> Seq(Line)]]
  BY CopierTyped DEF TypeOK
<1>3. \/ /\ pipe[e][s] # <<>> /\ copier[e][s] \notin {"none", "done"}
         /\ pipe' = [pipe EXCEPT ![e][s] = Tail(pipe[e][s])]
         /\ copier' = copier \/ copier' = [copier EXCEPT ![e][s] = "grow"]
      \/ /\ pipe' = pipe
         /\ \E c \in CopierState :
              /\ copier' = [copier EXCEPT ![e][s] = c] /\ c # "none"
              /\ c = "done" => ScanEnds(e, s)
  <2>1. CASE CopierScans(e, s) \/ CopierDrains(e, s)
    BY <2>1 DEF CopierScans, CopierDrains, Readable
  <2>2. CASE CopierEnds(e, s) \/ CopierGrows(e, s) \/ CopierCopies(e, s)
    BY <2>2 DEF CopierEnds, CopierGrows, CopierCopies, CopierState
  <2> QED BY <2>1, <2>2 DEF Copier
<1>4. ASSUME NEW d \in Exec, NEW t \in Stream PROVE Placed(d, t)' /\ Copied(d, t)'
  <2>0. Placed(d, t) /\ Copied(d, t)
    BY DEF Flow
  <2>1. CASE ~ (d = e /\ t = s)
    <3>1. pipe'[d][t] = pipe[d][t] /\ copier'[d][t] = copier[d][t]
      BY <1>2, <1>3, <2>1
    <3> QED BY <1>0, <2>0, <3>1 DEF Placed, Copied
  <2>2. CASE d = e /\ t = s
    <3>1. CASE pipe' = pipe
      <4>1. copier'[e][s] # "none" /\ (copier'[e][s] = "done" => ScanEnds(e, s) \/ copier[e][s] = "done")
        BY <1>2, <1>3
      <4> QED BY <1>0, <2>0, <2>2, <3>1, <4>1 DEF Placed, Copied, ScanEnds, Readable
    <3>2. CASE pipe' # pipe
      <4>1. /\ pipe[e][s] # <<>> /\ pipe'[e][s] = Tail(pipe[e][s])
            /\ copier'[e][s] \notin {"none", "done"}
        <5>1. /\ pipe[e][s] # <<>> /\ copier[e][s] \notin {"none", "done"}
              /\ pipe' = [pipe EXCEPT ![e][s] = Tail(pipe[e][s])]
              /\ copier' = copier \/ copier' = [copier EXCEPT ![e][s] = "grow"]
          BY <1>3, <3>2
        <5>2. pipe'[e][s] = Tail(pipe[e][s])
          BY <1>2, <5>1
        <5>3. copier'[e][s] = copier[e][s] \/ copier'[e][s] = "grow"
          BY <1>2, <5>1
        <5> QED BY <5>1, <5>2, <5>3
      <4>2. Range(pipe'[e][s]) \subseteq Range(pipe[e][s])
        BY <1>2, <4>1, RangeFacts
      <4> QED BY <2>0, <2>2, <4>1, <4>2 DEF Placed, Copied
    <3> QED BY <3>1, <3>2
  <2> QED BY <2>1, <2>2
<1> QED BY <1>1, <1>4 DEF Flow

LEMMA FlowInvariant == Spec => [](ExecInv /\ Flow)
<1>1. ASSUME ExecInv, Flow, [Next]_vars PROVE Flow'
  <2>0. TypeOK /\ Phase
    BY <1>1 DEF ExecInv
  <2>1. CASE Eval
    BY <1>1, <2>0, <2>1, EvalFlow
  <2>2. ASSUME NEW e \in Exec, Child(e) PROVE Flow'
    BY <1>1, <2>0, <2>2, ChildFlow
  <2>3. ASSUME NEW e \in Exec, NEW s \in Stream, Copier(e, s) PROVE Flow'
    BY <1>1, <2>0, <2>3, CopierFlow
  <2>4. ASSUME NEW e \in Exec, Watchdog(e) PROVE Flow'
    <3>1. /\ now' = now /\ pc' = pc /\ watchdog' = [watchdog EXCEPT ![e] = "warned"]
          /\ watchdog[e] = "waiting" /\ written' = written /\ pipe' = pipe
          /\ readEnd' = readEnd /\ copier' = copier /\ child' = child
      BY <2>4 DEF Watchdog, Warn, process, output
    <3>2. Guarded'
      <4>1. now' \in Exec => watchdog'[now] \in {watchdog[now], "warned"}
        BY <2>0, <3>1 DEF TypeOK
      <4>2. pc \notin {"idle", "aborted"} => now \in Exec
        BY <2>0, ExecAssumption DEF TypeOK, Phase, Exec
      <4> QED BY <1>1, <3>1, <4>1, <4>2 DEF Flow, Guarded
    <3> QED BY <1>1, <3>1, <3>2 DEF Flow, Numbered, Placed, Copied
  <2>5. CASE UNCHANGED vars
    BY <1>1, <2>5 DEF vars, Flow, Guarded, Numbered, Placed, Copied
  <2> QED BY <1>1, <2>1, <2>2, <2>3, <2>4, <2>5 DEF Next
<1> QED BY <1>1, InitFlow, ExecInvariant, PTL DEF Spec

\* A command that writes no more than a pipe holds from a line that is too
\* long finds room behind it: the lines in the pipe are among these.
LEMMA RoomBehind ==
  ASSUME TypeOK, Sorted, Flow, NEW e \in Exec, NEW s \in Stream, Clean(e),
         written[e] < Len(Writes[e]), Writes[e][written[e] + 1] = s,
         pipe[e][s] # <<>>, Head(pipe[e][s]) \in Long
  PROVE  Len(pipe[e][s]) < PipeSize
<1> DEFINE q == pipe[e][s]
           n == Len(q)
           l == Head(q)
           w == written[e] + 1
           S == {no \in l.no .. Len(Writes[e]) : Writes[e][no] = Writes[e][l.no]}
           h == [i \in 1 .. n + 1 |-> IF i = n + 1 THEN w ELSE q[i].no]
<1>1. /\ q \in Seq(Line) /\ n \in Nat /\ n >= 1 /\ l = q[1]
      /\ \A i \in 1 .. n : q[i] \in Line /\ q[i] \in Range(q)
  <2>1. q \in Seq(Line)
    BY DEF TypeOK
  <2>2. \A i \in 1 .. Len(q) : q[i] \in Line /\ q[i] \in Range(q)
    BY <2>1 DEF Range
  <2> QED BY <2>1, <2>2
<1>2. w \in Nat /\ w <= Len(Writes[e]) /\ Len(Writes[e]) \in Nat /\ Writes[e][w] = s
  <2>1. written[e] \in Nat /\ Len(Writes[e]) \in Nat
    BY ExecAssumption DEF TypeOK
  <2> QED BY <2>1
<1>3. Pending(e, s) /\ Placed(e, s)
  BY DEF Sorted, Flow
<1>4. \A i \in 1 .. n : /\ q[i].exec = e /\ q[i].no \in Nat /\ q[i].no < w
                        /\ q[i].no \in 1 .. Len(Writes[e]) /\ Writes[e][q[i].no] = s
  <2> SUFFICES ASSUME NEW i \in 1 .. n
               PROVE  /\ q[i].exec = e /\ q[i].no \in Nat /\ q[i].no < w
                      /\ q[i].no \in 1 .. Len(Writes[e]) /\ Writes[e][q[i].no] = s
    OBVIOUS
  <2>1. q[i] \in Range(q) /\ q[i].no \in Nat
    BY <1>1 DEF Line
  <2>2. q[i].exec = e /\ q[i].no <= written[q[i].exec]
    BY <1>3, <2>1 DEF Pending, Own, UpTo
  <2>3. q[i].no \in 1 .. Len(Writes[e]) /\ Writes[e][q[i].no] = s
    BY <1>3, <2>1 DEF Placed
  <2>4. written[e] \in Nat /\ q[i].no <= written[e] /\ w = written[e] + 1
    BY <2>2 DEF TypeOK
  <2> HIDE DEF q, w, n
  <2>5. q[i].no < w
    BY <2>1, <2>4
  <2> QED BY <2>1, <2>2, <2>3, <2>5
<1>5. \A i, j \in 1 .. n : i < j => q[i].no < q[j].no
  <2>1. Rising(q)
    BY <1>3 DEF Pending
  <2> HIDE DEF q
  <2> QED BY <1>4, <2>1 DEF Rising
<1> HIDE DEF q, n, w
<1>6. l.no \in Nat /\ Writes[e][l.no] = s /\ \A i \in 1 .. n : l.no <= q[i].no
  <2>1. 1 \in 1 .. n
    BY <1>1
  <2>2. l.no = q[1].no /\ q[1].no \in Nat /\ Writes[e][q[1].no] = s
    BY <1>1, <1>4, <2>1
  <2>3. ASSUME NEW i \in 1 .. n PROVE q[1].no <= q[i].no
    BY <1>1, <1>4, <1>5, <2>1
  <2> QED BY <2>2, <2>3
<1>7. \A i \in 1 .. n + 1 : h[i] \in S
  <2>1. ASSUME NEW i \in 1 .. n PROVE q[i].no \in S
    BY <1>2, <1>4, <1>6
  <2>2. w \in S
    <3>1. 1 \in 1 .. n
      BY <1>1
    <3>2. l.no < w
      BY <1>1, <1>4, <3>1
    <3> QED BY <1>2, <1>6, <3>2
  <2>3. \A i \in 1 .. n + 1 : i = n + 1 \/ i \in 1 .. n
    BY <1>1
  <2> HIDE DEF S
  <2> QED BY <2>1, <2>2, <2>3
<1>8. \A i, j \in 1 .. n + 1 : i < j => h[i] < h[j]
  <2> SUFFICES ASSUME NEW i \in 1 .. n + 1, NEW j \in 1 .. n + 1, i < j
               PROVE  h[i] < h[j]
    OBVIOUS
  <2>1. i \in 1 .. n /\ h[i] = q[i].no
    BY <1>1
  <2>2. CASE j = n + 1
    BY <1>4, <2>1, <2>2
  <2>3. CASE j # n + 1
    <3>1. j \in 1 .. n /\ h[j] = q[j].no
      BY <1>1, <2>3
    <3> QED BY <1>5, <2>1, <3>1
  <2> QED BY <2>2, <2>3
<1>9. IsFiniteSet(S)
  <2>1. IsFiniteSet(l.no .. Len(Writes[e]))
    <3>1. l.no \in Int /\ Len(Writes[e]) \in Int
      BY <1>2, <1>6
    <3> HIDE DEF l
    <3> QED BY <3>1, FS_Interval
  <2> QED BY <2>1, FS_Subset
<1>10. h \in Injection(1 .. n + 1, S)
  <2>1. h \in [1 .. n + 1 -> S]
    <3>1. h = [i \in 1 .. n + 1 |-> h[i]]
      OBVIOUS
    <3> HIDE DEF h, S
    <3> QED BY <1>7, <3>1
  <2>2. \A i, j \in 1 .. n + 1 : h[i] = h[j] => i = j
    <3>1. \A i \in 1 .. n + 1 : h[i] \in Nat
      BY <1>1, <1>2, <1>4
    <3> HIDE DEF h
    <3> QED BY <1>1, <1>8, <3>1
  <2> HIDE DEF h, S
  <2> QED BY <2>1, <2>2 DEF Injection, IsInjective
<1>11. Cardinality(1 .. n + 1) <= Cardinality(S)
  <2> HIDE DEF h, S
  <2> QED BY <1>9, <1>10, FS_Injection
<1>12. Cardinality(1 .. n + 1) = n + 1
  <2> DEFINE m == n + 1
  <2>1. m \in Nat
    BY <1>1
  <2> HIDE DEF m
  <2>2. Cardinality(1 .. m) = m
    BY <2>1, FS_Interval
  <2> QED BY <2>2 DEF m
<1>13. Cardinality(S) <= PipeSize
  <2>1. 1 \in 1 .. n /\ l = q[1]
    BY <1>1
  <2>2. l \in Long /\ l.exec = e
    BY <1>4, <2>1 DEF q
  <2> QED BY <2>2 DEF Clean
<1>14. Cardinality(S) \in Nat /\ PipeSize \in Nat
  <2> HIDE DEF S
  <2> QED BY <1>9, FS_CardinalityType, ExecAssumption
<1> HIDE DEF S
<1> QED BY <1>1, <1>11, <1>12, <1>13, <1>14 DEF n, q

\* Whatever commands write and however large the pipes: neither Eval with the
\* command and its copiers nor a copier that was left behind can deadlock.
THEOREM ExecNeverStuck == Spec => []NeverStuck
<1>1. ASSUME ExecInv, Flow PROVE NeverStuck
  <2>0. TypeOK /\ Phase /\ Sorted
    BY <1>1 DEF ExecInv
  <2>b. SUFFICES ASSUME ~ Crashed
                 PROVE  \A e \in Exec : Clean(e) =>
                          /\ Evaluating(e) =>
                               \/ EvalReady \/ ChildReady(e) \/ \E s \in Stream : CopierReady(e, s)
                               \/ pc \in {"return", "panic"} /\ watchdog[e] = "warned"
                          /\ \A s \in Stream : copier[e][s] \notin {"none", "done"} =>
                               \/ CopierReady(e, s)
                               \/ /\ now = e
                                  /\ EvalReady \/ ChildReady(e) \/ \E t \in Stream : CopierReady(e, t)
    BY DEF NeverStuck
  <2>1. ASSUME NEW e \in Exec, Clean(e), now = e, pc = "wait"
        PROVE  EvalReady \/ ChildReady(e) \/ \E s \in Stream : CopierReady(e, s)
    <3> SUFFICES ASSUME ~ ChildReady(e), child[e] = "running"
                 PROVE  \E s \in Stream : CopierReady(e, s)
      BY <2>0, <2>1 DEF Phase, EvalReady, ChildGone
    <3> DEFINE s == Writes[e][written[e] + 1]
    <3>1. /\ written[e] \in Nat /\ Len(Writes[e]) \in Nat /\ PipeSize \in Nat \ {0}
          /\ written[e] <= Len(Writes[e])
      BY <1>1, <2>0, ExecAssumption DEF TypeOK, Flow, Numbered
    <3>2. written[e] < Len(Writes[e]) /\ ~ (Len(pipe[e][s]) < PipeSize)
      BY <3>1 DEF ChildReady
    <3>3. s \in Stream
      BY <3>1, <3>2, ExecAssumption
    <3>4. pipe[e][s] # <<>>
      BY <3>1, <3>2
    <3>5. readEnd[e]
      BY <2>0, <2>1 DEF Phase
    <3>6. copier[e][s] \in {"scan", "grow", "copy", "drain", "done"}
      <4> HIDE DEF s
      <4>1. copier[e][s] \in CopierState /\ copier[e][s] # "none"
        BY <1>1, <2>0, <3>3, <3>5, CopierTyped DEF Flow, Copied
      <4> QED BY <2>b, <3>3, <4>1 DEF CopierState, Crashed
    <3>7. copier[e][s] # "done"
      <4> SUFFICES ASSUME copier[e][s] = "done" PROVE FALSE
        OBVIOUS
      <4>1. Head(pipe[e][s]) \in Long
        <5> HIDE DEF s
        <5> QED BY <1>1, <3>3, <3>5 DEF Flow, Copied
      <4>2. Len(pipe[e][s]) < PipeSize
        BY <1>1, <2>0, <2>1, <3>2, <3>3, <3>4, <4>1, RoomBehind
      <4> QED BY <3>2, <4>2
    <3>8. CopierReady(e, s)
      <4> HIDE DEF s
      <4> QED BY <3>4, <3>5, <3>6, <3>7 DEF CopierReady, Readable
    <3> HIDE DEF s
    <3> QED BY <3>3, <3>8
  <2>2. ASSUME NEW e \in Exec, Clean(e), Evaluating(e)
        PROVE  \/ EvalReady \/ ChildReady(e) \/ \E s \in Stream : CopierReady(e, s)
               \/ pc \in {"return", "panic"} /\ watchdog[e] = "warned"
    <3>1. CASE pc = "wait"
      BY <2>1, <2>2, <3>1 DEF Evaluating
    <3>2. CASE pc # "wait"
      BY <1>1, <2>0, <2>2, <3>2
         DEF Evaluating, TypeOK, EvalReady, WatchdogReceives, Flow, Guarded
    <3> QED BY <3>1, <3>2
  <2>3. ASSUME NEW e \in Exec, Clean(e), NEW s \in Stream,
               copier[e][s] \notin {"none", "done"}, ~ CopierReady(e, s)
        PROVE  now = e /\ (EvalReady \/ ChildReady(e) \/ \E t \in Stream : CopierReady(e, t))
    <3>0. copier[e][s] \in {"scan", "drain"}
      <4>1. copier[e][s] \in CopierState /\ copier[e][s] # "panicked"
        BY <2>0, <2>b, CopierTyped DEF Crashed
      <4> QED BY <2>3, <4>1 DEF CopierState, CopierReady
    <3>1. readEnd[e]
      BY <2>0, <2>3, <3>0 DEF TypeOK, CopierReady, ScanEnds
    <3>2. e = now /\ pc \in {"start", "wait"}
      <4>1. e \in Nat /\ now \in Nat
        BY <2>0, ExecAssumption DEF TypeOK, Exec
      <4>2. e = now
        BY <2>0, <3>1, <4>1 DEF Phase, Fresh, Over
      <4> QED BY <2>0, <3>1, <4>2 DEF Phase, Over, TypeOK
    <3> QED BY <2>1, <2>3, <3>2 DEF EvalReady
  <2> QED BY <2>2, <2>3
<1> QED BY <1>1, FlowInvariant, PTL

-----------------------------------------------------------------------------
(***************************************************************************)
(* Second, each step does something that was not done before, of what is   *)
(* finite.                                                                 *)
(***************************************************************************)

\* How far the current execution is, or one before or after it, and its
\* process, its watchdog and its copiers.
EvalRank(e) ==
  IF e < now \/ (e = now /\ pc = "idle") THEN 8
  ELSE IF e > now THEN 0
  ELSE CASE pc = "output" -> 1
         [] pc = "start" -> 2
         [] pc = "wait" -> 3
         [] pc = "waitOutput" -> 4
         [] pc = "account" -> 5
         [] pc \in {"return", "panic"} -> 6
         [] OTHER -> 7
ChildRank(e) ==
  CASE child[e] = "none" -> 0 [] child[e] = "running" -> 1 [] OTHER -> 2
WatchRank(e) ==
  CASE watchdog[e] = "none" -> 0 [] watchdog[e] = "waiting" -> 1 [] OTHER -> 2
CopierRank(e, s) ==
  CASE copier[e][s] = "none" -> 0
    [] copier[e][s] \in {"done", "panicked"} -> 2
    [] OTHER -> 1

\* The lines of a stream that are out of the pipe, that a write to the buffer
\* has begun with, that it has made room for, and that it is over with.
Nos(q) == {x.no : x \in Range(q)}
Scanned(e, s) ==
  {no \in 1 .. written[e] : Writes[e][no] = s} \ Nos(pipe[e][s])
Taken(e, s) ==
  {no \in Scanned(e, s) :
     no \in Nos(held[e][s]) => copier[e][s] \in {"grow", "copy", "panicked"}}
Fitted(e, s) ==
  {no \in Scanned(e, s) : no \in Nos(held[e][s]) => copier[e][s] \in {"copy", "panicked"}}
Stored(e, s) == Scanned(e, s) \ Nos(held[e][s])

Kind == {"eval", "child", "watchdog", "copier", "written", "scanned", "taken", "fitted",
         "stored"}
Happened(k, e, s) ==
  CASE k = "eval"     -> 1 .. EvalRank(e)
    [] k = "child"    -> 1 .. ChildRank(e)
    [] k = "watchdog" -> 1 .. WatchRank(e)
    [] k = "copier"   -> 1 .. CopierRank(e, s)
    [] k = "written"  -> 1 .. written[e]
    [] k = "scanned"  -> Scanned(e, s)
    [] k = "taken"    -> Taken(e, s)
    [] k = "fitted"   -> Fitted(e, s)
    [] OTHER          -> Stored(e, s)

\* What can be done, and what has been.
PossibleIn(e) == (Kind \X {e} \X Stream) \X (1 .. Len(Writes[e]) + 8)
Possible == UNION {PossibleIn(e) : e \in Exec}
Done == {d \in Possible : d[2] \in Happened(d[1][1], d[1][2], d[1][3])}

LEMMA PossibleIsFinite == IsFiniteSet(Possible)
<1>1. ASSUME NEW e \in Exec PROVE IsFiniteSet(PossibleIn(e))
  <2>1. IsFiniteSet(1 .. Len(Writes[e]) + 8)
    <3> DEFINE n == Len(Writes[e]) + 8
    <3>1. 1 \in Int /\ n \in Int
      BY ExecAssumption
    <3> HIDE DEF n
    <3>2. IsFiniteSet(1 .. n)
      BY <3>1, FS_Interval
    <3> QED BY <3>2 DEF n
  <2>2. IsFiniteSet(Kind)
    <3>1. IsFiniteSet({"eval"})
      BY FS_Singleton
    <3>2. IsFiniteSet({"eval"} \cup {"child"})
      BY <3>1, FS_AddElement
    <3>3. IsFiniteSet({"eval", "child"} \cup {"watchdog"})
      <4>1. {"eval"} \cup {"child"} = {"eval", "child"}
        OBVIOUS
      <4> QED BY <3>2, <4>1, FS_AddElement
    <3>4. IsFiniteSet({"eval", "child", "watchdog"} \cup {"copier"})
      <4>1. {"eval", "child"} \cup {"watchdog"} = {"eval", "child", "watchdog"}
        OBVIOUS
      <4> QED BY <3>3, <4>1, FS_AddElement
    <3>5. IsFiniteSet({"eval", "child", "watchdog", "copier"} \cup {"written"})
      <4>1. {"eval", "child", "watchdog"} \cup {"copier"}
              = {"eval", "child", "watchdog", "copier"}
        OBVIOUS
      <4> QED BY <3>4, <4>1, FS_AddElement
    <3>6. IsFiniteSet({"eval", "child", "watchdog", "copier", "written"} \cup {"scanned"})
      <4>1. {"eval", "child", "watchdog", "copier"} \cup {"written"}
              = {"eval", "child", "watchdog", "copier", "written"}
        OBVIOUS
      <4> QED BY <3>5, <4>1, FS_AddElement
    <3>7. IsFiniteSet({"eval", "child", "watchdog", "copier", "written", "scanned"}
                        \cup {"taken"})
      <4>1. {"eval", "child", "watchdog", "copier", "written"} \cup {"scanned"}
              = {"eval", "child", "watchdog", "copier", "written", "scanned"}
        OBVIOUS
      <4> QED BY <3>6, <4>1, FS_AddElement
    <3>8. IsFiniteSet({"eval", "child", "watchdog", "copier", "written", "scanned", "taken"}
                        \cup {"fitted"})
      <4>1. {"eval", "child", "watchdog", "copier", "written", "scanned"} \cup {"taken"}
              = {"eval", "child", "watchdog", "copier", "written", "scanned", "taken"}
        OBVIOUS
      <4> QED BY <3>7, <4>1, FS_AddElement
    <3>9. IsFiniteSet({"eval", "child", "watchdog", "copier", "written", "scanned", "taken",
                       "fitted"} \cup {"stored"})
      <4>1. {"eval", "child", "watchdog", "copier", "written", "scanned", "taken"}
              \cup {"fitted"}
              = {"eval", "child", "watchdog", "copier", "written", "scanned", "taken", "fitted"}
        OBVIOUS
      <4> QED BY <3>8, <4>1, FS_AddElement
    <3>10. {"eval", "child", "watchdog", "copier", "written", "scanned", "taken", "fitted"}
             \cup {"stored"} = Kind
      BY DEF Kind
    <3> QED BY <3>9, <3>10
  <2>3. IsFiniteSet({e}) /\ IsFiniteSet(Stream)
    <3>1. IsFiniteSet({"out"})
      BY FS_Singleton
    <3>2. IsFiniteSet({"out"} \cup {"err"})
      BY <3>1, FS_AddElement
    <3>3. {"out"} \cup {"err"} = Stream
      BY DEF Stream
    <3> QED BY <3>2, <3>3, FS_Singleton
  <2>4. Kind \X {e} \X Stream = {<<k, e, s>> : k \in Kind, s \in Stream}
    OBVIOUS
  <2>5. IsFiniteSet(Kind \X Stream)
    BY <2>2, <2>3, FS_Product
  <2>6. IsFiniteSet(Kind \X {e} \X Stream)
    <3> DEFINE T == Kind \X {e} \X Stream
               f == [p \in Kind \X Stream |-> <<p[1], e, p[2]>>]
    <3>1. f \in [Kind \X Stream -> T]
      OBVIOUS
    <3>2. \A x \in T : \E p \in Kind \X Stream : f[p] = x
      <4> SUFFICES ASSUME NEW x \in T PROVE \E p \in Kind \X Stream : f[p] = x
        OBVIOUS
      <4>1. PICK k \in Kind, s \in Stream : x = <<k, e, s>>
        BY <2>4
      <4>2. <<k, s>> \in Kind \X Stream /\ f[<<k, s>>] = <<k, e, s>>
        OBVIOUS
      <4> QED BY <4>1, <4>2
    <3> HIDE DEF f, T
    <3>3. f \in Surjection(Kind \X Stream, T)
      BY <3>1, <3>2 DEF Surjection
    <3>4. IsFiniteSet(T)
      BY <2>5, <3>3, FS_Surjection
    <3> QED BY <3>4 DEF T
  <2> QED BY <2>1, <2>6, FS_Product DEF PossibleIn
<1>2. IsFiniteSet({PossibleIn(e) : e \in Exec})
  <2> DEFINE T == {PossibleIn(e) : e \in Exec}
             f == [e \in Exec |-> PossibleIn(e)]
  <2>1. f \in Surjection(Exec, T)
    BY DEF Surjection
  <2>2. IsFiniteSet(Exec)
    <3>1. 1 \in Int /\ Execs \in Int
      BY ExecAssumption
    <3> QED BY <3>1, FS_Interval DEF Exec
  <2> HIDE DEF f, T
  <2>3. IsFiniteSet(T)
    BY <2>1, <2>2, FS_Surjection
  <2> QED BY <2>3 DEF T
<1> QED BY <1>1, <1>2, FS_UNION DEF Possible

\* What the lines in a buffered writer are, and which copiers are there.
Buffered(e, s) ==
  /\ \A x \in Range(held[e][s]) : x.no \in 1 .. Len(Writes[e]) /\ Writes[e][x.no] = s
  /\ copier[e][s] \in {"grow", "copy"} => held[e][s] # <<>>
  /\ copier[e][s] = "drain" => held[e][s] = <<>>
  /\ e > now \/ (e = now /\ pc = "output") => copier[e][s] = "none"

Buffers == \A e \in Exec : \A s \in Stream : Buffered(e, s)

LEMMA InitBuffers == Init => Buffers
<1> SUFFICES ASSUME Init, NEW e \in Exec, NEW s \in Stream PROVE Buffered(e, s)
  BY DEF Buffers
<1>1. held[e][s] = <<>> /\ copier[e][s] = "none"
  BY DEF Init
<1> QED BY <1>1, RangeFacts DEF Buffered

LEMMA BuffersStep ==
  ASSUME TypeOK, Flow, Buffers, [Next]_vars
  PROVE  Buffers'
<1>0. /\ now \in Nat /\ Exec \subseteq Nat
      /\ copier \in [Exec -> [Stream -> CopierState]]
      /\ held \in [Exec -> [Stream -> Seq(Line)]]
      /\ pipe \in [Exec -> [Stream -> Seq(Line)]]
  BY ExecAssumption, CopierTyped DEF TypeOK, Exec
<1> SUFFICES ASSUME NEW d \in Exec, NEW t \in Stream PROVE Buffered(d, t)'
  BY DEF Buffers
<1>1. Buffered(d, t) /\ Placed(d, t)
  BY DEF Buffers, Flow
<1>2. CASE Eval
  <2>1. held' = held
    BY <1>2 DEF Eval, Enter, ProcessOutput, StartChild, WaitChild, WaitOutput, Account,
       Leave, output
  <2>2. CASE ProcessOutput
    <3>1. /\ pc = "output" /\ now' = now /\ pc' \in {"start", "panic"}
          /\ copier' = copier \/ copier' = [copier EXCEPT ![now] = [s \in Stream |-> "scan"]]
      BY <2>2 DEF ProcessOutput
    <3>2. copier'[d][t] = copier[d][t] \/ (d = now /\ copier'[d][t] = "scan")
      BY <1>0, <3>1
    <3> QED BY <1>0, <1>1, <2>1, <3>1, <3>2 DEF Buffered
  <2>3. CASE Enter
    <3>1. now' = now + 1 /\ copier' = copier
      BY <2>3 DEF Enter, output
    <3> QED BY <1>0, <1>1, <2>1, <3>1 DEF Buffered
  <2>4. CASE StartChild \/ WaitChild \/ WaitOutput \/ Account \/ Leave
    <3>1. now' = now /\ copier' = copier /\ pc' # "output"
      BY <2>4 DEF StartChild, WaitChild, WaitOutput, Account, Leave, output
    <3> QED BY <1>0, <1>1, <2>1, <3>1 DEF Buffered
  <2> QED BY <1>2, <2>2, <2>3, <2>4 DEF Eval
<1>3. ASSUME NEW e \in Exec, Child(e) \/ Watchdog(e) PROVE Buffered(d, t)'
  <2>1. held' = held /\ copier' = copier /\ now' = now /\ pc' = pc
    BY <1>3 DEF Child, ChildWrites, ChildExits, Watchdog, Warn, output
  <2> QED BY <1>1, <2>1 DEF Buffered
<1>4. ASSUME NEW e \in Exec, NEW s \in Stream, Copier(e, s) PROVE Buffered(d, t)'
  <2>0. now' = now /\ pc' = pc
    BY <1>4, CopierStays
  <2>1. CASE CopierScans(e, s)
    <3>1. /\ copier[e][s] = "scan" /\ pipe[e][s] # <<>>
          /\ held' = [held EXCEPT ![e][s] = Append(held[e][s], Head(pipe[e][s]))]
          /\ copier' = copier \/ copier' = [copier EXCEPT ![e][s] = "grow"]
      BY <2>1 DEF CopierScans, Readable
    <3>2. CASE d = e /\ t = s
      <4>1. /\ held'[d][t] = Append(held[d][t], Head(pipe[d][t]))
            /\ copier[d][t] = "scan" /\ copier'[d][t] \in {"scan", "grow"}
        <5>1. held'[e][s] = Append(held[e][s], Head(pipe[e][s]))
          BY <1>0, <3>1
        <5>2. copier'[e][s] \in {"scan", "grow"}
          BY <1>0, <3>1
        <5> QED BY <3>1, <3>2, <5>1, <5>2
      <4>2. /\ pipe[d][t] \in Seq(Line) /\ held[d][t] \in Seq(Line)
            /\ Head(pipe[d][t]) \in Line /\ Head(pipe[d][t]) \in Range(pipe[d][t])
        <5>1. pipe[d][t] \in Seq(Line) /\ held[d][t] \in Seq(Line) /\ pipe[d][t] # <<>>
          BY <1>0, <3>1, <3>2
        <5> QED BY <5>1, RangeFacts
      <4>3. Range(held'[d][t]) = Range(held[d][t]) \union {Head(pipe[d][t])}
        BY <4>1, <4>2, RangeFacts
      <4>4. held'[d][t] # <<>>
        BY <4>1, <4>2
      <4> QED BY <1>1, <2>0, <4>1, <4>2, <4>3, <4>4 DEF Buffered, Placed
    <3>3. CASE ~ (d = e /\ t = s)
      <4>1. held'[d][t] = held[d][t] /\ copier'[d][t] = copier[d][t]
        BY <1>0, <3>1, <3>3
      <4> QED BY <1>1, <2>0, <4>1 DEF Buffered
    <3> QED BY <3>2, <3>3
  <2>2. CASE CopierEnds(e, s) \/ CopierGrows(e, s) \/ CopierDrains(e, s)
    <3>1. /\ held' = held
          /\ \/ copier' = copier
             \/ /\ copier[e][s] \in {"scan", "drain"}
                /\ copier' = [copier EXCEPT ![e][s] = "done"]
             \/ /\ copier[e][s] \in {"scan", "drain"} /\ held[e][s] # <<>>
                /\ copier' = [copier EXCEPT ![e][s] = "grow"]
             \/ /\ copier[e][s] = "grow" /\ copier' = [copier EXCEPT ![e][s] = "copy"]
      BY <2>2 DEF CopierEnds, CopierGrows, CopierDrains
    <3>2. \/ copier'[d][t] = copier[d][t]
          \/ /\ copier[d][t] \in {"scan", "drain", "grow"}
             /\ \/ copier'[d][t] = "done"
                \/ copier'[d][t] = "grow" /\ held[d][t] # <<>>
                \/ copier'[d][t] = "copy" /\ copier[d][t] = "grow"
      BY <1>0, <3>1
    <3> QED BY <1>1, <2>0, <3>1, <3>2 DEF Buffered
  <2>3. CASE CopierCopies(e, s)
    <3>1. /\ copier[e][s] = "copy"
          /\ \/ /\ copier' = [copier EXCEPT ![e][s] = "panicked"] /\ held' = held
             \/ /\ held' = [held EXCEPT ![e][s] = <<>>]
                /\ \/ copier' = [copier EXCEPT ![e][s] = "scan"]
                   \/ copier' = [copier EXCEPT ![e][s] = "drain"]
      BY <2>3 DEF CopierCopies
    <3>2. \/ copier'[d][t] = copier[d][t] /\ held'[d][t] = held[d][t]
          \/ /\ copier[d][t] = "copy"
             /\ \/ copier'[d][t] = "panicked" /\ held'[d][t] = held[d][t]
                \/ copier'[d][t] \in {"scan", "drain"} /\ held'[d][t] = <<>>
      <4>1. CASE ~ (d = e /\ t = s)
        BY <1>0, <3>1, <4>1
      <4>2. CASE d = e /\ t = s
        <5>1. /\ \A c : [copier EXCEPT ![e][s] = c][e][s] = c
              /\ \A h : [held EXCEPT ![e][s] = h][e][s] = h
          BY <1>0
        <5> QED BY <3>1, <4>2, <5>1
      <4> QED BY <4>1, <4>2
    <3> QED BY <1>1, <2>0, <3>2, RangeFacts DEF Buffered
  <2> QED BY <1>4, <2>1, <2>2, <2>3 DEF Copier
<1>5. CASE UNCHANGED vars
  BY <1>1, <1>5 DEF vars, Buffered
<1> QED BY <1>2, <1>3, <1>4, <1>5 DEF Next

\* Where a copier and the child leave the lines alone nothing moves.
LEMMA LinesStay ==
  ASSUME NEW e \in Exec, NEW s \in Stream,
         pipe'[e][s] = pipe[e][s], held'[e][s] = held[e][s], written'[e] = written[e],
         copier'[e][s] = copier[e][s] \/ {copier[e][s], copier'[e][s]} \subseteq {"none", "scan"}
  PROVE  /\ Scanned(e, s)' = Scanned(e, s) /\ Taken(e, s)' = Taken(e, s)
         /\ Fitted(e, s)' = Fitted(e, s) /\ Stored(e, s)' = Stored(e, s)
<1>1. Scanned(e, s)' = Scanned(e, s)
  BY DEF Scanned, Nos
<1>2. /\ copier'[e][s] \in {"grow", "copy", "panicked"} <=> copier[e][s] \in {"grow", "copy", "panicked"}
      /\ copier'[e][s] \in {"copy", "panicked"} <=> copier[e][s] \in {"copy", "panicked"}
  OBVIOUS
<1>3. Taken(e, s)' = Taken(e, s)
  BY <1>1, <1>2 DEF Taken, Nos
<1>4. Fitted(e, s)' = Fitted(e, s)
  BY <1>1, <1>2 DEF Fitted, Nos
<1>5. Stored(e, s)' = Stored(e, s)
  BY <1>1 DEF Stored, Nos
<1> QED BY <1>1, <1>3, <1>4, <1>5

\* What a copier takes out of the pipe, to keep or to drop it, is a line that
\* was in it.
LEMMA ScanMoves ==
  ASSUME TypeOK, Sorted, Flow, Buffers, NEW e \in Exec, NEW s \in Stream,
         CopierScans(e, s) \/ CopierDrains(e, s)
  PROVE  /\ Scanned(e, s) \subseteq Scanned(e, s)' /\ Taken(e, s) \subseteq Taken(e, s)'
         /\ Fitted(e, s) \subseteq Fitted(e, s)' /\ Stored(e, s) \subseteq Stored(e, s)'
         /\ ~ (Scanned(e, s)' \subseteq Scanned(e, s))
<1> DEFINE q == pipe[e][s]
           h == Head(q)
<1>1. /\ q \in Seq(Line) /\ q # <<>> /\ h \in Line /\ h \in Range(q)
      /\ held[e][s] \in Seq(Line) /\ copier[e][s] \in {"scan", "drain"}
      /\ pipe'[e][s] = Tail(q) /\ held'[e][s] \in {held[e][s], Append(held[e][s], h)}
      /\ copier'[e][s] \in {"scan", "drain", "grow"} /\ written' = written
  <2>1. /\ q \in Seq(Line) /\ held[e][s] \in Seq(Line)
        /\ pipe \in [Exec -> [Stream -> Seq(Line)]]
        /\ held \in [Exec -> [Stream -> Seq(Line)]]
        /\ copier \in [Exec -> [Stream -> CopierState]]
    BY CopierTyped DEF TypeOK
  <2>2. /\ q # <<>> /\ copier[e][s] \in {"scan", "drain"} /\ written' = written
        /\ pipe' = [pipe EXCEPT ![e][s] = Tail(q)]
        /\ held' = held \/ held' = [held EXCEPT ![e][s] = Append(held[e][s], h)]
        /\ copier' = copier \/ copier' = [copier EXCEPT ![e][s] = "grow"]
    BY DEF CopierScans, CopierDrains, Readable, process
  <2> HIDE DEF q
  <2>3. h \in Line /\ h \in Range(q)
    BY <2>1, <2>2, RangeFacts
  <2>4. copier'[e][s] \in {"scan", "drain", "grow"}
    BY <2>1, <2>2
  <2> HIDE DEF h
  <2>5. pipe'[e][s] = Tail(q) /\ held'[e][s] \in {held[e][s], Append(held[e][s], h)}
    BY <2>1, <2>2
  <2> QED BY <2>1, <2>2, <2>3, <2>4, <2>5
<1>2. Pending(e, s) /\ Placed(e, s)
  BY DEF Sorted, Flow
<1>3. h.no \in Nat /\ h.no \in 1 .. written[e] /\ Writes[e][h.no] = s
  <2>1. h.exec = e /\ h.no <= written[h.exec]
    BY <1>1, <1>2 DEF Pending, Own, UpTo
  <2>2. h.no \in 1 .. Len(Writes[e]) /\ Writes[e][h.no] = s
    BY <1>1, <1>2 DEF Placed
  <2>3. written[e] \in Nat /\ Len(Writes[e]) \in Nat
    BY ExecAssumption DEF TypeOK
  <2> QED BY <2>1, <2>2, <2>3
<1> HIDE DEF q, h
<1>4. Nos(pipe'[e][s]) \subseteq Nos(q) /\ h.no \notin Nos(pipe'[e][s]) /\ h.no \in Nos(q)
  <2>1. Range(Tail(q)) \subseteq Range(q)
    BY <1>1, RangeFacts
  <2>2. \A x \in Range(Tail(q)) : h.no < x.no /\ x.no \in Nat
    <3>1. Before(<<Head(q)>>, Tail(q))
      BY <1>1, <1>2, RisingFacts DEF Pending, q
    <3>2. \A x \in Range(q) : x.exec = e /\ x \in Line
      BY <1>1, <1>2, RangeFacts DEF Pending, Own, q
    <3>3. h = Head(q) /\ h \in Range(<<h>>)
      BY DEF h, Range
    <3> QED BY <1>1, <2>1, <3>1, <3>2, <3>3 DEF Before, Line
  <2> QED BY <1>1, <1>3, <2>1, <2>2 DEF Nos
<1>5. Nos(held'[e][s]) \subseteq Nos(held[e][s]) \union {h.no}
  <2>1. Range(Append(held[e][s], h)) = Range(held[e][s]) \union {h}
    BY <1>1, RangeFacts
  <2>2. Range(held'[e][s]) \subseteq Range(held[e][s]) \union {h}
    BY <1>1, <2>1
  <2>3. \A x \in Range(held'[e][s]) : x.no \in Nos(held[e][s]) \union {h.no}
    BY <2>2 DEF Nos
  <2> QED BY <2>3 DEF Nos
<1>6. /\ Scanned(e, s)' = {no \in 1 .. written[e] : Writes[e][no] = s} \ Nos(pipe'[e][s])
      /\ Scanned(e, s) = {no \in 1 .. written[e] : Writes[e][no] = s} \ Nos(q)
  BY <1>1 DEF Scanned, Nos, q
<1>7. /\ Scanned(e, s) \subseteq Scanned(e, s)'
      /\ h.no \in Scanned(e, s)' /\ h.no \notin Scanned(e, s)
  BY <1>3, <1>4, <1>6
<1>8. /\ Taken(e, s)' = {no \in Scanned(e, s)' :
             no \in Nos(held'[e][s]) => copier'[e][s] \in {"grow", "copy", "panicked"}}
      /\ Fitted(e, s)' = {no \in Scanned(e, s)' :
             no \in Nos(held'[e][s]) => copier'[e][s] \in {"copy", "panicked"}}
      /\ Stored(e, s)' = Scanned(e, s)' \ Nos(held'[e][s])
  BY DEF Taken, Fitted, Stored, Nos
<1>9. Taken(e, s) \subseteq Taken(e, s)' /\ Fitted(e, s) \subseteq Fitted(e, s)'
  BY <1>1, <1>5, <1>7, <1>8 DEF Taken, Fitted
<1>10. Stored(e, s) \subseteq Stored(e, s)'
  BY <1>5, <1>7, <1>8 DEF Stored
<1> QED BY <1>7, <1>9, <1>10

\* What a copier has in its buffered writer is neither in the pipe nor in the
\* buffer.
LEMMA HeldIsScanned ==
  ASSUME TypeOK, Sorted, Buffers, NEW e \in Exec, NEW s \in Stream,
         held[e][s] # <<>>
  PROVE  \E no \in Scanned(e, s) : no \in Nos(held[e][s])
<1> DEFINE x == Head(held[e][s])
<1>1. held[e][s] \in Seq(Line) /\ x \in Range(held[e][s]) /\ x \in Line
  <2>1. held[e][s] \in Seq(Line)
    BY DEF TypeOK
  <2> QED BY <2>1, RangeFacts
<1> HIDE DEF x
<1>2. Pending(e, s) /\ Buffered(e, s)
  BY DEF Sorted, Buffers
<1>3. x.exec = e /\ x.no <= written[e] /\ x.no \in 1 .. Len(Writes[e]) /\ Writes[e][x.no] = s
  BY <1>1, <1>2 DEF Pending, Own, UpTo, Buffered
<1>4. x.no \in Nat /\ written[e] \in Nat
  BY <1>1 DEF Line, TypeOK
<1>5. x.no \notin Nos(pipe[e][s])
  <2> SUFFICES ASSUME NEW y \in Range(pipe[e][s]) PROVE x.no # y.no
    BY DEF Nos
  <2>1. y.exec = e
    BY <1>2 DEF Pending, Own
  <2>2. x.no < y.no
    BY <1>1, <1>2, <1>3, <2>1 DEF Pending, Before
  <2>3. y \in Line
    <3>1. pipe[e][s] \in Seq(Line)
      BY DEF TypeOK
    <3> QED BY <3>1, RangeFacts
  <2> QED BY <1>4, <2>2, <2>3 DEF Line
<1>6. x.no \in Scanned(e, s)
  <2>1. x.no \in 1 .. written[e]
    BY <1>3, <1>4
  <2> QED BY <1>3, <1>5, <2>1 DEF Scanned
<1> QED BY <1>1, <1>6 DEF Nos

\* The end of the scanner, and the two steps of a write.
LEMMA EndMoves ==
  ASSUME TypeOK, Sorted, Buffers, NEW e \in Exec, NEW s \in Stream,
         CopierEnds(e, s) \/ CopierGrows(e, s)
  PROVE  /\ Scanned(e, s) \subseteq Scanned(e, s)' /\ Taken(e, s) \subseteq Taken(e, s)'
         /\ Fitted(e, s) \subseteq Fitted(e, s)' /\ Stored(e, s) \subseteq Stored(e, s)'
         /\ CopierRank(e, s) \in 0 .. 2 /\ CopierRank(e, s)' \in 0 .. 2
         /\ CopierRank(e, s) <= CopierRank(e, s)'
         /\ \/ CopierRank(e, s) < CopierRank(e, s)'
            \/ ~ (Taken(e, s)' \subseteq Taken(e, s))
            \/ ~ (Fitted(e, s)' \subseteq Fitted(e, s))
<1>1. /\ pipe' = pipe /\ held' = held /\ written' = written
      /\ \/ /\ copier[e][s] \in {"scan", "drain"} /\ held[e][s] = <<>>
            /\ copier'[e][s] = "done"
         \/ /\ copier[e][s] \in {"scan", "drain"} /\ held[e][s] # <<>>
            /\ copier'[e][s] = "grow"
         \/ /\ copier[e][s] = "grow" /\ held[e][s] # <<>> /\ copier'[e][s] = "copy"
  <2>1. copier \in [Exec -> [Stream -> CopierState]] /\ Buffered(e, s)
    BY CopierTyped DEF Buffers
  <2>2. CASE CopierEnds(e, s)
    BY <2>1, <2>2 DEF CopierEnds, process
  <2>3. CASE CopierGrows(e, s)
    BY <2>1, <2>3 DEF CopierGrows, Buffered, process
  <2> QED BY <2>2, <2>3
<1>2. Scanned(e, s)' = Scanned(e, s) /\ Stored(e, s)' = Stored(e, s)
  BY <1>1 DEF Scanned, Stored, Nos
<1>3. /\ Taken(e, s)' = {no \in Scanned(e, s) :
             no \in Nos(held[e][s]) => copier'[e][s] \in {"grow", "copy", "panicked"}}
      /\ Fitted(e, s)' = {no \in Scanned(e, s) :
             no \in Nos(held[e][s]) => copier'[e][s] \in {"copy", "panicked"}}
  BY <1>1, <1>2 DEF Taken, Fitted, Nos
<1>4. held[e][s] = <<>> => Nos(held[e][s]) = {}
  BY RangeFacts DEF Nos
<1>5. Taken(e, s) \subseteq Taken(e, s)' /\ Fitted(e, s) \subseteq Fitted(e, s)'
  BY <1>1, <1>3, <1>4 DEF Taken, Fitted
<1>6. /\ CopierRank(e, s) = 1
      /\ copier'[e][s] = "done" => CopierRank(e, s)' = 2
      /\ copier'[e][s] \in {"grow", "copy"} => CopierRank(e, s)' = 1
  BY <1>1 DEF CopierRank
<1>7. CASE copier'[e][s] = "done"
  BY <1>1, <1>2, <1>5, <1>6, <1>7
<1>8. CASE copier'[e][s] # "done"
  <2>0. held[e][s] # <<>>
    BY <1>1, <1>8
  <2>1. PICK no \in Scanned(e, s) : no \in Nos(held[e][s])
    BY <2>0, HeldIsScanned
  <2>2. CASE copier'[e][s] = "grow"
    <3>1. no \in Taken(e, s)' /\ no \notin Taken(e, s)
      BY <1>1, <1>3, <2>1, <2>2 DEF Taken
    <3> QED BY <1>2, <1>5, <1>6, <2>2, <3>1
  <2>3. CASE copier'[e][s] = "copy"
    <3>1. no \in Fitted(e, s)' /\ no \notin Fitted(e, s)
      BY <1>1, <1>3, <2>1, <2>3 DEF Fitted
    <3> QED BY <1>2, <1>5, <1>6, <2>3, <3>1
  <2> QED BY <1>1, <1>8, <2>2, <2>3
<1> QED BY <1>7, <1>8

LEMMA CopyMoves ==
  ASSUME TypeOK, Sorted, Buffers, NEW e \in Exec, NEW s \in Stream, CopierCopies(e, s)
  PROVE  /\ Scanned(e, s) \subseteq Scanned(e, s)' /\ Taken(e, s) \subseteq Taken(e, s)'
         /\ Fitted(e, s) \subseteq Fitted(e, s)' /\ Stored(e, s) \subseteq Stored(e, s)'
         /\ CopierRank(e, s) \in 0 .. 2 /\ CopierRank(e, s)' \in 0 .. 2
         /\ CopierRank(e, s) <= CopierRank(e, s)'
         /\ \/ CopierRank(e, s) < CopierRank(e, s)'
            \/ ~ (Stored(e, s)' \subseteq Stored(e, s))
<1>1. /\ pipe' = pipe /\ written' = written /\ copier[e][s] = "copy" /\ held[e][s] # <<>>
      /\ \/ held'[e][s] = held[e][s] /\ copier'[e][s] = "panicked"
         \/ held'[e][s] = <<>> /\ copier'[e][s] \in {"scan", "drain"}
  <2>1. copier \in [Exec -> [Stream -> CopierState]] /\ Buffered(e, s)
    BY CopierTyped DEF Buffers
  <2>2. held \in [Exec -> [Stream -> Seq(Line)]]
    BY DEF TypeOK
  <2> QED BY <2>1, <2>2 DEF CopierCopies, Buffered, process
<1>2. Scanned(e, s)' = Scanned(e, s)
  BY <1>1 DEF Scanned, Nos
<1>3. Taken(e, s) = Scanned(e, s) /\ Fitted(e, s) = Scanned(e, s) /\ CopierRank(e, s) = 1
  BY <1>1 DEF Taken, Fitted, CopierRank
<1>4. CASE copier'[e][s] = "panicked"
  <2>1. Taken(e, s)' = Scanned(e, s) /\ Fitted(e, s)' = Scanned(e, s)
    BY <1>2, <1>4 DEF Taken, Fitted
  <2>2. held'[e][s] = held[e][s]
    BY <1>1, <1>4
  <2>3. Stored(e, s)' = Stored(e, s) /\ CopierRank(e, s)' = 2
    BY <1>2, <1>4, <2>2 DEF Stored, Nos, CopierRank
  <2> QED BY <1>2, <1>3, <2>1, <2>3
<1>5. CASE copier'[e][s] # "panicked"
  <2>1. Range(held'[e][s]) = {} /\ copier'[e][s] \in {"scan", "drain"}
    BY <1>1, <1>5, RangeFacts
  <2>2. /\ Taken(e, s)' = Scanned(e, s) /\ Fitted(e, s)' = Scanned(e, s)
        /\ Stored(e, s)' = Scanned(e, s) /\ CopierRank(e, s)' = 1
    BY <1>2, <2>1 DEF Taken, Fitted, Stored, Nos, CopierRank
  <2>3. PICK no \in Scanned(e, s) : no \in Nos(held[e][s])
    BY <1>1, HeldIsScanned
  <2> QED BY <1>2, <1>3, <2>2, <2>3 DEF Stored
<1> QED BY <1>4, <1>5

\* A line written by the child is in the pipe.
LEMMA ChildMoves ==
  ASSUME TypeOK, NEW e \in Exec, ChildWrites(e), NEW d \in Exec, NEW t \in Stream
  PROVE  /\ Scanned(d, t)' = Scanned(d, t) /\ Taken(d, t)' = Taken(d, t)
         /\ Fitted(d, t)' = Fitted(d, t) /\ Stored(d, t)' = Stored(d, t)
         /\ written'[e] = written[e] + 1 /\ written[d] <= written'[d]
<1> DEFINE no == written[e] + 1
           s == Writes[e][no]
           l == [exec |-> e, no |-> no]
<1>1. /\ written[e] < Len(Writes[e])
      /\ pipe' = [pipe EXCEPT ![e][s] = Append(pipe[e][s], l)]
      /\ written' = [written EXCEPT ![e] = no] /\ held' = held /\ copier' = copier
  BY DEF ChildWrites
<1>2. /\ written \in [Exec -> Nat] /\ pipe \in [Exec -> [Stream -> Seq(Line)]]
      /\ no \in Nat /\ no \in 1 .. Len(Writes[e]) /\ s \in Stream /\ l \in Line /\ l.no = no
  <2>1. /\ written \in [Exec -> Nat] /\ Writes[e] \in Seq(Stream)
        /\ pipe \in [Exec -> [Stream -> Seq(Line)]]
    BY ExecAssumption DEF TypeOK
  <2>2. no \in Nat /\ no \in 1 .. Len(Writes[e])
    BY <1>1, <2>1
  <2>3. s \in Stream
    BY <2>1, <2>2
  <2> QED BY <2>1, <2>2, <2>3 DEF Line
<1>3. written'[e] = no /\ \A c \in Exec : written[c] \in Nat /\ written[c] <= written'[c]
  BY <1>1, <1>2
<1>4. CASE d # e
  <2>1. pipe'[d][t] = pipe[d][t] /\ written'[d] = written[d]
    <3> HIDE DEF s, l, no
    <3> QED BY <1>1, <1>2, <1>4
  <2> QED BY <1>1, <1>3, <2>1, LinesStay
<1>5. CASE d = e /\ t # s
  <2>1. pipe'[d][t] = pipe[d][t]
    <3> HIDE DEF s, l, no
    <3> QED BY <1>1, <1>2, <1>5
  <2>2. {k \in 1 .. written'[d] : Writes[d][k] = t} = {k \in 1 .. written[d] : Writes[d][k] = t}
    BY <1>2, <1>3, <1>5
  <2>3. Scanned(d, t)' = Scanned(d, t)
    BY <2>1, <2>2 DEF Scanned, Nos
  <2>4. /\ Taken(d, t)' = Taken(d, t) /\ Fitted(d, t)' = Fitted(d, t)
        /\ Stored(d, t)' = Stored(d, t)
    BY <1>1, <2>3 DEF Taken, Fitted, Stored, Nos
  <2> QED BY <1>3, <2>3, <2>4
<1>6. CASE d = e /\ t = s
  <2>1. Range(pipe'[d][t]) = Range(pipe[d][t]) \union {l}
    <3> HIDE DEF s, l, no
    <3>1. pipe'[d][t] = Append(pipe[d][t], l) /\ pipe[d][t] \in Seq(Line)
      BY <1>1, <1>2, <1>6
    <3> QED BY <1>2, <3>1, RangeFacts
  <2>2. Nos(pipe'[d][t]) = Nos(pipe[d][t]) \union {no}
    <3> HIDE DEF s, l, no
    <3> QED BY <1>2, <2>1 DEF Nos
  <2>3. 1 .. written'[d] = (1 .. written[d]) \union {no} /\ no \notin 1 .. written[d]
    BY <1>2, <1>3, <1>6
  <2>4. Scanned(d, t)' = {k \in 1 .. written'[d] : Writes[d][k] = t} \ Nos(pipe'[d][t])
    BY DEF Scanned, Nos
  <2>5. Scanned(d, t)' = Scanned(d, t)
    <3> HIDE DEF no, s, l
    <3> QED BY <2>2, <2>3, <2>4 DEF Scanned
  <2>6. /\ Taken(d, t)' = Taken(d, t) /\ Fitted(d, t)' = Fitted(d, t)
        /\ Stored(d, t)' = Stored(d, t)
    BY <1>1, <2>5 DEF Taken, Fitted, Stored, Nos
  <2> QED BY <1>3, <2>5, <2>6
<1> QED BY <1>4, <1>5, <1>6

\* What has happened is of what is possible.
Bounded ==
  \A k \in Kind : \A e \in Exec : \A s \in Stream :
    Happened(k, e, s) \subseteq 1 .. Len(Writes[e]) + 8

LEMMA HappenedBounded ==
  ASSUME TypeOK, Flow
  PROVE  Bounded
<1> SUFFICES ASSUME NEW k \in Kind, NEW e \in Exec, NEW s \in Stream
             PROVE  Happened(k, e, s) \subseteq 1 .. Len(Writes[e]) + 8
  BY DEF Bounded
<1>1. /\ Len(Writes[e]) \in Nat /\ written[e] \in Nat /\ written[e] <= Len(Writes[e])
  BY ExecAssumption DEF TypeOK, Flow, Numbered
<1>2. EvalRank(e) \in 0 .. 8
  BY DEF EvalRank
<1>3. ChildRank(e) \in 0 .. 8 /\ WatchRank(e) \in 0 .. 8 /\ CopierRank(e, s) \in 0 .. 8
  BY DEF ChildRank, WatchRank, CopierRank
<1>4. Scanned(e, s) \subseteq 1 .. written[e]
  BY DEF Scanned
<1>5. /\ Taken(e, s) \subseteq Scanned(e, s) /\ Fitted(e, s) \subseteq Scanned(e, s)
      /\ Stored(e, s) \subseteq Scanned(e, s)
  BY DEF Taken, Fitted, Stored
<1>6. \A n \in 0 .. 8 : 1 .. n \subseteq 1 .. Len(Writes[e]) + 8
  BY <1>1
<1>7. 1 .. written[e] \subseteq 1 .. Len(Writes[e]) + 8
  BY <1>1
<1> QED BY <1>2, <1>3, <1>4, <1>5, <1>6, <1>7 DEF Happened, Kind

\* It is enough to see how far each is.
LEMMA HappenedMore ==
  ASSUME \A e \in Exec :
           /\ EvalRank(e) \in Nat /\ EvalRank(e)' \in Nat /\ EvalRank(e) <= EvalRank(e)'
           /\ ChildRank(e) \in Nat /\ ChildRank(e)' \in Nat /\ ChildRank(e) <= ChildRank(e)'
           /\ WatchRank(e) \in Nat /\ WatchRank(e)' \in Nat /\ WatchRank(e) <= WatchRank(e)'
           /\ written[e] \in Nat /\ written'[e] \in Nat /\ written[e] <= written'[e],
         \A e \in Exec : \A s \in Stream :
           /\ CopierRank(e, s) \in Nat /\ CopierRank(e, s)' \in Nat
           /\ CopierRank(e, s) <= CopierRank(e, s)'
           /\ Scanned(e, s) \subseteq Scanned(e, s)'
           /\ Taken(e, s) \subseteq Taken(e, s)'
           /\ Fitted(e, s) \subseteq Fitted(e, s)'
           /\ Stored(e, s) \subseteq Stored(e, s)',
         \E e \in Exec :
           \/ EvalRank(e) < EvalRank(e)'
           \/ ChildRank(e) < ChildRank(e)'
           \/ WatchRank(e) < WatchRank(e)'
           \/ written[e] < written'[e]
           \/ \E s \in Stream :
                \/ CopierRank(e, s) < CopierRank(e, s)'
                \/ ~ (Scanned(e, s)' \subseteq Scanned(e, s))
                \/ ~ (Taken(e, s)' \subseteq Taken(e, s))
                \/ ~ (Fitted(e, s)' \subseteq Fitted(e, s))
                \/ ~ (Stored(e, s)' \subseteq Stored(e, s))
  PROVE  /\ \A k \in Kind : \A e \in Exec : \A s \in Stream :
              Happened(k, e, s) \subseteq Happened(k, e, s)'
         /\ \E k \in Kind : \E e \in Exec : \E s \in Stream :
              ~ (Happened(k, e, s)' \subseteq Happened(k, e, s))
<1>1. ASSUME NEW m \in Nat, NEW n \in Nat
      PROVE  /\ m <= n => 1 .. m \subseteq 1 .. n
             /\ m < n => ~ (1 .. n \subseteq 1 .. m)
  <2>1. m < n => n \in 1 .. n /\ n \notin 1 .. m
    OBVIOUS
  <2> QED BY <2>1
<1>11. ASSUME NEW e \in Exec, NEW s \in Stream
       PROVE  /\ Happened("eval", e, s) \subseteq Happened("eval", e, s)'
              /\ EvalRank(e) < EvalRank(e)' =>
                   ~ (Happened("eval", e, s)' \subseteq Happened("eval", e, s))
  <2> DEFINE m == EvalRank(e)
             n == EvalRank(e)'
  <2>1. m \in Nat /\ n \in Nat /\ m <= n
    OBVIOUS
  <2>2. Happened("eval", e, s) = 1 .. m /\ Happened("eval", e, s)' = 1 .. n
    BY DEF Happened
  <2> HIDE DEF m, n
  <2>3. /\ Happened("eval", e, s) \subseteq Happened("eval", e, s)'
        /\ m < n => ~ (Happened("eval", e, s)' \subseteq Happened("eval", e, s))
    BY <1>1, <2>1, <2>2
  <2> QED BY <2>3 DEF m, n
<1>12. ASSUME NEW e \in Exec, NEW s \in Stream
       PROVE  /\ Happened("child", e, s) \subseteq Happened("child", e, s)'
              /\ ChildRank(e) < ChildRank(e)' =>
                   ~ (Happened("child", e, s)' \subseteq Happened("child", e, s))
  <2> DEFINE m == ChildRank(e)
             n == ChildRank(e)'
  <2>1. m \in Nat /\ n \in Nat /\ m <= n
    OBVIOUS
  <2>2. Happened("child", e, s) = 1 .. m /\ Happened("child", e, s)' = 1 .. n
    BY DEF Happened
  <2> HIDE DEF m, n
  <2>3. /\ Happened("child", e, s) \subseteq Happened("child", e, s)'
        /\ m < n => ~ (Happened("child", e, s)' \subseteq Happened("child", e, s))
    BY <1>1, <2>1, <2>2
  <2> QED BY <2>3 DEF m, n
<1>13. ASSUME NEW e \in Exec, NEW s \in Stream
       PROVE  /\ Happened("watchdog", e, s) \subseteq Happened("watchdog", e, s)'
              /\ WatchRank(e) < WatchRank(e)' =>
                   ~ (Happened("watchdog", e, s)' \subseteq Happened("watchdog", e, s))
  <2> DEFINE m == WatchRank(e)
             n == WatchRank(e)'
  <2>1. m \in Nat /\ n \in Nat /\ m <= n
    OBVIOUS
  <2>2. Happened("watchdog", e, s) = 1 .. m /\ Happened("watchdog", e, s)' = 1 .. n
    BY DEF Happened
  <2> HIDE DEF m, n
  <2>3. /\ Happened("watchdog", e, s) \subseteq Happened("watchdog", e, s)'
        /\ m < n => ~ (Happened("watchdog", e, s)' \subseteq Happened("watchdog", e, s))
    BY <1>1, <2>1, <2>2
  <2> QED BY <2>3 DEF m, n
<1>14. ASSUME NEW e \in Exec, NEW s \in Stream
       PROVE  /\ Happened("copier", e, s) \subseteq Happened("copier", e, s)'
              /\ CopierRank(e, s) < CopierRank(e, s)' =>
                   ~ (Happened("copier", e, s)' \subseteq Happened("copier", e, s))
  <2> DEFINE m == CopierRank(e, s)
             n == CopierRank(e, s)'
  <2>1. m \in Nat /\ n \in Nat /\ m <= n
    OBVIOUS
  <2>2. Happened("copier", e, s) = 1 .. m /\ Happened("copier", e, s)' = 1 .. n
    BY DEF Happened
  <2> HIDE DEF m, n
  <2>3. /\ Happened("copier", e, s) \subseteq Happened("copier", e, s)'
        /\ m < n => ~ (Happened("copier", e, s)' \subseteq Happened("copier", e, s))
    BY <1>1, <2>1, <2>2
  <2> QED BY <2>3 DEF m, n
<1>15. ASSUME NEW e \in Exec, NEW s \in Stream
       PROVE  /\ Happened("written", e, s) \subseteq Happened("written", e, s)'
              /\ written[e] < written'[e] =>
                   ~ (Happened("written", e, s)' \subseteq Happened("written", e, s))
  <2> DEFINE m == written[e]
             n == written'[e]
  <2>1. m \in Nat /\ n \in Nat /\ m <= n
    OBVIOUS
  <2>2. Happened("written", e, s) = 1 .. m /\ Happened("written", e, s)' = 1 .. n
    BY DEF Happened
  <2> HIDE DEF m, n
  <2>3. /\ Happened("written", e, s) \subseteq Happened("written", e, s)'
        /\ m < n => ~ (Happened("written", e, s)' \subseteq Happened("written", e, s))
    BY <1>1, <2>1, <2>2
  <2> QED BY <2>3 DEF m, n
<1>16. ASSUME NEW e \in Exec, NEW s \in Stream
       PROVE  /\ Happened("scanned", e, s) \subseteq Happened("scanned", e, s)'
              /\ ~ (Scanned(e, s)' \subseteq Scanned(e, s)) =>
                   ~ (Happened("scanned", e, s)' \subseteq Happened("scanned", e, s))
  BY DEF Happened
<1>17. ASSUME NEW e \in Exec, NEW s \in Stream
       PROVE  /\ Happened("taken", e, s) \subseteq Happened("taken", e, s)'
              /\ ~ (Taken(e, s)' \subseteq Taken(e, s)) =>
                   ~ (Happened("taken", e, s)' \subseteq Happened("taken", e, s))
  BY DEF Happened
<1>19. ASSUME NEW e \in Exec, NEW s \in Stream
       PROVE  /\ Happened("fitted", e, s) \subseteq Happened("fitted", e, s)'
              /\ ~ (Fitted(e, s)' \subseteq Fitted(e, s)) =>
                   ~ (Happened("fitted", e, s)' \subseteq Happened("fitted", e, s))
  BY DEF Happened
<1>18. ASSUME NEW e \in Exec, NEW s \in Stream
       PROVE  /\ Happened("stored", e, s) \subseteq Happened("stored", e, s)'
              /\ ~ (Stored(e, s)' \subseteq Stored(e, s)) =>
                   ~ (Happened("stored", e, s)' \subseteq Happened("stored", e, s))
  BY DEF Happened
<1>3. /\ "out" \in Stream
      /\ "eval" \in Kind /\ "child" \in Kind /\ "watchdog" \in Kind /\ "copier" \in Kind
      /\ "written" \in Kind /\ "scanned" \in Kind /\ "taken" \in Kind /\ "stored" \in Kind
      /\ "fitted" \in Kind
  BY DEF Kind, Stream
<1>4. ASSUME NEW k \in Kind, NEW e \in Exec, NEW s \in Stream
      PROVE  Happened(k, e, s) \subseteq Happened(k, e, s)'
  <2>1. CASE k = "eval"
    BY <1>11, <2>1
  <2>2. CASE k = "child"
    BY <1>12, <2>2
  <2>3. CASE k = "watchdog"
    BY <1>13, <2>3
  <2>4. CASE k = "copier"
    BY <1>14, <2>4
  <2>5. CASE k = "written"
    BY <1>15, <2>5
  <2>6. CASE k = "scanned"
    BY <1>16, <2>6
  <2>7. CASE k = "taken"
    BY <1>17, <2>7
  <2>8. CASE k = "fitted"
    BY <1>19, <2>8
  <2>9. CASE k = "stored"
    BY <1>18, <2>9
  <2> QED BY <2>1, <2>2, <2>3, <2>4, <2>5, <2>6, <2>7, <2>8, <2>9 DEF Kind
<1>5. \E k \in Kind : \E e \in Exec : \E s \in Stream :
        ~ (Happened(k, e, s)' \subseteq Happened(k, e, s))
  <2>1. PICK e \in Exec :
          \/ EvalRank(e) < EvalRank(e)'
          \/ ChildRank(e) < ChildRank(e)'
          \/ WatchRank(e) < WatchRank(e)'
          \/ written[e] < written'[e]
          \/ \E s \in Stream :
               \/ CopierRank(e, s) < CopierRank(e, s)'
               \/ ~ (Scanned(e, s)' \subseteq Scanned(e, s))
               \/ ~ (Taken(e, s)' \subseteq Taken(e, s))
               \/ ~ (Fitted(e, s)' \subseteq Fitted(e, s))
               \/ ~ (Stored(e, s)' \subseteq Stored(e, s))
    OBVIOUS
  <2>2. CASE EvalRank(e) < EvalRank(e)'
    BY <1>3, <1>11, <2>2
  <2>3. CASE ChildRank(e) < ChildRank(e)'
    BY <1>3, <1>12, <2>3
  <2>4. CASE WatchRank(e) < WatchRank(e)'
    BY <1>3, <1>13, <2>4
  <2>5. CASE written[e] < written'[e]
    BY <1>3, <1>15, <2>5
  <2>6. ASSUME NEW s \in Stream, CopierRank(e, s) < CopierRank(e, s)'
        PROVE  ~ (Happened("copier", e, s)' \subseteq Happened("copier", e, s))
    BY <1>14, <2>6
  <2>7. ASSUME NEW s \in Stream,
               \/ ~ (Scanned(e, s)' \subseteq Scanned(e, s))
               \/ ~ (Taken(e, s)' \subseteq Taken(e, s))
               \/ ~ (Fitted(e, s)' \subseteq Fitted(e, s))
               \/ ~ (Stored(e, s)' \subseteq Stored(e, s))
        PROVE  \E k \in Kind : ~ (Happened(k, e, s)' \subseteq Happened(k, e, s))
    BY <1>3, <1>16, <1>17, <1>18, <1>19, <2>7
  <2> QED BY <1>3, <2>1, <2>2, <2>3, <2>4, <2>5, <2>6, <2>7
<1> QED BY <1>4, <1>5

\* The steps of Eval.
LEMMA EvalMoves ==
  ASSUME TypeOK, Phase, Flow, Buffers, Eval
  PROVE  /\ \A e \in Exec :
              /\ EvalRank(e) <= EvalRank(e)' /\ ChildRank(e) <= ChildRank(e)'
              /\ WatchRank(e) <= WatchRank(e)' /\ written'[e] = written[e]
         /\ \A e \in Exec : \A s \in Stream :
              /\ CopierRank(e, s) <= CopierRank(e, s)'
              /\ Scanned(e, s)' = Scanned(e, s) /\ Taken(e, s)' = Taken(e, s)
              /\ Fitted(e, s)' = Fitted(e, s) /\ Stored(e, s)' = Stored(e, s)
         /\ \E e \in Exec : EvalRank(e) < EvalRank(e)'
<1>0. /\ now \in Nat /\ now \in 0 .. Execs /\ Exec = 1 .. Execs /\ Execs \in Nat
      /\ child \in [Exec -> {"none", "running", "exited"}]
      /\ copier \in [Exec -> [Stream -> CopierState]]
      /\ watchdog \in [Exec -> {"none", "waiting", "warned", "gone"}]
      /\ pc \in {"idle", "output", "start", "wait", "waitOutput", "account",
                 "return", "panic", "aborted"}
      /\ pc # "idle" => now \in Exec
  <2>1. /\ now \in Nat /\ now \in 0 .. Execs /\ Exec = 1 .. Execs /\ Execs \in Nat
        /\ pc # "idle" => now > 0
    BY ExecAssumption DEF TypeOK, Phase, Exec
  <2>2. pc # "idle" => now \in Exec
    BY <2>1
  <2> QED BY <2>1, <2>2, CopierTyped DEF TypeOK
<1>1. pipe' = pipe /\ written' = written /\ held' = held
  BY DEF Eval, Enter, ProcessOutput, StartChild, WaitChild, WaitOutput, Account, Leave,
     process, output
<1>2. ASSUME NEW e \in Exec
      PROVE  EvalRank(e) <= EvalRank(e)' /\ ChildRank(e) <= ChildRank(e)'
             /\ WatchRank(e) <= WatchRank(e)'
  <2>0. e \in Nat
    BY <1>0
  <2>1. EvalRank(e) <= EvalRank(e)'
    BY <1>0, <2>0 DEF Eval, Enter, ProcessOutput, StartChild, WaitChild, WaitOutput, Account,
       Leave, EvalRank
  <2>2. ChildRank(e) <= ChildRank(e)'
    <3>1. CASE StartChild
      <4>1. child' = child \/ child' = [child EXCEPT ![now] = "running"]
        BY <3>1 DEF StartChild
      <4>2. child[now] = "none" /\ now \in Exec
        BY <1>0, <3>1 DEF StartChild, Phase
      <4>3. child'[e] = child[e] \/ (child[e] = "none" /\ child'[e] = "running")
        BY <1>0, <4>1, <4>2
      <4> QED BY <4>3 DEF ChildRank
    <3>2. CASE ~ StartChild
      <4>1. child' = child
        BY <3>2 DEF Eval, Enter, ProcessOutput, WaitChild, WaitOutput, Account, Leave, process
      <4> QED BY <4>1 DEF ChildRank
    <3> QED BY <3>1, <3>2
  <2>3. WatchRank(e) <= WatchRank(e)'
    <3>1. CASE Enter
      <4>1. watchdog' = [watchdog EXCEPT ![now + 1] = "waiting"] /\ now + 1 \in Exec
        BY <1>0, <3>1 DEF Enter
      <4>2. watchdog[now + 1] = "none"
        BY <1>0, <4>1 DEF Phase, Fresh
      <4>3. watchdog'[e] = watchdog[e] \/ (watchdog[e] = "none" /\ watchdog'[e] = "waiting")
        BY <1>0, <4>1, <4>2
      <4> QED BY <4>3 DEF WatchRank
    <3>2. CASE Leave
      <4>1. watchdog' = [watchdog EXCEPT ![now] = "gone"] /\ watchdog[now] = "waiting"
        BY <3>2 DEF Leave, WatchdogReceives
      <4>2. watchdog'[e] = watchdog[e] \/ (watchdog[e] = "waiting" /\ watchdog'[e] = "gone")
        BY <1>0, <4>1
      <4> QED BY <4>2 DEF WatchRank
    <3>3. CASE ~ Enter /\ ~ Leave
      <4>1. watchdog' = watchdog
        BY <3>3 DEF Eval, ProcessOutput, StartChild, WaitChild, WaitOutput, Account
      <4> QED BY <4>1 DEF WatchRank
    <3> QED BY <3>1, <3>2, <3>3
  <2> QED BY <2>1, <2>2, <2>3
<1>3. ASSUME NEW e \in Exec, NEW s \in Stream
      PROVE  /\ CopierRank(e, s) <= CopierRank(e, s)'
             /\ Scanned(e, s)' = Scanned(e, s) /\ Taken(e, s)' = Taken(e, s)
             /\ Fitted(e, s)' = Fitted(e, s) /\ Stored(e, s)' = Stored(e, s)
  <2>1. copier'[e][s] = copier[e][s] \/ (copier[e][s] = "none" /\ copier'[e][s] = "scan")
    <3>1. CASE ProcessOutput
      <4>1. /\ copier' = copier \/ copier' = [copier EXCEPT ![now] = [t \in Stream |-> "scan"]]
            /\ pc = "output"
        BY <3>1 DEF ProcessOutput
      <4>2. e = now => copier[e][s] = "none"
        BY <4>1 DEF Buffers, Buffered
      <4>3. copier'[e][s] = copier[e][s] \/ (e = now /\ copier'[e][s] = "scan")
        BY <1>0, <4>1
      <4> QED BY <4>2, <4>3
    <3>2. CASE ~ ProcessOutput
      BY <3>2 DEF Eval, Enter, StartChild, WaitChild, WaitOutput, Account, Leave, output
    <3> QED BY <3>1, <3>2
  <2>2. CopierRank(e, s) <= CopierRank(e, s)'
    BY <2>1 DEF CopierRank
  <2> QED BY <1>1, <2>1, <2>2, LinesStay
<1>4. \E e \in Exec : EvalRank(e) < EvalRank(e)'
  <2>1. CASE Enter
    <3>1. pc = "idle" /\ now' = now + 1 /\ pc' = "output" /\ now + 1 \in Exec
      BY <1>0, <2>1 DEF Enter
    <3>2. PICK e \in Exec : e = now + 1
      BY <3>1
    <3>3. EvalRank(e) = 0
      BY <1>0, <3>2 DEF EvalRank
    <3>4. EvalRank(e)' = 1
      BY <1>0, <3>1, <3>2 DEF EvalRank
    <3> QED BY <3>3, <3>4
  <2>2. CASE ~ Enter
    <3>1. now \in Exec /\ now' = now
      BY <1>0, <2>2 DEF Eval, ProcessOutput, StartChild, WaitChild, WaitOutput, Account, Leave
    <3>2. PICK e \in Exec : e = now
      BY <3>1
    <3>3. e \in Nat /\ ~ (e < now) /\ ~ (e > now)
      BY <1>0, <3>2
    <3>4. EvalRank(e) < EvalRank(e)'
      BY <1>0, <2>2, <3>1, <3>2, <3>3
         DEF Eval, ProcessOutput, StartChild, WaitChild, WaitOutput, Account, Leave, EvalRank
    <3> QED BY <3>4
  <2> QED BY <2>1, <2>2
<1> QED BY <1>1, <1>2, <1>3, <1>4

\* The other steps leave Eval where it is.
Onward ==
  /\ \A e \in Exec :
       /\ EvalRank(e)' = EvalRank(e) /\ ChildRank(e) <= ChildRank(e)'
       /\ WatchRank(e) <= WatchRank(e)' /\ written[e] <= written'[e]
  /\ \A e \in Exec : \A s \in Stream :
       /\ CopierRank(e, s) <= CopierRank(e, s)'
       /\ Scanned(e, s) \subseteq Scanned(e, s)'
       /\ Taken(e, s) \subseteq Taken(e, s)'
       /\ Fitted(e, s) \subseteq Fitted(e, s)'
       /\ Stored(e, s) \subseteq Stored(e, s)'
  /\ \E e \in Exec :
       \/ ChildRank(e) < ChildRank(e)'
       \/ WatchRank(e) < WatchRank(e)'
       \/ written[e] < written'[e]
       \/ \E s \in Stream :
            \/ CopierRank(e, s) < CopierRank(e, s)'
            \/ ~ (Scanned(e, s)' \subseteq Scanned(e, s))
            \/ ~ (Taken(e, s)' \subseteq Taken(e, s))
            \/ ~ (Fitted(e, s)' \subseteq Fitted(e, s))
            \/ ~ (Stored(e, s)' \subseteq Stored(e, s))

LEMMA OthersMove ==
  ASSUME TypeOK, Sorted, Flow, Buffers, Next, ~ Eval
  PROVE  Onward
<1>0. /\ child \in [Exec -> {"none", "running", "exited"}]
      /\ copier \in [Exec -> [Stream -> CopierState]]
      /\ watchdog \in [Exec -> {"none", "waiting", "warned", "gone"}]
      /\ written \in [Exec -> Nat]
      /\ pipe \in [Exec -> [Stream -> Seq(Line)]]
      /\ held \in [Exec -> [Stream -> Seq(Line)]]
  BY CopierTyped DEF TypeOK
<1>1. now' = now /\ pc' = pc
  BY CopierStays DEF Next, Child, ChildWrites, ChildExits, Watchdog, Warn
<1>2. \A e \in Exec : EvalRank(e)' = EvalRank(e)
  BY <1>1 DEF EvalRank
<1>a. \A e \in Exec : ChildRank(e) \in Nat /\ WatchRank(e) \in Nat
  BY DEF ChildRank, WatchRank
<1>b. \A e \in Exec : \A s \in Stream : CopierRank(e, s) \in Nat
  BY DEF CopierRank
<1>3. ASSUME NEW d \in Exec, ChildWrites(d) PROVE Onward
  <2>1. child' = child /\ watchdog' = watchdog /\ copier' = copier
    BY <1>3 DEF ChildWrites
  <2>2. \A e \in Exec : ChildRank(e)' = ChildRank(e) /\ WatchRank(e)' = WatchRank(e)
    BY <2>1 DEF ChildRank, WatchRank
  <2>3. \A e \in Exec : \A s \in Stream : CopierRank(e, s)' = CopierRank(e, s)
    BY <2>1 DEF CopierRank
  <2>4. \A e \in Exec : \A s \in Stream :
          /\ Scanned(e, s)' = Scanned(e, s) /\ Taken(e, s)' = Taken(e, s)
          /\ Fitted(e, s)' = Fitted(e, s) /\ Stored(e, s)' = Stored(e, s)
          /\ written'[d] = written[d] + 1 /\ written[e] <= written'[e]
    BY <1>3, ChildMoves
  <2>5. "out" \in Stream /\ written[d] \in Nat
    BY <1>0 DEF Stream
  <2>6. written[d] < written'[d]
    BY <2>4, <2>5
  <2> QED BY <1>2, <1>a, <1>b, <2>2, <2>3, <2>4, <2>5, <2>6 DEF Onward
<1>4. ASSUME NEW d \in Exec, ChildExits(d) \/ Warn(d) PROVE Onward
  <2>1. /\ copier' = copier /\ pipe' = pipe /\ held' = held /\ written' = written
    BY <1>4 DEF ChildExits, Warn, process, output
  <2>2. \A e \in Exec : \A s \in Stream :
          /\ CopierRank(e, s)' = CopierRank(e, s)
          /\ Scanned(e, s)' = Scanned(e, s) /\ Taken(e, s)' = Taken(e, s)
          /\ Fitted(e, s)' = Fitted(e, s) /\ Stored(e, s)' = Stored(e, s)
    <3> SUFFICES ASSUME NEW e \in Exec, NEW s \in Stream
                 PROVE  /\ CopierRank(e, s)' = CopierRank(e, s)
                        /\ Scanned(e, s)' = Scanned(e, s) /\ Taken(e, s)' = Taken(e, s)
                        /\ Fitted(e, s)' = Fitted(e, s) /\ Stored(e, s)' = Stored(e, s)
      OBVIOUS
    <3>1. CopierRank(e, s)' = CopierRank(e, s)
      BY <2>1 DEF CopierRank
    <3> QED BY <2>1, <3>1, LinesStay
  <2>3. \A e \in Exec : written[e] <= written'[e]
    BY <1>0, <2>1
  <2>4. /\ \A e \in Exec : ChildRank(e) <= ChildRank(e)' /\ WatchRank(e) <= WatchRank(e)'
        /\ ChildRank(d) < ChildRank(d)' \/ WatchRank(d) < WatchRank(d)'
    <3>1. CASE ChildExits(d)
      <4>1. /\ child[d] = "running" /\ child'[d] = "exited" /\ watchdog' = watchdog
            /\ \A e \in Exec : e # d => child'[e] = child[e]
        BY <1>0, <3>1 DEF ChildExits
      <4>2. ChildRank(d) = 1 /\ ChildRank(d)' = 2
        BY <4>1 DEF ChildRank
      <4>3. \A e \in Exec : e # d => ChildRank(e)' = ChildRank(e)
        BY <4>1 DEF ChildRank
      <4>4. \A e \in Exec : WatchRank(e)' = WatchRank(e)
        BY <4>1 DEF WatchRank
      <4> QED BY <1>a, <4>2, <4>3, <4>4
    <3>2. CASE Warn(d)
      <4>1. /\ watchdog[d] = "waiting" /\ watchdog'[d] = "warned" /\ child' = child
            /\ \A e \in Exec : e # d => watchdog'[e] = watchdog[e]
        BY <1>0, <3>2 DEF Warn, process
      <4>2. WatchRank(d) = 1 /\ WatchRank(d)' = 2
        BY <4>1 DEF WatchRank
      <4>3. \A e \in Exec : e # d => WatchRank(e)' = WatchRank(e)
        BY <4>1 DEF WatchRank
      <4>4. \A e \in Exec : ChildRank(e)' = ChildRank(e)
        BY <4>1 DEF ChildRank
      <4> QED BY <1>a, <4>2, <4>3, <4>4
    <3> QED BY <1>4, <3>1, <3>2
  <2> QED BY <1>2, <1>b, <2>2, <2>3, <2>4 DEF Onward
<1>5. ASSUME NEW d \in Exec, NEW t \in Stream, Copier(d, t) PROVE Onward
  <2>1. child' = child /\ watchdog' = watchdog /\ written' = written
    BY <1>5, CopierStays
  <2>2. \A e \in Exec : /\ ChildRank(e)' = ChildRank(e) /\ WatchRank(e)' = WatchRank(e)
                        /\ written[e] <= written'[e]
    BY <1>0, <2>1 DEF ChildRank, WatchRank
  <2>3. /\ pipe' = pipe \/ \E q : pipe' = [pipe EXCEPT ![d][t] = q]
        /\ held' = held \/ \E q : held' = [held EXCEPT ![d][t] = q]
        /\ copier' = copier \/ \E c : copier' = [copier EXCEPT ![d][t] = c]
    BY <1>5 DEF Copier, CopierScans, CopierDrains, CopierEnds, CopierGrows, CopierCopies
  <2>4. ASSUME NEW e \in Exec, NEW s \in Stream, ~ (e = d /\ s = t)
        PROVE  /\ CopierRank(e, s)' = CopierRank(e, s)
               /\ Scanned(e, s)' = Scanned(e, s) /\ Taken(e, s)' = Taken(e, s)
               /\ Fitted(e, s)' = Fitted(e, s) /\ Stored(e, s)' = Stored(e, s)
    <3>1. pipe'[e][s] = pipe[e][s]
      BY <1>0, <2>3, <2>4
    <3>2. held'[e][s] = held[e][s]
      BY <1>0, <2>3, <2>4
    <3>3. copier'[e][s] = copier[e][s]
      BY <1>0, <2>3, <2>4
    <3>4. CopierRank(e, s)' = CopierRank(e, s)
      BY <3>3 DEF CopierRank
    <3> QED BY <2>1, <3>1, <3>2, <3>3, <3>4, LinesStay
  <2>5. /\ CopierRank(d, t) <= CopierRank(d, t)'
        /\ Scanned(d, t) \subseteq Scanned(d, t)'
        /\ Taken(d, t) \subseteq Taken(d, t)'
        /\ Fitted(d, t) \subseteq Fitted(d, t)'
        /\ Stored(d, t) \subseteq Stored(d, t)'
        /\ \/ CopierRank(d, t) < CopierRank(d, t)'
           \/ ~ (Scanned(d, t)' \subseteq Scanned(d, t))
           \/ ~ (Taken(d, t)' \subseteq Taken(d, t))
           \/ ~ (Fitted(d, t)' \subseteq Fitted(d, t))
           \/ ~ (Stored(d, t)' \subseteq Stored(d, t))
    <3>1. CASE CopierScans(d, t) \/ CopierDrains(d, t)
      <4>1. /\ copier[d][t] \in {"scan", "drain"}
            /\ copier'[d][t] \in {"scan", "drain", "grow"}
        BY <1>0, <3>1 DEF CopierScans, CopierDrains
      <4>2. CopierRank(d, t) = 1 /\ CopierRank(d, t)' = 1
        BY <4>1 DEF CopierRank
      <4> QED BY <3>1, <4>2, ScanMoves
    <3>2. CASE CopierEnds(d, t) \/ CopierGrows(d, t)
      BY <3>2, EndMoves
    <3>3. CASE CopierCopies(d, t)
      BY <3>3, CopyMoves
    <3> QED BY <1>5, <3>1, <3>2, <3>3 DEF Copier
  <2>6. ASSUME NEW e \in Exec, NEW s \in Stream
        PROVE  /\ CopierRank(e, s) <= CopierRank(e, s)'
               /\ Scanned(e, s) \subseteq Scanned(e, s)'
               /\ Taken(e, s) \subseteq Taken(e, s)'
               /\ Fitted(e, s) \subseteq Fitted(e, s)'
               /\ Stored(e, s) \subseteq Stored(e, s)'
    <3>1. CASE e = d /\ s = t
      BY <2>5, <3>1
    <3>2. CASE ~ (e = d /\ s = t)
      BY <1>b, <2>4, <3>2
    <3> QED BY <3>1, <3>2
  <2> QED BY <1>2, <1>a, <2>2, <2>5, <2>6 DEF Onward
<1> QED BY <1>3, <1>4, <1>5 DEF Next, Child, Watchdog

\* Every step of an execution, of its command, its copiers or its watchdog
\* does something new of what is finite: a run of executions takes finitely
\* many steps, whatever the commands write and however they are scheduled.
THEOREM ExecStepsAreFinite ==
  IsFiniteSet(Possible) /\ (Spec => [][Done \subseteq Done' /\ Done # Done']_vars)
<1>1. ASSUME TypeOK, TypeOK', Phase, Sorted, Flow, Buffers, Bounded, Bounded', Next
      PROVE  Done \subseteq Done' /\ Done # Done'
  <2>1. /\ \A e \in Exec :
             /\ EvalRank(e) \in Nat /\ EvalRank(e)' \in Nat
             /\ ChildRank(e) \in Nat /\ ChildRank(e)' \in Nat
             /\ WatchRank(e) \in Nat /\ WatchRank(e)' \in Nat
             /\ written[e] \in Nat /\ written'[e] \in Nat
        /\ \A e \in Exec : \A s \in Stream :
             CopierRank(e, s) \in Nat /\ CopierRank(e, s)' \in Nat
    <3>1. ASSUME NEW e \in Exec
          PROVE  /\ EvalRank(e) \in Nat /\ EvalRank(e)' \in Nat
                 /\ ChildRank(e) \in Nat /\ ChildRank(e)' \in Nat
                 /\ WatchRank(e) \in Nat /\ WatchRank(e)' \in Nat
      BY DEF EvalRank, ChildRank, WatchRank
    <3>2. ASSUME NEW e \in Exec PROVE written[e] \in Nat /\ written'[e] \in Nat
      BY <1>1 DEF TypeOK
    <3>3. ASSUME NEW e \in Exec, NEW s \in Stream
          PROVE  CopierRank(e, s) \in Nat /\ CopierRank(e, s)' \in Nat
      BY DEF CopierRank
    <3> QED BY <3>1, <3>2, <3>3
  <2>2. /\ \A e \in Exec :
             /\ EvalRank(e) <= EvalRank(e)' /\ ChildRank(e) <= ChildRank(e)'
             /\ WatchRank(e) <= WatchRank(e)' /\ written[e] <= written'[e]
        /\ \A e \in Exec : \A s \in Stream :
             /\ CopierRank(e, s) <= CopierRank(e, s)'
             /\ Scanned(e, s) \subseteq Scanned(e, s)'
             /\ Taken(e, s) \subseteq Taken(e, s)'
             /\ Fitted(e, s) \subseteq Fitted(e, s)'
             /\ Stored(e, s) \subseteq Stored(e, s)'
        /\ \E e \in Exec :
             \/ EvalRank(e) < EvalRank(e)'
             \/ ChildRank(e) < ChildRank(e)'
             \/ WatchRank(e) < WatchRank(e)'
             \/ written[e] < written'[e]
             \/ \E s \in Stream :
                  \/ CopierRank(e, s) < CopierRank(e, s)'
                  \/ ~ (Scanned(e, s)' \subseteq Scanned(e, s))
                  \/ ~ (Taken(e, s)' \subseteq Taken(e, s))
                  \/ ~ (Fitted(e, s)' \subseteq Fitted(e, s))
                  \/ ~ (Stored(e, s)' \subseteq Stored(e, s))
    <3>1. CASE Eval
      BY <1>1, <2>1, <3>1, EvalMoves
    <3>2. CASE ~ Eval
      <4>1. Onward
        BY <1>1, <3>2, OthersMove
      <4> QED BY <2>1, <4>1 DEF Onward
    <3> QED BY <3>1, <3>2
  <2>3. /\ \A k \in Kind : \A e \in Exec : \A s \in Stream :
             Happened(k, e, s) \subseteq Happened(k, e, s)'
        /\ \E k \in Kind : \E e \in Exec : \E s \in Stream :
             ~ (Happened(k, e, s)' \subseteq Happened(k, e, s))
    BY <2>1, <2>2, HappenedMore
  <2>4. ASSUME NEW d \in Done PROVE d \in Done'
    <3>1. /\ d \in Possible /\ d[1][1] \in Kind /\ d[1][2] \in Exec /\ d[1][3] \in Stream
          /\ d[2] \in Happened(d[1][1], d[1][2], d[1][3])
      BY DEF Done, Possible, PossibleIn
    <3>2. d[2] \in Happened(d[1][1], d[1][2], d[1][3])'
      BY <2>3, <3>1
    <3>3. d \in Possible'
      BY <3>1 DEF Possible, PossibleIn, Exec, Kind, Stream
    <3> QED BY <3>2, <3>3 DEF Done
  <2>5. PICK k \in Kind, e \in Exec, s \in Stream :
          ~ (Happened(k, e, s)' \subseteq Happened(k, e, s))
    BY <2>3
  <2>6. PICK n \in Happened(k, e, s)' : n \notin Happened(k, e, s)
    BY <2>5
  <2>7. n \in 1 .. Len(Writes[e]) + 8
    BY <1>1, <2>6 DEF Bounded, Exec, Kind, Stream
  <2> DEFINE d == <<<<k, e, s>>, n>>
  <2>8. d \in Possible
    BY <2>7 DEF Possible, PossibleIn
  <2>9. d \in Done' /\ d \notin Done
    BY <2>6, <2>8 DEF Done
  <2> QED BY <2>4, <2>9
<1>2. TypeOK /\ Phase /\ Sorted /\ Flow => (Buffers /\ [Next]_vars => Buffers')
  BY BuffersStep
<1>3. TypeOK /\ Flow => Bounded
  BY HappenedBounded
<1>4. ExecInv => TypeOK /\ Phase /\ Sorted
  BY DEF ExecInv
<1>5. TypeOK /\ TypeOK' /\ Phase /\ Sorted /\ Flow /\ Buffers /\ Bounded /\ Bounded' /\ [Next]_vars
        => [Done \subseteq Done' /\ Done # Done']_vars
  BY <1>1
<1>6. Spec => [](ExecInv /\ Flow)
  BY FlowInvariant
<1>7. Spec => []Buffers
  BY <1>2, <1>4, <1>6, InitBuffers, PTL DEF Spec
<1>8. Spec => [](TypeOK /\ Phase /\ Sorted /\ Flow /\ Buffers /\ Bounded)
  BY <1>3, <1>4, <1>6, <1>7, PTL
<1>9. Spec => [][Done \subseteq Done' /\ Done # Done']_vars
  BY <1>5, <1>8, PTL DEF Spec
<1> QED BY <1>9, PossibleIsFinite
=============================================================================
