--------------------------- MODULE CompilerProofs ---------------------------
(***************************************************************************)
(* Proofs about Compiler, for every layout, number of folders and number   *)
(* of compilations: types and what a crash needs; that no file is lost;    *)
(* and that the first compilation meets each path once.                    *)
(***************************************************************************)
EXTENDS Compiler, SequenceTheorems, TLAPS

-----------------------------------------------------------------------------
(***************************************************************************)
(* The inductive invariant: a walker is at paths that are reached from its *)
(* folder, one that has found a link is at that link, and the walkers of   *)
(* later compilations have not begun.                                      *)
(***************************************************************************)
EntryOf(w) == [op : {"visit", "list"}, path : Reach[layout][w[2]]]

Typed ==
  /\ layout \in Layouts /\ gone \subseteq Path
  /\ symlinks \subseteq Path
  /\ round \in 1 .. Rounds
  /\ main \in {"reading", "compiled", "failed", "crashed"}
  /\ inputs \in [Path -> Nat]
  /\ at \in [Walker -> {"none", "walk", "store", "send", "done"}]
  /\ stack = [w \in Walker |-> stack[w]]

Within == \A w \in Walker : stack[w] \in Seq(Seq(EntryOf(w)))

Engaged ==
  \A w \in Walker :
    /\ at[w] \in {"store", "send"} => Calls(w)
    /\ at[w] = "store" => Real(Here(w).path) \in Path \ {Here(w).path}

Later == \A w \in Walker : w[1] > round => at[w] = "none"

InputsReached == \A p \in Path : inputs[p] > 0 => p \in Reached

CompilerInv == Typed /\ Within /\ Engaged /\ Later /\ InputsReached /\ CrashNeedsTwo

-----------------------------------------------------------------------------
(***************************************************************************)
(* What is reached.                                                        *)
(***************************************************************************)

\* A folder is reached from itself, and with a path what its directory has
\* and its link stands for.
LEMMA ReachClosed ==
  ASSUME NEW l \in Layouts, NEW f \in Folder
  PROVE  /\ Reach[l][f] \subseteq Path
         /\ f \in Reach[l][f]
         /\ \A p \in Reach[l][f] :
              /\ \A i \in DOMAIN l.kids[p] : l.kids[p][i] \in Reach[l][f]
              /\ l.real[p] # Nowhere => l.real[p] \in Reach[l][f]
<1> DEFINE R == {p \in Path : \A S \in Surround(l, f) : p \in S}
<1>1. Reach[l][f] = R
  BY DEF Reach
<1>2. f \in R
  BY CompilerAssumption DEF Surround
<1>3. ASSUME NEW p \in R
      PROVE  /\ \A i \in DOMAIN l.kids[p] : l.kids[p][i] \in R
             /\ l.real[p] # Nowhere => l.real[p] \in R
  <2>0. p \in Path
    OBVIOUS
  <2>1. \A q \in Beyond(l, p) : \A S \in Surround(l, f) : q \in S
    BY <1>3 DEF Surround
  <2>2. ASSUME NEW i \in DOMAIN l.kids[p] PROVE l.kids[p][i] \in R
    <3>1. l.kids[p] \in Seq(Path)
      BY <2>0, CompilerAssumption
    <3>2. l.kids[p][i] \in Path
      BY <3>1, ElementOfSeq
    <3>3. l.kids[p][i] \in Beyond(l, p)
      BY DEF Beyond
    <3> QED BY <2>1, <3>2, <3>3
  <2>3. ASSUME l.real[p] # Nowhere PROVE l.real[p] \in R
    <3>1. l.real[p] \in Path
      BY <2>0, <2>3, CompilerAssumption
    <3>2. CASE l.real[p] = p
      BY <3>2
    <3>3. CASE l.real[p] # p
      <4>1. l.real[p] \in Beyond(l, p)
        BY <2>3, <3>3 DEF Beyond
      <4> QED BY <2>1, <3>1, <4>1
    <3> QED BY <3>2, <3>3
  <2> QED BY <2>2, <2>3
<1> HIDE DEF R
<1> QED
  <2>1. R \subseteq Path
    BY DEF R
  <2> QED BY <1>1, <1>2, <1>3, <2>1

-----------------------------------------------------------------------------
(***************************************************************************)
(* Stacks of calls.                                                        *)
(***************************************************************************)

\* The entry a walker is at, and what is left, are made of entries.
LEMMA StackParts ==
  ASSUME NEW E, NEW s \in Seq(Seq(E)), s # <<>>
  PROVE  /\ s[1] \in Seq(E) /\ Tail(s) \in Seq(Seq(E))
         /\ s[1] # <<>> => s[1][1] \in E /\ Tail(s[1]) \in Seq(E)
  OBVIOUS

\* A call put before the rest of the stack.
LEMMA StackPush ==
  ASSUME NEW E, NEW c \in Seq(E), NEW s \in Seq(Seq(E))
  PROVE  <<c>> \o s \in Seq(Seq(E))
<1>1. <<c>> \in Seq(Seq(E))
  OBVIOUS
<1> QED BY <1>1, ConcatProperties

-----------------------------------------------------------------------------
(***************************************************************************)
(* Walkers.                                                                *)
(***************************************************************************)

\* What a walker is at, and what it leaves behind.
LEMMA HereReached ==
  ASSUME CompilerInv, NEW w \in Walker, Calls(w)
  PROVE  /\ Here(w) \in EntryOf(w)
         /\ Here(w).path \in Reach[layout][w[2]]
         /\ Here(w).path \in Path
         /\ Tail(stack[w][1]) \in Seq(EntryOf(w))
         /\ Tail(stack[w]) \in Seq(Seq(EntryOf(w)))
<1> DEFINE E == EntryOf(w)
<1>1. stack[w] \in Seq(Seq(E)) /\ stack[w] # <<>> /\ stack[w][1] # <<>>
  BY DEF CompilerInv, Within, Calls
<1>2. /\ stack[w][1][1] \in E
      /\ Tail(stack[w][1]) \in Seq(E) /\ Tail(stack[w]) \in Seq(Seq(E))
  <2> HIDE DEF E
  <2> QED BY <1>1, StackParts
<1>3. layout \in Layouts /\ w[2] \in Folder
  BY DEF CompilerInv, Typed, Walker
<1>4. Here(w).path \in Reach[layout][w[2]]
  BY <1>2 DEF Here, EntryOf
<1>5. Here(w).path \in Path
  BY <1>3, <1>4, ReachClosed
<1> QED BY <1>2, <1>4, <1>5 DEF Here

\* What is left of an entry to do is an entry.
LEMMA BelowReached ==
  ASSUME NEW w, NEW p \in Reach[layout][w[2]]
  PROVE  Below(p) \in Seq(EntryOf(w))
<1>1. List(p) \in EntryOf(w)
  BY DEF List, EntryOf
<1> HIDE DEF EntryOf
<1>2. <<List(p)>> \in Seq(EntryOf(w)) /\ <<>> \in Seq(EntryOf(w))
  BY <1>1
<1> QED BY <1>2 DEF Below

\* The entries of a folder that is listed.
LEMMA NamesReached ==
  ASSUME CompilerInv, NEW w \in Walker, Calls(w)
  PROVE  Names(Here(w).path) \in Seq(EntryOf(w))
<1> DEFINE q == Here(w).path
           E == EntryOf(w)
<1>1. q \in Reach[layout][w[2]] /\ q \in Path /\ layout \in Layouts /\ w[2] \in Folder
  BY HereReached DEF CompilerInv, Typed, Walker
<1>2. layout.kids[q] \in Seq(Path)
  BY <1>1, CompilerAssumption
<1>3. ASSUME NEW i \in DOMAIN layout.kids[q] PROVE Name(layout.kids[q][i]) \in E
  <2>1. layout.kids[q][i] \in Reach[layout][w[2]]
    BY <1>1, ReachClosed
  <2> QED BY <2>1 DEF Name, List, Visit, EntryOf
<1>4. DOMAIN layout.kids[q] = 1 .. Len(layout.kids[q]) /\ Len(layout.kids[q]) \in Nat
  BY <1>2
<1>5. Names(q) \in Seq(E)
  <2> HIDE DEF E
  <2> QED BY <1>3, <1>4 DEF Names
<1> QED BY <1>5

\* A walker that is at work belongs to a compilation that has begun.
LEMMA Begun ==
  ASSUME CompilerInv, NEW w \in Walker, at[w] # "none"
  PROVE  w[1] \in 1 .. round
BY DEF CompilerInv, Typed, Later, Walker

\* The step of one walker, if what it leaves is made of its entries.
LEMMA GoesKeeps ==
  ASSUME CompilerInv, main # "crashed", NEW w \in Walker, at[w] # "none",
         NEW to \in {"walk", "store", "send", "done"},
         NEW s \in Seq(Seq(EntryOf(w))), Goes(w, to, s),
         to \in {"store", "send"} => s = stack[w] /\ Calls(w),
         to = "store" => Real(Here(w).path) \in Path \ {Here(w).path}
  PROVE  CompilerInv'
<1>0. /\ layout' = layout /\ gone' = gone /\ symlinks' = symlinks
      /\ round' = round /\ main' = main /\ inputs' = inputs
      /\ at' = [at EXCEPT ![w] = to] /\ stack' = [stack EXCEPT ![w] = s]
  BY DEF Goes, disk, compile
<1>1. Typed'
  BY <1>0 DEF CompilerInv, Typed
<1>2. Within'
  <2> SUFFICES ASSUME NEW v \in Walker PROVE (stack[v] \in Seq(Seq(EntryOf(v))))'
    BY DEF Within
  <2>1. stack'[v] = IF v = w THEN s ELSE stack[v]
    BY <1>0 DEF CompilerInv, Typed
  <2>2. EntryOf(v)' = EntryOf(v)
    BY <1>0 DEF EntryOf
  <2> QED BY <2>1, <2>2 DEF CompilerInv, Within
<1>3. Engaged'
  <2> SUFFICES ASSUME NEW v \in Walker
               PROVE  /\ at'[v] \in {"store", "send"} => Calls(v)'
                      /\ at'[v] = "store" =>
                           Real(Here(v).path)' \in Path \ {Here(v).path'}
    BY DEF Engaged
  <2>1. CASE v = w
    BY <1>0, <2>1 DEF CompilerInv, Typed, Calls, Here, Real
  <2>2. CASE v # w
    BY <1>0, <2>2 DEF CompilerInv, Typed, Engaged, Calls, Here, Real
  <2> QED BY <2>1, <2>2
<1>4. Later'
  BY <1>0, Begun DEF CompilerInv, Typed, Later, Walker
<1>5. InputsReached'
  BY <1>0 DEF CompilerInv, InputsReached, Reached
<1>6. CrashNeedsTwo'
  BY <1>0 DEF CrashNeedsTwo
<1> QED BY <1>1, <1>2, <1>3, <1>4, <1>5, <1>6 DEF CompilerInv

\* A step of a walker that is walking keeps the invariant.
LEMMA WalkingKeeps ==
  ASSUME CompilerInv, main # "crashed", NEW w \in Walker,
         \/ WalkFails(w) \/ FindLink(w) \/ FindFile(w) \/ Pass(w)
         \/ ListFolder(w) \/ Returns(w) \/ WalkEnds(w)
  PROVE  CompilerInv'
<1> DEFINE E == EntryOf(w)
           q == Here(w).path
<1>1. at[w] # "none" /\ stack[w] \in Seq(Seq(E))
  BY DEF WalkFails, FindLink, FindFile, Pass, ListFolder, Returns, WalkEnds,
         Visits, CompilerInv, Within
<1>2. ASSUME Calls(w)
      PROVE  /\ Here(w) \in E /\ q \in Reach[layout][w[2]] /\ q \in Path
             /\ Tail(stack[w][1]) \in Seq(E) /\ Tail(stack[w]) \in Seq(Seq(E))
  BY <1>2, HereReached
<1>3. layout \in Layouts /\ w[2] \in Folder
  BY DEF CompilerInv, Typed, Walker
<1>4. CASE WalkFails(w)
  <2>1. Goes(w, "walk", Dropped(w)) /\ Dropped(w) \in Seq(Seq(E))
    BY <1>2, <1>4 DEF WalkFails, Visits, Dropped
  <2> QED BY <1>1, <2>1, GoesKeeps
<1>5. CASE FindLink(w)
  <2>1. Goes(w, "store", stack[w]) /\ Calls(w) /\ ~ Broken(q) /\ NewLink(q)
    BY <1>5 DEF FindLink, Visits
  <2>2. Real(q) \in Path \ {q}
    BY <1>2, <1>3, <2>1, CompilerAssumption DEF Broken, NewLink, Real
  <2> QED BY <1>1, <2>1, <2>2, GoesKeeps
<1>6. CASE FindFile(w)
  <2>1. Goes(w, "send", stack[w]) /\ Calls(w)
    BY <1>6 DEF FindFile, Visits
  <2> QED BY <1>1, <2>1, GoesKeeps
<1>7. CASE Pass(w)
  <2> DEFINE c == Below(q) \o Tail(stack[w][1])
  <2>1. Calls(w) /\ Goes(w, "walk", <<c>> \o Tail(stack[w]))
    BY <1>7 DEF Pass, Visits
  <2>2. Below(q) \in Seq(E)
    BY <1>2, <2>1, BelowReached
  <2>3. c \in Seq(E)
    BY <1>2, <2>1, <2>2, ConcatProperties
  <2>4. <<c>> \o Tail(stack[w]) \in Seq(Seq(E))
    <3> HIDE DEF c, E
    <3> QED BY <1>2, <2>1, <2>3, StackPush
  <2> QED BY <1>1, <2>1, <2>4, GoesKeeps
<1>8. CASE ListFolder(w)
  <2> DEFINE c == Names(q) \o Tail(stack[w][1])
  <2>1. Calls(w) /\ Goes(w, "walk", <<c>> \o Tail(stack[w]))
    BY <1>8 DEF ListFolder
  <2>2. Names(q) \in Seq(E)
    BY <2>1, NamesReached
  <2>3. c \in Seq(E)
    BY <1>2, <2>1, <2>2, ConcatProperties
  <2>4. <<c>> \o Tail(stack[w]) \in Seq(Seq(E))
    <3> HIDE DEF c, E
    <3> QED BY <1>2, <2>1, <2>3, StackPush
  <2> QED BY <1>1, <2>1, <2>4, GoesKeeps
<1>9. CASE Returns(w)
  <2>1. Goes(w, "walk", Tail(stack[w])) /\ Tail(stack[w]) \in Seq(Seq(E))
    <3>1. stack[w] # <<>> /\ Goes(w, "walk", Tail(stack[w]))
      BY <1>9 DEF Returns
    <3> HIDE DEF E
    <3> QED BY <1>1, <3>1, StackParts
  <2> QED BY <1>1, <2>1, GoesKeeps
<1>10. CASE WalkEnds(w)
  <2>1. Goes(w, "done", <<>>) /\ <<>> \in Seq(Seq(E))
    BY <1>10 DEF WalkEnds
  <2> QED BY <1>1, <2>1, GoesKeeps
<1> QED BY <1>4, <1>5, <1>6, <1>7, <1>8, <1>9, <1>10

\* The link is stored, and the walk of what it stands for begins.
LEMMA StoreLinkKeeps ==
  ASSUME CompilerInv, main # "crashed", NEW w \in Walker, StoreLink(w)
  PROVE  CompilerInv'
<1> DEFINE E == EntryOf(w)
           q == Here(w).path
           inner == <<Visit(Real(q))>>
           outer == AfterLink(q) \o Tail(stack[w][1])
           s == <<inner, outer>> \o Tail(stack[w])
<1>0. /\ layout' = layout /\ gone' = gone /\ round' = round
      /\ main' = main /\ inputs' = inputs
      /\ symlinks' = symlinks \union {Real(q)}
      /\ at[w] = "store" /\ at' = [at EXCEPT ![w] = "walk"]
      /\ stack' = [stack EXCEPT ![w] = s]
  BY DEF StoreLink, disk, compile, CompilerInv, Typed
<1>1. Calls(w) /\ Real(q) \in Path
  BY <1>0 DEF CompilerInv, Engaged
<1>2. /\ q \in Reach[layout][w[2]] /\ q \in Path
      /\ Tail(stack[w][1]) \in Seq(E) /\ Tail(stack[w]) \in Seq(Seq(E))
  BY <1>1, HereReached
<1>3. Real(q) \in Reach[layout][w[2]]
  <2>1. layout \in Layouts /\ w[2] \in Folder
    BY DEF CompilerInv, Typed, Walker
  <2>2. Real(q) # Nowhere
    BY <1>1, CompilerAssumption
  <2> QED BY <1>2, <2>1, <2>2, ReachClosed DEF Real
<1>4. s \in Seq(Seq(E))
  <2>1. inner \in Seq(E)
    BY <1>3 DEF Visit, EntryOf
  <2>2. AfterLink(q) \in Seq(E)
    BY <1>2, BelowReached DEF AfterLink
  <2>3. outer \in Seq(E)
    BY <1>2, <2>2, ConcatProperties
  <2> HIDE DEF inner, outer, E
  <2>4. <<inner, outer>> \in Seq(Seq(E))
    BY <2>1, <2>3
  <2> QED BY <1>2, <2>4, ConcatProperties
<1> HIDE DEF s
<1>5. Typed'
  BY <1>0, <1>1 DEF CompilerInv, Typed
<1>6. Within'
  <2> SUFFICES ASSUME NEW v \in Walker PROVE (stack[v] \in Seq(Seq(EntryOf(v))))'
    BY DEF Within
  <2>1. stack'[v] = IF v = w THEN s ELSE stack[v]
    BY <1>0 DEF CompilerInv, Typed
  <2>2. EntryOf(v)' = EntryOf(v)
    BY <1>0 DEF EntryOf
  <2> QED BY <1>4, <2>1, <2>2 DEF CompilerInv, Within
<1>7. Engaged'
  BY <1>0 DEF CompilerInv, Typed, Engaged, Calls, Here, Real
<1>8. Later'
  BY <1>0, Begun DEF CompilerInv, Typed, Later, Walker
<1>9. InputsReached'
  BY <1>0 DEF CompilerInv, InputsReached, Reached
<1>10. CrashNeedsTwo'
  BY <1>0 DEF CrashNeedsTwo
<1> QED BY <1>5, <1>6, <1>7, <1>8, <1>9, <1>10 DEF CompilerInv

-----------------------------------------------------------------------------
(***************************************************************************)
(* Compile, the runtime and the file system.                               *)
(***************************************************************************)

\* A folder that can be reached along a link has one.
LEMMA MapUsers ==
  ASSUME CompilerInv, NEW w \in Walker, UsesMap(w)
  PROVE  Linked(w[2]) /\ at[w] \notin {"none", "done"}
<1>1. Calls(w) /\ Real(Here(w).path) # Here(w).path /\ at[w] \notin {"none", "done"}
  BY DEF UsesMap, Visits, CompilerInv, Engaged
<1> QED BY <1>1, HereReached DEF Linked

\* The runtime notices two goroutines at the map: of two folders, or of the
\* same folder in two compilations.
LEMMA ThrowKeeps ==
  ASSUME CompilerInv, NEW v \in Walker, NEW w \in Walker, Throw(v, w)
  PROVE  CompilerInv'
<1>0. /\ v # w /\ main' = "crashed"
      /\ layout' = layout /\ gone' = gone /\ symlinks' = symlinks
      /\ round' = round /\ inputs' = inputs /\ at' = at /\ stack' = stack
  BY DEF Throw, disk, walk
<1>1. /\ Linked(w[2]) /\ at[w] \notin {"none", "done"}
      /\ Linked(v[2]) /\ at[v] \notin {"none", "done"}
  <2>1. UsesMap(v) /\ UsesMap(w)
    BY DEF Throw, UsesMap
  <2> QED BY <2>1, MapUsers
<1>2. /\ v = <<v[1], v[2]>> /\ v[1] \in 1 .. round /\ v[2] \in Folder
      /\ w = <<w[1], w[2]>> /\ w[1] \in 1 .. round /\ w[2] \in Folder
  BY <1>1, Begun DEF Walker
<1>3. round \in Nat
  BY DEF CompilerInv, Typed
<1>4. \/ \E f, g \in Folder : f # g /\ Linked(f) /\ Linked(g)
      \/ \E r \in 1 .. round - 1, f \in Folder : at[<<r, f>>] # "done"
  <2>1. CASE v[2] # w[2]
    BY <1>1, <1>2, <2>1
  <2>2. CASE v[2] = w[2] /\ v[1] < w[1]
    BY <1>1, <1>2, <1>3, <2>2
  <2>3. CASE v[2] = w[2] /\ w[1] < v[1]
    BY <1>1, <1>2, <1>3, <2>3
  <2>4. v[2] # w[2] \/ v[1] < w[1] \/ w[1] < v[1]
    BY <1>0, <1>2, <1>3
  <2> QED BY <2>1, <2>2, <2>3, <2>4
<1>5. CrashNeedsTwo'
  BY <1>0, <1>4 DEF CrashNeedsTwo, Linked, Real
<1>6. Typed'
  BY <1>0 DEF CompilerInv, Typed
<1>7. Within' /\ Later' /\ InputsReached'
  BY <1>0 DEF CompilerInv, Within, EntryOf, Later, InputsReached, Reached
<1>8. Engaged'
  BY <1>0 DEF CompilerInv, Engaged, Calls, Here, Real
<1> QED BY <1>5, <1>6, <1>7, <1>8 DEF CompilerInv

\* A path is received, and its file read.
LEMMA ReceiveKeeps ==
  ASSUME CompilerInv, NEW f \in Folder, Receive(f)
  PROVE  CompilerInv'
<1> DEFINE w == <<round, f>>
           E == EntryOf(w)
           q == Here(w).path
<1>0. /\ layout' = layout /\ gone' = gone /\ symlinks' = symlinks
      /\ round' = round /\ main = "reading" /\ main' \in {"reading", "failed"}
      /\ at[w] = "send" /\ at' = [at EXCEPT ![w] = "walk"]
      /\ stack' = [stack EXCEPT ![w] = Done(w)]
      /\ inputs' = inputs \/ inputs' = [inputs EXCEPT ![q] = @ + 1]
  BY DEF Receive, disk
<1>1. w \in Walker /\ w[2] = f
  BY DEF Walker, CompilerInv, Typed
<1> HIDE DEF w
<1>2. Calls(w)
  BY <1>0, <1>1 DEF CompilerInv, Engaged
<1>3. /\ q \in Reach[layout][f] /\ q \in Path
      /\ Tail(stack[w][1]) \in Seq(E) /\ Tail(stack[w]) \in Seq(Seq(E))
  BY <1>1, <1>2, HereReached
<1>4. Done(w) \in Seq(Seq(E))
  <2> HIDE DEF E
  <2> QED BY <1>3, StackPush DEF Done
<1>a. /\ inputs' \in [Path -> Nat]
      /\ \A p \in Path : inputs'[p] > 0 => inputs[p] > 0 \/ p = q
  <2> HIDE DEF q
  <2>1. inputs \in [Path -> Nat]
    BY DEF CompilerInv, Typed
  <2> QED BY <1>0, <1>3, <2>1
<1>5. Typed'
  <2>1. inputs' \in [Path -> Nat]
    BY <1>a
  <2>2. at' \in [Walker -> {"none", "walk", "store", "send", "done"}]
    BY <1>0 DEF CompilerInv, Typed
  <2>3. stack' = [v \in Walker |-> stack'[v]]
    BY <1>0 DEF CompilerInv, Typed
  <2> QED BY <1>0, <2>1, <2>2, <2>3 DEF CompilerInv, Typed
<1>6. Within'
  <2> SUFFICES ASSUME NEW v \in Walker PROVE (stack[v] \in Seq(Seq(EntryOf(v))))'
    BY DEF Within
  <2>1. stack'[v] = IF v = w THEN Done(w) ELSE stack[v]
    BY <1>0 DEF CompilerInv, Typed
  <2>2. EntryOf(v)' = EntryOf(v)
    BY <1>0 DEF EntryOf
  <2> QED BY <1>4, <2>1, <2>2 DEF CompilerInv, Within
<1>7. Engaged'
  BY <1>0 DEF CompilerInv, Typed, Engaged, Calls, Here, Real
<1>8. Later'
  BY <1>0, <1>1, Begun DEF CompilerInv, Typed, Later, Walker
<1>9. InputsReached'
  BY <1>0, <1>3, <1>a DEF CompilerInv, Typed, InputsReached, Reached
<1>10. CrashNeedsTwo'
  BY <1>0 DEF CrashNeedsTwo
<1> QED BY <1>5, <1>6, <1>7, <1>8, <1>9, <1>10 DEF CompilerInv

\* The end of a compilation and the beginning of the next.
LEMMA RoundKeeps ==
  ASSUME CompilerInv, Parse \/ CompileAgain \/ \E p \in Path : Remove(p),
         main # "crashed"
  PROVE  CompilerInv'
<1>1. CASE Parse \/ \E p \in Path : Remove(p)
  <2>0. /\ layout' = layout /\ gone' \subseteq Path /\ symlinks' = symlinks
        /\ round' = round /\ main' \in {main, "failed", "compiled"}
        /\ inputs' = inputs /\ at' = at /\ stack' = stack
    BY <1>1 DEF Parse, Remove, disk, compile, walk, CompilerInv, Typed
  <2>1. Typed' /\ Within' /\ Engaged' /\ Later' /\ InputsReached' /\ CrashNeedsTwo'
    BY <2>0 DEF CompilerInv, Typed, Within, EntryOf, Engaged, Calls, Here, Real,
                Later, InputsReached, Reached, CrashNeedsTwo
  <2> QED BY <2>1 DEF CompilerInv
<1>2. CASE CompileAgain
  <2>0. /\ layout' = layout /\ gone' = gone /\ symlinks' = symlinks
        /\ round < Rounds /\ round' = round + 1 /\ main' = "reading"
        /\ inputs' = Nothing /\ at' = Begins(round + 1) /\ stack' = stack
    BY <1>2 DEF CompileAgain, disk
  <2>1. Typed'
    BY <2>0, CompilerAssumption DEF CompilerInv, Typed, Nothing, Begins
  <2>2. Within' /\ InputsReached' /\ CrashNeedsTwo'
    BY <2>0 DEF CompilerInv, Within, EntryOf, InputsReached, Nothing, CrashNeedsTwo
  <2>3. Engaged'
    BY <2>0 DEF CompilerInv, Engaged, Begins, Calls, Here, Real
  <2>4. Later'
    BY <2>0 DEF CompilerInv, Typed, Later, Begins, Walker
  <2> QED BY <2>1, <2>2, <2>3, <2>4 DEF CompilerInv
<1> QED BY <1>1, <1>2

-----------------------------------------------------------------------------
(***************************************************************************)
(* The theorems.                                                           *)
(***************************************************************************)
LEMMA InitCompiler == Init => CompilerInv
<1> SUFFICES ASSUME Init PROVE CompilerInv
  OBVIOUS
<1>1. Typed
  BY CompilerAssumption DEF Init, Typed, Nothing
<1>2. Within
  <2> SUFFICES ASSUME NEW w \in Walker PROVE stack[w] \in Seq(Seq(EntryOf(w)))
    BY DEF Within
  <2>1. stack[w] = <<<<Visit(w[2])>>>>
    BY DEF Init
  <2>2. w[2] \in Reach[layout][w[2]]
    BY ReachClosed DEF Init, Walker
  <2>3. Visit(w[2]) \in EntryOf(w)
    BY <2>2 DEF Visit, EntryOf
  <2> HIDE DEF EntryOf
  <2>4. <<Visit(w[2])>> \in Seq(EntryOf(w))
    BY <2>3
  <2>5. <<<<Visit(w[2])>>>> \in Seq(Seq(EntryOf(w)))
    BY <2>4
  <2> QED BY <2>1, <2>5
<1>3. Engaged /\ Later /\ InputsReached /\ CrashNeedsTwo
  BY DEF Init, Engaged, Later, InputsReached, CrashNeedsTwo, Nothing, Walker
<1> QED BY <1>1, <1>2, <1>3 DEF CompilerInv

LEMMA NextCompiler == CompilerInv /\ [Next]_vars => CompilerInv'
<1> SUFFICES ASSUME CompilerInv, [Next]_vars PROVE CompilerInv'
  OBVIOUS
<1>1. CASE UNCHANGED vars
  <2>1. /\ layout' = layout /\ gone' = gone /\ symlinks' = symlinks
        /\ round' = round /\ main' = main /\ inputs' = inputs
        /\ at' = at /\ stack' = stack
    BY <1>1 DEF vars
  <2>2. Typed' /\ Within' /\ Later' /\ InputsReached'
    BY <2>1 DEF CompilerInv, Typed, Within, EntryOf, Later, InputsReached, Reached
  <2>3. Engaged'
    BY <2>1 DEF CompilerInv, Engaged, Calls, Here, Real
  <2>4. CrashNeedsTwo'
    BY <2>1 DEF CompilerInv, CrashNeedsTwo, Linked, Real
  <2> QED BY <2>2, <2>3, <2>4 DEF CompilerInv
<1>2. CASE Next
  <2>0. main # "crashed"
    BY <1>2 DEF Next
  <2>1. ASSUME NEW w \in Walker, Walk(w) PROVE CompilerInv'
    BY <2>0, <2>1, WalkingKeeps, StoreLinkKeeps DEF Walk
  <2>2. ASSUME NEW w \in Walker, NEW v \in Walker, Throw(v, w) PROVE CompilerInv'
    BY <2>2, ThrowKeeps
  <2>3. ASSUME NEW f \in Folder, Receive(f) PROVE CompilerInv'
    BY <2>3, ReceiveKeeps
  <2>4. ASSUME Parse \/ CompileAgain \/ \E p \in Path : Remove(p) PROVE CompilerInv'
    BY <2>0, <2>4, RoundKeeps
  <2> QED BY <1>2, <2>1, <2>2, <2>3, <2>4 DEF Next, Compile
<1> QED BY <1>1, <1>2

LEMMA CompilerInvariant == Spec => []CompilerInv
BY InitCompiler, NextCompiler, PTL DEF Spec

LEMMA WithinIsTyped == CompilerInv => TypeOK
<1> SUFFICES ASSUME CompilerInv PROVE TypeOK
  OBVIOUS
<1>1. ASSUME NEW w \in Walker PROVE stack[w] \in Seq(Seq(Entry))
  <2>1. EntryOf(w) \subseteq Entry
    BY ReachClosed DEF CompilerInv, Typed, Walker, EntryOf, Entry
  <2>2. Seq(EntryOf(w)) \subseteq Seq(Entry)
    <3> HIDE DEF EntryOf, Entry
    <3> QED BY <2>1
  <2>3. Seq(Seq(EntryOf(w))) \subseteq Seq(Seq(Entry))
    BY <2>2
  <2> QED BY <2>3 DEF CompilerInv, Within
<1> QED BY <1>1 DEF CompilerInv, Typed, TypeOK

\* The state of the compiler is well typed, the stacks of the recursive
\* listFiles included.
THEOREM CompilerTypeCorrect == Spec => []TypeOK
BY CompilerInvariant, WithinIsTyped, PTL

\* However many folders are walked and however often a process compiles, the
\* unguarded map ends it only if there are links below two folders, or if a
\* walker is left over from an earlier compilation.
THEOREM CrashesNeedTwo == Spec => []CrashNeedsTwo
<1>1. CompilerInv => CrashNeedsTwo
  BY DEF CompilerInv
<1> QED BY <1>1, CompilerInvariant, PTL

\* Links that lead anywhere do not make Compile read a file that is not below
\* the folders it was given, links followed.
THEOREM OnlyReachedIsRead == Spec => []InputsReached
<1>1. CompilerInv => InputsReached
  BY DEF CompilerInv
<1> QED BY <1>1, CompilerInvariant, PTL

-----------------------------------------------------------------------------
(***************************************************************************)
(* Nothing is lost: what a compilation has not read yet is ahead of a      *)
(* walker of it.  Said without induction: of a set of paths that has what  *)
(* the walkers are going to visit, what is in its directories, and what    *)
(* its links stand for that are not in the map, no file is missing that    *)
(* has not been read.                                                      *)
(***************************************************************************)
Kids(p) == {layout.kids[p][i] : i \in DOMAIN layout.kids[p]}

Covered(T) ==
  {e \in Entry : IF e.op = "visit" THEN e.path \in T ELSE Kids(e.path) \subseteq T}

Closing(T) ==
  \A p \in T :
    /\ Kids(p) \subseteq T
    /\ Real(p) \notin symlinks \union {p, Nowhere} => Real(p) \in T

Planned(T) == \A f \in Folder : stack[<<round, f>>] \in Seq(Seq(Covered(T)))

NoLinks == ~ \E f \in Folder : Linked(f)

Sound == Intact /\ main \in {"reading", "compiled"} /\ (round = 1 \/ NoLinks)

Lossless ==
  Sound => \A T \in SUBSET Path :
             Closing(T) /\ Planned(T) => Files \subseteq Read \union T

\* What a walker does that has found a file or a link, that is done, or that
\* has not begun; and what has been read.
Sending ==
  \A w \in Walker :
    /\ at[w] \in {"store", "send"} => Here(w).op = "visit"
    /\ at[w] = "send" => /\ Wanted(Here(w).path)
                         /\ Real(Here(w).path) \in symlinks \union {Here(w).path}

Resting ==
  \A w \in Walker :
    /\ at[w] = "done" => stack[w] = <<>>
    /\ w[1] > round => stack[w] = <<<<Visit(w[2])>>>>

InputsFound == \A p \in Path : inputs[p] > 0 => Wanted(p) /\ layout.kind[Real(p)] = "file"

ReadingInv ==
  /\ Sending /\ Resting /\ InputsFound
  /\ main = "compiled" => Closed

-----------------------------------------------------------------------------
(***************************************************************************)
(* Sequences of sequences.                                                 *)
(***************************************************************************)

\* Stacks of entries from a set are stacks of entries from a larger one.
LEMMA StackMore ==
  ASSUME NEW E, NEW F, E \subseteq F
  PROVE  Seq(Seq(E)) \subseteq Seq(Seq(F))
<1>1. Seq(E) \subseteq Seq(F)
  OBVIOUS
<1> QED BY <1>1

\* A stack is put together from the entry at its top and what is left.
LEMMA StackWhole ==
  ASSUME NEW E, NEW F, NEW s \in Seq(Seq(E)), s # <<>>, s[1] # <<>>,
         s[1][1] \in F, Tail(s[1]) \in Seq(F), Tail(s) \in Seq(Seq(F))
  PROVE  s \in Seq(Seq(F))
<1>1. s[1] \in Seq(E) /\ s[1] \in Seq(F)
  <2>1. s[1] \in Seq(E)
    OBVIOUS
  <2>2. s[1] = <<s[1][1]>> \o Tail(s[1])
    BY <2>1, HeadTailProperties, ConcatProperties
  <2>3. <<s[1][1]>> \in Seq(F)
    OBVIOUS
  <2> QED BY <2>1, <2>2, <2>3, ConcatProperties
<1>2. s = <<s[1]>> \o Tail(s)
  BY HeadTailProperties, ConcatProperties
<1> QED BY <1>1, <1>2, StackPush

\* What a stack was put together from are stacks of the same entries.
LEMMA StackOf ==
  ASSUME NEW E, NEW F, NEW c \in Seq(E), NEW d \in Seq(E), NEW t \in Seq(Seq(E)),
         <<c \o d>> \o t \in Seq(Seq(F))
  PROVE  c \in Seq(F) /\ d \in Seq(F) /\ t \in Seq(Seq(F))
<1> DEFINE s == <<c \o d>> \o t
<1>0. c \o d \in Seq(E)
  OBVIOUS
<1>1. /\ s[1] = c \o d /\ Tail(s) = t /\ s # <<>>
  <2> DEFINE cd == c \o d
  <2> HIDE DEF cd
  <2>1. cd \in Seq(E)
    BY <1>0 DEF cd
  <2>2. (<<cd>> \o t)[1] = cd /\ Tail(<<cd>> \o t) = t /\ <<cd>> \o t # <<>>
    BY <2>1
  <2> QED BY <2>2 DEF cd
<1>2. c \o d \in Seq(F) /\ t \in Seq(Seq(F))
  <2> HIDE DEF s
  <2>1. s \in Seq(Seq(F))
    BY DEF s
  <2>2. s[1] \in Seq(F) /\ Tail(s) \in Seq(Seq(F))
    BY <1>1, <2>1
  <2> QED BY <1>1, <2>2
<1>3. \A i \in 1 .. Len(c) : c[i] \in F
  <2> SUFFICES ASSUME NEW i \in 1 .. Len(c) PROVE c[i] \in F
    OBVIOUS
  <2>1. (c \o d)[i] = c[i] /\ i \in 1 .. Len(c \o d)
    OBVIOUS
  <2> QED BY <1>2, <2>1, ElementOfSeq
<1>4. \A i \in 1 .. Len(d) : d[i] \in F
  <2> SUFFICES ASSUME NEW i \in 1 .. Len(d) PROVE d[i] \in F
    OBVIOUS
  <2>1. (c \o d)[Len(c) + i] = d[i] /\ Len(c) + i \in 1 .. Len(c \o d)
    OBVIOUS
  <2> QED BY <1>2, <2>1, ElementOfSeq
<1> QED BY <1>2, <1>3, <1>4, SeqDef

-----------------------------------------------------------------------------
(***************************************************************************)
(* What is read is a file that was looked for.                             *)
(***************************************************************************)
LEMMA InitReading == Init => ReadingInv
<1> SUFFICES ASSUME Init PROVE ReadingInv
  OBVIOUS
<1>1. Sending /\ InputsFound /\ main # "compiled"
  BY DEF Init, Sending, InputsFound, Nothing
<1>2. Resting
  BY DEF Init, Resting
<1> QED BY <1>1, <1>2 DEF ReadingInv

\* The step of one walker, if what it has found is what it is at.
LEMMA GoesReads ==
  ASSUME CompilerInv, ReadingInv, NEW w \in Walker, at[w] \notin {"none", "done"},
         NEW to \in {"walk", "store", "send", "done"}, NEW s, Goes(w, to, s),
         to \in {"store", "send"} => s = stack[w] /\ Here(w).op = "visit",
         to = "send" => /\ Wanted(Here(w).path)
                        /\ Real(Here(w).path) \in symlinks \union {Here(w).path},
         to = "done" => s = <<>>
  PROVE  ReadingInv'
<1>0. /\ layout' = layout /\ symlinks' = symlinks
      /\ round' = round /\ main' = main /\ inputs' = inputs
      /\ at' = [at EXCEPT ![w] = to] /\ stack' = [stack EXCEPT ![w] = s]
  BY DEF Goes, disk, compile
<1>1. /\ \A v \in Walker : /\ at'[v] = IF v = w THEN to ELSE at[v]
                           /\ stack'[v] = IF v = w THEN s ELSE stack[v]
      /\ w[1] \in 1 .. round /\ round \in Nat
  <2>1. w[1] \in 1 .. round
    BY Begun
  <2> QED BY <1>0, <2>1 DEF CompilerInv, Typed
<1>2. Sending'
  <2> SUFFICES ASSUME NEW v \in Walker
               PROVE  /\ at'[v] \in {"store", "send"} => Here(v).op' = "visit"
                      /\ at'[v] = "send" =>
                           /\ Wanted(Here(v).path)'
                           /\ Real(Here(v).path)' \in symlinks' \union {Here(v).path'}
    BY DEF Sending
  <2> QED BY <1>0, <1>1 DEF ReadingInv, Sending, Here, Wanted, Dir, Real
<1>3. Resting'
  <2> SUFFICES ASSUME NEW v \in Walker
               PROVE  /\ at'[v] = "done" => stack'[v] = <<>>
                      /\ v[1] > round => stack'[v] = <<<<Visit(v[2])>>>>
    BY <1>0 DEF Resting
  <2> QED BY <1>0, <1>1 DEF ReadingInv, Resting
<1>4. InputsFound'
  BY <1>0 DEF ReadingInv, InputsFound, Wanted, Dir, Real
<1>5. (main = "compiled" => Closed)'
  BY <1>0, <1>1 DEF ReadingInv, Closed, CompilerInv, Typed, Walker
<1> QED BY <1>2, <1>3, <1>4, <1>5 DEF ReadingInv

LEMMA WalkReads ==
  ASSUME CompilerInv, ReadingInv, NEW w \in Walker, Walk(w)
  PROVE  ReadingInv'
<1>1. CASE WalkFails(w)
  BY <1>1, GoesReads DEF WalkFails, Visits
<1>2. CASE FindLink(w)
  BY <1>2, GoesReads DEF FindLink, Visits
<1>3. CASE FindFile(w)
  <2>1. Wanted(Here(w).path) /\ Real(Here(w).path) \in symlinks \union {Here(w).path}
    BY <1>3 DEF FindFile, NewLink
  <2> QED BY <1>3, <2>1, GoesReads DEF FindFile, Visits
<1>4. CASE Pass(w)
  BY <1>4, GoesReads DEF Pass, Visits
<1>5. CASE ListFolder(w)
  BY <1>5, GoesReads DEF ListFolder
<1>6. CASE Returns(w)
  BY <1>6, GoesReads DEF Returns
<1>7. CASE WalkEnds(w)
  BY <1>7, GoesReads DEF WalkEnds
<1>8. CASE StoreLink(w)
  <2>0. /\ layout' = layout /\ round' = round /\ main' = main /\ inputs' = inputs
        /\ symlinks \subseteq symlinks'
        /\ at[w] = "store" /\ at' = [at EXCEPT ![w] = "walk"]
        /\ \A v \in Walker : v # w => stack'[v] = stack[v]
    BY <1>8 DEF StoreLink, disk, compile, CompilerInv, Typed
  <2>1. w[1] \in 1 .. round /\ round \in Nat
    BY <2>0, Begun DEF CompilerInv, Typed
  <2>a. \A v \in Walker : at'[v] = IF v = w THEN "walk" ELSE at[v]
    BY <2>0 DEF CompilerInv, Typed
  <2>2. Sending'
    <3> SUFFICES ASSUME NEW v \in Walker
                 PROVE  /\ at'[v] \in {"store", "send"} => Here(v).op' = "visit"
                        /\ at'[v] = "send" =>
                             /\ Wanted(Here(v).path)'
                             /\ Real(Here(v).path)' \in symlinks' \union {Here(v).path'}
      BY DEF Sending
    <3> QED BY <2>0, <2>a DEF ReadingInv, Sending, Here, Wanted, Dir, Real
  <2>3. Resting'
    <3> SUFFICES ASSUME NEW v \in Walker
                 PROVE  /\ at'[v] = "done" => stack'[v] = <<>>
                        /\ v[1] > round => stack'[v] = <<<<Visit(v[2])>>>>
      BY <2>0 DEF Resting
    <3> QED BY <2>0, <2>1, <2>a DEF ReadingInv, Resting
  <2>4. InputsFound' /\ (main = "compiled" => Closed)'
    BY <2>0, <2>a DEF ReadingInv, InputsFound, Wanted, Dir, Real, Closed, CompilerInv, Typed, Walker
  <2> QED BY <2>2, <2>3, <2>4 DEF ReadingInv
<1> QED BY <1>1, <1>2, <1>3, <1>4, <1>5, <1>6, <1>7, <1>8 DEF Walk

LEMMA ReceiveReads ==
  ASSUME CompilerInv, ReadingInv, NEW f \in Folder, Receive(f)
  PROVE  ReadingInv'
<1> DEFINE w == <<round, f>>
           q == Here(w).path
<1>0. /\ layout' = layout /\ symlinks' = symlinks /\ round' = round
      /\ main' \in {"reading", "failed"}
      /\ at[w] = "send" /\ at' = [at EXCEPT ![w] = "walk"]
      /\ stack' = [stack EXCEPT ![w] = Done(w)]
      /\ \/ inputs' = inputs
         \/ Readable(q) /\ inputs' = [inputs EXCEPT ![q] = @ + 1]
  BY DEF Receive, disk
<1>1. w \in Walker /\ w[1] = round /\ round \in Nat
  BY DEF Walker, CompilerInv, Typed
<1> HIDE DEF w
<1>2. \A v \in Walker : /\ at'[v] = IF v = w THEN "walk" ELSE at[v]
                        /\ v # w => stack'[v] = stack[v]
  BY <1>0 DEF CompilerInv, Typed
<1>3. Wanted(q)
  BY <1>0, <1>1 DEF ReadingInv, Sending
<1>4. Sending'
  <2> SUFFICES ASSUME NEW v \in Walker
               PROVE  /\ at'[v] \in {"store", "send"} => Here(v).op' = "visit"
                      /\ at'[v] = "send" =>
                           /\ Wanted(Here(v).path)'
                           /\ Real(Here(v).path)' \in symlinks' \union {Here(v).path'}
    BY DEF Sending
  <2> QED BY <1>0, <1>2 DEF ReadingInv, Sending, Here, Wanted, Dir, Real
<1>5. Resting'
  <2> SUFFICES ASSUME NEW v \in Walker
               PROVE  /\ at'[v] = "done" => stack'[v] = <<>>
                      /\ v[1] > round => stack'[v] = <<<<Visit(v[2])>>>>
    BY <1>0 DEF Resting
  <2> QED BY <1>1, <1>2 DEF ReadingInv, Resting
<1>6. InputsFound'
  <2> SUFFICES ASSUME NEW p \in Path, inputs'[p] > 0
               PROVE  Wanted(p) /\ layout.kind[Real(p)] = "file"
    BY <1>0 DEF InputsFound, Wanted, Dir, Real
  <2>1. CASE p = q /\ Readable(q)
    BY <1>3, <2>1 DEF Readable
  <2>2. CASE ~ (p = q /\ Readable(q))
    <3> HIDE DEF q
    <3>1. inputs[p] > 0
      BY <1>0, <2>2 DEF CompilerInv, Typed
    <3> QED BY <3>1 DEF ReadingInv, InputsFound
  <2> QED BY <2>1, <2>2
<1>7. main' # "compiled"
  BY <1>0
<1> QED BY <1>4, <1>5, <1>6, <1>7 DEF ReadingInv

LEMMA NextReading == CompilerInv /\ ReadingInv /\ [Next]_vars => ReadingInv'
<1> SUFFICES ASSUME CompilerInv, ReadingInv, [Next]_vars PROVE ReadingInv'
  OBVIOUS
<1>1. ASSUME /\ layout' = layout /\ symlinks' = symlinks /\ round' = round
             /\ inputs' = inputs /\ at' = at /\ stack' = stack
             /\ main' = "compiled" => Closed
      PROVE  ReadingInv'
  <2>1. Sending' /\ Resting'
    BY <1>1 DEF ReadingInv, Sending, Resting, Here, Wanted, Dir, Real
  <2>2. InputsFound' /\ (main = "compiled" => Closed)'
    BY <1>1 DEF ReadingInv, InputsFound, Wanted, Dir, Real, Closed
  <2> QED BY <2>1, <2>2 DEF ReadingInv
<1>2. CASE UNCHANGED vars
  BY <1>1, <1>2 DEF vars, ReadingInv
<1>3. ASSUME NEW w \in Walker, NEW v \in Walker, Throw(v, w) PROVE ReadingInv'
  BY <1>1, <1>3 DEF Throw, disk, walk
<1>4. ASSUME Parse \/ \E p \in Path : Remove(p) PROVE ReadingInv'
  <2>1. main' = "compiled" => Closed
    BY <1>4 DEF Parse, Remove, compile, ReadingInv
  <2> QED BY <1>1, <1>4, <2>1 DEF Parse, Remove, disk, compile, walk
<1>5. CASE CompileAgain
  <2>0. /\ layout' = layout /\ symlinks' = symlinks
        /\ round < Rounds /\ round' = round + 1 /\ main' = "reading"
        /\ inputs' = Nothing /\ at' = Begins(round + 1) /\ stack' = stack
    BY <1>5 DEF CompileAgain, disk
  <2>1. round \in Nat /\ Rounds \in Nat
    BY CompilerAssumption DEF CompilerInv, Typed
  <2>a. \A v \in Walker : at'[v] \in {at[v], "walk"} /\ v[1] \in Nat
    BY <2>0, CompilerAssumption DEF Begins, Walker
  <2>2. Sending'
    BY <2>0, <2>a DEF ReadingInv, Sending, Here, Wanted, Dir, Real
  <2>3. Resting'
    BY <2>0, <2>1, <2>a DEF ReadingInv, Resting
  <2>4. InputsFound' /\ main' # "compiled"
    BY <2>0 DEF InputsFound, Nothing
  <2> QED BY <2>2, <2>3, <2>4 DEF ReadingInv
<1> QED BY <1>2, <1>3, <1>4, <1>5, WalkReads, ReceiveReads DEF Next, Compile

-----------------------------------------------------------------------------
(***************************************************************************)
(* Nothing is lost.                                                        *)
(***************************************************************************)
LEMMA CoveredMore ==
  ASSUME NEW T, NEW U, T \subseteq U
  PROVE  Covered(T) \subseteq Covered(U)
BY DEF Covered

\* With paths that are closed, what a folder reaches is among them.
LEMMA ReachLeast ==
  ASSUME NEW l \in Layouts, NEW f \in Folder, NEW T \in SUBSET Path, f \in T,
         \A p \in T \intersect Reach[l][f] : Beyond(l, p) \subseteq T
  PROVE  Reach[l][f] \subseteq T
<1> DEFINE U == T \intersect Reach[l][f]
<1>1. f \in U
  BY ReachClosed
<1>2. ASSUME NEW p \in U PROVE Beyond(l, p) \subseteq U
  <2>1. Beyond(l, p) \subseteq T
    BY <1>2
  <2>2. Beyond(l, p) \subseteq Reach[l][f]
    BY <1>2, ReachClosed DEF Beyond
  <2> QED BY <2>1, <2>2
<1>3. U \in Surround(l, f)
  BY <1>1, <1>2 DEF Surround
<1> QED BY <1>3 DEF Reach

\* At the beginning of a compilation all is ahead.
Beginning ==
  /\ layout \in Layouts
  /\ \A f \in Folder : stack[<<round, f>>] = <<<<Visit(f)>>>>
  /\ symlinks = {} \/ round # 1

LEMMA BeginsLossless == Beginning => Lossless
<1> SUFFICES ASSUME Beginning, Sound, NEW T \in SUBSET Path, Closing(T), Planned(T)
             PROVE  Files \subseteq Read \union T
  BY DEF Lossless
<1>1. ASSUME NEW f \in Folder PROVE Reach[layout][f] \subseteq T
  <2>1. Visit(f) \in Covered(T)
    <3>1. <<<<Visit(f)>>>> \in Seq(Seq(Covered(T)))
      BY DEF Planned, Beginning
    <3> HIDE DEF Covered, Visit
    <3> QED BY <3>1
  <2>2. f \in T
    BY <2>1 DEF Covered, Visit
  <2>3. ASSUME NEW p \in T \intersect Reach[layout][f] PROVE Beyond(layout, p) \subseteq T
    <3>1. Real(p) \notin symlinks \union {p, Nowhere} => Real(p) \in T
      BY DEF Closing
    <3>2. symlinks = {} \/ Real(p) = p
      BY DEF NoLinks, Linked, Beginning, Sound
    <3> QED BY <3>1, <3>2 DEF Closing, Kids, Beyond, Real
  <2> QED BY <2>2, <2>3, ReachLeast DEF Beginning
<1> QED BY <1>1 DEF Files, Reached

\* A step that does not touch what the walkers of the compilation have ahead.
LEMMA SameLossless ==
  ASSUME Lossless, layout' = layout, gone' = {} => gone = {},
         symlinks' = symlinks, round' = round, inputs' = inputs,
         main' \in {"reading", "compiled"} => main \in {"reading", "compiled"},
         \A f \in Folder : stack'[<<round, f>>] = stack[<<round, f>>]
  PROVE  Lossless'
<1> SUFFICES ASSUME Sound', NEW T \in SUBSET Path, Closing(T)', Planned(T)'
             PROVE  Files' \subseteq Read' \union T
  BY DEF Lossless
<1>1. Sound
  BY DEF Sound, Intact, Reached, Real, NoLinks, Linked
<1>2. Closing(T) /\ Planned(T)
  BY DEF Closing, Planned, Kids, Real, Covered
<1>3. Files' = Files /\ Read' = Read
  BY DEF Files, Read, Reached, Real
<1> QED BY <1>1, <1>2, <1>3 DEF Lossless

\* A step of a walker: what has been ahead of it is what is ahead afterwards
\* and the paths P, and the files of these have been read.
LEMMA StepLossless ==
  ASSUME CompilerInv, Lossless, NEW w \in Walker, w[1] = round, NEW P, NEW s,
         layout' = layout, gone' = gone, round' = round,
         main' \in {"reading", "compiled"} => main \in {"reading", "compiled"},
         \A q \in Path : inputs[q] > 0 => inputs'[q] > 0,
         stack' = [stack EXCEPT ![w] = s],
         Sound' => P \subseteq Path /\ P \intersect Files \subseteq Read',
         ASSUME Sound', NEW T \in SUBSET Path, Closing(T)', s \in Seq(Seq(Covered(T)))
         PROVE  /\ Closing(T \union P)
                /\ stack[w] \in Seq(Seq(Covered(T \union P)))
  PROVE  Lossless'
<1> SUFFICES ASSUME Sound', NEW T \in SUBSET Path, Closing(T)', Planned(T)'
             PROVE  Files' \subseteq Read' \union T
  BY DEF Lossless
<1> DEFINE U == T \union P
<1>1. Sound
  BY DEF Sound, Intact, Reached, Real, NoLinks, Linked
<1>2. \A f \in Folder : stack'[<<round, f>>] \in Seq(Seq(Covered(T)))
  BY DEF Planned, Covered, Kids
<1>3. w = <<round, w[2]>> /\ w[2] \in Folder /\ stack'[w] = s
  BY DEF Walker, CompilerInv, Typed
<1>4. s \in Seq(Seq(Covered(T)))
  BY <1>2, <1>3
<1>5. Closing(U) /\ stack[w] \in Seq(Seq(Covered(U)))
  BY <1>4
<1>6. Planned(U)
  <2> SUFFICES ASSUME NEW f \in Folder PROVE stack[<<round, f>>] \in Seq(Seq(Covered(U)))
    BY DEF Planned
  <2>1. CASE <<round, f>> = w
    BY <1>5, <2>1
  <2>2. CASE <<round, f>> # w
    <3>1. stack'[<<round, f>>] = stack[<<round, f>>]
      BY <2>2 DEF CompilerInv, Typed, Walker
    <3>2. Covered(T) \subseteq Covered(U)
      BY CoveredMore
    <3> HIDE DEF Covered
    <3> QED BY <1>2, <3>1, <3>2, StackMore
  <2> QED BY <2>1, <2>2
<1>7. Files \subseteq Read \union U
  BY <1>1, <1>5, <1>6 DEF Lossless
<1>8. Files' = Files /\ Read \subseteq Read'
  BY DEF Files, Read, Reached, Real
<1> QED BY <1>7, <1>8

\* In an intact layout no walk fails.
LEMMA NotBroken ==
  ASSUME CompilerInv, Intact, NEW w \in Walker, Calls(w)
  PROVE  ~ Broken(Here(w).path)
<1>1. Here(w).path \in Reached
  <2>1. w[2] \in Folder
    BY DEF Walker
  <2> QED BY <2>1, HereReached DEF Reached
<1> QED BY <1>1 DEF Broken, Intact

\* Where a walker is, and what is left of its call and of the calls around it.
LEMMA StackAt ==
  ASSUME CompilerInv, NEW w \in Walker, Calls(w), NEW U,
         Here(w).op = "visit" => Here(w).path \in U,
         Here(w).op = "list" => Kids(Here(w).path) \subseteq U,
         Tail(stack[w][1]) \in Seq(Covered(U)),
         Tail(stack[w]) \in Seq(Seq(Covered(U)))
  PROVE  stack[w] \in Seq(Seq(Covered(U)))
<1>1. stack[w] \in Seq(Seq(EntryOf(w))) /\ stack[w] # <<>> /\ stack[w][1] # <<>>
  BY DEF CompilerInv, Within, Calls
<1>2. Here(w) \in EntryOf(w) /\ Here(w).path \in Path
  BY HereReached
<1>3. Here(w) \in Covered(U)
  BY <1>2 DEF EntryOf, Covered, Entry
<1> HIDE DEF Covered, EntryOf
<1> QED BY <1>1, <1>3, StackWhole DEF Here

LEMMA StackInner ==
  ASSUME NEW E, NEW F, NEW c \in Seq(E), NEW d \in Seq(E), NEW t \in Seq(Seq(E)),
         <<c, d>> \o t \in Seq(Seq(F))
  PROVE  c \in Seq(F) /\ <<d>> \o t \in Seq(Seq(F))
<1> DEFINE a == <<c, d>>
           s == a \o t
<1>1. a \in Seq(Seq(E)) /\ Len(a) = 2 /\ a[1] = c /\ a[2] = d
  OBVIOUS
<1> HIDE DEF a, s
<1>2. /\ Len(t) \in Nat /\ Len(s) = 2 + Len(t)
      /\ \A i \in 1 .. 2 + Len(t) : s[i] = IF i <= 2 THEN a[i] ELSE t[i - 2]
  <2>1. Len(t) \in Nat
    BY LenProperties
  <2>2. /\ Len(s) = Len(a) + Len(t)
        /\ \A i \in 1 .. Len(a) + Len(t) :
             s[i] = IF i <= Len(a) THEN a[i] ELSE t[i - Len(a)]
    BY <1>1, ConcatProperties DEF s
  <2> QED BY <1>1, <2>1, <2>2
<1>3. \A i \in 1 .. Len(s) : s[i] \in Seq(F)
  <2>1. s \in Seq(Seq(F))
    BY DEF s, a
  <2> QED BY <2>1, ElementOfSeq
<1>4. c \in Seq(F) /\ d \in Seq(F)
  BY <1>1, <1>2, <1>3
<1>5. ASSUME NEW i \in 1 .. Len(t) PROVE t[i] \in Seq(F)
  <2>1. i + 2 \in 1 .. Len(s) /\ ~ i + 2 <= 2 /\ (i + 2) - 2 = i
    BY <1>2
  <2>2. s[i + 2] = t[i]
    BY <1>2, <2>1
  <2> QED BY <1>3, <2>1, <2>2
<1>6. t \in Seq(Seq(F))
  BY <1>2, <1>5, LenProperties, SeqDef
<1> QED BY <1>4, <1>6, StackPush

\* What a walker is going to do first, and what it has had ahead after it, when
\* both are ahead of it now.
LEMMA StackLeft ==
  ASSUME CompilerInv, NEW w \in Walker, Calls(w), NEW c \in Seq(EntryOf(w)),
         NEW T, NEW U, T \subseteq U,
         <<c \o Tail(stack[w][1])>> \o Tail(stack[w]) \in Seq(Seq(Covered(T)))
  PROVE  /\ c \in Seq(Covered(T))
         /\ Tail(stack[w][1]) \in Seq(Covered(U))
         /\ Tail(stack[w]) \in Seq(Seq(Covered(U)))
<1> DEFINE d == Tail(stack[w][1])
           t == Tail(stack[w])
           E == EntryOf(w)
           F == Covered(T)
           G == Covered(U)
<1>1. d \in Seq(E) /\ t \in Seq(Seq(E))
  BY HereReached
<1>2. F \subseteq G
  BY CoveredMore
<1>3. c \in Seq(E) /\ <<c \o d>> \o t \in Seq(Seq(F))
  OBVIOUS
<1> HIDE DEF d, t, E, F, G
<1>4. c \in Seq(F) /\ d \in Seq(F) /\ t \in Seq(Seq(F))
  BY <1>1, <1>3, StackOf
<1>5. d \in Seq(G) /\ t \in Seq(Seq(G))
  BY <1>2, <1>4, StackMore, SeqMonotonic
<1> QED BY <1>4, <1>5 DEF d, t, F, G

\* What is left of an entry to do is to list its directory, if it is one.
LEMMA KidsListed ==
  ASSUME layout \in Layouts, NEW p \in Path, NEW T, Below(p) \in Seq(Covered(T))
  PROVE  Kids(p) \subseteq T
<1>1. CASE Dir(p)
  <2>1. List(p) \in Covered(T)
    <3>1. <<List(p)>> \in Seq(Covered(T))
      BY <1>1 DEF Below
    <3> HIDE DEF Covered, List
    <3> QED BY <3>1
  <2> QED BY <2>1 DEF Covered, List
<1>2. CASE ~ Dir(p)
  BY <1>2, CompilerAssumption DEF Dir, Kids
<1> QED BY <1>1, <1>2

\* A path that is passed: its directory is listed next.
LEMMA PassLossless ==
  ASSUME CompilerInv, Lossless, NEW w \in Walker, w[1] = round, Pass(w)
  PROVE  Lossless'
<1> DEFINE q == Here(w).path
           E == EntryOf(w)
           s == <<Below(q) \o Tail(stack[w][1])>> \o Tail(stack[w])
<1>0. /\ layout' = layout /\ gone' = gone /\ symlinks' = symlinks
      /\ round' = round /\ main' = main /\ inputs' = inputs
      /\ stack' = [stack EXCEPT ![w] = s]
      /\ Calls(w) /\ Here(w).op = "visit"
      /\ ~ NewLink(q) /\ ~ Wanted(q)
  BY DEF Pass, Visits, Goes, disk, compile
<1>1. /\ q \in Reach[layout][w[2]] /\ q \in Path
      /\ Tail(stack[w][1]) \in Seq(E) /\ Tail(stack[w]) \in Seq(Seq(E))
  BY <1>0, HereReached
<1>2. Below(q) \in Seq(E)
  BY <1>1, BelowReached
<1>3. q \notin Files
  BY <1>0 DEF Wanted, Dir, Files
<1>4. layout \in Layouts
  BY DEF CompilerInv, Typed
<1>5. ASSUME NEW T \in SUBSET Path, Closing(T)', s \in Seq(Seq(Covered(T)))
      PROVE  Closing(T \union {q}) /\ stack[w] \in Seq(Seq(Covered(T \union {q})))
  <2>1. /\ Below(q) \in Seq(Covered(T))
        /\ Tail(stack[w][1]) \in Seq(Covered(T \union {q}))
        /\ Tail(stack[w]) \in Seq(Seq(Covered(T \union {q})))
    <3> HIDE DEF q
    <3> QED BY <1>0, <1>2, <1>5, StackLeft
  <2>2. Kids(q) \subseteq T
    BY <1>1, <1>4, <2>1, KidsListed
  <2>3. Closing(T \union {q})
    BY <1>0, <1>5, <2>2 DEF Closing, Kids, Real, NewLink
  <2> HIDE DEF Covered
  <2> QED BY <1>0, <2>1, <2>3, StackAt
<1>6. {q} \subseteq Path /\ {q} \intersect Files \subseteq Read'
  BY <1>1, <1>3
<1> HIDE DEF q, s, E
<1> QED BY <1>0, <1>5, <1>6, StepLossless

\* A folder that is listed: each of its entries is visited.
LEMMA ListLossless ==
  ASSUME CompilerInv, Lossless, NEW w \in Walker, w[1] = round, ListFolder(w)
  PROVE  Lossless'
<1> DEFINE q == Here(w).path
           E == EntryOf(w)
           s == <<Names(q) \o Tail(stack[w][1])>> \o Tail(stack[w])
<1>0. /\ layout' = layout /\ gone' = gone /\ symlinks' = symlinks
      /\ round' = round /\ main' = main /\ inputs' = inputs
      /\ stack' = [stack EXCEPT ![w] = s]
      /\ Calls(w) /\ Here(w).op = "list"
  BY DEF ListFolder, Goes, disk, compile
<1>1. Names(q) \in Seq(E)
  BY <1>0, NamesReached
<1>2. ASSUME Sound', NEW T \in SUBSET Path, Closing(T)', s \in Seq(Seq(Covered(T)))
      PROVE  Closing(T) /\ stack[w] \in Seq(Seq(Covered(T)))
  <2>1. /\ Names(q) \in Seq(Covered(T))
        /\ Tail(stack[w][1]) \in Seq(Covered(T))
        /\ Tail(stack[w]) \in Seq(Seq(Covered(T)))
    <3> HIDE DEF q
    <3> QED BY <1>0, <1>1, <1>2, StackLeft
  <2>2. Kids(q) \subseteq T
    <3> SUFFICES ASSUME NEW i \in DOMAIN layout.kids[q] PROVE layout.kids[q][i] \in T
      BY DEF Kids
    <3>1. Names(q)[i] = Visit(layout.kids[q][i])
      BY <1>0, <1>2 DEF Sound, Intact, Names, Name
    <3>2. i \in 1 .. Len(Names(q))
      <4>1. i \in DOMAIN Names(q)
        BY DEF Names
      <4> HIDE DEF Names
      <4> QED BY <2>1, <4>1, LenProperties
    <3>3. Names(q)[i] \in Covered(T)
      BY <2>1, <3>2, ElementOfSeq
    <3> QED BY <3>1, <3>3 DEF Covered, Visit
  <2>3. Closing(T)
    BY <1>0, <1>2 DEF Closing, Kids, Real
  <2> HIDE DEF Covered
  <2> QED BY <1>0, <2>1, <2>2, <2>3, StackAt
<1>3. ASSUME Sound', NEW T \in SUBSET Path, Closing(T)', s \in Seq(Seq(Covered(T)))
      PROVE  Closing(T \union {}) /\ stack[w] \in Seq(Seq(Covered(T \union {})))
  BY <1>2, <1>3
<1> HIDE DEF s
<1> QED BY <1>0, <1>3, StepLossless

\* A link that is stored: what it stands for is visited next.
LEMMA StoreLossless ==
  ASSUME CompilerInv, ReadingInv, Lossless, NEW w \in Walker, w[1] = round, StoreLink(w)
  PROVE  Lossless'
<1> DEFINE q == Here(w).path
           E == EntryOf(w)
           inner == <<Visit(Real(q))>>
           outer == AfterLink(q) \o Tail(stack[w][1])
           s == <<inner, outer>> \o Tail(stack[w])
<1>0. /\ layout' = layout /\ gone' = gone /\ round' = round
      /\ main' = main /\ inputs' = inputs
      /\ symlinks' = symlinks \union {Real(q)}
      /\ stack' = [stack EXCEPT ![w] = s]
      /\ at[w] = "store" /\ layout \in Layouts
  BY DEF StoreLink, disk, compile, CompilerInv, Typed
<1>1. Calls(w) /\ Real(q) # q /\ Here(w).op = "visit"
  BY <1>0 DEF CompilerInv, Engaged, ReadingInv, Sending
<1>2. /\ q \in Reach[layout][w[2]] /\ q \in Path
      /\ Tail(stack[w][1]) \in Seq(E) /\ Tail(stack[w]) \in Seq(Seq(E))
  BY <1>1, HereReached
<1>3. AfterLink(q) \in Seq(E)
  BY <1>2, BelowReached DEF AfterLink
<1>4. ASSUME NEW T \in SUBSET Path, Closing(T)', s \in Seq(Seq(Covered(T)))
      PROVE  Closing(T \union {q}) /\ stack[w] \in Seq(Seq(Covered(T \union {q})))
  <2>1. inner \in Seq(Covered(T)) /\ <<outer>> \o Tail(stack[w]) \in Seq(Seq(Covered(T)))
    <3> DEFINE t == Tail(stack[w])
               F == Covered(T)
    <3>1. outer \in Seq(E)
      BY <1>2, <1>3, ConcatProperties
    <3>2. <<inner, outer>> \o t \in Seq(Seq(F)) /\ t \in Seq(Seq(E))
      BY <1>2, <1>4
    <3> HIDE DEF inner, outer, t, E, F
    <3>3. inner \in Seq(F) /\ <<outer>> \o t \in Seq(Seq(F))
      BY <3>1, <3>2, StackInner
    <3> QED BY <3>3 DEF t, F
  <2>2. Real(q) \in T
    <3>1. Visit(Real(q)) \in Covered(T)
      <4> HIDE DEF Covered, Visit
      <4> QED BY <2>1
    <3> QED BY <3>1 DEF Covered, Visit
  <2>3. /\ AfterLink(q) \in Seq(Covered(T))
        /\ Tail(stack[w][1]) \in Seq(Covered(T \union {q}))
        /\ Tail(stack[w]) \in Seq(Seq(Covered(T \union {q})))
    <3> HIDE DEF q
    <3> QED BY <1>1, <1>3, <2>1, StackLeft
  <2>4. Kids(q) \subseteq T
    BY <1>0, <1>2, <2>3, KidsListed DEF AfterLink
  <2>5. Closing(T \union {q})
    BY <1>0, <1>4, <2>2, <2>4 DEF Closing, Kids, Real
  <2> HIDE DEF Covered
  <2> QED BY <1>1, <2>3, <2>5, StackAt
<1>5. {q} \subseteq Path /\ {q} \intersect Files \subseteq Read'
  BY <1>1, <1>2 DEF Files
<1> HIDE DEF q, s, E
<1> QED BY <1>0, <1>4, <1>5, StepLossless

\* A path that is received: it is a file, and read.
LEMMA ReceiveLossless ==
  ASSUME CompilerInv, ReadingInv, Lossless, NEW f \in Folder, Receive(f)
  PROVE  Lossless'
<1> DEFINE w == <<round, f>>
           q == Here(w).path
           E == EntryOf(w)
           s == <<<<>> \o Tail(stack[w][1])>> \o Tail(stack[w])
<1>1. w \in Walker /\ w[1] = round /\ layout \in Layouts
  BY DEF Walker, CompilerInv, Typed
<1>2. at[w] = "send"
  BY DEF Receive
<1>3. Calls(w) /\ Here(w).op = "visit" /\ Wanted(q) /\ Real(q) \in symlinks \union {q}
  BY <1>1, <1>2 DEF CompilerInv, Engaged, ReadingInv, Sending
<1>4. /\ q \in Reach[layout][w[2]] /\ q \in Path
      /\ Tail(stack[w][1]) \in Seq(E) /\ Tail(stack[w]) \in Seq(Seq(E))
  BY <1>1, <1>3, HereReached
<1>0. /\ layout' = layout /\ gone' = gone /\ symlinks' = symlinks
      /\ round' = round /\ main = "reading"
      /\ stack' = [stack EXCEPT ![w] = s]
      /\ inputs' = inputs \/ inputs' = [inputs EXCEPT ![q] = @ + 1]
      /\ main' # "failed" => inputs' = [inputs EXCEPT ![q] = @ + 1]
      /\ inputs \in [Path -> Nat]
  <2>1. s = Done(w)
    <3> DEFINE c == Tail(stack[w][1])
    <3>1. <<>> \o c = c
      <4> HIDE DEF c, E
      <4> QED BY <1>4, ConcatEmptySeq
    <3> QED BY <3>1 DEF Done
  <2> QED BY <2>1 DEF Receive, disk, CompilerInv, Typed
<1> HIDE DEF w
<1>5. /\ \A p \in Path : inputs[p] > 0 => inputs'[p] > 0
      /\ main' # "failed" => inputs'[q] > 0
  <2> HIDE DEF q, s
  <2>1. CASE inputs' = inputs /\ main' = "failed"
    BY <2>1
  <2>2. CASE inputs' = [inputs EXCEPT ![q] = @ + 1]
    <3>1. inputs \in [Path -> Nat] /\ q \in Path
      BY <1>0, <1>4
    <3>2. \A p \in Path : inputs'[p] = IF p = q THEN inputs[q] + 1 ELSE inputs[p]
      BY <2>2, <3>1
    <3> QED BY <3>1, <3>2
  <2> QED BY <1>0, <2>1, <2>2
<1>6. Kids(q) = {}
  BY <1>1, <1>3, <1>4, CompilerAssumption DEF Kids, Wanted, Dir
<1>7. ASSUME NEW T \in SUBSET Path, Closing(T)', s \in Seq(Seq(Covered(T)))
      PROVE  Closing(T \union {q}) /\ stack[w] \in Seq(Seq(Covered(T \union {q})))
  <2>1. /\ Tail(stack[w][1]) \in Seq(Covered(T \union {q}))
        /\ Tail(stack[w]) \in Seq(Seq(Covered(T \union {q})))
    <3>1. <<>> \in Seq(E)
      OBVIOUS
    <3> HIDE DEF q
    <3> QED BY <1>1, <1>3, <1>7, <3>1, StackLeft
  <2>2. Closing(T \union {q})
    <3> HIDE DEF q, s
    <3>1. Closing(T)
      BY <1>0, <1>7 DEF Closing, Kids, Real
    <3> QED BY <1>3, <1>6, <3>1 DEF Closing
  <2> HIDE DEF Covered
  <2> QED BY <1>1, <1>3, <2>1, <2>2, StackAt
<1>8. Sound' => {q} \subseteq Path /\ {q} \intersect Files \subseteq Read'
  BY <1>0, <1>4, <1>5 DEF Sound, Files, Read, Real
<1> HIDE DEF q, s, E
<1> QED BY <1>0, <1>1, <1>5, <1>7, <1>8, StepLossless

\* A call that returns has nothing ahead.
LEMMA ReturnsLossless ==
  ASSUME CompilerInv, Lossless, NEW w \in Walker, w[1] = round, Returns(w)
  PROVE  Lossless'
<1> DEFINE s == Tail(stack[w])
           E == EntryOf(w)
<1>0. /\ layout' = layout /\ gone' = gone /\ symlinks' = symlinks
      /\ round' = round /\ main' = main /\ inputs' = inputs
      /\ stack' = [stack EXCEPT ![w] = s]
      /\ stack[w] \in Seq(Seq(E)) /\ stack[w] # <<>> /\ stack[w][1] = <<>>
  BY DEF Returns, Goes, disk, compile, CompilerInv, Within
<1>1. ASSUME NEW T \in SUBSET Path, Closing(T)', s \in Seq(Seq(Covered(T)))
      PROVE  Closing(T \union {}) /\ stack[w] \in Seq(Seq(Covered(T \union {})))
  <2>1. stack[w] \in Seq(Seq(Covered(T)))
    <3> DEFINE F == Covered(T)
    <3>1. s \in Seq(Seq(F)) /\ <<>> \in Seq(F)
      BY <1>1
    <3>2. stack[w] = <<<<>>>> \o s
      <4> HIDE DEF E
      <4> QED BY <1>0, HeadTailProperties, ConcatProperties
    <3> HIDE DEF F, s
    <3>3. stack[w] \in Seq(Seq(F))
      BY <3>1, <3>2, StackPush
    <3> QED BY <3>3 DEF F
  <2>2. Closing(T)
    BY <1>0, <1>1 DEF Closing, Kids, Real
  <2> QED BY <2>1, <2>2
<1> HIDE DEF s, E
<1> QED BY <1>0, <1>1, StepLossless

\* A step of a walker.
LEMMA WalkLossless ==
  ASSUME CompilerInv, ReadingInv, Lossless, NEW w \in Walker, Walk(w)
  PROVE  Lossless'
<1>0. w[1] \in 1 .. round /\ round \in Nat
  <2>1. at[w] # "none"
    BY DEF Walk, WalkFails, FindLink, FindFile, Pass, ListFolder, Returns, WalkEnds,
           StoreLink, Visits
  <2> QED BY <2>1, Begun DEF CompilerInv, Typed
<1>1. CASE WalkFails(w)
  <2>1. Calls(w) /\ Broken(Here(w).path)
    BY <1>1 DEF WalkFails, Visits
  <2>2. ~ Intact
    BY <2>1, NotBroken
  <2>3. layout' = layout /\ gone' = gone
    BY <1>1 DEF WalkFails, Goes, disk
  <2> QED BY <2>2, <2>3 DEF Lossless, Sound, Intact, Reached, Real
<1>2. CASE \/ FindLink(w) \/ FindFile(w) \/ WalkEnds(w)
           \/ w[1] # round /\ (Pass(w) \/ ListFolder(w) \/ Returns(w))
  <2>0. /\ layout' = layout /\ gone' = gone /\ symlinks' = symlinks
        /\ round' = round /\ main' = main /\ inputs' = inputs
    BY <1>2 DEF FindLink, FindFile, WalkEnds, Pass, ListFolder, Returns, Goes, disk, compile
  <2>1. ASSUME NEW f \in Folder PROVE stack'[<<round, f>>] = stack[<<round, f>>]
    <3>1. CASE FindLink(w) \/ FindFile(w)
      BY <3>1 DEF FindLink, FindFile, Goes, CompilerInv, Typed
    <3>2. CASE WalkEnds(w)
      BY <3>2 DEF WalkEnds, Goes, CompilerInv, Typed
    <3>3. CASE w[1] # round /\ (Pass(w) \/ ListFolder(w) \/ Returns(w))
      <4>1. w # <<round, f>>
        BY <3>3
      <4>2. PICK s : stack' = [stack EXCEPT ![w] = s]
        BY <3>3 DEF Pass, ListFolder, Returns, Goes
      <4>3. <<round, f>> \in Walker
        BY DEF Walker, CompilerInv, Typed
      <4> QED BY <4>1, <4>2, <4>3 DEF CompilerInv, Typed
    <3> QED BY <1>2, <3>1, <3>2, <3>3
  <2> QED BY <2>0, <2>1, SameLossless
<1>3. CASE w[1] = round /\ (Pass(w) \/ ListFolder(w) \/ Returns(w))
  BY <1>3, PassLossless, ListLossless, ReturnsLossless
<1>4. CASE StoreLink(w)
  <2>1. CASE w[1] = round
    BY <1>4, <2>1, StoreLossless
  <2>2. CASE w[1] # round
    <3>1. at[w] = "store" /\ layout' = layout /\ round' = round
      BY <1>4 DEF StoreLink, disk, compile
    <3>2. Calls(w) /\ Real(Here(w).path) # Here(w).path
      BY <3>1 DEF CompilerInv, Engaged
    <3>3. ~ NoLinks /\ round # 1
      BY <1>0, <2>2, <3>2, HereReached DEF NoLinks, Linked, Walker
    <3> QED BY <3>1, <3>3 DEF Lossless, Sound, NoLinks, Linked, Real
  <2> QED BY <2>1, <2>2
<1> QED BY <1>1, <1>2, <1>3, <1>4 DEF Walk

LEMMA NextLossless == CompilerInv /\ ReadingInv /\ Lossless /\ [Next]_vars => Lossless'
<1> SUFFICES ASSUME CompilerInv, ReadingInv, Lossless, [Next]_vars PROVE Lossless'
  OBVIOUS
<1>1. CASE UNCHANGED vars
  BY <1>1, SameLossless DEF vars
<1>2. ASSUME NEW w \in Walker, NEW v \in Walker, Throw(v, w) PROVE Lossless'
  BY <1>2, SameLossless DEF Throw, disk, walk
<1>3. CASE Parse
  BY <1>3, SameLossless DEF Parse, disk, walk
<1>4. ASSUME NEW p \in Path, Remove(p) PROVE Lossless'
  BY <1>4, SameLossless DEF Remove, compile, walk
<1>5. CASE CompileAgain
  <2>0. /\ layout' = layout /\ round \in Nat \ {0}
        /\ round < Rounds /\ round' = round + 1 /\ stack' = stack
    BY <1>5 DEF CompileAgain, disk, CompilerInv, Typed
  <2>1. ASSUME NEW f \in Folder PROVE stack'[<<round', f>>] = <<<<Visit(f)>>>>
    <3>1. <<round', f>> \in Walker /\ round' > round
      BY <2>0, CompilerAssumption DEF Walker
    <3> QED BY <2>0, <3>1 DEF ReadingInv, Resting
  <2>2. layout' \in Layouts /\ round' # 1
    BY <2>0 DEF CompilerInv, Typed
  <2>3. Beginning'
    BY <2>1, <2>2 DEF Beginning, Visit
  <2> QED BY <2>3, BeginsLossless, PTL
<1> QED BY <1>1, <1>2, <1>3, <1>4, <1>5, WalkLossless, ReceiveLossless DEF Next, Compile

LEMMA InitLossless == Init => Lossless
<1>1. Init => Beginning
  BY CompilerAssumption DEF Init, Beginning, Walker
<1> QED BY <1>1, BeginsLossless

\* At the end nothing is ahead: all that is there to be read has been read.
LEMMA LosslessReads == CompilerInv /\ ReadingInv /\ Lossless => ReadsAll
<1> SUFFICES ASSUME CompilerInv, ReadingInv, Lossless, main = "compiled", Intact,
                    round = 1 \/ NoLinks
             PROVE  Files \subseteq Read /\ Read \subseteq {p \in Found : layout.kind[p] = "file"}
  BY DEF ReadsAll, NoLinks
<1>1. Files \subseteq Read
  <2>1. Sound /\ Closing({})
    BY DEF Sound, Closing
  <2>2. Planned({})
    <3> SUFFICES ASSUME NEW f \in Folder
                 PROVE  stack[<<round, f>>] \in Seq(Seq(Covered({})))
      BY DEF Planned
    <3>1. <<round, f>> \in Walker /\ at[<<round, f>>] = "done"
      BY DEF ReadingInv, Closed, Walker, CompilerInv, Typed
    <3>2. stack[<<round, f>>] = <<>>
      BY <3>1 DEF ReadingInv, Resting
    <3> HIDE DEF Covered
    <3> QED BY <3>2
  <2> QED BY <2>1, <2>2 DEF Lossless
<1>2. ASSUME NEW p \in Path, inputs[p] > 0
      PROVE  Real(p) \in Found /\ layout.kind[Real(p)] = "file"
  BY <1>2 DEF CompilerInv, InputsReached, ReadingInv, InputsFound, Found
<1> QED BY <1>1, <1>2 DEF Read

\* However the walkers of the folders interleave with each other and with
\* Compile, the channel is not closed before every file has been received.
THEOREM NothingIsLost == Spec => []ReadsAll
<1>1. Init => ReadingInv /\ Lossless
  BY InitReading, InitLossless
<1>2. CompilerInv /\ ReadingInv /\ Lossless /\ [Next]_vars => (ReadingInv /\ Lossless)'
  BY NextReading, NextLossless
<1>3. Spec => [](ReadingInv /\ Lossless)
  BY <1>1, <1>2, CompilerInvariant, PTL DEF Spec
<1> QED BY <1>3, CompilerInvariant, LosslessReads, PTL

-----------------------------------------------------------------------------
(***************************************************************************)
(* The first compilation meets each path once, unless there are two ways   *)
(* to one.  V are the paths the walkers have left behind: one that has     *)
(* been met has been met from its folder, or from one of them; what is     *)
(* ahead has not been met, and is ahead once.                              *)
(***************************************************************************)

Clash(d, e) ==
  \/ d = e
  \/ d.op = "list" /\ e.op = "visit" /\ e.path \in Kids(d.path)
Apart(D, F) == \A d \in D, e \in F : ~ Clash(d, e) /\ ~ Clash(e, d)

Entries(s) == UNION {{s[i][j] : j \in DOMAIN s[i]} : i \in DOMAIN s}
Each(c)    == {c[j] : j \in DOMAIN c}
Orderly(c) == \A j, l \in DOMAIN c : j # l => ~ Clash(c[j], c[l])

Distinct(s) ==
  \A i, k \in DOMAIN s : \A j \in DOMAIN s[i], l \in DOMAIN s[k] :
    i # k \/ j # l => ~ Clash(s[i][j], s[k][l])

Follows(V, p) == p \in Folder \/ \E q \in V : p \in Beyond(layout, q)

Fits(V, e) ==
  IF e.op = "visit" THEN e.path \notin V /\ Follows(V, e.path)
                    ELSE e.path \in V /\ Kids(e.path) \intersect V = {}

Met(V) ==
  /\ \A p \in V : Follows(V, p)
  /\ symlinks \subseteq {Real(p) : p \in {q \in V : Real(q) # q}}
  /\ \A p \in Path : inputs[p] > 0 => p \in V /\ Real(p) = p /\ inputs[p] = 1

Ahead(V) ==
  \A f \in Folder :
    /\ Distinct(stack[<<1, f>>])
    /\ \A e \in Entries(stack[<<1, f>>]) : Fits(V, e)
    /\ \A g \in Folder \ {f} : Apart(Entries(stack[<<1, f>>]), Entries(stack[<<1, g>>]))

First == round = 1 /\ gone = {} /\ ~ Aliased

MetOnce == First => main # "failed" /\ \E V \in SUBSET Reached : Met(V) /\ Ahead(V)

-----------------------------------------------------------------------------
\* A call put before the rest of the stack: its entries are those of both, and
\* distinct if they are in each, and apart.
LEMMA EntriesPush ==
  ASSUME NEW E, NEW c \in Seq(E), NEW t \in Seq(Seq(E))
  PROVE  /\ Entries(<<c>> \o t) = Each(c) \union Entries(t)
         /\ Distinct(<<c>> \o t) <=>
              /\ Orderly(c)
              /\ Distinct(t)
              /\ Apart(Each(c), Entries(t))
<1> DEFINE s == <<c>> \o t
<1>1. /\ Len(t) \in Nat /\ DOMAIN t = 1 .. Len(t) /\ DOMAIN s = 1 .. Len(t) + 1
      /\ s[1] = c /\ \A i \in 1 .. Len(t) : s[i + 1] = t[i]
      /\ \A i \in 2 .. Len(t) + 1 : i - 1 \in 1 .. Len(t) /\ s[i] = t[i - 1]
  <2>1. <<c>> \in Seq(Seq(E)) /\ Len(<<c>>) = 1 /\ <<c>>[1] = c
    OBVIOUS
  <2> HIDE DEF s
  <2>2. /\ s \in Seq(Seq(E)) /\ Len(s) = 1 + Len(t)
        /\ \A i \in 1 .. 1 + Len(t) : s[i] = IF i <= 1 THEN <<c>>[i] ELSE t[i - 1]
    BY <2>1, ConcatProperties DEF s
  <2>3. Len(t) \in Nat /\ DOMAIN t = 1 .. Len(t) /\ DOMAIN s = 1 .. Len(s)
    BY <2>2, LenProperties
  <2>4. DOMAIN s = 1 .. Len(t) + 1 /\ s[1] = c
    BY <2>1, <2>2, <2>3
  <2>5. ASSUME NEW i \in 1 .. Len(t) PROVE s[i + 1] = t[i]
    <3>1. i + 1 \in 1 .. 1 + Len(t) /\ ~ i + 1 <= 1 /\ (i + 1) - 1 = i
      BY <2>3
    <3> QED BY <2>2, <3>1
  <2>6. ASSUME NEW i \in 2 .. Len(t) + 1
        PROVE  i - 1 \in 1 .. Len(t) /\ s[i] = t[i - 1]
    BY <2>2, <2>3
  <2> QED BY <2>3, <2>4, <2>5, <2>6
<1> HIDE DEF s
<1>2. Entries(s) = Each(c) \union Entries(t)
  <2>1. Entries(s) \subseteq Each(c) \union Entries(t)
    <3> SUFFICES ASSUME NEW i \in DOMAIN s, NEW j \in DOMAIN s[i]
                 PROVE  s[i][j] \in Each(c) \union Entries(t)
      BY DEF Entries
    <3>1. CASE i = 1
      BY <1>1, <3>1 DEF Each
    <3>2. CASE i # 1
      <4>1. i - 1 \in DOMAIN t /\ s[i] = t[i - 1]
        BY <1>1, <3>2
      <4> QED BY <4>1 DEF Entries
    <3> QED BY <3>1, <3>2
  <2>2. Each(c) \subseteq Entries(s)
    <3>1. 1 \in DOMAIN s /\ s[1] = c
      BY <1>1
    <3> QED BY <3>1 DEF Entries, Each
  <2>3. Entries(t) \subseteq Entries(s)
    <3> SUFFICES ASSUME NEW i \in DOMAIN t, NEW j \in DOMAIN t[i]
                 PROVE  t[i][j] \in Entries(s)
      BY DEF Entries
    <3>1. i + 1 \in DOMAIN s /\ s[i + 1] = t[i]
      BY <1>1
    <3> QED BY <3>1 DEF Entries
  <2> QED BY <2>1, <2>2, <2>3
<1>3. ASSUME Distinct(s)
      PROVE  /\ Orderly(c)
             /\ Distinct(t)
             /\ Apart(Each(c), Entries(t))
  <2>1. ASSUME NEW j \in DOMAIN c, NEW l \in DOMAIN c, j # l
        PROVE  ~ Clash(c[j], c[l])
    <3>1. 1 \in DOMAIN s /\ s[1] = c
      BY <1>1
    <3> QED BY <1>3, <2>1, <3>1 DEF Distinct
  <2>2. ASSUME NEW i \in DOMAIN t, NEW k \in DOMAIN t,
               NEW j \in DOMAIN t[i], NEW l \in DOMAIN t[k], i # k \/ j # l
        PROVE  ~ Clash(t[i][j], t[k][l])
    <3>1. /\ i + 1 \in DOMAIN s /\ s[i + 1] = t[i]
          /\ k + 1 \in DOMAIN s /\ s[k + 1] = t[k]
          /\ i + 1 # k + 1 \/ j # l
      BY <1>1, <2>2
    <3> QED BY <1>3, <3>1 DEF Distinct
  <2>3. ASSUME NEW j \in DOMAIN c, NEW k \in DOMAIN t, NEW l \in DOMAIN t[k]
        PROVE  ~ Clash(c[j], t[k][l]) /\ ~ Clash(t[k][l], c[j])
    <3>1. /\ 1 \in DOMAIN s /\ s[1] = c
          /\ k + 1 \in DOMAIN s /\ s[k + 1] = t[k] /\ k + 1 # 1
      BY <1>1
    <3> QED BY <1>3, <3>1 DEF Distinct
  <2>4. Distinct(t)
    BY <2>2 DEF Distinct
  <2>5. Apart(Each(c), Entries(t))
    BY <2>3 DEF Apart, Entries, Each
  <2> QED BY <2>1, <2>4, <2>5 DEF Orderly
<1>4. ASSUME Orderly(c),
             Distinct(t), Apart(Each(c), Entries(t))
      PROVE  Distinct(s)
  <2> SUFFICES ASSUME NEW i \in DOMAIN s, NEW k \in DOMAIN s,
                      NEW j \in DOMAIN s[i], NEW l \in DOMAIN s[k], i # k \/ j # l
               PROVE  ~ Clash(s[i][j], s[k][l])
    BY DEF Distinct
  <2>1. CASE i = 1 /\ k = 1
    BY <1>1, <1>4, <2>1 DEF Orderly
  <2>2. CASE i = 1 /\ k # 1
    <3>1. s[1] = c /\ k - 1 \in DOMAIN t /\ s[k] = t[k - 1]
      BY <1>1, <2>2
    <3>2. s[k][l] \in Entries(t)
      BY <3>1 DEF Entries
    <3> QED BY <1>4, <2>2, <3>1, <3>2 DEF Apart, Each
  <2>3. CASE i # 1 /\ k = 1
    <3>1. s[1] = c /\ i - 1 \in DOMAIN t /\ s[i] = t[i - 1]
      BY <1>1, <2>3
    <3>2. s[i][j] \in Entries(t)
      BY <3>1 DEF Entries
    <3> QED BY <1>4, <2>3, <3>1, <3>2 DEF Apart, Each
  <2>4. CASE i # 1 /\ k # 1
    <3>1. /\ i - 1 \in DOMAIN t /\ s[i] = t[i - 1]
          /\ k - 1 \in DOMAIN t /\ s[k] = t[k - 1]
          /\ i - 1 # k - 1 \/ j # l
      BY <1>1, <2>4
    <3> QED BY <1>4, <3>1 DEF Distinct
  <2> QED BY <2>1, <2>2, <2>3, <2>4
<1> QED BY <1>2, <1>3, <1>4 DEF s

\* Two parts of a call, likewise.
LEMMA EachConcat ==
  ASSUME NEW E, NEW c \in Seq(E), NEW d \in Seq(E)
  PROVE  /\ Each(c \o d) = Each(c) \union Each(d)
         /\ Orderly(c \o d) <=> Orderly(c) /\ Orderly(d) /\ Apart(Each(c), Each(d))
<1> DEFINE s == c \o d
<1>1. /\ Len(c) \in Nat /\ DOMAIN c = 1 .. Len(c) /\ Len(d) \in Nat
      /\ DOMAIN d = 1 .. Len(d) /\ DOMAIN s = 1 .. Len(c) + Len(d)
      /\ \A i \in 1 .. Len(c) : s[i] = c[i]
      /\ \A i \in 1 .. Len(d) : s[Len(c) + i] = d[i]
  <2> HIDE DEF s
  <2>1. /\ s \in Seq(E) /\ Len(s) = Len(c) + Len(d)
        /\ \A i \in 1 .. Len(c) + Len(d) :
             s[i] = IF i <= Len(c) THEN c[i] ELSE d[i - Len(c)]
    BY ConcatProperties DEF s
  <2>2. /\ Len(c) \in Nat /\ DOMAIN c = 1 .. Len(c) /\ Len(d) \in Nat
        /\ DOMAIN d = 1 .. Len(d) /\ DOMAIN s = 1 .. Len(s)
    BY <2>1, LenProperties
  <2>3. ASSUME NEW i \in 1 .. Len(c) PROVE s[i] = c[i]
    BY <2>1, <2>2
  <2>4. ASSUME NEW i \in 1 .. Len(d) PROVE s[Len(c) + i] = d[i]
    <3>1. /\ Len(c) + i \in 1 .. Len(c) + Len(d) /\ ~ Len(c) + i <= Len(c)
          /\ (Len(c) + i) - Len(c) = i
      BY <2>2
    <3> QED BY <2>1, <3>1
  <2>5. DOMAIN s = 1 .. Len(c) + Len(d)
    BY <2>1, <2>2
  <2> QED BY <2>2, <2>3, <2>4, <2>5
<1> HIDE DEF s
<1>2. ASSUME NEW i \in DOMAIN s
      PROVE  \/ i \in DOMAIN c /\ s[i] = c[i]
             \/ i - Len(c) \in DOMAIN d /\ s[i] = d[i - Len(c)] /\ i \notin DOMAIN c
  <2>1. CASE i <= Len(c)
    BY <1>1, <2>1
  <2>2. CASE ~ i <= Len(c)
    <3>1. i - Len(c) \in 1 .. Len(d) /\ i = Len(c) + (i - Len(c)) /\ i \notin DOMAIN c
      BY <1>1, <2>2
    <3> QED BY <1>1, <3>1
  <2> QED BY <2>1, <2>2
<1>3. Each(s) = Each(c) \union Each(d)
  <2>1. Each(s) \subseteq Each(c) \union Each(d)
    BY <1>2 DEF Each
  <2>2. Each(c) \subseteq Each(s)
    <3>1. \A i \in DOMAIN c : i \in DOMAIN s /\ s[i] = c[i]
      BY <1>1
    <3> QED BY <3>1 DEF Each
  <2>3. Each(d) \subseteq Each(s)
    <3>1. \A i \in DOMAIN d : Len(c) + i \in DOMAIN s /\ s[Len(c) + i] = d[i]
      BY <1>1
    <3> QED BY <3>1 DEF Each
  <2> QED BY <2>1, <2>2, <2>3
<1>4. ASSUME Orderly(s) PROVE Orderly(c) /\ Orderly(d) /\ Apart(Each(c), Each(d))
  <2>1. \A i \in DOMAIN c : i \in DOMAIN s /\ s[i] = c[i]
    BY <1>1
  <2>2. \A i \in DOMAIN d : Len(c) + i \in DOMAIN s /\ s[Len(c) + i] = d[i]
    BY <1>1
  <2>3. \A i \in DOMAIN c, j \in DOMAIN d : i # Len(c) + j
    BY <1>1
  <2>4. \A i, j \in DOMAIN d : i # j => Len(c) + i # Len(c) + j
    BY <1>1
  <2>5. Orderly(c)
    BY <1>4, <2>1 DEF Orderly
  <2>6. Orderly(d)
    BY <1>4, <2>2, <2>4 DEF Orderly
  <2>7. ASSUME NEW i \in DOMAIN c, NEW j \in DOMAIN d
        PROVE  ~ Clash(c[i], d[j]) /\ ~ Clash(d[j], c[i])
    BY <1>4, <2>1, <2>2, <2>3 DEF Orderly
  <2>8. Apart(Each(c), Each(d))
    BY <2>7 DEF Apart, Each
  <2> QED BY <2>5, <2>6, <2>8
<1>5. ASSUME Orderly(c), Orderly(d), Apart(Each(c), Each(d)) PROVE Orderly(s)
  <2> SUFFICES ASSUME NEW i \in DOMAIN s, NEW k \in DOMAIN s, i # k
               PROVE  ~ Clash(s[i], s[k])
    BY DEF Orderly
  <2>1. CASE i \in DOMAIN c /\ k \in DOMAIN c
    BY <1>1, <1>5, <2>1 DEF Orderly
  <2>2. CASE i \in DOMAIN c /\ k \notin DOMAIN c
    BY <1>1, <1>2, <1>5, <2>2 DEF Apart, Each
  <2>3. CASE i \notin DOMAIN c /\ k \in DOMAIN c
    BY <1>1, <1>2, <1>5, <2>3 DEF Apart, Each
  <2>4. CASE i \notin DOMAIN c /\ k \notin DOMAIN c
    <3>1. /\ i - Len(c) \in DOMAIN d /\ s[i] = d[i - Len(c)]
          /\ k - Len(c) \in DOMAIN d /\ s[k] = d[k - Len(c)]
          /\ i - Len(c) # k - Len(c)
      BY <1>1, <1>2, <2>4
    <3> QED BY <1>5, <3>1 DEF Orderly
  <2> QED BY <2>1, <2>2, <2>3, <2>4
<1> QED BY <1>3, <1>4, <1>5 DEF s

\* The entry at the top of a stack is apart from the rest; what is put in its
\* place has to be.
LEMMA StackRest ==
  ASSUME NEW E, NEW s \in Seq(Seq(E)), s # <<>>, s[1] # <<>>,
         NEW c \in Seq(E)
  PROVE  LET R == Each(Tail(s[1])) \union Entries(Tail(s))
             n == <<c \o Tail(s[1])>> \o Tail(s)
         IN
         /\ Entries(s) = {s[1][1]} \union R
         /\ Distinct(s) => Apart({s[1][1]}, R)
         /\ Entries(n) = Each(c) \union R
         /\ Distinct(s) /\ Orderly(c) /\ Apart(Each(c), R) => Distinct(n)
<1> DEFINE d == Tail(s[1])
           t == Tail(s)
           e == s[1][1]
           R == Each(d) \union Entries(t)
<1>1. /\ e \in E /\ d \in Seq(E) /\ t \in Seq(Seq(E))
      /\ s[1] \in Seq(E) /\ s[1] = <<e>> \o d /\ s = <<<<e>> \o d>> \o t
  <2>1. e \in E /\ d \in Seq(E) /\ t \in Seq(Seq(E)) /\ s[1] \in Seq(E)
    BY StackParts
  <2>2. s[1] = <<e>> \o d
    BY <2>1, HeadTailProperties, ConcatProperties
  <2>3. s = <<s[1]>> \o t
    BY HeadTailProperties, ConcatProperties
  <2> QED BY <2>1, <2>2, <2>3
<1> HIDE DEF d, t, e, R
<1>2. ASSUME NEW b \in Seq(E)
      PROVE  /\ Entries(<<b \o d>> \o t) = Each(b) \union R
             /\ Distinct(<<b \o d>> \o t) <=>
                  /\ Orderly(b) /\ Orderly(d) /\ Apart(Each(b), Each(d))
                  /\ Distinct(t) /\ Apart(Each(b) \union Each(d), Entries(t))
  <2>1. b \o d \in Seq(E)
    BY <1>1, ConcatProperties
  <2>2. /\ Each(b \o d) = Each(b) \union Each(d)
        /\ Orderly(b \o d) <=> Orderly(b) /\ Orderly(d) /\ Apart(Each(b), Each(d))
    BY <1>1, EachConcat
  <2>3. R = Each(d) \union Entries(t)
    BY DEF R
  <2>4. /\ Entries(<<b \o d>> \o t) = Each(b \o d) \union Entries(t)
        /\ Distinct(<<b \o d>> \o t) <=>
              Orderly(b \o d) /\ Distinct(t) /\ Apart(Each(b \o d), Entries(t))
    BY <1>1, <2>1, EntriesPush
  <2> QED BY <2>2, <2>3, <2>4
<1>3. <<e>> \in Seq(E) /\ Each(<<e>>) = {e}
  BY <1>1 DEF Each
<1>4. /\ Entries(s) = {e} \union R
      /\ Distinct(s) <=>
           /\ Orderly(<<e>>) /\ Orderly(d) /\ Apart({e}, Each(d))
           /\ Distinct(t) /\ Apart({e} \union Each(d), Entries(t))
  BY <1>1, <1>2, <1>3
<1>5. R = Each(d) \union Entries(t)
  BY DEF R
<1>6. /\ Entries(<<c \o d>> \o t) = Each(c) \union R
      /\ Distinct(<<c \o d>> \o t) <=>
           /\ Orderly(c) /\ Orderly(d) /\ Apart(Each(c), Each(d))
           /\ Distinct(t) /\ Apart(Each(c) \union Each(d), Entries(t))
  BY <1>2
<1>7. Distinct(s) => Apart({e}, R)
  BY <1>4, <1>5 DEF Apart
<1>8. Distinct(s) /\ Orderly(c) /\ Apart(Each(c), R) => Distinct(<<c \o d>> \o t)
  BY <1>4, <1>5, <1>6 DEF Apart
<1> QED BY <1>4, <1>6, <1>7, <1>8 DEF d, t, e, R

-----------------------------------------------------------------------------
(***************************************************************************)
(* Ways to a path.                                                         *)
(***************************************************************************)
LEMMA BeyondReached ==
  ASSUME CompilerInv, NEW p \in Reached
  PROVE  p \in Path /\ Beyond(layout, p) \subseteq Reached
<1>1. PICK f \in Folder : p \in Reach[layout][f]
  BY DEF Reached
<1>2. Beyond(layout, p) \subseteq Reach[layout][f] /\ p \in Path
  BY <1>1, ReachClosed DEF Beyond, CompilerInv, Typed
<1> QED BY <1>2 DEF Reached

\* What is beyond a path that has not been left behind has not been met, and
\* is not beyond another that has.
LEMMA NotMet ==
  ASSUME CompilerInv, ~ Aliased, NEW V \in SUBSET Reached, Met(V),
         NEW q \in Reached \ V, NEW p \in Beyond(layout, q)
  PROVE  p \notin V /\ p \notin Folder /\ ~ Follows(V, p)
<1>1. p \in Reached
  BY BeyondReached
<1>2. p \notin Folder /\ \A r \in Reached : p \in Beyond(layout, r) => r = q
  BY <1>1 DEF Aliased
<1>3. ~ Follows(V, p)
  BY <1>2 DEF Follows
<1> QED BY <1>2, <1>3 DEF Met

\* What is ahead of others fits also when a path is met that they are not at.
LEMMA StillFits ==
  ASSUME NEW V, NEW q, NEW x \in Entry, Fits(V, x), ~ Clash(x, Visit(q))
  PROVE  Fits(V \union {q}, x)
<1>1. CASE x.op = "visit"
  <2>0. x = [op |-> x.op, path |-> x.path]
    BY DEF Entry
  <2>1. ASSUME x.path = q PROVE x = Visit(q)
    BY <1>1, <2>0, <2>1 DEF Visit
  <2> QED BY <1>1, <2>1 DEF Fits, Follows, Clash
<1>2. CASE x.op # "visit"
  <2>1. q \notin Kids(x.path)
    BY <1>2 DEF Clash, Visit, Entry
  <2> QED BY <1>2, <2>1 DEF Fits
<1> QED BY <1>1, <1>2

-----------------------------------------------------------------------------
(***************************************************************************)
(* What is ahead of a walker, but for the entry at the top; and of others. *)
(***************************************************************************)
Rest(w)   == Each(Tail(stack[w][1])) \union Entries(Tail(stack[w]))
Others(w) == UNION {Entries(stack[<<1, g>>]) : g \in Folder \ {w[2]}}

LEMMA OwnAhead ==
  ASSUME NEW V, Ahead(V), NEW w \in Walker, w[1] = 1
  PROVE  /\ Distinct(stack[w]) /\ Apart(Entries(stack[w]), Others(w))
         /\ \A x \in Entries(stack[w]) \union Others(w) : Fits(V, x)
<1>1. w = <<1, w[2]>> /\ w[2] \in Folder
  BY DEF Walker
<1>2. \A g \in Folder \ {w[2]} : Apart(Entries(stack[w]), Entries(stack[<<1, g>>]))
  BY <1>1 DEF Ahead
<1> QED BY <1>1, <1>2 DEF Apart, Others, Ahead

LEMMA AtTop ==
  ASSUME CompilerInv, round = 1, NEW V, Ahead(V), NEW w \in Walker, w[1] = 1, Calls(w)
  PROVE  /\ Fits(V, Here(w)) /\ Rest(w) \union Others(w) \subseteq Entry
         /\ \A x \in Rest(w) \union Others(w) : Fits(V, x)
         /\ Apart({Here(w)}, Rest(w) \union Others(w)) /\ Apart(Rest(w), Others(w))
         /\ \A c \in Seq(EntryOf(w)) :
              LET n == <<c \o Tail(stack[w][1])>> \o Tail(stack[w]) IN
              /\ Entries(n) = Each(c) \union Rest(w)
              /\ Orderly(c) /\ Apart(Each(c), Rest(w)) => Distinct(n)
<1> DEFINE E == EntryOf(w)
           s == stack[w]
<1>1. s \in Seq(Seq(E)) /\ s # <<>> /\ s[1] # <<>> /\ w = <<1, w[2]>> /\ w[2] \in Folder
  BY DEF CompilerInv, Within, Calls, Walker
<1>2. /\ Distinct(s) /\ Apart(Entries(s), Others(w))
      /\ \A x \in Entries(s) \union Others(w) : Fits(V, x)
  BY OwnAhead
<1>3. ASSUME NEW c \in Seq(E)
      PROVE  LET n == <<c \o Tail(s[1])>> \o Tail(s) IN
             /\ Entries(s) = {s[1][1]} \union Rest(w)
             /\ Apart({s[1][1]}, Rest(w))
             /\ Entries(n) = Each(c) \union Rest(w)
             /\ Orderly(c) /\ Apart(Each(c), Rest(w)) => Distinct(n)
  <2> DEFINE R == Each(Tail(s[1])) \union Entries(Tail(s))
             n == <<c \o Tail(s[1])>> \o Tail(s)
  <2>1. R = Rest(w)
    BY DEF Rest
  <2>2. /\ Entries(s) = {s[1][1]} \union R
        /\ Distinct(s) => Apart({s[1][1]}, R)
        /\ Entries(n) = Each(c) \union R
        /\ Distinct(s) /\ Orderly(c) /\ Apart(Each(c), R) => Distinct(n)
    <3> HIDE DEF s, E
    <3> QED BY <1>1, StackRest, Zenon
  <2> QED BY <1>2, <2>1, <2>2
<1>4. Entries(s) = {Here(w)} \union Rest(w) /\ Apart({Here(w)}, Rest(w))
  <2>1. <<>> \in Seq(E)
    OBVIOUS
  <2> QED BY <1>3, <2>1 DEF Here
<1>5. Entries(s) \subseteq Entry /\ Others(w) \subseteq Entry
  <2> SUFFICES ASSUME NEW f \in Folder PROVE Entries(stack[<<1, f>>]) \subseteq Entry
    BY <1>1 DEF Others
  <2>1. <<1, f>> \in Walker
    BY <1>1 DEF Walker
  <2>2. stack[<<1, f>>] \in Seq(Seq(Entry))
    BY <2>1, WithinIsTyped DEF TypeOK
  <2> SUFFICES ASSUME NEW i \in DOMAIN stack[<<1, f>>],
                      NEW j \in DOMAIN stack[<<1, f>>][i]
               PROVE  stack[<<1, f>>][i][j] \in Entry
    BY DEF Entries
  <2> HIDE DEF Entry
  <2>3. stack[<<1, f>>][i] \in Seq(Entry)
    BY <2>2, LenProperties, ElementOfSeq
  <2> QED BY <2>3, LenProperties, ElementOfSeq
<1>6. Apart({Here(w)}, Rest(w) \union Others(w)) /\ Apart(Rest(w), Others(w))
  BY <1>2, <1>4 DEF Apart
<1> QED BY <1>2, <1>3, <1>4, <1>5, <1>6

\* The walker goes on with entries that are new, and what was ahead of it.
LEMMA PutBack ==
  ASSUME CompilerInv, round = 1, NEW V, Ahead(V), NEW w \in Walker, w[1] = 1,
         NEW n, stack' = [stack EXCEPT ![w] = n], layout' = layout,
         NEW U, Distinct(n), Apart(Entries(n), Others(w)),
         \A x \in Entries(n) \union Others(w) : Fits(U, x)
  PROVE  Ahead(U)'
<1>0. w = <<1, w[2]>> /\ w[2] \in Folder
  BY DEF Walker
<1>1. ASSUME NEW f \in Folder
      PROVE  stack'[<<1, f>>] = IF f = w[2] THEN n ELSE stack[<<1, f>>]
  <2>1. <<1, f>> \in Walker
    BY <1>0 DEF Walker
  <2> QED BY <1>0, <2>1 DEF CompilerInv, Typed
<1>2. \A f \in Folder \ {w[2]} : Entries(stack[<<1, f>>]) \subseteq Others(w)
  BY DEF Others
<1>3. ASSUME NEW f \in Folder
      PROVE  /\ Distinct(stack'[<<1, f>>])
             /\ \A e \in Entries(stack'[<<1, f>>]) : Fits(U, e)
             /\ \A g \in Folder \ {f} :
                  Apart(Entries(stack'[<<1, f>>]), Entries(stack'[<<1, g>>]))
  <2>1. CASE f = w[2]
    BY <1>1, <1>2, <2>1 DEF Apart
  <2>2. CASE f # w[2]
    BY <1>0, <1>1, <1>2, <2>2 DEF Apart, Ahead
  <2> QED BY <2>1, <2>2
<1>4. /\ \A d, e : Clash(d, e)' <=> Clash(d, e)
      /\ \A e : Fits(U, e)' <=> Fits(U, e)
  <2>1. \A p : Kids(p)' = Kids(p)
    BY DEF Kids
  <2> QED BY <2>1 DEF Clash, Fits, Follows
<1>5. ASSUME NEW f \in Folder
      PROVE  /\ Distinct(stack[<<1, f>>])'
             /\ (\A e \in Entries(stack[<<1, f>>]) : Fits(U, e))'
  <2>1. /\ Distinct(stack'[<<1, f>>])
        /\ \A e \in Entries(stack'[<<1, f>>]) : Fits(U, e)
    BY <1>3
  <2>2. Distinct(stack[<<1, f>>])'
    BY <1>4, <2>1 DEF Distinct
  <2>3. (\A e \in Entries(stack[<<1, f>>]) : Fits(U, e))'
    BY <1>4, <2>1 DEF Entries
  <2> QED BY <2>2, <2>3
<1>6. ASSUME NEW f \in Folder, NEW g \in Folder \ {f}
      PROVE  Apart(Entries(stack[<<1, f>>]), Entries(stack[<<1, g>>]))'
  <2>1. Apart(Entries(stack'[<<1, f>>]), Entries(stack'[<<1, g>>]))
    BY <1>3
  <2> QED BY <1>4, <2>1 DEF Entries, Apart
<1> QED BY <1>5, <1>6 DEF Ahead

-----------------------------------------------------------------------------
(***************************************************************************)
(* Steps of the first compilation.                                         *)
(***************************************************************************)

\* A path that is met: what is beyond it has not been, and is not ahead.
LEMMA VisitMet ==
  ASSUME CompilerInv, round = 1, ~ Aliased, NEW V \in SUBSET Reached, Met(V), Ahead(V),
         NEW w \in Walker, w[1] = 1, Calls(w), Here(w).op = "visit"
  PROVE  LET q == Here(w).path
             U == V \union {q}
         IN
         /\ q \in Reached \ V /\ q \in Path /\ Here(w) = Visit(q)
         /\ \A p \in U : Follows(U, p)
         /\ \A r \in Beyond(layout, q) : r \notin U /\ ~ Follows(V, r)
         /\ \A x \in Rest(w) \union Others(w) : Fits(U, x)
         /\ Fits(U, List(q)) /\ Apart({List(q)}, Rest(w) \union Others(w))
<1> DEFINE q == Here(w).path
           U == V \union {q}
<1>1. Here(w) \in EntryOf(w) /\ q \in Reach[layout][w[2]] /\ q \in Path /\ w[2] \in Folder
  BY HereReached DEF Walker
<1>2. Here(w) = Visit(q)
  BY <1>1 DEF EntryOf, Visit
<1>3. /\ Fits(V, Here(w)) /\ Rest(w) \union Others(w) \subseteq Entry
      /\ \A x \in Rest(w) \union Others(w) : Fits(V, x)
      /\ Apart({Here(w)}, Rest(w) \union Others(w))
  BY AtTop
<1>4. q \in Reached \ V /\ Follows(V, q)
  BY <1>1, <1>3 DEF Fits, Reached
<1>5. ASSUME NEW r \in Beyond(layout, q) PROVE r \notin U /\ ~ Follows(V, r)
  BY <1>4, NotMet
<1>6. \A x \in Rest(w) \union Others(w) : Fits(U, x)
  <2> HIDE DEF q
  <2> QED BY <1>2, <1>3, StillFits DEF Apart
<1>7. Kids(q) \subseteq Beyond(layout, q)
  BY DEF Kids, Beyond
<1>8. Fits(U, List(q))
  BY <1>5, <1>7 DEF Fits, List
<1>9. ASSUME NEW x \in Rest(w) \union Others(w)
      PROVE  ~ Clash(List(q), x) /\ ~ Clash(x, List(q))
  <2>1. Fits(V, x)
    BY <1>3
  <2>2. x # List(q)
    BY <1>4, <2>1 DEF Fits, List
  <2>3. ~ (x.op = "visit" /\ x.path \in Kids(q))
    BY <1>5, <1>7, <2>1 DEF Fits
  <2> QED BY <2>2, <2>3 DEF Clash, List
<1>10. \A p \in U : Follows(U, p)
  BY <1>4 DEF Met, Follows
<1>11. Apart({List(q)}, Rest(w) \union Others(w))
  BY <1>9 DEF Apart
<1> QED BY <1>1, <1>2, <1>4, <1>5, <1>6, <1>8, <1>10, <1>11

\* What is left of a path to do is to list it, or nothing.
LEMMA BelowOnce ==
  ASSUME NEW p
  PROVE  Each(Below(p)) \subseteq {List(p)} /\ Orderly(Below(p))
BY DEF Below, Each, Orderly

\* One path more has been met.
LEMMA MetMore ==
  ASSUME NEW V, Met(V), NEW q, \A p \in V \union {q} : Follows(V \union {q}, p),
         layout' = layout, inputs' = inputs,
         \/ symlinks' = symlinks
         \/ symlinks' = symlinks \union {Real(q)} /\ Real(q) # q
  PROVE  Met(V \union {q})'
BY DEF Met, Follows, Real

LEMMA PassMet ==
  ASSUME CompilerInv, First, NEW V \in SUBSET Reached, Met(V), Ahead(V),
         NEW w \in Walker, w[1] = 1, Pass(w)
  PROVE  \E U \in SUBSET Reached : Met(U)' /\ Ahead(U)'
<1>a. PICK q : q = Here(w).path
  OBVIOUS
<1> DEFINE U == V \union {q}
           n == <<Below(q) \o Tail(stack[w][1])>> \o Tail(stack[w])
<1>0. /\ layout' = layout /\ symlinks' = symlinks /\ inputs' = inputs
      /\ stack' = [stack EXCEPT ![w] = n]
      /\ Calls(w) /\ Here(w).op = "visit" /\ round = 1 /\ ~ Aliased
  BY <1>a DEF Pass, Visits, Goes, disk, compile, First
<1>1. /\ q \in Reached
      /\ \A p \in U : Follows(U, p)
      /\ \A x \in Rest(w) \union Others(w) : Fits(U, x)
      /\ Fits(U, List(q)) /\ Apart({List(q)}, Rest(w) \union Others(w))
  BY <1>a, <1>0, VisitMet
<1>2. Below(q) \in Seq(EntryOf(w))
  BY <1>a, <1>0, HereReached, BelowReached
<1>3. Each(Below(q)) \subseteq {List(q)} /\ Orderly(Below(q))
  BY BelowOnce
<1>4. /\ Entries(n) = Each(Below(q)) \union Rest(w)
      /\ Orderly(Below(q)) /\ Apart(Each(Below(q)), Rest(w)) => Distinct(n)
      /\ Apart(Rest(w), Others(w))
  BY <1>0, <1>2, AtTop
<1> HIDE DEF n
<1>5. Distinct(n) /\ Apart(Entries(n), Others(w))
  BY <1>1, <1>3, <1>4 DEF Apart
<1>6. \A x \in Entries(n) \union Others(w) : Fits(U, x)
  BY <1>1, <1>3, <1>4
<1>7. Ahead(U)'
  <2> HIDE DEF U
  <2> QED BY <1>0, <1>5, <1>6, PutBack
<1>8. Met(U)'
  <2> HIDE DEF n
  <2> QED BY <1>0, <1>1, MetMore
<1> QED BY <1>1, <1>7, <1>8

\* What a link stands for is visited first, and is not among what is left.
LEMMA StoreMet ==
  ASSUME CompilerInv, ReadingInv, First, NEW V \in SUBSET Reached, Met(V), Ahead(V),
         NEW w \in Walker, w[1] = 1, StoreLink(w)
  PROVE  \E U \in SUBSET Reached : Met(U)' /\ Ahead(U)'
<1>a. PICK q, r : q = Here(w).path /\ r = Real(q)
  OBVIOUS
<1> DEFINE U == V \union {q}
           E == EntryOf(w)
           m == <<Below(q) \o Tail(stack[w][1])>> \o Tail(stack[w])
           n == <<<<Visit(r)>>>> \o m
<1>0. /\ layout' = layout /\ inputs' = inputs /\ at[w] = "store"
      /\ symlinks' = symlinks \union {r} /\ round = 1 /\ ~ Aliased
      /\ stack' = [stack EXCEPT ![w] =
            <<<<Visit(r)>>, Below(q) \o Tail(stack[w][1])>> \o Tail(stack[w])]
  BY <1>a DEF StoreLink, AfterLink, disk, compile, First, CompilerInv, Typed
<1>1. Calls(w) /\ r \in Path \ {q} /\ Here(w).op = "visit"
  BY <1>a, <1>0 DEF CompilerInv, Engaged, ReadingInv, Sending
<1>2. /\ q \in Reached /\ q \in Path
      /\ \A p \in U : Follows(U, p)
      /\ \A p \in Beyond(layout, q) : p \notin U /\ ~ Follows(V, p)
      /\ \A x \in Rest(w) \union Others(w) : Fits(U, x) /\ Fits(V, x)
      /\ Fits(U, List(q)) /\ Apart({List(q)}, Rest(w) \union Others(w))
  BY <1>a, <1>0, <1>1, VisitMet, AtTop
<1>3. r \in Beyond(layout, q)
  BY <1>a, <1>1, CompilerAssumption DEF Beyond, Real
<1>4. /\ Below(q) \in Seq(E) /\ Tail(stack[w][1]) \in Seq(E)
      /\ Tail(stack[w]) \in Seq(Seq(E)) /\ Visit(r) \in E
  <2>1. q \in Reach[layout][w[2]] /\ w[2] \in Folder /\ layout \in Layouts
    BY <1>a, <1>1, HereReached DEF Walker, CompilerInv, Typed
  <2>2. r \in Reach[layout][w[2]]
    BY <1>3, <2>1, ReachClosed DEF Beyond
  <2> QED BY <1>a, <1>1, <2>1, <2>2, HereReached, BelowReached DEF EntryOf, Visit
<1>5. Each(Below(q)) \subseteq {List(q)} /\ Orderly(Below(q))
  BY BelowOnce
<1>6. /\ Entries(m) = Each(Below(q)) \union Rest(w)
      /\ Orderly(Below(q)) /\ Apart(Each(Below(q)), Rest(w)) => Distinct(m)
      /\ Apart(Rest(w), Others(w))
  BY <1>0, <1>1, <1>4, AtTop
<1>7. ASSUME NEW x \in Rest(w) \union Others(w)
      PROVE  ~ Clash(Visit(r), x) /\ ~ Clash(x, Visit(r))
  <2>1. Fits(V, x) /\ ~ Follows(V, r)
    BY <1>2, <1>3
  <2>2. x # Visit(r)
    BY <2>1 DEF Fits, Visit
  <2>3. ~ (x.op = "list" /\ r \in Kids(x.path))
    BY <2>1 DEF Fits, Follows, Kids, Beyond
  <2> QED BY <2>2, <2>3 DEF Clash, Visit
<1>8. ~ Clash(Visit(r), List(q)) /\ ~ Clash(List(q), Visit(r))
  <2>1. r \notin Kids(q)
    <3>1. layout \in Layouts
      BY DEF CompilerInv, Typed
    <3> QED BY <1>a, <1>2, <3>1, CompilerAssumption DEF Kids, Real
  <2> QED BY <2>1 DEF Clash, Visit, List
<1>9. Apart({Visit(r)}, Entries(m) \union Others(w))
  BY <1>5, <1>6, <1>7, <1>8 DEF Apart
<1>10. Distinct(m)
  BY <1>2, <1>5, <1>6 DEF Apart
<1>11. /\ Entries(n) = {Visit(r)} \union Entries(m)
       /\ Distinct(n)
       /\ n = <<<<Visit(r)>>, Below(q) \o Tail(stack[w][1])>> \o Tail(stack[w])
  <2> DEFINE o == Below(q) \o Tail(stack[w][1])
             t == Tail(stack[w])
             i == <<Visit(r)>>
  <2>1. o \in Seq(E) /\ t \in Seq(Seq(E)) /\ i \in Seq(E)
    BY <1>4, ConcatProperties
  <2>2. Each(i) = {Visit(r)} /\ Orderly(i)
    BY DEF Each, Orderly
  <2> HIDE DEF o, t, i, E
  <2>3. m \in Seq(Seq(E))
    BY <2>1, StackPush DEF o, t
  <2> HIDE DEF m
  <2>4. /\ Entries(<<i>> \o m) = Each(i) \union Entries(m)
        /\ Orderly(i) /\ Distinct(m) /\ Apart(Each(i), Entries(m)) => Distinct(<<i>> \o m)
    BY <2>1, <2>3, EntriesPush DEF Orderly
  <2>5. Apart(Each(i), Entries(m))
    BY <1>9, <2>2 DEF Apart
  <2>6. <<i>> \o (<<o>> \o t) = <<i, o>> \o t
    BY <2>1
  <2> QED BY <1>10, <2>2, <2>4, <2>5, <2>6 DEF i, o, t, m
<1>12. Apart(Entries(n), Others(w))
  BY <1>2, <1>5, <1>6, <1>9, <1>11 DEF Apart
<1>13. \A x \in Entries(n) \union Others(w) : Fits(U, x)
  <2>1. Fits(U, Visit(r))
    BY <1>2, <1>3 DEF Fits, Visit, Follows
  <2> QED BY <1>2, <1>5, <1>6, <1>11, <2>1
<1>14. Ahead(U)'
  <2>1. stack' = [stack EXCEPT ![w] = n]
    BY <1>0, <1>11
  <2> HIDE DEF U, n
  <2> QED BY <1>0, <1>11, <1>12, <1>13, <2>1, PutBack
<1>15. Met(U)'
  <2> HIDE DEF n, m, E
  <2> QED BY <1>a, <1>0, <1>1, <1>2, MetMore
<1> QED BY <1>2, <1>14, <1>15

\* A folder that is listed has been met; its entries have not.
LEMMA ListMet ==
  ASSUME CompilerInv, First, NEW V \in SUBSET Reached, Met(V), Ahead(V),
         NEW w \in Walker, w[1] = 1, ListFolder(w)
  PROVE  Met(V)' /\ Ahead(V)'
<1>a. PICK q : q = Here(w).path
  OBVIOUS
<1> DEFINE n == <<Names(q) \o Tail(stack[w][1])>> \o Tail(stack[w])
<1>0. /\ layout' = layout /\ symlinks' = symlinks /\ inputs' = inputs
      /\ stack' = [stack EXCEPT ![w] = n] /\ gone = {}
      /\ Calls(w) /\ Here(w).op = "list" /\ round = 1 /\ ~ Aliased
  BY <1>a DEF ListFolder, Goes, disk, compile, First
<1>1. /\ Here(w) = List(q) /\ q \in Path /\ layout \in Layouts
  BY <1>a, <1>0, HereReached DEF EntryOf, List, CompilerInv, Typed
<1>2. /\ Fits(V, List(q)) /\ Rest(w) \union Others(w) \subseteq Entry
      /\ \A x \in Rest(w) \union Others(w) : Fits(V, x)
      /\ Apart({List(q)}, Rest(w) \union Others(w)) /\ Apart(Rest(w), Others(w))
  BY <1>0, <1>1, AtTop
<1>3. q \in V /\ Kids(q) \intersect V = {} /\ Kids(q) \subseteq Beyond(layout, q)
  BY <1>2 DEF Fits, List, Kids, Beyond
<1>4. Each(Names(q)) = {Visit(k) : k \in Kids(q)} /\ Orderly(Names(q))
  <2>1. /\ DOMAIN Names(q) = DOMAIN layout.kids[q]
        /\ \A i \in DOMAIN layout.kids[q] : Names(q)[i] = Visit(layout.kids[q][i])
    BY <1>0 DEF Names, Name
  <2>2. \A i, j \in DOMAIN layout.kids[q] :
          layout.kids[q][i] = layout.kids[q][j] => i = j
    BY <1>1, CompilerAssumption
  <2>3. \A k, l : Visit(k) = Visit(l) => k = l
    BY DEF Visit
  <2>4. \A k, l : Clash(Visit(k), Visit(l)) => k = l
    BY <2>3 DEF Clash, Visit
  <2>5. Orderly(Names(q))
    <3> SUFFICES ASSUME NEW i \in DOMAIN layout.kids[q], NEW j \in DOMAIN layout.kids[q],
                        i # j
                 PROVE  ~ Clash(Names(q)[i], Names(q)[j])
      BY <2>1 DEF Orderly
    <3> QED BY <2>1, <2>2, <2>4
  <2>6. Each(Names(q)) = {Visit(k) : k \in Kids(q)}
    BY <2>1 DEF Each, Kids
  <2> QED BY <2>5, <2>6
<1>5. ASSUME NEW k \in Kids(q)
      PROVE  /\ Fits(V, Visit(k))
             /\ \A x \in Rest(w) \union Others(w) :
                  ~ Clash(Visit(k), x) /\ ~ Clash(x, Visit(k))
  <2>1. Fits(V, Visit(k))
    BY <1>3 DEF Fits, Visit, Follows
  <2>2. ASSUME NEW x \in Rest(w) \union Others(w)
        PROVE  ~ Clash(Visit(k), x) /\ ~ Clash(x, Visit(k))
    <3>1. ~ Clash(List(q), x) /\ Fits(V, x) /\ x \in Entry
      BY <1>2 DEF Apart
    <3>2. x # Visit(k)
      BY <3>1 DEF Clash, List, Visit
    <3>3. ~ (x.op = "list" /\ k \in Kids(x.path))
      <4> SUFFICES ASSUME x.op = "list", k \in Kids(x.path) PROVE FALSE
        OBVIOUS
      <4>1. x.path \in V /\ k \in Beyond(layout, x.path) /\ k \in Beyond(layout, q)
        BY <1>3, <3>1 DEF Fits, Kids, Beyond
      <4>2. k \in Reached
        BY <1>3, <4>1, BeyondReached
      <4>3. x.path = q
        BY <1>0, <1>3, <4>1, <4>2 DEF Aliased
      <4>4. x = [op |-> x.op, path |-> x.path]
        BY <3>1 DEF Entry
      <4>5. x = List(q)
        BY <4>3, <4>4 DEF List
      <4> QED BY <3>1, <4>5 DEF Clash
    <3> QED BY <3>2, <3>3 DEF Clash, Visit
  <2> QED BY <2>1, <2>2
<1>6. /\ Entries(n) = Each(Names(q)) \union Rest(w)
      /\ Orderly(Names(q)) /\ Apart(Each(Names(q)), Rest(w)) => Distinct(n)
  <2>1. Names(q) \in Seq(EntryOf(w))
    BY <1>a, <1>0, NamesReached
  <2> QED BY <1>0, <2>1, AtTop
<1> HIDE DEF n
<1>7. Distinct(n) /\ Apart(Entries(n), Others(w))
  BY <1>2, <1>4, <1>5, <1>6 DEF Apart
<1>8. \A x \in Entries(n) \union Others(w) : Fits(V, x)
  BY <1>2, <1>4, <1>5, <1>6
<1>9. Ahead(V)'
  BY <1>0, <1>7, <1>8, PutBack
<1>10. Met(V)'
  BY <1>0 DEF Met, Follows, Real
<1> QED BY <1>9, <1>10

\* A file that is received has not been read, and can be.
LEMMA ReceiveMet ==
  ASSUME CompilerInv, ReadingInv, First, NEW V \in SUBSET Reached, Met(V), Ahead(V),
         NEW f \in Folder, Receive(f)
  PROVE  main' # "failed" /\ \E U \in SUBSET Reached : Met(U)' /\ Ahead(U)'
<1>a. PICK q, w : w = <<round, f>> /\ q = Here(w).path
  OBVIOUS
<1> DEFINE U == V \union {q}
           E == EntryOf(w)
           n == <<<<>> \o Tail(stack[w][1])>> \o Tail(stack[w])
<1>1. /\ w \in Walker /\ w[1] = 1 /\ w[2] = f /\ layout \in Layouts /\ symlinks \subseteq Path
      /\ round = 1 /\ gone = {} /\ ~ Aliased /\ at[w] = "send"
  BY <1>a DEF Walker, CompilerInv, Typed, First, Receive
<1>2. Calls(w) /\ Here(w).op = "visit" /\ Wanted(q) /\ Real(q) \in symlinks \union {q}
  BY <1>a, <1>1 DEF CompilerInv, Engaged, ReadingInv, Sending
<1>3. /\ q \in Reached \ V /\ q \in Path
      /\ \A p \in U : Follows(U, p)
      /\ \A x \in Rest(w) \union Others(w) : Fits(U, x)
  <2> HIDE DEF n, E
  <2>1. Calls(w) /\ Here(w).op = "visit"
    BY <1>2
  <2> QED BY <1>a, <1>1, <2>1, VisitMet, Zenon
<1>4. Real(q) = q
  <2> SUFFICES ASSUME Real(q) # q PROVE FALSE
    OBVIOUS
  <2>1. PICK p \in V : Real(p) # p /\ Real(q) = Real(p)
    BY <1>2 DEF Met
  <2>2. Real(q) # Nowhere
    BY <1>1, <1>2, CompilerAssumption
  <2>3. Real(q) \in Beyond(layout, q) /\ Real(q) \in Beyond(layout, p)
    BY <2>1, <2>2 DEF Beyond, Real
  <2>4. Real(q) \in Reached
    BY <1>3, <2>3, BeyondReached
  <2>5. p = q
    BY <1>1, <1>3, <2>3, <2>4 DEF Aliased
  <2> QED BY <1>3, <2>5
<1>5. Readable(q)
  <2>1. layout.kind[q] \in {"dir", "file", "link"} /\ layout.kind[q] # "link"
    BY <1>1, <1>3, <1>4, CompilerAssumption DEF Real
  <2>2. layout.kind[q] = "file"
    BY <1>2, <2>1 DEF Wanted, Dir
  <2>3. ~ Broken(q)
    BY <1>1, <1>3, <1>4, CompilerAssumption DEF Broken
  <2> QED BY <1>4, <2>2, <2>3 DEF Readable
<1>6. Tail(stack[w][1]) \in Seq(E) /\ <<>> \in Seq(E)
  BY <1>1, <1>2, HereReached
<1>0. /\ layout' = layout /\ symlinks' = symlinks /\ main' = "reading"
      /\ inputs' = [inputs EXCEPT ![q] = @ + 1] /\ inputs \in [Path -> Nat]
      /\ stack' = [stack EXCEPT ![w] = n]
  <2>1. n = Done(w)
    <3> DEFINE c == Tail(stack[w][1])
    <3>1. <<>> \o c = c
      <4> HIDE DEF c, E
      <4> QED BY <1>6, ConcatEmptySeq
    <3> QED BY <3>1 DEF Done
  <2> QED BY <1>a, <1>5, <2>1 DEF Receive, disk, CompilerInv, Typed
<1>7. /\ Entries(n) = Rest(w) /\ Distinct(n) /\ Apart(Rest(w), Others(w))
  <2>1. Each(<<>>) = {} /\ Orderly(<<>>) /\ Apart({}, Rest(w))
    BY DEF Each, Orderly, Apart
  <2> QED BY <1>1, <1>2, <1>6, <2>1, AtTop
<1> HIDE DEF n, E
<1>8. Ahead(U)'
  <2> HIDE DEF U
  <2> QED BY <1>0, <1>1, <1>3, <1>7, PutBack
<1>9. Met(U)'
  <2>1. inputs[q] = 0
    BY <1>0, <1>3 DEF Met
  <2>2. \A p \in Path : inputs'[p] = IF p = q THEN 1 ELSE inputs[p]
    BY <1>0, <1>3, <2>1
  <2>3. \A p \in Path : inputs'[p] > 0 => p \in U /\ Real(p) = p /\ inputs'[p] = 1
    BY <1>4, <2>2 DEF Met
  <2>4. symlinks \subseteq {Real(p) : p \in {r \in U : Real(r) # r}}
    BY DEF Met
  <2> QED BY <1>0, <1>3, <2>3, <2>4 DEF Met, Follows, Real
<1> QED BY <1>0, <1>3, <1>8, <1>9

\* A call that ends, or is given up, leaves what is ahead in the calls around it.
LEMMA TailMet ==
  ASSUME CompilerInv, First, NEW V \in SUBSET Reached, Met(V), Ahead(V),
         NEW w \in Walker, w[1] = 1, stack[w] # <<>>, Goes(w, "walk", Tail(stack[w]))
  PROVE  Met(V)' /\ Ahead(V)'
<1> DEFINE s == stack[w]
           t == Tail(s)
           E == EntryOf(w)
<1>0. /\ layout' = layout /\ symlinks' = symlinks /\ inputs' = inputs
      /\ stack' = [stack EXCEPT ![w] = t] /\ round = 1
  BY DEF Goes, disk, compile, First
<1>1. /\ Distinct(s) /\ Apart(Entries(s), Others(w))
      /\ \A x \in Entries(s) \union Others(w) : Fits(V, x)
  BY OwnAhead
<1>2. Entries(t) \subseteq Entries(s) /\ Distinct(t)
  <2>1. s \in Seq(Seq(E)) /\ s # <<>>
    BY DEF CompilerInv, Within
  <2> HIDE DEF s, E, t
  <2>2. PICK c \in Seq(E) : t \in Seq(Seq(E)) /\ s = <<c>> \o t
    <3>1. s[1] \in Seq(E) /\ t \in Seq(Seq(E)) /\ s = <<s[1]>> \o t
      BY <2>1, StackParts, HeadTailProperties, ConcatProperties DEF t
    <3> QED BY <3>1
  <2>3. /\ Entries(<<c>> \o t) = Each(c) \union Entries(t)
        /\ Distinct(<<c>> \o t) => Distinct(t)
    BY <2>2, EntriesPush
  <2> QED BY <1>1, <2>2, <2>3
<1> HIDE DEF s, t
<1>3. Apart(Entries(t), Others(w)) /\ \A x \in Entries(t) \union Others(w) : Fits(V, x)
  BY <1>1, <1>2 DEF Apart
<1>4. Ahead(V)'
  BY <1>0, <1>2, <1>3, PutBack
<1>5. Met(V)'
  BY <1>0 DEF Met, Follows, Real
<1> QED BY <1>4, <1>5

\* A step that leaves the stacks as they are.
LEMMA StayMet ==
  ASSUME NEW V \in SUBSET Reached, Met(V), Ahead(V),
         layout' = layout, symlinks' = symlinks, inputs' = inputs, stack' = stack
  PROVE  Met(V)' /\ Ahead(V)'
<1>1. Met(V)'
  BY DEF Met, Follows, Real
<1>2. \A p : Kids(p)' = Kids(p)
  BY DEF Kids
<1>3. \A d, e : Clash(d, e)' <=> Clash(d, e)
  BY <1>2 DEF Clash
<1>4. \A e : Fits(V, e)' <=> Fits(V, e)
  BY <1>2 DEF Fits, Follows
<1>5. ASSUME NEW f \in Folder
      PROVE  /\ Distinct(stack[<<1, f>>])'
             /\ (\A e \in Entries(stack[<<1, f>>]) : Fits(V, e))'
  <2>1. /\ Distinct(stack[<<1, f>>])
        /\ \A e \in Entries(stack[<<1, f>>]) : Fits(V, e)
    BY DEF Ahead
  <2>2. Distinct(stack[<<1, f>>])'
    BY <1>3, <2>1 DEF Distinct
  <2>3. (\A e \in Entries(stack[<<1, f>>]) : Fits(V, e))'
    BY <1>4, <2>1 DEF Entries
  <2> QED BY <2>2, <2>3
<1>6. ASSUME NEW f \in Folder, NEW g \in Folder \ {f}
      PROVE  Apart(Entries(stack[<<1, f>>]), Entries(stack[<<1, g>>]))'
  <2>1. Apart(Entries(stack'[<<1, f>>]), Entries(stack'[<<1, g>>]))
    BY DEF Ahead
  <2> QED BY <1>3, <2>1 DEF Entries, Apart
<1> QED BY <1>1, <1>5, <1>6 DEF Ahead

\* Nothing has been read twice.
LEMMA NotTwice ==
  ASSUME NEW V, Met(V)
  PROVE  ~ Twice
BY DEF Met, Twice

LEMMA NextMetOnce == CompilerInv /\ ReadingInv /\ MetOnce /\ [Next]_vars => MetOnce'
<1> SUFFICES ASSUME CompilerInv, ReadingInv, MetOnce, [Next]_vars, First'
             PROVE  main' # "failed" /\ \E U \in SUBSET Reached' : Met(U)' /\ Ahead(U)'
  BY DEF MetOnce
<1>0. layout' = layout /\ First
  <2>1. layout' = layout
    BY DEF vars, Next, Compile, Parse, Receive, CompileAgain, Walk, WalkFails, FindLink,
           StoreLink, FindFile, Pass, ListFolder, Returns, WalkEnds, Goes, Throw, Remove, disk
  <2>2. gone' = {} => gone = {}
    BY DEF vars, Next, Compile, Parse, Receive, CompileAgain, Walk, WalkFails, FindLink,
           StoreLink, FindFile, Pass, ListFolder, Returns, WalkEnds, Goes, Throw, Remove, disk
  <2>3. round' = 1 => round = 1
    <3>1. CASE CompileAgain
      BY <3>1 DEF CompileAgain, CompilerInv, Typed
    <3>2. CASE ~ CompileAgain
      BY <3>2 DEF vars, Next, Compile, Parse, Receive, Walk, WalkFails, FindLink, StoreLink,
             FindFile, Pass, ListFolder, Returns, WalkEnds, Goes, Throw, Remove, compile
    <3> QED BY <3>1, <3>2
  <2> QED BY <2>1, <2>2, <2>3 DEF First, Aliased, Reached
<1>1. PICK V \in SUBSET Reached : main # "failed" /\ Met(V) /\ Ahead(V)
  BY <1>0 DEF MetOnce
<1>2. Reached' = Reached
  BY <1>0 DEF Reached
<1>3. ASSUME NEW w \in Walker, Walk(w)
      PROVE  main' # "failed" /\ \E U \in SUBSET Reached : Met(U)' /\ Ahead(U)'
  <2>1. w[1] = 1
    <3>1. at[w] # "none"
      BY <1>3 DEF Walk, WalkFails, FindLink, FindFile, Pass, ListFolder, Returns,
             WalkEnds, StoreLink, Visits
    <3> QED BY <1>0, <3>1, Begun DEF First
  <2>2. main' # "failed"
    BY <1>1, <1>3 DEF Walk, WalkFails, FindLink, FindFile, Pass, ListFolder, Returns,
             WalkEnds, StoreLink, Goes, compile
  <2>3. CASE WalkFails(w) \/ Returns(w)
    BY <1>0, <1>1, <2>1, <2>2, <2>3, TailMet DEF WalkFails, Visits, Calls, Dropped, Returns
  <2>4. CASE FindLink(w) \/ FindFile(w) \/ WalkEnds(w)
    <3>1. stack' = stack
      BY <2>4 DEF FindLink, FindFile, WalkEnds, Goes, CompilerInv, Typed
    <3> QED BY <1>1, <2>2, <2>4, <3>1, StayMet DEF FindLink, FindFile, WalkEnds, Goes, disk, compile
  <2>5. CASE Pass(w)
    BY <1>0, <1>1, <2>1, <2>2, <2>5, PassMet
  <2>6. CASE ListFolder(w)
    BY <1>0, <1>1, <2>1, <2>2, <2>6, ListMet
  <2>7. CASE StoreLink(w)
    BY <1>0, <1>1, <2>1, <2>2, <2>7, StoreMet
  <2> QED BY <1>3, <2>2, <2>3, <2>4, <2>5, <2>6, <2>7 DEF Walk
<1>4. ASSUME NEW f \in Folder, Receive(f)
      PROVE  main' # "failed" /\ \E U \in SUBSET Reached : Met(U)' /\ Ahead(U)'
  BY <1>0, <1>1, <1>4, ReceiveMet
<1>5. CASE Parse
  <2>1. main' # "failed"
    BY <1>1, <1>5, NotTwice DEF Parse
  <2>2. layout' = layout /\ symlinks' = symlinks /\ inputs' = inputs /\ stack' = stack
    BY <1>5 DEF Parse, disk, walk
  <2>3. Met(V)' /\ Ahead(V)'
    BY <1>1, <2>2, StayMet
  <2> QED BY <1>2, <2>1, <2>3
<1>6. ASSUME NEW p \in Path, Remove(p) PROVE FALSE
  BY <1>6 DEF Remove, First
<1>7. ASSUME NEW w \in Walker, NEW v \in Walker, Throw(v, w)
      PROVE  main' # "failed" /\ \E U \in SUBSET Reached : Met(U)' /\ Ahead(U)'
  BY <1>1, <1>7, StayMet DEF Throw, disk, walk
<1>8. CASE CompileAgain
  BY <1>0, <1>8 DEF CompileAgain, First
<1>9. CASE UNCHANGED vars
  <2>1. main' # "failed"
    BY <1>1, <1>9 DEF vars
  <2>2. layout' = layout /\ symlinks' = symlinks /\ inputs' = inputs /\ stack' = stack
    BY <1>9 DEF vars
  <2>3. Met(V)' /\ Ahead(V)'
    BY <1>1, <2>2, StayMet
  <2> QED BY <1>2, <2>1, <2>3
<1> QED BY <1>2, <1>3, <1>4, <1>5, <1>6, <1>7, <1>8, <1>9 DEF Next, Compile

LEMMA InitMetOnce == Init => MetOnce
<1> SUFFICES ASSUME Init PROVE main # "failed" /\ Met({}) /\ Ahead({})
  BY DEF MetOnce
<1>1. main # "failed" /\ Met({})
  BY DEF Init, Met, Nothing
<1>2. ASSUME NEW f \in Folder
      PROVE  Distinct(stack[<<1, f>>]) /\ Entries(stack[<<1, f>>]) = {Visit(f)}
  <2>1. <<1, f>> \in Walker
    BY CompilerAssumption DEF Walker
  <2>2. stack[<<1, f>>] = <<<<Visit(f)>>>>
    BY <2>1 DEF Init, Visit
  <2> QED BY <2>2 DEF Distinct, Entries
<1>3. \A f \in Folder : Fits({}, Visit(f))
  BY DEF Fits, Follows, Visit
<1>4. \A f \in Folder, g \in Folder : f # g => Apart({Visit(f)}, {Visit(g)})
  BY DEF Apart, Clash, Visit
<1> QED BY <1>1, <1>2, <1>3, <1>4 DEF Ahead

LEMMA MetOnceSucceeds == MetOnce => FirstSucceeds
BY DEF MetOnce, First, FirstSucceeds

\* In a layout with one way to each path the map of links and the goroutines
\* cannot make the first compilation fail: nothing is read twice, and no link
\* takes the place of a file.
THEOREM FirstCompiles == Spec => []FirstSucceeds
<1>1. Init => ReadingInv /\ MetOnce
  BY InitReading, InitMetOnce
<1>2. CompilerInv /\ ReadingInv /\ MetOnce /\ [Next]_vars => (ReadingInv /\ MetOnce)'
  BY NextReading, NextMetOnce
<1>3. Spec => [](ReadingInv /\ MetOnce)
  BY <1>1, <1>2, CompilerInvariant, PTL DEF Spec
<1> QED BY <1>3, MetOnceSucceeds, PTL
=============================================================================
