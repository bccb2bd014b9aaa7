------------------------------ MODULE Compiler ------------------------------
(***************************************************************************)
(* package compiler: Compile and listFiles, one compilation after another  *)
(* in a process ("client watch" compiles every interval).  A goroutine for *)
(* each folder walks it and sends the paths of the files it finds over an  *)
(* unbuffered channel to Compile, which reads them and parses the lot.     *)
(*                                                                         *)
(* A layout says what the file system has at the paths the walks can come  *)
(* across: filepath.Walk does not follow symbolic links; listFiles calls   *)
(* itself with the path a link stands for, unless that is in the map of    *)
(* links, which all goroutines and all compilations of the process share.  *)
(* Parsing is in Parser; here each file defines a promise of its own, so   *)
(* that a file read twice is an error ("found duplicate promise").         *)
(***************************************************************************)
EXTENDS Naturals, Sequences

CONSTANTS
  Path,       \* the paths
  Folder,     \* the folders Compile is called with
  Nowhere,    \* what a dangling link stands for
  Layouts,    \* the layouts
  Rounds      \* bound: compilations of the process

ASSUME CompilerAssumption ==
  /\ Folder \subseteq Path /\ Nowhere \notin Path
  /\ \A l \in Layouts :
       /\ l.kind \in [Path -> {"dir", "file", "link"}]
       /\ l.kids \in [Path -> Seq(Path)]
       /\ \A p \in Path : l.kind[p] # "dir" => l.kids[p] = <<>>
       /\ \A p \in Path : \A i, j \in DOMAIN l.kids[p] :
            l.kids[p][i] = l.kids[p][j] => i = j     \* names in a directory
       /\ l.real \in [Path -> Path \union {Nowhere}]  \* EvalSymlinks
       /\ \A p \in Path : l.kind[p] = "link" => l.real[p] # p
       /\ \A p \in Path : \A i \in DOMAIN l.kids[p] :
            l.kids[p][i] # l.real[p]     \* nothing is resolved to what is in it
       /\ l.cnf \subseteq Path                       \* names ending in "cnf"
  /\ Rounds \in Nat \ {0}

VARIABLES
  layout,     \* the file system
  gone,       \* the files that have been removed meanwhile
  symlinks,   \* the keys of the map
  round,      \* the current compilation
  main,       \* where its Compile is
  inputs,     \* path -> how often it has been read by this compilation
  at,         \* walker -> where its goroutine is
  stack       \* walker -> its calls of listFiles, the innermost first: what
              \* each has still to visit, or to list when it has visited it

disk    == <<layout, gone>>
compile == <<round, main, inputs>>
walk    == <<at, stack>>
vars    == <<layout, gone, symlinks, round, main, inputs, at, stack>>

Walker == (1 .. Rounds) \X Folder
Entry  == [op : {"visit", "list"}, path : Path]
Visit(p) == [op |-> "visit", path |-> p]
List(p)  == [op |-> "list", path |-> p]

TypeOK ==
  /\ layout \in Layouts /\ gone \subseteq Path
  /\ symlinks \subseteq Path
  /\ round \in 1 .. Rounds
  /\ main \in {"reading", "compiled", "failed", "crashed"}
  /\ inputs \in [Path -> Nat]
  /\ at \in [Walker -> {"none", "walk", "store", "send", "done"}]
  /\ stack \in [Walker -> Seq(Seq(Entry))]

Begins(r) == [w \in Walker |-> IF w[1] = r THEN "walk" ELSE at[w]]
Nothing   == [p \in Path |-> 0]

Init ==
  /\ layout \in Layouts /\ gone = {}
  /\ symlinks = {}
  /\ round = 1 /\ main = "reading" /\ inputs = Nothing
  /\ at = [w \in Walker |-> IF w[1] = 1 THEN "walk" ELSE "none"]
  /\ stack = [w \in Walker |-> <<<<Visit(w[2])>>>>]

-----------------------------------------------------------------------------
(***************************************************************************)
(* listFiles.                                                              *)
(***************************************************************************)
Real(p) == layout.real[p]
Dir(p)  == layout.kind[p] = "dir"

\* Lstat, or EvalSymlinks, fails.
Broken(p) == Real(p) = Nowhere \/ {p, Real(p)} \cap gone # {}

\* The entry a walker is at, and the stack without it.
Calls(w) == stack[w] # <<>> /\ stack[w][1] # <<>>
Here(w)  == stack[w][1][1]
Done(w)  == <<Tail(stack[w][1])>> \o Tail(stack[w])

Visits(w) == at[w] = "walk" /\ Calls(w) /\ Here(w).op = "visit"
Goes(w, state, s) ==
  /\ at' = [at EXCEPT ![w] = state]
  /\ stack' = [stack EXCEPT ![w] = s]
  /\ UNCHANGED <<disk, symlinks, compile>>

\* Any error ends the walk of one call: it is logged, and that is all.
Dropped_Not(w) == stack[w]
Dropped(w) == Tail(stack[w])

WalkFails(w) ==
  /\ Visits(w) /\ Broken(Here(w).path)
  /\ Goes(w, "walk", Dropped(w))

\* The map is looked at here and written in another step.
NewLink_Always(p) == Real(p) \notin symlinks
NewLink(p) == Real(p) # p /\ Real(p) \notin symlinks

FindLink(w) ==
  /\ Visits(w) /\ ~ Broken(Here(w).path) /\ NewLink(Here(w).path)
  /\ Goes(w, "store", stack[w])

Below(p) == IF Dir(p) THEN <<List(p)>> ELSE <<>>

\* After the inner walk the outer one goes on, into p if that is a directory.
AfterLink_Visit(p) == <<Visit(p)>>
AfterLink(p) == Below(p)

StoreLink(w) ==
  /\ at[w] = "store"
  /\ LET p == Here(w).path IN
       /\ symlinks' = symlinks \union {Real(p)}
       /\ stack' = [stack EXCEPT ![w] =
            <<<<Visit(Real(p))>>, AfterLink(p) \o Tail(@[1])>> \o Tail(@)]
  /\ at' = [at EXCEPT ![w] = "walk"]
  /\ UNCHANGED <<disk, compile>>

\* A link met again counts by its own name.
Wanted(p) == ~ Dir(p) /\ p \in layout.cnf

FindFile(w) ==
  /\ Visits(w)
  /\ LET p == Here(w).path IN ~ Broken(p) /\ ~ NewLink(p) /\ Wanted(p)
  /\ Goes(w, "send", stack[w])

Pass(w) ==
  /\ Visits(w)
  /\ LET p == Here(w).path IN
       /\ ~ Broken(p) /\ ~ NewLink(p) /\ ~ Wanted(p)
       /\ Goes(w, "walk", <<Below(p) \o Tail(stack[w][1])>> \o Tail(stack[w]))

\* The names are read at once, and each is looked at when it is its turn.
\* One that has been removed before is none: like a folder without entries.
Name(k)  == IF k \in gone THEN List(k) ELSE Visit(k)
Names(p) == [i \in DOMAIN layout.kids[p] |-> Name(layout.kids[p][i])]

ListFolder(w) ==
  /\ at[w] = "walk" /\ Calls(w) /\ Here(w).op = "list"
  /\ Goes(w, "walk", <<Names(Here(w).path) \o Tail(stack[w][1])>> \o Tail(stack[w]))

Returns(w) ==
  /\ at[w] = "walk" /\ stack[w] # <<>> /\ stack[w][1] = <<>>
  /\ Goes(w, "walk", Tail(stack[w]))

WalkEnds(w) ==
  /\ at[w] = "walk" /\ stack[w] = <<>>
  /\ Goes(w, "done", <<>>)

Walk(w) ==
  \/ WalkFails(w) \/ FindLink(w) \/ StoreLink(w) \/ FindFile(w) \/ Pass(w)
  \/ ListFolder(w) \/ Returns(w) \/ WalkEnds(w)

\* The runtime ends the process when it notices that the map is written by
\* one goroutine while another uses it.
UsesMap(w) ==
  \/ at[w] = "store"
  \/ Visits(w) /\ LET p == Here(w).path IN ~ Broken(p) /\ Real(p) # p

Throw(v, w) ==
  /\ v # w /\ at[v] = "store" /\ UsesMap(w)
  /\ main' = "crashed"
  /\ UNCHANGED <<disk, symlinks, round, inputs, walk>>

-----------------------------------------------------------------------------
(***************************************************************************)
(* Compile.                                                                *)
(***************************************************************************)

\* A path is received and read; an error ends the compilation, and leaves
\* its walkers to themselves.
Readable(p) == ~ Broken(p) /\ layout.kind[Real(p)] = "file"

Receive(f) ==
  LET w == <<round, f>> IN
    /\ main = "reading" /\ at[w] = "send"
    /\ at' = [at EXCEPT ![w] = "walk"]
    /\ stack' = [stack EXCEPT ![w] = Done(w)]
    /\ IF Readable(Here(w).path)
         THEN inputs' = [inputs EXCEPT ![Here(w).path] = @ + 1] /\ main' = main
         ELSE main' = "failed" /\ inputs' = inputs
    /\ UNCHANGED <<disk, symlinks, round>>

\* The channel is closed when the walkers of this compilation are done.
Closed_ByFirst == \E f \in Folder : at[<<round, f>>] = "done"
Closed == \A f \in Folder : at[<<round, f>>] = "done"

Twice == \E p, q \in Path :
  /\ Real(p) = Real(q) /\ inputs[p] > 0 /\ inputs[q] > 0
  /\ p # q \/ inputs[p] > 1

Parse ==
  /\ main = "reading" /\ Closed
  /\ main' = IF Twice THEN "failed" ELSE "compiled"
  /\ UNCHANGED <<disk, symlinks, round, inputs, walk>>

CompileAgain ==
  /\ main \in {"compiled", "failed"} /\ round < Rounds
  /\ round' = round + 1
  /\ main' = "reading" /\ inputs' = Nothing
  /\ at' = Begins(round + 1)
  /\ UNCHANGED <<disk, symlinks, stack>>

\* Someone removes a file, once.
Remove(p) ==
  /\ layout.kind[p] = "file" /\ gone = {}
  /\ gone' = {p}
  /\ UNCHANGED <<layout, symlinks, compile, walk>>

-----------------------------------------------------------------------------
Compile == Parse \/ \E f \in Folder : Receive(f)

Next ==
  /\ main # "crashed"
  /\ \/ Compile \/ CompileAgain
     \/ \E w \in Walker : Walk(w) \/ \E v \in Walker : Throw(v, w)
     \/ \E p \in Path : Remove(p)

Spec == Init /\ [][Next]_vars

\* Goroutines that can go on do.
FairSpec ==
  /\ Spec
  /\ WF_vars(main # "crashed" /\ Compile)
  /\ \A w \in Walker : WF_vars(main # "crashed" /\ Walk(w))

-----------------------------------------------------------------------------
(***************************************************************************)
(* Properties.                                                             *)
(***************************************************************************)

\* What is below a folder, links followed: the smallest set with the folder
\* that has the entries of its directories and what its links stand for.
Beyond(l, p) ==
  {l.kids[p][i] : i \in DOMAIN l.kids[p]} \union ({l.real[p]} \ {p, Nowhere})
Surround(l, f) ==
  {S \in SUBSET Path : f \in S /\ \A p \in S : Beyond(l, p) \subseteq S}
Reach == [l \in Layouts |-> [f \in Folder |->
            {p \in Path : \A S \in Surround(l, f) : p \in S}]]
Reached == UNION {Reach[layout][f] : f \in Folder}

Files == {p \in Reached : layout.kind[p] = "file" /\ Real(p) = p /\ p \in layout.cnf}
Linked(f) == \E p \in Reach[layout][f] : Real(p) # p
Intact  == gone = {} /\ \A p \in Reached : Real(p) # Nowhere

\* There are two ways to a path, or one that leads back to a folder.
Aliased == \E p, q, r \in Reached :
  /\ p \in Beyond(layout, q) \intersect Beyond(layout, r)
  /\ q # r \/ p \in Folder

\* What can be read: a link counts by its own name, as does what it stands for.
Found == {Real(p) : p \in {q \in Reached : Wanted(q)}}
Read == {Real(p) : p \in {q \in Path : inputs[q] > 0}}

\* A compilation that succeeds has read every file below the folders, however
\* the goroutines interleave: the first one of a process, and each where there
\* are no links, unless a dangling link or a file removed meanwhile ends a walk.
\* Nothing else is read but a file that a link with the suffix stands for.
ReadsAll ==
  main = "compiled" /\ Intact /\ (round = 1 \/ ~ \E f \in Folder : Linked(f)) =>
    /\ Files \subseteq Read
    /\ Read \subseteq {p \in Found : layout.kind[p] = "file"}

\* The first compilation fails only if a file was removed under it, or can be
\* reached in two ways.
FirstSucceeds == main = "failed" /\ round = 1 /\ gone = {} => Aliased

\* The goroutines write the map without a lock, and yet a process crashes only
\* if there are links below two folders, or a walker is left over from a
\* compilation that failed.
CrashNeedsTwo ==
  main = "crashed" =>
    \/ \E f, g \in Folder : f # g /\ Linked(f) /\ Linked(g)
    \/ \E r \in 1 .. round - 1, f \in Folder : at[<<r, f>>] # "done"

\* A compilation ends, also when links lead in a circle.
CompileEnds == (main = "reading") ~> (main # "reading")

-----------------------------------------------------------------------------
\* Readme.md, Config Files: "LLConf concatenates all files in the input folder
\* recursively."
FilesRead == main = "compiled" /\ gone = {} => Read = Files
=============================================================================
