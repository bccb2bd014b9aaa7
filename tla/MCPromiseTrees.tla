--------------------------- MODULE MCPromiseTrees ---------------------------
(***************************************************************************)
(* Promise trees for model checking.  A table gives each node its type,    *)
(* its nested promises and its parameters; Parent and Depth follow.        *)
(*                                                                         *)
(* "scopes": variables set, read and inherited around a named promise      *)
(*   (scopes (and (setvar "x" " a") (inner [var:x]) (info "..")            *)
(*                (or (setvar "y" [join [arg:0] [var:y]]) (restart))))     *)
(* with (inner (and (setvar "y" [join [arg:0] "b"])                        *)
(*                  (readvar "x" (test ..)))).                             *)
(* "env": five nested or neighbouring (setenv), so that the environment    *)
(* slice grows over spare capacity that two of them share.                 *)
(* "reports": every promise that counts or can panic.                      *)
(* "overwrite": a variable set again below a named promise.                *)
(* (setenv) and (template) occur below an (eval) only: they are not among  *)
(* the types context.go registers for sending.                             *)
(***************************************************************************)
EXTENDS PromiseTree, TLC

Const(v)   == [kind |-> "const", value |-> v]
ArgG(k)    == [kind |-> "arg", pos |-> k]
VarG(x)    == [kind |-> "var", name |-> x]
Join(l, r) == [kind |-> "join", left |-> l, right |-> r]

Plain(kind, kids) == [kind |-> kind, kids |-> kids, params |-> <<>>,
                      var |-> "x", stages |-> <<>>, printed |-> <<>>]
Set(x, getter)    == [Plain("setvar", <<>>) EXCEPT !.var = x, !.params = <<getter>>]
Read(x, kid)      == [Plain("readvar", <<kid>>) EXCEPT !.var = x]
Command(kind, stages, out) ==
  [Plain(kind, <<>>) EXCEPT !.stages = stages, !.printed = out]
Named(kid, getters) == [Plain("named", <<kid>>) EXCEPT !.params = getters]

ScopesTree ==
     "s0" :> Named("s1", <<>>)
  @@ "s1" :> Plain("and", <<"s2", "s3", "sb", "s8">>)
  @@ "s2" :> Set("x", Const(<<" ", "a">>))
  @@ "s3" :> Named("s4", <<VarG("x")>>)
  @@ "s4" :> Plain("and", <<"s5", "s6">>)
  @@ "s5" :> Set("y", Join(ArgG(0), Const(<<"b">>)))
  @@ "s6" :> Read("x", "s7")
  @@ "s7" :> Command("exec", <<"test">>, <<"a", " ">>)
  @@ "s8" :> Plain("or", <<"s9", "sa">>)
  @@ "s9" :> Set("y", Join(ArgG(0), VarG("y")))
  @@ "sa" :> Plain("restart", <<>>)
  @@ "sb" :> Plain("info", <<>>)

EnvTree ==
     "e0" :> Named("e1", <<>>)
  @@ "e1" :> Plain("eval", <<"ed">>)
  @@ "ed" :> Named("ee", <<>>)
  @@ "ee" :> Plain("setenv", <<"e2">>)
  @@ "e2" :> Plain("indir", <<"e3">>)
  @@ "e3" :> Plain("setenv", <<"e4">>)
  @@ "e4" :> Plain("setenv", <<"e5">>)
  @@ "e5" :> Plain("or", <<"e6", "e8">>)
  @@ "e6" :> Plain("setenv", <<"e7">>)
  @@ "e7" :> Command("exec", <<"test">>, <<>>)
  @@ "e8" :> Plain("setenv", <<"e9">>)
  @@ "e9" :> Plain("asuser", <<"ea">>)
  @@ "ea" :> Plain("indir", <<"eb">>)
  @@ "eb" :> Plain("setenv", <<"ec">>)
  @@ "ec" :> Plain("template", <<>>)

ReportsTree ==
     "r0" :> Named("r1", <<>>)
  @@ "r1" :> Plain("or", <<"r2", "r7">>)
  @@ "r2" :> Plain("not", <<"r3">>)
  @@ "r3" :> Plain("and", <<"r4", "r5", "r6">>)
  @@ "r4" :> Command("exec", <<"change">>, <<"a">>)
  @@ "r5" :> Command("pipe", <<"test", "change", "change">>, <<"b">>)
  @@ "r6" :> Plain("warn", <<>>)
  @@ "r7" :> Plain("and", <<"rd", "rb", "r8">>)
  @@ "r8" :> Plain("true", <<"r9">>)
  @@ "r9" :> Plain("eval", <<"rg">>)
  @@ "rg" :> Named("rh", <<>>)
  @@ "rh" :> Plain("and", <<"rf", "ra">>)
  @@ "ra" :> Command("pipe", <<>>, <<>>)
  @@ "rb" :> Plain("not", <<"re">>)
  @@ "re" :> Plain("false", <<"rc">>)
  @@ "rc" :> Plain("error", <<>>)
  @@ "rd" :> Plain("restart", <<>>)
  @@ "rf" :> Plain("template", <<>>)

OverwriteTree ==
     "o0" :> Named("o1", <<>>)
  @@ "o1" :> Plain("and", <<"o2", "o3">>)
  @@ "o2" :> Set("x", Const(<<"a">>))
  @@ "o3" :> Named("o4", <<>>)
  @@ "o4" :> Set("x", Const(<<"b">>))

Table == ScopesTree @@ EnvTree @@ ReportsTree @@ OverwriteTree

MCNode     == DOMAIN Table
MCRoots    == MCNode \intersect {"s0", "e0", "r0", "o0"}
MCKind     == [n \in MCNode |-> Table[n].kind]
MCChildren == [n \in MCNode |-> Table[n].kids]
MCParams   == [n \in MCNode |-> Table[n].params]
MCVarName  == [n \in MCNode |-> Table[n].var]
MCStages   == [n \in MCNode |-> Table[n].stages]
MCPrinted  == [n \in MCNode |-> Table[n].printed]

ParentOf(n) ==
  IF n \in MCRoots THEN Top
  ELSE CHOOSE p \in MCNode : \E k \in DOMAIN MCChildren[p] : MCChildren[p][k] = n
MCParent == [n \in MCNode |-> ParentOf(n)]

MCDepth == LET d[n \in MCNode \union {Top}] ==
                 IF n = Top THEN 0 ELSE d[MCParent[n]] + 1
           IN [n \in MCNode \union {Top} |-> d[n]]

MCVar      == {"x", "y", "lib_dir"}
MCInitVars == [x \in MCVar |-> IF x = "lib_dir" THEN <<"l">> ELSE Unset]
MCOsEnv    == [x \in MCVar |-> <<>>]
MCAtom     == {"a", "b", "l", " ", "missing"}
MCBlank    == {" "}
MCMissing  == <<"missing">>
=============================================================================
