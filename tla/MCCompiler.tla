----------------------------- MODULE MCCompiler -----------------------------
(***************************************************************************)
(* The layouts: a library and an input folder with a subfolder; a linked   *)
(* folder; links below both folders, to different folders and to the same; *)
(* a link back to the folder it is in; a dangling link; a link to a file,  *)
(* with the name of one; an input folder that is below a link itself; two  *)
(* links, one with the suffix, to a file without.                          *)
(***************************************************************************)
EXTENDS Compiler

Dirs  == {"lib", "in", "in/s", "d", "e"}
Links == {"lib/k", "in/l"}
MCPath == Dirs \union Links \union {"lib/a", "in/b", "in/s/g", "d/c", "e/f"}

\* The entries of lib and in; what else than itself a path stands for.
Tree(lib, in, real) ==
  [kind |-> [p \in MCPath |-> IF p \in Dirs THEN "dir"
                             ELSE IF p \in Links THEN "link" ELSE "file"],
   kids |-> [p \in MCPath |->
               CASE p = "lib"  -> lib
                 [] p = "in"   -> in
                 [] p = "in/s" -> <<"in/s/g">>
                 [] p = "d"    -> <<"d/c">>
                 [] p = "e"    -> <<"e/f">>
                 [] OTHER      -> <<>>],
   real |-> [p \in MCPath |-> IF p \in DOMAIN real THEN real[p]
                             ELSE IF p \in Links THEN "nowhere" ELSE p],
   cnf  |-> MCPath \ (Dirs \union {"lib/k"})]

LinkTo(l)    == [p \in {"in/l"} |-> l]
Both(k, l)   == [p \in Links |-> IF p = "lib/k" THEN k ELSE l]
BelowLink    == [p \in {"in", "in/b"} |-> IF p = "in" THEN "d" ELSE "d/c"]

MCLayouts ==
  {Tree(<<"lib/a">>, <<"in/b", "in/s">>, <<>>),
   Tree(<<"lib/a">>, <<"in/b", "in/l", "in/s">>, LinkTo("d")),
   Tree(<<"lib/k">>, <<"in/b", "in/l">>, Both("e", "d")),
   Tree(<<"lib/k">>, <<"in/l", "in/s">>, Both("d", "d")),
   Tree(<<"lib/a">>, <<"in/b", "in/l">>, LinkTo("in")),
   Tree(<<"lib/a">>, <<"in/b", "in/l", "in/s">>, LinkTo("nowhere")),
   Tree(<<"lib/a">>, <<"in/l">>, LinkTo("e/f")),
   Tree(<<"lib/a">>, <<"in/b">>, BelowLink),
   [Tree(<<"lib/k">>, <<"in/l">>, Both("d/c", "d/c")) EXCEPT !.cnf = @ \ {"d/c"}]}
=============================================================================
