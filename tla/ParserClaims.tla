---------------------------- MODULE ParserClaims ----------------------------
(***************************************************************************)
(* What resolving promises: which promises can be resolved.                *)
(***************************************************************************)
EXTENDS Parser

\* What has to be resolved first.
Needs(p) == Range(IF p.name \in DOMAIN unresolved
                  THEN unresolved[p.name].children ELSE p.children)

\* The promises that are inside of another, as deep as the stack reaches.
Inner ==
  LET level[d \in 0 .. MaxDepth] ==
        IF d = 0 THEN UNION {Range(unresolved[n].children) :
                               n \in DOMAIN unresolved}
        ELSE UNION {Needs(p) : p \in level[d - 1]}
  IN  UNION {level[d] : d \in 0 .. MaxDepth}

\* Each name stands for one promise, and what they are built from is there
\* and has the arguments and the kinds of children it needs.
Sound ==
  /\ \A n \in DOMAIN unresolved : Len(unresolved[n].children) = 1
  /\ \A p \in Inner : p.name \in DOMAIN unresolved \/ New(p)

\* Of any promises there is one that needs none of these.
Acyclic ==
  \A S \in (SUBSET Inner) \ {{}} : \E p \in S : Needs(p) \cap S = {}

\* The stack has room for more calls than there are promises; one that does
\* not, as a limit of the memory, may overflow without a cycle.
Fits == Cardinality(DOMAIN unresolved) + Cardinality(Inner) < MaxDepth

\* parser_test.go, TestUsePromise and TestUnknownPromise: the promises of
\* all files are resolved exactly if each has one child, is built from what
\* is there and accepts what it is given, and does not need itself.
ResolvedIfSound ==
  /\ outcome = "ok" => Sound /\ Acyclic
  /\ outcome = "unresolvable" => ~Sound
  /\ outcome = "overflow" => ~Acyclic \/ ~Fits
=============================================================================
