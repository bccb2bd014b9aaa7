------------------------------ MODULE MCParser ------------------------------
(***************************************************************************)
(* Texts to parse: those that stand for given promises, in several layouts *)
(* and divided into files, and any short text behind some beginnings.  The *)
(* words are j for join, g for arg, v for var, t for test, n for and, p    *)
(* for pipe and r for readvar.                                             *)
(***************************************************************************)
EXTENDS ParserClaims

MCLetters  == {"a", "b", "j", "g", "v", "t", "n", "p", "r", "0"}
MCJoin     == <<"j">>
MCArg      == <<"g">>
MCNamed    == {<<"v">>}
MCDigits   == {"0"}
Builtin(kind, children, args, takes) ==
  [kind |-> kind, children |-> children, args |-> args, takes |-> takes]
MCBuiltins == (<<"t">> :> Builtin("exec", {0}, 1 .. 9, {})) @@
              (<<"n">> :> Builtin("other", 2 .. 9, {0}, Kind)) @@
              (<<"p">> :> Builtin("pipe", 0 .. 9, {0}, {"exec"})) @@
              (<<"r">> :> Builtin("other", {1}, {1}, {"exec", "pipe", "named"}))

-----------------------------------------------------------------------------
(***************************************************************************)
(* Promises and how they are written.                                      *)
(***************************************************************************)
Promise(name, children, args) ==
  [name |-> <<name>>, children |-> children, args |-> args]

Simple == {Constant(<<>>), Constant(<<"(", " ", "]">>),
           Getter(MCArg, <<"0">>), Getter(<<"v">>, <<"a", " ", "b">>)}
Args   == Simple \cup {JoinArgument(<<x, y>>) : x, y \in Simple}

Tests   == {Promise("t", <<>>, <<x>>) : x \in Args}
Calls2  == {Promise(n, <<>>, <<>>) : n \in {"a", "b", "g"}}
T       == Promise("t", <<>>, <<Constant(<<"a">>), Constant(<<"b">>)>>)
Pipes   == {Promise("p", <<T, x>>, <<>>) : x \in Calls2 \cup {T}}
Bodies  == Tests \cup Calls2 \cup {T} \cup
             {Promise("n", <<x, y>>, <<>>) : x, y \in Calls2 \cup {T}}
             \cup {Promise("n", <<T>>, <<>>), Promise("t", <<T>>, <<>>)}
             \cup Pipes
             \cup {Promise("r", <<x>>, <<Constant(<<"a">>)>>) :
                     x \in {T, Promise("a", <<>>, <<>>), Promise("b", <<>>, <<>>),
                            Promise("n", <<T, T>>, <<>>)} \cup Pipes}
Callers == Calls2 \cup {T} \cup {Promise("n", <<x, T>>, <<>>) : x \in Calls2}
Top(n, body) == Promise(n, <<body>>, <<>>)

\* The gaps behind a name, which is not empty, before any other argument or
\* child, and before the colon of a getter.
Layouts == {[name |-> <<" ">>, item |-> <<>>, colon |-> <<>>],
            [name |-> <<" ", "newline">>, item |-> <<" ">> \o WideSpace,
             colon |-> <<>>]}
ColonApart == [name |-> <<" ">>, item |-> <<>>, colon |-> <<" ">>]
WideBehind == {[name |-> blank \o WideSpace, item |-> <<>>, colon |-> <<>>] :
                 blank \in {<<>>, <<" ">>}}

WrittenArg(x, gap) ==
  LET One(y) == CASE y.get = "constant" -> <<"quote">> \o y.value \o <<"quote">>
                  [] OTHER -> <<"[">> \o y.type \o gap.colon \o <<":">> \o y.value \o <<"]">>
  IN  IF x.get = "join"
      THEN <<"[">> \o MCJoin \o gap.name \o One(x.value[1]) \o gap.item
             \o One(x.value[2]) \o gap.item \o <<"]">>
      ELSE One(x)

RECURSIVE Written(_, _)
Written(p, gap) ==
  LET items == [i \in DOMAIN p.args |-> WrittenArg(p.args[i], gap)] \o
               [i \in DOMAIN p.children |-> Written(p.children[i], gap)]
      gaps(i) == IF i = 1 THEN gap.name ELSE gap.item
  IN  <<"(">> \o p.name \o
      FlattenSeq([i \in DOMAIN items |-> gaps(i) \o items[i]]) \o
      (IF items = <<>> THEN gap.name ELSE gap.item) \o <<")">>

Comment == <<"a", " ", "other", "quote", ")", "wide", "rest", "rest">>
Pairs   == {<<Top("a", x), Top("b", y)>> : x \in Bodies, y \in Callers}
             \cup {<<Top("a", Promise("n", <<>>, <<>>)), Top("n", T)>>}

InOneFile(x, y, gap) == <<Comment \o Written(x, gap) \o Written(y, gap)>>
InTwoFiles(x, y, gap) == <<Written(x, gap) \o Comment, Written(y, gap)>>

\* The texts that stand for promises, and the promises.
Meaning ==
  LET Of(Files(_, _, _)) ==
        {[files |-> Files(d[1], d[2], gap), promises |-> d] :
           d \in Pairs, gap \in Layouts}
      all == Of(InOneFile) \cup Of(InTwoFiles)
  IN  [f \in {m.files : m \in all} |->
         LET d == (CHOOSE m \in all : m.files = f).promises
         IN  (d[1].name :> d[1]) @@ (d[2].name :> d[2])]

\* Texts with a space before the colon of a getter, and with one outside of
\* ASCII behind a name.
HasGetter(x) ==
  \/ x.get = "getter"
  \/ x.get = "join" /\ \E i \in {1, 2} : x.value[i].get = "getter"
ColonTexts == {InOneFile(Top("a", x), Top("b", T), ColonApart) :
                 x \in {y \in Tests : HasGetter(y.args[1])}}
WideTexts == {InOneFile([Top("a", T) EXCEPT !.name = name], Top("b", T), gap) :
                name \in {<<"a">>, <<"a", "b", "a">>, <<"a", " ", "b">>},
                gap \in WideBehind}

-----------------------------------------------------------------------------
(***************************************************************************)
(* Any text of up to MaxLen runes in its middle.                           *)
(***************************************************************************)
CONSTANT MaxLen
Some == {"(", ")", "[", "]", ":", "quote", "a", "0", " ", "newline", "other"}
Middles == UNION {[1 .. n -> Some] : n \in 0 .. MaxLen}
Begins == {<<>>, <<"(", "a">>, <<"(", "a", "[", "v">>, <<"(", "a", "[", "j">>,
           <<"(", "a", "[", "g", ":">>,
           <<"(", "a", "[", "j", "quote", "a", "quote">>}
Ends   == {<<>>, <<"]", ")">>}
Nested == <<"(", "a", "[", "v", "[", "v", ":", "a", "]", "]", ")">>
Wide   == {<<"(", "a", "a", "a">> \o WideSpace \o <<")">>,
           <<"(", "a">> \o WideSpace \o <<")">>,
           <<"(">> \o WideSpace \o <<"a", ")">>}

MCInputs == DOMAIN Meaning \cup ColonTexts \cup WideTexts
            \cup {<<b \o m \o e>> : b \in Begins, m \in Middles, e \in Ends}
            \cup {<<w>> : w \in Wide \cup {Nested}}
            \cup {<<Written(Top("a", T), gap), Written(Top("a", T), gap)>> :
                    gap \in Layouts}

\* parser_test.go and lexer_test.go: a text that stands for promises is
\* parsed into these promises, however it is divided into files and with any
\* spaces between the parts of a promise but two kinds.  With those, before
\* the colon of a getter or outside of ASCII behind a name, it is not taken
\* for anything else: it is refused, or the program dies.
Done == outcome # "parsing" \/ state = "panic"
ParsesBack ==
  Done =>
    /\ inputs \in DOMAIN Meaning =>
         outcome \notin {"parsing", "error"} /\ unresolved = Meaning[inputs]
    /\ inputs \in ColonTexts => outcome = "error"
    /\ inputs \in WideTexts =>
         unresolved = <<>> /\ (outcome = "error" \/ state = "panic")
=============================================================================
