------------------------------ MODULE Parser ------------------------------
(***************************************************************************)
(* parser.Parse: the files are parsed one after the other, each by a       *)
(* lexer of its own, into a map of unresolved promises, and these are then *)
(* resolved.  The recursive functions keep their frames on a stack.        *)
(*                                                                         *)
(* Where a promise stands in its file is left out, and of a promise that   *)
(* is resolved only that it is.                                            *)
(***************************************************************************)
EXTENDS Lexer, FiniteSets, SequencesExt

CONSTANTS
  Inputs,     \* sequences of texts to parse
  Join, Arg,  \* the words for these types of getter
  Named,      \* the words for the getters of a name, env and var
  Digits,     \* the letters that are digits
  Builtins,   \* name -> the kind of promise New makes, and what it accepts:
              \* numbers of children and of arguments, kinds of children
  MaxDepth    \* bound: frames that fit the stack of the program

\* What the New functions tell apart.
Kind == {"exec", "pipe", "named", "other"}

ASSUME ParserAssumption ==
  /\ \A files \in Inputs :
       /\ files \in Seq(Seq(Runes)) /\ files # <<>>
       /\ \A i \in DOMAIN files : IsText(files[i])
  /\ Digits \subseteq Letters
  /\ \A n \in DOMAIN Builtins :
       /\ Builtins[n].children \subseteq Nat /\ Builtins[n].args \subseteq Nat
       /\ Builtins[n].kind \in Kind \ {"named"} /\ Builtins[n].takes \subseteq Kind
  /\ MaxDepth \in Nat

VARIABLES
  inputs,      \* the texts
  file,        \* the one that is being parsed
  frames,      \* the functions called, with their local variables
  unresolved,  \* name -> promise
  resolved,    \* the names whose promise is resolved
  outcome      \* what Parse does or has done

vars == <<lexer, inputs, file, frames, unresolved, resolved, outcome>>

Init ==
  /\ \E files \in Inputs : inputs = files /\ Lexing(files[1])
  /\ file = 1
  /\ frames = <<>>
  /\ unresolved = <<>>
  /\ resolved = {}
  /\ outcome = "parsing"

\* A promise as it is parsed, and the arguments.
UnresolvedPromise == [name |-> <<>>, children |-> <<>>, args |-> <<>>]
Constant(text)    == [get |-> "constant", type |-> <<>>, value |-> text]
JoinArgument(as)  == [get |-> "join", type |-> Join, value |-> as]
Getter(typ, text) == [get |-> "getter", type |-> typ, value |-> text]
Nil               == [get |-> "nil", type |-> <<>>, value |-> <<>>]

-----------------------------------------------------------------------------
(***************************************************************************)
(* The stack of functions.                                                 *)
(***************************************************************************)
Function == IF frames = <<>> THEN "none" ELSE Last(frames).fn
Local    == Last(frames).local
Frame(function, local) == [fn |-> function, local |-> local]

Calls(function, local) == frames' = Append(frames, Frame(function, local))
Sets(local) == frames' = Append(Front(frames), Frame(Function, local))

\* parseGetter returns what parseJoiner returns.
JoinFrame_Nested(local) == Append(frames, Frame("parseJoiner", local))
JoinFrame(local) == Append(Front(frames), Frame("parseJoiner", local))

\* Returns to the caller, which keeps the value and so has these locals.
Caller == frames[Len(frames) - 1]
KeepArg(arg) ==
  IF Caller.fn = "parseJoiner" THEN Append(Caller.local, arg)
  ELSE [Caller.local EXCEPT !.args = Append(@, arg)]
KeepChild(p) == [Caller.local EXCEPT !.children = Append(@, p)]
Returns(local) ==
  frames' = Append(Front(Front(frames)), Frame(Caller.fn, local))

-----------------------------------------------------------------------------
(***************************************************************************)
(* Parsing: the function that is called last receives a token.             *)
(***************************************************************************)
Gets(function, types) ==
  /\ outcome = "parsing"
  /\ Function = function
  /\ tokens # <<>> /\ Head(tokens).typ \in types
Takes ==
  /\ tokens' = Tail(tokens)
  /\ UNCHANGED <<input, state, start, pos, parenDepth, getterDepth>>
Val == SubSeq(input, Head(tokens).from + 1, Head(tokens).to)

GoesOn == Takes /\ UNCHANGED <<inputs, file, unresolved, resolved, outcome>>
Skips  == GoesOn /\ UNCHANGED frames
\* Every function below returns the error.
Fails ==
  /\ Takes
  /\ outcome' = "error"
  /\ UNCHANGED <<inputs, file, frames, unresolved, resolved>>

\* The next lexer is made when the last one has sent EOF.
EndOfFile ==
  /\ Gets("none", {"EOF"})
  /\ \/ /\ file = Len(inputs)
        /\ outcome' = "resolving"
        /\ Takes
        /\ UNCHANGED file
     \/ /\ file < Len(inputs)
        /\ file' = file + 1
        /\ input' = inputs[file + 1]
        /\ state' = "lexComment"
        /\ start' = 0 /\ pos' = 0
        /\ parenDepth' = 0 /\ getterDepth' = 0
        /\ tokens' = <<>>
        /\ UNCHANGED outcome
  /\ UNCHANGED <<inputs, frames, unresolved, resolved>>

generatePromises ==
  \/ /\ Gets("none", {"LeftPromise"})
     /\ Calls("parse", UnresolvedPromise)
     /\ GoesOn
  \/ /\ Gets("none", TokenType \ {"LeftPromise", "EOF"})
     /\ IF Head(tokens).typ = "Error" THEN Fails ELSE Skips
  \/ EndOfFile

\* The end of a promise inside of another.
parse_Nested ==
  /\ Gets("parse", {"RightPromise", "EOF"}) /\ Len(frames) > 1
  /\ Returns(KeepChild(Local))
  /\ GoesOn

\* The end of a promise of the file.
parse_Top ==
  /\ Gets("parse", {"RightPromise", "EOF"}) /\ Len(frames) = 1
  /\ Takes
  /\ frames' = <<>>
  /\ \/ /\ Local.name \notin DOMAIN unresolved
        /\ unresolved' = [n \in DOMAIN unresolved \cup {Local.name} |->
                            IF n = Local.name THEN Local ELSE unresolved[n]]
        /\ UNCHANGED outcome
     \/ /\ Local.name \in DOMAIN unresolved
        /\ outcome' = "error"
        /\ UNCHANGED unresolved
  /\ UNCHANGED <<inputs, file, resolved>>

parse ==
  \/ parse_Nested
  \/ parse_Top
  \/ Gets("parse", {"Error"}) /\ Fails
  \/ /\ Gets("parse", {"LeftPromise"})
     /\ Calls("parse", UnresolvedPromise)
     /\ GoesOn
  \/ /\ Gets("parse", {"PromiseName"})
     /\ Sets([Local EXCEPT !.name = Val])
     /\ GoesOn
  \/ /\ Gets("parse", {"LeftArg"})
     /\ Calls("parseArg", Constant(<<>>))
     /\ GoesOn
  \/ /\ Gets("parse", {"LeftGetter"})
     /\ Calls("parseGetter", [typ |-> <<>>, getter |-> Nil])
     /\ GoesOn
  \/ /\ Gets("parse", TokenType \ {"RightPromise", "EOF", "Error",
                  "LeftPromise", "PromiseName", "LeftArg", "LeftGetter"})
     /\ Skips

parseArg ==
  \/ /\ Gets("parseArg", {"Argument"})
     /\ Sets(Constant(Val))
     /\ GoesOn
  \/ /\ Gets("parseArg", {"RightArg"})
     /\ Returns(KeepArg(Local))
     /\ GoesOn
  \/ Gets("parseArg", TokenType \ {"Argument", "RightArg"}) /\ Fails

\* What strconv.Atoi accepts.
Atoi(text) ==
  LET digits == IF text # <<>> /\ Head(text) = "-" THEN Tail(text) ELSE text
  IN  digits # <<>> /\ Range(digits) \subseteq Digits

parseGetter ==
  \/ Gets("parseGetter", {"Error"}) /\ Fails
  \/ /\ Gets("parseGetter", {"GetterType"})
     /\ IF Val = Join
        THEN frames' = JoinFrame(<<>>)
        ELSE Sets([Local EXCEPT !.typ = Val])
     /\ GoesOn
  \/ /\ Gets("parseGetter", {"GetterValue"})
     /\ Local.typ \in Named \/ (Local.typ = Arg /\ Atoi(Val))
     /\ Sets([Local EXCEPT !.getter = Getter(Local.typ, Val)])
     /\ GoesOn
  \/ /\ Gets("parseGetter", {"GetterValue"})
     /\ Local.typ \notin Named /\ ~(Local.typ = Arg /\ Atoi(Val))
     /\ Fails
  \/ /\ Gets("parseGetter", {"RightGetter"})
     /\ Returns(KeepArg(Local.getter))
     /\ GoesOn
  \/ /\ Gets("parseGetter", TokenType \
                  {"Error", "GetterType", "GetterValue", "RightGetter"})
     /\ Skips

parseJoiner ==
  \/ /\ Gets("parseJoiner", {"LeftArg"})
     /\ Calls("parseArg", Constant(<<>>))
     /\ GoesOn
  \/ /\ Gets("parseJoiner", {"LeftGetter"})
     /\ Calls("parseGetter", [typ |-> <<>>, getter |-> Nil])
     /\ GoesOn
  \/ /\ Gets("parseJoiner", {"RightGetter"})
     /\ Returns(KeepArg(JoinArgument(Local)))
     /\ GoesOn
  \/ /\ Gets("parseJoiner",
             TokenType \ {"LeftArg", "LeftGetter", "RightGetter"})
     /\ Fails

-----------------------------------------------------------------------------
(***************************************************************************)
(* Resolving: a frame holds a promise and how many of its children, or the *)
(* promise it names, have been resolved.                                   *)
(***************************************************************************)
Resolves(function) ==
  /\ outcome = "resolving" /\ Function = function
  /\ UNCHANGED <<lexer, inputs, file, unresolved>>
Waits == [Local EXCEPT !.done = @ + 1]

\* A call of resolve or resolvePrimary, if there is room on the stack.
Resolve(function, p) ==
  /\ \/ /\ Len(frames) < MaxDepth
        /\ frames' = (IF frames = <<>> THEN <<>>
                      ELSE Append(Front(frames), Frame(Function, Waits)))
                     \o <<Frame(function, [promise |-> p, done |-> 0])>>
        /\ UNCHANGED outcome
     \/ /\ Len(frames) >= MaxDepth
        /\ outcome' = "overflow"
        /\ UNCHANGED frames
  /\ UNCHANGED resolved
Resolved ==
  /\ frames' = Front(frames)
  /\ UNCHANGED <<resolved, outcome>>
Unresolvable ==
  /\ outcome' = "unresolvable"
  /\ UNCHANGED <<frames, resolved>>

\* The map is gone through in any order.
ResolveNext ==
  /\ Resolves("none")
  /\ \E n \in DOMAIN unresolved \ resolved :
       Resolve("resolvePrimary", unresolved[n])

Parsed ==
  /\ Resolves("none")
  /\ resolved = DOMAIN unresolved
  /\ outcome' = "ok"
  /\ UNCHANGED <<frames, resolved>>

\* The children of a promise that is named elsewhere are not looked at.
IsNamed_ByUser(n) == n \in DOMAIN unresolved \ DOMAIN Builtins
IsNamed(n) == n \in DOMAIN unresolved

resolvePrimary ==
  /\ Resolves("resolvePrimary")
  /\ LET p == Local.promise
     IN  \/ Len(p.children) # 1 /\ Unresolvable
         \/ /\ Len(p.children) = 1 /\ Local.done = 0
            /\ Resolve("resolve", p.children[1])
         \/ /\ Len(p.children) = 1 /\ Local.done = 1
            /\ frames' = Front(frames)
            /\ resolved' = IF Len(frames) = 1 THEN resolved \cup {p.name}
                                              ELSE resolved
            /\ UNCHANGED outcome

\* What a child has been resolved to.
IsA(child, kinds) ==
  IF IsNamed(child.name) THEN "named" \in kinds
  ELSE child.name \in DOMAIN Builtins /\ Builtins[child.name].kind \in kinds

New(p) ==
  /\ p.name \in DOMAIN Builtins
  /\ Len(p.children) \in Builtins[p.name].children
  /\ Len(p.args) \in Builtins[p.name].args
  /\ \A i \in DOMAIN p.children : IsA(p.children[i], Builtins[p.name].takes)

resolve ==
  /\ Resolves("resolve")
  /\ LET p == Local.promise
         n == IF IsNamed(p.name) THEN 1 ELSE Len(p.children)
     IN  \/ /\ Local.done < n
            /\ IF IsNamed(p.name)
               THEN Resolve("resolvePrimary", unresolved[p.name])
               ELSE Resolve("resolve", p.children[Local.done + 1])
         \/ Local.done = n /\ (IsNamed(p.name) \/ New(p)) /\ Resolved
         \/ Local.done = n /\ ~IsNamed(p.name) /\ ~New(p) /\ Unresolvable

-----------------------------------------------------------------------------
Lexes ==
  /\ run
  /\ UNCHANGED <<inputs, file, frames, unresolved, resolved, outcome>>
Parse ==
  \/ generatePromises \/ parse \/ parseArg \/ parseGetter \/ parseJoiner
  \/ ResolveNext \/ resolvePrimary \/ resolve \/ Parsed

Next == Lexes \/ Parse
Spec == Init /\ [][Next]_vars

\* The goroutine of the lexer and the one that parses go on when they can.
FairSpec == Spec /\ WF_vars(Lexes) /\ WF_vars(Parse)

-----------------------------------------------------------------------------
(***************************************************************************)
(* Properties.                                                             *)
(***************************************************************************)
TypeOK ==
  /\ LexerTypeOK
  /\ file \in DOMAIN inputs
  /\ Function \in {"none", "parse", "parseArg", "parseGetter", "parseJoiner",
                   "resolve", "resolvePrimary"}
  /\ resolved \subseteq DOMAIN unresolved
  /\ outcome \in {"parsing", "resolving", "ok", "error",
                  "unresolvable", "overflow"}

\* Whatever the text: when the parser has received all tokens, it is in as
\* many promises as the lexer, so the end of one is the end of the same.
NestingAgrees ==
  outcome = "parsing" /\ tokens = <<>> =>
    parenDepth = Cardinality({i \in DOMAIN frames : frames[i].fn = "parse"})

\* Parse comes back, or the program has died.
ParseEnds == <>(outcome \notin {"parsing", "resolving"} \/ state = "panic")
=============================================================================
