------------------------------- MODULE Lexer -------------------------------
(***************************************************************************)
(* The lexer of an input file: a goroutine that runs from state function   *)
(* to state function and sends tokens on an unbuffered channel.            *)
(*                                                                         *)
(* The text is a sequence of bytes by what the lexer makes of them.  The   *)
(* words of the language are written with one letter.  A space outside     *)
(* ASCII is three bytes long.  A token is kept by its place in the text,   *)
(* lines and the texts of errors are left out.                             *)
(***************************************************************************)
EXTENDS Integers, Sequences

CONSTANT Letters   \* letters and digits

VARIABLES
  input,        \* the text
  state,        \* the next state function, "nil", or "panic"
  start, pos,   \* offsets into the text
  parenDepth, getterDepth,
  tokens        \* what the current state function has still to send

lexer == <<input, state, start, pos, parenDepth, getterDepth, tokens>>

WideSpace == <<"wide", "rest", "rest">>
Space == {" ", "newline", "wide"}
isValidNameRune == Letters \cup {" ", "-"}
Runes == isValidNameRune \cup Space \cup
           {"(", ")", "[", "]", ":", "quote", "other", "rest"}

\* A text is whole runes: it does not end inside of a space.
IsText(t) ==
  /\ t \in Seq(Runes)
  /\ \A i \in DOMAIN t : t[i] = "wide" =>
       i + 2 <= Len(t) /\ t[i + 1] = "rest" /\ t[i + 2] = "rest"

ASSUME LexerAssumption == "eof" \notin Letters  \* it stands for no byte

TokenType == {"Comment", "LeftPromise", "PromiseName", "RightPromise",
              "LeftArg", "Argument", "RightArg", "LeftGetter", "GetterType",
              "GetterSeparator", "GetterValue", "RightGetter", "EOF", "Error"}
Token == [typ : TokenType, from : Nat, to : Nat]

\* A token is a part of the text: emit slices within bounds.
LexerTypeOK ==
  /\ IsText(input)
  /\ state \in {"lexComment", "lexPromiseOpening", "lexPromiseName",
                "lexInsidePromise", "lexPromiseClosing", "lexArgument",
                "lexInsideGetter", "lexGetterOpening", "lexGetterType",
                "lexGetterValue", "lexGetterClosing", "nil", "panic"}
  /\ start \in 0 .. Len(input) /\ pos \in start .. Len(input)
  /\ parenDepth \in Nat /\ getterDepth \in Nat
  /\ tokens \in Seq(Token)
  /\ \A i \in DOMAIN tokens :
       tokens[i].from <= tokens[i].to /\ tokens[i].to <= Len(input)

\* Lex: a new lexer.
Lexing(text) ==
  /\ input = text
  /\ state = "lexComment"
  /\ start = 0 /\ pos = 0
  /\ parenDepth = 0 /\ getterDepth = 0
  /\ tokens = <<>>

-----------------------------------------------------------------------------
(***************************************************************************)
(* Reading the text.                                                       *)
(***************************************************************************)
Rune(p)  == IF p >= Len(input) THEN "eof" ELSE input[p + 1]
Width(p) == IF Rune(p) = "wide" THEN Len(WideSpace) ELSE 1

\* The first rune from p on that is not one of these.
Skip(p, runes) ==
  LET at[i \in p .. Len(input)] ==
        IF Rune(i) \in runes THEN at[i + Width(i)] ELSE i
  IN  at[p]

removeLeadingWhitespace == Skip(pos, Space)

\* Backs up, for the first time by the width of the rune last read, until
\* there is no space, and leaves that rune behind.  What is before the text
\* is no position.
Back(p, first) ==
  LET at[i \in -3 .. p] ==
        IF i < 0 THEN i
        ELSE IF Rune(i) \in Space THEN at[i - Width(i)] ELSE i + Width(i)
  IN  at[p - first]

\* A name is backed up from the rune that ends it.
removeTrailingWhitespace_Kept(p) == p
removeTrailingWhitespace(p) == Back(p, Width(p))

Tok(typ, from, to) == [typ |-> typ, from |-> from, to |-> to]

\* The state function returns after it has sent these; s is where it starts
\* to read and p where it stops.
Sends(toks, s, p, next) ==
  /\ tokens' = toks
  /\ start' = s
  /\ pos' = p
  /\ state' = next
  /\ UNCHANGED input

errorf(s, p) == Sends(<<Tok("Error", s, p)>>, s, p, "nil")

\* The bounds of the slice in emit.
Sliceable(s, p) == 0 <= s /\ s <= p

Runs(function) == state = function /\ tokens = <<>>

-----------------------------------------------------------------------------
(***************************************************************************)
(* The state functions.  Where one returns another, pos may be behind      *)
(* start: spaces are read and the next function moves start.               *)
(***************************************************************************)
lexComment ==
  /\ Runs("lexComment")
  /\ \/ /\ Rune(pos) = "eof"
        /\ Sends(<<Tok("EOF", start, pos)>>, pos, pos, "nil")
     \/ /\ Rune(pos) = "("
        /\ Sends(<<>>, start, pos, "lexPromiseOpening")
     \/ /\ Rune(pos) \notin {"eof", "("}
        /\ LET p == pos + Width(pos)
           IN  Sends(<<Tok("Comment", start, p)>>, p, p, "lexComment")
  /\ UNCHANGED <<parenDepth, getterDepth>>

lexPromiseOpening ==
  /\ Runs("lexPromiseOpening")
  /\ Sends(<<Tok("LeftPromise", pos, pos + 1)>>, pos + 1, pos + 1,
           "lexPromiseName")
  /\ parenDepth' = parenDepth + 1
  /\ UNCHANGED getterDepth

lexPromiseName ==
  /\ Runs("lexPromiseName")
  /\ LET s == removeLeadingWhitespace
         e == Skip(s, isValidNameRune)
         p == removeTrailingWhitespace(e)
     IN  \/ /\ Rune(e) = "eof"
            /\ errorf(s, e)
         \/ /\ Rune(e) # "eof" /\ Sliceable(s, p)
            /\ Sends(<<Tok("PromiseName", s, p)>>, p, p, "lexInsidePromise")
         \/ /\ Rune(e) # "eof" /\ ~Sliceable(s, p)
            /\ state' = "panic"
            /\ UNCHANGED <<input, start, pos, tokens>>
  /\ UNCHANGED <<parenDepth, getterDepth>>

lexInsidePromise ==
  /\ Runs("lexInsidePromise")
  /\ LET p == Skip(pos, Space)
         r == Rune(p)
     IN  \/ r = "(" /\ Sends(<<>>, start, p, "lexPromiseOpening")
         \/ r = ")" /\ Sends(<<>>, start, p, "lexPromiseClosing")
         \/ r = "[" /\ Sends(<<>>, start, p, "lexInsideGetter")
         \/ r = "quote" /\ Sends(<<>>, start, p, "lexArgument")
         \/ r = "eof" /\ errorf(start, p)
         \/ /\ r \notin {"(", ")", "[", "quote", "eof"}
            /\ errorf(start, p + Width(p))
  /\ UNCHANGED <<parenDepth, getterDepth>>

\* Whether closing a promise, or a getter, leaves no other open.
Ended_LateDecrement(depth) == depth = 0
Ended(depth) == depth = 1

lexPromiseClosing ==
  /\ Runs("lexPromiseClosing")
  /\ Sends(<<Tok("RightPromise", pos, pos + 1)>>, pos + 1, pos + 1,
           IF Ended(parenDepth) THEN "lexComment" ELSE "lexInsidePromise")
  /\ parenDepth' = parenDepth - 1
  /\ UNCHANGED getterDepth

lexArgument ==
  /\ Runs("lexArgument")
  /\ LET s == removeLeadingWhitespace + 1
         e == Skip(s, Runes \ {"quote"})
         left == Tok("LeftArg", s - 1, s)
     IN  \/ /\ Rune(e) = "eof"
            /\ Sends(<<left, Tok("Error", s, e)>>, s, e, "nil")
         \/ /\ Rune(e) = "quote"
            /\ Sends(<<left, Tok("Argument", s, e),
                       Tok("RightArg", e, e + 1)>>, e + 1, e + 1,
                     IF getterDepth = 0 THEN "lexInsidePromise"
                                        ELSE "lexInsideGetter")
  /\ UNCHANGED <<parenDepth, getterDepth>>

lexInsideGetter ==
  /\ Runs("lexInsideGetter")
  /\ LET p == removeLeadingWhitespace
         r == Rune(p)
     IN  \/ r = "[" /\ Sends(<<>>, p, p, "lexGetterOpening")
         \/ r = "]" /\ Sends(<<>>, p, p, "lexGetterClosing")
         \/ r = "quote" /\ Sends(<<>>, p, p, "lexArgument")
         \/ r = "eof" /\ errorf(p, p)
         \/ r \notin {"[", "]", "quote", "eof"} /\ errorf(p, p + Width(p))
  /\ UNCHANGED <<parenDepth, getterDepth>>

lexGetterOpening ==
  /\ Runs("lexGetterOpening")
  /\ Sends(<<Tok("LeftGetter", pos, pos + 1)>>, pos + 1, pos + 1,
           "lexGetterType")
  /\ getterDepth' = getterDepth + 1
  /\ UNCHANGED parenDepth

\* At the end of the text the error state is not returned: the function
\* goes on to read, and sends the error again and again.
UnclosedGetter_Silent(function) == Sends(<<>>, start, Len(input), "nil")
UnclosedGetter(function) ==
  Sends(<<Tok("Error", start, Len(input))>>, start, Len(input), function)

\* The rune after the type is read as the separator, whatever it is, and if
\* it is a space it is removed again.
lexGetterType ==
  /\ Runs("lexGetterType")
  /\ LET e == Skip(pos, Runes \ {":", "quote", "["})
         p == removeTrailingWhitespace(e)
         typ == Tok("GetterType", start, p)
         sep == Back(p + Width(p), Width(p))
     IN  \/ Rune(e) = "eof" /\ UnclosedGetter("lexGetterType")
         \/ /\ Rune(e) = ":"
            /\ Sends(<<typ, Tok("GetterSeparator", p, sep)>>, sep, sep,
                     "lexGetterValue")
         \/ Rune(e) = "quote" /\ Sends(<<typ>>, p, p, "lexArgument")
         \/ Rune(e) = "[" /\ Sends(<<typ>>, p, p, "lexInsideGetter")
  /\ UNCHANGED <<parenDepth, getterDepth>>

lexGetterValue ==
  /\ Runs("lexGetterValue")
  /\ LET e == Skip(pos, isValidNameRune)
         p == removeTrailingWhitespace(e)
     IN  \/ Rune(e) = "eof" /\ UnclosedGetter("lexGetterValue")
         \/ /\ Rune(e) = "]"
            /\ Sends(<<Tok("GetterValue", start, p)>>, p, p,
                     "lexGetterClosing")
         \/ Rune(e) = "quote" /\ Sends(<<>>, start, e, "lexArgument")
         \/ /\ Rune(e) \notin {"eof", "]", "quote"}
            /\ errorf(start, e + Width(e))
  /\ UNCHANGED <<parenDepth, getterDepth>>

lexGetterClosing ==
  /\ Runs("lexGetterClosing")
  /\ LET p == removeLeadingWhitespace
     IN  Sends(<<Tok("RightGetter", p, p + 1)>>, p + 1, p + 1,
               IF Ended(getterDepth) THEN "lexInsidePromise"
                                  ELSE "lexInsideGetter")
  /\ getterDepth' = getterDepth - 1
  /\ UNCHANGED parenDepth

run ==
  \/ lexComment
  \/ lexPromiseOpening \/ lexPromiseName \/ lexInsidePromise
  \/ lexPromiseClosing \/ lexArgument
  \/ lexInsideGetter \/ lexGetterOpening \/ lexGetterType
  \/ lexGetterValue \/ lexGetterClosing
=============================================================================
