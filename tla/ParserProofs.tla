---- MODULE ParserProofs ----
(***************************************************************************)
(* Proofs about Lexer and Parser, for every text, set of builtins and      *)
(* number of files: the state is well typed; the parser is inside of as    *)
(* many promises as the lexer has open; and what is resolved is what can   *)
(* be.                                                                     *)
(***************************************************************************)
EXTENDS ParserClaims, SequenceTheorems, FiniteSetTheorems, TLAPS

(***************************************************************************)
(* Recursion that descends.  The loops that skip and back up over spaces   *)
(* are recursive functions: f looks further, at next[i], until it may      *)
(* stop, and rank falls each time.                                         *)
(***************************************************************************)
Descends(f, D, stop, val, next) ==
  f = [i \in D |-> IF i \in stop THEN val[i] ELSE f[next[i]]]

\* A set of numbers that is not empty has a least one.
LEMMA LeastNumber ==
  ASSUME NEW T \in SUBSET Nat, T # {}
  PROVE  \E m \in T : \A k \in T : m <= k
<1> DEFINE R == {ss \in Nat \X Nat : ss[1] < ss[2]}
<1>1. IsWellFoundedOn(R, Nat)
  BY NatLessThanWellFounded DEF OpToRel
<1> HIDE DEF R
<1>2. PICK m \in T : \A k \in T : ~ (<<k, m>> \in R)
  BY <1>1, WFMin
<1>3. \A k \in T : k \in Nat /\ m \in Nat /\ ~ (k < m)
  BY <1>2 DEF R
<1> QED BY <1>3

\* Such a function exists: if not, there would be a least rank up to which
\* there is none.
LEMMA DescendingExists ==
  ASSUME NEW D, NEW stop, NEW val, NEW next, NEW rank \in [D -> Nat],
         NEW N \in Nat, \A i \in D : rank[i] < N,
         \A i \in D \ stop : next[i] \in D /\ rank[next[i]] < rank[i]
  PROVE  \E f : Descends(f, D, stop, val, next)
<1> DEFINE Below(n) == {i \in D : rank[i] < n}
           Good(n) == \E f : Descends(f, Below(n), stop, val, next)
           Bad == {n \in Nat : ~ Good(n)}
<1>1. Bad = {}
  <2> SUFFICES ASSUME Bad # {} PROVE FALSE
    OBVIOUS
  <2>1. PICK n \in Bad : \A k \in Bad : n <= k
    <3> Bad \in SUBSET Nat
      OBVIOUS
    <3> HIDE DEF Bad
    <3> QED BY LeastNumber
  <2>2. n # 0
    <3>1. Below(0) = {}
      OBVIOUS
    <3> DEFINE f0 == [i \in {} |-> 0]
    <3>2. Descends(f0, {}, stop, val, next)
      BY DEF Descends
    <3>3. Good(0)
      BY <3>1, <3>2
    <3> QED BY <2>1, <3>3
  <2> DEFINE k == n - 1
  <2>3. k \in Nat /\ n = k + 1 /\ k < n
    BY <2>2
  <2>4. Good(k)
    <3> HIDE DEF Good
    <3> QED BY <2>1, <2>3
  <2>5. PICK f : Descends(f, Below(k), stop, val, next)
    BY <2>4
  <2> DEFINE g == [i \in Below(n) |-> IF i \in stop THEN val[i] ELSE f[next[i]]]
  <2>6. \A i \in Below(k) : g[i] = f[i]
    <3> TAKE i \in Below(k)
    <3>1. i \in Below(n)
      BY <2>3
    <3>2. f[i] = IF i \in stop THEN val[i] ELSE f[next[i]]
      BY <2>5 DEF Descends
    <3> QED BY <3>1, <3>2
  <2>7. \A i \in Below(n) : i \notin stop => next[i] \in Below(k)
    BY <2>3
  <2>8. \A i \in Below(n) : i \notin stop => g[next[i]] = f[next[i]]
    BY <2>6, <2>7
  <2>9. g = [i \in Below(n) |-> IF i \in stop THEN val[i] ELSE g[next[i]]]
    <3> HIDE DEF Below
    <3>1. \A i \in Below(n) : (IF i \in stop THEN val[i] ELSE f[next[i]])
                            = (IF i \in stop THEN val[i] ELSE g[next[i]])
      <4> HIDE DEF g
      <4> QED BY <2>8
    <3> DEFINE h == [i \in Below(n) |-> IF i \in stop THEN val[i] ELSE g[next[i]]]
    <3>2. \A i \in Below(n) : g[i] = (IF i \in stop THEN val[i] ELSE f[next[i]])
      OBVIOUS
    <3>3. \A i \in Below(n) : h[i] = (IF i \in stop THEN val[i] ELSE g[next[i]])
      <4> HIDE DEF g
      <4> QED OBVIOUS
    <3>4. \A i \in Below(n) : g[i] = h[i]
      <4> HIDE DEF g, h
      <4> QED BY <3>1, <3>2, <3>3
    <3>5. g = [i \in Below(n) |-> g[i]] /\ h = [i \in Below(n) |-> h[i]]
      OBVIOUS
    <3>6. [i \in Below(n) |-> g[i]] = [i \in Below(n) |-> h[i]]
      <4> HIDE DEF g, h
      <4> QED BY <3>4
    <3> HIDE DEF g
    <3>7. g = h
      <4> HIDE DEF h
      <4> QED BY <3>5, <3>6
    <3> QED BY <3>7
  <2>10. Good(n)
    <3> HIDE DEF g
    <3> QED BY <2>9 DEF Descends
  <2> QED BY <2>1, <2>10
<1>2. Good(N)
  BY <1>1
<1>3. Below(N) = D
  OBVIOUS
<1> QED BY <1>2, <1>3

\* What holds where it stops, and is passed back, holds of every value.
LEMMA DescendingProperty ==
  ASSUME NEW D, NEW stop, NEW val, NEW next, NEW rank \in [D -> Nat],
         \A i \in D \ stop : next[i] \in D /\ rank[next[i]] < rank[i],
         NEW f, Descends(f, D, stop, val, next),
         NEW R,
         \A i \in D \cap stop : <<i, val[i]>> \in R,
         \A i \in D \ stop : \A v : <<next[i], v>> \in R => <<i, v>> \in R
  PROVE  \A i \in D : <<i, f[i]>> \in R
<1> DEFINE Bad == {i \in D : <<i, f[i]>> \notin R}
           Ranks == {rank[i] : i \in Bad}
<1> SUFFICES ASSUME Bad # {} PROVE FALSE
  OBVIOUS
<1>1. PICK m \in Ranks : \A k \in Ranks : m <= k
  <2>1. \A i \in Bad : rank[i] \in Nat
    OBVIOUS
  <2>2. Ranks # {}
    <3>1. PICK b \in Bad : TRUE
      OBVIOUS
    <3>2. rank[b] \in Ranks
      BY <3>1
    <3> QED BY <3>2
  <2>3. Ranks \in SUBSET Nat
    <3> HIDE DEF Bad
    <3> QED BY <2>1
  <2> HIDE DEF Ranks
  <2> QED BY <2>2, <2>3, LeastNumber
<1>2. PICK i \in Bad : rank[i] = m
  BY <1>1
<1>3. f[i] = IF i \in stop THEN val[i] ELSE f[next[i]]
  BY DEF Descends
<1>4. i \notin stop
  BY <1>3
<1>5. next[i] \in D /\ rank[next[i]] < rank[i] /\ f[i] = f[next[i]]
  BY <1>3, <1>4
<1>6. <<next[i], f[i]>> \notin R
  BY <1>4
<1>7. next[i] \in Bad
  BY <1>5, <1>6
<1>8. rank[next[i]] \in Ranks
  BY <1>7
<1>9. rank[next[i]] \in Nat /\ m \in Nat
  BY <1>2, <1>5
<1>10. m <= rank[next[i]] /\ rank[next[i]] < m
  <2> HIDE DEF Ranks
  <2> QED BY <1>1, <1>2, <1>5, <1>8
<1> QED BY <1>9, <1>10

(***************************************************************************)
(* Skipping runes.                                                         *)
(***************************************************************************)

\* The next rune is within the text, and a wide space is followed by rests.
LEMMA RuneFacts ==
  ASSUME IsText(input)
  PROVE  /\ Len(input) \in Nat
         /\ \A p \in Nat : p < Len(input) => Rune(p) \in Runes
         /\ \A p : Width(p) \in {1, 3} /\ (Rune(p) \notin Space => Width(p) = 1)
         /\ \A p \in Nat : p < Len(input) => p + Width(p) <= Len(input)
         /\ \A p \in Nat : Rune(p) = "wide" => Rune(p + 1) = "rest" /\ p < Len(input)
         /\ \A p \in Nat : p >= Len(input) <=> Rune(p) = "eof"
<1>1. Len(input) \in Nat /\ DOMAIN input = 1 .. Len(input)
  BY LenProperties DEF IsText
<1>2. \A p \in Nat : p < Len(input) => Rune(p) = input[p + 1] /\ input[p + 1] \in Runes
  BY <1>1, ElementOfSeq DEF Rune, IsText
<1>3. "eof" \notin Runes
  BY LexerAssumption DEF Runes, isValidNameRune, Space
<1>4. Len(WideSpace) = 3
  BY DEF WideSpace
<1>5. \A p : Width(p) \in {1, 3} /\ (Rune(p) \notin Space => Width(p) = 1)
              /\ (Width(p) = 3 => Rune(p) = "wide")
  <2> TAKE p
  <2>1. CASE Rune(p) = "wide"
    BY <1>4, <2>1 DEF Width, Space
  <2>2. CASE Rune(p) # "wide"
    BY <2>2 DEF Width
  <2> QED BY <2>1, <2>2
<1>6. \A p \in Nat : Rune(p) = "wide" => p < Len(input) /\ p + 3 <= Len(input) /\ Rune(p + 1) = "rest"
  <2> TAKE p \in Nat
  <2> HAVE Rune(p) = "wide"
  <2>1. p < Len(input)
    BY <1>1 DEF Rune
  <2>2. p + 1 \in DOMAIN input /\ input[p + 1] = "wide"
    BY <1>1, <1>2, <2>1
  <2>3. p + 1 + 2 <= Len(input) /\ input[p + 1 + 1] = "rest"
    BY <2>2 DEF IsText
  <2> QED BY <1>1, <2>1, <2>3 DEF Rune
<1>7. \A p \in Nat : p < Len(input) => p + Width(p) <= Len(input)
  BY <1>1, <1>5, <1>6
<1>8. \A p \in Nat : p >= Len(input) <=> Rune(p) = "eof"
  BY <1>1, <1>2, <1>3 DEF Rune
<1> QED BY <1>1, <1>2, <1>5, <1>6, <1>7, <1>8

\* The loop that skips is such a function.
LEMMA SkipIsDescent ==
  ASSUME IsText(input), NEW p \in 0 .. Len(input), NEW runes, "eof" \notin runes
  PROVE  LET D    == p .. Len(input)
             stop == {i \in D : Rune(i) \notin runes}
             next == [i \in D |-> i + Width(i)]
             rank == [i \in D |-> Len(input) - i]
         IN  /\ p \in D /\ rank \in [D -> Nat]
             /\ \A i \in D \ stop : next[i] \in D /\ rank[next[i]] < rank[i]
             /\ \E f : Descends(f, D, stop, [i \in D |-> i], next) /\ Skip(p, runes) = f[p]
<1> DEFINE D    == p .. Len(input)
           stop == {i \in D : Rune(i) \notin runes}
           next == [i \in D |-> i + Width(i)]
           rank == [i \in D |-> Len(input) - i]
           val  == [i \in D |-> i]
           at   == CHOOSE f : f = [i \in D |-> IF Rune(i) \in runes THEN f[i + Width(i)] ELSE i]
<1>0. Len(input) \in Nat
  BY RuneFacts
<1>1. p \in D /\ rank \in [D -> Nat] /\ \A i \in D : rank[i] < Len(input) + 1
  BY <1>0
<1>2. \A i \in D \ stop : next[i] \in D /\ rank[next[i]] < rank[i]
  <2> TAKE i \in D \ stop
  <2>1. i \in Nat /\ i < Len(input)
    BY <1>0, RuneFacts
  <2>2. Width(i) \in {1, 3} /\ i + Width(i) <= Len(input)
    BY <2>1, RuneFacts
  <2> QED BY <1>0, <2>1, <2>2
<1>3. \A f : Descends(f, D, stop, val, next) <=>
             f = [i \in D |-> IF Rune(i) \in runes THEN f[i + Width(i)] ELSE i]
  <2> TAKE f
  <2>1. [i \in D |-> IF i \in stop THEN val[i] ELSE f[next[i]]]
         = [i \in D |-> IF Rune(i) \in runes THEN f[i + Width(i)] ELSE i]
    OBVIOUS
  <2> QED BY <2>1 DEF Descends
<1>4. \E f : Descends(f, D, stop, val, next)
  <2>1. Len(input) + 1 \in Nat
    BY <1>0
  <2> HIDE DEF D, stop, val, next, rank
  <2> QED BY <2>1, <1>1, <1>2, DescendingExists
<1>5. Descends(at, D, stop, val, next)
  BY <1>3, <1>4
<1>6. Skip(p, runes) = at[p]
  BY DEF Skip
<1> QED
  <2> HIDE DEF at
  <2> QED BY <1>1, <1>2, <1>5, <1>6

\* It stops within the text, at another rune, and at once if there is one.
LEMMA SkipStops ==
  ASSUME IsText(input), NEW p \in 0 .. Len(input), NEW runes, "eof" \notin runes
  PROVE  /\ Skip(p, runes) \in p .. Len(input)
         /\ Rune(Skip(p, runes)) \notin runes
         /\ Rune(p) \notin runes => Skip(p, runes) = p
<1> DEFINE D    == p .. Len(input)
           stop == {i \in D : Rune(i) \notin runes}
           next == [i \in D |-> i + Width(i)]
           rank == [i \in D |-> Len(input) - i]
           val  == [i \in D |-> i]
           R    == {s \in D \X D : s[1] <= s[2] /\ Rune(s[2]) \notin runes}
<1>0. Len(input) \in Nat
  BY RuneFacts
<1>1. /\ p \in D /\ rank \in [D -> Nat]
      /\ \A i \in D \ stop : next[i] \in D /\ rank[next[i]] < rank[i]
      /\ \E f : Descends(f, D, stop, val, next) /\ Skip(p, runes) = f[p]
  BY SkipIsDescent
<1>2. PICK f : Descends(f, D, stop, val, next) /\ Skip(p, runes) = f[p]
  BY <1>1
<1>3. \A i \in D \cap stop : <<i, val[i]>> \in R
  BY <1>0
<1>4. \A i \in D \ stop : \A v : <<next[i], v>> \in R => <<i, v>> \in R
  <2> TAKE i \in D \ stop
  <2> TAKE v
  <2> HAVE <<next[i], v>> \in R
  <2>1. next[i] \in D /\ i < next[i]
    <3>1. next[i] \in D /\ rank[next[i]] < rank[i]
      BY <1>1
    <3> HIDE DEF next
    <3> QED BY <1>0, <3>1
  <2>2. v \in D /\ next[i] <= v /\ Rune(v) \notin runes
    OBVIOUS
  <2>3. i <= v
    <3> HIDE DEF next
    <3> QED BY <1>0, <2>1, <2>2
  <2> QED BY <2>2, <2>3
<1>5. \A i \in D : <<i, f[i]>> \in R
  <2>1. rank \in [D -> Nat]
    BY <1>1
  <2>2. \A i \in D \ stop : next[i] \in D /\ rank[next[i]] < rank[i]
    BY <1>1
  <2>3. Descends(f, D, stop, val, next)
    BY <1>2
  <2> HIDE DEF D, stop, next, rank, val, R
  <2> QED BY <2>1, <2>2, <2>3, <1>3, <1>4, DescendingProperty
<1>6. <<p, f[p]>> \in R
  BY <1>1, <1>5
<1>7. f[p] \in D /\ p <= f[p] /\ Rune(f[p]) \notin runes
  BY <1>6
<1>8. Rune(p) \notin runes => f[p] = p
  BY <1>1, <1>2 DEF Descends
<1> QED BY <1>0, <1>2, <1>7, <1>8

\* Over spaces of one byte to what follows them.
LEMMA SkipOver ==
  ASSUME IsText(input), NEW p \in 0 .. Len(input), NEW e \in p .. Len(input),
         \A i \in p .. e - 1 : Rune(i) \in Space \ {"wide"},
         Rune(e) \notin Space
  PROVE  Skip(p, Space) = e
<1> DEFINE D    == p .. Len(input)
           stop == {i \in D : Rune(i) \notin Space}
           next == [i \in D |-> i + Width(i)]
           rank == [i \in D |-> Len(input) - i]
           val  == [i \in D |-> i]
           R    == {s \in D \X D : s[1] <= e => s[2] = e}
<1>0. Len(input) \in Nat /\ "eof" \notin Space
  BY RuneFacts DEF Space
<1>1. /\ p \in D /\ rank \in [D -> Nat]
      /\ \A i \in D \ stop : next[i] \in D /\ rank[next[i]] < rank[i]
      /\ \E f : Descends(f, D, stop, val, next) /\ Skip(p, Space) = f[p]
  BY <1>0, SkipIsDescent
<1>2. PICK f : Descends(f, D, stop, val, next) /\ Skip(p, Space) = f[p]
  BY <1>1
<1>3. \A i \in D \cap stop : <<i, val[i]>> \in R
  <2> TAKE i \in D \cap stop
  <2>1. i <= e => i = e
    BY <1>0
  <2> QED BY <2>1
<1>4. \A i \in D \ stop : \A v : <<next[i], v>> \in R => <<i, v>> \in R
  <2> TAKE i \in D \ stop
  <2> TAKE v
  <2> HAVE <<next[i], v>> \in R
  <2>1. i # e
    OBVIOUS
  <2>2. i <= e => Width(i) = 1
    BY <1>0, <2>1 DEF Width
  <2>3. i <= e => next[i] <= e
    BY <1>0, <2>1, <2>2
  <2> QED BY <2>3
<1>5. \A i \in D : <<i, f[i]>> \in R
  <2>1. rank \in [D -> Nat]
    BY <1>1
  <2>2. \A i \in D \ stop : next[i] \in D /\ rank[next[i]] < rank[i]
    BY <1>1
  <2>3. Descends(f, D, stop, val, next)
    BY <1>2
  <2> HIDE DEF D, stop, next, rank, val, R
  <2> QED BY <2>1, <2>2, <2>3, <1>3, <1>4, DescendingProperty
<1>6. <<p, f[p]>> \in R
  BY <1>1, <1>5
<1>7. p <= e
  BY <1>0
<1> QED BY <1>2, <1>6, <1>7

(***************************************************************************)
(* Backing up over spaces.                                                 *)
(***************************************************************************)

LEMMA BackIsDescent ==
  ASSUME IsText(input), NEW p \in Nat, NEW first \in 1 .. 3
  PROVE  LET D    == -3 .. p
             stop == {i \in D : i < 0 \/ Rune(i) \notin Space}
             val  == [i \in D |-> IF i < 0 THEN i ELSE i + 1]
             next == [i \in D |-> i - Width(i)]
             rank == [i \in D |-> i + 3]
         IN  /\ p - first \in D /\ rank \in [D -> Nat]
             /\ \A i \in D \ stop : next[i] \in D /\ rank[next[i]] < rank[i]
             /\ \E f : Descends(f, D, stop, val, next) /\ Back(p, first) = f[p - first]
<1> DEFINE D    == -3 .. p
           stop == {i \in D : i < 0 \/ Rune(i) \notin Space}
           val  == [i \in D |-> IF i < 0 THEN i ELSE i + 1]
           next == [i \in D |-> i - Width(i)]
           rank == [i \in D |-> i + 3]
           at   == CHOOSE f : f = [i \in D |->
                     IF i < 0 THEN i
                     ELSE IF Rune(i) \in Space THEN f[i - Width(i)] ELSE i + Width(i)]
<1>1. p - first \in D /\ rank \in [D -> Nat] /\ \A i \in D : rank[i] < p + 4
  OBVIOUS
<1>2. \A i \in D \ stop : next[i] \in D /\ rank[next[i]] < rank[i]
  <2> TAKE i \in D \ stop
  <2>1. i \in Nat /\ i <= p
    OBVIOUS
  <2>2. Width(i) \in {1, 3}
    BY RuneFacts
  <2> QED BY <2>1, <2>2
<1>3. \A f : Descends(f, D, stop, val, next) <=>
             f = [i \in D |-> IF i < 0 THEN i
                     ELSE IF Rune(i) \in Space THEN f[i - Width(i)] ELSE i + Width(i)]
  <2> TAKE f
  <2>0. \A i \in D : Rune(i) \notin Space => Width(i) = 1
    BY RuneFacts
  <2>1. \A i \in D : (IF i \in stop THEN val[i] ELSE f[next[i]])
         = (IF i < 0 THEN i
            ELSE IF Rune(i) \in Space THEN f[i - Width(i)] ELSE i + Width(i))
    BY <2>0
  <2>2. [i \in D |-> IF i \in stop THEN val[i] ELSE f[next[i]]]
         = [i \in D |-> IF i < 0 THEN i
                        ELSE IF Rune(i) \in Space THEN f[i - Width(i)] ELSE i + Width(i)]
    <3> HIDE DEF stop, val, next, D
    <3> QED BY <2>1
  <2> QED BY <2>2 DEF Descends
<1>4. \E f : Descends(f, D, stop, val, next)
  <2>1. p + 4 \in Nat
    OBVIOUS
  <2> HIDE DEF D, stop, val, next, rank
  <2> QED BY <2>1, <1>1, <1>2, DescendingExists
<1>5. Descends(at, D, stop, val, next)
  BY <1>3, <1>4
<1>6. Back(p, first) = at[p - first]
  BY DEF Back
<1> QED
  <2> HIDE DEF at
  <2> QED BY <1>1, <1>2, <1>5, <1>6

\* What is left behind is at most the rune that was backed up first.
LEMMA BackStays ==
  ASSUME IsText(input), NEW p \in Nat, NEW first \in 1 .. 3
  PROVE  Back(p, first) \in Int /\ Back(p, first) <= p - first + 1
<1> DEFINE D    == -3 .. p
           stop == {i \in D : i < 0 \/ Rune(i) \notin Space}
           val  == [i \in D |-> IF i < 0 THEN i ELSE i + 1]
           next == [i \in D |-> i - Width(i)]
           rank == [i \in D |-> i + 3]
           R    == {s \in D \X Int : s[2] <= s[1] + 1}
<1>1. /\ p - first \in D /\ rank \in [D -> Nat]
      /\ \A i \in D \ stop : next[i] \in D /\ rank[next[i]] < rank[i]
      /\ \E f : Descends(f, D, stop, val, next) /\ Back(p, first) = f[p - first]
  BY BackIsDescent
<1>2. PICK f : Descends(f, D, stop, val, next) /\ Back(p, first) = f[p - first]
  BY <1>1
<1>3. \A i \in D \cap stop : <<i, val[i]>> \in R
  OBVIOUS
<1>4. \A i \in D \ stop : \A v : <<next[i], v>> \in R => <<i, v>> \in R
  <2> TAKE i \in D \ stop
  <2> TAKE v
  <2> HAVE <<next[i], v>> \in R
  <2>1. next[i] \in D /\ next[i] < i
    <3>1. next[i] \in D /\ rank[next[i]] < rank[i]
      BY <1>1
    <3> HIDE DEF next
    <3> QED BY <3>1
  <2>2. v \in Int /\ v <= next[i] + 1
    OBVIOUS
  <2>3. v <= i + 1
    <3> HIDE DEF next
    <3> QED BY <2>1, <2>2
  <2> QED BY <2>2, <2>3
<1>5. \A i \in D : <<i, f[i]>> \in R
  <2>1. rank \in [D -> Nat]
    BY <1>1
  <2>2. \A i \in D \ stop : next[i] \in D /\ rank[next[i]] < rank[i]
    BY <1>1
  <2>3. Descends(f, D, stop, val, next)
    BY <1>2
  <2> HIDE DEF D, stop, next, rank, val, R
  <2> QED BY <2>1, <2>2, <2>3, <1>3, <1>4, DescendingProperty
<1>6. <<p - first, f[p - first]>> \in R
  BY <1>1, <1>5
<1> QED BY <1>2, <1>6

\* Backing up from e does not pass what is no space, and leaves only spaces
\* of one byte behind.
LEMMA BackOver ==
  ASSUME IsText(input), NEW e \in Nat, NEW k \in 0 .. e - 1,
         Rune(k) \notin Space, Rune(e - 1) # "wide"
  PROVE  /\ Back(e, 1) \in k + 1 .. e
         /\ Rune(Back(e, 1) - 1) \notin Space
         /\ \A j \in Back(e, 1) .. e - 1 : Rune(j) \in Space \ {"wide"}
<1> DEFINE D    == -3 .. e
           stop == {i \in D : i < 0 \/ Rune(i) \notin Space}
           val  == [i \in D |-> IF i < 0 THEN i ELSE i + 1]
           next == [i \in D |-> i - Width(i)]
           rank == [i \in D |-> i + 3]
           Over(i) == \A j \in i .. e - 1 : Rune(j) \in Space \ {"wide"}
           Good(v) == v \in k + 1 .. e /\ Rune(v - 1) \notin Space /\ Over(v)
           R    == {s \in D \X Int :
                       k <= s[1] /\ s[1] < e /\ Over(s[1] + 1) => Good(s[2])}
<1>0. \A i \in k .. e - 1 : Over(i + 1) => Rune(i) # "wide"
  <2> TAKE i \in k .. e - 1
  <2> HAVE Over(i + 1)
  <2>1. CASE i = e - 1
    BY <2>1
  <2>2. CASE i < e - 1
    <3>1. Rune(i + 1) \in Space /\ i \in Nat
      BY <2>2
    <3>2. Rune(i + 1) # "rest"
      BY <3>1 DEF Space
    <3> QED BY <3>1, <3>2, RuneFacts
  <2> QED BY <2>1, <2>2
<1>1. /\ e - 1 \in D /\ rank \in [D -> Nat]
      /\ \A i \in D \ stop : next[i] \in D /\ rank[next[i]] < rank[i]
      /\ \E f : Descends(f, D, stop, val, next) /\ Back(e, 1) = f[e - 1]
  <2>1. 1 \in 1 .. 3
    OBVIOUS
  <2> QED BY <2>1, BackIsDescent
<1>2. PICK f : Descends(f, D, stop, val, next) /\ Back(e, 1) = f[e - 1]
  BY <1>1
<1>3. \A i \in D \cap stop : <<i, val[i]>> \in R
  <2> TAKE i \in D \cap stop
  <2>1. val[i] \in Int
    OBVIOUS
  <2>2. ASSUME k <= i, i < e, Over(i + 1) PROVE Good(val[i])
    <3>1. val[i] = i + 1 /\ i + 1 - 1 = i /\ Rune(i) \notin Space
      BY <2>2
    <3>2. i + 1 \in k + 1 .. e
      BY <2>2
    <3> HIDE DEF Over, val
    <3> QED BY <2>2, <3>1, <3>2
  <2> HIDE DEF Good, Over, val
  <2> QED BY <2>1, <2>2
<1>4. \A i \in D \ stop : \A v : <<next[i], v>> \in R => <<i, v>> \in R
  <2> TAKE i \in D \ stop
  <2> TAKE v
  <2> HAVE <<next[i], v>> \in R
  <2>0. v \in Int
    OBVIOUS
  <2>1. ASSUME k <= i, i < e, Over(i + 1) PROVE Good(v)
    <3>1. Rune(i) # "wide" /\ Rune(i) \in Space
      BY <1>0, <2>1
    <3>2. next[i] = i - 1 /\ i # k
      BY <3>1 DEF Width
    <3>3. k <= next[i] /\ next[i] < e /\ next[i] + 1 = i
      BY <2>1, <3>2
    <3>4. Over(i)
      BY <2>1, <3>1
    <3> HIDE DEF Good, Over, next
    <3> QED BY <3>3, <3>4
  <2> HIDE DEF Good, Over, next
  <2> QED BY <2>0, <2>1
<1>5. \A i \in D : <<i, f[i]>> \in R
  <2>1. rank \in [D -> Nat]
    BY <1>1
  <2>2. \A i \in D \ stop : next[i] \in D /\ rank[next[i]] < rank[i]
    BY <1>1
  <2>3. Descends(f, D, stop, val, next)
    BY <1>2
  <2> HIDE DEF D, stop, next, rank, val, R
  <2> QED BY <2>1, <2>2, <2>3, <1>3, <1>4, DescendingProperty
<1>6. <<e - 1, f[e - 1]>> \in R
  BY <1>1, <1>5
<1>7. k <= e - 1 /\ e - 1 < e /\ Over(e - 1 + 1)
  OBVIOUS
<1>8. Good(f[e - 1])
  <2> HIDE DEF Good, Over
  <2> QED BY <1>6, <1>7
<1> QED BY <1>2, <1>8

\* What a state function finds where it starts to read.
Place(function, s, p) ==
  /\ function = "lexPromiseOpening" => Rune(p) = "("
  /\ function = "lexPromiseClosing" => Rune(p) = ")"
  /\ function = "lexGetterOpening" => Rune(p) = "["
  /\ function = "lexArgument" => Rune(Skip(p, Space)) = "quote"
  /\ function = "lexGetterClosing" => Rune(Skip(p, Space)) = "]"
  /\ function \in {"lexGetterType", "lexGetterValue"} =>
       \/ p = Len(input)
       \/ s = p /\ p >= 1 /\ Rune(p - 1) \notin Space

\* The promises and getters a state function is in.
Depth(function, p, paren, getter) ==
  /\ paren \in Nat /\ getter \in Nat
  /\ function \notin {"lexComment", "lexPromiseOpening", "nil"} => paren >= 1
  /\ function = "lexComment" => paren = 0
  /\ function \in {"lexComment", "lexPromiseOpening", "lexPromiseName",
                   "lexInsidePromise", "lexPromiseClosing"} => getter = 0
  /\ function \in {"lexGetterType", "lexGetterValue", "lexGetterClosing"} =>
       getter >= 1
  /\ function = "lexInsideGetter" /\ getter = 0 => Rune(p) = "["

\* The tokens that are sent one after the other.
Brackets == {"LeftPromise", "RightPromise", "LeftGetter", "RightGetter", "EOF"}
Queue(toks, paren, getter) ==
  /\ toks \in Seq(Token)
  /\ \A i \in DOMAIN toks :
       /\ toks[i].from <= toks[i].to /\ toks[i].to <= Len(input)
       /\ toks[i].typ \in Brackets => Len(toks) = 1
       /\ toks[i].typ = "LeftArg" =>
            i < Len(toks) /\ toks[i + 1].typ \in {"Argument", "Error"}
       /\ toks[i].typ = "Argument" =>
            i < Len(toks) /\ toks[i + 1].typ = "RightArg"
       /\ toks[i].typ = "LeftPromise" => paren >= 1
       /\ toks[i].typ = "LeftGetter" => getter >= 1
       /\ toks[i].typ = "EOF" => paren = 0
       /\ toks[i].typ \in {"LeftPromise", "RightPromise", "EOF"} => getter = 0

LexerInv ==
  /\ LexerTypeOK
  /\ Place(state, start, pos)
  /\ Depth(state, pos, parenDepth, getterDepth)
  /\ Queue(tokens, parenDepth, getterDepth)

StateFunction == {"lexComment", "lexPromiseOpening", "lexPromiseName",
                "lexInsidePromise", "lexPromiseClosing", "lexArgument",
                "lexInsideGetter", "lexGetterOpening", "lexGetterType",
                "lexGetterValue", "lexGetterClosing", "nil", "panic"}

\* It is of the state in the next state if it is of the primed variables.
LEMMA SameText ==
  ASSUME input' = input
  PROVE  /\ Place(state', start', pos') => Place(state, start, pos)'
         /\ Depth(state', pos', parenDepth', getterDepth') =>
              Depth(state, pos, parenDepth, getterDepth)'
         /\ Queue(tokens', parenDepth', getterDepth') =>
              Queue(tokens, parenDepth, getterDepth)'
<1>1. ASSUME NEW p PROVE Rune(p)' = Rune(p)
  BY DEF Rune
<1>2. ASSUME NEW p, NEW runes PROVE Skip(p, runes)' = Skip(p, runes)
  BY DEF Skip, Rune, Width
<1>3. Place(state', start', pos') => Place(state, start, pos)'
  BY <1>1, <1>2 DEF Place
<1>4. Depth(state', pos', parenDepth', getterDepth') =>
              Depth(state, pos, parenDepth, getterDepth)'
  BY <1>1 DEF Depth
<1>5. Queue(tokens', parenDepth', getterDepth') =>
              Queue(tokens, parenDepth, getterDepth)'
  BY DEF Queue
<1> QED BY <1>3, <1>4, <1>5

\* What is to be shown of a state function that returns.
LEMMA SendsKeeps ==
  ASSUME LexerTypeOK, NEW toks, NEW s, NEW p, NEW next \in StateFunction,
         Sends(toks, s, p, next),
         s \in 0 .. Len(input), p \in s .. Len(input),
         Place(next, s, p),
         Depth(next, p, parenDepth', getterDepth'),
         Queue(toks, parenDepth', getterDepth')
  PROVE  LexerInv'
<1>1. input' = input /\ state' = next /\ start' = s /\ pos' = p /\ tokens' = toks
  BY DEF Sends
<1>2. /\ Place(state, start, pos)'
      /\ Depth(state, pos, parenDepth, getterDepth)'
      /\ Queue(tokens, parenDepth, getterDepth)'
  BY <1>1, SameText
<1>3. LexerTypeOK'
  <2>1. IsText(input)'
    BY <1>1 DEF LexerTypeOK, IsText
  <2>2. parenDepth' \in Nat /\ getterDepth' \in Nat
    BY DEF Depth
  <2>3. /\ tokens' \in Seq(Token)
        /\ \A i \in DOMAIN tokens' :
             tokens'[i].from <= tokens'[i].to /\ tokens'[i].to <= Len(input')
    BY <1>1 DEF Queue
  <2>4. Token' = Token
    OBVIOUS
  <2> QED BY <1>1, <2>1, <2>2, <2>3 DEF LexerTypeOK, StateFunction
<1> QED BY <1>2, <1>3 DEF LexerInv

\* No tokens, and a single one.
LEMMA QueueEmpty ==
  ASSUME NEW paren, NEW getter
  PROVE  Queue(<<>>, paren, getter)
BY EmptySeq DEF Queue

LEMMA QueueOne ==
  ASSUME Len(input) \in Nat, NEW typ \in TokenType \ {"LeftArg", "Argument"},
         NEW from \in Nat, NEW to \in from .. Len(input),
         NEW paren \in Nat, NEW getter \in Nat,
         typ = "LeftPromise" => paren >= 1,
         typ = "LeftGetter" => getter >= 1,
         typ = "EOF" => paren = 0,
         typ \in {"LeftPromise", "RightPromise", "EOF"} => getter = 0
  PROVE  Queue(<<Tok(typ, from, to)>>, paren, getter)
<1> DEFINE t == Tok(typ, from, to)
<1>1. t \in Token /\ t.typ = typ /\ t.from = from /\ t.to = to
  BY DEF Token, Tok
<1> HIDE DEF t
<1> DEFINE q == <<t>>
<1>2. q \in Seq(Token) /\ Len(q) = 1 /\ \A i \in DOMAIN q : q[i] = t
  BY <1>1
<1> HIDE DEF q
<1>3. Queue(q, paren, getter)
  BY <1>1, <1>2 DEF Queue
<1> QED BY <1>3 DEF q, t

LEMMA LexCommentKeeps ==
  ASSUME LexerInv, lexComment
  PROVE  LexerInv'
<1>0. /\ Len(input) \in Nat /\ start \in 0 .. Len(input) /\ pos \in start .. Len(input)
      /\ parenDepth = 0 /\ getterDepth = 0 /\ parenDepth' = 0 /\ getterDepth' = 0
      /\ LexerTypeOK /\ IsText(input)
  BY RuneFacts DEF lexComment, Runs, LexerInv, LexerTypeOK, Depth
<1>1. CASE Rune(pos) = "eof" /\ Sends(<<Tok("EOF", start, pos)>>, pos, pos, "nil")
  <2>1. Queue(<<Tok("EOF", start, pos)>>, 0, 0)
    BY <1>0, QueueOne DEF TokenType
  <2>2. Depth("nil", pos, 0, 0) /\ Place("nil", pos, pos)
    BY DEF Depth, Place
  <2> QED BY <1>0, <1>1, <2>1, <2>2, SendsKeeps DEF StateFunction
<1>2. CASE Rune(pos) = "(" /\ Sends(<<>>, start, pos, "lexPromiseOpening")
  <2>1. Depth("lexPromiseOpening", pos, 0, 0) /\ Place("lexPromiseOpening", start, pos)
    BY <1>2 DEF Depth, Place
  <2> QED BY <1>0, <1>2, <2>1, QueueEmpty, SendsKeeps DEF StateFunction
<1>3. CASE /\ Rune(pos) \notin {"eof", "("}
           /\ LET p == pos + Width(pos)
              IN  Sends(<<Tok("Comment", start, p)>>, p, p, "lexComment")
  <2> DEFINE p == pos + Width(pos)
  <2>1. p \in start .. Len(input)
    BY <1>0, <1>3, RuneFacts
  <2> HIDE DEF p
  <2>2. Queue(<<Tok("Comment", start, p)>>, 0, 0)
    BY <1>0, <2>1, QueueOne DEF TokenType
  <2>3. Depth("lexComment", p, 0, 0) /\ Place("lexComment", p, p)
    BY DEF Depth, Place
  <2>4. Sends(<<Tok("Comment", start, p)>>, p, p, "lexComment")
    BY <1>3 DEF p
  <2>5. p \in 0 .. Len(input) /\ p \in p .. Len(input)
    BY <1>0, <2>1
  <2> QED BY <1>0, <2>2, <2>3, <2>4, <2>5, SendsKeeps DEF StateFunction
<1> QED BY <1>1, <1>2, <1>3 DEF lexComment

LEMMA LexerFacts ==
  ASSUME LexerInv
  PROVE  /\ LexerTypeOK /\ IsText(input)
         /\ Len(input) \in Nat
         /\ start \in 0 .. Len(input) /\ pos \in start .. Len(input)
         /\ pos \in 0 .. Len(input)
         /\ parenDepth \in Nat /\ getterDepth \in Nat
         /\ Place(state, start, pos)
         /\ Depth(state, pos, parenDepth, getterDepth)
         /\ \A S : "eof" \notin Space /\ "eof" \notin isValidNameRune /\ "eof" \notin Runes \ S
<1>1. Len(input) \in Nat /\ start \in 0 .. Len(input) /\ pos \in start .. Len(input)
  BY RuneFacts DEF LexerInv, LexerTypeOK
<1>2. "eof" \notin Space /\ "eof" \notin isValidNameRune /\ "eof" \notin Runes
  BY LexerAssumption DEF Runes, isValidNameRune, Space
<1> QED BY <1>1, <1>2 DEF LexerInv, LexerTypeOK, Depth

LEMMA LexPromiseOpeningKeeps ==
  ASSUME LexerInv, lexPromiseOpening
  PROVE  LexerInv'
<1>1. /\ state = "lexPromiseOpening" /\ getterDepth = 0 /\ getterDepth' = 0
      /\ parenDepth' = parenDepth + 1 /\ parenDepth' \in Nat /\ parenDepth' >= 1
      /\ Rune(pos) = "("
      /\ Sends(<<Tok("LeftPromise", pos, pos + 1)>>, pos + 1, pos + 1,
           "lexPromiseName")
  BY LexerFacts DEF lexPromiseOpening, Runs, Depth, Place
<1>2. pos \in Nat /\ pos + 1 \in pos .. Len(input)
  BY <1>1, LexerFacts, RuneFacts
<1>3. Queue(<<Tok("LeftPromise", pos, pos + 1)>>, parenDepth', getterDepth')
  BY <1>1, <1>2, LexerFacts, QueueOne DEF TokenType
<1>4. /\ Depth("lexPromiseName", pos + 1, parenDepth', getterDepth')
      /\ Place("lexPromiseName", pos + 1, pos + 1)
  BY <1>1 DEF Depth, Place
<1>5. pos + 1 \in 0 .. Len(input) /\ pos + 1 \in pos + 1 .. Len(input)
  BY <1>2
<1> QED BY <1>1, <1>3, <1>4, <1>5, LexerFacts, SendsKeeps DEF StateFunction

\* Where the name ends is where it begins or behind, or the slice panics.
LEMMA LexPromiseNameKeeps ==
  ASSUME LexerInv, lexPromiseName
  PROVE  LexerInv'
<1> DEFINE s == removeLeadingWhitespace
           e == Skip(s, isValidNameRune)
           p == removeTrailingWhitespace(e)
<1>1. /\ state = "lexPromiseName" /\ getterDepth = 0 /\ getterDepth' = 0
      /\ parenDepth' = parenDepth /\ parenDepth \in Nat /\ parenDepth >= 1
      /\ tokens = <<>>
  BY LexerFacts DEF lexPromiseName, Runs, Depth
<1>2. s \in pos .. Len(input) /\ s \in 0 .. Len(input) /\ s \in Nat
  <2>1. s \in pos .. Len(input)
    BY LexerFacts, SkipStops DEF removeLeadingWhitespace
  <2> QED BY <2>1, LexerFacts
<1>3. e \in s .. Len(input) /\ e \in Nat
  <2>1. e \in s .. Len(input)
    <3> HIDE DEF s
    <3> QED BY <1>2, LexerFacts, SkipStops
  <2> HIDE DEF s, e
  <2> QED BY <2>1, <1>2, LexerFacts
<1>4. p \in Int /\ p <= e
  <2>1. Width(e) \in 1 .. 3
    BY LexerFacts, RuneFacts
  <2>2. Back(e, Width(e)) \in Int /\ Back(e, Width(e)) <= e - Width(e) + 1
    <3> HIDE DEF e
    <3> QED BY <1>3, <2>1, LexerFacts, BackStays
  <2> HIDE DEF e
  <2> QED BY <1>3, <2>1, <2>2 DEF removeTrailingWhitespace
<1> HIDE DEF s, e, p
<1>5. CASE errorf(s, e)
  <2>1. Queue(<<Tok("Error", s, e)>>, parenDepth', getterDepth')
    BY <1>1, <1>2, <1>3, LexerFacts, QueueOne DEF TokenType
  <2>2. Depth("nil", e, parenDepth', getterDepth') /\ Place("nil", s, e)
    BY <1>1 DEF Depth, Place
  <2>3. Sends(<<Tok("Error", s, e)>>, s, e, "nil")
    BY <1>5 DEF errorf
  <2> QED BY <1>2, <1>3, <2>1, <2>2, <2>3, LexerFacts, SendsKeeps DEF StateFunction
<1>6. CASE Sliceable(s, p) /\ Sends(<<Tok("PromiseName", s, p)>>, p, p, "lexInsidePromise")
  <2>1. p \in s .. Len(input) /\ p \in 0 .. Len(input) /\ p \in p .. Len(input)
    BY <1>2, <1>3, <1>4, <1>6, LexerFacts DEF Sliceable
  <2>2. Queue(<<Tok("PromiseName", s, p)>>, parenDepth', getterDepth')
    BY <1>1, <1>2, <2>1, LexerFacts, QueueOne DEF TokenType
  <2>3. Depth("lexInsidePromise", p, parenDepth', getterDepth') /\ Place("lexInsidePromise", p, p)
    BY <1>1 DEF Depth, Place
  <2> QED BY <1>6, <2>1, <2>2, <2>3, LexerFacts, SendsKeeps DEF StateFunction
<1>7. CASE state' = "panic" /\ UNCHANGED <<input, start, pos, tokens>>
  <2>1. Sends(<<>>, start, pos, "panic")
    BY <1>1, <1>7 DEF Sends
  <2>2. Depth("panic", pos, parenDepth', getterDepth') /\ Place("panic", start, pos)
    BY <1>1 DEF Depth, Place
  <2> QED BY <2>1, <2>2, LexerFacts, QueueEmpty, SendsKeeps DEF StateFunction
<1> QED BY <1>5, <1>6, <1>7 DEF lexPromiseName, s, e, p

LEMMA LexInsidePromiseKeeps ==
  ASSUME LexerInv, lexInsidePromise
  PROVE  LexerInv'
<1> DEFINE p == Skip(pos, Space)
<1>1. /\ state = "lexInsidePromise" /\ getterDepth = 0 /\ getterDepth' = 0
      /\ parenDepth' = parenDepth /\ parenDepth \in Nat /\ parenDepth >= 1
  BY LexerFacts DEF lexInsidePromise, Runs, Depth
<1>2. p \in start .. Len(input) /\ p \in 0 .. Len(input) /\ Rune(p) \notin Space
  <2>1. p \in pos .. Len(input) /\ Rune(p) \notin Space
    BY LexerFacts, SkipStops
  <2> HIDE DEF p
  <2> QED BY <2>1, LexerFacts
<1>3. Skip(p, Space) = p
  <2> HIDE DEF p
  <2> QED BY <1>2, LexerFacts, SkipStops
<1>4. ASSUME NEW next \in {"lexPromiseOpening", "lexPromiseClosing", "lexInsideGetter",
                           "lexArgument"},
             Sends(<<>>, start, p, next),
             next = "lexPromiseOpening" => Rune(p) = "(",
             next = "lexPromiseClosing" => Rune(p) = ")",
             next = "lexInsideGetter" => Rune(p) = "[",
             next = "lexArgument" => Rune(p) = "quote"
      PROVE  LexerInv'
  <2> HIDE DEF p
  <2>1. Place(next, start, p)
    BY <1>3, <1>4 DEF Place
  <2>2. Depth(next, p, parenDepth', getterDepth')
    BY <1>1, <1>4 DEF Depth
  <2>3. next \in StateFunction
    BY <1>4 DEF StateFunction
  <2> QED BY <1>2, <1>4, <2>1, <2>2, <2>3, LexerFacts, QueueEmpty, SendsKeeps
<1>5. ASSUME NEW q \in p .. Len(input), errorf(start, q) PROVE LexerInv'
  <2> HIDE DEF p
  <2>0. q \in start .. Len(input) /\ start \in Nat
    BY <1>2, <1>5, LexerFacts
  <2>1. Queue(<<Tok("Error", start, q)>>, parenDepth', getterDepth')
    BY <1>1, <2>0, LexerFacts, QueueOne DEF TokenType
  <2>2. Depth("nil", q, parenDepth', getterDepth') /\ Place("nil", start, q)
    BY <1>1 DEF Depth, Place
  <2>3. Sends(<<Tok("Error", start, q)>>, start, q, "nil")
    BY <1>5 DEF errorf
  <2> QED BY <2>0, <2>1, <2>2, <2>3, LexerFacts, SendsKeeps DEF StateFunction
<1> HIDE DEF p
<1>6. p \in p .. Len(input) /\ (Rune(p) # "eof" => p + Width(p) \in p .. Len(input))
  BY <1>2, LexerFacts, RuneFacts
<1> QED BY <1>4, <1>5, <1>6 DEF lexInsidePromise, p

LEMMA LexPromiseClosingKeeps ==
  ASSUME LexerInv, lexPromiseClosing
  PROVE  LexerInv'
<1> DEFINE next == IF Ended(parenDepth) THEN "lexComment" ELSE "lexInsidePromise"
<1>1. /\ state = "lexPromiseClosing" /\ getterDepth = 0 /\ getterDepth' = 0
      /\ parenDepth' = parenDepth - 1 /\ parenDepth \in Nat /\ parenDepth >= 1
      /\ Rune(pos) = ")"
      /\ Sends(<<Tok("RightPromise", pos, pos + 1)>>, pos + 1, pos + 1, next)
  BY LexerFacts DEF lexPromiseClosing, Runs, Depth, Place
<1>2. pos \in Nat /\ pos + 1 \in pos .. Len(input)
  BY <1>1, LexerFacts, RuneFacts
<1>3. Queue(<<Tok("RightPromise", pos, pos + 1)>>, parenDepth', getterDepth')
  <2>1. parenDepth' \in Nat /\ getterDepth' \in Nat
    BY <1>1
  <2> QED BY <1>1, <1>2, <2>1, LexerFacts, QueueOne DEF TokenType
<1>4. Depth(next, pos + 1, parenDepth', getterDepth') /\ Place(next, pos + 1, pos + 1)
  BY <1>1 DEF Depth, Place, Ended
<1>5. pos + 1 \in 0 .. Len(input) /\ pos + 1 \in pos + 1 .. Len(input)
  BY <1>2
<1>6. next \in StateFunction
  BY DEF StateFunction
<1> HIDE DEF next
<1> QED BY <1>1, <1>3, <1>4, <1>5, <1>6, LexerFacts, SendsKeeps

LEMMA QueueTwo ==
  ASSUME Len(input) \in Nat,
         NEW typ \in TokenType \ (Brackets \cup {"Argument"}),
         NEW typ2 \in TokenType \ (Brackets \cup {"LeftArg", "Argument"}),
         typ = "LeftArg" => typ2 = "Error",
         NEW from \in Nat, NEW to \in from .. Len(input),
         NEW from2 \in Nat, NEW to2 \in from2 .. Len(input),
         NEW paren \in Nat, NEW getter \in Nat
  PROVE  Queue(<<Tok(typ, from, to), Tok(typ2, from2, to2)>>, paren, getter)
<1> DEFINE t == Tok(typ, from, to)
           u == Tok(typ2, from2, to2)
<1>1. /\ t \in Token /\ t.typ = typ /\ t.from = from /\ t.to = to
      /\ u \in Token /\ u.typ = typ2 /\ u.from = from2 /\ u.to = to2
  BY DEF Token, Tok
<1> HIDE DEF t, u
<1> DEFINE q == <<t, u>>
<1>2. /\ q \in Seq(Token) /\ Len(q) = 2 /\ q[1] = t /\ q[2] = u
      /\ \A i \in DOMAIN q : i = 1 \/ i = 2
  BY <1>1
<1> HIDE DEF q
<1>3. Queue(q, paren, getter)
  BY <1>1, <1>2 DEF Queue, Brackets
<1> QED BY <1>3 DEF q, t, u

LEMMA QueueArgument ==
  ASSUME Len(input) \in Nat,
         NEW s \in Nat, s >= 1, NEW e \in s .. Len(input), e + 1 <= Len(input),
         NEW paren \in Nat, NEW getter \in Nat
  PROVE  Queue(<<Tok("LeftArg", s - 1, s), Tok("Argument", s, e),
                 Tok("RightArg", e, e + 1)>>, paren, getter)
<1> DEFINE t == Tok("LeftArg", s - 1, s)
           u == Tok("Argument", s, e)
           v == Tok("RightArg", e, e + 1)
<1>1. /\ t \in Token /\ t.typ = "LeftArg" /\ t.from = s - 1 /\ t.to = s
      /\ u \in Token /\ u.typ = "Argument" /\ u.from = s /\ u.to = e
      /\ v \in Token /\ v.typ = "RightArg" /\ v.from = e /\ v.to = e + 1
  BY DEF Token, Tok, TokenType
<1> HIDE DEF t, u, v
<1> DEFINE q == <<t, u, v>>
<1>2. /\ q \in Seq(Token) /\ Len(q) = 3 /\ q[1] = t /\ q[2] = u /\ q[3] = v
      /\ \A i \in DOMAIN q : i = 1 \/ i = 2 \/ i = 3
  BY <1>1
<1> HIDE DEF q
<1>3. Queue(q, paren, getter)
  BY <1>1, <1>2 DEF Queue, Brackets
<1> QED BY <1>3 DEF q, t, u, v

LEMMA LexArgumentKeeps ==
  ASSUME LexerInv, lexArgument
  PROVE  LexerInv'
<1> DEFINE l == removeLeadingWhitespace
           s == l + 1
           e == Skip(s, Runes \ {"quote"})
           next == IF getterDepth = 0 THEN "lexInsidePromise" ELSE "lexInsideGetter"
<1>1. /\ state = "lexArgument" /\ getterDepth' = getterDepth /\ getterDepth \in Nat
      /\ parenDepth' = parenDepth /\ parenDepth \in Nat /\ parenDepth >= 1
  BY LexerFacts DEF lexArgument, Runs, Depth
<1>2. l \in Nat /\ s \in 0 .. Len(input) /\ s >= 1 /\ s \in Nat /\ s - 1 = l
  <2>1. l \in pos .. Len(input)
    BY LexerFacts, SkipStops DEF removeLeadingWhitespace
  <2>2. Rune(l) = "quote"
    BY <1>1, LexerFacts DEF Place, removeLeadingWhitespace
  <2> HIDE DEF l
  <2>3. l \in Nat
    BY <2>1, LexerFacts
  <2>4. l < Len(input)
    BY <2>2, <2>3, LexerFacts, RuneFacts
  <2> QED BY <2>3, <2>4, LexerFacts
<1>3. e \in s .. Len(input) /\ e \in Nat /\ e \in 0 .. Len(input)
  <2>1. e \in s .. Len(input)
    <3> HIDE DEF s
    <3> QED BY <1>2, LexerFacts, SkipStops
  <2> HIDE DEF s, e
  <2> QED BY <2>1, <1>2, LexerFacts
<1> DEFINE left == Tok("LeftArg", s - 1, s)
<1>5. CASE Sends(<<left, Tok("Error", s, e)>>, s, e, "nil")
  <2> HIDE DEF s, e, next
  <2>0. s - 1 \in Nat /\ s \in s - 1 .. Len(input)
    BY <1>2
  <2>1. Queue(<<left, Tok("Error", s, e)>>, parenDepth', getterDepth')
    BY <1>1, <1>2, <1>3, <2>0, LexerFacts, QueueTwo DEF TokenType, Brackets
  <2>2. Depth("nil", e, parenDepth', getterDepth') /\ Place("nil", s, e)
    BY <1>1 DEF Depth, Place
  <2> QED BY <1>2, <1>3, <1>5, <2>1, <2>2, LexerFacts, SendsKeeps DEF StateFunction
<1>6. CASE /\ Rune(e) = "quote"
           /\ Sends(<<left, Tok("Argument", s, e), Tok("RightArg", e, e + 1)>>,
                    e + 1, e + 1, next)
  <2>4. next \in StateFunction
    BY DEF StateFunction
  <2>2. Depth(next, e + 1, parenDepth', getterDepth') /\ Place(next, e + 1, e + 1)
    BY <1>1 DEF Depth, Place
  <2> HIDE DEF s, e, next
  <2>0. e + 1 <= Len(input) /\ e + 1 \in 0 .. Len(input) /\ e + 1 \in e + 1 .. Len(input)
    BY <1>3, <1>6, LexerFacts, RuneFacts
  <2>1. Queue(<<left, Tok("Argument", s, e), Tok("RightArg", e, e + 1)>>,
              parenDepth', getterDepth')
    <3>1. parenDepth' \in Nat /\ getterDepth' \in Nat
      BY <1>1
    <3> QED BY <1>2, <1>3, <2>0, <3>1, LexerFacts, QueueArgument
  <2> QED BY <1>6, <2>0, <2>1, <2>2, <2>4, LexerFacts, SendsKeeps
<1> QED BY <1>5, <1>6 DEF lexArgument

LEMMA LexInsideGetterKeeps ==
  ASSUME LexerInv, lexInsideGetter
  PROVE  LexerInv'
<1> DEFINE p == removeLeadingWhitespace
<1>1. /\ state = "lexInsideGetter" /\ getterDepth' = getterDepth /\ getterDepth \in Nat
      /\ parenDepth' = parenDepth /\ parenDepth \in Nat /\ parenDepth >= 1
      /\ getterDepth = 0 => Rune(pos) = "["
  BY LexerFacts DEF lexInsideGetter, Runs, Depth
<1>2. p \in pos .. Len(input) /\ Rune(p) \notin Space /\ (Rune(pos) = "[" => p = pos)
  <2>1. "[" \notin Space
    BY DEF Space
  <2> QED BY <2>1, LexerFacts, SkipStops DEF removeLeadingWhitespace
<1> HIDE DEF p
<1>3. p \in 0 .. Len(input) /\ p \in p .. Len(input) /\ p \in Nat
  BY <1>2, LexerFacts
<1>4. Skip(p, Space) = p
  BY <1>2, <1>3, LexerFacts, SkipStops
<1>5. ASSUME NEW next \in {"lexGetterOpening", "lexGetterClosing", "lexArgument"},
             Sends(<<>>, p, p, next),
             next = "lexGetterOpening" => Rune(p) = "[",
             next = "lexGetterClosing" => Rune(p) = "]",
             next = "lexArgument" => Rune(p) = "quote"
      PROVE  LexerInv'
  <2>1. Place(next, p, p)
    BY <1>4, <1>5 DEF Place
  <2>2. Depth(next, p, parenDepth', getterDepth')
    <3>1. next = "lexGetterClosing" => getterDepth >= 1
      BY <1>1, <1>2, <1>5
    <3> QED BY <1>1, <1>5, <3>1 DEF Depth
  <2>3. next \in StateFunction
    BY <1>5 DEF StateFunction
  <2> QED BY <1>3, <1>5, <2>1, <2>2, <2>3, LexerFacts, QueueEmpty, SendsKeeps
<1>6. ASSUME NEW q \in p .. Len(input), errorf(p, q) PROVE LexerInv'
  <2>1. Queue(<<Tok("Error", p, q)>>, parenDepth', getterDepth')
    BY <1>1, <1>3, LexerFacts, QueueOne DEF TokenType
  <2>2. Depth("nil", q, parenDepth', getterDepth') /\ Place("nil", p, q)
    BY <1>1 DEF Depth, Place
  <2>3. Sends(<<Tok("Error", p, q)>>, p, q, "nil")
    BY <1>6 DEF errorf
  <2> QED BY <1>3, <2>1, <2>2, <2>3, LexerFacts, SendsKeeps DEF StateFunction
<1>7. Rune(p) # "eof" => p + Width(p) \in p .. Len(input)
  BY <1>3, LexerFacts, RuneFacts
<1> QED BY <1>3, <1>5, <1>6, <1>7 DEF lexInsideGetter, p

LEMMA LexGetterOpeningKeeps ==
  ASSUME LexerInv, lexGetterOpening
  PROVE  LexerInv'
<1>1. /\ state = "lexGetterOpening" /\ getterDepth \in Nat /\ getterDepth' = getterDepth + 1
      /\ parenDepth' = parenDepth /\ parenDepth \in Nat /\ parenDepth >= 1
      /\ Rune(pos) = "["
      /\ Sends(<<Tok("LeftGetter", pos, pos + 1)>>, pos + 1, pos + 1,
           "lexGetterType")
  BY LexerFacts DEF lexGetterOpening, Runs, Depth, Place
<1>2. pos \in Nat /\ pos + 1 \in pos .. Len(input)
  BY <1>1, LexerFacts, RuneFacts
<1>3. Queue(<<Tok("LeftGetter", pos, pos + 1)>>, parenDepth', getterDepth')
  <2>1. parenDepth' \in Nat /\ getterDepth' \in Nat /\ getterDepth' >= 1
    BY <1>1
  <2> QED BY <1>1, <1>2, <2>1, LexerFacts, QueueOne DEF TokenType
<1>4. /\ Depth("lexGetterType", pos + 1, parenDepth', getterDepth')
      /\ Place("lexGetterType", pos + 1, pos + 1)
  <2>1. Rune(pos + 1 - 1) \notin Space
    BY <1>1, <1>2 DEF Space
  <2> QED BY <1>1, <1>2, <2>1 DEF Depth, Place
<1>5. pos + 1 \in 0 .. Len(input) /\ pos + 1 \in pos + 1 .. Len(input)
  BY <1>2
<1> QED BY <1>1, <1>3, <1>4, <1>5, LexerFacts, SendsKeeps DEF StateFunction

\* The type or the value of a getter ends behind its start, and spaces of
\* one byte are between its end and the rune that ended it.
LEMMA GetterEnds ==
  ASSUME LexerInv, state \in {"lexGetterType", "lexGetterValue"},
         NEW e \in pos .. Len(input), Rune(e) \in {":", "quote", "[", "]"}
  PROVE  LET p == removeTrailingWhitespace(e)
         IN  /\ start = pos /\ pos >= 1 /\ e < Len(input) /\ Skip(e, Space) = e
             /\ p \in pos .. e /\ p \in Nat
             /\ Rune(p - 1) \notin Space /\ Rune(p) # "wide"
             /\ Skip(p, Space) = e
<1> DEFINE p == Back(e, 1)
<1>1. /\ Len(input) \in Nat /\ pos \in Nat /\ e \in Nat /\ e <= Len(input)
      /\ pos <= Len(input)
  BY LexerFacts
<1>2. e < Len(input) /\ Rune(e) \notin Space /\ Rune(e) # "rest" /\ Rune(e) # "wide"
  <2>1. Rune(e) # "eof" /\ Rune(e) \notin Space /\ Rune(e) # "rest" /\ Rune(e) # "wide"
    BY DEF Space
  <2> QED BY <1>1, <2>1, LexerFacts, RuneFacts
<1>3. start = pos /\ pos >= 1 /\ Rune(pos - 1) \notin Space
  BY <1>1, <1>2, LexerFacts DEF Place
<1>4. Rune(e - 1) # "wide"
  <2>1. e - 1 \in Nat /\ e - 1 + 1 = e
    BY <1>1, <1>3
  <2> QED BY <1>2, <2>1, LexerFacts, RuneFacts
<1>5. /\ p \in pos .. e
      /\ Rune(p - 1) \notin Space
      /\ \A j \in p .. e - 1 : Rune(j) \in Space \ {"wide"}
  <2>1. pos - 1 \in 0 .. e - 1 /\ pos - 1 + 1 = pos
    BY <1>1, <1>3
  <2>2. /\ p \in pos - 1 + 1 .. e
        /\ Rune(p - 1) \notin Space
        /\ \A j \in p .. e - 1 : Rune(j) \in Space \ {"wide"}
    BY <1>1, <1>3, <1>4, <2>1, LexerFacts, BackOver
  <2> HIDE DEF p
  <2> QED BY <2>1, <2>2
<1>6. removeTrailingWhitespace(e) = p
  <2>1. Width(e) = 1
    BY <1>2, LexerFacts, RuneFacts
  <2> QED BY <2>1 DEF removeTrailingWhitespace
<1> HIDE DEF p
<1>7. p \in Nat /\ p \in 0 .. Len(input) /\ e \in p .. Len(input) /\ e \in 0 .. Len(input)
  BY <1>1, <1>5
<1>8. Skip(p, Space) = e /\ Skip(e, Space) = e
  BY <1>2, <1>5, <1>7, LexerFacts, SkipOver, SkipStops
<1>9. Rune(p) # "wide"
  <2>1. CASE p = e
    BY <1>2, <2>1
  <2>2. CASE p # e
    <3>1. p \in p .. e - 1
      BY <1>1, <1>5, <2>2
    <3> QED BY <1>5, <3>1
  <2> QED BY <2>1, <2>2
<1> QED BY <1>2, <1>3, <1>5, <1>6, <1>7, <1>8, <1>9

LEMMA UnclosedGetterKeeps ==
  ASSUME LexerInv, NEW function \in {"lexGetterType", "lexGetterValue"},
         state = function, UnclosedGetter(function),
         UNCHANGED <<parenDepth, getterDepth>>
  PROVE  LexerInv'
<1>1. Sends(<<Tok("Error", start, Len(input))>>, start, Len(input), function)
  BY DEF UnclosedGetter
<1>2. Len(input) \in start .. Len(input) /\ start \in Nat
  BY LexerFacts
<1>3. Queue(<<Tok("Error", start, Len(input))>>, parenDepth', getterDepth')
  BY <1>2, LexerFacts, QueueOne DEF TokenType
<1>4. Depth(function, Len(input), parenDepth', getterDepth')
  BY LexerFacts DEF Depth
<1>5. Place(function, start, Len(input))
  BY DEF Place
<1> QED BY <1>1, <1>2, <1>3, <1>4, <1>5, LexerFacts, SendsKeeps DEF StateFunction

LEMMA LexGetterTypeKeeps ==
  ASSUME LexerInv, lexGetterType
  PROVE  LexerInv'
<1> DEFINE e == Skip(pos, Runes \ {":", "quote", "["})
           p == removeTrailingWhitespace(e)
           typ == Tok("GetterType", start, p)
           sep == Back(p + Width(p), Width(p))
<1>1. /\ state = "lexGetterType" /\ getterDepth' = getterDepth /\ getterDepth \in Nat
      /\ parenDepth' = parenDepth /\ parenDepth \in Nat /\ parenDepth >= 1
      /\ getterDepth >= 1 /\ UNCHANGED <<parenDepth, getterDepth>>
  BY LexerFacts DEF lexGetterType, Runs, Depth
<1>2. e \in pos .. Len(input)
  BY LexerFacts, SkipStops
<1> HIDE DEF e
<1>3. CASE Rune(e) = "eof" /\ UnclosedGetter("lexGetterType")
  BY <1>1, <1>3, UnclosedGetterKeeps
<1>4. ASSUME Rune(e) \in {":", "quote", "["}
      PROVE  /\ start = pos /\ pos >= 1 /\ e < Len(input)
             /\ p \in pos .. e /\ p \in Nat
             /\ Rune(p - 1) \notin Space /\ Rune(p) # "wide"
             /\ Skip(p, Space) = e
  BY <1>1, <1>2, <1>4, GetterEnds
<1> HIDE DEF p
<1>5. ASSUME Rune(e) \in {":", "quote", "["}
      PROVE  p \in start .. Len(input) /\ p \in 0 .. Len(input) /\ p \in p .. Len(input)
  BY <1>2, <1>4, <1>5, LexerFacts
<1>6. CASE Rune(e) = ":" /\ Sends(<<typ, Tok("GetterSeparator", p, sep)>>, sep, sep,
                     "lexGetterValue")
  <2>1. Width(p) = 1 /\ p + 1 - 1 = p /\ p + 1 \in Nat
    BY <1>4, <1>6 DEF Width
  <2>2. p - 1 \in 0 .. p + 1 - 1 /\ p - 1 + 1 = p
    BY <1>4, <1>6, LexerFacts
  <2>3. /\ Back(p + 1, 1) \in p - 1 + 1 .. p + 1
        /\ Rune(Back(p + 1, 1) - 1) \notin Space
    BY <1>4, <1>6, <2>1, <2>2, LexerFacts, BackOver
  <2>4. sep \in p .. p + 1 /\ Rune(sep - 1) \notin Space
    BY <2>1, <2>2, <2>3
  <2> HIDE DEF sep
  <2>5. sep \in p .. Len(input) /\ sep \in 0 .. Len(input) /\ sep \in sep .. Len(input)
        /\ sep >= 1
    BY <1>2, <1>4, <1>6, <2>4, LexerFacts
  <2>6. Queue(<<typ, Tok("GetterSeparator", p, sep)>>, parenDepth', getterDepth')
    BY <1>1, <1>4, <1>5, <1>6, <2>5, LexerFacts, QueueTwo DEF TokenType, Brackets
  <2>7. Depth("lexGetterValue", sep, parenDepth', getterDepth')
    BY <1>1 DEF Depth
  <2>8. Place("lexGetterValue", sep, sep)
    BY <2>4, <2>5 DEF Place
  <2> QED BY <1>6, <2>5, <2>6, <2>7, <2>8, LexerFacts, SendsKeeps DEF StateFunction
<1>7. ASSUME Rune(e) \in {":", "quote", "["}
      PROVE  Queue(<<typ>>, parenDepth', getterDepth')
  <2>1. start \in Nat
    BY LexerFacts
  <2> QED BY <1>1, <1>5, <1>7, <2>1, LexerFacts, QueueOne DEF TokenType
<1>8. CASE Rune(e) = "quote" /\ Sends(<<typ>>, p, p, "lexArgument")
  <2>1. Depth("lexArgument", p, parenDepth', getterDepth')
    BY <1>1 DEF Depth
  <2>2. Place("lexArgument", p, p)
    BY <1>4, <1>8 DEF Place
  <2> QED BY <1>5, <1>7, <1>8, <2>1, <2>2, LexerFacts, SendsKeeps DEF StateFunction
<1>9. CASE Rune(e) = "[" /\ Sends(<<typ>>, p, p, "lexInsideGetter")
  <2>1. Depth("lexInsideGetter", p, parenDepth', getterDepth')
    BY <1>1 DEF Depth
  <2>2. Place("lexInsideGetter", p, p)
    BY DEF Place
  <2> QED BY <1>5, <1>7, <1>9, <2>1, <2>2, LexerFacts, SendsKeeps DEF StateFunction
<1> QED BY <1>3, <1>6, <1>8, <1>9 DEF lexGetterType, e, p

LEMMA LexGetterValueKeeps ==
  ASSUME LexerInv, lexGetterValue
  PROVE  LexerInv'
<1> DEFINE e == Skip(pos, isValidNameRune)
           p == removeTrailingWhitespace(e)
<1>1. /\ state = "lexGetterValue" /\ getterDepth' = getterDepth /\ getterDepth \in Nat
      /\ parenDepth' = parenDepth /\ parenDepth \in Nat /\ parenDepth >= 1
      /\ getterDepth >= 1 /\ UNCHANGED <<parenDepth, getterDepth>>
  BY LexerFacts DEF lexGetterValue, Runs, Depth
<1>2. e \in pos .. Len(input)
  BY LexerFacts, SkipStops
<1> HIDE DEF e
<1>3. CASE Rune(e) = "eof" /\ UnclosedGetter("lexGetterValue")
  BY <1>1, <1>3, UnclosedGetterKeeps
<1>4. ASSUME Rune(e) \in {"]", "quote"}
      PROVE  /\ start = pos /\ e < Len(input)
             /\ p \in pos .. e /\ p \in Nat
             /\ Skip(p, Space) = e /\ Skip(e, Space) = e
  BY <1>1, <1>2, <1>4, GetterEnds
<1> HIDE DEF p
<1>5. CASE Rune(e) = "]" /\ Sends(<<Tok("GetterValue", start, p)>>, p, p, "lexGetterClosing")
  <2>1. p \in start .. Len(input) /\ p \in 0 .. Len(input) /\ p \in p .. Len(input)
    BY <1>2, <1>4, <1>5, LexerFacts
  <2>2. start \in Nat
    BY LexerFacts
  <2>3. Queue(<<Tok("GetterValue", start, p)>>, parenDepth', getterDepth')
    BY <1>1, <2>1, <2>2, LexerFacts, QueueOne DEF TokenType
  <2>4. Depth("lexGetterClosing", p, parenDepth', getterDepth')
    BY <1>1 DEF Depth
  <2>5. Place("lexGetterClosing", p, p)
    BY <1>4, <1>5 DEF Place
  <2> QED BY <1>5, <2>1, <2>3, <2>4, <2>5, LexerFacts, SendsKeeps DEF StateFunction
<1>6. CASE Rune(e) = "quote" /\ Sends(<<>>, start, e, "lexArgument")
  <2>1. e \in start .. Len(input)
    BY <1>2, LexerFacts
  <2>2. Depth("lexArgument", e, parenDepth', getterDepth')
    BY <1>1 DEF Depth
  <2>3. Place("lexArgument", start, e)
    BY <1>4, <1>6 DEF Place
  <2> QED BY <1>6, <2>1, <2>2, <2>3, LexerFacts, QueueEmpty, SendsKeeps DEF StateFunction
<1>7. CASE Rune(e) # "eof" /\ errorf(start, e + Width(e))
  <2> DEFINE q == e + Width(e)
  <2>1. q \in start .. Len(input) /\ start \in Nat
    <3>1. e \in Nat
      BY <1>2, LexerFacts
    <3>2. e + Width(e) <= Len(input) /\ Width(e) \in {1, 3}
      BY <1>2, <1>7, <3>1, LexerFacts, RuneFacts
    <3> QED BY <1>2, <3>2, LexerFacts
  <2>2. Sends(<<Tok("Error", start, q)>>, start, q, "nil")
    BY <1>7 DEF errorf
  <2> HIDE DEF q
  <2>3. Queue(<<Tok("Error", start, q)>>, parenDepth', getterDepth')
    BY <1>1, <2>1, LexerFacts, QueueOne DEF TokenType
  <2>4. Depth("nil", q, parenDepth', getterDepth') /\ Place("nil", start, q)
    BY <1>1 DEF Depth, Place
  <2> QED BY <2>1, <2>2, <2>3, <2>4, LexerFacts, SendsKeeps DEF StateFunction
<1> QED BY <1>3, <1>5, <1>6, <1>7 DEF lexGetterValue, e, p

LEMMA LexGetterClosingKeeps ==
  ASSUME LexerInv, lexGetterClosing
  PROVE  LexerInv'
<1> DEFINE p == removeLeadingWhitespace
           next == IF Ended(getterDepth) THEN "lexInsidePromise" ELSE "lexInsideGetter"
<1>1. /\ state = "lexGetterClosing" /\ getterDepth \in Nat /\ getterDepth >= 1
      /\ getterDepth' = getterDepth - 1
      /\ parenDepth' = parenDepth /\ parenDepth \in Nat /\ parenDepth >= 1
      /\ Sends(<<Tok("RightGetter", p, p + 1)>>, p + 1, p + 1, next)
  BY LexerFacts DEF lexGetterClosing, Runs, Depth
<1>2. p \in pos .. Len(input) /\ Rune(p) = "]"
  BY <1>1, LexerFacts, SkipStops DEF removeLeadingWhitespace, Place
<1>3. Depth(next, p + 1, parenDepth', getterDepth') /\ Place(next, p + 1, p + 1)
  BY <1>1 DEF Depth, Place, Ended
<1>4. next \in StateFunction
  BY DEF StateFunction
<1> HIDE DEF p, next
<1>5. p \in Nat
  BY <1>2, LexerFacts
<1>6. /\ p + 1 \in p .. Len(input) /\ p + 1 \in 0 .. Len(input)
      /\ p + 1 \in p + 1 .. Len(input)
  <2>1. p < Len(input)
    BY <1>2, <1>5, LexerFacts, RuneFacts
  <2> QED BY <1>5, <2>1, LexerFacts
<1>7. Queue(<<Tok("RightGetter", p, p + 1)>>, parenDepth', getterDepth')
  <2>1. parenDepth' \in Nat /\ getterDepth' \in Nat
    BY <1>1
  <2> QED BY <1>5, <1>6, <2>1, LexerFacts, QueueOne DEF TokenType
<1> QED BY <1>1, <1>3, <1>4, <1>6, <1>7, LexerFacts, SendsKeeps

LEMMA RunKeeps ==
  ASSUME LexerInv, run
  PROVE  LexerInv'
BY LexCommentKeeps, LexPromiseOpeningKeeps, LexPromiseNameKeeps,
   LexInsidePromiseKeeps, LexPromiseClosingKeeps, LexArgumentKeeps,
   LexInsideGetterKeeps, LexGetterOpeningKeeps, LexGetterTypeKeeps,
   LexGetterValueKeeps, LexGetterClosingKeeps DEF run

(***************************************************************************)
(* The stack while it parses.                                              *)
(***************************************************************************)
Called(fr) == IF fr = <<>> THEN "none" ELSE fr[Len(fr)].fn

\* Of whatever elements.
IsSequence(s) == \E S : s \in Seq(S)

\* What a call, a return, a step of the innermost call, and a return that the
\* caller takes, leave of the stack.
Calling(r, fr, x) ==
  /\ IsSequence(r)
  /\ r # <<>> /\ Len(fr) \in Nat /\ Len(r) = Len(fr) + 1
  /\ \A i \in 1 .. Len(fr) : r[i] = fr[i]
  /\ r[Len(fr) + 1] = x /\ Called(r) = x.fn

Returning(r, fr) ==
  /\ IsSequence(r)
  /\ Len(fr) \in Nat /\ Len(fr) >= 1 /\ Len(r) = Len(fr) - 1
  /\ \A i \in 1 .. Len(fr) - 1 : r[i] = fr[i]
  /\ Len(fr) = 1 => r = <<>>

Going(r, fr, x) ==
  /\ IsSequence(r)
  /\ r # <<>> /\ Len(fr) \in Nat /\ Len(fr) >= 1 /\ Len(r) = Len(fr)
  /\ \A i \in 1 .. Len(fr) - 1 : r[i] = fr[i]
  /\ r[Len(fr)] = x /\ Called(r) = x.fn

Answering(r, fr, x) ==
  /\ IsSequence(r)
  /\ r # <<>> /\ Len(fr) \in Nat /\ Len(r) = Len(fr) - 1
  /\ \A i \in 1 .. Len(fr) - 2 : r[i] = fr[i]
  /\ r[Len(fr) - 1] = x /\ Called(r) = x.fn

\* The promises are below, in a getter only joiners wait, and there is room
\* for a function in each getter and the argument.
Nest(fr, paren, getter, head) ==
  /\ IsSequence(fr)
  /\ paren \in Nat /\ paren <= Len(fr) /\ getter \in Nat
  /\ fr # <<>> => paren >= 1
  /\ \A i \in 1 .. paren : fr[i].fn = "parse"
  /\ \A i \in paren + 1 .. Len(fr) - 1 : fr[i].fn = "parseJoiner"
  /\ paren < Len(fr) => Called(fr) \in {"parseArg", "parseGetter", "parseJoiner"}
  /\ Called(fr) = "parseArg" => head \in {"Argument", "RightArg", "Error"}
  /\ Called(fr) = "parseArg" => Len(fr) <= paren + getter + 1
  /\ Called(fr) # "parseArg" => Len(fr) <= paren + getter

LEMMA NestParts ==
  ASSUME NEW fr, NEW p, NEW g, NEW h, Nest(fr, p, g, h)
  PROVE  /\ p \in Nat /\ g \in Nat /\ p <= Len(fr)
         /\ p < Len(fr) => Called(fr) \in {"parseArg", "parseGetter", "parseJoiner"}
         /\ p >= 1 /\ p = Len(fr) => fr[Len(fr)].fn = "parse"
         /\ fr # <<>> => p >= 1
BY DEF Nest

\* Which function was called last tells where the stack ends.
LEMMA NestFacts ==
  ASSUME NEW fr, NEW p, NEW g, NEW h, Nest(fr, p, g, h)
  PROVE  /\ Len(fr) \in Nat /\ p \in Nat /\ g \in Nat
         /\ DOMAIN fr = 1 .. Len(fr)
         /\ fr = <<>> <=> Len(fr) = 0
         /\ Called(fr) \in {"none", "parse", "parseArg", "parseGetter", "parseJoiner"}
         /\ Called(fr) = "none" => fr = <<>> /\ p = 0
         /\ Called(fr) = "parse" => Len(fr) = p /\ p >= 1
         /\ Called(fr) \in {"parseArg", "parseGetter", "parseJoiner"} => p < Len(fr) /\ p >= 1
<1>0. PICK S : fr \in Seq(S)
  BY DEF Nest, IsSequence
<1>a. DOMAIN fr = 1 .. Len(fr)
  BY <1>0, LenProperties
<1>1. Len(fr) \in Nat
  BY <1>0, LenProperties
<1>2. fr = <<>> <=> Len(fr) = 0
  BY <1>0, EmptySeq
<1>3. IF Len(fr) = 0 THEN Called(fr) = "none" ELSE Called(fr) = fr[Len(fr)].fn
  BY <1>2 DEF Called
<1>4. p \in Nat /\ g \in Nat /\ p <= Len(fr) /\ (Len(fr) # 0 => p >= 1)
  BY <1>2, NestParts
<1>5. p < Len(fr) => Called(fr) \in {"parseArg", "parseGetter", "parseJoiner"}
  BY NestParts
<1>6. p = Len(fr) => Called(fr) = IF p = 0 THEN "none" ELSE "parse"
  BY <1>3, <1>4, NestParts
<1>7. CASE p < Len(fr)
  <2>1. p # Len(fr) /\ Len(fr) # 0 /\ p >= 1
    BY <1>1, <1>4, <1>7
  <2>2. Called(fr) \notin {"none", "parse"} /\ Called(fr) \in {"parseArg", "parseGetter", "parseJoiner"}
    BY <1>5, <1>7
  <2> QED BY <1>1, <1>2, <1>4, <1>7, <1>a, <2>1, <2>2, Zenon
<1>8. CASE p = Len(fr)
  <2>1. CASE p = 0
    BY <1>1, <1>2, <1>4, <1>6, <1>8, <1>a, <2>1
  <2>2. CASE p # 0
    BY <1>1, <1>2, <1>4, <1>6, <1>8, <1>a, <2>2
  <2> QED BY <2>1, <2>2
<1>9. p < Len(fr) \/ p = Len(fr)
  BY <1>1, <1>4
<1> QED BY <1>7, <1>8, <1>9

\* Appending a frame.
LEMMA Pushed ==
  ASSUME NEW fr, IsSequence(fr), NEW x
  PROVE  Calling(Append(fr, x), fr, x)
<1> DEFINE r == Append(fr, x)
<1>1. PICK S : fr \in Seq(S)
  BY DEF IsSequence
<1> DEFINE U == S \cup {x}
<1>2. fr \in Seq(U) /\ x \in U
  BY <1>1, SeqMonotonic
<1> HIDE DEF U
<1>3. /\ r \in Seq(U) /\ Len(fr) \in Nat /\ Len(r) = Len(fr) + 1
      /\ \A i \in 1 .. Len(fr) : r[i] = fr[i]
      /\ r[Len(fr) + 1] = x
  BY <1>2, AppendProperties, LenProperties
<1>4. r # <<>>
  BY <1>3, EmptySeq
<1> HIDE DEF r
<1>5. Called(r) = x.fn
  BY <1>3, <1>4 DEF Called
<1>6. IsSequence(r)
  BY <1>3 DEF IsSequence
<1>7. Calling(r, fr, x)
  BY <1>3, <1>4, <1>5, <1>6 DEF Calling
<1> QED BY <1>7 DEF r

\* Removing one.
LEMMA Popped ==
  ASSUME NEW fr, IsSequence(fr), fr # <<>>
  PROVE  Returning(Front(fr), fr)
<1>1. PICK S : fr \in Seq(S)
  BY DEF IsSequence
<1>2. Len(fr) \in Nat \ {0}
  BY <1>1, EmptySeq, LenProperties
<1>3. \A i \in 1 .. Len(fr) - 1 : fr[i] \in S
  BY <1>1, <1>2, ElementOfSeq
<1>4. /\ Front(fr) \in Seq(S)
      /\ Len(Front(fr)) = Len(fr) - 1
      /\ \A i \in 1 .. Len(fr) - 1 : Front(fr)[i] = fr[i]
  <2> DEFINE n == Len(fr) - 1
  <2>0. n \in Nat
    BY <1>2
  <2>2. \A i \in 1 .. n : fr[i] \in S
    BY <1>3
  <2> HIDE DEF n
  <2>1. n \in Nat /\ 1 \in Int /\ n - 1 + 1 = n /\ (1 <= n \/ n = 0)
    BY <2>0
  <2>3. /\ SubSeq(fr, 1, n) \in Seq(S)
        /\ Len(SubSeq(fr, 1, n)) = IF 1 <= n THEN n - 1 + 1 ELSE 0
        /\ \A i \in 1 .. n - 1 + 1 : SubSeq(fr, 1, n)[i] = fr[1 + i - 1]
    BY <2>1, <2>2, SubSeqProperties
  <2>4. /\ Len(SubSeq(fr, 1, n)) = n
        /\ \A i \in 1 .. n : SubSeq(fr, 1, n)[i] = fr[i]
    BY <2>1, <2>3
  <2> QED BY <2>3, <2>4 DEF Front, n
<1>5. Len(fr) = 1 => Front(fr) = <<>>
  BY SubSeqEmpty DEF Front
<1>6. IsSequence(Front(fr))
  BY <1>4 DEF IsSequence
<1> QED BY <1>2, <1>4, <1>5, <1>6 DEF Returning

\* The last frame is replaced.
LEMMA Replaced ==
  ASSUME NEW fr, IsSequence(fr), fr # <<>>, NEW x
  PROVE  Going(Append(Front(fr), x), fr, x)
<1> DEFINE f == Front(fr)
           r == Append(f, x)
<1>1. Returning(f, fr)
  BY Popped
<1> HIDE DEF f
<1>2. Calling(r, f, x)
  <2>1. IsSequence(f)
    BY <1>1 DEF Returning
  <2> QED BY <2>1, Pushed
<1> HIDE DEF r
<1>3. Going(r, fr, x)
  BY <1>1, <1>2 DEF Returning, Calling, Going
<1> QED BY <1>3 DEF r, f

\* The last frame is removed and the one below is replaced.
LEMMA Returned ==
  ASSUME NEW fr, IsSequence(fr), Len(fr) > 1, NEW x
  PROVE  Answering(Append(Front(Front(fr)), x), fr, x)
<1> DEFINE f == Front(fr)
           r == Append(Front(f), x)
<1>0. fr # <<>> /\ Len(fr) \in Nat
  BY EmptySeq, LenProperties DEF IsSequence
<1>1. Returning(f, fr)
  BY <1>0, Popped
<1> HIDE DEF f
<1>2. Going(r, f, x)
  <2>1. IsSequence(f) /\ f # <<>>
    BY <1>0, <1>1, EmptySeq DEF Returning
  <2> QED BY <2>1, Replaced
<1> HIDE DEF r
<1>3. Answering(r, fr, x)
  BY <1>0, <1>1, <1>2 DEF Returning, Going, Answering
<1> QED BY <1>3 DEF r, f

\* Nothing is called and nothing returns.
LEMMA NestSkip ==
  ASSUME NEW fr, NEW p, NEW g, NEW h, Nest(fr, p, g, h),
         NEW g2 \in Nat, g2 >= g \/ Called(fr) \in {"none", "parse"},
         NEW h2, Called(fr) = "parseArg" => h2 \in {"Argument", "RightArg", "Error"}
  PROVE  Nest(fr, p, g2, h2)
<1>1. Len(fr) \in Nat /\ p \in Nat /\ g \in Nat
  BY NestFacts
<1>2. Called(fr) \in {"none", "parse"} => Len(fr) <= p
  <2>1. Called(fr) \notin {"parseArg", "parseGetter", "parseJoiner"} => Len(fr) <= p
    BY <1>1 DEF Nest
  <2> QED BY <2>1
<1>3. Called(fr) = "parseArg" => Len(fr) <= p + g2 + 1
  BY <1>1, <1>2 DEF Nest
<1>4. Called(fr) # "parseArg" => Len(fr) <= p + g2
  BY <1>1, <1>2 DEF Nest
<1> QED BY <1>1, <1>3, <1>4 DEF Nest

\* A promise opens: no getter is open then.
LEMMA NestPromise ==
  ASSUME NEW fr, NEW p, NEW h, Nest(fr, p, 0, h), Called(fr) # "parseArg",
         NEW x, x.fn = "parse", NEW h2
  PROVE  Nest(Append(fr, x), p + 1, 0, h2)
<1> DEFINE r == Append(fr, x)
<1>1. Len(fr) \in Nat /\ p \in Nat /\ Len(fr) = p
  <2>1. Len(fr) \in Nat /\ p \in Nat
    BY NestFacts
  <2> QED BY <2>1 DEF Nest
<1>2. /\ IsSequence(r)
      /\ Len(r) = p + 1 /\ \A i \in 1 .. p : r[i] = fr[i]
      /\ r[p + 1] = x /\ Called(r) = "parse"
  <2>1. Calling(r, fr, x)
    BY Pushed DEF Nest
  <2> HIDE DEF r
  <2> QED BY <1>1, <2>1 DEF Calling
<1>3. \A i \in 1 .. p + 1 : r[i].fn = "parse"
  <2> TAKE i \in 1 .. p + 1
  <2>1. CASE i = p + 1
    BY <1>2, <2>1
  <2>2. CASE i # p + 1
    <3>1. i \in 1 .. p
      BY <1>1, <2>2
    <3> QED BY <1>2, <3>1 DEF Nest
  <2> QED BY <2>1, <2>2
<1> HIDE DEF r
<1>4. p + 1 \in Nat /\ p + 1 >= 1 /\ 0 \in Nat /\ p + 1 <= p + 1 + 0
      /\ p + 2 .. p = {}
  BY <1>1
<1>5. \A i \in p + 1 + 1 .. Len(r) - 1 : r[i].fn = "parseJoiner"
  BY <1>1, <1>2
<1>6. Nest(r, p + 1, 0, h2)
  BY <1>2, <1>3, <1>4, <1>5 DEF Nest
<1> QED BY <1>6 DEF r

\* An argument or a getter begins.
LEMMA NestItem ==
  ASSUME NEW fr, NEW p, NEW g, NEW h, Nest(fr, p, g, h),
         Called(fr) \in {"parse", "parseJoiner"},
         NEW x, NEW g2 \in Nat, NEW h2,
         \/ x.fn = "parseArg" /\ g2 = g /\ h2 \in {"Argument", "RightArg", "Error"}
         \/ x.fn = "parseGetter" /\ g2 = g + 1
  PROVE  Nest(Append(fr, x), p, g2, h2)
<1> DEFINE r == Append(fr, x)
           n == Len(fr)
<1>1. n \in Nat /\ p \in Nat /\ g \in Nat /\ p <= n /\ p >= 1 /\ n <= p + g
  <2>1. n \in Nat /\ p \in Nat /\ g \in Nat /\ p >= 1
    BY NestFacts
  <2> QED BY <2>1 DEF Nest
<1>2. /\ IsSequence(r)
      /\ r # <<>> /\ Len(r) = n + 1 /\ \A i \in 1 .. n : r[i] = fr[i]
      /\ Called(r) = x.fn
  <2>1. Calling(r, fr, x)
    BY Pushed DEF Nest
  <2> HIDE DEF r
  <2> QED BY <1>1, <2>1 DEF Calling
<1>3. \A i \in p + 1 .. n : fr[i].fn = "parseJoiner"
  <2> TAKE i \in p + 1 .. n
  <2>1. CASE i = n
    <3>1. p < n
      BY <1>1, <2>1
    <3>2. fr # <<>> /\ Called(fr) # "parse"
      BY <3>1, NestFacts
    <3>3. fr[n].fn = "parseJoiner"
      BY <3>2 DEF Called
    <3> QED BY <2>1, <3>3
  <2>2. CASE i # n
    <3>1. i \in p + 1 .. n - 1
      BY <1>1, <2>2
    <3> QED BY <3>1 DEF Nest
  <2> QED BY <2>1, <2>2
<1>4. \A i \in 1 .. p : fr[i].fn = "parse"
  BY DEF Nest
<1> HIDE DEF r, n
<1>5. /\ \A i \in 1 .. p : r[i].fn = "parse"
      /\ \A i \in p + 1 .. Len(r) - 1 : r[i].fn = "parseJoiner"
  <2>1. Len(r) - 1 = n
    BY <1>1, <1>2
  <2>2. \A i \in 1 .. p : i \in 1 .. n
    BY <1>1
  <2>3. \A i \in p + 1 .. n : i \in 1 .. n
    BY <1>1
  <2> QED BY <1>2, <1>3, <1>4, <2>1, <2>2, <2>3
<1>6. /\ p <= Len(r)
      /\ Called(r) = "parseArg" => Len(r) <= p + g2 + 1
      /\ Called(r) # "parseArg" => Len(r) <= p + g2
  BY <1>1, <1>2
<1>7. /\ Called(r) \in {"parseArg", "parseGetter", "parseJoiner"}
      /\ Called(r) = "parseArg" => h2 \in {"Argument", "RightArg", "Error"}
  BY <1>2
<1>8. Nest(r, p, g2, h2)
  BY <1>1, <1>2, <1>5, <1>6, <1>7 DEF Nest
<1> QED BY <1>8 DEF r

\* The function called last sets its locals, or a getter becomes a joiner.
LEMMA NestSet ==
  ASSUME NEW fr, NEW p, NEW g, NEW h, Nest(fr, p, g, h), fr # <<>>,
         NEW x,
         \/ x.fn = Called(fr)
         \/ Called(fr) = "parseGetter" /\ x.fn = "parseJoiner",
         NEW h2, Called(fr) = "parseArg" => h2 \in {"Argument", "RightArg", "Error"}
  PROVE  Nest(Append(Front(fr), x), p, g, h2)
<1> DEFINE r == Append(Front(fr), x)
           n == Len(fr)
<1>1. n \in Nat /\ n >= 1 /\ p \in Nat /\ g \in Nat /\ p <= n /\ p >= 1
  <2>1. n \in Nat /\ p \in Nat /\ g \in Nat
    BY NestFacts
  <2>2. p >= 1 /\ p <= n
    BY DEF Nest
  <2> QED BY <2>1, <2>2
<1>2. /\ IsSequence(r)
      /\ r # <<>> /\ Len(r) = n /\ \A i \in 1 .. n - 1 : r[i] = fr[i]
      /\ r[n] = x /\ Called(r) = x.fn
  <2>1. Going(r, fr, x)
    <3>1. IsSequence(fr) /\ fr # <<>>
      BY <1>1, EmptySeq DEF Nest
    <3> QED BY <3>1, Replaced
  <2> HIDE DEF r
  <2> QED BY <2>1 DEF Going
<1>3. /\ \A i \in 1 .. p : fr[i].fn = "parse"
      /\ \A i \in p + 1 .. n - 1 : fr[i].fn = "parseJoiner"
      /\ Called(fr) = fr[n].fn
  BY DEF Nest, Called
<1>4. p = n => x.fn = "parse"
  <2>1. p = n => fr[n].fn = "parse"
    BY <1>1, <1>3
  <2> QED BY <1>3, <2>1
<1>5. /\ p < n => Called(fr) \in {"parseArg", "parseGetter", "parseJoiner"}
      /\ Called(fr) = "parseArg" => n <= p + g + 1
      /\ Called(fr) # "parseArg" => n <= p + g
  BY DEF Nest
<1> HIDE DEF r, n
<1>6. \A i \in 1 .. p : r[i].fn = "parse"
  <2> TAKE i \in 1 .. p
  <2>1. CASE i = n
    <3>1. p = n
      BY <1>1, <2>1
    <3> QED BY <1>2, <1>4, <2>1, <3>1
  <2>2. CASE i # n
    <3>1. i \in 1 .. n - 1
      BY <1>1, <2>2
    <3> QED BY <1>2, <1>3, <3>1
  <2> QED BY <2>1, <2>2
<1>7. \A i \in p + 1 .. n - 1 : r[i].fn = "parseJoiner"
  <2>1. \A i \in p + 1 .. n - 1 : i \in 1 .. n - 1
    BY <1>1
  <2> QED BY <1>2, <1>3, <2>1
<1>8. /\ p < n => Called(r) \in {"parseArg", "parseGetter", "parseJoiner"}
      /\ Called(r) = "parseArg" => Called(fr) = "parseArg"
      /\ Called(r) = "parseArg" => n <= p + g + 1
      /\ Called(r) # "parseArg" => n <= p + g
  BY <1>2, <1>5
<1>9. Nest(r, p, g, h2)
  BY <1>1, <1>2, <1>6, <1>7, <1>8 DEF Nest
<1> QED BY <1>9 DEF r

\* An argument, a getter or a promise inside of another ends.
LEMMA NestReturn ==
  ASSUME NEW fr, NEW p, NEW g, NEW h, Nest(fr, p, g, h), Len(fr) > 1,
         NEW x, x.fn = fr[Len(fr) - 1].fn,
         NEW p2 \in Nat, NEW g2 \in Nat,
         \/ Called(fr) = "parseArg" /\ p2 = p /\ g2 = g
         \/ Called(fr) \in {"parseGetter", "parseJoiner"} /\ p2 = p /\ g2 = g - 1
         \/ Called(fr) = "parse" /\ p2 = p - 1 /\ g2 = g,
         NEW h2
  PROVE  Nest(Append(Front(Front(fr)), x), p2, g2, h2)
<1> DEFINE r == Append(Front(Front(fr)), x)
           n == Len(fr)
<1>1. n \in Nat /\ n > 1 /\ p \in Nat /\ g \in Nat /\ p <= n /\ p >= 1
  <2>1. n \in Nat /\ p \in Nat /\ g \in Nat /\ fr # <<>>
    BY NestFacts, EmptySeq
  <2>2. p >= 1 /\ p <= n
    BY <2>1 DEF Nest
  <2> QED BY <2>1, <2>2
<1>2. /\ IsSequence(r)
      /\ r # <<>> /\ Len(r) = n - 1 /\ \A i \in 1 .. n - 2 : r[i] = fr[i]
      /\ r[n - 1] = x /\ Called(r) = x.fn
  <2>1. Answering(r, fr, x)
    BY <1>1, Returned DEF Nest
  <2> HIDE DEF r
  <2> QED BY <2>1 DEF Answering
<1>3. /\ \A i \in 1 .. p : fr[i].fn = "parse"
      /\ \A i \in p + 1 .. n - 1 : fr[i].fn = "parseJoiner"
      /\ Called(fr) = "parseArg" => n <= p + g + 1
      /\ Called(fr) # "parseArg" => n <= p + g
  BY DEF Nest
<1>4. \/ p2 = p /\ p < n
      \/ p2 = p - 1 /\ p = n
  BY NestFacts
<1>5. n - 1 <= p2 + g2
  BY <1>1, <1>3, <1>4
<1> HIDE DEF r, n
<1>6. \A i \in 1 .. n - 1 : r[i].fn = fr[i].fn
  <2> TAKE i \in 1 .. n - 1
  <2>1. CASE i = n - 1
    BY <1>2, <2>1 DEF n
  <2>2. CASE i # n - 1
    <3>1. i \in 1 .. n - 2
      BY <1>1, <2>2
    <3> QED BY <1>2, <3>1
  <2> QED BY <2>1, <2>2
<1>7. p2 <= n - 1 /\ p2 >= 1 /\ n - 1 \in 1 .. n - 1
  BY <1>1, <1>4
<1>8. \A i \in 1 .. p2 : r[i].fn = "parse"
  <2>1. \A i \in 1 .. p2 : i \in 1 .. n - 1 /\ i \in 1 .. p
    BY <1>1, <1>4
  <2> QED BY <1>3, <1>6, <2>1
<1>9. \A i \in p2 + 1 .. n - 1 : r[i].fn = "parseJoiner"
  <2>1. \A i \in p2 + 1 .. n - 1 : i \in 1 .. n - 1 /\ i \in p + 1 .. n - 1
    BY <1>1, <1>4
  <2> QED BY <1>3, <1>6, <2>1
<1>10. Called(r) \in {"parse", "parseJoiner"} /\ (p2 < n - 1 => Called(r) = "parseJoiner")
  <2>0. Called(r) = r[n - 1].fn
    BY <1>2
  <2>1. CASE p2 = n - 1
    <3>1. n - 1 \in 1 .. p2
      BY <1>7, <2>1
    <3> QED BY <1>1, <1>8, <2>0, <2>1, <3>1
  <2>2. CASE p2 # n - 1
    <3>1. n - 1 \in p2 + 1 .. n - 1
      BY <1>1, <1>7, <2>2
    <3> QED BY <1>9, <2>0, <3>1
  <2> QED BY <2>1, <2>2
<1>11. \A i \in p2 + 1 .. Len(r) - 1 : r[i].fn = "parseJoiner"
  <2>1. \A i \in p2 + 1 .. n - 1 - 1 : i \in p2 + 1 .. n - 1
    BY <1>1
  <2> QED BY <1>2, <1>9, <2>1
<1>12. Nest(r, p2, g2, h2)
  BY <1>2, <1>5, <1>7, <1>8, <1>10, <1>11 DEF Nest
<1> QED BY <1>12 DEF r

(***************************************************************************)
(* The parser and its lexer.                                               *)
(***************************************************************************)
Pending == IF tokens = <<>> THEN "none" ELSE Head(tokens).typ

\* The promises and getters of the tokens that have been received.
Promises == IF Pending = "LeftPromise" THEN parenDepth - 1
            ELSE IF Pending = "RightPromise" THEN parenDepth + 1 ELSE parenDepth
Getters  == IF Pending = "LeftGetter" THEN getterDepth - 1
            ELSE IF Pending = "RightGetter" THEN getterDepth + 1 ELSE getterDepth

FilesInv ==
  /\ inputs \in Seq(Seq(Runes)) /\ file \in DOMAIN inputs
  /\ \A i \in DOMAIN inputs : IsText(inputs[i])

\* The bottom of the stack resolves one of the promises of the map.
ResolvesInv ==
  /\ IsSequence(frames)
  /\ \A i \in 1 .. Len(frames) : frames[i].fn \in {"resolve", "resolvePrimary"}
  /\ frames # <<>> =>
       /\ "promise" \in DOMAIN frames[1].local
       /\ \E n \in DOMAIN unresolved : frames[1].local.promise = unresolved[n]

ParserInv ==
  /\ LexerInv /\ FilesInv
  /\ outcome \in {"parsing", "resolving", "ok", "error", "unresolvable", "overflow"}
  /\ Called(frames) \in {"none", "parse", "parseArg", "parseGetter", "parseJoiner",
                         "resolve", "resolvePrimary"}
  /\ \A n \in DOMAIN unresolved : unresolved[n].name = n
  /\ resolved \subseteq DOMAIN unresolved
  /\ outcome = "parsing" => Nest(frames, Promises, Getters, Pending)
  /\ outcome = "resolving" => ResolvesInv

\* A lexer that has just been made.
LEMMA NewLexer ==
  ASSUME Lexing(input), IsText(input)
  PROVE  LexerInv /\ Promises = 0 /\ Getters = 0 /\ Pending = "none"
<1>1. Len(input) \in Nat
  BY RuneFacts
<1>2. Depth(state, pos, parenDepth, getterDepth) /\ Place(state, start, pos)
  BY DEF Lexing, Depth, Place
<1>3. Queue(tokens, parenDepth, getterDepth) /\ tokens \in Seq(Token) /\ DOMAIN tokens = {}
  BY QueueEmpty, EmptySeq DEF Lexing
<1>4. LexerTypeOK
  BY <1>1, <1>3 DEF Lexing, LexerTypeOK
<1> QED BY <1>2, <1>3, <1>4 DEF LexerInv, Lexing, Promises, Getters, Pending

LEMMA InitParser == Init => ParserInv
<1> SUFFICES ASSUME Init PROVE ParserInv
  OBVIOUS
<1>1. PICK files \in Inputs : inputs = files /\ Lexing(files[1])
  BY DEF Init
<1>2. /\ inputs \in Seq(Seq(Runes)) /\ 1 \in DOMAIN inputs
      /\ \A i \in DOMAIN inputs : IsText(inputs[i])
  <2>1. /\ files \in Seq(Seq(Runes)) /\ files # <<>>
        /\ \A i \in DOMAIN files : IsText(files[i])
    BY ParserAssumption
  <2>2. Len(files) \in Nat \ {0} /\ DOMAIN files = 1 .. Len(files)
    BY <2>1, EmptySeq, LenProperties
  <2> QED BY <1>1, <2>1, <2>2
<1>3. FilesInv /\ IsText(input) /\ Lexing(input)
  BY <1>1, <1>2 DEF Init, FilesInv, Lexing
<1>4. Nest(<<>>, 0, 0, "none") /\ Called(<<>>) = "none"
  <2>1. IsSequence(<<>>) /\ Len(<<>>) = 0
    BY EmptySeq DEF IsSequence
  <2> QED BY <2>1 DEF Nest, Called
<1> QED BY <1>3, <1>4, NewLexer DEF Init, ParserInv

\* The first of the tokens that are sent.
LEMMA PendingTok ==
  ASSUME NEW typ, NEW f, NEW t, NEW u, NEW v,
         \/ tokens' = <<Tok(typ, f, t)>>
         \/ tokens' = <<Tok(typ, f, t), u>>
         \/ tokens' = <<Tok(typ, f, t), u, v>>
  PROVE  Pending' = typ
BY DEF Pending, Tok

LEMMA PendingNone ==
  ASSUME tokens' = <<>>
  PROVE  Pending' = "none"
BY DEF Pending

\* A state function changes a depth and sends the token that accounts for it.
LEMMA RunDepths ==
  ASSUME run, parenDepth \in Nat, getterDepth \in Nat
  PROVE  Promises' = parenDepth /\ Getters' = getterDepth /\ tokens = <<>>
<1> DEFINE Neither == {"LeftPromise", "RightPromise", "LeftGetter", "RightGetter"}
<1>1. ASSUME UNCHANGED <<parenDepth, getterDepth>>, Pending' \notin Neither
      PROVE  Promises' = parenDepth /\ Getters' = getterDepth
  BY <1>1 DEF Promises, Getters
<1>2. CASE lexComment
  <2>1. Pending' \in {"EOF", "none", "Comment"}
    BY <1>2, PendingTok, PendingNone DEF lexComment, Sends
  <2> QED BY <1>1, <1>2, <2>1 DEF lexComment, Runs
<1>3. CASE lexPromiseOpening
  <2>1. Pending' = "LeftPromise"
    BY <1>3, PendingTok DEF lexPromiseOpening, Sends
  <2> QED BY <1>3, <2>1 DEF lexPromiseOpening, Runs, Promises, Getters
<1>4. CASE lexPromiseName
  <2>0. tokens = <<>>
    BY <1>4 DEF lexPromiseName, Runs
  <2>1. Pending' \in {"Error", "PromiseName", "none"}
    BY <1>4, <2>0, PendingTok, PendingNone DEF lexPromiseName, Sends, errorf
  <2> QED BY <1>1, <1>4, <2>0, <2>1 DEF lexPromiseName
<1>5. CASE lexInsidePromise
  <2>1. Pending' \in {"Error", "none"}
    BY <1>5, PendingTok, PendingNone DEF lexInsidePromise, Sends, errorf
  <2> QED BY <1>1, <1>5, <2>1 DEF lexInsidePromise, Runs
<1>6. CASE lexPromiseClosing
  <2>1. Pending' = "RightPromise"
    BY <1>6, PendingTok DEF lexPromiseClosing, Sends
  <2> QED BY <1>6, <2>1 DEF lexPromiseClosing, Runs, Promises, Getters
<1>7. CASE lexArgument
  <2>1. Pending' = "LeftArg"
    BY <1>7, PendingTok DEF lexArgument, Sends
  <2> QED BY <1>1, <1>7, <2>1 DEF lexArgument, Runs
<1>8. CASE lexInsideGetter
  <2>1. Pending' \in {"Error", "none"}
    BY <1>8, PendingTok, PendingNone DEF lexInsideGetter, Sends, errorf
  <2> QED BY <1>1, <1>8, <2>1 DEF lexInsideGetter, Runs
<1>9. CASE lexGetterOpening
  <2>1. Pending' = "LeftGetter"
    BY <1>9, PendingTok DEF lexGetterOpening, Sends
  <2> QED BY <1>9, <2>1 DEF lexGetterOpening, Runs, Promises, Getters
<1>10. CASE lexGetterType
  <2>1. Pending' \in {"Error", "GetterType"}
    BY <1>10, PendingTok DEF lexGetterType, Sends, UnclosedGetter
  <2> QED BY <1>1, <1>10, <2>1 DEF lexGetterType, Runs
<1>11. CASE lexGetterValue
  <2>1. Pending' \in {"Error", "GetterValue", "none"}
    BY <1>11, PendingTok, PendingNone DEF lexGetterValue, Sends, UnclosedGetter, errorf
  <2> QED BY <1>1, <1>11, <2>1 DEF lexGetterValue, Runs
<1>12. CASE lexGetterClosing
  <2>1. Pending' = "RightGetter"
    BY <1>12, PendingTok DEF lexGetterClosing, Sends
  <2> QED BY <1>12, <2>1 DEF lexGetterClosing, Runs, Promises, Getters
<1> QED BY <1>2, <1>3, <1>4, <1>5, <1>6, <1>7, <1>8, <1>9, <1>10, <1>11, <1>12 DEF run

\* The lexer goes on: the parser has received what it had.
LEMMA LexesKeeps ==
  ASSUME ParserInv, Lexes
  PROVE  ParserInv'
<1>1. /\ LexerInv' /\ Promises' = parenDepth /\ Getters' = getterDepth
      /\ parenDepth \in Nat /\ getterDepth \in Nat
      /\ tokens = <<>> /\ Pending = "none" /\ Promises = parenDepth /\ Getters = getterDepth
  <2>1. LexerInv /\ run
    BY DEF Lexes, ParserInv
  <2>2. parenDepth \in Nat /\ getterDepth \in Nat
    BY <2>1, LexerFacts
  <2> QED BY <2>1, <2>2, RunKeeps, RunDepths DEF Pending, Promises, Getters
<1>2. /\ UNCHANGED <<inputs, file, frames, unresolved, resolved, outcome>>
  BY DEF Lexes
<1>3. FilesInv' /\ (ResolvesInv => ResolvesInv')
  BY <1>2 DEF ParserInv, FilesInv, IsText, ResolvesInv
<1>4. ASSUME outcome = "parsing" PROVE Nest(frames, Promises', Getters', Pending')
  <2>1. Nest(frames, parenDepth, getterDepth, "none")
    BY <1>1, <1>4 DEF ParserInv
  <2>2. Called(frames) # "parseArg"
    BY <2>1 DEF Nest
  <2> QED BY <1>1, <2>1, <2>2, NestSkip
<1>5. Called(frames)' = Called(frames)
  BY <1>2 DEF Called
<1> QED BY <1>1, <1>2, <1>3, <1>4, <1>5 DEF ParserInv

(***************************************************************************)
(* A token is received.                                                    *)
(***************************************************************************)
LEMMA Received ==
  ASSUME ParserInv, outcome = "parsing", tokens # <<>>, Takes
  PROVE  LET h == Head(tokens).typ
         IN  /\ LexerInv' /\ h \in TokenType
             /\ Promises' = parenDepth /\ Getters' = getterDepth
             /\ parenDepth \in Nat /\ getterDepth \in Nat
             /\ Nest(frames, Promises, Getters, h)
             /\ h \notin {"LeftPromise", "RightPromise"} => Promises = parenDepth
             /\ h = "LeftPromise" => Promises = parenDepth - 1
             /\ h = "RightPromise" => Promises = parenDepth + 1
             /\ h \notin {"LeftGetter", "RightGetter"} => Getters = getterDepth
             /\ h = "LeftGetter" => Getters = getterDepth - 1
             /\ h = "RightGetter" => Getters = getterDepth + 1
             /\ h \in {"LeftPromise", "RightPromise", "EOF"} => getterDepth = 0
             /\ h = "EOF" => parenDepth = 0
             /\ h = "LeftArg" => Pending' \in {"Argument", "Error"}
             /\ h = "Argument" => Pending' = "RightArg"
<1> DEFINE h == Head(tokens).typ
           rest == Tail(tokens)
<1>1. /\ LexerInv /\ Queue(tokens, parenDepth, getterDepth) /\ tokens \in Seq(Token)
      /\ parenDepth \in Nat /\ getterDepth \in Nat
      /\ Place(state, start, pos) /\ Depth(state, pos, parenDepth, getterDepth)
      /\ LexerTypeOK
  BY LexerFacts DEF ParserInv, LexerInv, LexerTypeOK
<1>2. /\ input' = input /\ state' = state /\ start' = start /\ pos' = pos
      /\ parenDepth' = parenDepth /\ getterDepth' = getterDepth
      /\ tokens' = rest
  BY DEF Takes
<1>3. /\ Len(tokens) \in Nat \ {0} /\ DOMAIN tokens = 1 .. Len(tokens)
      /\ rest \in Seq(Token) /\ Len(rest) = Len(tokens) - 1
      /\ DOMAIN rest = 1 .. Len(rest)
      /\ \A i \in 1 .. Len(rest) : rest[i] = tokens[i + 1]
      /\ Head(tokens) = tokens[1] /\ Head(tokens) \in Token
      /\ (rest # <<>> => Head(rest) = rest[1])
      /\ (rest = <<>> <=> Len(rest) = 0)
  <2>1. Len(tokens) \in Nat \ {0} /\ DOMAIN tokens = 1 .. Len(tokens)
    BY <1>1, EmptySeq, LenProperties
  <2>2. /\ Head(tokens) \in Token /\ rest \in Seq(Token) /\ Len(rest) = Len(tokens) - 1
        /\ \A i \in 1 .. Len(rest) : rest[i] = tokens[i + 1]
    BY <1>1, HeadTailProperties
  <2>3. Head(tokens) = tokens[1]
    BY <1>1, <2>1
  <2> HIDE DEF rest
  <2>4. /\ DOMAIN rest = 1 .. Len(rest) /\ Len(rest) \in Nat
        /\ (rest = <<>> <=> Len(rest) = 0)
    BY <2>2, EmptySeq, LenProperties
  <2>5. rest # <<>> => Head(rest) = rest[1]
    BY <2>2, <2>4
  <2> QED BY <2>1, <2>2, <2>3, <2>4, <2>5
<1> HIDE DEF rest
<1>4. Queue(rest, parenDepth, getterDepth)
  <2>1. ASSUME NEW i \in 1 .. Len(rest)
        PROVE  /\ i + 1 \in DOMAIN tokens /\ rest[i] = tokens[i + 1] /\ Len(tokens) # 1
               /\ i + 1 < Len(tokens) => i < Len(rest) /\ rest[i + 1] = tokens[i + 1 + 1]
    BY <1>3, <2>1
  <2>2. ASSUME NEW i \in DOMAIN rest
        PROVE  /\ rest[i].from <= rest[i].to /\ rest[i].to <= Len(input)
               /\ rest[i].typ \notin Brackets
               /\ rest[i].typ = "LeftArg" =>
                    i < Len(rest) /\ rest[i + 1].typ \in {"Argument", "Error"}
               /\ rest[i].typ = "Argument" =>
                    i < Len(rest) /\ rest[i + 1].typ = "RightArg"
    <3> DEFINE j == i + 1
    <3>1. /\ j \in DOMAIN tokens /\ rest[i] = tokens[j] /\ Len(tokens) # 1
          /\ j < Len(tokens) => i < Len(rest) /\ rest[i + 1] = tokens[j + 1]
      BY <1>3, <2>1
    <3> HIDE DEF j
    <3>2. /\ tokens[j].from <= tokens[j].to /\ tokens[j].to <= Len(input)
          /\ tokens[j].typ \in Brackets => Len(tokens) = 1
          /\ tokens[j].typ = "LeftArg" =>
               j < Len(tokens) /\ tokens[j + 1].typ \in {"Argument", "Error"}
          /\ tokens[j].typ = "Argument" =>
               j < Len(tokens) /\ tokens[j + 1].typ = "RightArg"
      BY <1>1, <3>1 DEF Queue
    <3> QED BY <3>1, <3>2
  <2> QED BY <1>3, <2>2 DEF Queue, Brackets
<1>5. LexerInv'
  <2>1. LexerTypeOK'
    <3>1. /\ rest \in Seq(Token)
          /\ \A i \in DOMAIN rest : rest[i].from <= rest[i].to /\ rest[i].to <= Len(input)
      BY <1>4 DEF Queue
    <3>2. IsText(input)'
      BY <1>1, <1>2 DEF LexerTypeOK, IsText
    <3> QED BY <1>1, <1>2, <3>1, <3>2 DEF LexerTypeOK
  <2> QED BY <1>1, <1>2, <1>4, <2>1, SameText DEF LexerInv
<1>6. h = Pending /\ 1 \in DOMAIN tokens /\ h = tokens[1].typ /\ h \in TokenType
  BY <1>3 DEF Pending, Token
<1>7. /\ h \in Brackets => rest = <<>>
      /\ h = "LeftArg" => rest # <<>> /\ rest[1].typ \in {"Argument", "Error"}
      /\ h = "Argument" => rest # <<>> /\ rest[1].typ = "RightArg"
      /\ h \in {"LeftPromise", "RightPromise", "EOF"} => getterDepth = 0
      /\ h = "EOF" => parenDepth = 0
  <2> HIDE DEF h
  <2>1. Len(tokens) > 1 => Len(rest) >= 1 /\ rest[1] = tokens[1 + 1]
    BY <1>3
  <2>2. /\ h \in Brackets => Len(tokens) = 1
        /\ h = "LeftArg" => 1 < Len(tokens) /\ tokens[1 + 1].typ \in {"Argument", "Error"}
        /\ h = "Argument" => 1 < Len(tokens) /\ tokens[1 + 1].typ = "RightArg"
        /\ h \in {"LeftPromise", "RightPromise", "EOF"} => getterDepth = 0
        /\ h = "EOF" => parenDepth = 0
    BY <1>1, <1>6 DEF Queue
  <2> QED BY <1>3, <2>1, <2>2
<1>8. rest # <<>> => rest[1].typ \notin Brackets
  <2>1. rest # <<>> => Len(tokens) # 1 /\ 1 + 1 \in DOMAIN tokens /\ rest[1] = tokens[1 + 1]
    BY <1>3
  <2> QED BY <1>1, <2>1 DEF Queue
<1>9. /\ Pending' = IF rest = <<>> THEN "none" ELSE rest[1].typ
  BY <1>2, <1>3 DEF Pending
<1>10. Promises' = parenDepth /\ Getters' = getterDepth
  BY <1>2, <1>8, <1>9 DEF Promises, Getters, Brackets
<1> HIDE DEF h
<1>11. Nest(frames, Promises, Getters, h)
  BY <1>6 DEF ParserInv
<1>12. /\ h \notin {"LeftPromise", "RightPromise"} => Promises = parenDepth
       /\ h = "LeftPromise" => Promises = parenDepth - 1
       /\ h = "RightPromise" => Promises = parenDepth + 1
       /\ h \notin {"LeftGetter", "RightGetter"} => Getters = getterDepth
       /\ h = "LeftGetter" => Getters = getterDepth - 1
       /\ h = "RightGetter" => Getters = getterDepth + 1
  BY <1>6 DEF Promises, Getters
<1>13. /\ h = "LeftArg" => Pending' \in {"Argument", "Error"}
       /\ h = "Argument" => Pending' = "RightArg"
  BY <1>7, <1>9
<1> QED BY <1>1, <1>5, <1>6, <1>7, <1>10, <1>11, <1>12, <1>13 DEF h

LEMMA GoesOnKeeps ==
  ASSUME ParserInv, outcome = "parsing", tokens # <<>>, GoesOn,
         Nest(frames', parenDepth, getterDepth, Pending')
  PROVE  ParserInv'
<1>1. Takes /\ UNCHANGED <<inputs, file, unresolved, resolved, outcome>>
  BY DEF GoesOn
<1>2. LexerInv' /\ Promises' = parenDepth /\ Getters' = getterDepth
  BY <1>1, Received
<1>3. Called(frames') \in {"none", "parse", "parseArg", "parseGetter", "parseJoiner"}
  BY NestFacts
<1>4. FilesInv'
  BY <1>1 DEF ParserInv, FilesInv, IsText
<1> QED BY <1>1, <1>2, <1>3, <1>4 DEF ParserInv, Called

LEMMA FailsKeeps ==
  ASSUME ParserInv, outcome = "parsing", tokens # <<>>, Fails
  PROVE  ParserInv'
<1>1. /\ Takes /\ UNCHANGED <<inputs, file, frames, unresolved, resolved>>
      /\ outcome' = "error"
  BY DEF Fails
<1>2. LexerInv'
  BY <1>1, Received
<1>3. FilesInv'
  BY <1>1 DEF ParserInv, FilesInv, IsText
<1> QED BY <1>1, <1>2, <1>3 DEF ParserInv, Called

\* What a function that receives a token knows.
LEMMA GetsFacts ==
  ASSUME ParserInv, NEW function, NEW types, Gets(function, types), Takes
  PROVE  LET h == Head(tokens).typ
         IN  /\ outcome = "parsing" /\ tokens # <<>> /\ h \in types
             /\ Called(frames) = function
             /\ parenDepth \in Nat /\ getterDepth \in Nat
             /\ Nest(frames, Promises, Getters, h)
             /\ h \notin {"LeftPromise", "RightPromise"} => Promises = parenDepth
             /\ h = "LeftPromise" => Promises = parenDepth - 1
             /\ h = "RightPromise" => Promises = parenDepth + 1
             /\ h \notin {"LeftGetter", "RightGetter"} => Getters = getterDepth
             /\ h = "LeftGetter" => Getters = getterDepth - 1
             /\ h = "RightGetter" => Getters = getterDepth + 1
             /\ h \in {"LeftPromise", "RightPromise", "EOF"} => getterDepth = 0
             /\ h = "EOF" => parenDepth = 0
             /\ h = "LeftArg" => Pending' \in {"Argument", "Error"}
             /\ h = "Argument" => Pending' = "RightArg"
             /\ Function = Called(frames)
             /\ IsSequence(frames)
<1>1. outcome = "parsing" /\ tokens # <<>> /\ Head(tokens).typ \in types
  BY DEF Gets
<1>2. Function = Called(frames) /\ Function = function
  BY DEF Gets, Function, Last, Called
<1>3. ParserInv /\ Takes
  OBVIOUS
<1>4. Nest(frames, Promises, Getters, Head(tokens).typ)
  BY <1>1, <1>3, Received
<1>5. IsSequence(frames)
  BY <1>4 DEF Nest
<1> QED BY <1>1, <1>2, <1>3, <1>4, <1>5, Received

\* Skipping a token, where it is not a promise that opens or closes.
LEMMA SkipsKeeps ==
  ASSUME ParserInv, NEW function, NEW types, Gets(function, types), Skips,
         function \in {"none", "parse", "parseGetter"},
         types \cap {"LeftPromise", "RightPromise"} = {} \/ function = "parseGetter",
         "RightGetter" \in types => function \in {"none", "parse"}
  PROVE  ParserInv'
<1>1. GoesOn /\ Takes /\ frames' = frames
  BY DEF Skips, GoesOn
<1> DEFINE h == Head(tokens).typ
<1>2. /\ outcome = "parsing" /\ tokens # <<>> /\ h \in types
      /\ Called(frames) = function
      /\ parenDepth \in Nat /\ getterDepth \in Nat
      /\ Nest(frames, Promises, Getters, h)
      /\ h \notin {"LeftPromise", "RightPromise"} => Promises = parenDepth
      /\ h \in {"LeftPromise", "RightPromise"} => getterDepth = 0 /\ Getters = getterDepth
      /\ h \notin {"LeftGetter", "RightGetter"} => Getters = getterDepth
      /\ h = "LeftGetter" => Getters = getterDepth - 1
  BY <1>1, GetsFacts
<1> HIDE DEF h
<1>3. h \notin {"LeftPromise", "RightPromise"}
  <2>1. CASE function = "parseGetter"
    <3> SUFFICES ASSUME h \in {"LeftPromise", "RightPromise"} PROVE FALSE
      OBVIOUS
    <3>1. Nest(frames, Promises, 0, h) /\ Called(frames) = "parseGetter"
      BY <1>2, <2>1
    <3>2. Len(frames) \in Nat /\ Promises \in Nat /\ Promises < Len(frames)
      BY <3>1, NestFacts
    <3>3. Len(frames) <= Promises + 0
      BY <3>1 DEF Nest
    <3> QED BY <3>2, <3>3
  <2>2. CASE types \cap {"LeftPromise", "RightPromise"} = {}
    BY <1>2, <2>2
  <2> QED BY <2>1, <2>2
<1>4. Promises = parenDepth /\ (getterDepth >= Getters \/ Called(frames) \in {"none", "parse"})
  <2>1. CASE h = "RightGetter"
    BY <1>2, <1>3, <2>1
  <2>2. CASE h # "RightGetter"
    BY <1>2, <1>3, <2>2
  <2> QED BY <2>1, <2>2
<1>5. Nest(frames, parenDepth, getterDepth, Pending')
  BY <1>2, <1>4, NestSkip
<1> QED BY <1>1, <1>2, <1>5, GoesOnKeeps

LEMMA EndOfFileKeeps ==
  ASSUME ParserInv, EndOfFile
  PROVE  ParserInv'
<1>0. Gets("none", {"EOF"}) /\ UNCHANGED <<inputs, frames, unresolved, resolved>>
  BY DEF EndOfFile
<1>1. outcome = "parsing" /\ tokens # <<>> /\ frames = <<>> /\ Called(frames) = "none"
  <2>1. outcome = "parsing" /\ tokens # <<>> /\ Called(frames) = "none"
    BY <1>0 DEF Gets, Function, Called, Last
  <2>2. Nest(frames, Promises, Getters, Pending)
    BY <2>1 DEF ParserInv
  <2> QED BY <2>1, <2>2, NestFacts
<1>2. CASE outcome' = "resolving" /\ Takes /\ UNCHANGED file
  <2>1. LexerInv'
    BY <1>1, <1>2, Received
  <2>2. FilesInv'
    BY <1>0, <1>2 DEF ParserInv, FilesInv, IsText
  <2>3. ResolvesInv'
    <3>1. IsSequence(<<>>) /\ Len(<<>>) = 0
      BY EmptySeq DEF IsSequence
    <3> QED BY <1>0, <1>1, <3>1 DEF ResolvesInv
  <2> QED BY <1>0, <1>1, <1>2, <2>1, <2>2, <2>3 DEF ParserInv, Called
<1>3. CASE /\ file < Len(inputs) /\ file' = file + 1 /\ input' = inputs[file + 1]
           /\ state' = "lexComment" /\ start' = 0 /\ pos' = 0
           /\ parenDepth' = 0 /\ getterDepth' = 0 /\ tokens' = <<>>
           /\ UNCHANGED outcome
  <2>1. FilesInv' /\ IsText(inputs[file + 1])
    <3>1. file \in 1 .. Len(inputs) /\ DOMAIN inputs = 1 .. Len(inputs) /\ Len(inputs) \in Nat
      BY LenProperties DEF ParserInv, FilesInv
    <3>2. file + 1 \in DOMAIN inputs
      BY <1>3, <3>1
    <3> QED BY <1>0, <1>3, <3>2 DEF ParserInv, FilesInv, IsText
  <2>2. LexerInv' /\ Promises' = 0 /\ Getters' = 0 /\ Pending' = "none"
    <3>1. Len(input') \in Nat
      BY <1>3, <2>1, LenProperties DEF IsText
    <3>2. Depth(state, pos, parenDepth, getterDepth)' /\ Place(state, start, pos)'
      BY <1>3 DEF Depth, Place
    <3>3. tokens' \in Seq(Token) /\ DOMAIN tokens' = {}
      BY <1>3, EmptySeq
    <3>4. Queue(tokens, parenDepth, getterDepth)'
      BY <3>3 DEF Queue
    <3>5. IsText(input)'
      BY <1>3, <2>1 DEF IsText
    <3>6. LexerTypeOK'
      BY <1>3, <3>1, <3>3, <3>5 DEF LexerTypeOK
    <3> QED BY <1>3, <3>2, <3>4, <3>6 DEF LexerInv, Promises, Getters, Pending
  <2>3. Nest(<<>>, 0, 0, "none")
    <3>1. IsSequence(<<>>) /\ Len(<<>>) = 0
      BY EmptySeq DEF IsSequence
    <3> QED BY <3>1 DEF Nest, Called
  <2>4. outcome' = "parsing" => Nest(frames', Promises', Getters', Pending')
    BY <1>0, <1>1, <2>2, <2>3
  <2> QED BY <1>0, <1>1, <1>3, <2>1, <2>2, <2>4 DEF ParserInv, Called
<1> QED BY <1>2, <1>3 DEF EndOfFile

LEMMA GeneratePromisesKeeps ==
  ASSUME ParserInv, generatePromises
  PROVE  ParserInv'
<1>1. CASE /\ Gets("none", {"LeftPromise"})
           /\ Calls("parse", UnresolvedPromise) /\ GoesOn
  <2>1. Takes
    BY <1>1 DEF GoesOn
  <2>2. /\ outcome = "parsing" /\ tokens # <<>> /\ Called(frames) = "none"
        /\ getterDepth = 0 /\ Promises = parenDepth - 1 /\ Getters = 0
        /\ parenDepth \in Nat /\ Promises + 1 = parenDepth
        /\ Nest(frames, Promises, Getters, Head(tokens).typ)
    BY <1>1, <2>1, GetsFacts
  <2> DEFINE x == Frame("parse", UnresolvedPromise)
  <2>3. x.fn = "parse" /\ frames' = Append(frames, x)
    BY <1>1 DEF Frame, Calls
  <2> HIDE DEF x
  <2>4. Nest(frames', parenDepth, getterDepth, Pending')
    BY <2>2, <2>3, NestPromise
  <2> QED BY <1>1, <2>2, <2>4, GoesOnKeeps
<1>2. CASE /\ Gets("none", TokenType \ {"LeftPromise", "EOF"})
           /\ IF Head(tokens).typ = "Error" THEN Fails ELSE Skips
  <2>0. outcome = "parsing" /\ tokens # <<>>
    BY <1>2 DEF Gets
  <2>1. CASE Fails
    BY <2>0, <2>1, FailsKeeps
  <2>2. CASE Skips
    <3>1. Takes
      BY <2>2 DEF Skips, GoesOn
    <3>2. Head(tokens).typ # "RightPromise"
      <4> SUFFICES ASSUME Head(tokens).typ = "RightPromise" PROVE FALSE
        OBVIOUS
      <4>1. /\ Called(frames) = "none" /\ Promises = parenDepth + 1 /\ parenDepth \in Nat
            /\ Nest(frames, Promises, Getters, Head(tokens).typ)
        BY <1>2, <3>1, GetsFacts
      <4>2. Promises = 0
        BY <4>1, NestFacts
      <4> QED BY <4>1, <4>2
    <3> DEFINE T == TokenType \ {"LeftPromise", "RightPromise", "EOF"}
    <3>3. Gets("none", T) /\ T \cap {"LeftPromise", "RightPromise"} = {}
      BY <1>2, <3>2 DEF Gets
    <3> QED BY <2>2, <3>3, SkipsKeeps
  <2> QED BY <1>2, <2>1, <2>2
<1> QED BY <1>1, <1>2, EndOfFileKeeps DEF generatePromises

\* An argument or a getter begins in a promise or a joiner.
LEMMA ItemKeeps ==
  ASSUME ParserInv, NEW function \in {"parse", "parseJoiner"}, NEW local, GoesOn,
         \/ Gets(function, {"LeftArg"}) /\ Calls("parseArg", local)
         \/ Gets(function, {"LeftGetter"}) /\ Calls("parseGetter", local)
  PROVE  ParserInv'
<1>0. Takes
  BY DEF GoesOn
<1>1. CASE Gets(function, {"LeftArg"}) /\ Calls("parseArg", local)
  <2>1. /\ outcome = "parsing" /\ tokens # <<>> /\ Called(frames) = function
        /\ parenDepth \in Nat /\ getterDepth \in Nat
        /\ Promises = parenDepth /\ Getters = getterDepth
        /\ Nest(frames, Promises, Getters, Head(tokens).typ)
        /\ Pending' \in {"Argument", "Error"}
    BY <1>0, <1>1, GetsFacts
  <2> DEFINE x == Frame("parseArg", local)
  <2>2. x.fn = "parseArg" /\ frames' = Append(frames, x)
    BY <1>1 DEF Frame, Calls
  <2> HIDE DEF x
  <2>3. Nest(frames', parenDepth, getterDepth, Pending')
    BY <2>1, <2>2, NestItem
  <2> QED BY <2>1, <2>3, GoesOnKeeps
<1>2. CASE Gets(function, {"LeftGetter"}) /\ Calls("parseGetter", local)
  <2>1. /\ outcome = "parsing" /\ tokens # <<>> /\ Called(frames) = function
        /\ parenDepth \in Nat /\ getterDepth \in Nat
        /\ Promises = parenDepth /\ Getters + 1 = getterDepth
        /\ Nest(frames, Promises, Getters, Head(tokens).typ)
    BY <1>0, <1>2, GetsFacts
  <2> DEFINE x == Frame("parseGetter", local)
  <2>2. x.fn = "parseGetter" /\ frames' = Append(frames, x)
    BY <1>2 DEF Frame, Calls
  <2> HIDE DEF x
  <2>3. Nest(frames', parenDepth, getterDepth, Pending')
    BY <2>1, <2>2, NestItem
  <2> QED BY <2>1, <2>3, GoesOnKeeps
<1> QED BY <1>1, <1>2

\* A function sets its locals.
LEMMA SetsKeeps ==
  ASSUME ParserInv, NEW function, NEW typ \in {"PromiseName", "Argument", "GetterType", "GetterValue"},
         Gets(function, {typ}), GoesOn, function # "none",
         function = "parseArg" => typ = "Argument",
         NEW local, Sets(local) \/ (function = "parseGetter" /\ frames' = JoinFrame(local))
  PROVE  ParserInv'
<1>0. Takes
  BY DEF GoesOn
<1>1. /\ outcome = "parsing" /\ tokens # <<>> /\ Called(frames) = function
      /\ parenDepth \in Nat /\ getterDepth \in Nat /\ Head(tokens).typ = typ
      /\ Promises = parenDepth /\ Getters = getterDepth
      /\ Nest(frames, Promises, Getters, Head(tokens).typ)
      /\ typ = "Argument" => Pending' = "RightArg"
      /\ Function = Called(frames)
  BY <1>0, GetsFacts
<1>2. frames # <<>>
  BY <1>1 DEF Called
<1>3. PICK x : /\ frames' = Append(Front(frames), x)
               /\ \/ x.fn = Called(frames)
                  \/ Called(frames) = "parseGetter" /\ x.fn = "parseJoiner"
  <2>1. CASE Sets(local)
    <3> DEFINE x == Frame(Function, local)
    <3>1. frames' = Append(Front(frames), x) /\ x.fn = Called(frames)
      BY <1>1, <2>1 DEF Sets, Frame
    <3> QED BY <3>1
  <2>2. CASE function = "parseGetter" /\ frames' = JoinFrame(local)
    <3> DEFINE x == Frame("parseJoiner", local)
    <3>1. frames' = Append(Front(frames), x) /\ x.fn = "parseJoiner"
      BY <2>2 DEF JoinFrame, Frame
    <3> QED BY <1>1, <2>2, <3>1
  <2> QED BY <2>1, <2>2
<1>4. Nest(frames', parenDepth, getterDepth, Pending')
  BY <1>1, <1>2, <1>3, NestSet
<1> QED BY <1>1, <1>4, GoesOnKeeps

\* An argument or a getter ends: the caller goes on.
LEMMA ReturnsKeeps ==
  ASSUME ParserInv, GoesOn, NEW local, Returns(local),
         \/ Gets("parseArg", {"RightArg"})
         \/ Gets("parseGetter", {"RightGetter"})
         \/ Gets("parseJoiner", {"RightGetter"})
         \/ Gets("parse", {"RightPromise", "EOF"}) /\ Len(frames) > 1
  PROVE  ParserInv'
<1>0. Takes
  BY DEF GoesOn
<1> DEFINE x == Frame(Caller.fn, local)
<1>1. x.fn = frames[Len(frames) - 1].fn /\ frames' = Append(Front(Front(frames)), x)
  BY DEF Frame, Returns, Caller
<1> HIDE DEF x
<1>2. CASE Gets("parseArg", {"RightArg"})
  <2>1. /\ outcome = "parsing" /\ tokens # <<>> /\ Called(frames) = "parseArg"
        /\ parenDepth \in Nat /\ getterDepth \in Nat
        /\ Promises = parenDepth /\ Getters = getterDepth
        /\ Nest(frames, parenDepth, getterDepth, Head(tokens).typ)
    BY <1>0, <1>2, GetsFacts
  <2>2. Len(frames) > 1
    <3>1. Len(frames) \in Nat /\ parenDepth < Len(frames) /\ parenDepth >= 1
      BY <2>1, NestFacts
    <3> QED BY <2>1, <3>1
  <2>3. Nest(frames', parenDepth, getterDepth, Pending')
    BY <1>1, <2>1, <2>2, NestReturn
  <2> QED BY <2>1, <2>3, GoesOnKeeps
<1>3. CASE Gets("parseGetter", {"RightGetter"}) \/ Gets("parseJoiner", {"RightGetter"})
  <2>1. /\ outcome = "parsing" /\ tokens # <<>>
        /\ Called(frames) \in {"parseGetter", "parseJoiner"}
        /\ parenDepth \in Nat /\ getterDepth \in Nat
        /\ Promises = parenDepth /\ Getters = getterDepth + 1
        /\ Nest(frames, parenDepth, Getters, Head(tokens).typ)
        /\ getterDepth = Getters - 1
    <3>1. ASSUME NEW function \in {"parseGetter", "parseJoiner"},
                 Gets(function, {"RightGetter"})
          PROVE  /\ outcome = "parsing" /\ tokens # <<>> /\ Called(frames) = function
                 /\ parenDepth \in Nat /\ getterDepth \in Nat
                 /\ Promises = parenDepth /\ Getters = getterDepth + 1
                 /\ Nest(frames, Promises, Getters, Head(tokens).typ)
      BY <1>0, <3>1, GetsFacts
    <3> QED BY <1>3, <3>1
  <2>2. Len(frames) > 1
    <3>1. Len(frames) \in Nat /\ parenDepth < Len(frames) /\ parenDepth >= 1
      BY <2>1, NestFacts
    <3> QED BY <2>1, <3>1
  <2>3. Nest(frames', parenDepth, getterDepth, Pending')
    BY <1>1, <2>1, <2>2, NestReturn
  <2> QED BY <2>1, <2>3, GoesOnKeeps
<1>4. CASE Gets("parse", {"RightPromise", "EOF"}) /\ Len(frames) > 1
  <2>1. /\ outcome = "parsing" /\ tokens # <<>> /\ Called(frames) = "parse"
        /\ parenDepth \in Nat /\ getterDepth \in Nat
        /\ Head(tokens).typ \in {"RightPromise", "EOF"}
        /\ Head(tokens).typ = "EOF" => Promises = parenDepth /\ parenDepth = 0
        /\ Head(tokens).typ = "RightPromise" => Promises = parenDepth + 1
        /\ Getters = getterDepth
        /\ Nest(frames, Promises, Getters, Head(tokens).typ)
    BY <1>0, <1>4, GetsFacts
  <2>2. Promises \in Nat /\ Promises >= 1
    BY <2>1, NestFacts
  <2>3. parenDepth = Promises - 1
    BY <2>1, <2>2
  <2>4. Nest(frames', parenDepth, getterDepth, Pending')
    BY <1>1, <1>4, <2>1, <2>3, NestReturn
  <2> QED BY <2>1, <2>4, GoesOnKeeps
<1> QED BY <1>2, <1>3, <1>4

\* A promise of the file ends.
LEMMA ParseTopKeeps ==
  ASSUME ParserInv, parse_Top
  PROVE  ParserInv'
<1>0. /\ Takes /\ frames' = <<>> /\ UNCHANGED <<inputs, file, resolved>>
      /\ Gets("parse", {"RightPromise", "EOF"}) /\ Len(frames) = 1
  BY DEF parse_Top
<1>1. /\ outcome = "parsing" /\ tokens # <<>> /\ Called(frames) = "parse"
      /\ parenDepth \in Nat /\ getterDepth \in Nat
      /\ Head(tokens).typ \in {"RightPromise", "EOF"}
      /\ Head(tokens).typ = "EOF" => Promises = parenDepth /\ parenDepth = 0
      /\ Head(tokens).typ = "RightPromise" => Promises = parenDepth + 1
      /\ getterDepth = 0
      /\ Nest(frames, Promises, Getters, Head(tokens).typ)
  BY <1>0, GetsFacts
<1>2. parenDepth = 0
  <2>1. Len(frames) \in Nat /\ Promises \in Nat /\ Len(frames) = Promises
    BY <1>1, NestFacts
  <2>2. Promises = 1
    BY <1>0, <2>1
  <2>3. CASE Head(tokens).typ = "EOF"
    BY <1>1, <2>2, <2>3
  <2>4. CASE Head(tokens).typ = "RightPromise"
    BY <1>1, <2>2, <2>4
  <2> QED BY <1>1, <2>3, <2>4
<1>3. Nest(<<>>, 0, 0, Pending') /\ Called(<<>>) = "none"
  <2>1. IsSequence(<<>>) /\ Len(<<>>) = 0
    BY EmptySeq DEF IsSequence
  <2> QED BY <2>1 DEF Nest, Called
<1>4. /\ LexerInv' /\ Promises' = 0 /\ Getters' = 0
  BY <1>0, <1>1, <1>2, Received
<1>5. FilesInv'
  BY <1>0 DEF ParserInv, FilesInv, IsText
<1>6. /\ \A n \in DOMAIN unresolved' : unresolved'[n].name = n
      /\ resolved' \subseteq DOMAIN unresolved'
  <2>1. /\ \A n \in DOMAIN unresolved : unresolved[n].name = n
        /\ resolved \subseteq DOMAIN unresolved /\ resolved' = resolved
    BY <1>0 DEF ParserInv
  <2>2. CASE UNCHANGED unresolved
    BY <2>1, <2>2
  <2>3. CASE unresolved' = [n \in DOMAIN unresolved \cup {Local.name} |->
                            IF n = Local.name THEN Local ELSE unresolved[n]]
    BY <2>1, <2>3
  <2> QED BY <2>2, <2>3 DEF parse_Top
<1>7. outcome' \in {"parsing", "error"}
  BY <1>1 DEF parse_Top
<1>8. frames' = <<>> /\ Called(frames)' = "none" /\ Nest(frames', Promises', Getters', Pending')
  BY <1>0, <1>3, <1>4 DEF Called
<1> QED BY <1>4, <1>5, <1>6, <1>7, <1>8 DEF ParserInv

LEMMA ParseKeeps ==
  ASSUME ParserInv, parse
  PROVE  ParserInv'
<1>1. CASE parse_Nested
  BY <1>1, ReturnsKeeps DEF parse_Nested
<1>2. CASE parse_Top
  BY <1>2, ParseTopKeeps
<1>3. CASE Gets("parse", {"Error"}) /\ Fails
  BY <1>3, FailsKeeps DEF Gets
<1>4. CASE Gets("parse", {"LeftPromise"}) /\ Calls("parse", UnresolvedPromise) /\ GoesOn
  <2>1. Takes
    BY <1>4 DEF GoesOn
  <2>2. /\ outcome = "parsing" /\ tokens # <<>> /\ Called(frames) = "parse"
        /\ getterDepth = 0 /\ Promises = parenDepth - 1 /\ Getters = 0
        /\ parenDepth \in Nat /\ Promises + 1 = parenDepth
        /\ Nest(frames, Promises, Getters, Head(tokens).typ)
    BY <1>4, <2>1, GetsFacts
  <2> DEFINE x == Frame("parse", UnresolvedPromise)
  <2>3. x.fn = "parse" /\ frames' = Append(frames, x)
    BY <1>4 DEF Frame, Calls
  <2> HIDE DEF x
  <2>4. Nest(frames', parenDepth, getterDepth, Pending')
    BY <2>2, <2>3, NestPromise
  <2> QED BY <1>4, <2>2, <2>4, GoesOnKeeps
<1>5. CASE Gets("parse", {"PromiseName"}) /\ Sets([Local EXCEPT !.name = Val]) /\ GoesOn
  BY <1>5, SetsKeeps
<1>6. CASE Gets("parse", {"LeftArg"}) /\ Calls("parseArg", Constant(<<>>)) /\ GoesOn
  BY <1>6, ItemKeeps
<1>7. CASE /\ Gets("parse", {"LeftGetter"})
           /\ Calls("parseGetter", [typ |-> <<>>, getter |-> Nil]) /\ GoesOn
  BY <1>7, ItemKeeps
<1>8. CASE /\ Gets("parse", TokenType \ {"RightPromise", "EOF", "Error",
                  "LeftPromise", "PromiseName", "LeftArg", "LeftGetter"})
           /\ Skips
  BY <1>8, SkipsKeeps
<1> QED BY <1>1, <1>2, <1>3, <1>4, <1>5, <1>6, <1>7, <1>8 DEF parse

LEMMA ParseArgKeeps ==
  ASSUME ParserInv, parseArg
  PROVE  ParserInv'
<1>1. CASE Gets("parseArg", {"Argument"}) /\ Sets(Constant(Val)) /\ GoesOn
  BY <1>1, SetsKeeps
<1>2. CASE Gets("parseArg", {"RightArg"}) /\ Returns(KeepArg(Local)) /\ GoesOn
  BY <1>2, ReturnsKeeps
<1>3. CASE Gets("parseArg", TokenType \ {"Argument", "RightArg"}) /\ Fails
  BY <1>3, FailsKeeps DEF Gets
<1> QED BY <1>1, <1>2, <1>3 DEF parseArg

LEMMA ParseGetterKeeps ==
  ASSUME ParserInv, parseGetter
  PROVE  ParserInv'
<1>1. CASE Gets("parseGetter", {"Error"}) /\ Fails
  BY <1>1, FailsKeeps DEF Gets
<1>2. CASE /\ Gets("parseGetter", {"GetterType"})
           /\ IF Val = Join
              THEN frames' = JoinFrame(<<>>)
              ELSE Sets([Local EXCEPT !.typ = Val])
           /\ GoesOn
  BY <1>2, SetsKeeps
<1>3. CASE /\ Gets("parseGetter", {"GetterValue"})
           /\ Sets([Local EXCEPT !.getter = Getter(Local.typ, Val)])
           /\ GoesOn
  BY <1>3, SetsKeeps
<1>4. CASE Gets("parseGetter", {"GetterValue"}) /\ Fails
  BY <1>4, FailsKeeps DEF Gets
<1>5. CASE Gets("parseGetter", {"RightGetter"}) /\ Returns(KeepArg(Local.getter)) /\ GoesOn
  BY <1>5, ReturnsKeeps
<1>6. CASE /\ Gets("parseGetter", TokenType \
                  {"Error", "GetterType", "GetterValue", "RightGetter"})
           /\ Skips
  BY <1>6, SkipsKeeps
<1> QED BY <1>1, <1>2, <1>3, <1>4, <1>5, <1>6 DEF parseGetter

LEMMA ParseJoinerKeeps ==
  ASSUME ParserInv, parseJoiner
  PROVE  ParserInv'
<1>1. CASE Gets("parseJoiner", {"LeftArg"}) /\ Calls("parseArg", Constant(<<>>)) /\ GoesOn
  BY <1>1, ItemKeeps
<1>2. CASE /\ Gets("parseJoiner", {"LeftGetter"})
           /\ Calls("parseGetter", [typ |-> <<>>, getter |-> Nil]) /\ GoesOn
  BY <1>2, ItemKeeps
<1>3. CASE /\ Gets("parseJoiner", {"RightGetter"})
           /\ Returns(KeepArg(JoinArgument(Local))) /\ GoesOn
  BY <1>3, ReturnsKeeps
<1>4. CASE /\ Gets("parseJoiner", TokenType \ {"LeftArg", "LeftGetter", "RightGetter"})
           /\ Fails
  BY <1>4, FailsKeeps DEF Gets
<1> QED BY <1>1, <1>2, <1>3, <1>4 DEF parseJoiner

(***************************************************************************)
(* Resolving.                                                              *)
(***************************************************************************)

\* What stays when the parser does not receive.
LEMMA LexerStays ==
  ASSUME ParserInv, UNCHANGED <<lexer, inputs, file, unresolved>>
  PROVE  /\ LexerInv' /\ FilesInv'
         /\ \A n \in DOMAIN unresolved' : unresolved'[n].name = n
<1>1. /\ input' = input /\ state' = state /\ start' = start /\ pos' = pos
      /\ parenDepth' = parenDepth /\ getterDepth' = getterDepth /\ tokens' = tokens
      /\ inputs' = inputs /\ file' = file /\ unresolved' = unresolved
  BY DEF lexer
<1>2. LexerInv
  BY DEF ParserInv
<1>3. LexerTypeOK'
  BY <1>1, <1>2 DEF LexerInv, LexerTypeOK, IsText
<1>4. LexerInv'
  BY <1>1, <1>2, <1>3, SameText DEF LexerInv
<1>5. FilesInv'
  BY <1>1 DEF ParserInv, FilesInv, IsText
<1> QED BY <1>1, <1>4, <1>5 DEF ParserInv

\* Every return and every change of the stack that keeps its bottom.
LEMMA ResolvesKeeps ==
  ASSUME ParserInv, outcome = "resolving", UNCHANGED <<lexer, inputs, file, unresolved>>,
         resolved' \subseteq DOMAIN unresolved, resolved \subseteq resolved',
         \/ ResolvesInv' /\ outcome' = "resolving"
         \/ frames' = frames /\ outcome' \in {"ok", "unresolvable", "overflow"}
  PROVE  ParserInv'
<1>1. /\ LexerInv' /\ FilesInv' /\ unresolved' = unresolved
      /\ \A n \in DOMAIN unresolved' : unresolved'[n].name = n
  BY LexerStays
<1>2. CASE ResolvesInv' /\ outcome' = "resolving"
  <2>1. Called(frames)' \in {"none", "resolve", "resolvePrimary"}
    <3>1. PICK S : frames' \in Seq(S)
      BY <1>2 DEF ResolvesInv, IsSequence
    <3>2. frames' # <<>> => Len(frames') \in 1 .. Len(frames')
      BY <3>1, EmptySeq
    <3> QED BY <1>2, <3>2 DEF ResolvesInv, Called
  <2> QED BY <1>1, <1>2, <2>1 DEF ParserInv
<1>3. CASE frames' = frames /\ outcome' \in {"ok", "unresolvable", "overflow"}
  BY <1>1, <1>3 DEF ParserInv, Called
<1> QED BY <1>2, <1>3

LEMMA FrontKeeps ==
  ASSUME ResolvesInv, frames # <<>>, frames' = Front(frames), unresolved' = unresolved
  PROVE  ResolvesInv'
<1>1. /\ IsSequence(frames')
      /\ Len(frames) \in Nat /\ Len(frames) >= 1 /\ Len(frames') = Len(frames) - 1
      /\ \A i \in 1 .. Len(frames) - 1 : frames'[i] = frames[i]
      /\ Len(frames) = 1 => frames' = <<>>
  BY Popped DEF ResolvesInv, Returning
<1>2. \A i \in 1 .. Len(frames') : frames'[i] = frames[i] /\ i \in 1 .. Len(frames)
  BY <1>1
<1>3. frames' # <<>> => 1 \in 1 .. Len(frames')
  BY <1>1
<1> QED BY <1>1, <1>2, <1>3 DEF ResolvesInv

\* The caller notes that it has called, and the promise called is above it.
LEMMA CallKeeps ==
  ASSUME ResolvesInv, NEW function \in {"resolve", "resolvePrimary"}, NEW p,
         frames = <<>> => \E n \in DOMAIN unresolved : p = unresolved[n],
         frames' = (IF frames = <<>> THEN <<>>
                    ELSE Append(Front(frames), Frame(Function, Waits)))
                   \o <<Frame(function, [promise |-> p, done |-> 0])>>,
         unresolved' = unresolved
  PROVE  ResolvesInv'
<1> DEFINE x == Frame(function, [promise |-> p, done |-> 0])
           w == Frame(Function, Waits)
<1>1. x.fn = function /\ x.local.promise = p /\ "promise" \in DOMAIN x.local
  BY DEF Frame
<1>2. CASE frames = <<>>
  <2>1. frames' = <<x>>
    <3>1. <<x>> \in Seq({x})
      OBVIOUS
    <3>2. <<>> \o <<x>> = <<x>>
      BY <3>1, ConcatEmptySeq
    <3> QED BY <1>2, <3>2
  <2> HIDE DEF x
  <2> DEFINE q == <<x>>
  <2>2. q \in Seq({x}) /\ Len(q) = 1 /\ q[1] = x /\ \A i \in 1 .. Len(q) : q[i] = x
    OBVIOUS
  <2>3. frames' = q
    BY <2>1
  <2> HIDE DEF q
  <2>4. \E n \in DOMAIN unresolved' : frames'[1].local.promise = unresolved'[n]
    BY <1>1, <1>2, <2>2, <2>3
  <2>5. IsSequence(frames')
    BY <2>2, <2>3 DEF IsSequence
  <2> QED BY <1>1, <2>2, <2>3, <2>4, <2>5 DEF ResolvesInv
<1>3. CASE frames # <<>>
  <2> DEFINE r == Append(Front(frames), w)
  <2>1. /\ IsSequence(r)
        /\ r # <<>> /\ Len(frames) \in Nat /\ Len(frames) >= 1 /\ Len(r) = Len(frames)
        /\ \A i \in 1 .. Len(frames) - 1 : r[i] = frames[i]
        /\ r[Len(frames)] = w
    <3>1. IsSequence(frames)
      BY DEF ResolvesInv
    <3>2. Going(r, frames, w)
      BY <1>3, <3>1, Replaced
    <3> HIDE DEF r, w, x
    <3> QED BY <3>2 DEF Going
  <2>2. Function = frames[Len(frames)].fn /\ Local = frames[Len(frames)].local
    BY <1>3 DEF Function, Local, Last
  <2>3. w.fn = frames[Len(frames)].fn /\ w.local = Waits
    BY <2>2 DEF Frame
  <2>4. /\ DOMAIN Waits = DOMAIN Local
        /\ "promise" \in DOMAIN Local => Waits.promise = Local.promise
    BY DEF Waits
  <2> HIDE DEF r, w, x
  <2>5. frames' = r \o <<x>>
    BY <1>3 DEF r, w, x
  <2>6. frames' = Append(r, x)
    <3>1. PICK S : r \in Seq(S)
      BY <2>1 DEF IsSequence
    <3>2. r \in Seq(S \cup {x}) /\ x \in S \cup {x}
      BY <3>1, SeqMonotonic
    <3> QED BY <2>5, <3>2, AppendIsConcat
  <2>7. /\ IsSequence(frames')
        /\ frames' # <<>> /\ Len(frames') = Len(frames) + 1
        /\ \A i \in 1 .. Len(frames) : frames'[i] = r[i]
        /\ frames'[Len(frames) + 1] = x
    <3>1. IsSequence(r)
      BY <2>1
    <3>2. Calling(frames', r, x)
      BY <2>6, <3>1, Pushed
    <3> QED BY <2>1, <3>2 DEF Calling
  <2>8. \A i \in 1 .. Len(frames') : frames'[i].fn \in {"resolve", "resolvePrimary"}
    <3> TAKE i \in 1 .. Len(frames')
    <3>1. CASE i = Len(frames) + 1
      BY <1>1, <2>7, <3>1
    <3>2. CASE i = Len(frames)
      <4>1. frames[i].fn \in {"resolve", "resolvePrimary"} /\ i \in 1 .. Len(frames)
        BY <2>1, <3>2 DEF ResolvesInv
      <4> QED BY <2>1, <2>3, <2>7, <3>2, <4>1
    <3>3. CASE i < Len(frames)
      <4>1. i \in 1 .. Len(frames) - 1 /\ i \in 1 .. Len(frames)
        BY <2>1, <3>3
      <4>2. frames[i].fn \in {"resolve", "resolvePrimary"}
        BY <4>1 DEF ResolvesInv
      <4> QED BY <2>1, <2>7, <4>1, <4>2
    <3> QED BY <2>1, <2>7, <3>1, <3>2, <3>3
  <2>9. /\ "promise" \in DOMAIN frames'[1].local
        /\ frames'[1].local.promise = frames[1].local.promise
    <3>0. "promise" \in DOMAIN frames[1].local /\ 1 \in 1 .. Len(frames)
      BY <1>3, <2>1 DEF ResolvesInv
    <3>1. CASE Len(frames) = 1
      <4>1. frames'[1] = w /\ Local = frames[1].local
        BY <2>1, <2>2, <2>7, <3>0, <3>1
      <4> QED BY <2>3, <2>4, <3>0, <4>1
    <3>2. CASE Len(frames) # 1
      <4>1. 1 \in 1 .. Len(frames) - 1
        BY <2>1, <3>2
      <4> QED BY <2>1, <2>7, <3>0, <4>1
    <3> QED BY <3>1, <3>2
  <2> QED BY <1>3, <2>7, <2>8, <2>9 DEF ResolvesInv
<1> QED BY <1>2, <1>3

LEMMA ResolveKeeps ==
  ASSUME ParserInv, outcome = "resolving", UNCHANGED <<lexer, inputs, file, unresolved>>,
         NEW function \in {"resolve", "resolvePrimary"}, NEW p, Resolve(function, p),
         frames = <<>> => \E n \in DOMAIN unresolved : p = unresolved[n]
  PROVE  ParserInv'
<1>1. ResolvesInv /\ resolved \subseteq DOMAIN unresolved /\ resolved' = resolved
      /\ unresolved' = unresolved
  BY DEF ParserInv, Resolve
<1>2. CASE /\ frames' = (IF frames = <<>> THEN <<>>
                    ELSE Append(Front(frames), Frame(Function, Waits)))
                   \o <<Frame(function, [promise |-> p, done |-> 0])>>
           /\ UNCHANGED outcome
  <2>1. ResolvesInv'
    BY <1>1, <1>2, CallKeeps
  <2> QED BY <1>1, <1>2, <2>1, ResolvesKeeps
<1>3. CASE outcome' = "overflow" /\ UNCHANGED frames
  BY <1>1, <1>3, ResolvesKeeps
<1> QED BY <1>2, <1>3 DEF Resolve

LEMMA ResolvingKeeps ==
  ASSUME ParserInv, ResolveNext \/ resolvePrimary \/ resolve \/ Parsed
  PROVE  ParserInv'
<1>1. /\ outcome = "resolving" /\ UNCHANGED <<lexer, inputs, file, unresolved>>
  BY DEF ResolveNext, resolvePrimary, resolve, Parsed, Resolves
<1>2. /\ ResolvesInv /\ resolved \subseteq DOMAIN unresolved
      /\ \A n \in DOMAIN unresolved : unresolved[n].name = n
      /\ unresolved' = unresolved
  BY <1>1 DEF ParserInv
<1>3. Function # "none" => frames # <<>>
  BY DEF Function
<1>4. CASE ResolveNext
  <2>1. PICK n \in DOMAIN unresolved \ resolved : Resolve("resolvePrimary", unresolved[n])
    BY <1>4 DEF ResolveNext
  <2> QED BY <1>1, <2>1, ResolveKeeps
<1>5. CASE Parsed
  BY <1>1, <1>2, <1>5, ResolvesKeeps DEF Parsed
<1>6. CASE resolvePrimary
  <2>0. frames # <<>>
    BY <1>3, <1>6 DEF resolvePrimary, Resolves
  <2>1. CASE Unresolvable
    BY <1>1, <1>2, <2>1, ResolvesKeeps DEF Unresolvable
  <2>2. CASE Resolve("resolve", Local.promise.children[1])
    BY <1>1, <2>0, <2>2, ResolveKeeps
  <2>3. CASE /\ frames' = Front(frames)
             /\ resolved' = IF Len(frames) = 1 THEN resolved \cup {Local.promise.name}
                                              ELSE resolved
             /\ UNCHANGED outcome
    <3>1. ResolvesInv'
      BY <1>2, <2>0, <2>3, FrontKeeps
    <3>2. Len(frames) = 1 => Local.promise.name \in DOMAIN unresolved
      <4>1. PICK n \in DOMAIN unresolved : frames[1].local.promise = unresolved[n]
        BY <1>2, <2>0 DEF ResolvesInv
      <4>2. Len(frames) = 1 => Local.promise = unresolved[n]
        BY <4>1 DEF Local, Last
      <4> QED BY <1>2, <4>1, <4>2
    <3>3. resolved' \subseteq DOMAIN unresolved /\ resolved \subseteq resolved'
      BY <1>2, <2>3, <3>2
    <3> QED BY <1>1, <2>3, <3>1, <3>3, ResolvesKeeps
  <2> QED BY <1>6, <2>1, <2>2, <2>3 DEF resolvePrimary
<1>7. CASE resolve
  <2>0. frames # <<>>
    BY <1>3, <1>7 DEF resolve, Resolves
  <2>1. CASE Unresolvable
    BY <1>1, <1>2, <2>1, ResolvesKeeps DEF Unresolvable
  <2>2. CASE Resolved
    <3>1. ResolvesInv'
      BY <1>2, <2>0, <2>2, FrontKeeps DEF Resolved
    <3> QED BY <1>1, <1>2, <2>2, <3>1, ResolvesKeeps DEF Resolved
  <2>3. ASSUME NEW function \in {"resolve", "resolvePrimary"}, NEW p, Resolve(function, p)
        PROVE  ParserInv'
    BY <1>1, <2>0, <2>3, ResolveKeeps
  <2> QED BY <1>7, <2>1, <2>2, <2>3 DEF resolve
<1> QED BY <1>4, <1>5, <1>6, <1>7

LEMMA ParserStep == ParserInv /\ [Next]_vars => ParserInv'
<1> SUFFICES ASSUME ParserInv, [Next]_vars PROVE ParserInv'
  OBVIOUS
<1>1. CASE UNCHANGED vars
  <2>1. /\ LexerInv' /\ FilesInv'
        /\ \A n \in DOMAIN unresolved' : unresolved'[n].name = n
    BY <1>1, LexerStays DEF vars
  <2>2. /\ frames' = frames /\ resolved' = resolved /\ outcome' = outcome
        /\ unresolved' = unresolved /\ tokens' = tokens
        /\ parenDepth' = parenDepth /\ getterDepth' = getterDepth
    BY <1>1 DEF vars, lexer
  <2>3. Promises' = Promises /\ Getters' = Getters /\ Pending' = Pending
    BY <2>2 DEF Promises, Getters, Pending
  <2>4. ResolvesInv => ResolvesInv'
    BY <2>2 DEF ResolvesInv
  <2> QED BY <2>1, <2>2, <2>3, <2>4 DEF ParserInv, Called
<1>2. CASE Lexes
  BY <1>2, LexesKeeps
<1>3. CASE Parse
  BY <1>3, GeneratePromisesKeeps, ParseKeeps, ParseArgKeeps, ParseGetterKeeps,
     ParseJoinerKeeps, ResolvingKeeps DEF Parse
<1> QED BY <1>1, <1>2, <1>3 DEF Next

LEMMA ParserInvariant == Spec => []ParserInv
<1>1. Init => ParserInv
  BY InitParser
<1>2. ParserInv /\ [Next]_vars => ParserInv'
  BY ParserStep
<1> QED BY <1>1, <1>2, PTL DEF Spec

\* Whatever the files: every token is a part of the text, so that no slice
\* of emit is out of range, the parser is in a function that it has called,
\* and what is resolved has been parsed.
THEOREM TypeCorrect == Spec => []TypeOK
<1>1. ParserInv => TypeOK
  <2> SUFFICES ASSUME ParserInv PROVE TypeOK
    OBVIOUS
  <2>1. Function = Called(frames)
    BY DEF Function, Called, Last
  <2> QED BY <2>1 DEF ParserInv, FilesInv, LexerInv, TypeOK
<1> QED BY <1>1, ParserInvariant, PTL

\* Whatever the files: when the parser has received all tokens it is in as
\* many promises as the lexer.
THEOREM NestingIsExact == Spec => []NestingAgrees
<1>1. ParserInv => NestingAgrees
  <2> SUFFICES ASSUME ParserInv, outcome = "parsing", tokens = <<>>
               PROVE  parenDepth = Cardinality({i \in DOMAIN frames : frames[i].fn = "parse"})
    BY DEF NestingAgrees
  <2>1. Promises = parenDepth /\ Nest(frames, Promises, Getters, Pending)
    BY DEF ParserInv, Promises, Pending
  <2>2. /\ Len(frames) \in Nat /\ parenDepth \in Nat /\ DOMAIN frames = 1 .. Len(frames)
    BY <2>1, NestFacts
  <2>3. \A i \in 1 .. Len(frames) : frames[i].fn = "parse" <=> i \in 1 .. parenDepth
    <3> TAKE i \in 1 .. Len(frames)
    <3>1. CASE i \in 1 .. parenDepth
      BY <2>1, <3>1 DEF Nest
    <3>2. CASE i \in parenDepth + 1 .. Len(frames) - 1
      BY <2>1, <2>2, <3>2 DEF Nest
    <3>3. CASE i = Len(frames) /\ i > parenDepth
      <4>1. frames[i].fn \in {"parseArg", "parseGetter", "parseJoiner"}
        BY <2>1, <2>2, <3>3 DEF Nest, Called
      <4> QED BY <2>2, <3>3, <4>1
    <3>4. i \in 1 .. parenDepth \/ i \in parenDepth + 1 .. Len(frames) - 1
            \/ (i = Len(frames) /\ i > parenDepth)
      <4>1. Len(frames) \in Nat
        BY <2>2
      <4>2. parenDepth \in Nat
        BY <2>2
      <4> QED BY <4>1, <4>2
    <3>5. i \in parenDepth + 1 .. Len(frames) - 1 => i \notin 1 .. parenDepth
      BY <2>2
    <3>6. i = Len(frames) /\ i > parenDepth => i \notin 1 .. parenDepth
      BY <2>2
    <3> QED BY <3>1, <3>2, <3>3, <3>4, <3>5, <3>6
  <2>4. parenDepth <= Len(frames)
    BY <2>1 DEF Nest
  <2>5. {i \in DOMAIN frames : frames[i].fn = "parse"} = 1 .. parenDepth
    BY <2>2, <2>3, <2>4
  <2>6. Cardinality(1 .. parenDepth) = parenDepth
    BY <2>2, FS_Interval
  <2> QED BY <2>5, <2>6
<1> QED BY <1>1, ParserInvariant, PTL

(***************************************************************************)
(* What is parsed.  A promise is made when those inside of it are: they    *)
(* can be collected in a finite set that has the children of each.         *)
(***************************************************************************)
HasParts(p, W) == "children" \in DOMAIN p /\ p.children \in Seq(W)

Built(W) == IsFiniteSet(W) /\ \A p \in W : HasParts(p, W)

ParseFrames(fr, W) ==
  \A i \in 1 .. Len(fr) : fr[i].fn = "parse" => HasParts(fr[i].local, W)

TreeInv ==
  \E W : /\ Built(W)
         /\ outcome = "parsing" => ParseFrames(frames, W)
         /\ \A n \in DOMAIN unresolved : unresolved[n] \in W

LEMMA PartsMore ==
  ASSUME NEW W, NEW X, W \subseteq X, NEW p, HasParts(p, W)
  PROVE  HasParts(p, X)
BY SeqMonotonic DEF HasParts

LEMMA FramesMore ==
  ASSUME NEW W, NEW X, W \subseteq X, NEW fr, ParseFrames(fr, W)
  PROVE  ParseFrames(fr, X)
BY PartsMore DEF ParseFrames

\* A promise that ends is one more.
LEMMA BuiltMore ==
  ASSUME NEW W, Built(W), NEW p, HasParts(p, W)
  PROVE  Built(W \cup {p})
<1>1. IsFiniteSet(W \cup {p})
  BY FS_AddElement DEF Built
<1>2. \A q \in W \cup {p} : HasParts(q, W)
  BY DEF Built
<1>3. \A q \in W \cup {p} : HasParts(q, W \cup {p})
  <2> TAKE q \in W \cup {p}
  <2>1. HasParts(q, W) /\ W \subseteq W \cup {p}
    BY <1>2
  <2> QED BY <2>1, PartsMore
<1> QED BY <1>1, <1>3 DEF Built

LEMMA FramesCall ==
  ASSUME NEW W, NEW fr, IsSequence(fr), ParseFrames(fr, W),
         NEW x, x.fn = "parse" => HasParts(x.local, W)
  PROVE  ParseFrames(Append(fr, x), W)
<1> DEFINE r == Append(fr, x)
<1>1. Calling(r, fr, x)
  BY Pushed
<1> HIDE DEF r
<1>2. \A i \in 1 .. Len(r) : i \in 1 .. Len(fr) \/ i = Len(fr) + 1
  BY <1>1 DEF Calling
<1>3. ParseFrames(r, W)
  BY <1>1, <1>2 DEF Calling, ParseFrames
<1> QED BY <1>3 DEF r

LEMMA FramesSet ==
  ASSUME NEW W, NEW fr, IsSequence(fr), fr # <<>>, ParseFrames(fr, W),
         NEW x, x.fn = "parse" => HasParts(x.local, W)
  PROVE  ParseFrames(Append(Front(fr), x), W)
<1> DEFINE r == Append(Front(fr), x)
<1>1. Going(r, fr, x)
  BY Replaced
<1> HIDE DEF r
<1>2. \A i \in 1 .. Len(r) : (i \in 1 .. Len(fr) - 1 /\ i \in 1 .. Len(fr)) \/ i = Len(fr)
  BY <1>1 DEF Going
<1>3. ParseFrames(r, W)
  BY <1>1, <1>2 DEF Going, ParseFrames
<1> QED BY <1>3 DEF r

LEMMA FramesReturn ==
  ASSUME NEW W, NEW fr, IsSequence(fr), Len(fr) > 1, ParseFrames(fr, W),
         NEW x, x.fn = "parse" => HasParts(x.local, W)
  PROVE  ParseFrames(Append(Front(Front(fr)), x), W)
<1> DEFINE r == Append(Front(Front(fr)), x)
<1>1. Answering(r, fr, x)
  BY Returned
<1> HIDE DEF r
<1>2. \A i \in 1 .. Len(r) : (i \in 1 .. Len(fr) - 2 /\ i \in 1 .. Len(fr)) \/ i = Len(fr) - 1
  <2>1. Len(fr) \in Nat
    BY LenProperties DEF IsSequence
  <2> QED BY <1>1, <2>1 DEF Answering
<1>3. ParseFrames(r, W)
  BY <1>1, <1>2 DEF Answering, ParseFrames
<1> QED BY <1>3 DEF r

\* A step that makes no promise.
LEMMA TreeStays ==
  ASSUME TreeInv, unresolved' = unresolved,
         outcome' = "parsing" => outcome = "parsing" /\ frames' = frames
  PROVE  TreeInv'
<1>1. PICK W : /\ Built(W)
               /\ outcome = "parsing" => ParseFrames(frames, W)
               /\ \A n \in DOMAIN unresolved : unresolved[n] \in W
  BY DEF TreeInv
<1>2. outcome' = "parsing" => ParseFrames(frames', W)
  BY <1>1
<1>3. \A n \in DOMAIN unresolved' : unresolved'[n] \in W
  BY <1>1
<1> QED BY <1>1, <1>2, <1>3 DEF TreeInv

LEMMA TreeFrames ==
  ASSUME TreeInv, outcome = "parsing", unresolved' = unresolved,
         \A W : Built(W) /\ ParseFrames(frames, W) => ParseFrames(frames', W)
  PROVE  TreeInv'
<1>1. PICK W : /\ Built(W) /\ ParseFrames(frames, W)
               /\ \A n \in DOMAIN unresolved : unresolved[n] \in W
  BY DEF TreeInv
<1>2. ParseFrames(frames', W)
  BY <1>1
<1>3. \A n \in DOMAIN unresolved' : unresolved'[n] \in W
  BY <1>1
<1> QED BY <1>1, <1>2, <1>3 DEF TreeInv

LEMMA EmptyParts == \A W : HasParts(UnresolvedPromise, W)
<1> TAKE W
<1>1. <<>> \in Seq(W)
  BY EmptySeq
<1> QED BY <1>1 DEF HasParts, UnresolvedPromise

\* What the functions of the parser know.
LEMMA ParsingFrames ==
  ASSUME ParserInv, NEW function, NEW types, Gets(function, types)
  PROVE  /\ outcome = "parsing" /\ IsSequence(frames) /\ Called(frames) = function
         /\ function # "none" => /\ frames # <<>> /\ Len(frames) \in 1 .. Len(frames)
                                 /\ frames[Len(frames)].fn = function
                                 /\ Local = frames[Len(frames)].local
         /\ function \in {"parseArg", "parseGetter", "parseJoiner"} => Len(frames) > 1
<1>1. outcome = "parsing" /\ Called(frames) = function
  BY DEF Gets, Function, Last, Called
<1>2. Nest(frames, Promises, Getters, Pending)
  BY <1>1 DEF ParserInv
<1>3. IsSequence(frames)
  BY <1>2 DEF Nest
<1>4. Len(frames) \in Nat /\ (frames = <<>> <=> Len(frames) = 0)
  BY <1>2, NestFacts
<1>5. function \in {"parseArg", "parseGetter", "parseJoiner"} => Len(frames) > 1
  <2>1. Promises \in Nat
    BY <1>2, NestFacts
  <2>2. function \in {"parseArg", "parseGetter", "parseJoiner"} =>
          Promises < Len(frames) /\ Promises >= 1
    BY <1>1, <1>2, NestFacts
  <2> QED BY <1>4, <2>1, <2>2
<1>6. function # "none" => frames # <<>>
  BY <1>1 DEF Called
<1> QED BY <1>1, <1>3, <1>4, <1>5, <1>6 DEF Called, Local, Last

\* An argument or a getter begins, or a promise in another.
LEMMA CallsTree ==
  ASSUME ParserInv, TreeInv, NEW function, NEW types, Gets(function, types),
         NEW f, NEW local, Calls(f, local), GoesOn,
         f = "parse" => local = UnresolvedPromise
  PROVE  TreeInv'
<1>1. outcome = "parsing" /\ IsSequence(frames) /\ unresolved' = unresolved
  BY ParsingFrames DEF GoesOn
<1> DEFINE x == Frame(f, local)
<1>2. \A W : x.fn = "parse" => HasParts(x.local, W)
  BY EmptyParts DEF Frame
<1>3. frames' = Append(frames, x)
  BY DEF Calls, Frame
<1> HIDE DEF x
<1>4. \A W : Built(W) /\ ParseFrames(frames, W) => ParseFrames(frames', W)
  BY <1>1, <1>2, <1>3, FramesCall
<1> QED BY <1>1, <1>4, TreeFrames

\* A function sets its locals, of a promise all but its children.
LEMMA SetsTree ==
  ASSUME ParserInv, TreeInv, NEW function, NEW types, Gets(function, types),
         function # "none", GoesOn, NEW f, NEW local,
         frames' = Append(Front(frames), Frame(f, local)),
         f = "parse" => /\ function = "parse"
                        /\ \A W : HasParts(Local, W) => HasParts(local, W)
  PROVE  TreeInv'
<1>1. /\ outcome = "parsing" /\ IsSequence(frames) /\ unresolved' = unresolved
      /\ frames # <<>> /\ Len(frames) \in 1 .. Len(frames)
      /\ frames[Len(frames)].fn = function /\ Local = frames[Len(frames)].local
  BY ParsingFrames DEF GoesOn
<1> DEFINE x == Frame(f, local)
<1>2. x.fn = f /\ x.local = local
  BY DEF Frame
<1>3. frames' = Append(Front(frames), x)
  OBVIOUS
<1> HIDE DEF x
<1>4. \A W : ParseFrames(frames, W) => (x.fn = "parse" => HasParts(x.local, W))
  BY <1>1, <1>2 DEF ParseFrames
<1>5. \A W : Built(W) /\ ParseFrames(frames, W) => ParseFrames(frames', W)
  BY <1>1, <1>3, <1>4, FramesSet
<1> QED BY <1>1, <1>5, TreeFrames

\* An argument or a getter ends: of the promise that has it, the children stay.
LEMMA ArgTree ==
  ASSUME ParserInv, TreeInv,
         NEW function \in {"parseArg", "parseGetter", "parseJoiner"}, NEW types,
         Gets(function, types), NEW arg, Returns(KeepArg(arg)), GoesOn
  PROVE  TreeInv'
<1>1. /\ outcome = "parsing" /\ IsSequence(frames) /\ unresolved' = unresolved
      /\ Len(frames) > 1
  BY ParsingFrames DEF GoesOn
<1> DEFINE x == Frame(Caller.fn, KeepArg(arg))
<1>2. x.fn = Caller.fn /\ x.local = KeepArg(arg)
  BY DEF Frame
<1>3. frames' = Append(Front(Front(frames)), x)
  BY DEF Returns, Frame
<1> HIDE DEF x
<1>4. Len(frames) - 1 \in 1 .. Len(frames)
  <2>1. Len(frames) \in Nat
    BY <1>1, LenProperties DEF IsSequence
  <2> QED BY <1>1, <2>1
<1>5. ASSUME NEW W, ParseFrames(frames, W), x.fn = "parse"
      PROVE  HasParts(x.local, W)
  <2>1. Caller.fn = "parse" /\ HasParts(Caller.local, W)
    BY <1>2, <1>4, <1>5 DEF ParseFrames, Caller
  <2>2. x.local = [Caller.local EXCEPT !.args = Append(@, arg)]
    BY <1>2, <2>1 DEF KeepArg
  <2>3. DOMAIN x.local = DOMAIN Caller.local
    BY <2>2
  <2>4. x.local.children = Caller.local.children
    BY <2>1, <2>2 DEF HasParts
  <2> QED BY <2>1, <2>3, <2>4 DEF HasParts
<1>6. \A W : Built(W) /\ ParseFrames(frames, W) => ParseFrames(frames', W)
  BY <1>1, <1>3, <1>5, FramesReturn
<1> QED BY <1>1, <1>6, TreeFrames

\* The end of a promise inside of another, which has one more child.
LEMMA NestedTree ==
  ASSUME ParserInv, TreeInv, parse_Nested
  PROVE  TreeInv'
<1>0. /\ Gets("parse", {"RightPromise", "EOF"}) /\ Len(frames) > 1
      /\ Returns(KeepChild(Local)) /\ GoesOn
  BY DEF parse_Nested
<1>1. /\ outcome = "parsing" /\ IsSequence(frames) /\ unresolved' = unresolved
      /\ Len(frames) \in 1 .. Len(frames) /\ frames[Len(frames)].fn = "parse"
      /\ Local = frames[Len(frames)].local
  BY <1>0, ParsingFrames DEF GoesOn
<1>2. PICK W : /\ Built(W) /\ ParseFrames(frames, W)
               /\ \A n \in DOMAIN unresolved : unresolved[n] \in W
  BY <1>1 DEF TreeInv
<1> DEFINE X == W \cup {Local}
<1>3. HasParts(Local, W)
  BY <1>1, <1>2 DEF ParseFrames
<1>4. Built(X) /\ ParseFrames(frames, X) /\ Local \in X
  <2>1. W \subseteq X
    OBVIOUS
  <2> QED BY <1>2, <1>3, <2>1, BuiltMore, FramesMore
<1>5. \A n \in DOMAIN unresolved' : unresolved'[n] \in X
  BY <1>1, <1>2
<1> HIDE DEF X
<1> DEFINE x == Frame(Caller.fn, KeepChild(Local))
<1>6. x.fn = Caller.fn /\ x.local = KeepChild(Local)
  BY DEF Frame
<1>7. frames' = Append(Front(Front(frames)), x)
  BY <1>0 DEF Returns, Frame
<1> HIDE DEF x
<1>8. x.fn = "parse" => HasParts(x.local, X)
  <2> SUFFICES ASSUME x.fn = "parse" PROVE HasParts(x.local, X)
    OBVIOUS
  <2>1. Len(frames) - 1 \in 1 .. Len(frames)
    <3>1. Len(frames) \in Nat
      BY <1>1, LenProperties DEF IsSequence
    <3> QED BY <1>0, <3>1
  <2>2. Caller.fn = "parse" /\ HasParts(Caller.local, X)
    BY <1>4, <1>6, <2>1 DEF ParseFrames, Caller
  <2>3. x.local = [Caller.local EXCEPT !.children = Append(@, Local)]
    BY <1>6 DEF KeepChild
  <2>4. DOMAIN x.local = DOMAIN Caller.local
    BY <2>3
  <2>5. x.local.children = Append(Caller.local.children, Local)
    BY <2>2, <2>3 DEF HasParts
  <2>6. x.local.children \in Seq(X)
    BY <1>4, <2>2, <2>5, AppendProperties DEF HasParts
  <2> QED BY <2>2, <2>4, <2>6 DEF HasParts
<1>9. ParseFrames(frames', X)
  BY <1>0, <1>1, <1>4, <1>7, <1>8, FramesReturn
<1> QED BY <1>4, <1>5, <1>9 DEF TreeInv

\* The end of a promise of the file.
LEMMA TopTree ==
  ASSUME ParserInv, TreeInv, parse_Top
  PROVE  TreeInv'
<1>0. Gets("parse", {"RightPromise", "EOF"}) /\ frames' = <<>>
  BY DEF parse_Top
<1>1. /\ outcome = "parsing" /\ IsSequence(frames)
      /\ Len(frames) \in 1 .. Len(frames) /\ frames[Len(frames)].fn = "parse"
      /\ Local = frames[Len(frames)].local
  BY <1>0, ParsingFrames
<1>2. PICK W : /\ Built(W) /\ ParseFrames(frames, W)
               /\ \A n \in DOMAIN unresolved : unresolved[n] \in W
  BY <1>1 DEF TreeInv
<1> DEFINE X == W \cup {Local}
<1>3. HasParts(Local, W)
  BY <1>1, <1>2 DEF ParseFrames
<1>4. Built(X)
  BY <1>2, <1>3, BuiltMore
<1>5. \A n \in DOMAIN unresolved' : unresolved'[n] \in X
  <2>1. CASE unresolved' = [n \in DOMAIN unresolved \cup {Local.name} |->
                              IF n = Local.name THEN Local ELSE unresolved[n]]
    BY <1>2, <2>1
  <2>2. CASE UNCHANGED unresolved
    BY <1>2, <2>2
  <2> QED BY <2>1, <2>2 DEF parse_Top
<1> HIDE DEF X
<1>6. ParseFrames(frames', X)
  <2>1. Len(<<>>) = 0
    BY EmptySeq
  <2> QED BY <1>0, <2>1 DEF ParseFrames
<1> QED BY <1>4, <1>5, <1>6 DEF TreeInv

LEMMA TreeStep ==
  ASSUME ParserInv, TreeInv, [Next]_vars
  PROVE  TreeInv'
<1>1. CASE UNCHANGED vars \/ Lexes
  BY <1>1, TreeStays DEF vars, Lexes
<1>2. ASSUME Fails \/ Skips, outcome = "parsing" PROVE TreeInv'
  BY <1>2, TreeStays DEF Fails, Skips, GoesOn
<1>3. CASE generatePromises
  <2>1. CASE Gets("none", {"LeftPromise"}) /\ Calls("parse", UnresolvedPromise) /\ GoesOn
    BY <2>1, CallsTree
  <2>2. CASE Gets("none", TokenType \ {"LeftPromise", "EOF"}) /\ (Fails \/ Skips)
    BY <1>2, <2>2 DEF Gets
  <2>3. CASE EndOfFile
    BY <2>3, TreeStays DEF EndOfFile, Gets
  <2> QED BY <1>3, <2>1, <2>2, <2>3 DEF generatePromises
<1>4. CASE parse
  <2>1. CASE parse_Nested
    BY <2>1, NestedTree
  <2>2. CASE parse_Top
    BY <2>2, TopTree
  <2>3. CASE \E types : Gets("parse", types) /\ (Fails \/ Skips)
    BY <1>2, <2>3 DEF Gets
  <2>4. CASE /\ Gets("parse", {"LeftPromise"})
             /\ Calls("parse", UnresolvedPromise) /\ GoesOn
    BY <2>4, CallsTree
  <2>5. CASE Gets("parse", {"PromiseName"}) /\ Sets([Local EXCEPT !.name = Val]) /\ GoesOn
    <3> DEFINE q == [Local EXCEPT !.name = Val]
    <3>1. \A W : HasParts(Local, W) => HasParts(q, W)
      <4> TAKE W
      <4> SUFFICES ASSUME HasParts(Local, W) PROVE HasParts(q, W)
        OBVIOUS
      <4>1. DOMAIN q = DOMAIN Local
        OBVIOUS
      <4>2. q.children = Local.children
        BY DEF HasParts
      <4> QED BY <4>1, <4>2 DEF HasParts
    <3>2. frames' = Append(Front(frames), Frame(Function, q))
      BY <2>5 DEF Sets
    <3>3. Function = "parse"
      BY <2>5 DEF Gets
    <3> HIDE DEF q
    <3> QED BY <2>5, <3>1, <3>2, <3>3, SetsTree
  <2>6. CASE /\ Gets("parse", {"LeftArg"})
             /\ Calls("parseArg", Constant(<<>>)) /\ GoesOn
    BY <2>6, CallsTree
  <2>7. CASE /\ Gets("parse", {"LeftGetter"})
             /\ Calls("parseGetter", [typ |-> <<>>, getter |-> Nil]) /\ GoesOn
    BY <2>7, CallsTree
  <2> QED BY <1>4, <2>1, <2>2, <2>3, <2>4, <2>5, <2>6, <2>7 DEF parse
<1>5. CASE parseArg
  <2>1. CASE Gets("parseArg", {"Argument"}) /\ Sets(Constant(Val)) /\ GoesOn
    <3>1. /\ Function = "parseArg"
          /\ frames' = Append(Front(frames), Frame("parseArg", Constant(Val)))
      BY <2>1 DEF Gets, Sets
    <3> QED BY <2>1, <3>1, SetsTree
  <2>2. CASE Gets("parseArg", {"RightArg"}) /\ Returns(KeepArg(Local)) /\ GoesOn
    BY <2>2, ArgTree
  <2>3. CASE \E types : Gets("parseArg", types) /\ Fails
    BY <1>2, <2>3 DEF Gets
  <2> QED BY <1>5, <2>1, <2>2, <2>3 DEF parseArg
<1>6. CASE parseGetter
  <2>1. CASE /\ Gets("parseGetter", {"GetterType"}) /\ GoesOn
             /\ \/ frames' = JoinFrame(<<>>)
                \/ Sets([Local EXCEPT !.typ = Val])
    <3>1. CASE frames' = JoinFrame(<<>>)
      <4>1. frames' = Append(Front(frames), Frame("parseJoiner", <<>>))
        BY <3>1 DEF JoinFrame
      <4> QED BY <2>1, <4>1, SetsTree
    <3>2. CASE Sets([Local EXCEPT !.typ = Val])
      <4> DEFINE q == [Local EXCEPT !.typ = Val]
      <4>1. frames' = Append(Front(frames), Frame("parseGetter", q))
        BY <2>1, <3>2 DEF Sets, Gets
      <4> HIDE DEF q
      <4> QED BY <2>1, <4>1, SetsTree
    <3> QED BY <2>1, <3>1, <3>2
  <2>2. CASE /\ Gets("parseGetter", {"GetterValue"}) /\ GoesOn
             /\ Sets([Local EXCEPT !.getter = Getter(Local.typ, Val)])
    <3> DEFINE q == [Local EXCEPT !.getter = Getter(Local.typ, Val)]
    <3>1. frames' = Append(Front(frames), Frame("parseGetter", q))
      BY <2>2 DEF Sets, Gets
    <3> HIDE DEF q
    <3> QED BY <2>2, <3>1, SetsTree
  <2>3. CASE \E types : Gets("parseGetter", types) /\ (Fails \/ Skips)
    BY <1>2, <2>3 DEF Gets
  <2>4. CASE Gets("parseGetter", {"RightGetter"}) /\ Returns(KeepArg(Local.getter)) /\ GoesOn
    BY <2>4, ArgTree
  <2> QED BY <1>6, <2>1, <2>2, <2>3, <2>4 DEF parseGetter
<1>7. CASE parseJoiner
  <2>1. CASE Gets("parseJoiner", {"LeftArg"}) /\ Calls("parseArg", Constant(<<>>)) /\ GoesOn
    BY <2>1, CallsTree
  <2>2. CASE /\ Gets("parseJoiner", {"LeftGetter"})
             /\ Calls("parseGetter", [typ |-> <<>>, getter |-> Nil]) /\ GoesOn
    BY <2>2, CallsTree
  <2>3. CASE /\ Gets("parseJoiner", {"RightGetter"})
             /\ Returns(KeepArg(JoinArgument(Local))) /\ GoesOn
    BY <2>3, ArgTree
  <2>4. CASE \E types : Gets("parseJoiner", types) /\ Fails
    BY <1>2, <2>4 DEF Gets
  <2> QED BY <1>7, <2>1, <2>2, <2>3, <2>4 DEF parseJoiner
<1>8. CASE ResolveNext \/ resolvePrimary \/ resolve \/ Parsed
  <2>1. outcome = "resolving" /\ unresolved' = unresolved
    BY <1>8 DEF ResolveNext, resolvePrimary, resolve, Parsed, Resolves
  <2>2. outcome' = outcome \/ outcome' \in {"ok", "unresolvable", "overflow"}
    BY <1>8 DEF ResolveNext, resolvePrimary, resolve, Parsed, Resolve, Resolved, Unresolvable
  <2> QED BY <2>1, <2>2, TreeStays
<1> QED BY <1>1, <1>3, <1>4, <1>5, <1>6, <1>7, <1>8 DEF Next, Parse

LEMMA TreeInit == Init => TreeInv
<1> SUFFICES ASSUME Init PROVE TreeInv
  OBVIOUS
<1>1. Built({})
  BY FS_EmptySet DEF Built
<1>2. ParseFrames(frames, {})
  <2>1. Len(<<>>) = 0
    BY EmptySeq
  <2> QED BY <2>1 DEF ParseFrames, Init
<1>3. DOMAIN unresolved = {}
  BY EmptySeq DEF Init
<1> QED BY <1>1, <1>2, <1>3 DEF TreeInv

(***************************************************************************)
(* What is wanted of a promise, in the map u, and the levels on which the  *)
(* promises are that are inside of another.                                *)
(***************************************************************************)
Work(u, p) == IF p.name \in DOMAIN u THEN u[p.name].children ELSE p.children

IsLevels(u, L) ==
  L = [d \in 0 .. MaxDepth |->
         IF d = 0 THEN UNION {Range(u[n].children) : n \in DOMAIN u}
         ELSE UNION {Range(Work(u, p)) : p \in L[d - 1]}]
Levels(u)  == CHOOSE L : IsLevels(u, L)
InnerOf(u) == UNION {Levels(u)[d] : d \in 0 .. MaxDepth}

LEMMA InnerIs == Inner = InnerOf(unresolved)
BY DEF Inner, InnerOf, Levels, IsLevels, Needs, Work

LEMMA NeedsAre == \A p : Needs(p) = Range(Work(unresolved, p))
BY DEF Needs, Work

\* The recursive function exists: if not, there would be a least level that
\* it does not reach.
LEMMA LevelsExist ==
  ASSUME NEW u
  PROVE  IsLevels(u, Levels(u))
<1> DEFINE Is(L, n) ==
             L = [d \in 0 .. n |->
                    IF d = 0 THEN UNION {Range(u[m].children) : m \in DOMAIN u}
                    ELSE UNION {Range(Work(u, p)) : p \in L[d - 1]}]
           Bad == {n \in Nat : ~ \E L : Is(L, n)}
<1>1. Bad = {}
  <2> SUFFICES ASSUME Bad # {} PROVE FALSE
    OBVIOUS
  <2>1. PICK n \in Bad : \A k \in Bad : n <= k
    <3> Bad \in SUBSET Nat
      OBVIOUS
    <3> HIDE DEF Bad
    <3> QED BY LeastNumber
  <2>2. CASE n = 0
    <3> DEFINE L == [d \in 0 .. 0 |-> UNION {Range(u[m].children) : m \in DOMAIN u}]
    <3>1. Is(L, 0)
      OBVIOUS
    <3> QED BY <2>1, <2>2, <3>1
  <2>3. CASE n # 0
    <3> DEFINE k == n - 1
    <3>1. k \in Nat /\ k < n /\ n = k + 1
      BY <2>3
    <3>2. PICK K : Is(K, k)
      <4>1. k \notin Bad
        <5> HIDE DEF Bad
        <5> QED BY <2>1, <3>1
      <4> QED BY <3>1, <4>1
    <3> DEFINE next == UNION {Range(Work(u, p)) : p \in K[k]}
               L == [d \in 0 .. n |-> IF d = n THEN next ELSE K[d]]
               R == [d \in 0 .. n |->
                       IF d = 0 THEN UNION {Range(u[m].children) : m \in DOMAIN u}
                       ELSE UNION {Range(Work(u, p)) : p \in L[d - 1]}]
    <3>3. ASSUME NEW d \in 0 .. n PROVE L[d] = R[d]
      <4>1. CASE d = n
        <5>1. L[d] = next /\ d # 0
          BY <3>1, <4>1
        <5>2. L[d - 1] = K[k]
          BY <3>1, <4>1
        <5> QED BY <5>1, <5>2
      <4>2. CASE d # n /\ d = 0
        <5>1. d \in 0 .. k
          BY <3>1, <4>2
        <5>2. K[d] = UNION {Range(u[m].children) : m \in DOMAIN u}
          BY <3>2, <4>2, <5>1
        <5> QED BY <4>2, <5>2
      <4>3. CASE d # n /\ d # 0
        <5>1. d \in 0 .. k /\ d - 1 \in 0 .. n /\ d - 1 # n
          BY <3>1, <4>3
        <5>2. K[d] = UNION {Range(Work(u, p)) : p \in K[d - 1]}
          BY <3>2, <4>3, <5>1
        <5>3. L[d] = K[d] /\ L[d - 1] = K[d - 1]
          BY <4>3, <5>1
        <5> QED BY <4>3, <5>2, <5>3
      <4> QED BY <4>1, <4>2, <4>3
    <3>4. L = R
      <4>1. L = [d \in 0 .. n |-> L[d]] /\ R = [d \in 0 .. n |-> R[d]]
        OBVIOUS
      <4> HIDE DEF L, R
      <4> QED BY <3>3, <4>1
    <3>5. Is(L, n)
      <4> HIDE DEF L
      <4> QED BY <3>4
    <3> HIDE DEF Is
    <3> QED BY <2>1, <3>5
  <2> QED BY <2>2, <2>3
<1>2. \E L : IsLevels(u, L)
  <2>1. MaxDepth \in Nat /\ MaxDepth \notin Bad
    BY <1>1, ParserAssumption
  <2>2. PICK L : Is(L, MaxDepth)
    BY <2>1
  <2> QED BY <2>2 DEF IsLevels
<1> QED BY <1>2 DEF Levels

\* The promises of the map and those inside of them are in W.
Trees(u, W) == Built(W) /\ \A n \in DOMAIN u : u[n] \in W

LEMMA WorkIs ==
  ASSUME NEW u, NEW W, Trees(u, W), NEW p \in W
  PROVE  /\ p.children \in Seq(W) /\ Work(u, p) \in Seq(W)
         /\ Len(p.children) \in Nat /\ Len(Work(u, p)) \in Nat
         /\ DOMAIN p.children = 1 .. Len(p.children)
         /\ DOMAIN Work(u, p) = 1 .. Len(Work(u, p))
         /\ Range(Work(u, p)) \subseteq W
         /\ \A j \in 1 .. Len(Work(u, p)) : Work(u, p)[j] \in Range(Work(u, p))
<1>1. p.children \in Seq(W) /\ Work(u, p) \in Seq(W)
  BY DEF Trees, Built, HasParts, Work
<1> DEFINE s == Work(u, p)
           t == p.children
<1>2. s \in Seq(W) /\ t \in Seq(W)
  BY <1>1
<1> HIDE DEF s, t
<1>3. /\ Len(s) \in Nat /\ DOMAIN s = 1 .. Len(s) /\ \A j \in 1 .. Len(s) : s[j] \in W
      /\ Len(t) \in Nat /\ DOMAIN t = 1 .. Len(t)
  BY <1>2, LenProperties, ElementOfSeq
<1>4. Range(s) \subseteq W /\ \A j \in 1 .. Len(s) : s[j] \in Range(s)
  BY <1>3 DEF Range
<1> QED BY <1>2, <1>3, <1>4 DEF s, t

LEMMA LevelsAre ==
  ASSUME NEW u
  PROVE  /\ \A n \in DOMAIN u : Range(u[n].children) \subseteq Levels(u)[0]
         /\ \A q \in Levels(u)[0] : \E n \in DOMAIN u : q \in Range(u[n].children)
         /\ \A d \in 0 .. MaxDepth : d # 0 =>
              /\ \A p \in Levels(u)[d - 1] : Range(Work(u, p)) \subseteq Levels(u)[d]
              /\ \A q \in Levels(u)[d] : \E p \in Levels(u)[d - 1] : q \in Range(Work(u, p))
<1> DEFINE L == Levels(u)
<1>1. IsLevels(u, L)
  BY LevelsExist
<1> HIDE DEF L
<1>2. MaxDepth \in Nat
  BY ParserAssumption
<1>3. L[0] = UNION {Range(u[n].children) : n \in DOMAIN u}
  BY <1>1, <1>2 DEF IsLevels
<1>4. \A d \in 0 .. MaxDepth : d # 0 => L[d] = UNION {Range(Work(u, p)) : p \in L[d - 1]}
  BY <1>1 DEF IsLevels
<1>5. /\ \A n \in DOMAIN u : Range(u[n].children) \subseteq L[0]
      /\ \A q \in L[0] : \E n \in DOMAIN u : q \in Range(u[n].children)
  BY <1>3
<1>6. ASSUME NEW d \in 0 .. MaxDepth, d # 0
      PROVE  /\ \A p \in L[d - 1] : Range(Work(u, p)) \subseteq L[d]
             /\ \A q \in L[d] : \E p \in L[d - 1] : q \in Range(Work(u, p))
  BY <1>4, <1>6
<1> QED BY <1>5, <1>6 DEF L

\* A set that has the first level, and with a promise what that needs, has
\* all levels.
LEMMA LevelsIn ==
  ASSUME NEW u, NEW S,
         \A n \in DOMAIN u : Range(u[n].children) \subseteq S,
         \A p \in S : Range(Work(u, p)) \subseteq S
  PROVE  InnerOf(u) \subseteq S
<1> DEFINE L == Levels(u)
           Bad == {d \in 0 .. MaxDepth : ~ (L[d] \subseteq S)}
<1>0. MaxDepth \in Nat
  BY ParserAssumption
<1>1. /\ \A q \in L[0] : \E n \in DOMAIN u : q \in Range(u[n].children)
      /\ \A d \in 0 .. MaxDepth : d # 0 =>
           \A q \in L[d] : \E p \in L[d - 1] : q \in Range(Work(u, p))
  BY LevelsAre
<1> HIDE DEF L
<1>2. Bad = {}
  <2> SUFFICES ASSUME Bad # {} PROVE FALSE
    OBVIOUS
  <2>1. PICK d \in Bad : \A k \in Bad : d <= k
    <3> Bad \in SUBSET Nat
      BY <1>0
    <3> HIDE DEF Bad
    <3> QED BY LeastNumber
  <2>2. d # 0
    BY <1>1, <2>1
  <2>3. d - 1 \in 0 .. MaxDepth /\ d \in 0 .. MaxDepth /\ ~ (d <= d - 1)
    BY <1>0, <2>1, <2>2
  <2>4. L[d - 1] \subseteq S
    BY <2>1, <2>3
  <2>5. L[d] \subseteq S
    BY <1>1, <2>2, <2>3, <2>4
  <2> QED BY <2>1, <2>5
<1> QED BY <1>2 DEF InnerOf, L

LEMMA InnerIsBuilt ==
  ASSUME NEW u, NEW W, Trees(u, W)
  PROVE  /\ InnerOf(u) \subseteq W /\ IsFiniteSet(InnerOf(u))
         /\ (\A n \in DOMAIN u : u[n].name = n) => IsFiniteSet(DOMAIN u)
<1>1. \A n \in DOMAIN u : Range(u[n].children) \subseteq W
  <2> TAKE n \in DOMAIN u
  <2>1. u[n].children \in Seq(W)
    BY DEF Trees, Built, HasParts
  <2> DEFINE s == u[n].children
  <2>2. s \in Seq(W)
    BY <2>1
  <2> HIDE DEF s
  <2>3. Range(s) \subseteq W
    BY <2>2, LenProperties, ElementOfSeq DEF Range
  <2> QED BY <2>3 DEF s
<1>2. \A p \in W : Range(Work(u, p)) \subseteq W
  BY WorkIs
<1>3. InnerOf(u) \subseteq W
  BY <1>1, <1>2, LevelsIn
<1>4. IsFiniteSet(W)
  BY DEF Trees, Built
<1>5. IsFiniteSet(InnerOf(u))
  BY <1>3, <1>4, FS_Subset
<1>6. ASSUME \A n \in DOMAIN u : u[n].name = n
      PROVE  IsFiniteSet(DOMAIN u)
  <2> DEFINE f == [n \in DOMAIN u |-> u[n]]
  <2>1. f \in Injection(DOMAIN u, W)
    <3>1. f \in [DOMAIN u -> W]
      BY DEF Trees
    <3>2. \A a, b \in DOMAIN u : f[a] = f[b] => a = b
      BY <1>6
    <3> HIDE DEF f
    <3> QED BY <3>1, <3>2 DEF Injection, IsInjective
  <2> QED BY <1>4, <2>1, FS_Injection
<1> QED BY <1>3, <1>5, <1>6

(***************************************************************************)
(* A promise is stuck if resolving it meets one that cannot be built, or   *)
(* does not end: it is in a set each of which is wrong or needs another of *)
(* the set.                                                                *)
(***************************************************************************)

\* New, for given promises of the user.
Accepts(u, p) ==
  /\ p.name \in DOMAIN Builtins
  /\ Len(p.children) \in Builtins[p.name].children
  /\ Len(p.args) \in Builtins[p.name].args
  /\ \A i \in DOMAIN p.children :
       IF p.children[i].name \in DOMAIN u THEN "named" \in Builtins[p.name].takes
       ELSE /\ p.children[i].name \in DOMAIN Builtins
            /\ Builtins[p.children[i].name].kind \in Builtins[p.name].takes

LEMMA NewAccepts == \A p : New(p) <=> Accepts(unresolved, p)
BY DEF New, Accepts, IsA, IsNamed

Wrong(u, p) ==
  IF p.name \in DOMAIN u THEN Len(u[p.name].children) # 1 ELSE ~ Accepts(u, p)

Stuck(u, p) ==
  \E T : p \in T /\ \A q \in T : Wrong(u, q) \/ \E r \in T : r \in Range(Work(u, q))

LEMMA StuckIff ==
  ASSUME NEW u, NEW p
  PROVE  Stuck(u, p) <=> Wrong(u, p) \/ \E r \in Range(Work(u, p)) : Stuck(u, r)
<1>1. ASSUME Stuck(u, p)
      PROVE  Wrong(u, p) \/ \E r \in Range(Work(u, p)) : Stuck(u, r)
  <2>1. PICK T : p \in T /\ \A q \in T : Wrong(u, q) \/ \E r \in T : r \in Range(Work(u, q))
    BY <1>1 DEF Stuck
  <2>2. \A r \in T : Stuck(u, r)
    BY <2>1 DEF Stuck
  <2> QED BY <2>1, <2>2
<1>2. ASSUME Wrong(u, p) PROVE Stuck(u, p)
  <2> DEFINE T == {p}
  <2>1. p \in T /\ \A q \in T : Wrong(u, q)
    BY <1>2
  <2> HIDE DEF T
  <2> QED BY <2>1 DEF Stuck
<1>3. ASSUME NEW r \in Range(Work(u, p)), Stuck(u, r) PROVE Stuck(u, p)
  <2>1. PICK T : r \in T /\ \A q \in T : Wrong(u, q) \/ \E x \in T : x \in Range(Work(u, q))
    BY <1>3 DEF Stuck
  <2> DEFINE X == T \cup {p}
  <2>2. p \in X /\ \A q \in X : Wrong(u, q) \/ \E x \in X : x \in Range(Work(u, q))
    BY <1>3, <2>1
  <2> HIDE DEF X
  <2> QED BY <2>2 DEF Stuck
<1> QED BY <1>1, <1>2, <1>3

\* If nothing that is named is stuck, all is sound and there is no cycle.
LEMMA NotStuck ==
  ASSUME NEW W, Trees(unresolved, W),
         \A n \in DOMAIN unresolved :
           /\ Len(unresolved[n].children) = 1
           /\ ~ Stuck(unresolved, unresolved[n].children[1])
  PROVE  Sound /\ Acyclic
<1> DEFINE u == unresolved
           S == {p \in W : ~ Stuck(u, p)}
<1>1. \A n \in DOMAIN u : Range(u[n].children) \subseteq S
  <2> TAKE n \in DOMAIN u
  <2>1. u[n] \in W /\ u[n].children \in Seq(W)
    BY DEF Trees, Built, HasParts
  <2> DEFINE s == u[n].children
  <2>2. s \in Seq(W) /\ Len(s) = 1 /\ ~ Stuck(u, s[1])
    BY <2>1
  <2> HIDE DEF s, u
  <2>3. DOMAIN s = 1 .. 1 /\ s[1] \in W
    BY <2>2, LenProperties, ElementOfSeq
  <2>4. Range(s) \subseteq S
    BY <2>2, <2>3 DEF Range
  <2> QED BY <2>4 DEF s
<1>2. \A p \in S : Range(Work(u, p)) \subseteq S
  <2> TAKE p \in S
  <2>1. Range(Work(u, p)) \subseteq W
    BY WorkIs
  <2>2. \A r \in Range(Work(u, p)) : ~ Stuck(u, r)
    BY StuckIff
  <2> QED BY <2>1, <2>2
<1>3. Inner \subseteq S
  <2> HIDE DEF S, u
  <2>1. InnerOf(u) \subseteq S
    BY <1>1, <1>2, LevelsIn
  <2> QED BY <2>1, InnerIs DEF u
<1>4. Sound
  <2>1. \A p \in Inner : ~ Wrong(u, p)
    BY <1>3, StuckIff
  <2>2. \A p \in Inner : p.name \in DOMAIN unresolved \/ New(p)
    BY <2>1, NewAccepts DEF Wrong
  <2> QED BY <2>2 DEF Sound
<1>5. Acyclic
  <2> SUFFICES ASSUME NEW T \in (SUBSET Inner) \ {{}}
               PROVE  \E p \in T : Needs(p) \cap T = {}
    BY DEF Acyclic
  <2> SUFFICES ASSUME \A p \in T : Needs(p) \cap T # {} PROVE FALSE
    OBVIOUS
  <2>1. PICK p \in T : TRUE
    OBVIOUS
  <2>2. \A q \in T : \E r \in T : r \in Range(Work(u, q))
    BY NeedsAre
  <2>3. Stuck(u, p)
    BY <2>1, <2>2 DEF Stuck
  <2>4. p \in S
    BY <1>3, <2>1
  <2> QED BY <2>3, <2>4
<1> QED BY <1>4, <1>5

(***************************************************************************)
(* The stack of the resolver: each frame has called the next for the       *)
(* promise that it wants next, and what it has wanted before is not stuck. *)
(***************************************************************************)
Todo(u, f) == IF f.fn = "resolvePrimary" THEN f.local.promise.children
              ELSE Work(u, f.local.promise)

\* Of these f resolves one.
Single(u, f) == f.fn = "resolvePrimary" \/ f.local.promise.name \in DOMAIN u

FrameOK(u, f, i) ==
  /\ f.fn \in {"resolve", "resolvePrimary"}
  /\ "promise" \in DOMAIN f.local /\ "done" \in DOMAIN f.local
  /\ f.local.done \in Nat
  /\ f.fn = "resolvePrimary" => \E n \in DOMAIN u : f.local.promise = u[n]
  /\ f.fn = "resolve" =>
       \E d \in 0 .. MaxDepth : d < i /\ f.local.promise \in Levels(u)[d]

Finished(u, f, k) ==
  /\ k \in Nat
  /\ k > 0 /\ Single(u, f) => k = 1 /\ Len(Todo(u, f)) = 1
  /\ \A j \in 1 .. k : ~ Stuck(u, Todo(u, f)[j])

CallsNext(u, f, g) ==
  /\ f.local.done >= 1
  /\ Single(u, f) => f.local.done = 1
  /\ ~ Single(u, f) => f.local.done <= Len(Todo(u, f))
  /\ f.fn = "resolvePrimary" => Len(Todo(u, f)) = 1
  /\ IF f.fn = "resolve" /\ Single(u, f)
     THEN g.fn = "resolvePrimary" /\ g.local.promise = u[f.local.promise.name]
     ELSE g.fn = "resolve" /\ g.local.promise = Todo(u, f)[f.local.done]

Chain(u, fr) ==
  /\ IsSequence(fr) /\ Len(fr) <= MaxDepth
  /\ \A i \in 1 .. Len(fr) : FrameOK(u, fr[i], i)
  /\ Len(fr) >= 1 => fr[1].fn = "resolvePrimary"
  /\ \A i \in 1 .. Len(fr) - 1 : /\ CallsNext(u, fr[i], fr[i + 1])
                                 /\ Finished(u, fr[i], fr[i].local.done - 1)
  /\ Len(fr) >= 1 => Finished(u, fr[Len(fr)], fr[Len(fr)].local.done)

LEMMA ChainEmpty == \A u : Chain(u, <<>>)
<1>1. IsSequence(<<>>) /\ Len(<<>>) = 0
  BY EmptySeq DEF IsSequence
<1> QED BY <1>1, ParserAssumption DEF Chain

LEMMA ChainLen ==
  ASSUME NEW u, NEW fr, Chain(u, fr)
  PROVE  /\ Len(fr) \in Nat /\ Len(fr) <= MaxDepth /\ MaxDepth \in Nat
         /\ DOMAIN fr = 1 .. Len(fr)
         /\ fr = <<>> <=> Len(fr) = 0
BY LenProperties, EmptySeq, ParserAssumption DEF Chain, IsSequence

\* A call: w is the last frame when it has noted the call, x the new one.
LEMMA ChainCall ==
  ASSUME NEW u, NEW fr, Chain(u, fr), fr # <<>>, Len(fr) < MaxDepth,
         NEW w, w.fn = fr[Len(fr)].fn,
         w.local = [fr[Len(fr)].local EXCEPT !.done = @ + 1],
         NEW x, FrameOK(u, x, Len(fr) + 1), x.local.done = 0, CallsNext(u, w, x)
  PROVE  Chain(u, Append(Append(Front(fr), w), x))
<1> DEFINE n == Len(fr)
           f == fr[n]
           s == Append(Front(fr), w)
           r == Append(s, x)
<1>0. /\ n \in Nat /\ n >= 1 /\ n < MaxDepth /\ MaxDepth \in Nat
      /\ IsSequence(fr) /\ n \in 1 .. n
  <2>1. n \in Nat /\ n < MaxDepth /\ MaxDepth \in Nat /\ n # 0
    BY ChainLen
  <2>2. IsSequence(fr)
    BY DEF Chain
  <2> HIDE DEF n
  <2> QED BY <2>1, <2>2
<1>1. Going(s, fr, w)
  BY <1>0, Replaced
<1>2. IsSequence(s) /\ Len(s) = n /\ (\A i \in 1 .. n - 1 : s[i] = fr[i]) /\ s[n] = w
  BY <1>1 DEF Going
<1> HIDE DEF s
<1>3. Calling(r, s, x)
  BY <1>2, Pushed
<1>4. IsSequence(r) /\ Len(r) = n + 1 /\ (\A i \in 1 .. n : r[i] = s[i]) /\ r[n + 1] = x
  BY <1>2, <1>3 DEF Calling
<1> HIDE DEF r
<1>5. (\A i \in 1 .. n - 1 : r[i] = fr[i]) /\ r[n] = w /\ r[n + 1] = x
  BY <1>0, <1>2, <1>4
<1>6. /\ \A i \in 1 .. n : FrameOK(u, fr[i], i)
      /\ fr[1].fn = "resolvePrimary"
      /\ \A i \in 1 .. n - 1 : /\ CallsNext(u, fr[i], fr[i + 1])
                               /\ Finished(u, fr[i], fr[i].local.done - 1)
      /\ Finished(u, f, f.local.done)
  BY <1>0 DEF Chain
<1>f. FrameOK(u, f, n)
  BY <1>0, <1>6
<1> HIDE DEF f
<1>7. /\ w.fn = f.fn /\ w.local.promise = f.local.promise
      /\ w.local.done = f.local.done + 1 /\ f.local.done \in Nat
      /\ DOMAIN w.local = DOMAIN f.local
  <2>1. /\ "promise" \in DOMAIN f.local /\ "done" \in DOMAIN f.local
        /\ f.local.done \in Nat
    BY <1>f DEF FrameOK
  <2>2. w.local = [f.local EXCEPT !.done = @ + 1] /\ w.fn = f.fn
    BY DEF f
  <2> QED BY <2>1, <2>2
<1>8. FrameOK(u, w, n)
  BY <1>7, <1>f DEF FrameOK
<1>9. Todo(u, w) = Todo(u, f) /\ (Single(u, w) <=> Single(u, f))
  BY <1>7 DEF Todo, Single
<1>10. Finished(u, w, w.local.done - 1)
  <2>1. w.local.done - 1 = f.local.done
    BY <1>7
  <2> QED BY <1>6, <1>9, <2>1 DEF Finished
<1>11. Finished(u, x, x.local.done)
  <2>1. \A j \in 1 .. 0 : FALSE
    OBVIOUS
  <2> QED BY <2>1 DEF Finished
<1>12. \A i \in 1 .. Len(r) : FrameOK(u, r[i], i)
  <2> TAKE i \in 1 .. Len(r)
  <2>1. CASE i \in 1 .. n - 1
    <3>1. i \in 1 .. n
      BY <1>0, <2>1
    <3> QED BY <1>5, <1>6, <2>1, <3>1
  <2>2. CASE i = n
    BY <1>5, <1>8, <2>2
  <2>3. CASE i = n + 1
    BY <1>5, <2>3
  <2> QED BY <1>0, <1>4, <2>1, <2>2, <2>3
<1>13. \A i \in 1 .. Len(r) - 1 : /\ CallsNext(u, r[i], r[i + 1])
                                  /\ Finished(u, r[i], r[i].local.done - 1)
  <2> TAKE i \in 1 .. Len(r) - 1
  <2>1. CASE i = n
    BY <1>5, <1>10, <2>1
  <2>2. CASE i \in 1 .. n - 1
    <3>1. r[i] = fr[i] /\ Finished(u, r[i], r[i].local.done - 1) /\ CallsNext(u, fr[i], fr[i + 1])
      BY <1>5, <1>6, <2>2
    <3>2. CASE i + 1 \in 1 .. n - 1
      BY <1>5, <3>1, <3>2
    <3>3. CASE i + 1 = n
      <4>1. CallsNext(u, fr[i], f) /\ r[i + 1] = w
        BY <1>5, <3>1, <3>3 DEF f
      <4>2. CallsNext(u, fr[i], w)
        BY <1>7, <4>1 DEF CallsNext
      <4> QED BY <3>1, <4>1, <4>2
    <3> QED BY <1>0, <2>2, <3>2, <3>3
  <2> QED BY <1>0, <1>4, <2>1, <2>2
<1>14. r[1].fn = "resolvePrimary"
  <2>1. CASE n = 1
    BY <1>5, <1>6, <1>7, <2>1 DEF f
  <2>2. CASE n # 1
    <3>1. 1 \in 1 .. n - 1
      <4>1. n \in Nat /\ n >= 1
        BY <1>0
      <4> HIDE DEF n
      <4> QED BY <2>2, <4>1
    <3> QED BY <1>5, <1>6, <3>1
  <2> QED BY <2>1, <2>2
<1>15. Chain(u, r)
  <2>1. Len(r) <= MaxDepth /\ Finished(u, r[Len(r)], r[Len(r)].local.done)
    BY <1>0, <1>4, <1>5, <1>11
  <2> QED BY <1>4, <1>12, <1>13, <1>14, <2>1 DEF Chain
<1> QED BY <1>15 DEF r, s

\* A return: the last frame has resolved its promise.
LEMMA ChainReturn ==
  ASSUME NEW u, NEW fr, Chain(u, fr), fr # <<>>,
         LET f == fr[Len(fr)]
         IN  IF f.fn = "resolve" THEN ~ Stuck(u, f.local.promise)
             ELSE Len(Todo(u, f)) = 1 /\ ~ Stuck(u, Todo(u, f)[1])
  PROVE  Chain(u, Front(fr))
<1> DEFINE n == Len(fr)
           f == fr[n]
           m == n - 1
           g == fr[m]
           r == Front(fr)
<1>0. /\ n \in Nat /\ n >= 1 /\ n <= MaxDepth /\ MaxDepth \in Nat
      /\ IsSequence(fr) /\ n \in 1 .. n
  <2>1. n \in Nat /\ n <= MaxDepth /\ MaxDepth \in Nat /\ n # 0
    BY ChainLen
  <2>2. IsSequence(fr)
    BY DEF Chain
  <2> HIDE DEF n
  <2> QED BY <2>1, <2>2
<1>1. Returning(r, fr)
  BY <1>0, Popped
<1>2. IsSequence(r) /\ Len(r) = n - 1 /\ \A i \in 1 .. n - 1 : r[i] = fr[i]
  BY <1>1 DEF Returning
<1> HIDE DEF r
<1>3. /\ \A i \in 1 .. n : FrameOK(u, fr[i], i)
      /\ fr[1].fn = "resolvePrimary"
      /\ \A i \in 1 .. n - 1 : /\ CallsNext(u, fr[i], fr[i + 1])
                               /\ Finished(u, fr[i], fr[i].local.done - 1)
  BY <1>0 DEF Chain
<1>4. /\ Len(r) <= MaxDepth
      /\ \A i \in 1 .. Len(r) : FrameOK(u, r[i], i)
      /\ Len(r) >= 1 => r[1].fn = "resolvePrimary"
      /\ \A i \in 1 .. Len(r) - 1 : /\ CallsNext(u, r[i], r[i + 1])
                                    /\ Finished(u, r[i], r[i].local.done - 1)
  <2>1. \A i \in 1 .. Len(r) : i \in 1 .. n /\ r[i] = fr[i]
    BY <1>0, <1>2
  <2>2. \A i \in 1 .. Len(r) - 1 : i \in 1 .. n - 1 /\ r[i] = fr[i] /\ r[i + 1] = fr[i + 1]
    BY <1>0, <1>2
  <2>3. Len(r) >= 1 => 1 \in 1 .. Len(r)
    BY <1>0, <1>2
  <2> HIDE DEF f, g, m, n
  <2>4. Len(r) <= MaxDepth
    BY <1>0, <1>2
  <2>5. \A i \in 1 .. Len(r) : FrameOK(u, r[i], i)
    BY <1>3, <2>1
  <2>6. Len(r) >= 1 => r[1].fn = "resolvePrimary"
    BY <1>3, <2>1, <2>3
  <2>7. ASSUME NEW i \in 1 .. Len(r) - 1
        PROVE  CallsNext(u, r[i], r[i + 1]) /\ Finished(u, r[i], r[i].local.done - 1)
    <3>1. i \in 1 .. n - 1 /\ r[i] = fr[i] /\ r[i + 1] = fr[i + 1]
      BY <2>2
    <3>2. CallsNext(u, fr[i], fr[i + 1]) /\ Finished(u, fr[i], fr[i].local.done - 1)
      BY <1>3, <3>1
    <3> QED BY <3>1, <3>2
  <2> QED BY <2>4, <2>5, <2>6, <2>7
<1>5. ASSUME Len(r) >= 1 PROVE Finished(u, r[Len(r)], r[Len(r)].local.done)
  <2>1. m \in 1 .. n - 1 /\ m \in 1 .. n /\ m + 1 = n /\ r[Len(r)] = g
    BY <1>0, <1>2, <1>5
  <2>2. CallsNext(u, g, f) /\ Finished(u, g, g.local.done - 1) /\ FrameOK(u, g, m)
    <3>1. CallsNext(u, fr[m], fr[m + 1])
      BY <1>3, <2>1
    <3> QED BY <1>3, <2>1, <3>1
  <2>3. IF f.fn = "resolve" THEN ~ Stuck(u, f.local.promise)
        ELSE Len(Todo(u, f)) = 1 /\ ~ Stuck(u, Todo(u, f)[1])
    OBVIOUS
  <2> HIDE DEF f, g, m
  <2> DEFINE k == g.local.done
  <2>4. k \in Nat /\ k >= 1
    BY <2>2 DEF FrameOK, CallsNext
  <2>5. CASE Single(u, g)
    <3>1. k = 1
      BY <2>2, <2>5 DEF CallsNext
    <3>2. Len(Todo(u, g)) = 1 /\ ~ Stuck(u, Todo(u, g)[1])
      <4>1. CASE g.fn = "resolve"
        <5>1. f.fn = "resolvePrimary" /\ f.local.promise = u[g.local.promise.name]
          BY <2>2, <2>5, <4>1 DEF CallsNext
        <5>2. Todo(u, f) = Todo(u, g)
          BY <2>5, <4>1, <5>1 DEF Todo, Work, Single
        <5> QED BY <2>3, <5>1, <5>2
      <4>2. CASE g.fn # "resolve"
        <5>1. g.fn = "resolvePrimary"
          BY <2>2, <4>2 DEF FrameOK
        <5> QED BY <2>2, <2>3, <3>1, <5>1 DEF CallsNext
      <4> QED BY <4>1, <4>2
    <3>3. \A j \in 1 .. 1 : j = 1
      OBVIOUS
    <3>4. Finished(u, g, 1)
      BY <3>2, <3>3 DEF Finished
    <3> QED BY <2>1, <3>1, <3>4
  <2>6. CASE ~ Single(u, g)
    <3>1. f.fn = "resolve" /\ f.local.promise = Todo(u, g)[k]
      BY <2>2, <2>6 DEF CallsNext
    <3>2. \A j \in 1 .. k : j = k \/ j \in 1 .. k - 1
      BY <2>4
    <3>3. \A j \in 1 .. k : ~ Stuck(u, Todo(u, g)[j])
      BY <2>2, <2>3, <3>1, <3>2 DEF Finished
    <3>4. Finished(u, g, k)
      BY <2>4, <2>6, <3>3 DEF Finished
    <3> QED BY <2>1, <3>4
  <2> QED BY <2>5, <2>6
<1>6. Chain(u, r)
  BY <1>2, <1>4, <1>5 DEF Chain
<1> QED BY <1>6 DEF r

LEMMA ChainStart ==
  ASSUME NEW u, MaxDepth > 0, NEW n \in DOMAIN u, NEW x, x.fn = "resolvePrimary",
         "promise" \in DOMAIN x.local, "done" \in DOMAIN x.local,
         x.local.promise = u[n], x.local.done = 0
  PROVE  Chain(u, <<x>>)
<1> DEFINE r == <<x>>
<1>1. r \in Seq({x}) /\ Len(r) = 1 /\ r[1] = x
  OBVIOUS
<1> HIDE DEF r
<1>2. IsSequence(r)
  BY <1>1 DEF IsSequence
<1>3. FrameOK(u, x, 1)
  BY DEF FrameOK
<1>4. Finished(u, x, 0)
  <2>1. \A j \in 1 .. 0 : FALSE
    OBVIOUS
  <2> QED BY <2>1 DEF Finished
<1>5. \A i \in 1 .. Len(r) : r[i] = x /\ i = 1
  BY <1>1
<1>6. \A i \in 1 .. Len(r) - 1 : FALSE
  BY <1>1
<1>7. MaxDepth \in Nat
  BY ParserAssumption
<1>8. Chain(u, r)
  BY <1>1, <1>2, <1>3, <1>4, <1>5, <1>6, <1>7 DEF Chain
<1> QED BY <1>8 DEF r

(***************************************************************************)
(* A stack on which a call is repeated has a cycle: the promises that are  *)
(* resolved between the two each need another of these.                    *)
(***************************************************************************)
LEMMA ChainNext ==
  ASSUME NEW u, NEW W, Trees(u, W), NEW fr, Chain(u, fr),
         NEW i \in 1 .. Len(fr) - 1
  PROVE  /\ fr[i].fn = "resolvePrimary" =>
              /\ fr[i + 1].fn = "resolve"
              /\ fr[i + 1].local.promise \in Range(fr[i].local.promise.children)
         /\ fr[i].fn = "resolve" /\ fr[i + 1].fn = "resolve" =>
              fr[i + 1].local.promise \in Range(Work(u, fr[i].local.promise))
         /\ fr[i].fn = "resolve" /\ fr[i + 1].fn = "resolvePrimary" =>
              /\ fr[i].local.promise.name \in DOMAIN u
              /\ fr[i + 1].local.promise = u[fr[i].local.promise.name]
              /\ fr[i + 1].local.promise.children = Work(u, fr[i].local.promise)
<1> DEFINE f == fr[i]
           g == fr[i + 1]
<1>0. Len(fr) \in Nat /\ i \in 1 .. Len(fr)
  BY ChainLen
<1>1. FrameOK(u, f, i) /\ CallsNext(u, f, g)
  BY <1>0 DEF Chain
<1> HIDE DEF f, g
<1>2. f.local.promise \in W
  <2>1. CASE f.fn = "resolvePrimary"
    BY <1>1, <2>1 DEF FrameOK, Trees
  <2>2. CASE f.fn = "resolve"
    <3>1. f.local.promise \in InnerOf(u)
      BY <1>1, <2>2 DEF FrameOK, InnerOf
    <3> QED BY <3>1, InnerIsBuilt
  <2> QED BY <1>1, <2>1, <2>2 DEF FrameOK
<1>3. CASE f.fn = "resolvePrimary"
  <2> DEFINE s == f.local.promise.children
  <2>1. s \in Seq(W) /\ Len(s) = 1 /\ f.local.done = 1
    BY <1>1, <1>2, <1>3, WorkIs DEF CallsNext, Todo, Single
  <2>2. g.fn = "resolve" /\ g.local.promise = s[1]
    BY <1>1, <1>3, <2>1 DEF CallsNext, Todo
  <2> HIDE DEF s
  <2>3. s[1] \in Range(s)
    BY <2>1, LenProperties DEF Range
  <2> QED BY <1>3, <2>2, <2>3 DEF s, f, g
<1>4. CASE f.fn = "resolve" /\ Single(u, f)
  <2>1. /\ g.fn = "resolvePrimary" /\ g.local.promise = u[f.local.promise.name]
        /\ f.local.promise.name \in DOMAIN u
    BY <1>1, <1>4 DEF CallsNext, Single
  <2> QED BY <1>4, <2>1 DEF Work, f, g
<1>5. CASE f.fn = "resolve" /\ ~ Single(u, f)
  <2> DEFINE s == Work(u, f.local.promise)
             k == f.local.done
  <2>1. /\ g.fn = "resolve" /\ g.local.promise = s[k]
        /\ k \in Nat /\ k >= 1 /\ k <= Len(s)
    BY <1>1, <1>5 DEF CallsNext, Todo, FrameOK
  <2>2. Len(s) \in Nat /\ \A j \in 1 .. Len(s) : s[j] \in Range(s)
    BY <1>2, WorkIs
  <2> HIDE DEF s, k
  <2>3. s[k] \in Range(s)
    BY <2>1, <2>2
  <2> QED BY <1>5, <2>1, <2>3 DEF s, f, g
<1> QED BY <1>1, <1>3, <1>4, <1>5 DEF FrameOK

LEMMA RepeatedCall ==
  ASSUME NEW W, Trees(unresolved, W), Chain(unresolved, frames), Acyclic,
         NEW i \in 1 .. Len(frames), NEW j \in 1 .. Len(frames), i < j,
         frames[i].fn = frames[j].fn,
         frames[i].local.promise = frames[j].local.promise
  PROVE  FALSE
<1> DEFINE u == unresolved
           fn(l) == frames[l].fn
           p(l) == frames[l].local.promise
           S == {p(l) : l \in {k \in i .. j : fn(k) = "resolve"}}
<1>0. /\ Len(frames) \in Nat
      /\ \A l \in 1 .. Len(frames) : FrameOK(u, frames[l], l)
  BY ChainLen DEF Chain
<1>1. \A l \in i .. j : fn(l) \in {"resolve", "resolvePrimary"} /\ l \in 1 .. Len(frames)
  BY <1>0 DEF FrameOK
<1>2. \A l \in i .. j - 1 :
        /\ fn(l) = "resolvePrimary" => fn(l + 1) = "resolve" /\ p(l + 1) \in Range(p(l).children)
        /\ fn(l) = "resolve" /\ fn(l + 1) = "resolve" => p(l + 1) \in Range(Work(u, p(l)))
        /\ fn(l) = "resolve" /\ fn(l + 1) = "resolvePrimary" =>
             p(l + 1).children = Work(u, p(l))
  <2> TAKE l \in i .. j - 1
  <2>1. l \in 1 .. Len(frames) - 1
    BY <1>0
  <2> HIDE DEF u
  <2> QED BY <2>1, ChainNext DEF u
<1>3. S \subseteq Inner
  <2>1. \A l \in 1 .. Len(frames) : fn(l) = "resolve" => p(l) \in InnerOf(u)
    BY <1>0 DEF FrameOK, InnerOf
  <2> QED BY <1>1, <2>1, InnerIs
<1> HIDE DEF fn, p, u
<1>4. ASSUME NEW l \in i .. j - 1, fn(l) = "resolve"
      PROVE  Range(Work(u, p(l))) \cap S # {}
  <2>0. l + 1 \in i .. j /\ l \in i .. j
    BY <1>0
  <2>1. CASE fn(l + 1) = "resolve"
    BY <1>2, <1>4, <2>0, <2>1
  <2>2. CASE fn(l + 1) = "resolvePrimary" /\ l + 1 < j
    <3>1. l + 1 \in i .. j - 1 /\ (l + 1) + 1 = l + 2 /\ l + 2 \in i .. j
      BY <1>0, <2>2
    <3>2. fn(l + 2) = "resolve" /\ p(l + 2) \in Range(p(l + 1).children)
      BY <1>2, <2>2, <3>1
    <3>3. p(l + 1).children = Work(u, p(l))
      BY <1>2, <1>4, <2>2
    <3> QED BY <3>1, <3>2, <3>3
  <2>3. CASE fn(l + 1) = "resolvePrimary" /\ l + 1 = j
    <3>1. fn(i) = "resolvePrimary" /\ p(i) = p(l + 1)
      BY <2>3 DEF fn, p
    <3>2. i \in i .. j - 1 /\ i + 1 \in i .. j
      BY <1>0
    <3>3. fn(i + 1) = "resolve" /\ p(i + 1) \in Range(p(l + 1).children)
      BY <1>2, <3>1, <3>2
    <3>4. p(l + 1).children = Work(u, p(l))
      BY <1>2, <1>4, <2>3
    <3> QED BY <3>2, <3>3, <3>4
  <2>4. l + 1 < j \/ l + 1 = j
    BY <1>0
  <2> QED BY <1>1, <2>0, <2>1, <2>2, <2>3, <2>4
<1>5. ASSUME NEW q \in S PROVE Range(Work(u, q)) \cap S # {}
  <2>1. PICK l \in i .. j : fn(l) = "resolve" /\ q = p(l)
    OBVIOUS
  <2>2. CASE l < j
    <3>1. l \in i .. j - 1
      BY <1>0, <2>2
    <3> QED BY <1>4, <2>1, <3>1
  <2>3. CASE l = j
    <3>1. fn(i) = "resolve" /\ q = p(i) /\ i \in i .. j - 1
      BY <1>0, <2>1, <2>3 DEF fn, p
    <3> QED BY <1>4, <3>1
  <2> QED BY <1>0, <2>1, <2>2, <2>3
<1>6. S # {}
  <2>1. CASE fn(i) = "resolve"
    <3>1. i \in i .. j
      BY <1>0
    <3> QED BY <2>1, <3>1
  <2>2. CASE fn(i) = "resolvePrimary"
    <3>1. i \in i .. j - 1 /\ i + 1 \in i .. j
      BY <1>0
    <3>2. fn(i + 1) = "resolve"
      BY <1>2, <2>2, <3>1
    <3> QED BY <3>1, <3>2
  <2>3. i \in i .. j
    BY <1>0
  <2> QED BY <1>1, <2>1, <2>2, <2>3
<1> HIDE DEF S
<1>7. PICK q \in S : Needs(q) \cap S = {}
  BY <1>3, <1>6 DEF Acyclic
<1> QED BY <1>5, <1>7, NeedsAre DEF u

\* So without a cycle each frame is for another promise.
LEMMA StackBound ==
  ASSUME NEW W, Trees(unresolved, W), Chain(unresolved, frames), Acyclic,
         \A n \in DOMAIN unresolved : unresolved[n].name = n
  PROVE  Len(frames) <= Cardinality(DOMAIN unresolved) + Cardinality(Inner)
<1> DEFINE N == DOMAIN unresolved
           A == {1} \X N
           B == {2} \X Inner
           p(i) == frames[i].local.promise
           h == [i \in 1 .. Len(frames) |->
                   IF frames[i].fn = "resolve" THEN <<2, p(i)>> ELSE <<1, p(i).name>>]
<1>0. /\ Len(frames) \in Nat
      /\ \A l \in 1 .. Len(frames) : FrameOK(unresolved, frames[l], l)
  BY ChainLen DEF Chain
<1>1. IsFiniteSet(N) /\ IsFiniteSet(Inner)
  BY InnerIsBuilt, InnerIs
<1>2. /\ Cardinality(N) \in Nat /\ Cardinality(Inner) \in Nat
      /\ IsFiniteSet(A) /\ Cardinality(A) = Cardinality(N)
      /\ IsFiniteSet(B) /\ Cardinality(B) = Cardinality(Inner)
  <2>1. Cardinality(N) \in Nat /\ Cardinality(Inner) \in Nat
    BY <1>1, FS_CardinalityType
  <2>2. \A k : IsFiniteSet({k}) /\ Cardinality({k}) = 1
    BY FS_Singleton
  <2>3. IsFiniteSet(A) /\ Cardinality(A) = 1 * Cardinality(N)
    <3> HIDE DEF N
    <3>1. IsFiniteSet({1} \X N) /\ Cardinality({1} \X N) = Cardinality({1}) * Cardinality(N)
      BY <1>1, <2>2, FS_Product
    <3> QED BY <2>2, <3>1
  <2>4. IsFiniteSet(B) /\ Cardinality(B) = 1 * Cardinality(Inner)
    <3>1. IsFiniteSet({2} \X Inner) /\
            Cardinality({2} \X Inner) = Cardinality({2}) * Cardinality(Inner)
      BY <1>1, <2>2, FS_Product
    <3> QED BY <2>2, <3>1
  <2> HIDE DEF A, B, N
  <2> QED BY <2>1, <2>3, <2>4
<1>3. IsFiniteSet(A \cup B) /\ Cardinality(A \cup B) = Cardinality(N) + Cardinality(Inner)
  <2>1. A \cap B = {}
    OBVIOUS
  <2> HIDE DEF A, B, N
  <2>2. IsFiniteSet(A \cup B) /\ Cardinality(A \cup B) =
          Cardinality(A) + Cardinality(B) - Cardinality(A \cap B)
    BY <1>2, FS_Union
  <2>3. Cardinality(A \cap B) = 0
    BY <2>1, FS_EmptySet
  <2> QED BY <1>2, <2>2, <2>3
<1>4. ASSUME NEW i \in 1 .. Len(frames)
      PROVE  /\ h[i] \in A \cup B
             /\ frames[i].fn # "resolve" => frames[i].fn = "resolvePrimary" /\ p(i) = unresolved[p(i).name]
  <2>1. CASE frames[i].fn = "resolve"
    <3>1. p(i) \in Inner
      BY <1>0, <2>1, InnerIs DEF FrameOK, InnerOf
    <3> QED BY <2>1, <3>1
  <2>2. CASE frames[i].fn # "resolve"
    <3>1. frames[i].fn = "resolvePrimary" /\ \E n \in N : p(i) = unresolved[n]
      BY <1>0, <2>2 DEF FrameOK
    <3>2. p(i).name \in N /\ p(i) = unresolved[p(i).name]
      BY <3>1
    <3> QED BY <2>2, <3>1, <3>2
  <2> QED BY <2>1, <2>2
<1>5. ASSUME NEW i \in 1 .. Len(frames), NEW j \in 1 .. Len(frames), h[i] = h[j]
      PROVE  frames[i].fn = frames[j].fn /\ p(i) = p(j)
  <2>1. CASE frames[i].fn = "resolve"
    <3>1. h[i] = <<2, p(i)>>
      BY <2>1
    <3>2. frames[j].fn = "resolve"
      BY <1>5, <3>1
    <3> QED BY <1>5, <2>1, <3>1, <3>2
  <2>2. CASE frames[i].fn # "resolve"
    <3>1. h[i] = <<1, p(i).name>>
      BY <2>2
    <3>2. frames[j].fn # "resolve"
      BY <1>5, <3>1
    <3>3. p(i).name = p(j).name
      BY <1>5, <3>1, <3>2
    <3> HIDE DEF h, p, A, B
    <3>4. /\ frames[i].fn = "resolvePrimary" /\ p(i) = unresolved[p(i).name]
          /\ frames[j].fn = "resolvePrimary" /\ p(j) = unresolved[p(j).name]
      BY <1>4, <2>2, <3>2
    <3> QED BY <3>3, <3>4
  <2> QED BY <2>1, <2>2
<1>6. h \in Injection(1 .. Len(frames), A \cup B)
  <2>1. h \in [1 .. Len(frames) -> A \cup B]
    <3>1. h = [i \in 1 .. Len(frames) |-> h[i]]
      OBVIOUS
    <3> HIDE DEF h, A, B
    <3> QED BY <1>4, <3>1
  <2>2. \A i, j \in 1 .. Len(frames) : h[i] = h[j] => i = j
    <3> TAKE i, j \in 1 .. Len(frames)
    <3> SUFFICES ASSUME h[i] = h[j], i # j PROVE FALSE
      OBVIOUS
    <3>1. frames[i].fn = frames[j].fn /\ p(i) = p(j)
      BY <1>5
    <3>2. i < j \/ j < i
      BY <1>0
    <3> HIDE DEF h
    <3> QED BY <3>1, <3>2, RepeatedCall
  <2> HIDE DEF h, A, B
  <2> QED BY <2>1, <2>2 DEF Injection, IsInjective
<1>7. Cardinality(1 .. Len(frames)) <= Cardinality(A \cup B)
  <2> HIDE DEF h, A, B
  <2> QED BY <1>3, <1>6, FS_Injection
<1>8. Cardinality(1 .. Len(frames)) = Len(frames)
  <2> DEFINE n == Len(frames)
  <2>1. n \in Nat
    BY <1>0
  <2> HIDE DEF n
  <2>2. Cardinality(1 .. n) = n
    BY <2>1, FS_Interval
  <2> QED BY <2>2 DEF n
<1> HIDE DEF A, B
<1> QED BY <1>3, <1>7, <1>8

(***************************************************************************)
(* The resolver.                                                           *)
(***************************************************************************)
\* What is resolved is one promise that is not stuck.
Settled(u, n) == Len(u[n].children) = 1 /\ ~ Stuck(u, u[n].children[1])

ResolverInv ==
  /\ outcome = "parsing" => resolved = {}
  /\ outcome \in {"resolving", "overflow"} => Chain(unresolved, frames)
  /\ \A n \in resolved : Settled(unresolved, n)
  /\ outcome = "ok" => resolved = DOMAIN unresolved
  /\ outcome = "unresolvable" => ~ Sound
  /\ outcome = "overflow" => Len(frames) >= MaxDepth

LEMMA ResolverInit == Init => ResolverInv
BY DEF Init, ResolverInv

\* What the top of the stack is when a function of the resolver goes on.
LEMMA TopFrame ==
  ASSUME Chain(unresolved, frames), NEW function \in {"resolve", "resolvePrimary"},
         Function = function
  PROVE  LET f == frames[Len(frames)]
         IN  /\ frames # <<>> /\ Len(frames) \in 1 .. Len(frames)
             /\ Len(frames) \in Nat /\ Len(frames) >= 1 /\ Len(frames) <= MaxDepth
             /\ MaxDepth \in Nat
             /\ f.fn = function /\ Local = f.local
             /\ FrameOK(unresolved, f, Len(frames))
             /\ Finished(unresolved, f, f.local.done)
             /\ Len(frames) = 1 => function = "resolvePrimary"
<1>1. frames # <<>>
  BY DEF Function
<1>2. Function = frames[Len(frames)].fn /\ Local = frames[Len(frames)].local
  BY <1>1 DEF Function, Local, Last
<1> DEFINE n == Len(frames)
<1>3. n \in Nat /\ n <= MaxDepth /\ MaxDepth \in Nat /\ n # 0
  BY <1>1, ChainLen
<1>4. n \in 1 .. n /\ n >= 1
  <2> HIDE DEF n
  <2> QED BY <1>3
<1>5. /\ \A i \in 1 .. n : FrameOK(unresolved, frames[i], i)
      /\ n >= 1 => frames[1].fn = "resolvePrimary"
      /\ n >= 1 => Finished(unresolved, frames[n], frames[n].local.done)
  BY DEF Chain
<1> HIDE DEF n
<1> QED BY <1>1, <1>2, <1>3, <1>4, <1>5 DEF n

\* A call from a frame: the stack is a chain if the frame, when it has noted
\* the call, calls the new one.
LEMMA CallsChain ==
  ASSUME Chain(unresolved, frames), NEW caller \in {"resolve", "resolvePrimary"},
         Function = caller, Len(frames) < MaxDepth,
         NEW function, NEW p,
         FrameOK(unresolved, Frame(function, [promise |-> p, done |-> 0]), Len(frames) + 1),
         CallsNext(unresolved, Frame(caller, Waits),
                   Frame(function, [promise |-> p, done |-> 0])),
         frames' = (IF frames = <<>> THEN <<>>
                    ELSE Append(Front(frames), Frame(Function, Waits)))
                   \o <<Frame(function, [promise |-> p, done |-> 0])>>
  PROVE  Chain(unresolved, frames')
<1> DEFINE x == Frame(function, [promise |-> p, done |-> 0])
           w == Frame(caller, Waits)
           s == Append(Front(frames), w)
<1>1. /\ frames # <<>> /\ frames[Len(frames)].fn = caller
      /\ Local = frames[Len(frames)].local
  BY TopFrame
<1>2. x.local.done = 0 /\ w.fn = caller /\ w.local = [Local EXCEPT !.done = @ + 1]
  BY DEF Frame, Waits
<1>3. FrameOK(unresolved, x, Len(frames) + 1) /\ CallsNext(unresolved, w, x)
  OBVIOUS
<1>4. frames' = s \o <<x>>
  BY <1>1
<1> HIDE DEF x, w
<1>5. s \o <<x>> = Append(s, x)
  <2>1. IsSequence(frames)
    BY DEF Chain
  <2>2. IsSequence(s)
    BY <1>1, <2>1, Replaced DEF Going
  <2> HIDE DEF s
  <2>3. PICK S : s \in Seq(S)
    BY <2>2 DEF IsSequence
  <2>4. s \in Seq(S \cup {x}) /\ x \in S \cup {x}
    BY <2>3, SeqMonotonic
  <2> QED BY <2>4, AppendIsConcat
<1>6. Chain(unresolved, Append(s, x))
  BY <1>1, <1>2, <1>3, ChainCall
<1> HIDE DEF s
<1> QED BY <1>4, <1>5, <1>6

LEMMA ParsingResolver ==
  ASSUME ParserInv, ResolverInv, outcome = "parsing", resolved' = resolved,
         \/ outcome' \in {"parsing", "error"}
         \/ outcome' = "resolving" /\ frames' = <<>>
  PROVE  ResolverInv'
<1>1. resolved' = {}
  BY DEF ResolverInv
<1>2. outcome' = "resolving" => Chain(unresolved', frames')
  BY ChainEmpty
<1> QED BY <1>1, <1>2 DEF ResolverInv

\* resolve or resolvePrimary calls.
LEMMA ResolveResolver ==
  ASSUME ResolverInv, outcome = "resolving", unresolved' = unresolved,
         NEW function \in {"resolve", "resolvePrimary"}, NEW p, Resolve(function, p),
         \/ /\ frames = <<>> /\ function = "resolvePrimary"
            /\ \E n \in DOMAIN unresolved : p = unresolved[n]
         \/ /\ Function \in {"resolve", "resolvePrimary"}
            /\ Len(frames) < MaxDepth =>
                 FrameOK(unresolved, Frame(function, [promise |-> p, done |-> 0]), Len(frames) + 1)
            /\ CallsNext(unresolved, Frame(Function, Waits),
                         Frame(function, [promise |-> p, done |-> 0]))
  PROVE  ResolverInv'
<1>0. /\ Chain(unresolved, frames) /\ resolved' = resolved
      /\ \A n \in resolved : Settled(unresolved, n)
  BY DEF ResolverInv, Resolve
<1>1. CASE Len(frames) >= MaxDepth /\ outcome' = "overflow" /\ UNCHANGED frames
  BY <1>0, <1>1 DEF ResolverInv
<1>2. CASE /\ Len(frames) < MaxDepth
           /\ frames' = (IF frames = <<>> THEN <<>>
                         ELSE Append(Front(frames), Frame(Function, Waits)))
                        \o <<Frame(function, [promise |-> p, done |-> 0])>>
           /\ UNCHANGED outcome
  <2>1. CASE /\ frames = <<>> /\ function = "resolvePrimary"
             /\ \E n \in DOMAIN unresolved : p = unresolved[n]
    <3> DEFINE x == Frame("resolvePrimary", [promise |-> p, done |-> 0])
    <3>1. PICK n \in DOMAIN unresolved : p = unresolved[n]
      BY <2>1
    <3>2. /\ x.fn = "resolvePrimary" /\ x.local.promise = unresolved[n] /\ x.local.done = 0
          /\ "promise" \in DOMAIN x.local /\ "done" \in DOMAIN x.local
      BY <3>1 DEF Frame
    <3>3. frames' = <<>> \o <<x>>
      BY <1>2, <2>1
    <3> HIDE DEF x
    <3>4. frames' = <<x>>
      <4>1. <<x>> \in Seq({x})
        OBVIOUS
      <4> QED BY <3>3, <4>1, ConcatEmptySeq
    <3>5. MaxDepth > 0
      <4>1. Len(frames) = 0
        BY <1>0, <2>1, ChainLen
      <4> QED BY <1>2, <4>1
    <3>6. Chain(unresolved, <<x>>)
      BY <3>2, <3>5, ChainStart
    <3> QED BY <1>0, <1>2, <3>4, <3>6 DEF ResolverInv
  <2>2. CASE Function \in {"resolve", "resolvePrimary"} /\ ~ (frames = <<>>)
    <3>1. Chain(unresolved, frames')
      BY <1>0, <1>2, <2>2, CallsChain
    <3> QED BY <1>0, <1>2, <3>1 DEF ResolverInv
  <2>3. Function \in {"resolve", "resolvePrimary"} => ~ (frames = <<>>)
    BY DEF Function
  <2> QED BY <2>1, <2>2, <2>3
<1> QED BY <1>1, <1>2 DEF Resolve

LEMMA UnresolvableResolver ==
  ASSUME ResolverInv, Unresolvable, unresolved' = unresolved, ~ Sound
  PROVE  ResolverInv'
<1>1. (~ Sound)'
  <2>1. Inner' = Inner
    BY DEF Inner, Needs
  <2> QED BY <2>1 DEF Sound, New, IsA, IsNamed
<1> QED BY <1>1 DEF ResolverInv, Unresolvable

LEMMA PrimaryResolver ==
  ASSUME ParserInv, TreeInv, ResolverInv, resolvePrimary
  PROVE  ResolverInv'
<1>0. /\ outcome = "resolving" /\ Function = "resolvePrimary" /\ unresolved' = unresolved
  BY DEF resolvePrimary, Resolves
<1>1. /\ Chain(unresolved, frames)
      /\ \A n \in resolved : Settled(unresolved, n)
  BY <1>0 DEF ResolverInv
<1> DEFINE u == unresolved
           f == frames[Len(frames)]
           p == Local.promise
<1>2. /\ frames # <<>> /\ Len(frames) \in Nat /\ Len(frames) >= 1 /\ MaxDepth \in Nat
      /\ f.fn = "resolvePrimary" /\ Local = f.local
      /\ FrameOK(u, f, Len(frames)) /\ Finished(u, f, f.local.done)
  BY <1>0, <1>1, TopFrame
<1>3. PICK n \in DOMAIN u : p = u[n]
  BY <1>2 DEF FrameOK
<1>4. p.name = n
  BY <1>3 DEF ParserInv
<1> DEFINE s == p.children
<1>5. PICK W : Trees(u, W)
  BY DEF TreeInv, Trees
<1>6. s \in Seq(W) /\ Len(s) \in Nat /\ DOMAIN s = 1 .. Len(s) /\ Range(s) \subseteq Levels(u)[0]
  <2>1. u[n] \in W
    BY <1>5 DEF Trees
  <2>2. u[n].children \in Seq(W) /\ DOMAIN u[n].children = 1 .. Len(u[n].children)
        /\ Len(u[n].children) \in Nat
    <3> HIDE DEF u
    <3> QED BY <1>5, <2>1, WorkIs
  <2>3. Range(u[n].children) \subseteq Levels(u)[0]
    BY LevelsAre
  <2> HIDE DEF u, p
  <2> QED BY <1>3, <2>2, <2>3
<1>7. /\ Todo(u, f) = s /\ Single(u, f) /\ f.local.done = Local.done
      /\ "promise" \in DOMAIN Local /\ "done" \in DOMAIN Local /\ Local.done \in Nat
  BY <1>2 DEF Todo, Single, FrameOK
<1>8. CASE Len(s) # 1 /\ Unresolvable
  <2>1. ~ Sound
    BY <1>3, <1>8 DEF Sound
  <2> QED BY <1>0, <1>8, <2>1, UnresolvableResolver
<1>9. CASE Len(s) = 1 /\ Local.done = 0 /\ Resolve("resolve", s[1])
  <2> DEFINE x == Frame("resolve", [promise |-> s[1], done |-> 0])
             w == Frame(Function, Waits)
  <2>1. /\ w.fn = "resolvePrimary" /\ w.local.done = 1 /\ w.local.promise = p
        /\ x.fn = "resolve" /\ x.local.promise = s[1] /\ x.local.done = 0
        /\ "promise" \in DOMAIN x.local /\ "done" \in DOMAIN x.local
    BY <1>0, <1>7, <1>9 DEF Frame, Waits
  <2>2. s[1] \in Levels(u)[0]
    <3> HIDE DEF s
    <3>1. s[1] \in Range(s)
      BY <1>6, <1>9 DEF Range
    <3> QED BY <1>6, <3>1
  <2> HIDE DEF x, w
  <2>3. FrameOK(u, x, Len(frames) + 1)
    <3>1. 0 \in 0 .. MaxDepth /\ 0 < Len(frames) + 1
      BY <1>2
    <3> HIDE DEF s
    <3> QED BY <2>1, <2>2, <3>1 DEF FrameOK
  <2>4. CallsNext(u, w, x)
    <3>1. Todo(u, w) = s /\ Single(u, w)
      BY <2>1 DEF Todo, Single
    <3> HIDE DEF s
    <3> QED BY <1>9, <2>1, <3>1 DEF CallsNext
  <2> HIDE DEF s
  <2> QED BY <1>0, <1>9, <2>3, <2>4, ResolveResolver DEF x, w
<1>10. CASE /\ Len(s) = 1 /\ Local.done = 1 /\ frames' = Front(frames)
            /\ resolved' = (IF Len(frames) = 1 THEN resolved \cup {p.name} ELSE resolved)
            /\ UNCHANGED outcome
  <2>1. ~ Stuck(u, s[1])
    <3>1. 1 \in 1 .. 1
      OBVIOUS
    <3> HIDE DEF s
    <3> QED BY <1>2, <1>7, <1>10, <3>1 DEF Finished
  <2>2. Chain(u, frames')
    <3>1. f.fn # "resolve" /\ Len(Todo(u, f)) = 1 /\ ~ Stuck(u, Todo(u, f)[1])
      BY <1>2, <1>7, <1>10, <2>1
    <3> QED BY <1>1, <1>2, <1>10, <3>1, ChainReturn
  <2>3. Settled(u, n)
    BY <1>3, <1>10, <2>1 DEF Settled
  <2>4. \A m \in resolved' : Settled(u, m)
    BY <1>1, <1>4, <1>10, <2>3
  <2> QED BY <1>0, <1>10, <2>2, <2>4 DEF ResolverInv
<1> QED BY <1>8, <1>9, <1>10 DEF resolvePrimary

LEMMA ResolvingResolver ==
  ASSUME ParserInv, TreeInv, ResolverInv, resolve
  PROVE  ResolverInv'
<1>0. /\ outcome = "resolving" /\ Function = "resolve" /\ unresolved' = unresolved
  BY DEF resolve, Resolves
<1>1. /\ Chain(unresolved, frames)
      /\ \A n \in resolved : Settled(unresolved, n)
  BY <1>0 DEF ResolverInv
<1> DEFINE u == unresolved
           f == frames[Len(frames)]
           p == Local.promise
           s == Work(u, p)
           named == p.name \in DOMAIN u
           n == IF IsNamed(p.name) THEN 1 ELSE Len(p.children)
<1>2. /\ frames # <<>> /\ Len(frames) \in Nat /\ Len(frames) >= 1 /\ MaxDepth \in Nat
      /\ f.fn = "resolve" /\ Local = f.local /\ Len(frames) <= MaxDepth
      /\ FrameOK(u, f, Len(frames)) /\ Finished(u, f, f.local.done)
  BY <1>0, <1>1, TopFrame
<1>3. PICK d \in 0 .. MaxDepth : d < Len(frames) /\ p \in Levels(u)[d]
  BY <1>2 DEF FrameOK
<1>4. PICK W : Trees(u, W)
  BY DEF TreeInv, Trees
<1>5. p \in Inner /\ p \in W
  <2>1. p \in InnerOf(u)
    BY <1>3 DEF InnerOf
  <2>2. p \in W
    <3> HIDE DEF u, p
    <3> QED BY <1>4, <2>1, InnerIsBuilt
  <2> QED BY <2>1, <2>2, InnerIs
<1>6. /\ Len(s) \in Nat /\ DOMAIN s = 1 .. Len(s) /\ Len(p.children) \in Nat
      /\ \A j \in 1 .. Len(s) : s[j] \in Range(s)
  <2> HIDE DEF u, p
  <2> QED BY <1>4, <1>5, WorkIs
<1>7. /\ Todo(u, f) = s /\ (Single(u, f) <=> named) /\ f.local.done = Local.done
      /\ "promise" \in DOMAIN Local /\ "done" \in DOMAIN Local /\ Local.done \in Nat
  BY <1>2 DEF Todo, Single, FrameOK
<1>8. IsNamed(p.name) <=> named
  BY DEF IsNamed
<1>9. /\ named => s = u[p.name].children
      /\ ~ named => s = p.children
  BY DEF Work
<1>10. CASE Local.done = n /\ ~ IsNamed(p.name) /\ ~ New(p) /\ Unresolvable
  <2>1. ~ Sound
    BY <1>5, <1>8, <1>10 DEF Sound
  <2> QED BY <1>0, <1>10, <2>1, UnresolvableResolver
<1>11. CASE Local.done = n /\ (IsNamed(p.name) \/ New(p)) /\ Resolved
  <2>1. ~ Stuck(u, p)
    <3>1. CASE named
      <4>1. n = 1 /\ f.local.done = 1
        BY <1>7, <1>8, <1>11, <3>1
      <4>2. Len(s) = 1 /\ ~ Stuck(u, s[1])
        <5>1. 1 \in 1 .. 1
          OBVIOUS
        <5> HIDE DEF s, f, n, named
        <5> QED BY <1>2, <1>7, <3>1, <4>1, <5>1 DEF Finished
      <4>3. \A r \in Range(s) : r = s[1]
        <5> HIDE DEF s
        <5> QED BY <1>6, <4>2 DEF Range
      <4>4. ~ Wrong(u, p)
        BY <1>9, <3>1, <4>2 DEF Wrong
      <4> HIDE DEF u, p
      <4> QED BY <4>2, <4>3, <4>4, StuckIff
    <3>2. CASE ~ named
      <4>1. f.local.done = Len(s) /\ New(p)
        BY <1>7, <1>8, <1>9, <1>11, <3>2
      <4>2. \A j \in 1 .. Len(s) : ~ Stuck(u, s[j])
        BY <1>2, <1>7, <4>1 DEF Finished
      <4>3. \A r \in Range(s) : ~ Stuck(u, r)
        <5> HIDE DEF s
        <5> QED BY <1>6, <4>2 DEF Range
      <4>4. ~ Wrong(u, p)
        BY <3>2, <4>1, NewAccepts DEF Wrong
      <4> HIDE DEF u, p
      <4> QED BY <4>3, <4>4, StuckIff
    <3> QED BY <3>1, <3>2
  <2>2. frames' = Front(frames) /\ UNCHANGED <<resolved, outcome>>
    BY <1>11 DEF Resolved
  <2>3. Chain(u, frames')
    <3>1. f.fn = "resolve" /\ ~ Stuck(u, f.local.promise)
      BY <1>2, <2>1
    <3> QED BY <1>1, <1>2, <2>2, <3>1, ChainReturn
  <2> QED BY <1>0, <1>1, <2>2, <2>3 DEF ResolverInv
<1>12. CASE Local.done < n /\ named /\ Resolve("resolvePrimary", u[p.name])
  <2> DEFINE x == Frame("resolvePrimary", [promise |-> u[p.name], done |-> 0])
             w == Frame(Function, Waits)
  <2>0. Local.done = 0
    BY <1>7, <1>8, <1>12
  <2>1. /\ w.fn = "resolve" /\ w.local.done = 1 /\ w.local.promise = p
        /\ x.fn = "resolvePrimary" /\ x.local.promise = u[p.name] /\ x.local.done = 0
        /\ "promise" \in DOMAIN x.local /\ "done" \in DOMAIN x.local
    BY <1>0, <1>7, <2>0 DEF Frame, Waits
  <2> HIDE DEF x, w
  <2>2. FrameOK(u, x, Len(frames) + 1)
    BY <1>12, <2>1 DEF FrameOK
  <2>3. CallsNext(u, w, x)
    <3>1. Single(u, w) /\ w.local.promise.name = p.name
      BY <1>12, <2>1 DEF Single
    <3> HIDE DEF p, u
    <3> QED BY <2>1, <3>1 DEF CallsNext
  <2> QED BY <1>0, <1>12, <2>2, <2>3, ResolveResolver DEF x, w
<1>13. CASE Local.done < n /\ ~ named /\ Resolve("resolve", p.children[Local.done + 1])
  <2> DEFINE k == Local.done + 1
             x == Frame("resolve", [promise |-> s[k], done |-> 0])
             w == Frame(Function, Waits)
  <2>0. /\ p.children = s /\ k \in 1 .. Len(s) /\ k >= 1 /\ k <= Len(s)
    BY <1>6, <1>7, <1>8, <1>9, <1>13
  <2>1. /\ w.fn = "resolve" /\ w.local.done = k /\ w.local.promise = p
        /\ x.fn = "resolve" /\ x.local.promise = s[k] /\ x.local.done = 0
        /\ "promise" \in DOMAIN x.local /\ "done" \in DOMAIN x.local
    BY <1>0, <1>7 DEF Frame, Waits
  <2>2. s[k] \in Range(s)
    <3> HIDE DEF s, k
    <3> QED BY <1>6, <2>0
  <2> HIDE DEF x, w
  <2>3. Len(frames) < MaxDepth => FrameOK(u, x, Len(frames) + 1)
    <3> SUFFICES ASSUME Len(frames) < MaxDepth PROVE FrameOK(u, x, Len(frames) + 1)
      OBVIOUS
    <3> DEFINE e == d + 1
    <3>1. e \in 0 .. MaxDepth /\ e # 0 /\ e - 1 = d /\ e < Len(frames) + 1
      BY <1>2, <1>3
    <3>2. s[k] \in Levels(u)[e]
      <4> HIDE DEF e, k, u, p
      <4>1. \A q \in Levels(u)[e - 1] : Range(Work(u, q)) \subseteq Levels(u)[e]
        BY <3>1, LevelsAre
      <4> QED BY <1>3, <2>2, <3>1, <4>1
    <3> HIDE DEF e, s, k
    <3> QED BY <2>1, <3>1, <3>2 DEF FrameOK
  <2>4. CallsNext(u, w, x)
    <3>1. ~ Single(u, w) /\ Todo(u, w) = s
      BY <1>13, <2>1 DEF Single, Todo
    <3> HIDE DEF s, k
    <3> QED BY <2>0, <2>1, <3>1 DEF CallsNext
  <2>5. Resolve("resolve", s[k])
    BY <1>13, <2>0
  <2> HIDE DEF s, k
  <2> QED BY <1>0, <2>3, <2>4, <2>5, ResolveResolver DEF x, w
<1> QED BY <1>8, <1>10, <1>11, <1>12, <1>13 DEF resolve

LEMMA ResolverStep ==
  ASSUME ParserInv, TreeInv, ResolverInv, [Next]_vars
  PROVE  ResolverInv'
<1>1. CASE UNCHANGED vars \/ Lexes
  <2>1. /\ frames' = frames /\ resolved' = resolved /\ outcome' = outcome
        /\ unresolved' = unresolved
    BY <1>1 DEF vars, Lexes
  <2>2. Inner' = Inner
    BY <2>1 DEF Inner, Needs
  <2>3. Sound' <=> Sound
    BY <2>1, <2>2 DEF Sound, New, IsA, IsNamed
  <2> QED BY <2>1, <2>3 DEF ResolverInv
<1>2. CASE generatePromises \/ parse \/ parseArg \/ parseGetter \/ parseJoiner
  <2>1. outcome = "parsing" /\ resolved' = resolved
    BY <1>2 DEF generatePromises, parse, parseArg, parseGetter, parseJoiner, EndOfFile,
       parse_Nested, parse_Top, Gets, GoesOn, Skips, Fails
  <2>2. outcome' \in {"parsing", "error"} \/ (outcome' = "resolving" /\ EndOfFile)
    BY <1>2 DEF generatePromises, parse, parseArg, parseGetter, parseJoiner, EndOfFile,
       parse_Nested, parse_Top, Gets, GoesOn, Skips, Fails
  <2>3. EndOfFile => frames' = <<>>
    <3> SUFFICES ASSUME EndOfFile PROVE frames' = <<>>
      OBVIOUS
    <3>1. Gets("none", {"EOF"}) /\ frames' = frames
      BY DEF EndOfFile
    <3>2. outcome = "parsing" /\ Called(frames) = "none"
      BY <3>1, ParsingFrames
    <3>3. Nest(frames, Promises, Getters, Pending)
      BY <3>2 DEF ParserInv
    <3> QED BY <3>1, <3>2, <3>3, NestFacts
  <2> QED BY <2>1, <2>2, <2>3, ParsingResolver
<1>3. CASE ResolveNext
  <2>1. outcome = "resolving" /\ Function = "none" /\ unresolved' = unresolved
    BY <1>3 DEF ResolveNext, Resolves
  <2>2. PICK n \in DOMAIN unresolved \ resolved : Resolve("resolvePrimary", unresolved[n])
    BY <1>3 DEF ResolveNext
  <2>3. frames = <<>>
    <3> SUFFICES ASSUME frames # <<>> PROVE FALSE
      OBVIOUS
    <3>1. Chain(unresolved, frames)
      BY <2>1 DEF ResolverInv
    <3> DEFINE k == Len(frames)
    <3>2. k \in Nat /\ k # 0 /\ \A i \in 1 .. k : FrameOK(unresolved, frames[i], i)
      BY <3>1, ChainLen DEF Chain
    <3>3. Function = frames[k].fn
      BY DEF Function, Last
    <3> HIDE DEF k
    <3>4. k \in 1 .. k
      BY <3>2
    <3> QED BY <2>1, <3>2, <3>3, <3>4 DEF FrameOK
  <2> QED BY <2>1, <2>2, <2>3, ResolveResolver
<1>4. CASE Parsed
  BY <1>4 DEF Parsed, Resolves, ResolverInv
<1> QED BY <1>1, <1>2, <1>3, <1>4, PrimaryResolver, ResolvingResolver DEF Next, Parse

LEMMA ResolverInvariant == Spec => [](ParserInv /\ TreeInv /\ ResolverInv)
<1>1. Init => ParserInv /\ TreeInv /\ ResolverInv
  BY InitParser, TreeInit, ResolverInit
<1>2. ParserInv /\ TreeInv /\ ResolverInv /\ [Next]_vars =>
        (ParserInv /\ TreeInv /\ ResolverInv)'
  BY ParserStep, TreeStep, ResolverStep
<1> QED BY <1>1, <1>2, PTL DEF Spec

\* Whatever the files and the builtins: if Parse returns a map, every promise
\* has one child, is built from what is there, with arguments and children New
\* accepts, and does not need itself; if it returns an error of the resolver,
\* one has not one child, or is built from what is not there or not accepted;
\* and if the program dies, the stack is too small or a promise needs itself.
THEOREM ResolvingIsSound == Spec => []ResolvedIfSound
<1>1. ParserInv /\ TreeInv /\ ResolverInv => ResolvedIfSound
  <2> SUFFICES ASSUME ParserInv, TreeInv, ResolverInv PROVE ResolvedIfSound
    OBVIOUS
  <2>0. PICK W : Trees(unresolved, W)
    BY DEF TreeInv, Trees
  <2>1. ASSUME outcome = "ok" PROVE Sound /\ Acyclic
    <3>1. \A n \in DOMAIN unresolved : Settled(unresolved, n)
      BY <2>1 DEF ResolverInv
    <3> QED BY <2>0, <3>1, NotStuck DEF Settled
  <2>2. outcome = "unresolvable" => ~ Sound
    BY DEF ResolverInv
  <2>3. ASSUME outcome = "overflow", Acyclic, Fits PROVE FALSE
    <3>1. Chain(unresolved, frames) /\ Len(frames) >= MaxDepth
      BY <2>3 DEF ResolverInv
    <3>2. Len(frames) <= Cardinality(DOMAIN unresolved) + Cardinality(Inner)
      <4>1. \A n \in DOMAIN unresolved : unresolved[n].name = n
        BY DEF ParserInv
      <4> QED BY <2>0, <2>3, <3>1, <4>1, StackBound
    <3>3. Cardinality(DOMAIN unresolved) + Cardinality(Inner) < MaxDepth
      BY <2>3 DEF Fits
    <3>4. Cardinality(DOMAIN unresolved) \in Nat /\ Cardinality(Inner) \in Nat
      <4>1. IsFiniteSet(DOMAIN unresolved) /\ IsFiniteSet(Inner)
        BY <2>0, InnerIsBuilt, InnerIs DEF ParserInv
      <4> QED BY <4>1, FS_CardinalityType
    <3>5. Len(frames) \in Nat /\ MaxDepth \in Nat
      BY <3>1, ChainLen
    <3> QED BY <3>1, <3>2, <3>3, <3>4, <3>5
  <2> QED BY <2>1, <2>2, <2>3 DEF ResolvedIfSound
<1> QED BY <1>1, ResolverInvariant, PTL

=============================================================================
