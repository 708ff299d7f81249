------------------------- MODULE TextFunctionsProofs -------------------------
(***************************************************************************)
(* Theorems about ConventionGuards, for all files of any number of lines   *)
(* and words, and about MoneyParsing: which amounts it accepts, that what  *)
(* it credits is what was sent, and that no display is read as another.    *)
(***************************************************************************)
EXTENDS TextFunctions, FiniteSetTheorems, TLAPS

-----------------------------------------------------------------------------
(* Induction over a sequence's places, with a set in place of a predicate. *)

Below == {ss \in Nat \X Nat : ss[1] < ss[2]}

\* No sequence of numbers descends for ever.
LEMMA BelowWF == IsWellFoundedOn(Below, Nat)
    BY NatLessThanWellFounded, Zenon DEF OpToRel, Below

\* What holds of the first place, and of each place after one it holds of.
LEMMA PlaceInduction ==
    ASSUME NEW P, NEW n \in Nat, 1 \in P, \A k \in 1..n : k \in P => k + 1 \in P
    PROVE  1..(n + 1) \subseteq P
<1> DEFINE wrong == {k \in 1..(n + 1) : k \notin P}
<1>1. ASSUME wrong # {} PROVE \E k \in wrong : \A j \in wrong : ~(<<j, k>> \in Below)
  <2>1. wrong \subseteq Nat
      OBVIOUS
  <2> HIDE DEF wrong
  <2>. QED
      BY <1>1, <2>1, BelowWF, WFMin, Zenon
<1>2. ASSUME NEW k \in wrong, \A j \in wrong : ~(<<j, k>> \in Below) PROVE FALSE
  <2>1. k \in 1..(n + 1) /\ k \notin P /\ k # 1
      BY <1>2
  <2>2. k - 1 \in 1..n /\ k - 1 \in 1..(n + 1) /\ (k - 1) + 1 = k
      BY <2>1
  <2>3. <<k - 1, k>> \in Below
      BY <2>1, <2>2 DEF Below
  <2>4. k - 1 \notin wrong
      BY <1>2, <2>3
  <2>5. k - 1 \in P
      BY <2>2, <2>4
  <2>. QED
      BY <2>1, <2>2, <2>5
<1>. QED
    BY <1>1, <1>2

\* f takes its values in S, from base on step by step.
Iterates(f, S, base, step, n) ==
    f \in [1..(n + 1) -> S] /\ f[1] = base /\ \A k \in 1..n : f[k + 1] = step[k][f[k]]

\* A function defined from place to place exists.
LEMMA IterationExists ==
    ASSUME NEW S, NEW base \in S, NEW step \in [Nat -> [S -> S]], NEW n \in Nat
    PROVE  \E f : Iterates(f, S, base, step, n)
<1> DEFINE built(f, m) == f[1] = base /\ \A k \in 1..(m - 1) : f[k + 1] = step[k][f[k]]
           P == {m \in Nat : \E f \in [1..m -> S] : built(f, m)}
<1>1. 1 \in P
  <2> PICK f : f = [k \in 1..1 |-> base]
      OBVIOUS
  <2>1. f \in [1..1 -> S] /\ built(f, 1)
      OBVIOUS
  <2>. QED
      BY <2>1
<1>2. ASSUME NEW m \in 1..n, m \in P PROVE m + 1 \in P
  <2>1. PICK f \in [1..m -> S] : built(f, m)
      BY <1>2
  <2>2. PICK g : g = [k \in 1..(m + 1) |-> IF k = m + 1 THEN step[m][f[m]] ELSE f[k]]
      OBVIOUS
  <2>3. f[m] \in S /\ step[m][f[m]] \in S
      BY <2>1
  <2>4. g \in [1..(m + 1) -> S]
      BY <2>1, <2>2, <2>3
  <2>5. g[m + 1] = step[m][f[m]] /\ \A k \in 1..m : g[k] = f[k]
      BY <2>2
  <2>6. g[1] = base
      BY <2>1, <2>5
  <2>7. ASSUME NEW k \in 1..m PROVE g[k + 1] = step[k][g[k]]
    <3>1. CASE k = m
        BY <2>5, <3>1
    <3>2. CASE k # m
      <4>1. k \in 1..(m - 1) /\ k + 1 \in 1..m
          BY <3>2
      <4>. QED
          BY <2>1, <2>5, <4>1
    <3>. QED
        BY <3>1, <3>2
  <2>8. built(g, m + 1)
      BY <2>6, <2>7
  <2>. QED
      BY <2>4, <2>8
<1>3. n + 1 \in P
  <2> HIDE DEF P
  <2>1. 1..(n + 1) \subseteq P
      BY <1>1, <1>2, PlaceInduction
  <2>. QED
      BY <2>1
<1>. QED
    BY <1>3 DEF Iterates

-----------------------------------------------------------------------------
(* The lexer.                                                              *)

Words == STRING \ {"newline"}

Strings == {DQ, SQ}

ModeSet == {"code", "comment"} \cup Strings

\* One word leads from a mode to a mode.
LEMMA LexType == \A mode \in ModeSet : \A word : Lex(mode, word) \in ModeSet
    BY DEF Lex, ModeSet, Strings

\* The modes of a line follow each other by Lex.
LEMMA ModesFollow ==
    ASSUME NEW start \in ModeSet, NEW line \in Seq(Words)
    PROVE  /\ Modes(start, line)[1] = start
           /\ \A k \in 1..(Len(line) + 1) : Modes(start, line)[k] \in ModeSet
           /\ \A k \in 1..Len(line) :
                 Modes(start, line)[k + 1] = Lex(Modes(start, line)[k], line[k])
<1> DEFINE n == Len(line)
           follows(f) == f = [k \in 1..(n + 1) |->
                                 IF k = 1 THEN start ELSE Lex(f[k - 1], line[k - 1])]
<1>0. n \in Nat
    OBVIOUS
<1>1. \E f : follows(f)
  <2> DEFINE step == [k \in Nat |-> [mode \in ModeSet |-> Lex(mode, line[k])]]
  <2>1. step \in [Nat -> [ModeSet -> ModeSet]]
      BY LexType
  <2>2. \A mode \in ModeSet, k \in Nat : step[k][mode] = Lex(mode, line[k])
      OBVIOUS
  <2> HIDE DEF step
  <2>0. PICK f : Iterates(f, ModeSet, start, step, n)
      BY <1>0, <2>1, IterationExists
  <2>3. /\ f \in [1..(n + 1) -> ModeSet] /\ f[1] = start
        /\ \A k \in 1..n : f[k + 1] = step[k][f[k]]
      BY <2>0 DEF Iterates
  <2>4. ASSUME NEW k \in 1..(n + 1), k # 1 PROVE f[k] = Lex(f[k - 1], line[k - 1])
    <3>1. k - 1 \in 1..n /\ (k - 1) + 1 = k /\ f[k - 1] \in ModeSet
        BY <1>0, <2>3, <2>4
    <3>2. f[(k - 1) + 1] = step[k - 1][f[k - 1]]
        BY <2>3, <3>1
    <3>3. step[k - 1][f[k - 1]] = Lex(f[k - 1], line[k - 1])
        BY <2>2, <3>1
    <3>. QED
        BY <3>1, <3>2, <3>3
  <2>5. follows(f)
      BY <2>3, <2>4
  <2>. QED
      BY <2>5
<1>2. PICK m : m = Modes(start, line)
    OBVIOUS
<1>3. follows(m)
  <2>1. m = CHOOSE f : follows(f)
      BY <1>2, Zenon DEF Modes
  <2> HIDE DEF follows
  <2>. QED
      BY <1>1, <2>1
<1>4. m[1] = start
    BY <1>0, <1>3
<1>5. ASSUME NEW k \in 1..n PROVE m[k + 1] = Lex(m[k], line[k])
  <2>1. k + 1 \in 1..(n + 1) /\ k + 1 # 1 /\ (k + 1) - 1 = k
      BY <1>0
  <2>. QED
      BY <1>3, <2>1
<1>6. 1..(n + 1) \subseteq {k \in Nat : m[k] \in ModeSet}
  <2> DEFINE P == {k \in Nat : m[k] \in ModeSet}
  <2>1. 1 \in P
      BY <1>4
  <2>2. \A k \in 1..n : k \in P => k + 1 \in P
      BY <1>5, LexType
  <2> HIDE DEF P
  <2>3. 1..(n + 1) \subseteq P
      BY <1>0, <2>1, <2>2, PlaceInduction
  <2>. QED
      BY <2>3 DEF P
<1>. QED
    BY <1>2, <1>4, <1>5, <1>6

\* The mode in which the line after one ends that starts in this mode.
After(mode, line) == Lex(Modes(mode, line)[Len(line) + 1], "newline")

LineModes == {"code"} \cup Strings

\* A line starts in code or in a string.
LEMMA AfterType ==
    ASSUME NEW mode \in ModeSet, NEW line \in Seq(Words)
    PROVE  After(mode, line) \in LineModes
<1>1. Len(line) + 1 \in 1..(Len(line) + 1)
    OBVIOUS
<1>2. Modes(mode, line)[Len(line) + 1] \in ModeSet
    BY <1>1, ModesFollow
<1>. QED
    BY <1>2 DEF After, Lex, ModeSet, LineModes, Strings, DQ, SQ

\* The lines of a file start where the lines before them end.
LEMMA StartsFollow ==
    ASSUME NEW lines \in Seq(Seq(Words))
    PROVE  /\ StartMode(lines, 1) = "code"
           /\ \A i \in 1..(Len(lines) + 1) : StartMode(lines, i) \in LineModes
           /\ \A i \in 1..Len(lines) :
                 StartMode(lines, i + 1) = After(StartMode(lines, i), lines[i])
<1> DEFINE n == Len(lines)
           next(start, j) == Lex(Modes(start[j - 1], lines[j - 1])[Len(lines[j - 1]) + 1], "newline")
           follows(f) == f = [j \in 1..(n + 1) |-> IF j = 1 THEN "code" ELSE next(f, j)]
<1>0. n \in Nat /\ \A j \in 1..n : lines[j] \in Seq(Words)
    OBVIOUS
<1>1. \A f, j : next(f, j) = After(f[j - 1], lines[j - 1])
    BY DEF After
<1>2. \E f : follows(f)
  <2> DEFINE step == [j \in Nat |-> [mode \in LineModes |->
                         IF j \in 1..n THEN After(mode, lines[j]) ELSE "code"]]
  <2>1. step \in [Nat -> [LineModes -> LineModes]]
    <3>1. ASSUME NEW j \in Nat, NEW mode \in LineModes
          PROVE  (IF j \in 1..n THEN After(mode, lines[j]) ELSE "code") \in LineModes
      <4>1. mode \in ModeSet /\ "code" \in LineModes
          BY DEF LineModes, ModeSet
      <4>. QED
          BY <1>0, <4>1, AfterType
    <3>. QED
        BY <3>1
  <2>2. \A j \in 1..n, mode \in LineModes : step[j][mode] = After(mode, lines[j])
      OBVIOUS
  <2> HIDE DEF step, next
  <2>3. "code" \in LineModes
      BY DEF LineModes
  <2>4. PICK f : Iterates(f, LineModes, "code", step, n)
      BY <1>0, <2>1, <2>3, IterationExists
  <2>5. /\ f \in [1..(n + 1) -> LineModes] /\ f[1] = "code"
        /\ \A j \in 1..n : f[j + 1] = step[j][f[j]]
      BY <2>4 DEF Iterates
  <2>6. ASSUME NEW j \in 1..(n + 1), j # 1 PROVE f[j] = next(f, j)
    <3>1. j - 1 \in 1..n /\ (j - 1) + 1 = j /\ f[j - 1] \in LineModes
        BY <1>0, <2>5, <2>6
    <3>2. f[(j - 1) + 1] = step[j - 1][f[j - 1]]
        BY <2>5, <3>1
    <3>3. step[j - 1][f[j - 1]] = After(f[j - 1], lines[j - 1])
        BY <2>2, <3>1
    <3>. QED
        BY <1>1, <3>1, <3>2, <3>3
  <2>7. follows(f)
      BY <2>5, <2>6
  <2>. QED
      BY <2>7
<1>3. PICK m : m = CHOOSE f : follows(f)
    OBVIOUS
<1>4. \A i : StartMode(lines, i) = m[i]
    BY <1>3, Zenon DEF StartMode
<1>5. follows(m)
  <2> HIDE DEF follows
  <2>. QED
      BY <1>2, <1>3
<1> HIDE DEF next
<1>6. m[1] = "code"
    BY <1>0, <1>5
<1>7. ASSUME NEW j \in 1..n PROVE m[j + 1] = After(m[j], lines[j])
  <2>1. j + 1 \in 1..(n + 1) /\ j + 1 # 1 /\ (j + 1) - 1 = j
      BY <1>0
  <2>2. m[j + 1] = next(m, j + 1)
      BY <1>5, <2>1
  <2>. QED
      BY <1>1, <2>1, <2>2
<1>8. 1..(n + 1) \subseteq {j \in Nat : m[j] \in LineModes}
  <2> DEFINE P == {j \in Nat : m[j] \in LineModes}
  <2>1. 1 \in P
      BY <1>6 DEF LineModes
  <2>2. ASSUME NEW j \in 1..n, j \in P PROVE j + 1 \in P
    <3>1. m[j] \in ModeSet
        BY <2>2 DEF LineModes, ModeSet
    <3>2. After(m[j], lines[j]) \in LineModes
        BY <1>0, <3>1, AfterType
    <3>. QED
        BY <1>7, <3>2
  <2> HIDE DEF P
  <2>3. 1..(n + 1) \subseteq P
      BY <1>0, <2>1, <2>2, PlaceInduction
  <2>. QED
      BY <2>3 DEF P
<1>. QED
    BY <1>4, <1>6, <1>7, <1>8

-----------------------------------------------------------------------------
(* Quotes.                                                                 *)

\* The triple quotes before word k.
QuotesBefore(line, k) == {j \in 1..(k - 1) : line[j] \in Strings}

Odd(n) == n % 2 = 1

\* Zero is even, and parity changes by one.
LEMMA OddNext == ~Odd(0) /\ \A n \in Nat : Odd(n + 1) <=> ~Odd(n)
    BY DEF Odd

\* The number of quotes before a word, and of those of the line.
LEMMA QuotesCount ==
    ASSUME NEW line \in Seq(Words), NEW k \in 1..(Len(line) + 1)
    PROVE  /\ Cardinality(QuotesBefore(line, k)) \in Nat
           /\ k \in DOMAIN line =>
                Cardinality(QuotesBefore(line, k + 1))
                  = Cardinality(QuotesBefore(line, k))
                      + (IF line[k] \in Strings THEN 1 ELSE 0)
           /\ k = Len(line) + 1 => Cardinality(QuotesBefore(line, k)) = quotes(line)
<1>1. Len(line) \in Nat /\ DOMAIN line = 1..Len(line) /\ k \in Nat
    OBVIOUS
<1>2. IsFiniteSet(QuotesBefore(line, k))
  <2>1. IsFiniteSet(1..(k - 1))
      BY <1>1, FS_Interval
  <2>. QED
      BY <2>1, FS_Subset DEF QuotesBefore
<1>3. Cardinality(QuotesBefore(line, k)) \in Nat
    BY <1>2, FS_CardinalityType
<1>4. ASSUME k \in DOMAIN line
      PROVE  Cardinality(QuotesBefore(line, k + 1))
               = Cardinality(QuotesBefore(line, k)) + (IF line[k] \in Strings THEN 1 ELSE 0)
  <2>1. k \notin QuotesBefore(line, k)
      BY <1>1 DEF QuotesBefore
  <2>2. CASE line[k] \in Strings
    <3>1. QuotesBefore(line, k + 1) = QuotesBefore(line, k) \cup {k}
        BY <1>1, <2>2 DEF QuotesBefore
    <3>. QED
        BY <1>2, <2>1, <2>2, <3>1, FS_AddElement
  <2>3. CASE line[k] \notin Strings
    <3>1. QuotesBefore(line, k + 1) = QuotesBefore(line, k)
        BY <1>1, <2>3 DEF QuotesBefore
    <3>. QED
        BY <1>3, <2>3, <3>1
  <2>. QED
      BY <2>2, <2>3
<1>5. ASSUME k = Len(line) + 1 PROVE Cardinality(QuotesBefore(line, k)) = quotes(line)
  <2>1. QuotesBefore(line, k) = {j \in DOMAIN line : line[j] \in {DQ, SQ}}
      BY <1>1, <1>5 DEF QuotesBefore, Strings
  <2>. QED
      BY <2>1 DEF quotes
<1>. QED
    BY <1>3, <1>4, <1>5

\* A quote in a line counts.
LEMMA QuoteCounts ==
    ASSUME NEW line \in Seq(Words)
    PROVE  /\ quotes(line) \in Nat
           /\ quotes(line) > 0 <=> \E k \in DOMAIN line : line[k] \in Strings
<1> DEFINE Q == {k \in DOMAIN line : line[k] \in {DQ, SQ}}
<1>1. IsFiniteSet(Q)
  <2>1. DOMAIN line = 1..Len(line) /\ Len(line) \in Nat
      OBVIOUS
  <2>2. IsFiniteSet(DOMAIN line)
      BY <2>1, FS_Interval
  <2>. QED
      BY <2>2, FS_Subset
<1>2. Cardinality(Q) \in Nat /\ (Cardinality(Q) = 0 <=> Q = {})
    BY <1>1, FS_CardinalityType, FS_EmptySet
<1>. QED
    BY <1>2 DEF quotes, Strings

\* The flag turns at a line with an odd number of quotes.
LEMMA FlagTurns ==
    ASSUME NEW lines \in Seq(Seq(Words))
    PROVE  /\ ~in_docstring(lines, 1)
           /\ \A i \in 1..Len(lines) :
                 in_docstring(lines, i + 1) <=> ~(in_docstring(lines, i) <=> Odd(quotes(lines[i])))
<1> DEFINE turned(i) == {j \in 1..(i - 1) : quotes(lines[j]) % 2 = 1}
<1>1. \A i : in_docstring(lines, i) <=> Odd(Cardinality(turned(i)))
    BY DEF in_docstring, Odd
<1>2. turned(1) = {}
    OBVIOUS
<1>3. ~in_docstring(lines, 1)
  <2> HIDE DEF turned
  <2>1. Cardinality(turned(1)) = 0
      BY <1>2, FS_EmptySet
  <2>. QED
      BY <1>1, <2>1, OddNext
<1>4. ASSUME NEW i \in 1..Len(lines)
      PROVE  in_docstring(lines, i + 1) <=> ~(in_docstring(lines, i) <=> Odd(quotes(lines[i])))
  <2>1. IsFiniteSet(turned(i)) /\ Cardinality(turned(i)) \in Nat
    <3>1. IsFiniteSet(1..(i - 1))
        BY FS_Interval
    <3>. QED
        BY <3>1, FS_Subset, FS_CardinalityType
  <2>2. CASE Odd(quotes(lines[i]))
    <3>1. turned(i + 1) = turned(i) \cup {i} /\ i \notin turned(i)
        BY <2>2 DEF Odd
    <3> HIDE DEF turned
    <3>2. Cardinality(turned(i + 1)) = Cardinality(turned(i)) + 1
        BY <2>1, <3>1, FS_AddElement
    <3>. QED
        BY <1>1, <2>1, <2>2, <3>2, OddNext
  <2>3. CASE ~Odd(quotes(lines[i]))
    <3>1. turned(i + 1) = turned(i)
        BY <2>3 DEF Odd
    <3> HIDE DEF turned
    <3>. QED
        BY <1>1, <2>3, <3>1
  <2>. QED
      BY <2>2, <2>3
<1>. QED
    BY <1>3, <1>4

-----------------------------------------------------------------------------
(* The flag against the lexer, in files of the usual style.                *)

QuoteIn(lines, q) == \E i \in DOMAIN lines : Has(lines[i], q)

\* Such a file has one kind of triple quote.
LEMMA OneKind ==
    ASSUME NEW lines, Disciplined(lines), NEW q \in Strings, NEW r \in Strings,
           QuoteIn(lines, q), QuoteIn(lines, r)
    PROVE  q = r
    BY DEF Disciplined, QuoteIn, Strings

\* The lexer is in a string as the quotes up to here say, and in one that its
\* quote has opened.
Tracked(lines, i, k) ==
    /\ ModeAt(lines, i, k) \in Strings => QuoteIn(lines, ModeAt(lines, i, k))
    /\ ModeAt(lines, i, k) \in Strings
         <=> ~(StartMode(lines, i) \in Strings <=> Odd(Cardinality(QuotesBefore(lines[i], k))))

\* The flag is on where the lexer starts in a string.
Agreed(lines, i) ==
    /\ StartMode(lines, i) \in Strings => QuoteIn(lines, StartMode(lines, i))
    /\ StartMode(lines, i) \in Strings <=> in_docstring(lines, i)

\* Through a line.
LEMMA LineTracked ==
    ASSUME NEW lines \in Seq(Seq(Words)), Disciplined(lines), NEW i \in DOMAIN lines,
           Agreed(lines, i)
    PROVE  \A k \in 1..(Len(lines[i]) + 1) : Tracked(lines, i, k)
<1> PICK line : line = lines[i]
    OBVIOUS
<1> PICK n : n = Len(line)
    OBVIOUS
<1> PICK start : start = StartMode(lines, i)
    OBVIOUS
<1>1. /\ line \in Seq(Words) /\ n \in Nat /\ DOMAIN line = 1..n /\ start \in LineModes
      /\ start \in ModeSet
    BY StartsFollow DEF LineModes, ModeSet
<1>2. /\ ModeAt(lines, i, 1) = start
      /\ \A k \in 1..(n + 1) : ModeAt(lines, i, k) \in ModeSet
      /\ \A k \in 1..n : ModeAt(lines, i, k + 1) = Lex(ModeAt(lines, i, k), line[k])
  <2>1. /\ Modes(start, line)[1] = start
        /\ \A k \in 1..(Len(line) + 1) : Modes(start, line)[k] \in ModeSet
        /\ \A k \in 1..Len(line) :
              Modes(start, line)[k + 1] = Lex(Modes(start, line)[k], line[k])
      BY <1>1, ModesFollow, Zenon
  <2>2. \A k : ModeAt(lines, i, k) = Modes(start, line)[k]
      BY Zenon DEF ModeAt
  <2>. QED
      BY <2>1, <2>2, Zenon
<1>3. Tracked(lines, i, 1)
  <2>1. QuotesBefore(line, 1) = {}
      BY DEF QuotesBefore
  <2>2. ~Odd(Cardinality(QuotesBefore(line, 1)))
    <3>1. Cardinality(QuotesBefore(line, 1)) = 0
        BY <2>1, FS_EmptySet
    <3>. QED
        BY <3>1, OddNext
  <2>. QED
      BY <1>2, <2>2 DEF Tracked, Agreed
<1>4. ASSUME NEW k \in 1..n, Tracked(lines, i, k) PROVE Tracked(lines, i, k + 1)
  <2> PICK mode : mode = ModeAt(lines, i, k)
      OBVIOUS
  <2> PICK word : word = line[k]
      OBVIOUS
  <2> DEFINE before(j) == Odd(Cardinality(QuotesBefore(line, j)))
  <2>1. /\ mode \in ModeSet /\ ModeAt(lines, i, k + 1) = Lex(mode, word)
        /\ word \in Words /\ word # "newline"
      BY <1>1, <1>2 DEF Words
  <2>2. /\ mode \in Strings => QuoteIn(lines, mode)
        /\ mode \in Strings <=> ~(start \in Strings <=> before(k))
      BY <1>4 DEF Tracked
  <2>3. before(k + 1) <=> IF word \in Strings THEN ~before(k) ELSE before(k)
    <3>1. k \in 1..(Len(line) + 1) /\ k \in DOMAIN line
        BY <1>1
    <3>2. /\ Cardinality(QuotesBefore(line, k)) \in Nat
          /\ Cardinality(QuotesBefore(line, k + 1))
               = Cardinality(QuotesBefore(line, k)) + (IF word \in Strings THEN 1 ELSE 0)
        BY <1>1, <3>1, QuotesCount
    <3>3. PICK c, d : c = Cardinality(QuotesBefore(line, k))
                      /\ d = Cardinality(QuotesBefore(line, k + 1))
        OBVIOUS
    <3>4. Odd(d) <=> IF word \in Strings THEN ~Odd(c) ELSE Odd(c)
      <4>1. c \in Nat /\ d = IF word \in Strings THEN c + 1 ELSE c
          BY <3>2, <3>3
      <4>2. Odd(c + 1) <=> ~Odd(c)
          BY <4>1, OddNext
      <4>. QED
          BY <4>1, <4>2
    <3>. QED
        BY <3>3, <3>4
  <2> HIDE DEF before
  <2>4. CASE word \in Strings
    <3>1. QuoteIn(lines, word)
        BY <1>1 DEF QuoteIn, Has
    <3>2. mode # "comment"
      <4>1. quotes(line) > 0
          BY <1>1, <2>4, QuoteCounts
      <4>. QED
          BY <1>1, <2>4, <4>1 DEF Disciplined, Strings
    <3>3. CASE mode = "code"
      <4>1. Lex(mode, word) = word
          BY <2>4, <3>3 DEF Lex, Strings, DQ, SQ
      <4>2. mode \notin Strings
          BY <3>3 DEF Strings, DQ, SQ
      <4>3. ModeAt(lines, i, k + 1) = word
          BY <2>1, <4>1
      <4>. QED
          BY <2>2, <2>3, <2>4, <3>1, <4>2, <4>3 DEF Tracked, before
    <3>4. CASE mode \in Strings
      <4>1. mode = word
          BY <2>2, <2>4, <3>1, <3>4, OneKind
      <4>2. Lex(mode, word) = "code" /\ "code" \notin Strings
          BY <3>4, <4>1 DEF Lex, Strings, DQ, SQ
      <4>3. ModeAt(lines, i, k + 1) \notin Strings
          BY <2>1, <4>2
      <4>. QED
          BY <2>2, <2>3, <2>4, <3>4, <4>3 DEF Tracked, before
    <3>. QED
        BY <2>1, <3>2, <3>3, <3>4 DEF ModeSet
  <2>5. CASE word \notin Strings
    <3>1. CASE mode \in Strings
      <4>1. Lex(mode, word) = mode
          BY <2>5, <3>1 DEF Lex, Strings, DQ, SQ
      <4>2. ModeAt(lines, i, k + 1) = mode
          BY <2>1, <4>1
      <4>. QED
          BY <2>2, <2>3, <2>5, <3>1, <4>2 DEF Tracked, before
    <3>2. CASE mode \notin Strings
      <4>1. Lex(mode, word) \in {"code", "comment"}
          BY <2>1, <2>5, <3>2 DEF Lex, ModeSet, Strings
      <4>2. ModeAt(lines, i, k + 1) \notin Strings
          BY <2>1, <4>1 DEF Strings, DQ, SQ
      <4>. QED
          BY <2>2, <2>3, <2>5, <3>2, <4>2 DEF Tracked, before
    <3>. QED
        BY <3>1, <3>2
  <2>. QED
      BY <2>4, <2>5
<1>5. 1..(n + 1) \subseteq {k \in Nat : Tracked(lines, i, k)}
  <2> DEFINE P == {k \in Nat : Tracked(lines, i, k)}
  <2>1. 1 \in P /\ \A k \in 1..n : k \in P => k + 1 \in P
      BY <1>3, <1>4
  <2> HIDE DEF P
  <2>2. 1..(n + 1) \subseteq P
      BY <1>1, <2>1, PlaceInduction
  <2>. QED
      BY <2>2 DEF P
<1>. QED
    BY <1>5

\* Through a file.
LEMMA FileTracked ==
    ASSUME NEW lines \in Seq(Seq(Words)), Disciplined(lines)
    PROVE  \A i \in DOMAIN lines : Agreed(lines, i)
<1> PICK n : n = Len(lines)
    OBVIOUS
<1>1. n \in Nat /\ DOMAIN lines = 1..n /\ \A i \in 1..n : lines[i] \in Seq(Words)
    OBVIOUS
<1>2. Agreed(lines, 1)
    BY StartsFollow, FlagTurns DEF Agreed, Strings, DQ, SQ
<1>3. ASSUME NEW i \in 1..n, Agreed(lines, i) PROVE Agreed(lines, i + 1)
  <2> PICK line : line = lines[i]
      OBVIOUS
  <2> PICK last : last = Len(line) + 1
      OBVIOUS
  <2> PICK mode : mode = ModeAt(lines, i, last)
      OBVIOUS
  <2>1. /\ line \in Seq(Words) /\ last \in 1..(Len(line) + 1)
        /\ i \in DOMAIN lines /\ i \in 1..Len(lines) /\ i \in 1..(Len(lines) + 1)
      BY <1>1
  <2>2. StartMode(lines, i) \in ModeSet
      BY <2>1, StartsFollow DEF LineModes, ModeSet
  <2>3. mode \in ModeSet
      BY <2>1, <2>2, ModesFollow DEF ModeAt
  <2>4. StartMode(lines, i + 1) = Lex(mode, "newline")
    <3>1. StartMode(lines, i + 1) = After(StartMode(lines, i), line)
        BY <2>1, StartsFollow
    <3>. QED
        BY <3>1 DEF After, ModeAt
  <2>5. Tracked(lines, i, last)
      BY <1>3, <2>1, LineTracked
  <2>6. IF mode \in Strings THEN StartMode(lines, i + 1) = mode
                            ELSE StartMode(lines, i + 1) \notin Strings
      BY <2>3, <2>4 DEF Lex, ModeSet, Strings, DQ, SQ
  <2>7. Cardinality(QuotesBefore(line, last)) = quotes(line)
      BY <2>1, QuotesCount
  <2>8. in_docstring(lines, i + 1) <=> ~(in_docstring(lines, i) <=> Odd(quotes(line)))
      BY <2>1, FlagTurns
  <2>. QED
      BY <1>3, <2>5, <2>6, <2>7, <2>8 DEF Tracked, Agreed
<1>4. 1..(n + 1) \subseteq {i \in Nat : Agreed(lines, i)}
  <2> DEFINE P == {i \in Nat : Agreed(lines, i)}
  <2>1. 1 \in P /\ \A i \in 1..n : i \in P => i + 1 \in P
      BY <1>2, <1>3
  <2> HIDE DEF P
  <2>2. 1..(n + 1) \subseteq P
      BY <1>1, <2>1, PlaceInduction
  <2>. QED
      BY <2>2 DEF P
<1>. QED
    BY <1>1, <1>4

\* A line without quotes has the mode of its start where that is a string, and none
\* where it is code.
LEMMA Unquoted ==
    ASSUME NEW lines \in Seq(Seq(Words)), Disciplined(lines), NEW i \in DOMAIN lines,
           ~(quotes(lines[i]) > 0), NEW k \in DOMAIN lines[i]
    PROVE  ModeAt(lines, i, k) \in Strings <=> in_docstring(lines, i)
<1> PICK line : line = lines[i]
    OBVIOUS
<1>1. line \in Seq(Words) /\ k \in 1..Len(line) /\ Len(line) \in Nat
    OBVIOUS
<1>2. QuotesBefore(line, k) = {}
    BY <1>1, QuoteCounts DEF QuotesBefore
<1>3. Cardinality(QuotesBefore(line, k)) = 0
    BY <1>2, FS_EmptySet
<1>4. Agreed(lines, i)
    BY FileTracked
<1>5. Tracked(lines, i, k)
  <2>1. k \in 1..(Len(lines[i]) + 1)
      BY <1>1
  <2>. QED
      BY <1>4, <2>1, LineTracked
<1>. QED
    BY <1>3, <1>4, <1>5, OddNext DEF Tracked, Agreed

\* The findings of such a file are the lines it should be reported for.
LEMMA FindingsAreLive ==
    ASSUME NEW lines \in Seq(Seq(Words)), Disciplined(lines)
    PROVE  check_file(lines) = Live(lines)
<1>1. /\ DOMAIN lines = 1..Len(lines) /\ Len(lines) \in Nat
      /\ \A i \in DOMAIN lines : lines[i] \in Seq(Words)
    OBVIOUS
<1>2. ASSUME NEW i \in DOMAIN lines, NEW k \in DOMAIN lines[i]
      PROVE  ModeAt(lines, i, k) \in ModeSet
  <2>1. k \in 1..(Len(lines[i]) + 1) /\ i \in 1..(Len(lines) + 1)
      BY <1>1
  <2>2. StartMode(lines, i) \in ModeSet
      BY <2>1, StartsFollow DEF LineModes, ModeSet
  <2>. QED
      BY <1>1, <2>1, <2>2, ModesFollow DEF ModeAt
<1>3. ASSUME NEW i \in DOMAIN lines, NEW rule \in Rules, <<i, rule>> \in check_file(lines)
      PROVE  <<i, rule>> \in Live(lines)
  <2>1. /\ ~in_docstring(lines, i) /\ ~(quotes(lines[i]) > 0)
        /\ ~Waived(lines[i]) /\ Matches(lines, i, rule)
      BY <1>3 DEF check_file, Skipped
  <2>2. PICK k \in DOMAIN lines[i] : lines[i][k] = rule
      BY <2>1 DEF Matches, Has
  <2>3. ModeAt(lines, i, k) \in {"code", "comment"}
      BY <1>2, <2>1, Unquoted DEF ModeSet
  <2>4. Head(lines[i]) # "#" /\ ~Has(lines[i], ALLOW)
      BY <1>1, <2>1, <2>2 DEF Waived
  <2>5. rule = "swallowed-except" => i + 1 \in DOMAIN lines /\ lines[i + 1] = <<"pass">>
      BY <1>1, <2>1 DEF Matches
  <2>. QED
      BY <2>2, <2>3, <2>4, <2>5 DEF Live
<1>4. ASSUME NEW i \in DOMAIN lines, NEW rule \in Rules, <<i, rule>> \in Live(lines)
      PROVE  <<i, rule>> \in check_file(lines)
  <2>1. PICK k \in DOMAIN lines[i] :
            lines[i][k] = rule /\ ModeAt(lines, i, k) \in {"code", "comment"}
      BY <1>4 DEF Live
  <2>2. ModeAt(lines, i, k) \notin Strings
      BY <2>1 DEF Strings, DQ, SQ
  <2>3. ~(quotes(lines[i]) > 0)
      BY <2>1, <2>2 DEF Disciplined, Strings
  <2>4. ~Skipped(lines, i)
      BY <2>2, <2>3, Unquoted DEF Skipped
  <2>5. ~Waived(lines[i])
      BY <1>4 DEF Live, Waived
  <2>6. Matches(lines, i, rule)
      BY <1>1, <1>4, <2>1 DEF Live, Matches, Has
  <2>. QED
      BY <2>4, <2>5, <2>6 DEF check_file
<1>5. check_file(lines) \subseteq (DOMAIN lines) \X Rules /\ Live(lines) \subseteq (DOMAIN lines) \X Rules
    BY DEF check_file, Live
<1>. QED
    BY <1>3, <1>4, <1>5

-----------------------------------------------------------------------------

FilesTypeOK == content \in [Paths -> Seq(Seq(Words))]

\* What is written keeps files of lines of words.
LEMMA FilesStep == FilesTypeOK /\ [InputNext]_inputVars => FilesTypeOK'
<1> SUFFICES ASSUME FilesTypeOK, [InputNext]_inputVars PROVE FilesTypeOK'
    OBVIOUS
<1>1. ASSUME NEW p \in Paths, NEW line \in Lines, Write(p, line) PROVE FilesTypeOK'
  <2>1. line \in Seq(Words)
      BY LinesArePlain DEF Words
  <2>2. Append(content[p], line) \in Seq(Seq(Words))
      BY <2>1 DEF FilesTypeOK
  <2>. QED
      BY <1>1, <2>2 DEF Write, FilesTypeOK
<1>2. ASSUME UNCHANGED content PROVE FilesTypeOK'
    BY <1>2 DEF FilesTypeOK
<1>. QED
    BY <1>1, <1>2 DEF InputNext, Type, Lock, inputVars

\* For files of any length: in those of the usual style the counting of quotes finds
\* what a lexer would, and the exit code is 0 only if every file in scope was read
\* and is clean.
THEOREM VerdictsAreWarranted == InputSpec => []VerdictIsWarranted
<1>1. InputInit => FilesTypeOK
    BY DEF InputInit, FilesTypeOK
<1>2. FilesTypeOK => VerdictIsWarranted
  <2> SUFFICES ASSUME FilesTypeOK PROVE VerdictStands(content, InScope, unreadable)
      BY DEF VerdictIsWarranted
  <2> DEFINE usual == {p \in DOMAIN content : Disciplined(content[p])}
             code == main(content, InScope, unreadable)
  <2>1. \A p \in usual : check_file(content[p]) = Live(content[p])
      BY FindingsAreLive DEF FilesTypeOK
  <2>2. ASSUME InScope \subseteq usual
        PROVE  /\ code = 0 => \A p \in InScope : p \notin unreadable /\ Live(content[p]) = {}
               /\ code = 1 => /\ InScope \cap unreadable = {}
                              /\ \E p \in InScope : Live(content[p]) # {}
               /\ code = 2 => InScope \cap unreadable # {}
      BY <2>1, <2>2 DEF main
  <2>. QED
      BY <2>1, <2>2 DEF VerdictStands
<1>. QED
    BY <1>1, <1>2, FilesStep, PTL DEF InputSpec

-----------------------------------------------------------------------------
(* Which amounts are accepted.                                             *)

\* A set of numbers has a least one.
LEMMA MinOf ==
    ASSUME NEW S \in SUBSET Nat, S # {}
    PROVE  Min(S) \in S /\ \A y \in S : Min(S) <= y
<1>1. PICK x \in S : \A y \in S : ~(<<y, x>> \in Below)
    BY BelowWF, WFMin, Zenon
<1>2. ASSUME NEW y \in S PROVE x <= y
  <2>1. y \in Nat /\ x \in Nat /\ ~(<<y, x>> \in Below)
      BY <1>1
  <2>. QED
      BY <2>1 DEF Below
<1>. QED
    BY <1>2 DEF Min

\* A set of numbers up to n has a greatest one.
LEMMA MaxOf ==
    ASSUME NEW n \in Nat, NEW S \in SUBSET (1..n), S # {}
    PROVE  Max(S) \in S /\ \A y \in S : y <= Max(S)
<1> DEFINE R == {n - x : x \in S}
<1>1. R \in SUBSET Nat /\ R # {}
  <2>1. \A x \in S : n - x \in Nat
      OBVIOUS
  <2>. QED
      BY <2>1
<1>2. PICK r \in R : \A y \in R : r <= y
  <2> HIDE DEF R
  <2>. QED
      BY <1>1, MinOf
<1>3. PICK x \in S : r = n - x
    BY <1>2
<1>4. ASSUME NEW y \in S PROVE y <= x
  <2>1. n - y \in R
      OBVIOUS
  <2>2. n - x <= n - y
      BY <1>2, <1>3, <2>1
  <2>3. x \in Nat /\ y \in Nat
      OBVIOUS
  <2>. QED
      BY <2>2, <2>3
<1>. QED
    BY <1>4 DEF Max

\* Neither blanks nor the point nor separators are digits, and they differ.
LEMMA DigitsApart ==
    /\ " " \notin DigitSet /\ "." \notin DigitSet /\ "," \notin DigitSet
    /\ "," # "." /\ "," # " " /\ " " # "."
<1>1. DigitSet = {"0", "1", "2", "3", "4", "5", "6", "7", "8", "9"}
  <2>1. DOMAIN Digits = 1..10
      BY DEF Digits
  <2>2. \A i \in 1..10 : Digits[i] \in {"0", "1", "2", "3", "4", "5", "6", "7", "8", "9"}
      BY DEF Digits
  <2>3. /\ Digits[1] = "0" /\ Digits[2] = "1" /\ Digits[3] = "2" /\ Digits[4] = "3"
        /\ Digits[5] = "4" /\ Digits[6] = "5" /\ Digits[7] = "6" /\ Digits[8] = "7"
        /\ Digits[9] = "8" /\ Digits[10] = "9"
      BY DEF Digits
  <2>. QED
      BY <2>1, <2>2, <2>3 DEF DigitSet, ToSet
<1>. QED
    BY <1>1

\* The first and the last of them are these two.
LEMMA Extremes ==
    ASSUME NEW n \in Nat, NEW S \in SUBSET (1..n), NEW a \in S, NEW b \in S,
           \A i \in S : a <= i /\ i <= b
    PROVE  Min(S) = a /\ Max(S) = b
<1>1. S \in SUBSET Nat /\ S # {}
    OBVIOUS
<1>2. Min(S) \in S /\ \A y \in S : Min(S) <= y
    BY <1>1, MinOf
<1>3. Max(S) \in S /\ \A y \in S : y <= Max(S)
    BY <1>1, MaxOf
<1>4. /\ a \in Nat /\ b \in Nat /\ Min(S) \in Nat /\ Max(S) \in Nat
      /\ Min(S) <= a /\ a <= Min(S) /\ Max(S) <= b /\ b <= Max(S)
    BY <1>1, <1>2, <1>3
<1>. QED
    BY <1>4

\* A part of a sequence, place by place.
LEMMA PartOf ==
    ASSUME NEW C, NEW s \in Seq(C), NEW a \in 1..Len(s), NEW b \in 1..Len(s), a <= b
    PROVE  /\ SubSeq(s, a, b) \in Seq(C)
           /\ Len(SubSeq(s, a, b)) = b - a + 1
           /\ \A j \in 1..(b - a + 1) : SubSeq(s, a, b)[j] = s[a + j - 1]
    OBVIOUS

\* The places of a text that hold no blank.
Inner(s) == {i \in DOMAIN s : s[i] # " "}

\* The text between the first and the last character that is no blank.
LEMMA StripText ==
    ASSUME NEW C, NEW s \in Seq(C), NEW a \in Inner(s), NEW b \in Inner(s),
           \A i \in Inner(s) : a <= i /\ i <= b
    PROVE  /\ a \in 1..Len(s) /\ b \in 1..Len(s) /\ a <= b
           /\ Strip(s) = SubSeq(s, a, b)
<1>1. DOMAIN s = 1..Len(s) /\ Len(s) \in Nat
    OBVIOUS
<1>2. Inner(s) \in SUBSET (1..Len(s)) /\ Inner(s) # {}
    BY <1>1, Zenon DEF Inner
<1>3. Min(Inner(s)) = a /\ Max(Inner(s)) = b
    BY <1>1, <1>2, Extremes
<1>4. Strip(s) = SubSeq(s, a, b)
    BY <1>2, <1>3, Zenon DEF Strip, Inner
<1>. QED
    BY <1>2, <1>4

\* The places of the point in a text.
PointsOf(text) == {i \in DOMAIN text : text[i] = "."}

\* There is at most one point if no two places hold one.
LEMMA PointsFinite ==
    ASSUME NEW C, NEW text \in Seq(C)
    PROVE  /\ IsFiniteSet(PointsOf(text)) /\ PointsOf(text) \in SUBSET Nat
           /\ Cardinality(PointsOf(text)) <= 1 <=> \A i, j \in PointsOf(text) : i = j
<1>1. DOMAIN text = 1..Len(text) /\ Len(text) \in Nat
    OBVIOUS
<1>2. IsFiniteSet(PointsOf(text)) /\ PointsOf(text) \in SUBSET Nat
  <2>1. IsFiniteSet(1..Len(text))
      BY <1>1, FS_Interval
  <2>2. PointsOf(text) \subseteq 1..Len(text)
      BY <1>1 DEF PointsOf
  <2>. QED
      BY <1>1, <2>1, <2>2, FS_Subset
<1> PICK P : P = PointsOf(text)
    OBVIOUS
<1>3. IsFiniteSet(P) /\ Cardinality(P) \in Nat
    BY <1>2, FS_CardinalityType
<1>4. ASSUME Cardinality(P) <= 1, NEW i \in P, NEW j \in P PROVE i = j
  <2>1. IsFiniteSet(P \ {i}) /\ Cardinality(P \ {i}) = Cardinality(P) - 1
      BY <1>3, FS_RemoveElement
  <2>2. Cardinality(P \ {i}) \in Nat
      BY <2>1, FS_CardinalityType
  <2>3. Cardinality(P \ {i}) = 0
      BY <1>3, <1>4, <2>1, <2>2
  <2>4. P \ {i} = {}
      BY <2>1, <2>3, FS_EmptySet
  <2>. QED
      BY <2>4
<1>5. ASSUME \A i, j \in P : i = j PROVE Cardinality(P) <= 1
  <2>1. ASSUME P = {} PROVE Cardinality(P) <= 1
      BY <2>1, FS_EmptySet
  <2>2. ASSUME NEW i \in P PROVE Cardinality(P) <= 1
    <3>1. P = {i}
        BY <1>5
    <3>2. Cardinality({i}) = 1
        BY FS_Singleton
    <3>. QED
        BY <3>1, <3>2
  <2>. QED
      BY <2>1, <2>2
<1>. QED
    BY <1>2, <1>4, <1>5

\* A text of digits and at most one point, at place p of s, between blanks.
Shaped(s, a, b, p, blank, point, D) ==
    \A i \in 1..Len(s) :
        IF i < a \/ i >= b THEN s[i] = blank
        ELSE IF i = p THEN s[i] = point ELSE s[i] \in D

\* What is blank outside, and inside is digits and a point at p, has that shape.
LEMMA ShapedSent ==
    ASSUME NEW C, NEW s \in Seq(C), NEW blank, NEW point, NEW D,
           NEW a \in 1..Len(s), NEW c \in 1..Len(s), a <= c, NEW p \in Nat,
           \A i \in 1..Len(s) : s[i] # blank => a <= i /\ i <= c,
           \A j \in 1..(c - a + 1) : s[a + j - 1] \in D \cup {point},
           \A j \in 1..(c - a + 1) : s[a + j - 1] = point <=> j = p - a + 1
    PROVE  Shaped(s, a, c + 1, p, blank, point, D)
<1>1. Len(s) \in Nat /\ a \in Nat /\ c \in Nat
    OBVIOUS
<1>2. ASSUME NEW i \in 1..Len(s), i < a \/ i >= c + 1 PROVE s[i] = blank
    BY <1>1, <1>2
<1>3. ASSUME NEW i \in 1..Len(s), ~(i < a \/ i >= c + 1)
      PROVE  IF i = p THEN s[i] = point ELSE s[i] \in D
  <2>1. i - a + 1 \in 1..(c - a + 1) /\ a + (i - a + 1) - 1 = i
      BY <1>1, <1>3
  <2>2. s[i] \in D \cup {point} /\ (s[i] = point <=> i - a + 1 = p - a + 1)
      BY <2>1
  <2>3. i - a + 1 = p - a + 1 <=> i = p
      BY <1>1
  <2>. QED
      BY <2>2, <2>3
<1>. QED
    BY <1>2, <1>3 DEF Shaped

\* What is between the blanks of such a text.
Framed(s, a, b, p, blank, point, D) ==
    /\ a \in 1..Len(s) /\ b - 1 \in 1..Len(s) /\ a <= b - 1
    /\ s[a] # blank /\ s[b - 1] # blank
    /\ \A i \in 1..Len(s) : s[i] # blank => a <= i /\ i <= b - 1
    /\ \A j \in 1..(b - a) : s[a + j - 1] \in D \cup {point}
    /\ \A j \in 1..(b - a) : s[a + j - 1] = point <=> j = p - a + 1

\* What has that shape is framed by its first and last character that is no blank.
LEMMA ShapedRead ==
    ASSUME NEW C, NEW s \in Seq(C), NEW blank, NEW point, NEW D,
           blank \notin D, point \notin D, blank # point,
           NEW a \in 1..(Len(s) + 1), NEW b \in 1..(Len(s) + 1), NEW p \in 1..(Len(s) + 1),
           a < b, Shaped(s, a, b, p, blank, point, D)
    PROVE  Framed(s, a, b, p, blank, point, D)
<1>1. Len(s) \in Nat /\ a \in Nat /\ b \in Nat /\ p \in Nat
    OBVIOUS
<1>2. ASSUME NEW i \in 1..Len(s), ~(i < a \/ i >= b)
      PROVE  s[i] \in D \cup {point} /\ s[i] # blank /\ (s[i] = point <=> i = p)
    BY <1>2 DEF Shaped
<1>3. a \in 1..Len(s) /\ b - 1 \in 1..Len(s) /\ a <= b - 1
    BY <1>1
<1>4. s[a] # blank /\ s[b - 1] # blank
  <2>1. ~(a < a \/ a >= b) /\ ~(b - 1 < a \/ b - 1 >= b)
      BY <1>1
  <2>. QED
      BY <1>2, <1>3, <2>1
<1>5. ASSUME NEW i \in 1..Len(s), s[i] # blank PROVE a <= i /\ i <= b - 1
    BY <1>1, <1>5 DEF Shaped
<1>6. ASSUME NEW j \in 1..(b - a)
      PROVE  s[a + j - 1] \in D \cup {point} /\ (s[a + j - 1] = point <=> j = p - a + 1)
  <2>1. a + j - 1 \in 1..Len(s) /\ ~(a + j - 1 < a \/ a + j - 1 >= b)
      BY <1>1
  <2>2. a + j - 1 = p <=> j = p - a + 1
      BY <1>1
  <2>. QED
      BY <1>2, <2>1, <2>2
<1>. QED
    BY <1>3, <1>4, <1>5, <1>6 DEF Framed

\* Digits with a point at place q, or with none if q is after them, and with no
\* more digits after it than the currency has.
Proper(text, q) ==
    /\ \A j \in 1..Len(text) : text[j] \in DigitSet \cup {"."}
    /\ \A j \in 1..Len(text) : text[j] = "." <=> j = q
    /\ \E j \in 1..Len(text) : j # q
    /\ Len(text) <= q + minor_unit_digits

\* The digits after the point of a proper text.
LEMMA FractionDigitsAre ==
    ASSUME NEW C, NEW text \in Seq(C), NEW q \in 1..(Len(text) + 1), Proper(text, q)
    PROVE  FractionDigits(text) = IF q <= Len(text) THEN Len(text) - q ELSE 0
<1>1. DOMAIN text = 1..Len(text) /\ Len(text) \in Nat
    OBVIOUS
<1>2. \A i \in 1..Len(text) : i \in PointsOf(text) <=> i = q
    BY <1>1, Zenon DEF Proper, PointsOf
<1>3. PointsOf(text) \subseteq 1..Len(text)
    BY <1>1, Zenon DEF PointsOf
<1>4. CASE q <= Len(text)
  <2>1. q \in PointsOf(text) /\ \A i \in PointsOf(text) : i = q
      BY <1>1, <1>2, <1>3, <1>4
  <2>2. Min(PointsOf(text)) = q
      BY <2>1, MinOf, PointsFinite
  <2>3. PointsOf(text) # {}
      BY <2>1, Zenon
  <2>4. FractionDigits(text) = Len(text) - Min(PointsOf(text))
      BY <2>3, Zenon DEF FractionDigits, PointsOf
  <2>. QED
      BY <1>4, <2>2, <2>4
<1>5. CASE q > Len(text)
  <2>1. PointsOf(text) = {}
      BY <1>1, <1>2, <1>3, <1>5
  <2>2. FractionDigits(text) = 0
      BY <2>1, Zenon DEF FractionDigits, PointsOf
  <2>. QED
      BY <1>5, <2>2
<1>. QED
    BY <1>1, <1>4, <1>5

\* Such a text passes every check of parse_minor_units.
LEMMA ProperIsAccepted ==
    ASSUME NEW C, NEW text \in Seq(C), NEW q \in 1..(Len(text) + 1), Proper(text, q)
    PROVE  Acceptable(text) /\ FractionDigits(text) <= minor_unit_digits
<1>1. DOMAIN text = 1..Len(text) /\ Len(text) \in Nat /\ q \in Nat
    OBVIOUS
<1>2. PICK j \in 1..Len(text) : j # q
    BY DEF Proper
<1>3. text # <<>>
    BY <1>1, <1>2
<1>4. ToSet(text) \subseteq DigitSet \cup {"."}
    BY <1>1 DEF Proper, ToSet
<1>5. \A i \in PointsOf(text) : i = q
    BY <1>1 DEF Proper, PointsOf
<1>6. Cardinality(PointsOf(text)) <= 1
    BY <1>5, PointsFinite
<1>7. text # <<".">>
  <2>1. text[j] # "."
      BY <1>2 DEF Proper
  <2>2. ASSUME text = <<".">> PROVE FALSE
    <3>1. Len(text) = 1 /\ text[1] = "."
        BY <2>2
    <3>2. j = 1
        BY <1>2, <3>1
    <3>. QED
        BY <2>1, <3>1, <3>2
  <2>. QED
      BY <2>2
<1>8. FractionDigits(text) <= minor_unit_digits
  <2>1. FractionDigits(text) = IF q <= Len(text) THEN Len(text) - q ELSE 0
      BY FractionDigitsAre
  <2>2. Len(text) <= q + minor_unit_digits
      BY DEF Proper
  <2>. QED
      BY <1>1, <2>1, <2>2, MoneyConstants
<1>. QED
    BY <1>3, <1>4, <1>6, <1>7, <1>8, Zenon DEF Acceptable, PointsOf

\* Only such a text passes them.
LEMMA AcceptedIsProper ==
    ASSUME NEW C, NEW text \in Seq(C),
           Acceptable(text), FractionDigits(text) <= minor_unit_digits
    PROVE  \E q \in 1..(Len(text) + 1) : Proper(text, q)
<1>1. DOMAIN text = 1..Len(text) /\ Len(text) \in Nat
    OBVIOUS
<1>2. Len(text) # 0
    BY DEF Acceptable
<1>3. \A j \in 1..Len(text) : text[j] \in DigitSet \cup {"."}
    BY <1>1 DEF Acceptable, ToSet
<1>4. \A i, j \in PointsOf(text) : i = j
  <2>1. Cardinality(PointsOf(text)) <= 1
      BY Zenon DEF Acceptable, PointsOf
  <2>. QED
      BY <2>1, PointsFinite
<1>5. ASSUME PointsOf(text) = {} PROVE Proper(text, Len(text) + 1)
  <2>1. \A j \in 1..Len(text) : text[j] # "."
      BY <1>1, <1>5 DEF PointsOf
  <2>2. \A j \in 1..Len(text) : j # Len(text) + 1
      BY <1>1
  <2>3. 1 \in 1..Len(text)
      BY <1>1, <1>2
  <2>4. Len(text) <= Len(text) + 1 + minor_unit_digits
      BY <1>1, MoneyConstants
  <2>. QED
      BY <1>3, <2>1, <2>2, <2>3, <2>4, Zenon DEF Proper
<1>6. ASSUME NEW q \in PointsOf(text) PROVE q \in 1..Len(text) /\ Proper(text, q)
  <2>1. q \in 1..Len(text) /\ text[q] = "."
      BY <1>1 DEF PointsOf
  <2>2. \A j \in 1..Len(text) : text[j] = "." <=> j = q
      BY <1>1, <1>4, <2>1 DEF PointsOf
  <2>3. \E j \in 1..Len(text) : j # q
    <3>1. ASSUME \A j \in 1..Len(text) : j = q PROVE FALSE
      <4>1. 1 \in 1..Len(text) /\ Len(text) \in 1..Len(text)
          BY <1>1, <1>2
      <4>2. Len(text) = 1 /\ q = 1
          BY <3>1, <4>1
      <4>3. text[1] = "."
          BY <2>1, <4>2
      <4>4. text = <<".">>
          BY <4>2, <4>3
      <4>. QED
          BY <4>4 DEF Acceptable
    <3>. QED
        BY <3>1
  <2>4. Len(text) <= q + minor_unit_digits
    <3>1. FractionDigits(text) = Len(text) - Min(PointsOf(text))
        BY <1>6, Zenon DEF FractionDigits, PointsOf
    <3>2. Min(PointsOf(text)) \in PointsOf(text)
        BY <1>6, MinOf, PointsFinite
    <3>3. Min(PointsOf(text)) = q
        BY <1>4, <1>6, <3>2
    <3>. QED
        BY <1>1, <2>1, <3>1, <3>3, MoneyConstants
  <2>. QED
      BY <1>3, <2>1, <2>2, <2>3, <2>4, Zenon DEF Proper
<1>. QED
    BY <1>1, <1>5, <1>6

\* The places of the digits in a text.
DigitsOf(s) == {i \in DOMAIN s : s[i] \in DigitSet}

\* Digits from a on before b, and a point among them at p.
Laid(s, a, b, p) ==
    /\ \A i \in 1..Len(s) : i \in DigitsOf(s) <=> a <= i /\ i < b /\ i # p
    /\ \A i \in 1..Len(s) : i \in PointsOf(s) <=> i = p /\ i < b

Placed(s, a, b, p, point, D) ==
    /\ \A i \in 1..Len(s) : s[i] \in D <=> a <= i /\ i < b /\ i # p
    /\ \A i \in 1..Len(s) : s[i] = point <=> i = p /\ i < b

\* In that shape, the digits are the places but p, and the point is at p.
LEMMA ShapedIsPlaced ==
    ASSUME NEW s, NEW a \in Nat, NEW b \in Nat, NEW p \in Nat, a <= p,
           NEW blank, NEW point, NEW D, blank \notin D, point \notin D, blank # point,
           Shaped(s, a, b, p, blank, point, D)
    PROVE  Placed(s, a, b, p, point, D)
    BY DEF Shaped, Placed

\* s is blanks but for a text from a on before b, with its point at p.
Holds(s, C, a, b, p) ==
    /\ a < b /\ a <= p /\ p <= b /\ b - p <= minor_unit_digits + 1
    /\ Laid(s, a, b, p)
    /\ Strip(s) \in Seq(C) /\ Len(Strip(s)) = b - a
    /\ \A j \in 1..(b - a) : Strip(s)[j] = s[a + j - 1]
    /\ Proper(Strip(s), p - a + 1)

\* A well-formed amount is such a text between blanks.
LEMMA WellFormedHolds ==
    ASSUME NEW C, NEW s \in Seq(C), WellFormed(s)
    PROVE  \E a \in 1..Len(s), b \in 1..(Len(s) + 1), p \in 1..(Len(s) + 1) : Holds(s, C, a, b, p)
<1>1. DOMAIN s = 1..Len(s) /\ Len(s) \in Nat
    OBVIOUS
<1>2. PICK a \in 1..(Len(s) + 1), b \in 1..(Len(s) + 1), p \in 1..(Len(s) + 1) :
          /\ a <= p /\ p <= b
          /\ Shaped(s, a, b, p, " ", ".", DigitSet)
          /\ b - p <= minor_unit_digits + 1
          /\ \E i \in a..(b - 1) : i # p
    BY <1>1, Zenon DEF WellFormed, Shaped
<1>3. a < b /\ a \in Nat /\ b \in Nat /\ p \in Nat /\ a <= p /\ p <= b
  <2>1. a <= p /\ p <= b /\ \E i \in a..(b - 1) : i # p
      BY <1>2
  <2>. QED
      BY <1>1, <2>1
<1>0. " " # "." /\ " " \notin DigitSet /\ "." \notin DigitSet
    BY DigitsApart, Zenon
<1>4. /\ a \in 1..Len(s) /\ b - 1 \in 1..Len(s) /\ a <= b - 1
      /\ s[a] # " " /\ s[b - 1] # " "
      /\ \A i \in 1..Len(s) : s[i] # " " => a <= i /\ i <= b - 1
      /\ \A j \in 1..(b - a) : s[a + j - 1] \in DigitSet \cup {"."}
      /\ \A j \in 1..(b - a) : s[a + j - 1] = "." <=> j = p - a + 1
  <2>1. a < b /\ Shaped(s, a, b, p, " ", ".", DigitSet)
      BY <1>2, <1>3, Zenon
  <2>2. Framed(s, a, b, p, " ", ".", DigitSet)
      BY <1>0, <2>1, ShapedRead, Zenon
  <2>. QED
      BY <2>2, Zenon DEF Framed
<1>5. /\ a \in Inner(s) /\ b - 1 \in Inner(s)
      /\ \A i \in Inner(s) : a <= i /\ i <= b - 1
    BY <1>1, <1>4, Zenon DEF Inner
<1>6. Strip(s) = SubSeq(s, a, b - 1)
    BY <1>5, StripText, Zenon
<1>7. /\ Strip(s) \in Seq(C) /\ Len(Strip(s)) = b - a
      /\ \A j \in 1..(b - a) : Strip(s)[j] = s[a + j - 1]
  <2>1. (b - 1) - a + 1 = b - a
      BY <1>3
  <2>2. /\ SubSeq(s, a, b - 1) \in Seq(C)
        /\ Len(SubSeq(s, a, b - 1)) = (b - 1) - a + 1
        /\ \A j \in 1..((b - 1) - a + 1) : SubSeq(s, a, b - 1)[j] = s[a + j - 1]
      BY <1>4, PartOf, Zenon
  <2>. QED
      BY <1>6, <2>1, <2>2, Zenon
<1>8. Proper(Strip(s), p - a + 1)
  <2>1. /\ \A j \in 1..(b - a) : Strip(s)[j] \in DigitSet \cup {"."}
        /\ \A j \in 1..(b - a) : Strip(s)[j] = "." <=> j = p - a + 1
      BY <1>4, <1>7, Zenon
  <2>2. \E j \in 1..(b - a) : j # p - a + 1
    <3>1. PICK i \in a..(b - 1) : i # p
        BY <1>2, Zenon
    <3>2. i - a + 1 \in 1..(b - a) /\ i - a + 1 # p - a + 1
        BY <1>3, <3>1
    <3>. QED
        BY <3>2
  <2>3. b - a <= (p - a + 1) + minor_unit_digits
    <3>1. b - p <= minor_unit_digits + 1
        BY <1>2, Zenon
    <3>. QED
        BY <1>3, <3>1, MoneyConstants
  <2>. QED
      BY <1>7, <2>1, <2>2, <2>3, Zenon DEF Proper
<1>9. Laid(s, a, b, p)
  <2>1. Shaped(s, a, b, p, " ", ".", DigitSet)
      BY <1>2, Zenon
  <2>2. a \in Nat /\ b \in Nat /\ p \in Nat /\ a <= p
      BY <1>3, Zenon
  <2>3. Placed(s, a, b, p, ".", DigitSet)
      BY <1>0, <2>1, <2>2, ShapedIsPlaced, Zenon
  <2>. QED
      BY <1>1, <2>3, Zenon DEF Placed, Laid, DigitsOf, PointsOf
<1>. QED
    BY <1>2, <1>3, <1>4, <1>7, <1>8, <1>9, Zenon DEF Holds

\* A well-formed amount passes the checks.
LEMMA WellFormedIsProper ==
    ASSUME NEW C, NEW s \in Seq(C), WellFormed(s)
    PROVE  Acceptable(Strip(s)) /\ FractionDigits(Strip(s)) <= minor_unit_digits
<1>1. PICK a \in 1..Len(s), b \in 1..(Len(s) + 1), p \in 1..(Len(s) + 1) : Holds(s, C, a, b, p)
    BY WellFormedHolds
<1>2. /\ a < b /\ a <= p /\ p <= b /\ Strip(s) \in Seq(C) /\ Len(Strip(s)) = b - a
      /\ Proper(Strip(s), p - a + 1)
    BY <1>1, Zenon DEF Holds
<1>3. p - a + 1 \in 1..(Len(Strip(s)) + 1)
    BY <1>2
<1>. QED
    BY <1>2, <1>3, ProperIsAccepted, Zenon

\* An amount that passes them is well formed.
LEMMA ProperIsWellFormed ==
    ASSUME NEW C, NEW s \in Seq(C),
           Acceptable(Strip(s)), FractionDigits(Strip(s)) <= minor_unit_digits
    PROVE  WellFormed(s)
<1>1. DOMAIN s = 1..Len(s) /\ Len(s) \in Nat
    OBVIOUS
<1>2. Inner(s) \in SUBSET (1..Len(s)) /\ Inner(s) \in SUBSET Nat
  <2>1. Inner(s) \in SUBSET (1..Len(s))
      BY <1>1, Zenon DEF Inner
  <2>. QED
      BY <1>1, <2>1
<1>3. Inner(s) # {}
    BY Zenon DEF Strip, Inner, Acceptable
<1>4. PICK a \in Inner(s) : \A i \in Inner(s) : a <= i
    BY <1>2, <1>3, MinOf
<1>5. PICK c \in Inner(s) : \A i \in Inner(s) : i <= c
    BY <1>1, <1>2, <1>3, MaxOf
<1>6. /\ a \in 1..Len(s) /\ c \in 1..Len(s) /\ a <= c
      /\ Strip(s) = SubSeq(s, a, c)
    BY <1>4, <1>5, StripText, Zenon
<1>7. /\ Strip(s) \in Seq(C) /\ Len(Strip(s)) = c - a + 1
      /\ \A j \in 1..(c - a + 1) : Strip(s)[j] = s[a + j - 1]
  <2>1. /\ SubSeq(s, a, c) \in Seq(C) /\ Len(SubSeq(s, a, c)) = c - a + 1
        /\ \A j \in 1..(c - a + 1) : SubSeq(s, a, c)[j] = s[a + j - 1]
      BY <1>6, PartOf, Zenon
  <2>. QED
      BY <1>6, <2>1, Zenon
<1>8. PICK q \in 1..(Len(Strip(s)) + 1) : Proper(Strip(s), q)
    BY <1>7, AcceptedIsProper, Zenon
<1> DEFINE p == a + q - 1
<1>9. p \in Nat /\ q = p - a + 1 /\ p \in 1..(Len(s) + 1) /\ a <= p /\ p <= c + 1
    BY <1>6, <1>7
<1>10. /\ \A j \in 1..(c - a + 1) : s[a + j - 1] \in DigitSet \cup {"."}
       /\ \A j \in 1..(c - a + 1) : s[a + j - 1] = "." <=> j = p - a + 1
  <2> HIDE DEF p
  <2>1. Proper(Strip(s), p - a + 1)
      BY <1>8, <1>9, Zenon
  <2>2. ASSUME NEW j \in 1..(c - a + 1)
        PROVE  /\ s[a + j - 1] \in DigitSet \cup {"."}
               /\ s[a + j - 1] = "." <=> j = p - a + 1
    <3>1. j \in 1..Len(Strip(s)) /\ Strip(s)[j] = s[a + j - 1]
        BY <1>7, Zenon
    <3>2. Strip(s)[j] \in DigitSet \cup {"."} /\ (Strip(s)[j] = "." <=> j = p - a + 1)
        BY <2>1, <3>1, Zenon DEF Proper
    <3>. QED
        BY <3>1, <3>2, Zenon
  <2>. QED
      BY <2>2, Zenon
<1>11. Shaped(s, a, c + 1, p, " ", ".", DigitSet)
  <2>1. \A i \in 1..Len(s) : s[i] # " " => a <= i /\ i <= c
      BY <1>1, <1>4, <1>5, Zenon DEF Inner
  <2> HIDE DEF p
  <2>. QED
      BY <1>6, <1>9, <1>10, <2>1, ShapedSent, Zenon
<1>12. (c + 1) - p <= minor_unit_digits + 1
  <2>1. c - a + 1 <= q + minor_unit_digits
      BY <1>7, <1>8 DEF Proper
  <2>. QED
      BY <1>6, <1>7, <2>1, MoneyConstants
<1>13. \E i \in a..((c + 1) - 1) : i # p
  <2>1. PICK j \in 1..(c - a + 1) : j # q
      BY <1>7, <1>8 DEF Proper
  <2>2. a + j - 1 \in a..((c + 1) - 1) /\ a + j - 1 # p
      BY <1>6, <1>7, <2>1
  <2>. QED
      BY <2>2
<1>14. a \in 1..(Len(s) + 1) /\ c + 1 \in 1..(Len(s) + 1)
    BY <1>1, <1>6
<1>. QED
  <2> HIDE DEF p
  <2>. QED
      BY <1>1, <1>9, <1>11, <1>12, <1>13, <1>14, Zenon DEF WellFormed, Shaped

\* Every amount that is not blanks, digits, at most one point and few enough
\* digits after it is refused; every other has the value of its coefficient
\* (money.py:62-66, 92-105).
THEOREM AcceptedIsWellFormed ==
    ASSUME NEW C, NEW s \in Seq(C)
    PROVE  LET text == Strip(s) IN
           parse_minor_units(s) =
               IF WellFormed(s)
               THEN Rounded(Coefficient(text)) * Ten[minor_unit_digits - FractionDigits(text)]
               ELSE Rejected
<1>1. WellFormed(s)
          <=> Acceptable(Strip(s)) /\ FractionDigits(Strip(s)) <= minor_unit_digits
    BY WellFormedIsProper, ProperIsWellFormed, Zenon
<1>. QED
    BY <1>1, Zenon DEF parse_minor_units

-----------------------------------------------------------------------------
(* Counting from zero, and powers of ten.                                  *)

\* What holds of zero, and of each number after one it holds of.
LEMMA CountInduction ==
    ASSUME NEW P, NEW n \in Nat, 0 \in P, \A k \in 0..(n - 1) : k \in P => k + 1 \in P
    PROVE  0..n \subseteq P
<1> DEFINE Q == {k \in 1..(n + 1) : k - 1 \in P}
<1>1. 1 \in Q
    OBVIOUS
<1>2. ASSUME NEW k \in 1..n, k \in Q PROVE k + 1 \in Q
  <2>1. k - 1 \in 0..(n - 1) /\ k - 1 \in P /\ (k - 1) + 1 = k /\ (k + 1) - 1 = k
      BY <1>2
  <2>2. k \in P
      BY <2>1
  <2>. QED
      BY <2>1, <2>2
<1>3. 1..(n + 1) \subseteq Q
  <2> HIDE DEF Q
  <2>. QED
      BY <1>1, <1>2, PlaceInduction
<1>4. ASSUME NEW k \in 0..n PROVE k \in P
  <2>1. k + 1 \in 1..(n + 1) /\ (k + 1) - 1 = k
      OBVIOUS
  <2>2. k + 1 \in Q
      BY <1>3, <2>1
  <2>. QED
      BY <2>1, <2>2
<1>. QED
    BY <1>4

\* The same for all numbers.
LEMMA NatSetInduction ==
    ASSUME NEW P, 0 \in P, \A k \in Nat : k \in P => k + 1 \in P
    PROVE  Nat \subseteq P
<1>1. ASSUME NEW n \in Nat PROVE n \in P
  <2>1. \A k \in 0..(n - 1) : k \in P => k + 1 \in P
      OBVIOUS
  <2>2. 0..n \subseteq P
      BY <2>1, CountInduction
  <2>3. n \in 0..n
      OBVIOUS
  <2>. QED
      BY <2>2, <2>3
<1>. QED
    BY <1>1

\* f takes its values in S, from base on step by step.
Counts(f, S, base, step, n) ==
    f \in [0..n -> S] /\ f[0] = base /\ \A i \in 1..n : f[i] = step[i][f[i - 1]]

\* A function defined from number to number exists.
LEMMA CountExists ==
    ASSUME NEW S, NEW base \in S, NEW step \in [Nat -> [S -> S]], NEW n \in Nat
    PROVE  \E f : Counts(f, S, base, step, n)
<1>1. PICK g : Iterates(g, S, base, step, n)
    BY IterationExists
<1>2. /\ g \in [1..(n + 1) -> S] /\ g[1] = base
      /\ \A k \in 1..n : g[k + 1] = step[k][g[k]]
    BY <1>1 DEF Iterates
<1> DEFINE f == [i \in 0..n |-> g[i + 1]]
<1>3. f \in [0..n -> S] /\ f[0] = base
    BY <1>2
<1>4. ASSUME NEW i \in 1..n PROVE f[i] = step[i][f[i - 1]]
  <2>1. i \in 0..n /\ i - 1 \in 0..n /\ (i - 1) + 1 = i
      OBVIOUS
  <2>2. f[i] = g[i + 1] /\ f[i - 1] = g[i]
      BY <2>1
  <2>. QED
      BY <1>2, <2>2
<1>5. Counts(f, S, base, step, n)
  <2> HIDE DEF f
  <2>. QED
      BY <1>3, <1>4 DEF Counts
<1>. QED
    BY <1>5

\* Ten is the function that its definition says.
LEMMA TenIs == Ten = [n \in Nat |-> IF n = 0 THEN 1 ELSE 10 * Ten[n - 1]]
<1> DEFINE upto(f, n) == f \in [0..n -> Nat] /\ f[0] = 1 /\ \A i \in 1..n : f[i] = 10 * f[i - 1]
           follows(f) == f = [n \in Nat |-> IF n = 0 THEN 1 ELSE 10 * f[n - 1]]
<1>1. ASSUME NEW n \in Nat PROVE \E f : upto(f, n)
  <2> DEFINE step == [i \in Nat |-> [v \in Nat |-> 10 * v]]
  <2>1. step \in [Nat -> [Nat -> Nat]] /\ \A i, v \in Nat : step[i][v] = 10 * v
      OBVIOUS
  <2> HIDE DEF step
  <2>2. PICK f : Counts(f, Nat, 1, step, n)
      BY <2>1, CountExists
  <2>3. f \in [0..n -> Nat] /\ f[0] = 1 /\ \A i \in 1..n : f[i] = step[i][f[i - 1]]
      BY <2>2 DEF Counts
  <2>4. ASSUME NEW i \in 1..n PROVE f[i] = 10 * f[i - 1]
    <3>1. i \in Nat /\ i - 1 \in 0..n
        OBVIOUS
    <3>. QED
        BY <2>1, <2>3, <3>1
  <2>. QED
      BY <2>3, <2>4
<1>2. ASSUME NEW n \in Nat, NEW f, NEW g, upto(f, n), upto(g, n + 1) PROVE f[n] = g[n]
  <2> DEFINE P == {k \in 0..n : f[k] = g[k]}
  <2>1. 0 \in P
      BY <1>2
  <2>2. ASSUME NEW k \in 0..(n - 1), k \in P PROVE k + 1 \in P
    <3>1. k + 1 \in 1..n /\ k + 1 \in 1..(n + 1) /\ (k + 1) - 1 = k /\ k + 1 \in 0..n
        OBVIOUS
    <3>2. f[k + 1] = 10 * f[k] /\ g[k + 1] = 10 * g[k]
        BY <1>2, <3>1
    <3>. QED
        BY <2>2, <3>1, <3>2
  <2>3. n \in 0..n /\ 0..n \subseteq P
    <3> HIDE DEF P
    <3>. QED
        BY <2>1, <2>2, CountInduction
  <2>. QED
      BY <2>3
<1> DEFINE part(n) == CHOOSE f : upto(f, n)
           T == [n \in Nat |-> part(n)[n]]
<1>3. \A n \in Nat : upto(part(n), n)
  <2> HIDE DEF upto
  <2>. QED
      BY <1>1
<1>4. ASSUME NEW n \in Nat PROVE T[n] = IF n = 0 THEN 1 ELSE 10 * T[n - 1]
  <2> HIDE DEF part
  <2>1. CASE n = 0
    <3>1. part(0)[0] = 1
        BY <1>3
    <3>. QED
        BY <2>1, <3>1
  <2>2. CASE n # 0
    <3>1. n - 1 \in Nat /\ (n - 1) + 1 = n /\ n \in 1..n
        BY <2>2
    <3>2. part(n - 1)[n - 1] = part(n)[n - 1]
      <4>1. upto(part(n - 1), n - 1) /\ upto(part(n), (n - 1) + 1)
          BY <1>3, <3>1
      <4> HIDE DEF upto
      <4>. QED
          BY <1>2, <3>1, <4>1
    <3>3. part(n)[n] = 10 * part(n)[n - 1]
        BY <1>3, <3>1
    <3>. QED
        BY <2>2, <3>1, <3>2, <3>3
  <2>. QED
      BY <2>1, <2>2
<1>5. follows(T)
  <2>1. T = [n \in Nat |-> T[n]]
      OBVIOUS
  <2> HIDE DEF T
  <2>. QED
      BY <1>4, <2>1
<1>6. Ten = CHOOSE f : follows(f)
    BY Zenon DEF Ten
<1>7. follows(Ten)
  <2> HIDE DEF follows, T
  <2>. QED
      BY <1>5, <1>6
<1>. QED
    BY <1>7

\* Each power is ten times the one before, and larger than its exponent.
LEMMA TenStep ==
    /\ Ten[0] = 1
    /\ \A n \in Nat : Ten[n + 1] = 10 * Ten[n]
    /\ \A n \in Nat : Ten[n] \in Nat /\ Ten[n] > n
<1> DEFINE f(n) == Ten[n]
<1>1. \A n \in Nat : f(n) = IF n = 0 THEN 1 ELSE 10 * f(n - 1)
    BY TenIs
<1> HIDE DEF f
<1>2. f(0) = 1
    BY <1>1
<1>3. \A n \in Nat : f(n + 1) = 10 * f(n)
  <2> SUFFICES ASSUME NEW n \in Nat PROVE f(n + 1) = 10 * f(n)
      OBVIOUS
  <2>1. n + 1 \in Nat /\ n + 1 # 0 /\ (n + 1) - 1 = n
      OBVIOUS
  <2>. QED
      BY <1>1, <2>1
<1>4. \A n \in Nat : f(n) \in Nat /\ f(n) > n
  <2> DEFINE P == {n \in Nat : f(n) \in Nat /\ f(n) > n}
  <2>1. 0 \in P
      BY <1>2
  <2>2. ASSUME NEW k \in Nat, k \in P PROVE k + 1 \in P
      BY <1>3, <2>2
  <2>3. Nat \subseteq P
    <3> HIDE DEF P
    <3>. QED
        BY <2>1, <2>2, NatSetInduction
  <2>. QED
      BY <2>3
<1>. QED
    BY <1>2, <1>3, <1>4 DEF f

\* Exponents add.
LEMMA TenSum == \A a, b \in Nat : Ten[a + b] = Ten[a] * Ten[b]
<1> SUFFICES ASSUME NEW a \in Nat PROVE \A b \in Nat : Ten[a + b] = Ten[a] * Ten[b]
    OBVIOUS
<1> DEFINE P == {b \in Nat : Ten[a + b] = Ten[a] * Ten[b]}
<1>1. 0 \in P
    BY TenStep
<1>2. ASSUME NEW k \in Nat, k \in P PROVE k + 1 \in P
  <2>1. a + k \in Nat /\ a + (k + 1) = (a + k) + 1
      OBVIOUS
  <2>2. Ten[a + (k + 1)] = 10 * Ten[a + k] /\ Ten[k + 1] = 10 * Ten[k]
      BY <2>1, TenStep
  <2>3. Ten[a] \in Nat /\ Ten[k] \in Nat
      BY TenStep
  <2>4. Ten[a + k] = Ten[a] * Ten[k]
      BY <1>2
  <2>5. 10 * (Ten[a] * Ten[k]) = Ten[a] * (10 * Ten[k])
      BY <2>3
  <2>. QED
      BY <2>2, <2>4, <2>5
<1>3. Nat \subseteq P
  <2> HIDE DEF P
  <2>. QED
      BY <1>1, <1>2, NatSetInduction
<1>. QED
    BY <1>3

\* Higher powers are larger.
LEMMA TenGrows ==
    ASSUME NEW a \in Nat, NEW b \in Nat
    PROVE  /\ a <= b => Ten[a] <= Ten[b]
           /\ a < b => 10 * Ten[a] <= Ten[b]
<1>1. ASSUME NEW n \in Nat, NEW k \in Nat PROVE Ten[n] <= Ten[n + k]
  <2>1. Ten[n + k] = Ten[n] * Ten[k]
      BY TenSum
  <2>2. Ten[n] \in Nat /\ Ten[k] \in Nat /\ Ten[k] >= 1
      BY TenStep
  <2>. QED
      BY <2>1, <2>2
<1>2. ASSUME a <= b PROVE Ten[a] <= Ten[b]
  <2>1. b - a \in Nat /\ a + (b - a) = b
      BY <1>2
  <2>. QED
      BY <1>1, <2>1
<1>3. ASSUME a < b PROVE 10 * Ten[a] <= Ten[b]
  <2>1. b - (a + 1) \in Nat /\ (a + 1) + (b - (a + 1)) = b /\ a + 1 \in Nat
      BY <1>3
  <2>2. Ten[a + 1] <= Ten[b]
      BY <1>1, <2>1
  <2>. QED
      BY <2>2, TenStep
<1>. QED
    BY <1>2, <1>3

-----------------------------------------------------------------------------
(* Rounding to what the context holds.                                     *)

\* Quotient and remainder.
LEMMA Divided ==
    ASSUME NEW n \in Nat, NEW u \in Nat, u > 0
    PROVE  /\ n \div u \in Nat /\ n % u \in Nat /\ n % u < u
           /\ n = u * (n \div u) + (n % u)
    OBVIOUS

\* Quotient and remainder are the only such numbers.
LEMMA DividedOnce ==
    ASSUME NEW n \in Nat, NEW u \in Nat, NEW k \in Nat, NEW r \in Nat,
           n = u * k + r, r < u
    PROVE  n \div u = k /\ n % u = r
<1>1. u > 0
    OBVIOUS
<1> PICK k2 \in Nat, r2 \in Nat : k2 = n \div u /\ r2 = n % u /\ r2 < u /\ n = u * k2 + r2
    BY <1>1, Divided
<1>2. ASSUME k < k2 PROVE FALSE
  <2>1. k + 1 <= k2
      BY <1>2
  <2>2. u * (k + 1) <= u * k2
      BY <2>1
  <2>. QED
      BY <2>2
<1>3. ASSUME k2 < k PROVE FALSE
  <2>1. k2 + 1 <= k
      BY <1>3
  <2>2. u * (k2 + 1) <= u * k
      BY <2>1
  <2>. QED
      BY <2>2
<1>4. k = k2
    BY <1>2, <1>3
<1>. QED
    BY <1>4

\* The least number of digits to drop.
LEMMA ExcessIs ==
    ASSUME NEW n \in Nat
    PROVE  /\ Excess(n) \in 0..n /\ n < Ten[Precision + Excess(n)]
           /\ Excess(n) > 0 => n >= Ten[Precision + Excess(n) - 1]
           /\ n < Ten[Precision] => Excess(n) = 0
<1>0. Precision \in Nat /\ Precision >= 1
    BY MoneyConstants
<1> DEFINE good(e) == n < Ten[Precision + e] /\ (e > 0 => n >= Ten[Precision + e - 1])
           S == {e \in 0..n : n < Ten[Precision + e]}
<1>1. \E e \in 0..n : good(e)
  <2>1. n \in S
    <3>1. Ten[n] <= Ten[Precision + n] /\ Ten[n] > n
        BY <1>0, TenGrows, TenStep
    <3>2. Ten[n] \in Nat /\ Ten[Precision + n] \in Nat
        BY <1>0, TenStep
    <3>. QED
        BY <3>1, <3>2
  <2>2. PICK e \in S : \A y \in S : e <= y
    <3>1. S \in SUBSET Nat /\ S # {}
        BY <2>1
    <3> HIDE DEF S
    <3>. QED
        BY <3>1, MinOf
  <2>3. ASSUME e > 0 PROVE n >= Ten[Precision + e - 1]
    <3>1. e - 1 \in 0..n /\ Precision + (e - 1) = Precision + e - 1 /\ Precision + (e - 1) \in Nat
        BY <1>0, <2>3
    <3>2. e - 1 \notin S
        BY <2>2
    <3>3. ~(n < Ten[Precision + (e - 1)])
        BY <3>1, <3>2
    <3>4. Ten[Precision + (e - 1)] \in Nat
        BY <3>1, TenStep
    <3>. QED
        BY <3>1, <3>3, <3>4
  <2>. QED
      BY <2>2, <2>3
<1>2. Excess(n) = CHOOSE e \in 0..n : good(e)
    BY Zenon DEF Excess
<1>3. Excess(n) \in 0..n /\ good(Excess(n))
  <2> HIDE DEF good
  <2>. QED
      BY <1>1, <1>2
<1>4. ASSUME n < Ten[Precision], Excess(n) > 0 PROVE FALSE
  <2>1. Precision <= Precision + Excess(n) - 1 /\ Precision + Excess(n) - 1 \in Nat
      BY <1>0, <1>3, <1>4
  <2>2. Ten[Precision] <= Ten[Precision + Excess(n) - 1]
      BY <1>0, <2>1, TenGrows
  <2>3. Ten[Precision] \in Nat /\ Ten[Precision + Excess(n) - 1] \in Nat
      BY <1>0, <2>1, TenStep
  <2>. QED
      BY <1>3, <1>4, <2>2, <2>3
<1>. QED
    BY <1>3, <1>4

\* The nearest multiple of a unit.
Nearest(n, unit) ==
    LET kept == n \div unit
        rest == n % unit
        up == 2 * rest > unit \/ (2 * rest = unit /\ kept % 2 = 1)
    IN  (IF up THEN kept + 1 ELSE kept) * unit

\* It is half a unit off at most, and not at all for a multiple of the unit.
LEMMA NearestIs ==
    ASSUME NEW n \in Nat, NEW unit \in Nat, unit > 0
    PROVE  /\ Nearest(n, unit) \in Nat
           /\ 2 * Distance(Nearest(n, unit), n) <= unit
           /\ \E h \in Nat : Nearest(n, unit) = h * unit /\ h <= n \div unit + 1
           /\ n % unit = 0 => Nearest(n, unit) = n
<1> PICK k \in Nat, r \in Nat : k = n \div unit /\ r = n % unit /\ r < unit /\ n = unit * k + r
    BY Divided
<1> DEFINE up == 2 * r > unit \/ (2 * r = unit /\ k % 2 = 1)
<1>1. Nearest(n, unit) = (IF up THEN k + 1 ELSE k) * unit
    BY Zenon DEF Nearest
<1>2. CASE up
  <2>1. Nearest(n, unit) = (k + 1) * unit
      BY <1>1, <1>2
  <2>2. 2 * r >= unit
      BY <1>2
  <2>3. (k + 1) * unit = unit * k + unit /\ unit * k \in Nat
      OBVIOUS
  <2>4. Nearest(n, unit) - n = unit - r
      BY <2>1, <2>3
  <2>5. 2 * Distance(Nearest(n, unit), n) <= unit
      BY <2>1, <2>2, <2>3, <2>4 DEF Distance
  <2>6. r > 0
      BY <2>2
  <2>. QED
      BY <2>1, <2>3, <2>5, <2>6
<1>3. CASE ~up
  <2>1. Nearest(n, unit) = k * unit
      BY <1>1, <1>3
  <2>2. 2 * r <= unit
      BY <1>3
  <2>3. k * unit = unit * k /\ unit * k \in Nat
      OBVIOUS
  <2>4. n - Nearest(n, unit) = r
      BY <2>1, <2>3
  <2>5. 2 * Distance(Nearest(n, unit), n) <= unit
      BY <2>1, <2>2, <2>3, <2>4 DEF Distance
  <2>6. Nearest(n, unit) \in Nat /\ k <= k + 1
      BY <2>1, <2>3
  <2>7. r = 0 => Nearest(n, unit) = n
      BY <2>4, <2>6
  <2>. QED
      BY <2>1, <2>5, <2>6, <2>7
<1>. QED
    BY <1>2, <1>3

\* A rounded coefficient is at most half a unit off, is not off at all if the
\* context holds it, and has no more digits than the context.
LEMMA RoundedIs ==
    ASSUME NEW n \in Nat
    PROVE  /\ Rounded(n) \in Nat
           /\ 2 * Distance(Rounded(n), n) <= Ten[Excess(n)]
           /\ n < Ten[Precision] => Rounded(n) = n
           /\ \E h, e \in Nat : Rounded(n) = h * Ten[e] /\ h <= Ten[Precision]
<1>0. Precision \in Nat /\ Precision >= 1 /\ Excess(n) \in Nat
    BY MoneyConstants, ExcessIs
<1> DEFINE u == Ten[Excess(n)]
<1>1. u \in Nat /\ u > 0
    BY <1>0, TenStep
<1>2. Rounded(n) = Nearest(n, u)
    BY Zenon DEF Rounded, Nearest
<1>3. n < Ten[Precision] * u /\ Ten[Precision] \in Nat
  <2>1. n < Ten[Precision + Excess(n)]
      BY ExcessIs
  <2>2. Ten[Precision + Excess(n)] = Ten[Precision] * Ten[Excess(n)]
      BY <1>0, TenSum
  <2>. QED
      BY <1>0, <2>1, <2>2, TenStep
<1>4. n < Ten[Precision] => u = 1
  <2>1. n < Ten[Precision] => Excess(n) = 0
      BY ExcessIs
  <2>. QED
      BY <2>1, TenStep
<1> HIDE DEF u
<1>5. n \div u + 1 <= Ten[Precision]
  <2> PICK k \in Nat, r \in Nat : k = n \div u /\ r < u /\ n = u * k + r
      BY <1>1, Divided
  <2>1. ASSUME k >= Ten[Precision] PROVE FALSE
    <3>1. k * u >= Ten[Precision] * u
        BY <1>1, <1>3, <2>1
    <3>2. k * u = u * k /\ u * k \in Nat
        BY <1>1
    <3>. QED
        BY <1>1, <1>3, <3>1, <3>2
  <2>. QED
      BY <1>3, <2>1
<1>6. PICK h \in Nat : Nearest(n, u) = h * u /\ h <= n \div u + 1
    BY <1>1, NearestIs
<1>7. h <= Ten[Precision]
    BY <1>1, <1>3, <1>5, <1>6, Divided
<1>8. n < Ten[Precision] => n % u = 0
  <2>1. ASSUME u = 1 PROVE n % u = 0
      BY <2>1
  <2>. QED
      BY <1>4, <2>1
<1>9. /\ Nearest(n, u) \in Nat
      /\ 2 * Distance(Nearest(n, u), n) <= u
      /\ n % u = 0 => Nearest(n, u) = n
    BY <1>1, NearestIs
<1>. QED
    BY <1>0, <1>2, <1>6, <1>7, <1>8, <1>9 DEF u

\* What has no more digits than the context, but for zeros at the end, stays.
LEMMA RoundedStays ==
    ASSUME NEW h \in Nat, NEW j \in Nat, h <= Ten[Precision]
    PROVE  Rounded(h * Ten[j]) = h * Ten[j]
<1>0. Precision \in Nat /\ Precision - 1 \in Nat /\ Ten[j] \in Nat /\ Ten[Precision] \in Nat
    BY MoneyConstants, TenStep
<1> DEFINE N == h * Ten[j]
           e == Excess(N)
<1>1. N \in Nat
    BY <1>0
<1>2. e \in Nat /\ (e > 0 => N >= Ten[Precision + e - 1])
    BY <1>1, ExcessIs
<1>3. Ten[e] \in Nat /\ Ten[e] > 0
    BY <1>2, TenStep
<1>4. \E k \in Nat : N = Ten[e] * k
  <2>1. CASE e <= j
    <3>1. j - e \in Nat /\ e + (j - e) = j
        BY <1>2, <2>1
    <3> HIDE DEF e, N
    <3>2. Ten[j] = Ten[e] * Ten[j - e] /\ Ten[j - e] \in Nat
      <4>1. Ten[e + (j - e)] = Ten[e] * Ten[j - e]
          BY <1>2, <3>1, TenSum
      <4>. QED
          BY <3>1, <4>1, TenStep
    <3> USE DEF N
    <3>3. N = Ten[e] * (h * Ten[j - e]) /\ h * Ten[j - e] \in Nat
        BY <1>3, <3>2
    <3>. QED
        BY <3>3
  <2>2. CASE e > j
    <3>1. Precision + j <= Precision + e - 1 /\ Precision + e - 1 \in Nat /\ Precision + j \in Nat
        BY <1>0, <1>2, <2>2
    <3>2. N <= Ten[Precision + j]
      <4>1. N <= Ten[Precision] * Ten[j]
          BY <1>0
      <4>. QED
          BY <1>0, <4>1, TenSum
    <3>3. Ten[Precision + j] <= Ten[Precision + e - 1]
        BY <3>1, TenGrows
    <3>4. N = Ten[Precision + e - 1]
      <4>1. N >= Ten[Precision + e - 1]
          BY <1>2, <2>2
      <4>2. Ten[Precision + e - 1] \in Nat /\ Ten[Precision + j] \in Nat
          BY <3>1, TenStep
      <4> HIDE DEF e
      <4>. QED
          BY <1>1, <3>2, <3>3, <4>1, <4>2
    <3>5. Precision + e - 1 = e + (Precision - 1)
        BY <1>0, <1>2
    <3>6. N = Ten[e] * Ten[Precision - 1] /\ Ten[Precision - 1] \in Nat
      <4> HIDE DEF e, N
      <4>1. Ten[e + (Precision - 1)] = Ten[e] * Ten[Precision - 1] /\ Ten[Precision - 1] \in Nat
          BY <1>0, <1>2, TenSum, TenStep
      <4>2. N = Ten[e + (Precision - 1)]
          BY <3>4, <3>5
      <4>. QED
          BY <4>1, <4>2
    <3>. QED
        BY <3>6
  <2>. QED
      BY <1>0, <1>2, <2>1, <2>2
<1> HIDE DEF e, N
<1>5. N % Ten[e] = 0
  <2> PICK k \in Nat : N = Ten[e] * k
      BY <1>4
  <2>1. N = Ten[e] * k + 0
      BY <1>1
  <2>. QED
      BY <1>1, <1>3, <2>1, DividedOnce
<1>6. Nearest(N, Ten[e]) = N
    BY <1>1, <1>3, <1>5, NearestIs
<1>7. Rounded(N) = Nearest(N, Ten[e])
    BY Zenon DEF Rounded, Nearest, e
<1>. QED
    BY <1>6, <1>7 DEF N

-----------------------------------------------------------------------------
(* What is read against what was sent.                                     *)

\* Digits and their values.
LEMMA DigitValues ==
    /\ \A c \in DigitSet : ValueOf(c) \in 0..9
    /\ \A v \in 0..9 : Digits[v + 1] \in DigitSet /\ ValueOf(Digits[v + 1]) = v
<1>1. DOMAIN Digits = 1..10
    BY DEF Digits
<1>2. \A i, j \in 1..10 : Digits[i] = Digits[j] => i = j
    BY DEF Digits
<1>3. DigitSet = {Digits[i] : i \in 1..10}
    BY <1>1 DEF DigitSet, ToSet
<1>4. ASSUME NEW i \in 1..10 PROVE ValueOf(Digits[i]) = i - 1
  <2>1. (CHOOSE k \in 1..10 : Digits[k] = Digits[i]) = i
      BY <1>2
  <2>. QED
      BY <1>1, <2>1 DEF ValueOf
<1>5. ASSUME NEW c \in DigitSet PROVE ValueOf(c) \in 0..9
  <2>1. PICK i \in 1..10 : c = Digits[i]
      BY <1>3
  <2>. QED
      BY <1>4, <2>1
<1>6. ASSUME NEW v \in 0..9 PROVE Digits[v + 1] \in DigitSet /\ ValueOf(Digits[v + 1]) = v
  <2>1. v + 1 \in 1..10 /\ (v + 1) - 1 = v
      OBVIOUS
  <2>. QED
      BY <1>3, <1>4, <2>1
<1>. QED
    BY <1>5, <1>6

\* A text is read from its first place on.
Reads(read, text) ==
    /\ read \in [0..Len(text) -> Nat] /\ read[0] = 0
    /\ \A j \in 1..Len(text) :
          read[j] = IF text[j] = "." THEN read[j - 1] ELSE 10 * read[j - 1] + ValueOf(text[j])

\* The coefficient is what has been read at the end.
LEMMA CoefficientIs ==
    ASSUME NEW C, NEW text \in Seq(C), \A j \in 1..Len(text) : text[j] \in DigitSet \cup {"."}
    PROVE  \E read : Reads(read, text) /\ Coefficient(text) = read[Len(text)]
<1> DEFINE n == Len(text)
           follows(f) ==
               f = [i \in 0..n |->
                       IF i = 0 THEN 0
                       ELSE IF text[i] = "." THEN f[i - 1] ELSE 10 * f[i - 1] + ValueOf(text[i])]
           step == [i \in Nat |-> [v \in Nat |->
                       IF i \in 1..n /\ text[i] # "." THEN 10 * v + ValueOf(text[i]) ELSE v]]
<1>0. n \in Nat
    OBVIOUS
<1>1. step \in [Nat -> [Nat -> Nat]]
  <2>1. ASSUME NEW i \in Nat, NEW v \in Nat
        PROVE  (IF i \in 1..n /\ text[i] # "." THEN 10 * v + ValueOf(text[i]) ELSE v) \in Nat
    <3>1. CASE i \in 1..n /\ text[i] # "."
      <4>1. ValueOf(text[i]) \in 0..9
          BY <3>1, DigitValues
      <4>. QED
          BY <3>1, <4>1
    <3>. QED
        BY <3>1
  <2>. QED
      BY <2>1
<1>2. \A i \in 1..n, v \in Nat :
          step[i][v] = IF text[i] = "." THEN v ELSE 10 * v + ValueOf(text[i])
  <2>1. \A i, v \in Nat :
            step[i][v] = IF i \in 1..n /\ text[i] # "." THEN 10 * v + ValueOf(text[i]) ELSE v
      BY Zenon
  <2>2. \A i \in 1..n : i \in Nat
      BY <1>0
  <2> HIDE DEF step
  <2>. QED
      BY <2>1, <2>2, Zenon
<1> HIDE DEF step
<1>3. PICK f : Counts(f, Nat, 0, step, n)
    BY <1>0, <1>1, CountExists
<1>4. /\ f \in [0..n -> Nat] /\ f[0] = 0
      /\ \A i \in 1..n : f[i] = step[i][f[i - 1]]
    BY <1>3 DEF Counts
<1>5. ASSUME NEW i \in 1..n
      PROVE  f[i] = IF text[i] = "." THEN f[i - 1] ELSE 10 * f[i - 1] + ValueOf(text[i])
  <2>1. i - 1 \in 0..n
      BY <1>0
  <2>. QED
      BY <1>2, <1>4, <2>1
<1>6. follows(f)
    BY <1>0, <1>4, <1>5
<1>7. PICK g : g = CHOOSE h : follows(h)
    OBVIOUS
<1>8. Coefficient(text) = g[n]
    BY <1>7, Zenon DEF Coefficient
<1>9. follows(g)
  <2> HIDE DEF follows
  <2>. QED
      BY <1>6, <1>7
<1> DEFINE next(i) == IF text[i] = "." THEN g[i - 1] ELSE 10 * g[i - 1] + ValueOf(text[i])
<1>13. g = [i \in 0..n |-> IF i = 0 THEN 0 ELSE next(i)]
    BY <1>9, Zenon
<1>14. 0 \in 0..n /\ \A i \in 1..n : i \in 0..n /\ i # 0
    BY <1>0
<1> HIDE DEF follows, next
<1>10. g[0] = 0
    BY <1>13, <1>14
<1>15. \A i \in 1..n : g[i] = next(i)
    BY <1>13, <1>14
<1>11. ASSUME NEW i \in 1..n
       PROVE  g[i] = IF text[i] = "." THEN g[i - 1] ELSE 10 * g[i - 1] + ValueOf(text[i])
    BY <1>15 DEF next
<1>12. g \in [0..n -> Nat]
  <2> DEFINE P == {i \in 0..n : g[i] \in Nat}
  <2>1. 0 \in P
      BY <1>0, <1>10
  <2>2. ASSUME NEW k \in 0..(n - 1), k \in P PROVE k + 1 \in P
    <3>1. k + 1 \in 1..n /\ k + 1 \in 0..n /\ (k + 1) - 1 = k
        BY <1>0
    <3>2. g[k + 1] = IF text[k + 1] = "." THEN g[k] ELSE 10 * g[k] + ValueOf(text[k + 1])
        BY <1>11, <3>1
    <3>3. text[k + 1] # "." => ValueOf(text[k + 1]) \in 0..9
        BY <3>1, DigitValues
    <3>4. g[k] \in Nat
        BY <2>2
    <3>5. g[k + 1] \in Nat
      <4>1. \A v \in Nat, d \in 0..9 : 10 * v + d \in Nat
          OBVIOUS
      <4>. QED
          BY <3>2, <3>3, <3>4, <4>1, Zenon
    <3>. QED
        BY <3>1, <3>5
  <2>3. 0..n \subseteq P
    <3> HIDE DEF P
    <3>. QED
        BY <1>0, <2>1, <2>2, CountInduction
  <2>4. \A i \in 0..n : g[i] \in Nat
      BY <2>3, Zenon
  <2>. QED
      BY <1>13, <2>4
<1>. QED
    BY <1>8, <1>10, <1>11, <1>12 DEF Reads

\* The exponent of place i next to a point at p.
Exponent(i, p) == minor_unit_digits + (IF i < p THEN p - i - 1 ELSE p - i)

\* Digits at the places from a on before b, but for p, are summed by their places.
Sums(sum, s, a, b, p) ==
    /\ sum[0] = 0
    /\ \A i \in 1..Len(s) :
          sum[i] = IF a <= i /\ i < b /\ i # p
                   THEN sum[i - 1] + ValueOf(s[i]) * Ten[Exponent(i, p)]
                   ELSE sum[i - 1]

\* As many digits after a point at p as are before b.
DigitsAfter(b, p) == IF p < b THEN b - 1 - p ELSE 0

\* A digit more, moved by its place, is what has been read moved by one place more.
LEMMA ReadOn == \A x, y, t \in Nat : (10 * x + y) * t = x * (10 * t) + y * t
    OBVIOUS

\* The digits read and the digits summed keep step.
LEMMA SumsAsRead ==
    ASSUME NEW C, NEW s \in Seq(C),
           NEW a \in 1..Len(s), NEW b \in 1..(Len(s) + 1), NEW p \in 1..(Len(s) + 1),
           a < b, a <= p, p <= b, b - p <= minor_unit_digits + 1,
           \A i \in 1..Len(s) : a <= i /\ i < b /\ i # p => ValueOf(s[i]) \in Nat,
           NEW sum, Sums(sum, s, a, b, p),
           NEW read \in [0..(b - a) -> Nat], read[0] = 0,
           \A j \in 1..(b - a) :
               read[j] = IF a + j - 1 = p THEN read[j - 1]
                         ELSE 10 * read[j - 1] + ValueOf(s[a + j - 1])
    PROVE  sum[Len(s)] = read[b - a] * Ten[minor_unit_digits - DigitsAfter(b, p)]
<1> DEFINE n == Len(s)
<1> PICK m \in Nat : m = minor_unit_digits
    BY MoneyConstants
<1>0. n \in Nat
    OBVIOUS
<1>1. sum[a - 1] = 0
  <2> DEFINE P == {i \in 0..(a - 1) : sum[i] = 0}
  <2>1. 0 \in P
      BY DEF Sums
  <2>2. ASSUME NEW k \in 0..((a - 1) - 1), k \in P PROVE k + 1 \in P
    <3>1. k + 1 \in 1..n /\ k + 1 \in 0..(a - 1) /\ (k + 1) - 1 = k /\ ~(a <= k + 1)
        BY <1>0
    <3>2. sum[k + 1] = sum[k]
        BY <3>1 DEF Sums
    <3>. QED
        BY <2>2, <3>1, <3>2
  <2>3. a - 1 \in Nat /\ a - 1 \in 0..(a - 1)
      OBVIOUS
  <2>4. 0..(a - 1) \subseteq P
    <3> HIDE DEF P
    <3>. QED
        BY <2>1, <2>2, <2>3, CountInduction
  <2>. QED
      BY <2>3, <2>4
<1> DEFINE Q == {j \in 0..(b - a) :
                    sum[(a - 1) + j] = read[j] * Ten[Exponent((a - 1) + j, p)]}
<1>2. 0 \in Q
  <2>1. m + (p - (a - 1) - 1) \in Nat
      OBVIOUS
  <2>2. (a - 1) + 0 = a - 1 /\ a - 1 < p
      OBVIOUS
  <2>3. Ten[Exponent(a - 1, p)] \in Nat
      BY <2>1, <2>2, TenStep DEF Exponent
  <2>. QED
      BY <1>1, <2>2, <2>3
<1>3. ASSUME NEW j \in 0..((b - a) - 1), j \in Q PROVE j + 1 \in Q
  <2> DEFINE i == a + j
  <2>1. /\ j + 1 \in 1..(b - a) /\ (j + 1) - 1 = j /\ a + (j + 1) - 1 = i
        /\ i \in 1..n /\ a <= i /\ i < b /\ (a - 1) + j = i - 1 /\ (a - 1) + (j + 1) = i
        /\ j + 1 \in 0..(b - a) /\ j \in 0..(b - a)
      BY <1>0
  <2>2. sum[i - 1] = read[j] * Ten[Exponent(i - 1, p)] /\ read[j] \in Nat
      BY <1>3, <2>1
  <2>3. read[j + 1] = IF i = p THEN read[j] ELSE 10 * read[j] + ValueOf(s[i])
      BY <2>1
  <2>4. sum[i] = IF i # p THEN sum[i - 1] + ValueOf(s[i]) * Ten[Exponent(i, p)] ELSE sum[i - 1]
      BY <2>1 DEF Sums
  <2>5. i # p => ValueOf(s[i]) \in Nat
      BY <2>1
  <2> HIDE DEF i
  <2>6. i \in Int
      BY <2>1
  <2>7. CASE i = p
    <3>1. Exponent(i - 1, p) = Exponent(i, p)
        BY <2>6, <2>7, MoneyConstants DEF Exponent
    <3>. QED
        BY <2>1, <2>2, <2>3, <2>4, <2>7, <3>1
  <2>8. CASE i # p
    <3>1. Exponent(i - 1, p) = Exponent(i, p) + 1 /\ Exponent(i, p) \in Nat
        BY <2>1, <2>6, <2>8, MoneyConstants DEF Exponent
    <3>2. Ten[Exponent(i - 1, p)] = 10 * Ten[Exponent(i, p)] /\ Ten[Exponent(i, p)] \in Nat
        BY <3>1, TenStep
    <3> PICK t \in Nat : t = Ten[Exponent(i, p)]
        BY <3>2
    <3>3. PICK r \in Nat, v \in Nat : r = read[j] /\ v = ValueOf(s[i])
        BY <2>2, <2>5, <2>8, Zenon
    <3>4. sum[i] = r * (10 * t) + v * t
        BY <2>2, <2>4, <2>8, <3>2, <3>3
    <3>5. read[j + 1] = 10 * r + v
        BY <2>3, <2>8, <3>3
    <3>6. (10 * r + v) * t = r * (10 * t) + v * t
        BY ReadOn, ZenonT(60)
    <3>7. sum[i] = read[j + 1] * t
        BY <3>4, <3>5, <3>6, Zenon
    <3>. QED
        BY <2>1, <3>7
  <2>. QED
      BY <2>7, <2>8
<1>4. sum[b - 1] = read[b - a] * Ten[Exponent(b - 1, p)]
  <2>1. b - a \in Nat /\ b - a \in 0..(b - a) /\ (a - 1) + (b - a) = b - 1
      OBVIOUS
  <2>2. 0..(b - a) \subseteq Q
    <3> HIDE DEF Q
    <3>. QED
        BY <1>2, <1>3, <2>1, CountInduction
  <2>. QED
      BY <2>1, <2>2
<1> DEFINE R == {k \in 0..(n - (b - 1)) : sum[(b - 1) + k] = sum[b - 1]}
<1>5. sum[n] = sum[b - 1]
  <2>1. 0 \in R
      BY <1>0
  <2>2. ASSUME NEW k \in 0..((n - (b - 1)) - 1), k \in R PROVE k + 1 \in R
    <3>1. /\ (b - 1) + (k + 1) \in 1..n /\ ((b - 1) + (k + 1)) - 1 = (b - 1) + k
          /\ ~((b - 1) + (k + 1) < b) /\ k + 1 \in 0..(n - (b - 1))
        BY <1>0
    <3>2. sum[(b - 1) + (k + 1)] = sum[(b - 1) + k]
        BY <3>1 DEF Sums
    <3>. QED
        BY <2>2, <3>1, <3>2
  <2>3. n - (b - 1) \in Nat /\ n - (b - 1) \in 0..(n - (b - 1)) /\ (b - 1) + (n - (b - 1)) = n
      BY <1>0
  <2>4. 0..(n - (b - 1)) \subseteq R
    <3> HIDE DEF R
    <3>. QED
        BY <2>1, <2>2, <2>3, CountInduction
  <2>. QED
      BY <2>3, <2>4
<1>6. Exponent(b - 1, p) = minor_unit_digits - DigitsAfter(b, p)
    BY MoneyConstants DEF Exponent, DigitsAfter
<1>. QED
    BY <1>4, <1>5, <1>6

\* The sum of a well-formed amount, by its point.
LEMMA SentIs ==
    ASSUME NEW C, NEW s \in Seq(C),
           NEW a \in 1..Len(s), NEW b \in 1..(Len(s) + 1), NEW p \in 1..(Len(s) + 1),
           a < b, a <= p, p <= b, b - p <= minor_unit_digits + 1,
           Laid(s, a, b, p)
    PROVE  \E sum : Sums(sum, s, a, b, p) /\ Sent(s) = sum[Len(s)]
<1> DEFINE n == Len(s)
           digits == {i \in DOMAIN s : s[i] \in DigitSet}
           point == IF PointsOf(s) # {} THEN Min(PointsOf(s)) ELSE Max(digits) + 1
           place(i) == IF i < point THEN point - i - 1 ELSE point - i
           follows(f) ==
               f = [i \in 0..n |->
                       IF i = 0 THEN 0
                       ELSE IF i \in digits
                            THEN f[i - 1] + ValueOf(s[i]) * Ten[minor_unit_digits + place(i)]
                            ELSE f[i - 1]]
<1>0. n \in Nat /\ DOMAIN s = 1..n
    OBVIOUS
<1>1. PICK f : f = CHOOSE h : follows(h)
    OBVIOUS
<1>2. Sent(s) = f[n]
    BY <1>1, Zenon DEF Sent, PointsOf
<1>3. /\ \A i \in 1..n : i \in digits <=> a <= i /\ i < b /\ i # p
      /\ \A i \in 1..n : i \in PointsOf(s) <=> i = p /\ i < b
    BY Zenon DEF Laid, DigitsOf
<1> HIDE DEF digits
<1>4. digits \in SUBSET (1..n) /\ PointsOf(s) \in SUBSET (1..n)
    BY <1>0, Zenon DEF digits, PointsOf
<1>5. point = p
  <2>1. CASE p < b
    <3>1. p \in PointsOf(s) /\ \A i \in PointsOf(s) : i = p
        BY <1>0, <1>3, <1>4, <2>1
    <3>2. Min(PointsOf(s)) \in PointsOf(s)
        BY <3>1, PointsFinite, MinOf
    <3>. QED
        BY <3>1, <3>2
  <2>2. CASE p = b
    <3>1. PointsOf(s) = {}
        BY <1>0, <1>3, <1>4, <2>2
    <3>2. a \in digits /\ b - 1 \in digits
          /\ \A i \in digits : a <= i /\ i <= b - 1
        BY <1>0, <1>3, <1>4, <2>2
    <3>3. Max(digits) = b - 1
        BY <1>0, <1>4, <3>2, Extremes
    <3>. QED
        BY <2>2, <3>1, <3>3
  <2>. QED
      BY <2>1, <2>2
<1>6. \A i \in 1..n : minor_unit_digits + place(i) = Exponent(i, p)
    BY <1>5 DEF Exponent
<1> DEFINE value(i) == IF i \in digits THEN ValueOf(s[i]) * Ten[Exponent(i, p)] ELSE 0
           step == [i \in Nat |-> [v \in Nat |-> IF i \in 1..n THEN v + value(i) ELSE v]]
<1>7. \A i \in 1..n : value(i) \in Nat
  <2> SUFFICES ASSUME NEW i \in 1..n, i \in digits PROVE value(i) \in Nat
      OBVIOUS
  <2>1. Exponent(i, p) \in Nat
      BY <1>3, MoneyConstants DEF Exponent
  <2>2. s[i] \in DigitSet
      BY DEF digits
  <2>3. ValueOf(s[i]) \in Nat /\ Ten[Exponent(i, p)] \in Nat
    <3>1. \A k \in 0..9 : k \in Nat
        OBVIOUS
    <3>. QED
        BY <2>1, <2>2, <3>1, DigitValues, TenStep, Zenon
  <2>4. \A x, y \in Nat : x * y \in Nat
      OBVIOUS
  <2>. QED
      BY <2>3, <2>4, Zenon
<1> HIDE DEF point, place
<1>8. \E h : follows(h)
  <2>1. step \in [Nat -> [Nat -> Nat]]
    <3> HIDE DEF value
    <3>. QED
        BY <1>7
  <2>2. \A i \in 1..n, v \in Nat : step[i][v] = v + value(i)
    <3> HIDE DEF value
    <3>. QED
        BY <1>0
  <2> HIDE DEF step
  <2>3. PICK h : Counts(h, Nat, 0, step, n)
      BY <1>0, <2>1, CountExists
  <2>4. /\ h \in [0..n -> Nat] /\ h[0] = 0
        /\ \A i \in 1..n : h[i] = step[i][h[i - 1]]
      BY <2>3 DEF Counts
  <2>5. ASSUME NEW i \in 1..n
        PROVE  h[i] = IF i \in digits
                      THEN h[i - 1] + ValueOf(s[i]) * Ten[minor_unit_digits + place(i)]
                      ELSE h[i - 1]
    <3>0. i - 1 \in 0..n
        BY <1>0
    <3>1. h[i - 1] \in Nat
        BY <2>4, <3>0, Zenon
    <3>2. h[i] = h[i - 1] + value(i)
        BY <2>2, <2>4, <3>1, Zenon
    <3>3. CASE i \in digits
        BY <1>6, <3>2, <3>3
    <3>4. CASE i \notin digits
      <4>1. value(i) = 0
          BY <3>4
      <4>. QED
          BY <3>1, <3>2, <3>4, <4>1
    <3>. QED
        BY <3>3, <3>4
  <2> HIDE DEF digits
  <2>6. follows(h)
      BY <1>0, <2>4, <2>5
  <2>. QED
      BY <2>6
<1>9. follows(f)
  <2> HIDE DEF follows
  <2>. QED
      BY <1>1, <1>8
<1>10. Sums(f, s, a, b, p)
  <2> HIDE DEF digits
  <2> DEFINE next(i) == IF i \in digits
                        THEN f[i - 1] + ValueOf(s[i]) * Ten[minor_unit_digits + place(i)]
                        ELSE f[i - 1]
  <2>3. f = [i \in 0..n |-> IF i = 0 THEN 0 ELSE next(i)]
      BY <1>9, Zenon
  <2>4. 0 \in 0..n /\ \A i \in 1..n : i \in 0..n /\ i # 0
      BY <1>0
  <2> HIDE DEF follows, next
  <2>1. f[0] = 0
      BY <2>3, <2>4
  <2>5. \A i \in 1..n : f[i] = next(i)
      BY <2>3, <2>4
  <2>2. ASSUME NEW i \in 1..n
        PROVE  f[i] = IF a <= i /\ i < b /\ i # p
                      THEN f[i - 1] + ValueOf(s[i]) * Ten[Exponent(i, p)]
                      ELSE f[i - 1]
    <3>1. f[i] = IF i \in digits
                 THEN f[i - 1] + ValueOf(s[i]) * Ten[minor_unit_digits + place(i)]
                 ELSE f[i - 1]
        BY <2>5, Zenon DEF next
    <3>. QED
        BY <1>3, <1>6, <3>1
  <2>. QED
      BY <2>1, <2>2, Zenon DEF Sums
<1>. QED
    BY <1>2, <1>10

\* What is sent is the coefficient, moved to minor units.
LEMMA SentIsRead ==
    ASSUME NEW C, NEW s \in Seq(C), WellFormed(s)
    PROVE  /\ Coefficient(Strip(s)) \in Nat
           /\ minor_unit_digits - FractionDigits(Strip(s)) \in Nat
           /\ Sent(s) = Coefficient(Strip(s)) * Ten[minor_unit_digits - FractionDigits(Strip(s))]
<1>1. PICK a \in 1..Len(s), b \in 1..(Len(s) + 1), p \in 1..(Len(s) + 1) : Holds(s, C, a, b, p)
    BY WellFormedHolds
<1> DEFINE text == Strip(s)
           q == p - a + 1
<1>2. /\ a < b /\ a <= p /\ p <= b /\ b - p <= minor_unit_digits + 1
      /\ Laid(s, a, b, p)
      /\ text \in Seq(C) /\ Len(text) = b - a
      /\ \A j \in 1..(b - a) : text[j] = s[a + j - 1]
      /\ Proper(text, q)
    BY <1>1, Zenon DEF Holds
<1> HIDE DEF text
<1>3. PICK sum : Sums(sum, s, a, b, p) /\ Sent(s) = sum[Len(s)]
    BY <1>2, SentIs
<1>4. /\ \A j \in 1..Len(text) : text[j] \in DigitSet \cup {"."}
      /\ \A j \in 1..Len(text) : text[j] = "." <=> j = q
    BY <1>2, Zenon DEF Proper
<1>5. PICK read : Reads(read, text) /\ Coefficient(text) = read[Len(text)]
    BY <1>2, <1>4, CoefficientIs, Zenon
<1>6. FractionDigits(text) = DigitsAfter(b, p)
  <2>1. q \in 1..(Len(text) + 1)
      BY <1>2
  <2>2. FractionDigits(text) = IF q <= Len(text) THEN Len(text) - q ELSE 0
      BY <1>2, <2>1, FractionDigitsAre, Zenon
  <2>. QED
      BY <1>2, <2>2 DEF DigitsAfter
<1>7. minor_unit_digits - DigitsAfter(b, p) \in Nat
    BY <1>2, MoneyConstants DEF DigitsAfter
<1>8. /\ read \in [0..(b - a) -> Nat] /\ read[0] = 0
      /\ \A j \in 1..(b - a) :
            read[j] = IF a + j - 1 = p THEN read[j - 1]
                      ELSE 10 * read[j - 1] + ValueOf(s[a + j - 1])
  <2>1. \A j \in 1..(b - a) : a + j - 1 = p <=> j = q
      OBVIOUS
  <2> HIDE DEF q
  <2>2. /\ read \in [0..(b - a) -> Nat] /\ read[0] = 0
        /\ \A j \in 1..(b - a) :
              read[j] = IF text[j] = "." THEN read[j - 1]
                        ELSE 10 * read[j - 1] + ValueOf(text[j])
      BY <1>2, <1>5, Zenon DEF Reads
  <2>3. ASSUME NEW j \in 1..(b - a)
        PROVE  text[j] = s[a + j - 1] /\ (text[j] = "." <=> a + j - 1 = p)
      BY <1>2, <1>4, <2>1, Zenon
  <2>. QED
      BY <2>2, <2>3, Zenon
<1>9. ASSUME NEW i \in 1..Len(s), a <= i, i < b, i # p PROVE ValueOf(s[i]) \in Nat
  <2>1. s[i] \in DigitSet
      BY <1>2, <1>9, Zenon DEF Laid, DigitsOf
  <2>2. \A k \in 0..9 : k \in Nat
      OBVIOUS
  <2>. QED
      BY <2>1, <2>2, DigitValues, Zenon
<1> HIDE DEF q
<1>10. sum[Len(s)] = read[b - a] * Ten[minor_unit_digits - DigitsAfter(b, p)]
    BY <1>2, <1>3, <1>8, <1>9, SumsAsRead, Zenon
<1>11. b - a \in 0..(b - a)
    BY <1>2
<1>. QED
    BY <1>2, <1>3, <1>5, <1>6, <1>7, <1>8, <1>10, <1>11, Zenon DEF text

\* Rounded first and moved then, an amount is off by half a place at most.
LEMMA Spread ==
    ASSUME NEW r \in Nat, NEW n \in Nat, NEW u \in Nat, NEW k \in Nat, 2 * Distance(r, n) <= u
    PROVE  r * k \in Nat /\ 2 * Distance(r * k, n * k) <= u * k
<1>1. CASE r >= n
  <2>1. r * k >= n * k /\ r * k \in Nat /\ n * k \in Nat /\ (r - n) * k = r * k - n * k
      BY <1>1
  <2>2. 2 * (r - n) <= u
      BY <1>1 DEF Distance
  <2>3. (2 * (r - n)) * k <= u * k
      BY <1>1, <2>2
  <2>4. 2 * (r * k - n * k) <= u * k
      BY <2>1, <2>3
  <2>. QED
      BY <2>1, <2>4 DEF Distance
<1>2. CASE r < n
  <2>1. r * k <= n * k /\ r * k \in Nat /\ n * k \in Nat /\ (n - r) * k = n * k - r * k
      BY <1>2
  <2>2. 2 * (n - r) <= u
      BY <1>2 DEF Distance
  <2>3. (2 * (n - r)) * k <= u * k
      BY <1>2, <2>2
  <2>4. 2 * (n * k - r * k) <= u * k
      BY <2>1, <2>3
  <2>. QED
      BY <2>1, <2>4 DEF Distance
<1>. QED
    BY <1>1, <1>2

\* Any amount parses as its reference says.
LEMMA AmountsParseAsSent == ASSUME NEW C, NEW s \in Seq(C) PROVE ParsesAsSent(s)
<1> DEFINE n == Coefficient(Strip(s))
           d == minor_unit_digits - FractionDigits(Strip(s))
           minor == parse_minor_units(s)
<1>1. minor = IF WellFormed(s) THEN Rounded(n) * Ten[d] ELSE Rejected
    BY AcceptedIsWellFormed, Zenon
<1>2. ASSUME WellFormed(s)
      PROVE  /\ minor # Rejected
             /\ n < Ten[Precision] => minor = Sent(s)
             /\ 2 * Distance(minor, Sent(s)) <= Place(s) * Ten[d]
  <2>1. n \in Nat /\ d \in Nat /\ Sent(s) = n * Ten[d]
      BY <1>2, SentIsRead, Zenon
  <2>2. Place(s) = Ten[Excess(n)]
      BY Zenon DEF Place
  <2>3. minor = Rounded(n) * Ten[d]
      BY <1>1, <1>2, Zenon
  <2> HIDE DEF n, d, minor
  <2>4. /\ Rounded(n) \in Nat
        /\ 2 * Distance(Rounded(n), n) <= Ten[Excess(n)]
        /\ n < Ten[Precision] => Rounded(n) = n
      BY <2>1, RoundedIs
  <2>5. Ten[d] \in Nat /\ Ten[Excess(n)] \in Nat
    <3>1. Excess(n) \in 0..n
        BY <2>1, ExcessIs
    <3>2. Excess(n) \in Nat
        BY <3>1
    <3>. QED
        BY <2>1, <3>2, TenStep
  <2>6. /\ Rounded(n) * Ten[d] \in Nat
        /\ 2 * Distance(Rounded(n) * Ten[d], n * Ten[d]) <= Ten[Excess(n)] * Ten[d]
      BY <2>1, <2>4, <2>5, Spread
  <2>7. \A k \in Nat : k # Rejected
      BY DEF Rejected
  <2>. QED
      BY <2>1, <2>2, <2>3, <2>4, <2>6, <2>7, Zenon
<1>3. ASSUME ~WellFormed(s) PROVE minor = Rejected
    BY <1>1, <1>3, Zenon
<1>. QED
    BY <1>2, <1>3, Zenon DEF ParsesAsSent

RawTypeOK == raw \in Seq(Characters)

\* What is typed is a sequence of characters.
LEMMA RawStep == RawTypeOK /\ [InputNext]_inputVars => RawTypeOK'
<1> SUFFICES ASSUME RawTypeOK, [InputNext]_inputVars PROVE RawTypeOK'
    OBVIOUS
<1>1. ASSUME NEW c \in Characters, Type(c) PROVE RawTypeOK'
    BY <1>1 DEF Type, RawTypeOK
<1>2. ASSUME UNCHANGED raw PROVE RawTypeOK'
    BY <1>2 DEF RawTypeOK
<1>. QED
    BY <1>1, <1>2 DEF InputNext, Write, Lock, inputVars

\* Whatever is typed, and however long: an amount is accepted exactly if it is well
\* formed, the money credited is the money sent if the context holds its digits, and
\* is off by half a place of the last digit held if not (money.py:26-30, 62-66, 92-105).
THEOREM MoneyIsMisreadByRoundingOnly == InputSpec => []MisreadByRoundingOnly
<1>1. InputInit => RawTypeOK
    BY DEF InputInit, RawTypeOK
<1>2. RawTypeOK => MisreadByRoundingOnly
    BY AmountsParseAsSent, Zenon DEF RawTypeOK, MisreadByRoundingOnly
<1>. QED
    BY <1>1, <1>2, RawStep, PTL DEF InputSpec

-----------------------------------------------------------------------------
(* What is displayed.                                                      *)

\* Division by ten times as much goes on from the quotient.
LEMMA DividedByTen ==
    ASSUME NEW v \in Nat, NEW t \in Nat, t > 0
    PROVE  /\ v \div t \in Nat /\ v \div (10 * t) \in Nat
           /\ v \div t = 10 * (v \div (10 * t)) + ((v \div t) % 10)
<1> PICK k \in Nat, r \in Nat : k = v \div t /\ r < t /\ v = t * k + r
    BY Divided
<1> PICK l \in Nat, d \in Nat : l = k \div 10 /\ d = k % 10 /\ d < 10 /\ k = 10 * l + d
    OBVIOUS
<1>1. t * d + r \in Nat /\ t * d + r < 10 * t
  <2>1. t * d \in Nat /\ t * d <= t * 9
      OBVIOUS
  <2>. QED
      BY <2>1
<1>2. v = (10 * t) * l + (t * d + r)
  <2>1. t * (10 * l + d) = (10 * t) * l + t * d
      OBVIOUS
  <2>. QED
      BY <2>1
<1>3. v \div (10 * t) = l
  <2>1. 10 * t \in Nat
      OBVIOUS
  <2>. QED
      BY <1>1, <1>2, <2>1, DividedOnce
<1>. QED
    BY <1>3

\* A numeral has as many digits as are asked for, or as it needs.
LEMMA NumeralIs ==
    ASSUME NEW v \in Nat, NEW w \in Nat, w >= 1
    PROVE  \E k \in Nat :
              /\ k >= w /\ v < Ten[k] /\ (k > w => v >= Ten[k - 1])
              /\ Numeral(v, w) = [i \in 1..k |-> Digits[((v \div Ten[k - i]) % 10) + 1]]
<1> DEFINE good(k) == k >= w /\ v < Ten[k] /\ (k > w => v >= Ten[k - 1])
           S == {k \in 1..(v + w) : k >= w /\ v < Ten[k]}
           length == CHOOSE k \in 1..(v + w) : good(k)
<1>1. \E k \in 1..(v + w) : good(k)
  <2>1. v + w \in S
    <3>1. Ten[v] <= Ten[v + w] /\ Ten[v] > v /\ Ten[v] \in Nat /\ Ten[v + w] \in Nat
        BY TenGrows, TenStep
    <3>. QED
        BY <3>1
  <2>2. PICK k \in S : \A y \in S : k <= y
    <3>1. S \in SUBSET Nat /\ S # {}
        BY <2>1
    <3> HIDE DEF S
    <3>. QED
        BY <3>1, MinOf
  <2>3. ASSUME k > w PROVE v >= Ten[k - 1]
    <3>1. k - 1 \in 1..(v + w) /\ k - 1 >= w
        BY <2>3
    <3>2. k - 1 \notin S
        BY <2>2
    <3>3. ~(v < Ten[k - 1]) /\ Ten[k - 1] \in Nat
        BY <3>1, <3>2, TenStep
    <3>. QED
        BY <3>3
  <2>. QED
      BY <2>2, <2>3
<1>2. Numeral(v, w) = [i \in 1..length |-> Digits[((v \div Ten[length - i]) % 10) + 1]]
    BY Zenon DEF Numeral
<1>3. length \in 1..(v + w) /\ good(length)
  <2> HIDE DEF good
  <2>. QED
      BY <1>1
<1> HIDE DEF length
<1>4. length \in Nat
    BY <1>3
<1>. QED
    BY <1>2, <1>3, <1>4

\* s is the numeral of v, of k digits.
NumeralOf(s, v, k) ==
    /\ s \in Seq(DigitSet) /\ Len(s) = k /\ v < Ten[k]
    /\ \A i \in 1..k : ValueOf(s[i]) = (v \div Ten[k - i]) % 10

\* A numeral's digits have the values of its number.
LEMMA NumeralIsOf ==
    ASSUME NEW v \in Nat, NEW w \in Nat, w >= 1
    PROVE  \E k \in Nat :
              k >= w /\ (k > w => v >= Ten[k - 1]) /\ NumeralOf(Numeral(v, w), v, k)
<1>0. PICK k \in Nat :
        /\ k >= w /\ v < Ten[k] /\ (k > w => v >= Ten[k - 1])
        /\ Numeral(v, w) = [i \in 1..k |-> Digits[((v \div Ten[k - i]) % 10) + 1]]
    BY NumeralIs
<1> DEFINE s == Numeral(v, w)
           digit(i) == (v \div Ten[k - i]) % 10
<1>1. s = [i \in 1..k |-> Digits[digit(i) + 1]]
    BY <1>0
<1> HIDE DEF s
<1>2. \A i \in 1..k : digit(i) \in 0..9
  <2> SUFFICES ASSUME NEW i \in 1..k PROVE digit(i) \in 0..9
      OBVIOUS
  <2>1. k - i \in Nat
      OBVIOUS
  <2>2. Ten[k - i] \in Nat /\ Ten[k - i] > 0
      BY <2>1, TenStep
  <2>3. v \div Ten[k - i] \in Nat
      BY <2>2, Divided
  <2>4. \A x \in Nat : x % 10 \in 0..9
      OBVIOUS
  <2>. QED
      BY <2>3, <2>4, Zenon
<1> HIDE DEF digit
<1>3. \A i \in 1..k : s[i] \in DigitSet /\ ValueOf(s[i]) = digit(i)
    BY <1>1, <1>2, DigitValues
<1>4. s \in Seq(DigitSet) /\ Len(s) = k
    BY <1>1, <1>3
<1>. QED
    BY <1>0, <1>3, <1>4, Zenon DEF NumeralOf, digit, s

\* After place o, the digits of v are read.
DigitsRead(read, o, v, k) ==
    \A i \in 1..k : read[o + i] = 10 * read[o + (i - 1)] + ((v \div Ten[k - i]) % 10)

\* With k digits more, v is read behind base.
ReadBehind(read, o, base, v, k) == read[o + k] = base * Ten[k] + v

\* To read a numeral after what is read already is to put its number behind that.
LEMMA NumeralReads ==
    ASSUME NEW k \in Nat, NEW v \in Nat, NEW o \in Nat, NEW base \in Nat, NEW read,
           v < Ten[k], read[o] = base, DigitsRead(read, o, v, k)
    PROVE  ReadBehind(read, o, base, v, k)
<1> DEFINE P == {i \in 0..k : read[o + i] = base * Ten[i] + (v \div Ten[k - i])}
<1>1. 0 \in P
  <2>1. v \div Ten[k] = 0
    <3>1. Ten[k] \in Nat /\ v = Ten[k] * 0 + v
        BY TenStep
    <3>. QED
        BY <3>1, DividedOnce
  <2>. QED
      BY <2>1, TenStep
<1>2. ASSUME NEW i \in 0..(k - 1), i \in P PROVE i + 1 \in P
  <2>0. PICK t \in Nat : t = Ten[k - (i + 1)] /\ t > 0
    <3>1. k - (i + 1) \in Nat
        OBVIOUS
    <3>. QED
        BY <3>1, TenStep
  <2>1. Ten[k - i] = 10 * t
    <3>1. k - (i + 1) \in Nat /\ k - i = (k - (i + 1)) + 1
        OBVIOUS
    <3>. QED
        BY <2>0, <3>1, TenStep
  <2>2. Ten[i + 1] = 10 * Ten[i] /\ Ten[i] \in Nat
      BY TenStep
  <2> DEFINE x == v \div (10 * t)
             y == v \div t
             z == y % 10
  <2>3. x \in Nat /\ y \in Nat /\ y = 10 * x + z
      BY <2>0, DividedByTen
  <2>4. z \in Nat
      BY <2>3
  <2>5. i + 1 \in 1..k /\ (i + 1) - 1 = i /\ i + 1 \in 0..k
      OBVIOUS
  <2>6. read[o + (i + 1)] = 10 * read[o + i] + z
      BY <2>0, <2>5 DEF DigitsRead
  <2>7. v \div Ten[k - (i + 1)] = y
      BY <2>0
  <2>8. read[o + i] = base * Ten[i] + x
      BY <1>2, <2>1
  <2> HIDE DEF x, y, z
  <2>9. 10 * (base * Ten[i] + x) + z = base * (10 * Ten[i]) + y
    <3>1. \A a, b \in Nat : 10 * (a * b + x) + z = a * (10 * b) + (10 * x + z)
        BY <2>3, <2>4
    <3>. QED
        BY <2>2, <2>3, <3>1
  <2>. QED
      BY <2>2, <2>5, <2>6, <2>8, <2>9, <2>7
<1>3. k \in 0..k /\ 0..k \subseteq P
  <2> HIDE DEF P
  <2>. QED
      BY <1>1, <1>2, CountInduction
<1>4. read[o + k] = base * Ten[k] + (v \div Ten[0])
  <2>1. k - k = 0
      OBVIOUS
  <2>. QED
      BY <1>3, <2>1
<1>5. v \div Ten[0] = v
    BY TenStep
<1>. QED
    BY <1>4, <1>5 DEF ReadBehind

\* The places of a sequence.
LEMMA SeqDomain ==
    ASSUME NEW C, NEW s \in Seq(C)
    PROVE  DOMAIN s = 1..Len(s) /\ Len(s) \in Nat
    OBVIOUS

\* Up to three digits are one group.
LEMMA OneGroup ==
    ASSUME NEW C, NEW s \in Seq(C), Len(s) \in 1..3
    PROVE  Grouped(s) = s
<1> DEFINE length == Len(s) + (Len(s) - 1) \div 3
           behind(i) == length - i
           char(i) == IF behind(i) % 4 = 3 THEN "," ELSE s[Len(s) - (behind(i) - behind(i) \div 4)]
<1>1. Grouped(s) = [i \in 1..length |-> char(i)]
    BY Zenon DEF Grouped
<1>2. length = Len(s)
  <2>1. \A n \in 1..3 : n + (n - 1) \div 3 = n
      OBVIOUS
  <2>. QED
      BY <2>1
<1>3. ASSUME NEW i \in 1..Len(s) PROVE char(i) = s[i]
  <2>1. behind(i) \in 0..2 /\ behind(i) = Len(s) - i
      BY <1>2
  <2> HIDE DEF length, behind
  <2>2. behind(i) % 4 # 3 /\ behind(i) \div 4 = 0
      BY <2>1
  <2>3. Len(s) - (behind(i) - behind(i) \div 4) = i
      BY <2>1, <2>2
  <2>. QED
      BY <2>2, <2>3
<1> HIDE DEF char, length
<1>4. [i \in 1..length |-> char(i)] = [i \in 1..Len(s) |-> s[i]]
    BY <1>2, <1>3
<1>5. s = [i \in 1..Len(s) |-> s[i]]
    OBVIOUS
<1>. QED
    BY <1>1, <1>4, <1>5

\* More digits are separated somewhere.
LEMMA MoreGroups ==
    ASSUME NEW C, NEW s \in Seq(C), Len(s) >= 4
    PROVE  \E D : /\ Grouped(s) \in Seq(D)
                  /\ \E i \in 1..Len(Grouped(s)) : Grouped(s)[i] = ","
<1> DEFINE length == Len(s) + (Len(s) - 1) \div 3
           behind(i) == length - i
           char(i) == IF behind(i) % 4 = 3 THEN "," ELSE s[Len(s) - (behind(i) - behind(i) \div 4)]
           D == {char(i) : i \in 1..length}
<1>1. Grouped(s) = [i \in 1..length |-> char(i)]
    BY Zenon DEF Grouped
<1>2. length \in Nat /\ length - 3 \in 1..length
    OBVIOUS
<1>3. char(length - 3) = ","
  <2>1. behind(length - 3) = 3
      BY <1>2
  <2> HIDE DEF behind
  <2>2. behind(length - 3) % 4 = 3
      BY <2>1
  <2>. QED
      BY <2>2, Zenon
<1> HIDE DEF char, length
<1>4. Grouped(s) \in Seq(D) /\ Len(Grouped(s)) = length /\ Grouped(s)[length - 3] = char(length - 3)
    BY <1>1, <1>2
<1>. QED
    BY <1>2, <1>3, <1>4

\* What has a separator is refused.
LEMMA SeparatedIsRefused ==
    ASSUME NEW C, NEW s \in Seq(C), NEW i \in 1..Len(s), s[i] = ","
    PROVE  parse_minor_units(s) = Rejected
<1>1. ASSUME WellFormed(s) PROVE FALSE
  <2>1. i \in DOMAIN s
      BY SeqDomain, Zenon
  <2>2. s[i] = " " \/ s[i] = "." \/ s[i] \in DigitSet
      BY <1>1, <2>1, Zenon DEF WellFormed
  <2>. QED
      BY <2>2, DigitsApart, Zenon
<1>. QED
    BY <1>1, AcceptedIsWellFormed, Zenon

\* Two texts with a point between them.
Joined(t, x, y, point, D) ==
    /\ t \in Seq(D \cup {point}) /\ Len(t) = Len(x) + 1 + Len(y)
    /\ \A i \in 1..Len(x) : t[i] = x[i]
    /\ \A i \in 1..Len(y) : t[Len(x) + 1 + i] = y[i]
    /\ \A i \in 1..Len(t) : t[i] \in D \cup {point} /\ (t[i] = point <=> i = Len(x) + 1)

\* To put a point between two texts is to join them so.
LEMMA JoinedIs ==
    ASSUME NEW D, NEW point, point \notin D, NEW x \in Seq(D), NEW y \in Seq(D)
    PROVE  Joined((x \o <<point>>) \o y, x, y, point, D)
<1> DEFINE dotted == x \o <<point>>
           t == dotted \o y
<1>1. /\ dotted \in Seq(D \cup {point}) /\ Len(dotted) = Len(x) + 1
      /\ \A i \in 1..Len(x) : dotted[i] = x[i]
      /\ dotted[Len(x) + 1] = point
    OBVIOUS
<1> HIDE DEF dotted
<1>2. /\ t \in Seq(D \cup {point}) /\ Len(t) = Len(x) + 1 + Len(y)
      /\ \A i \in 1..(Len(x) + 1) : t[i] = dotted[i]
      /\ \A i \in 1..Len(y) : t[Len(x) + 1 + i] = y[i]
    BY <1>1
<1> HIDE DEF t
<1>3. \A i \in 1..Len(x) : t[i] = x[i] /\ x[i] \in D
    BY <1>1, <1>2
<1>4. t[Len(x) + 1] = point
    BY <1>1, <1>2
<1>5. ASSUME NEW i \in 1..Len(t)
      PROVE  t[i] \in D \cup {point} /\ (t[i] = point <=> i = Len(x) + 1)
  <2>1. CASE i <= Len(x)
      BY <1>3, <2>1
  <2>2. CASE i = Len(x) + 1
      BY <1>4, <2>2
  <2>3. CASE i > Len(x) + 1
    <3>1. i - (Len(x) + 1) \in 1..Len(y) /\ Len(x) + 1 + (i - (Len(x) + 1)) = i
        BY <1>2, <2>3
    <3>2. t[i] = y[i - (Len(x) + 1)] /\ y[i - (Len(x) + 1)] \in D
        BY <1>2, <3>1
    <3>. QED
        BY <2>3, <3>2
  <2>. QED
      BY <2>1, <2>2, <2>3
<1>6. Joined(t, x, y, point, D)
    BY <1>2, <1>3, <1>5 DEF Joined
<1>. QED
    BY <1>6, Zenon DEF t, dotted

\* A text without blanks is left as it is.
LEMMA UnpaddedStays ==
    ASSUME NEW C, NEW s \in Seq(C), Len(s) >= 1, Inner(s) = 1..Len(s)
    PROVE  Strip(s) = s
<1>1. 1 \in Inner(s) /\ Len(s) \in Inner(s) /\ \A i \in Inner(s) : 1 <= i /\ i <= Len(s)
    OBVIOUS
<1>2. Strip(s) = SubSeq(s, 1, Len(s))
    BY <1>1, StripText, Zenon
<1>3. SubSeq(s, 1, Len(s)) = s
    OBVIOUS
<1>. QED
    BY <1>2, <1>3, Zenon

\* Such a text is read on over its point.
ReadsOver(read, t, point) ==
    \A j \in 1..Len(t) :
        read[j] = IF t[j] = point THEN read[j - 1] ELSE 10 * read[j - 1] + ValueOf(t[j])

ReadsBoth(read, x, y) ==
    /\ \A i \in 1..Len(x) : read[i] = 10 * read[i - 1] + ValueOf(x[i])
    /\ read[Len(x) + 1] = read[Len(x)]
    /\ \A i \in 1..Len(y) :
          read[Len(x) + 1 + i] = 10 * read[Len(x) + 1 + (i - 1)] + ValueOf(y[i])

\* The digits of both parts are read in turn.
LEMMA JoinedReads ==
    ASSUME NEW D, NEW point, NEW x \in Seq(D), NEW y \in Seq(D), NEW t, NEW read,
           Joined(t, x, y, point, D), ReadsOver(read, t, point)
    PROVE  ReadsBoth(read, x, y)
<1>0. \A j \in 1..Len(t) :
          read[j] = IF t[j] = point THEN read[j - 1] ELSE 10 * read[j - 1] + ValueOf(t[j])
    BY DEF ReadsOver
<1>1. /\ Len(t) = Len(x) + 1 + Len(y) /\ Len(x) \in Nat /\ Len(y) \in Nat
      /\ \A i \in 1..Len(x) : t[i] = x[i]
      /\ \A i \in 1..Len(y) : t[Len(x) + 1 + i] = y[i]
      /\ \A i \in 1..Len(t) : t[i] = point <=> i = Len(x) + 1
    BY DEF Joined
<1>2. ASSUME NEW i \in 1..Len(x) PROVE read[i] = 10 * read[i - 1] + ValueOf(x[i])
  <2>1. i \in 1..Len(t) /\ i # Len(x) + 1
      BY <1>1
  <2>. QED
      BY <1>0, <1>1, <2>1
<1>3. read[Len(x) + 1] = read[Len(x)]
  <2>1. Len(x) + 1 \in 1..Len(t) /\ (Len(x) + 1) - 1 = Len(x)
      BY <1>1
  <2>. QED
      BY <1>0, <1>1, <2>1
<1>4. ASSUME NEW i \in 1..Len(y)
      PROVE  read[Len(x) + 1 + i] = 10 * read[Len(x) + 1 + (i - 1)] + ValueOf(y[i])
  <2>1. /\ Len(x) + 1 + i \in 1..Len(t) /\ Len(x) + 1 + i # Len(x) + 1
        /\ (Len(x) + 1 + i) - 1 = Len(x) + 1 + (i - 1)
      BY <1>1
  <2>. QED
      BY <1>0, <1>1, <2>1
<1>. QED
    BY <1>2, <1>3, <1>4 DEF ReadsBoth

\* The number of such a text is that of both numerals behind each other.
ReadsRounded(t, n) == parse_minor_units(t) = Rounded(n)

\* A whole and a fraction with a point between are parsed as their amount, rounded.
LEMMA DisplayRead ==
    ASSUME NEW W \in Nat, NEW F \in Nat, NEW k \in Nat, NEW x, NEW y,
           k >= 1, NumeralOf(x, W, k), NumeralOf(y, F, minor_unit_digits)
    PROVE  ReadsRounded((x \o <<".">>) \o y, W * Ten[minor_unit_digits] + F)
<1> DEFINE t == (x \o <<".">>) \o y
           m == minor_unit_digits
<1>0. m \in Nat /\ m >= 1
    BY MoneyConstants
<1>1. /\ x \in Seq(DigitSet) /\ Len(x) = k /\ W < Ten[k]
      /\ \A i \in 1..k : ValueOf(x[i]) = (W \div Ten[k - i]) % 10
      /\ y \in Seq(DigitSet) /\ Len(y) = m /\ F < Ten[m]
      /\ \A i \in 1..m : ValueOf(y[i]) = (F \div Ten[m - i]) % 10
    BY Zenon DEF NumeralOf
<1>2. Joined(t, x, y, ".", DigitSet)
    BY <1>1, DigitsApart, JoinedIs, Zenon
<1> HIDE DEF t
<1>3. /\ t \in Seq(DigitSet \cup {"."})
      /\ \A i \in 1..Len(t) : t[i] \in DigitSet \cup {"."} /\ (t[i] = "." <=> i = k + 1)
    BY <1>1, <1>2, Zenon DEF Joined
<1>4. Len(t) = k + 1 + m
    BY <1>1, <1>2, Zenon DEF Joined
<1>5. Strip(t) = t
  <2>1. Inner(t) = 1..Len(t)
    <3>1. DOMAIN t = 1..Len(t)
        BY <1>3, SeqDomain, Zenon
    <3>2. \A i \in 1..Len(t) : t[i] # " "
        BY <1>3, DigitsApart, Zenon
    <3>. QED
        BY <3>1, <3>2, Zenon DEF Inner
  <2>2. Len(t) >= 1
      BY <1>0, <1>4
  <2>. QED
      BY <1>3, <2>1, <2>2, UnpaddedStays, Zenon
<1>6. k + 1 \in 1..(Len(t) + 1) /\ Proper(t, k + 1)
  <2>1. 1 \in 1..Len(t) /\ 1 # k + 1
      BY <1>0, <1>4
  <2>2. Len(t) <= (k + 1) + minor_unit_digits
      BY <1>0, <1>4
  <2>3. k + 1 \in 1..(Len(t) + 1)
      BY <1>0, <1>4
  <2>. QED
      BY <1>3, <2>1, <2>2, <2>3, Zenon DEF Proper
<1>7. Acceptable(t) /\ FractionDigits(t) <= minor_unit_digits
    BY <1>3, <1>6, ProperIsAccepted, Zenon
<1>8. FractionDigits(t) = m
  <2>1. FractionDigits(t) = IF k + 1 <= Len(t) THEN Len(t) - (k + 1) ELSE 0
      BY <1>3, <1>6, FractionDigitsAre, Zenon
  <2>. QED
      BY <1>0, <1>4, <2>1
<1>9. Coefficient(t) = W * Ten[m] + F
  <2>1. PICK read : Reads(read, t) /\ Coefficient(t) = read[Len(t)]
      BY <1>3, CoefficientIs, Zenon
  <2>2. /\ \A i \in 1..k : read[i] = 10 * read[i - 1] + ValueOf(x[i])
        /\ read[k + 1] = read[k]
        /\ \A i \in 1..m : read[k + 1 + i] = 10 * read[k + 1 + (i - 1)] + ValueOf(y[i])
    <3>1. ReadsOver(read, t, ".")
        BY <2>1, Zenon DEF Reads, ReadsOver
    <3>2. ReadsBoth(read, x, y)
        BY <1>1, <1>2, <3>1, JoinedReads, Zenon
    <3>. QED
        BY <1>1, <3>2, Zenon DEF ReadsBoth
  <2>3. read[0] = 0
      BY <2>1, Zenon DEF Reads
  <2> HIDE DEF m
  <2>4. read[k] = W
    <3>1. DigitsRead(read, 0, W, k)
      <4>1. \A i \in 1..k : 0 + i = i /\ 0 + (i - 1) = i - 1
          OBVIOUS
      <4>. QED
          BY <1>1, <2>2, <4>1, Zenon DEF DigitsRead
    <3>2. read[0 + k] = 0 * Ten[k] + W
      <4>1. 0 \in Nat
          OBVIOUS
      <4>2. W < Ten[k]
          BY <1>1, Zenon
      <4>3. ReadBehind(read, 0, 0, W, k)
          BY <2>3, <3>1, <4>1, <4>2, NumeralReads, Zenon
      <4>. QED
          BY <4>3, Zenon DEF ReadBehind
    <3>3. 0 + k = k /\ 0 * Ten[k] + W = W
        BY TenStep
    <3>. QED
        BY <3>2, <3>3, Zenon
  <2>5. read[k + 1 + m] = W * Ten[m] + F
    <3>1. DigitsRead(read, k + 1, F, m)
        BY <1>1, <2>2, Zenon DEF DigitsRead
    <3>2. k + 1 \in Nat
        OBVIOUS
    <3>3. read[k + 1] = W
        BY <2>2, <2>4, Zenon
    <3>4. m \in Nat /\ F < Ten[m]
        BY <1>0, <1>1, Zenon
    <3>5. ReadBehind(read, k + 1, W, F, m)
        BY <3>1, <3>2, <3>3, <3>4, NumeralReads, Zenon
    <3>. QED
        BY <3>5, Zenon DEF ReadBehind
  <2>. QED
      BY <1>4, <2>1, <2>5, Zenon
<1>10. m - m = 0 /\ Ten[0] = 1
    BY <1>0, TenStep
<1>11. Rounded(Coefficient(t)) * 1 = Rounded(Coefficient(t))
  <2>1. Ten[m] \in Nat
      BY <1>0, TenStep
  <2>2. W * Ten[m] + F \in Nat
    <3>1. \A a, b, c \in Nat : a * b + c \in Nat
        OBVIOUS
    <3>. QED
        BY <2>1, <3>1, Zenon
  <2>3. Rounded(Coefficient(t)) \in Nat
      BY <1>9, <2>2, RoundedIs, Zenon
  <2>4. \A a \in Nat : a * 1 = a
      OBVIOUS
  <2>. QED
      BY <2>3, <2>4, Zenon
<1>12. parse_minor_units(t) = Rounded(Coefficient(t)) * Ten[m - m]
    BY <1>5, <1>7, <1>8, Zenon DEF parse_minor_units
<1>. QED
    BY <1>9, <1>10, <1>11, <1>12, Zenon DEF t, ReadsRounded

\* An amount that parse_minor_units returns stays if it is rounded again.
LEMMA ParsedStays ==
    ASSUME NEW C, NEW s \in Seq(C), parse_minor_units(s) # Rejected
    PROVE  parse_minor_units(s) \in Nat /\ Rounded(parse_minor_units(s)) = parse_minor_units(s)
<1> DEFINE n == Coefficient(Strip(s))
           d == minor_unit_digits - FractionDigits(Strip(s))
<1>1. WellFormed(s) /\ parse_minor_units(s) = Rounded(n) * Ten[d]
    BY AcceptedIsWellFormed, Zenon
<1>2. n \in Nat /\ d \in Nat
    BY <1>1, SentIsRead, Zenon
<1> HIDE DEF n, d
<1>3. PICK h \in Nat, e \in Nat : Rounded(n) = h * Ten[e] /\ h <= Ten[Precision]
    BY <1>2, RoundedIs
<1>4. e + d \in Nat /\ Ten[e] \in Nat /\ Ten[d] \in Nat
  <2>1. e + d \in Nat
      BY <1>2
  <2>. QED
      BY <1>2, <2>1, TenStep, Zenon
<1>5. parse_minor_units(s) = h * Ten[e + d]
  <2>1. Ten[e + d] = Ten[e] * Ten[d]
      BY <1>2, TenSum, Zenon
  <2>2. \A a, b, c \in Nat : (a * b) * c = a * (b * c)
      OBVIOUS
  <2>3. (h * Ten[e]) * Ten[d] = h * (Ten[e] * Ten[d])
      BY <1>4, <2>2, ZenonT(30)
  <2>. QED
      BY <1>1, <1>3, <2>1, <2>3, Zenon
<1>6. Rounded(h * Ten[e + d]) = h * Ten[e + d]
    BY <1>3, <1>4, RoundedStays
<1>7. h * Ten[e + d] \in Nat
  <2>1. \A a, b \in Nat : a * b \in Nat
      OBVIOUS
  <2>2. Ten[e + d] \in Nat
      BY <1>4, TenStep
  <2>. QED
      BY <2>1, <2>2, Zenon
<1>. QED
    BY <1>5, <1>6, <1>7, Zenon

\* The first part of a text is in its places.
KeptIn(t, x, i) == \E E : t \in Seq(E) /\ i \in 1..Len(t) /\ t[i] = x[i]

\* The places before the point keep their characters.
LEMMA LeftPartStays ==
    ASSUME NEW A, NEW B, NEW point, NEW x \in Seq(A), NEW y \in Seq(B), NEW i \in 1..Len(x)
    PROVE  KeptIn((x \o <<point>>) \o y, x, i)
<1> DEFINE E == A \cup {point} \cup B
           dotted == x \o <<point>>
<1>1. dotted \in Seq(E) /\ i \in 1..Len(dotted) /\ dotted[i] = x[i]
    OBVIOUS
<1>2. y \in Seq(E)
    OBVIOUS
<1> HIDE DEF dotted, E
<1>3. dotted \o y \in Seq(E) /\ i \in 1..Len(dotted \o y) /\ (dotted \o y)[i] = dotted[i]
    BY <1>1, <1>2
<1>. QED
    BY <1>1, <1>3, Zenon DEF dotted, KeptIn

\* The display of what the context holds parses as itself or is refused.
LEMMA DisplaysReadAsThemselves ==
    ASSUME NEW minor \in Nat, Rounded(minor) = minor
    PROVE  ReadsAsItself(minor)
<1> DEFINE m == minor_unit_digits
           scale == Ten[m]
           W == minor \div scale
           F == minor % scale
           x == Numeral(W, 1)
           y == Numeral(F, m)
           t == (Grouped(x) \o <<".">>) \o y
<1>0. m \in Nat /\ m >= 1
    BY MoneyConstants
<1>1. scale \in Nat /\ scale > 0
    BY <1>0, TenStep
<1>2. format_minor_units(minor) = t
    BY Zenon DEF format_minor_units
<1>3. W \in Nat /\ F \in Nat /\ F < scale /\ minor = scale * W + F
  <2> HIDE DEF scale
  <2>. QED
      BY <1>1, Divided
<1>12. PICK thousand \in Nat : thousand = 1000
    OBVIOUS
<1>4. minor < thousand * scale <=> W < thousand
  <2> HIDE DEF scale, W, F
  <2>1. ASSUME W < thousand PROVE minor < thousand * scale
    <3>1. W + 1 <= thousand /\ scale * (W + 1) <= scale * thousand
        BY <1>1, <1>3, <2>1
    <3>. QED
        BY <1>1, <1>3, <3>1
  <2>2. ASSUME W >= thousand PROVE minor >= thousand * scale
    <3>1. scale * W >= scale * thousand
        BY <1>1, <1>3, <2>2
    <3>. QED
        BY <1>1, <1>3, <3>1
  <2>. QED
      BY <1>1, <1>3, <2>1, <2>2
<1>5. PICK k \in Nat : k >= 1 /\ (k > 1 => W >= Ten[k - 1]) /\ NumeralOf(x, W, k)
  <2> HIDE DEF W
  <2>1. 1 \in Nat /\ 1 >= 1
      OBVIOUS
  <2>2. \E k \in Nat : k >= 1 /\ (k > 1 => W >= Ten[k - 1]) /\ NumeralOf(Numeral(W, 1), W, k)
      BY <1>3, <2>1, NumeralIsOf, Zenon
  <2>. QED
      BY <2>2, Zenon
<1>6. NumeralOf(y, F, m)
  <2> HIDE DEF F
  <2>1. PICK l \in Nat : l >= m /\ (l > m => F >= Ten[l - 1]) /\ NumeralOf(y, F, l)
      BY <1>0, <1>3, NumeralIsOf
  <2>2. ASSUME l > m PROVE FALSE
    <3>1. l - 1 \in Nat /\ m <= l - 1
        BY <1>0, <2>2
    <3>2. Ten[m] <= Ten[l - 1] /\ Ten[l - 1] \in Nat /\ Ten[m] \in Nat
        BY <1>0, <3>1, TenGrows, TenStep
    <3>. QED
        BY <1>3, <2>1, <2>2, <3>2
  <2>3. l = m
      BY <1>0, <2>1, <2>2
  <2>. QED
      BY <2>1, <2>3, Zenon
<1>7. x \in Seq(DigitSet) /\ Len(x) = k /\ W < Ten[k] /\ y \in Seq(DigitSet)
    BY <1>5, <1>6, Zenon DEF NumeralOf
<1>8. Ten[3] = thousand
  <2>1. Ten[0 + 1] = 10 * Ten[0] /\ Ten[1 + 1] = 10 * Ten[1] /\ Ten[2 + 1] = 10 * Ten[2]
      BY TenStep
  <2>. QED
      BY <2>1, <1>12, TenStep
<1> HIDE DEF scale, W, F, x, y
<1>9. ASSUME W < thousand PROVE parse_minor_units(t) = minor
  <2>1. k \in 1..3
    <3>1. ASSUME k >= 4 PROVE FALSE
      <4>1. k - 1 \in Nat /\ 3 <= k - 1
          BY <3>1
      <4>2. Ten[3] <= Ten[k - 1] /\ Ten[k - 1] \in Nat
          BY <4>1, TenGrows, TenStep
      <4>. QED
          BY <1>3, <1>5, <1>8, <1>9, <3>1, <4>2
    <3>. QED
        BY <1>5, <3>1
  <2>2. Grouped(x) = x
      BY <1>7, <2>1, OneGroup
  <2>3. parse_minor_units((x \o <<".">>) \o y) = Rounded(W * Ten[m] + F)
    <3>1. W \in Nat /\ F \in Nat /\ k >= 1 /\ NumeralOf(x, W, k) /\ NumeralOf(y, F, m)
        BY <1>3, <1>5, <1>6, Zenon
    <3>2. ReadsRounded((x \o <<".">>) \o y, W * Ten[m] + F)
        BY <3>1, DisplayRead, Zenon
    <3>. QED
        BY <3>2, Zenon DEF ReadsRounded
  <2>4. W * Ten[m] + F = minor
      BY <1>1, <1>3 DEF scale
  <2>. QED
      BY <2>2, <2>3, <2>4, Zenon
<1>10. ASSUME W >= thousand PROVE parse_minor_units(t) = Rejected
  <2>1. Len(x) >= 4
    <3>1. ASSUME k <= 3 PROVE FALSE
      <4>1. Ten[k] <= Ten[3] /\ Ten[k] \in Nat
          BY <3>1, TenGrows, TenStep
      <4>. QED
          BY <1>3, <1>7, <1>8, <1>10, <4>1
    <3>. QED
        BY <1>5, <1>7, <3>1
  <2>2. PICK D : /\ Grouped(x) \in Seq(D)
                 /\ \E i \in 1..Len(Grouped(x)) : Grouped(x)[i] = ","
      BY <1>7, <2>1, MoreGroups, Zenon
  <2>3. PICK i \in 1..Len(Grouped(x)) : Grouped(x)[i] = ","
      BY <2>2, Zenon
  <2>4. KeptIn(t, Grouped(x), i)
    <3>1. Grouped(x) \in Seq(D) /\ y \in Seq(DigitSet)
        BY <1>7, <2>2, Zenon
    <3>. QED
        BY <3>1, LeftPartStays, Zenon
  <2>5. PICK E : t \in Seq(E) /\ i \in 1..Len(t) /\ t[i] = Grouped(x)[i]
      BY <2>4, Zenon DEF KeptIn
  <2> HIDE DEF t
  <2>6. t[i] = ","
      BY <2>3, <2>5, Zenon
  <2>. QED
      BY <2>5, <2>6, SeparatedIsRefused, Zenon
<1>11. parse_minor_units(t) = IF minor < thousand * scale THEN minor ELSE Rejected
  <2> HIDE DEF t
  <2>1. ASSUME minor < thousand * scale PROVE parse_minor_units(t) = minor
      BY <1>4, <1>9, <2>1, Zenon
  <2>2. ASSUME ~(minor < thousand * scale) PROVE parse_minor_units(t) = Rejected
    <3>1. ~(W < thousand)
        BY <1>4, <2>2, Zenon
    <3>2. W >= thousand
        BY <1>3, <3>1
    <3>. QED
        BY <1>10, <3>2, Zenon
  <2>. QED
      BY <2>1, <2>2, Zenon
<1>. QED
    BY <1>2, <1>11, <1>12 DEF ReadsAsItself, scale

\* The display of an amount that was accepted parses as that amount, however many
\* digits it has, or is refused for its separators (money.py:113-120).
THEOREM DisplaysAreNotMisread == InputSpec => []DisplayNotMisread
<1>1. InputInit => RawTypeOK
    BY DEF InputInit, RawTypeOK
<1>2. RawTypeOK => DisplayNotMisread
    BY ParsedStays, DisplaysReadAsThemselves, Zenon DEF RawTypeOK, DisplayNotMisread
<1>. QED
    BY <1>1, <1>2, RawStep, PTL DEF InputSpec
=============================================================================
