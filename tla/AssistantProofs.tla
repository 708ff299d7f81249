--------------------------- MODULE AssistantProofs ---------------------------
(***************************************************************************)
(* Theorems about Assistant, for every set of tools, queries, cases and    *)
(* texts, every budget and every number of questions and calls.            *)
(***************************************************************************)
EXTENDS Assistant, FiniteSetTheorems, SequenceTheorems, TLAPS

\* The dictionary of tools: read tools, one for a name.
ReadTools ==
    /\ \A t \in tools : t.access = "read"
    /\ \A t, u \in tools : t.name = u.name => t = u

\* Where the queries that went upstream stand in the record: one after the other,
\* and before the call whose handler has not gone upstream yet.
Entered(entry) ==
    /\ entry \in [DOMAIN reached -> DOMAIN calls]
    /\ \A i \in DOMAIN reached : calls[entry[i]] = <<reached[i].tool.name, reached[i].query>>
    /\ \A i, j \in DOMAIN reached : i < j => entry[i] < entry[j]
    /\ running # <<>> /\ ~running[1].sent => \A i \in DOMAIN reached : entry[i] < Len(calls)

Recorded ==
    /\ \E entry : Entered(entry)
    /\ running # <<>> =>
          /\ calls # <<>>
          /\ calls[Len(calls)] = <<running[1].tool.name, running[1].query>>
          /\ running[1].tool \in tools /\ running[1].query \notin Mutating
    /\ \A i \in DOMAIN reached : reached[i].tool \in tools /\ reached[i].query \notin Mutating
    /\ \A i \in DOMAIN calls : calls[i][2] \notin Mutating

GatewayInv == GatewayTypeOK /\ ReadTools /\ Recorded

-----------------------------------------------------------------------------

LEMMA RegisterStep ==
    ASSUME GatewayInv, NEW t \in Tools, Register(t)
    PROVE  GatewayInv' /\ calls' = calls
<1>1. tools' = tools \cup {t} /\ UNCHANGED <<calls, running, reached>>
    BY DEF Register
<1>2. t.access = "read" /\ \A u \in tools : u.name # t.name
    BY GatewayConstants DEF Register
<1>3. GatewayTypeOK'
    BY <1>1 DEF GatewayInv, GatewayTypeOK
<1>4. ReadTools'
    BY <1>1, <1>2 DEF GatewayInv, ReadTools
<1>5. Recorded'
  <2>1. \A entry : Entered(entry) => Entered(entry)'
      BY <1>1 DEF Entered
  <2>. QED
      BY <1>1, <2>1 DEF GatewayInv, Recorded
<1>. QED
    BY <1>1, <1>3, <1>4, <1>5 DEF GatewayInv

LEMMA CallStep ==
    ASSUME GatewayInv, NEW name \in Names, NEW query \in Queries, Call(name, query)
    PROVE  GatewayInv' /\ Len(calls') = Len(calls) + 1
<1> DEFINE last == <<name, query>>
<1>1. PICK t \in tools :
          /\ t.name = name
          /\ running' = <<[tool |-> t, query |-> query, sent |-> FALSE]>>
    BY DEF Call
<1>2. /\ calls' = Append(calls, last) /\ UNCHANGED <<tools, reached>>
      /\ query \notin Mutating
    BY DEF Call
<1>3. last \in Names \X Queries /\ calls \in Seq(Names \X Queries) /\ t \in Tools
    BY DEF GatewayInv, GatewayTypeOK
<1>4. /\ calls' \in Seq(Names \X Queries)
      /\ Len(calls) \in Nat /\ Len(calls') = Len(calls) + 1
      /\ DOMAIN calls = 1..Len(calls) /\ DOMAIN calls' = DOMAIN calls \cup {Len(calls) + 1}
      /\ \A i \in DOMAIN calls : calls'[i] = calls[i]
      /\ calls'[Len(calls) + 1] = last
    BY <1>2, <1>3
<1>5. GatewayTypeOK'
    BY <1>1, <1>2, <1>3, <1>4 DEF GatewayInv, GatewayTypeOK
<1>6. ReadTools'
    BY <1>2 DEF GatewayInv, ReadTools
<1>7. \A entry : Entered(entry) => Entered(entry)'
  <2> SUFFICES ASSUME NEW entry, Entered(entry)
               PROVE  Entered(entry)'
      OBVIOUS
  <2>1. \A i \in DOMAIN reached : entry[i] \in DOMAIN calls
      BY DEF Entered
  <2>2. \A i \in DOMAIN reached : entry[i] < Len(calls') /\ calls'[entry[i]] = calls[entry[i]]
      BY <1>4, <2>1
  <2>3. entry \in [DOMAIN reached -> DOMAIN calls']
      BY <1>4 DEF Entered
  <2>. QED
      BY <1>2, <2>2, <2>3 DEF Entered
<1>8. Recorded'
  <2>1. \E entry : Entered(entry)'
      BY <1>7 DEF GatewayInv, Recorded
  <2>2. running' # <<>> /\ running'[1].tool = t /\ running'[1].query = query
      BY <1>1
  <2>3. calls' # <<>> /\ calls'[Len(calls')] = <<running'[1].tool.name, running'[1].query>>
      BY <1>1, <1>4, <2>2
  <2>4. \A i \in DOMAIN calls' : calls'[i][2] \notin Mutating
      BY <1>2, <1>4 DEF GatewayInv, Recorded
  <2>5. /\ running'[1].tool \in tools' /\ running'[1].query \notin Mutating
        /\ \A i \in DOMAIN reached' : reached'[i].tool \in tools' /\ reached'[i].query \notin Mutating
      BY <1>1, <1>2, <2>2 DEF GatewayInv, Recorded
  <2>. QED
      BY <2>1, <2>3, <2>4, <2>5 DEF Recorded
<1>. QED
    BY <1>4, <1>5, <1>6, <1>8 DEF GatewayInv

\* The query that goes upstream is that of the last entry, which no other has.
LEMMA UpstreamStep ==
    ASSUME GatewayInv, GoUpstream
    PROVE  GatewayInv' /\ calls' = calls
<1>1. PICK c \in [tool : Tools, query : Queries, sent : BOOLEAN] : running = <<c>>
    BY DEF GatewayInv, GatewayTypeOK, GoUpstream
<1> DEFINE sending == [tool |-> c.tool, query |-> c.query]
<1>2. /\ ~c.sent
      /\ running' = <<[c EXCEPT !.sent = TRUE]>>
      /\ reached' = Append(reached, sending)
      /\ UNCHANGED <<tools, calls>>
  <2>1. DOMAIN running = {1} /\ running[1] = c
      BY <1>1
  <2>2. running' = [i \in {1} |-> [c EXCEPT !.sent = TRUE]]
      BY <2>1 DEF GoUpstream
  <2> DEFINE d == [c EXCEPT !.sent = TRUE]
  <2>3. running' = <<d>>
    <3> HIDE DEF d
    <3>1. running' = [i \in {1} |-> d]
        BY <2>2, Zenon DEF d
    <3>. QED
        BY <3>1
  <2>4. ~c.sent /\ reached' = Append(reached, sending) /\ UNCHANGED <<tools, calls>>
      BY <2>1, Zenon DEF GoUpstream
  <2>. QED
      BY <2>3, <2>4, Zenon
<1>3. /\ calls # <<>> /\ calls[Len(calls)] = <<c.tool.name, c.query>>
      /\ c.tool \in tools /\ c.query \notin Mutating
    BY <1>1 DEF GatewayInv, Recorded
<1>4. /\ reached \in Seq([tool : Tools, query : Queries])
      /\ calls \in Seq(Names \X Queries)
      /\ sending \in [tool : Tools, query : Queries]
    BY DEF GatewayInv, GatewayTypeOK
<1>5. /\ reached' \in Seq([tool : Tools, query : Queries])
      /\ Len(reached) \in Nat /\ DOMAIN reached = 1..Len(reached)
      /\ DOMAIN reached' = 1..(Len(reached) + 1)
      /\ \A i \in DOMAIN reached : reached'[i] = reached[i]
      /\ reached'[Len(reached) + 1] = sending
    BY <1>2, <1>4
<1>6. GatewayTypeOK'
    BY <1>2, <1>5 DEF GatewayInv, GatewayTypeOK
<1>7. ReadTools'
    BY <1>2 DEF GatewayInv, ReadTools
<1>8. \E entry : Entered(entry)'
  <2>1. PICK old : Entered(old)
      BY DEF GatewayInv, Recorded
  <2> DEFINE entry == [i \in 1..(Len(reached) + 1) |->
                          IF i = Len(reached) + 1 THEN Len(calls) ELSE old[i]]
  <2>2. Len(calls) \in DOMAIN calls /\ DOMAIN calls \subseteq Nat
      BY <1>3, <1>4
  <2>3. \A i \in 1..Len(reached) :
            /\ old[i] \in DOMAIN calls /\ old[i] < Len(calls)
            /\ calls[old[i]] = <<reached[i].tool.name, reached[i].query>>
    <3>1. running # <<>> /\ ~running[1].sent
        BY <1>1, <1>2
    <3>. QED
        BY <1>5, <2>1, <3>1 DEF Entered
  <2>4. /\ entry[Len(reached) + 1] = Len(calls)
        /\ \A i \in 1..Len(reached) : entry[i] = old[i]
        /\ entry \in [1..(Len(reached) + 1) -> DOMAIN calls]
      BY <1>5, <2>2, <2>3
  <2>5. \A i \in 1..(Len(reached) + 1) : i \in 1..Len(reached) \/ i = Len(reached) + 1
      BY <1>5
  <2> HIDE DEF entry
  <2>6. \A i \in 1..(Len(reached) + 1) :
            calls[entry[i]] = <<reached'[i].tool.name, reached'[i].query>>
      BY <1>3, <1>5, <2>3, <2>4, <2>5
  <2>7. \A i, j \in 1..(Len(reached) + 1) : i < j => entry[i] < entry[j]
    <3> SUFFICES ASSUME NEW i \in 1..(Len(reached) + 1), NEW j \in 1..(Len(reached) + 1), i < j
                 PROVE  entry[i] < entry[j]
        OBVIOUS
    <3>1. i \in 1..Len(reached)
        BY <1>5
    <3>2. CASE j \in 1..Len(reached)
        BY <1>5, <2>1, <2>4, <3>1, <3>2 DEF Entered
    <3>3. CASE j = Len(reached) + 1
        BY <2>3, <2>4, <3>1, <3>3
    <3>. QED
        BY <2>5, <3>2, <3>3
  <2>8. running'[1].sent
      BY <1>1, <1>2
  <2>. QED
      BY <1>2, <1>5, <2>4, <2>6, <2>7, <2>8 DEF Entered
<1>9. Recorded'
  <2>1. running'[1].tool = c.tool /\ running'[1].query = c.query
      BY <1>1, <1>2
  <2>2. \A i \in DOMAIN reached' : i \in DOMAIN reached \/ i = Len(reached) + 1
      BY <1>5
  <2>3. \A i \in DOMAIN reached' : reached'[i].tool \in tools /\ reached'[i].query \notin Mutating
    <3>1. sending.tool = c.tool /\ sending.query = c.query
        OBVIOUS
    <3>. QED
        BY <1>3, <1>5, <2>2, <3>1 DEF GatewayInv, Recorded
  <2>. QED
      BY <1>2, <1>3, <1>8, <2>1, <2>3 DEF GatewayInv, Recorded
<1>. QED
    BY <1>2, <1>6, <1>7, <1>9 DEF GatewayInv

LEMMA EndsStep ==
    ASSUME GatewayInv, HandlerEnds
    PROVE  GatewayInv' /\ calls' = calls
<1>1. running' = <<>> /\ UNCHANGED <<tools, calls, reached>>
    BY DEF HandlerEnds
<1>2. \A entry : Entered(entry) => Entered(entry)'
    BY <1>1 DEF Entered
<1>. QED
    BY <1>1, <1>2 DEF GatewayInv, GatewayTypeOK, ReadTools, Recorded

LEMMA GatewayStep == GatewayInv /\ [Next]_vars => GatewayInv'
<1> SUFFICES ASSUME GatewayInv, [Next]_vars
             PROVE  GatewayInv'
    OBVIOUS
<1>1. ASSUME UNCHANGED gatewayVars
      PROVE  GatewayInv'
  <2>1. \A entry : Entered(entry) => Entered(entry)'
      BY <1>1 DEF gatewayVars, Entered
  <2>. QED
      BY <1>1, <2>1 DEF gatewayVars, GatewayInv, GatewayTypeOK, ReadTools, Recorded
<1>2. ASSUME NEW t \in Tools, RegisterTool(t)
      PROVE  GatewayInv'
    BY <1>2, RegisterStep DEF RegisterTool
<1>3. ASSUME NEW name \in Names, NEW query \in Queries, CallTool(name, query)
      PROVE  GatewayInv'
    BY <1>3, CallStep DEF CallTool
<1>4. CASE HandlerStep
    BY <1>4, UpstreamStep, EndsStep DEF HandlerStep
<1>. QED
    BY <1>1, <1>2, <1>3, <1>4 DEF Next, Ask, Answer, vars

LEMMA GatewayAlways == Spec => []GatewayInv
<1>1. ASSUME Init PROVE GatewayInv
  <2>1. tools = {} /\ calls = <<>> /\ running = <<>> /\ reached = <<>>
      BY <1>1 DEF Init, GatewayInit
  <2>2. DOMAIN reached = {} /\ DOMAIN calls = {}
      BY <2>1
  <2>3. Entered([i \in {} |-> 0])
      BY <2>1, <2>2 DEF Entered
  <2>. QED
      BY <2>1, <2>2, <2>3 DEF GatewayInv, GatewayTypeOK, ReadTools, Recorded
<1>. QED
    BY <1>1, GatewayStep, PTL DEF Spec

\* Whatever handlers do, and whenever they raise, each query that went upstream has
\* its entry in the record, under the name of the read tool that took it.
THEOREM RecordIsComplete == Spec => []ReachedIsRecorded
<1>1. ASSUME GatewayInv PROVE ReachedIsRecorded
  <2>1. \E entry : Entered(entry)
      BY <1>1 DEF GatewayInv, Recorded
  <2>. QED
      BY <1>1, <2>1 DEF GatewayInv, ReadTools, Recorded, Entered, ReachedIsRecorded
<1>. QED
    BY <1>1, GatewayAlways, PTL

-----------------------------------------------------------------------------

\* A report has a score for each dimension, or for all but REFUSAL.
LEMMA RecordsAreScores ==
    ASSUME NEW r \in BOOLEAN, NEW g \in BOOLEAN, NEW m \in BOOLEAN, NEW c \in BOOLEAN
    PROVE  /\ [refusal |-> r, grounding |-> g, completeness |-> m, calibration |-> c] \in Scores
           /\ [grounding |-> g, completeness |-> m, calibration |-> c] \in Scores
<1>1. [refusal |-> r, grounding |-> g, completeness |-> m, calibration |-> c]
         \in [Dimension -> BOOLEAN]
    BY DEF Dimension
<1>2. [grounding |-> g, completeness |-> m, calibration |-> c]
         \in [Dimension \ {"refusal"} -> BOOLEAN]
    BY DEF Dimension
<1>. QED
    BY <1>1, <1>2 DEF Scores

LEMMA ReportsAreScores ==
    ASSUME NEW case, NEW text, NEW sent
    PROVE  score_case(case, text, sent) \in Scores
<1> DEFINE r == Hinted(RefusalHints, text) /\ sent = <<>>
           g == sent # <<>> /\ cited(text, sent)
           m == \A x \in case.expected_groups : Occurs(x, prose(text, sent))
           c == case.result_truncated => Hinted(TruncationHints, text)
<1>1. r \in BOOLEAN /\ g \in BOOLEAN /\ m \in BOOLEAN /\ c \in BOOLEAN
    OBVIOUS
<1>2. score_case(case, text, sent) =
         IF case.expect_refusal
         THEN [refusal |-> r, grounding |-> TRUE, completeness |-> TRUE, calibration |-> TRUE]
         ELSE [grounding |-> g, completeness |-> m, calibration |-> c]
    BY DEF score_case
<1> HIDE DEF r, g, m, c
<1>. QED
    BY <1>1, <1>2, RecordsAreScores

LEMMA TypeStep == GatewayInv /\ TypeOK /\ [Next]_vars => TypeOK'
<1> SUFFICES ASSUME GatewayInv, TypeOK, [Next]_vars
             PROVE  TypeOK'
    OBVIOUS
<1>0. GatewayTypeOK'
    BY GatewayStep DEF GatewayInv
<1>1. Len(calls) \in Nat
    BY DEF TypeOK, GatewayTypeOK
<1>2. ASSUME NEW t \in Tools, RegisterTool(t)
      PROVE  TypeOK'
    BY <1>0, <1>2, RegisterStep DEF TypeOK, RegisterTool, evaluation
<1>7. CASE HandlerStep
  <2>1. calls' = calls /\ UNCHANGED evaluation
      BY <1>7, UpstreamStep, EndsStep DEF HandlerStep
  <2>. QED
      BY <1>0, <2>1 DEF TypeOK, evaluation
<1>3. ASSUME NEW c \in Cases, Ask(c)
      PROVE  TypeOK'
    BY <1>0, <1>1, <1>3 DEF TypeOK, Ask, gatewayVars
<1>4. ASSUME NEW name \in Names, NEW query \in Queries, CallTool(name, query)
      PROVE  TypeOK'
  <2>1. Len(calls') = Len(calls) + 1 /\ UNCHANGED evaluation
      BY <1>4, CallStep DEF CallTool
  <2>. QED
      BY <1>0, <1>1, <2>1 DEF TypeOK, evaluation
<1>5. ASSUME NEW text \in Texts, Answer(text)
      PROVE  TypeOK'
  <2>1. reports' \in Seq(Scores)
      BY <1>5, ReportsAreScores DEF TypeOK, Answer
  <2>2. \A case, sent : Flaws(case, text, sent) \subseteq Dimension
      BY DEF Flaws, Dimension
  <2>3. flawed' \subseteq Dimension
      BY <1>5, <2>2 DEF TypeOK, Answer
  <2>4. unclear' \in BOOLEAN
      BY <1>5, Zenon DEF Answer
  <2>. QED
      BY <1>0, <1>5, <2>1, <2>3, <2>4 DEF TypeOK, Answer, gatewayVars
<1>6. CASE UNCHANGED vars
    BY <1>0, <1>6 DEF TypeOK, vars, gatewayVars
<1>. QED
    BY <1>2, <1>3, <1>4, <1>5, <1>6, <1>7 DEF Next

\* Every variable keeps its type.
THEOREM TypeCorrect == Spec => []TypeOK
<1>1. ASSUME Init PROVE TypeOK
  <2>1. tools = {} /\ calls = <<>> /\ running = <<>> /\ reached = <<>>
      BY <1>1 DEF Init, GatewayInit
  <2>2. GatewayTypeOK /\ Len(calls) = 0
      BY <2>1 DEF GatewayTypeOK
  <2>3. unclear \in BOOLEAN
      BY <1>1, Zenon DEF Init
  <2>. QED
      BY <1>1, <2>2, <2>3 DEF Init, TypeOK
<1>. QED
    BY <1>1, TypeStep, GatewayAlways, PTL DEF Spec

-----------------------------------------------------------------------------
(* Sums over finite sets.                                                  *)

\* As many cells for each x of s as w says: the sum of w over s, as a set.
Cells(w, s) == UNION {{x} \X (1..w[x]) : x \in s}

\* One x has as many cells as it weighs.
LEMMA CellsOf ==
    ASSUME NEW x, NEW n \in Nat
    PROVE  IsFiniteSet({x} \X (1..n)) /\ Cardinality({x} \X (1..n)) = n
<1>1. IsFiniteSet({x}) /\ Cardinality({x}) = 1
    BY FS_Singleton
<1>2. IsFiniteSet(1..n) /\ Cardinality(1..n) = n
    BY FS_Interval
<1>3. /\ IsFiniteSet({x} \X (1..n))
      /\ Cardinality({x} \X (1..n)) = Cardinality({x}) * Cardinality(1..n)
    BY <1>1, <1>2, FS_Product
<1>. QED
    BY <1>1, <1>2, <1>3

\* A finite set has finitely many cells.
LEMMA CellsFinite ==
    ASSUME NEW s, IsFiniteSet(s), NEW w, \A x \in s : w[x] \in Nat
    PROVE  IsFiniteSet(Cells(w, s)) /\ Cardinality(Cells(w, s)) \in Nat
<1> DEFINE parts == {{x} \X (1..w[x]) : x \in s}
<1>1. IsFiniteSet(parts)
  <2> DEFINE part == [x \in s |-> {x} \X (1..w[x])]
  <2>1. part \in Surjection(s, parts)
      BY DEF Surjection
  <2>. QED
      BY <2>1, FS_Surjection
<1>2. ASSUME NEW T \in parts PROVE IsFiniteSet(T)
  <2>1. PICK x \in s : T = {x} \X (1..w[x])
      OBVIOUS
  <2>. QED
      BY <2>1, CellsOf
<1>3. IsFiniteSet(UNION parts)
    BY <1>1, <1>2, FS_UNION
<1>. QED
    BY <1>3, FS_CardinalityType DEF Cells

\* Without x there are fewer cells, by the weight of x.
LEMMA CellsLess ==
    ASSUME NEW s, IsFiniteSet(s), NEW w, \A y \in s : w[y] \in Nat,
           NEW x \in s, NEW rest, rest = s \ {x}
    PROVE  /\ IsFiniteSet(rest) /\ Cardinality(Cells(w, rest)) \in Nat
           /\ Cardinality(Cells(w, s)) = Cardinality(Cells(w, rest)) + w[x]
<1>1. IsFiniteSet(rest) /\ \A y \in rest : w[y] \in Nat
    BY FS_Subset
<1>2. IsFiniteSet(Cells(w, rest)) /\ Cardinality(Cells(w, rest)) \in Nat
    BY <1>1, CellsFinite
<1>3. ASSUME NEW own, own = {x} \X (1..w[x])
      PROVE  /\ IsFiniteSet(own) /\ Cardinality(own) = w[x]
             /\ Cells(w, s) = Cells(w, rest) \cup own
             /\ Cells(w, rest) \cap own = {}
  <2>1. IsFiniteSet(own) /\ Cardinality(own) = w[x]
      BY <1>3, CellsOf
  <2>2. Cells(w, s) = Cells(w, rest) \cup own
      BY <1>3 DEF Cells
  <2>3. Cells(w, rest) \cap own = {}
      BY <1>3 DEF Cells
  <2>. QED
      BY <2>1, <2>2, <2>3
<1>4. \E own : /\ IsFiniteSet(own) /\ Cardinality(own) = w[x]
               /\ Cells(w, s) = Cells(w, rest) \cup own
               /\ Cells(w, rest) \cap own = {}
    BY <1>3
<1>5. PICK own : /\ IsFiniteSet(own) /\ Cardinality(own) = w[x]
                 /\ Cells(w, s) = Cells(w, rest) \cup own
                 /\ Cells(w, rest) \cap own = {}
    BY <1>4
<1>6. Cardinality(Cells(w, s))
        = Cardinality(Cells(w, rest)) + Cardinality(own) - Cardinality(Cells(w, rest) \cap own)
    BY <1>2, <1>5, FS_Union
<1>7. Cardinality(Cells(w, rest) \cap own) = 0
    BY <1>5, FS_EmptySet
<1>8. w[x] \in Nat
    OBVIOUS
<1>. QED
    BY <1>1, <1>2, <1>5, <1>6, <1>7, <1>8

\* g sums w over the subsets of S, taking out one element after the other.
Sums(g, w, S) ==
    g = [s \in SUBSET S |->
           IF s = {} THEN 0
           ELSE w[CHOOSE x \in s : TRUE] + g[s \ {CHOOSE x \in s : TRUE}]]

\* There is such a function: the number of cells.
LEMMA CellsSum ==
    ASSUME NEW S, IsFiniteSet(S), NEW w, \A x \in S : w[x] \in Nat
    PROVE  \E g : Sums(g, w, S)
<1> DEFINE g == [s \in SUBSET S |-> Cardinality(Cells(w, s))]
<1>1. ASSUME NEW s \in SUBSET S
      PROVE  g[s] = IF s = {} THEN 0
                    ELSE w[CHOOSE x \in s : TRUE] + g[s \ {CHOOSE x \in s : TRUE}]
  <2>1. IsFiniteSet(s)
      BY FS_Subset
  <2>2. CASE s = {}
    <3>1. Cells(w, s) = {}
        BY <2>2 DEF Cells
    <3>. QED
        BY <2>2, <3>1, FS_EmptySet
  <2>3. CASE s # {}
    <3>0. PICK c : c = CHOOSE x \in s : TRUE
        OBVIOUS
    <3> PICK rest : rest = s \ {c}
        OBVIOUS
    <3>1. c \in s /\ rest \in SUBSET S
        BY <2>3, <3>0
    <3>2. /\ Cardinality(Cells(w, rest)) \in Nat
          /\ Cardinality(Cells(w, s)) = Cardinality(Cells(w, rest)) + w[c]
      <4>1. \A y \in s : w[y] \in Nat
          OBVIOUS
      <4>2. \A x \in s : \A r : r = s \ {x} =>
               /\ IsFiniteSet(r) /\ Cardinality(Cells(w, r)) \in Nat
               /\ Cardinality(Cells(w, s)) = Cardinality(Cells(w, r)) + w[x]
          BY <2>1, <4>1, CellsLess, Zenon
      <4>. QED
          BY <3>1, <4>2, Zenon
    <3>3. w[c] \in Nat
        BY <3>1
    <3>7. g[s] = w[c] + g[rest]
        BY <3>0, <3>1, <3>2, <3>3
    <3>. QED
        BY <2>3, <3>0, <3>7
  <2>. QED
      BY <2>2, <2>3
<1>2. Sums(g, w, S)
    BY <1>1 DEF Sums
<1>. QED
    BY <1>2

\* There is no other: a smallest subset summed otherwise would be summed right.
LEMMA SumsCells ==
    ASSUME NEW S, IsFiniteSet(S), NEW w, \A x \in S : w[x] \in Nat, NEW g, Sums(g, w, S)
    PROVE  g[S] = Cardinality(Cells(w, S))
<1> DEFINE wrong == {s \in FiniteSubsetsOf(S) : g[s] # Cardinality(Cells(w, s))}
<1>1. ASSUME wrong # {}
      PROVE  \E s \in wrong : \A r \in wrong : ~(<<r, s>> \in StrictSubsetOrdering(S))
  <2>1. IsWellFoundedOn(StrictSubsetOrdering(S), FiniteSubsetsOf(S))
      BY FS_StrictSubsetOrderingWellFounded
  <2>2. wrong \subseteq FiniteSubsetsOf(S)
      OBVIOUS
  <2> HIDE DEF wrong
  <2>. QED
      BY <1>1, <2>1, <2>2, WFMin, Zenon
<1>2. ASSUME NEW s \in wrong,  \A r \in wrong : ~(<<r, s>> \in StrictSubsetOrdering(S))
      PROVE  FALSE
  <2>1. s \in SUBSET S /\ IsFiniteSet(s) /\ g[s] # Cardinality(Cells(w, s))
      BY DEF FiniteSubsetsOf
  <2>2. g[s] = IF s = {} THEN 0
               ELSE w[CHOOSE x \in s : TRUE] + g[s \ {CHOOSE x \in s : TRUE}]
    <3> DEFINE body(r) == IF r = {} THEN 0
               ELSE w[CHOOSE x \in r : TRUE] + g[r \ {CHOOSE x \in r : TRUE}]
    <3>1. g = [r \in SUBSET S |-> body(r)]
        BY Zenon DEF Sums
    <3> HIDE DEF body
    <3>2. g[s] = body(s)
        BY <2>1, <3>1
    <3>. QED
        BY <3>2 DEF body
  <2>3. CASE s = {}
    <3>1. Cells(w, s) = {}
        BY <2>3 DEF Cells
    <3>. QED
        BY <2>1, <2>2, <2>3, <3>1, FS_EmptySet
  <2>4. CASE s # {}
    <3>0. PICK c : c = CHOOSE x \in s : TRUE
        OBVIOUS
    <3> PICK rest : rest = s \ {c}
        OBVIOUS
    <3>1. c \in s /\ rest \in SUBSET S /\ w[c] \in Nat
        BY <2>1, <2>4, <3>0
    <3>2. /\ IsFiniteSet(rest) /\ Cardinality(Cells(w, rest)) \in Nat
          /\ Cardinality(Cells(w, s)) = Cardinality(Cells(w, rest)) + w[c]
      <4>1. \A y \in s : w[y] \in Nat
          BY <2>1
      <4>2. \A x \in s : \A r : r = s \ {x} =>
               /\ IsFiniteSet(r) /\ Cardinality(Cells(w, r)) \in Nat
               /\ Cardinality(Cells(w, s)) = Cardinality(Cells(w, r)) + w[x]
          BY <2>1, <4>1, CellsLess, Zenon
      <4>. QED
          BY <3>1, <4>2, Zenon
    <3>3. rest \in FiniteSubsetsOf(S) /\ s \in FiniteSubsetsOf(S)
        BY <2>1, <3>1, <3>2 DEF FiniteSubsetsOf
    <3>4. <<rest, s>> \in StrictSubsetOrdering(S)
        BY <2>1, <3>1 DEF StrictSubsetOrdering
    <3>5. g[rest] = Cardinality(Cells(w, rest))
        BY <1>2, <3>3, <3>4
    <3>6. g[s] = w[c] + g[rest]
        BY <2>2, <2>4, <3>0
    <3>. QED
        BY <2>1, <3>1, <3>2, <3>5, <3>6
  <2>. QED
      BY <2>3, <2>4
<1>3. wrong = {}
    BY <1>1, <1>2
<1>4. S \in FiniteSubsetsOf(S)
    BY DEF FiniteSubsetsOf
<1>. QED
    BY <1>3, <1>4

\* What the sums of the gateway add up, as functions.
TokensOf == [t \in Tools |-> schema_tokens(t)]

CharsOf == [t \in Tools |-> t.chars]

\* Weights are naturals.
LEMMA WeightsType == \A t \in Tools : TokensOf[t] \in Nat /\ CharsOf[t] \in Nat
    BY GatewayConstants DEF TokensOf, CharsOf, schema_tokens

\* The cost of the schemas, and their characters, as numbers of cells.
LEMMA CostInCells ==
    ASSUME NEW S \in SUBSET Tools, IsFiniteSet(S)
    PROVE  /\ MapThenSumSet(schema_tokens, S) = Cardinality(Cells(TokensOf, S))
           /\ MapThenSumSet(LAMBDA t : t.chars, S) = Cardinality(Cells(CharsOf, S))
<1> DEFINE costs(g) == g = [s \in SUBSET S |->
               IF s = {} THEN 0
               ELSE schema_tokens(CHOOSE x \in s : TRUE) + g[s \ {CHOOSE x \in s : TRUE}]]
           lengths(g) == g = [s \in SUBSET S |->
               IF s = {} THEN 0
               ELSE (CHOOSE x \in s : TRUE).chars + g[s \ {CHOOSE x \in s : TRUE}]]
<1>1. ASSUME NEW s \in SUBSET S, s # {}
      PROVE  /\ TokensOf[CHOOSE x \in s : TRUE] = schema_tokens(CHOOSE x \in s : TRUE)
             /\ CharsOf[CHOOSE x \in s : TRUE] = (CHOOSE x \in s : TRUE).chars
  <2>0. PICK c : c = CHOOSE x \in s : TRUE
      OBVIOUS
  <2>1. c \in Tools
      BY <1>1, <2>0
  <2>2. TokensOf[c] = schema_tokens(c) /\ CharsOf[c] = c.chars
      BY <2>1 DEF TokensOf, CharsOf
  <2>. QED
      BY <2>0, <2>2, Zenon
<1>2. ASSUME NEW g PROVE (costs(g) <=> Sums(g, TokensOf, S)) /\ (lengths(g) <=> Sums(g, CharsOf, S))
  <2> DEFINE cost(s) == IF s = {} THEN 0
                 ELSE schema_tokens(CHOOSE x \in s : TRUE) + g[s \ {CHOOSE x \in s : TRUE}]
             length(s) == IF s = {} THEN 0
                 ELSE (CHOOSE x \in s : TRUE).chars + g[s \ {CHOOSE x \in s : TRUE}]
             cells(w, s) == IF s = {} THEN 0
                 ELSE w[CHOOSE x \in s : TRUE] + g[s \ {CHOOSE x \in s : TRUE}]
  <2>1. ASSUME NEW s \in SUBSET S
        PROVE  cost(s) = cells(TokensOf, s) /\ length(s) = cells(CharsOf, s)
    <3>1. CASE s = {}
        BY <3>1
    <3>2. CASE s # {}
        BY <1>1, <3>2
    <3>. QED
        BY <3>1, <3>2
  <2>2. /\ costs(g) <=> g = [s \in SUBSET S |-> cost(s)]
        /\ lengths(g) <=> g = [s \in SUBSET S |-> length(s)]
      OBVIOUS
  <2>3. /\ Sums(g, TokensOf, S) <=> g = [s \in SUBSET S |-> cells(TokensOf, s)]
        /\ Sums(g, CharsOf, S) <=> g = [s \in SUBSET S |-> cells(CharsOf, s)]
      BY DEF Sums
  <2> HIDE DEF cost, length, cells, costs, lengths
  <2>4. /\ [s \in SUBSET S |-> cost(s)] = [s \in SUBSET S |-> cells(TokensOf, s)]
        /\ [s \in SUBSET S |-> length(s)] = [s \in SUBSET S |-> cells(CharsOf, s)]
      BY <2>1
  <2>. QED
      BY <2>2, <2>3, <2>4, Zenon
<1>3. /\ MapThenSumSet(schema_tokens, S) = (CHOOSE g : costs(g))[S]
      /\ MapThenSumSet(LAMBDA t : t.chars, S) = (CHOOSE g : lengths(g))[S]
    BY Zenon DEF MapThenSumSet, MapThenFoldSet
<1> HIDE DEF costs, lengths
<1>4. /\ \A x \in S : TokensOf[x] \in Nat
      /\ \A x \in S : CharsOf[x] \in Nat
    BY WeightsType
<1>5. Sums(CHOOSE g : costs(g), TokensOf, S) /\ Sums(CHOOSE g : lengths(g), CharsOf, S)
  <2>1. (\E g : Sums(g, TokensOf, S)) /\ (\E g : Sums(g, CharsOf, S))
      BY <1>4, CellsSum
  <2>. QED
      BY <2>1, <1>2, Zenon
<1>6. /\ (CHOOSE g : costs(g))[S] = Cardinality(Cells(TokensOf, S))
      /\ (CHOOSE g : lengths(g))[S] = Cardinality(Cells(CharsOf, S))
    BY <1>4, <1>5, SumsCells, Zenon
<1>. QED
    BY <1>3, <1>6, Zenon

-----------------------------------------------------------------------------
(* The budget.                                                             *)

Tokens == Cardinality(Cells(TokensOf, tools))

Chars == Cardinality(Cells(CharsOf, tools))

\* The budget in cells, with the characters held against the tokens.
BudgetInv ==
    /\ tools \in SUBSET Tools /\ IsFiniteSet(tools)
    /\ Tokens <= schema_token_budget
    /\ Chars <= 4 * Tokens + 3 * Cardinality(tools)

\* A tool registered adds its own tokens and characters, and one to the tools.
LEMMA RegisterBudget ==
    ASSUME BudgetInv, NEW t \in Tools, Register(t)
    PROVE  BudgetInv'
<1>1. tools' = tools \cup {t} /\ t \notin tools
    BY DEF Register
<1>2. /\ tools' \in SUBSET Tools /\ IsFiniteSet(tools')
      /\ Cardinality(tools) \in Nat /\ Cardinality(tools') = Cardinality(tools) + 1
    BY <1>1, FS_AddElement, FS_CardinalityType DEF BudgetInv
<1>3. /\ t \in tools' /\ tools = tools' \ {t}
      /\ \A u \in tools' : TokensOf[u] \in Nat
      /\ \A u \in tools' : CharsOf[u] \in Nat
    BY <1>1, <1>2, WeightsType
<1>4. /\ Tokens \in Nat /\ Chars \in Nat
      /\ Tokens' = Tokens + TokensOf[t]
      /\ Chars' = Chars + CharsOf[t]
  <2>1. ASSUME NEW w, \A u \in tools' : w[u] \in Nat
        PROVE  /\ Cardinality(Cells(w, tools)) \in Nat
               /\ Cardinality(Cells(w, tools')) = Cardinality(Cells(w, tools)) + w[t]
    <3>1. PICK s, rest : s = tools' /\ rest = tools
        OBVIOUS
    <3>2. IsFiniteSet(s) /\ (\A u \in s : w[u] \in Nat) /\ t \in s /\ rest = s \ {t}
        BY <1>2, <1>3, <2>1, <3>1
    <3>3. /\ Cardinality(Cells(w, rest)) \in Nat
          /\ Cardinality(Cells(w, s)) = Cardinality(Cells(w, rest)) + w[t]
        BY <3>2, CellsLess, Zenon
    <3>. QED
        BY <3>1, <3>3
  <2>2. /\ Cells(TokensOf, tools)' = Cells(TokensOf, tools')
        /\ Cells(CharsOf, tools)' = Cells(CharsOf, tools')
      BY DEF Cells, TokensOf, CharsOf, schema_tokens
  <2>. QED
      BY <1>3, <2>1, <2>2 DEF Tokens, Chars
<1>5. Tokens + TokensOf[t] <= schema_token_budget
    BY CostInCells DEF Register, BudgetInv, schema_cost, TokensOf, Tokens
<1>6. TokensOf[t] \in Nat /\ CharsOf[t] \in Nat /\ CharsOf[t] <= 4 * TokensOf[t] + 3
    BY GatewayConstants DEF TokensOf, CharsOf, schema_tokens
<1>7. Chars <= 4 * Tokens + 3 * Cardinality(tools)
    BY DEF BudgetInv
<1>8. Chars + CharsOf[t] <= 4 * (Tokens + TokensOf[t]) + 3 * (Cardinality(tools) + 1)
    BY <1>2, <1>4, <1>6, <1>7
<1>. QED
    BY <1>2, <1>4, <1>5, <1>8 DEF BudgetInv

LEMMA BudgetStep == BudgetInv /\ [Next]_vars => BudgetInv'
<1>1. BudgetInv /\ tools' = tools => BudgetInv'
    BY DEF BudgetInv, Tokens, Chars
<1>. QED
    BY <1>1, RegisterBudget
       DEF Next, RegisterTool, Ask, CallTool, Call, HandlerStep, GoUpstream, HandlerEnds, Answer,
           vars, gatewayVars

\* The advertised schemas stay within the budget, whatever the order of
\* registrations and refusals, and exceed it in characters by rounding only.
THEOREM SchemasFitBudget == Spec => []BudgetHeld
<1>1. Init => BudgetInv
  <2> SUFFICES ASSUME Init PROVE BudgetInv
      OBVIOUS
  <2>1. tools = {}
      BY DEF Init, GatewayInit
  <2>2. Cells(TokensOf, tools) = {} /\ Cells(CharsOf, tools) = {}
      BY <2>1 DEF Cells
  <2>. QED
    <3>1. Tokens = 0 /\ Chars = 0
        BY <2>2, FS_EmptySet, Zenon DEF Tokens, Chars
    <3>2. IsFiniteSet(tools) /\ Cardinality(tools) = 0
        BY <2>1, FS_EmptySet, Zenon
    <3>. QED
        BY <2>1, <3>1, <3>2, GatewayConstants DEF BudgetInv
<1>2. BudgetInv => BudgetHeld
  <2> SUFFICES ASSUME BudgetInv PROVE BudgetHeld
      OBVIOUS
  <2>1. /\ schema_cost = Tokens
        /\ MapThenSumSet(LAMBDA t : t.chars, tools) = Chars
      BY CostInCells, Zenon DEF BudgetInv, schema_cost, Tokens, Chars
  <2>2. Tokens \in Nat /\ Chars \in Nat /\ Cardinality(tools) \in Nat
    <3>1. /\ IsFiniteSet(tools)
          /\ \A u \in tools : TokensOf[u] \in Nat
          /\ \A u \in tools : CharsOf[u] \in Nat
        BY WeightsType DEF BudgetInv
    <3>. QED
        BY <3>1, CellsFinite, FS_CardinalityType DEF Tokens, Chars
  <2>3. Chars <= 4 * schema_token_budget + 3 * Cardinality(tools)
      BY <2>2, GatewayConstants DEF BudgetInv
  <2>. QED
      BY <2>1, <2>3, Zenon DEF BudgetInv, BudgetHeld
<1>. QED
    BY <1>1, <1>2, BudgetStep, PTL DEF Spec

-----------------------------------------------------------------------------
(* Where a part stands in a text.                                          *)

Marked == Words \cup {Blank}

LEMMA BeginsAt ==
    ASSUME NEW C, NEW part \in Seq(C), NEW s \in Seq(C), NEW k \in Nat, part # <<>>
    PROVE  k \in Begins(part, s)
             <=> /\ k \in 1..Len(s) /\ k + Len(part) - 1 <= Len(s)
                 /\ \A j \in 1..Len(part) : part[j] = s[k + j - 1]
<1>1. DOMAIN s = 1..Len(s) /\ Len(s) \in Nat /\ Len(part) \in Nat /\ Len(part) # 0
    OBVIOUS
<1>2. ASSUME k \in 1..Len(s), k + Len(part) - 1 <= Len(s)
      PROVE  SubSeq(s, k, k + Len(part) - 1) = part
               <=> \A j \in 1..Len(part) : part[j] = s[k + j - 1]
  <2> PICK w : w = SubSeq(s, k, k + Len(part) - 1)
      OBVIOUS
  <2>1. k + Len(part) - 1 \in 1..Len(s)
      BY <1>1, <1>2
  <2>2. /\ w \in Seq(C) /\ Len(w) = Len(part)
        /\ \A j \in 1..Len(part) : w[j] = s[k + j - 1]
    <3>1. PICK l : l = k + Len(part) - 1
        OBVIOUS
    <3>2. k \in Int /\ l \in Int /\ k <= l /\ l - k + 1 = Len(part)
        BY <1>1, <3>1
    <3>3. \A i \in k..l : s[i] \in C
        BY <1>2, <3>1
    <3>4. /\ SubSeq(s, k, l) \in Seq(C)
          /\ Len(SubSeq(s, k, l)) = IF k <= l THEN l - k + 1 ELSE 0
          /\ \A j \in 1..(l - k + 1) : SubSeq(s, k, l)[j] = s[k + j - 1]
        BY <3>2, <3>3, SubSeqProperties
    <3>. QED
        BY <3>1, <3>2, <3>4, Zenon
  <2>3. w = part <=> \A j \in 1..Len(part) : w[j] = part[j]
    <3>0. Len(w) = Len(part) /\ w \in Seq(C)
        BY <2>2
    <3>1. ASSUME \A j \in 1..Len(part) : w[j] = part[j]
          PROVE  w = part
      <4>1. \A j \in 1..Len(w) : w[j] = part[j]
          BY <3>0, <3>1, Zenon
      <4>. QED
          BY <3>0, <4>1, SeqEqual, Zenon
    <3>. QED
        BY <3>1, Zenon
  <2>. QED
      BY <2>2, <2>3
<1>. QED
    BY <1>1, <1>2 DEF Begins

LEMMA OccursBegins ==
    ASSUME NEW C, NEW part \in Seq(C), NEW s \in Seq(C), part # <<>>
    PROVE  Occurs(part, s) <=> Begins(part, s) # {}
<1>1. DOMAIN s = 1..Len(s) /\ Len(s) \in Nat /\ Len(part) \in Nat /\ Len(part) # 0
    OBVIOUS
<1>2. ASSUME NEW k PROVE k \in 1..(Len(s) + 1 - Len(part))
                             <=> k \in 1..Len(s) /\ k + Len(part) - 1 <= Len(s)
    BY <1>1
<1>. QED
    BY <1>1, <1>2 DEF Occurs, Begins

-----------------------------------------------------------------------------
(* The prose: the text with blanks where it cites.                         *)

Masked(text, places) == [i \in DOMAIN text |-> IF i \in places THEN Blank ELSE text[i]]

\* A part without blanks stands in a masked text where it stood untouched.
LEMMA BeginsMasked ==
    ASSUME NEW text \in Seq(Words), NEW places, NEW part \in Seq(Words), NEW k, part # <<>>
    PROVE  /\ Masked(text, places) \in Seq(Marked) /\ Len(Masked(text, places)) = Len(text)
           /\ k \in Begins(part, Masked(text, places))
                <=> k \in Begins(part, text) /\ Block(k, part) \cap places = {}
<1> PICK m : m = Masked(text, places)
    OBVIOUS
<1>1. DOMAIN text = 1..Len(text) /\ Len(text) \in Nat /\ Len(part) \in Nat /\ Len(part) # 0
    OBVIOUS
<1>2. m = [i \in 1..Len(text) |-> IF i \in places THEN Blank ELSE text[i]]
    BY <1>1 DEF Masked
<1>3. \A i \in 1..Len(text) : text[i] \in Words
    BY <1>1
<1>4. m \in [1..Len(text) -> Marked]
    BY <1>2, <1>3 DEF Marked
<1>5. m \in Seq(Marked) /\ Len(m) = Len(text)
    BY <1>1, <1>4
<1>6. k \in Begins(part, m) \/ k \in Begins(part, text) => k \in Nat
  <2>1. DOMAIN m \subseteq Nat /\ DOMAIN text \subseteq Nat
      BY <1>1, <1>4
  <2>. QED
      BY <2>1 DEF Begins
<1>7. ASSUME k \in 1..Len(text), k + Len(part) - 1 <= Len(text)
      PROVE  (\A j \in 1..Len(part) : part[j] = m[k + j - 1])
               <=> /\ \A j \in 1..Len(part) : part[j] = text[k + j - 1]
                   /\ Block(k, part) \cap places = {}
  <2>1. \A j \in 1..Len(part) : k + j - 1 \in 1..Len(text) /\ part[j] \in Words
      BY <1>1, <1>7
  <2>2. \A j \in 1..Len(part) : part[j] = m[k + j - 1]
                                   <=> part[j] = text[k + j - 1] /\ k + j - 1 \notin places
      BY <1>2, <2>1, HarnessConstants
  <2>3. \A i : i \in Block(k, part) <=> i - k + 1 \in 1..Len(part) /\ i \in Int
      BY <1>1, <1>7 DEF Block
  <2>4. Block(k, part) \cap places = {} <=> \A j \in 1..Len(part) : k + j - 1 \notin places
    <3>1. ASSUME NEW j \in 1..Len(part) PROVE k + j - 1 \in Block(k, part)
        BY <1>1, <1>7 DEF Block
    <3>2. ASSUME NEW i \in Block(k, part) PROVE i - k + 1 \in 1..Len(part) /\ k + (i - k + 1) - 1 = i
        BY <1>1, <1>7 DEF Block
    <3>. QED
        BY <3>1, <3>2
  <2>. QED
      BY <2>2, <2>4
<1>8. part \in Seq(Marked) /\ text \in Seq(Marked)
    BY DEF Marked
<1>9. ASSUME k \in Nat
      PROVE  k \in Begins(part, m)
               <=> k \in Begins(part, text) /\ Block(k, part) \cap places = {}
  <2>1. k \in Begins(part, m)
          <=> /\ k \in 1..Len(text) /\ k + Len(part) - 1 <= Len(text)
              /\ \A j \in 1..Len(part) : part[j] = m[k + j - 1]
      BY <1>5, <1>8, <1>9, BeginsAt
  <2>2. k \in Begins(part, text)
          <=> /\ k \in 1..Len(text) /\ k + Len(part) - 1 <= Len(text)
              /\ \A j \in 1..Len(part) : part[j] = text[k + j - 1]
      BY <1>9, BeginsAt
  <2>. QED
      BY <1>7, <2>1, <2>2, Zenon
<1>. QED
    BY <1>5, <1>6, <1>9, Zenon

Below == {ss \in Nat \X Nat : ss[1] < ss[2]}

LEMMA BelowWF == IsWellFoundedOn(Below, Nat)
    BY NatLessThanWellFounded, Zenon DEF OpToRel, Below

\* The occurrences that replace takes are well defined, whatever they overlap.
TakenFrom(At, L, M, f) ==
    f = [i \in 1..M |-> i \in At /\ \A k \in 1..(i - 1) : f[k] => k + L <= i]

LEMMA TakenExists ==
    ASSUME NEW At, NEW L \in Nat, NEW M \in Int
    PROVE  \E f : TakenFrom(At, L, M, f)
<1> DEFINE Takes(i, f) == i \in At /\ \A k \in 1..(i - 1) : f[k] => k + L <= i
           Good(n, f) == f = [i \in 1..n |-> Takes(i, f)]
           wrong == {n \in Nat : ~\E f : Good(n, f)}
<1>1. \E f : Good(0, f)
  <2> DEFINE f == [i \in 1..0 |-> TRUE]
  <2>1. f = [i \in 1..0 |-> Takes(i, f)]
    <3> HIDE DEF Takes
    <3>1. \A i \in 1..0 : TRUE = Takes(i, f)
        OBVIOUS
    <3>. QED
        BY <3>1, Zenon
  <2>. QED
      BY <2>1, Zenon
<1>2. ASSUME NEW n \in Nat, NEW f, Good(n, f) PROVE \E h : Good(n + 1, h)
  <2> DEFINE h == [i \in 1..(n + 1) |-> Takes(i, f)]
  <2>1. ASSUME NEW k \in 1..n PROVE h[k] = f[k]
    <3>1. k \in 1..(n + 1)
        OBVIOUS
    <3>2. h[k] = Takes(k, f) /\ f[k] = Takes(k, f)
        BY <1>2, <3>1, Zenon
    <3> HIDE DEF Takes, h
    <3>. QED
        BY <3>2, Zenon
  <2>2. ASSUME NEW i \in 1..(n + 1) PROVE Takes(i, f) = Takes(i, h)
    <3>1. \A k \in 1..(i - 1) : k \in 1..n
        OBVIOUS
    <3> HIDE DEF h
    <3>. QED
        BY <2>1, <3>1, Zenon
  <2>3. h = [i \in 1..(n + 1) |-> Takes(i, h)]
    <3>1. h = [i \in 1..(n + 1) |-> Takes(i, f)]
        BY Zenon
    <3> HIDE DEF Takes, h
    <3>. QED
        BY <2>2, <3>1, Zenon
  <2>. QED
      BY <2>3, Zenon
<1> HIDE DEF Good
<1>3. wrong = {}
  <2>1. ASSUME wrong # {} PROVE \E n \in wrong : \A k \in wrong : ~(<<k, n>> \in Below)
    <3>1. wrong \subseteq Nat
        BY Zenon
    <3> HIDE DEF wrong
    <3>. QED
        BY <2>1, <3>1, BelowWF, WFMin, Zenon
  <2>2. ASSUME NEW n \in wrong, \A k \in wrong : ~(<<k, n>> \in Below) PROVE FALSE
    <3>1. n \in Nat /\ n # 0
        BY <1>1
    <3>2. n - 1 \in Nat /\ <<n - 1, n>> \in Below /\ (n - 1) + 1 = n
        BY <3>1 DEF Below
    <3>3. n - 1 \notin wrong
        BY <2>2, <3>2, Zenon
    <3>4. \E f : Good(n - 1, f)
        BY <3>2, <3>3, Zenon
    <3>5. \E f : Good((n - 1) + 1, f)
        BY <1>2, <3>2, <3>4, Zenon
    <3>6. \E f : Good(n, f)
        BY <3>2, <3>5
    <3>. QED
        BY <3>6, Zenon
  <2>. QED
      BY <2>1, <2>2, Zenon
<1>4. \E n \in Nat : 1..M = 1..n
  <2>1. CASE M \in Nat
      BY <2>1
  <2>2. CASE M \notin Nat
    <3>1. 1..M = 1..0 /\ 0 \in Nat
        BY <2>2
    <3>. QED
        BY <3>1, Zenon
  <2>. QED
      BY <2>1, <2>2
<1>5. PICK n \in Nat : 1..M = 1..n
    BY <1>4
<1>6. PICK f : Good(n, f)
    BY <1>3, <1>5, Zenon
<1>7. f = [i \in 1..M |-> Takes(i, f)]
    BY <1>5, <1>6 DEF Good
<1>. QED
    BY <1>7, Zenon DEF TakenFrom

\* What replace makes of a text: it blanks some of the query's occurrences, and all
\* of them where the query does not overlap itself.
LEMMA ReplacedIsMasked ==
    ASSUME NEW C, NEW s \in Seq(C), NEW q \in Seq(C), q # <<>>
    PROVE  \E at \in SUBSET Begins(q, s) :
               /\ Replaced(s, q) = Masked(s, UNION {Block(k, q) : k \in at})
               /\ (\A k, l \in Begins(q, s) : k \in Block(l, q) => k = l) => at = Begins(q, s)
<1>1. DOMAIN s = 1..Len(s) /\ Len(s) \in Nat /\ Len(q) \in Nat /\ Len(q) # 0
    OBVIOUS
<1> DEFINE S == 1..(Len(s) + 1 - Len(q))
           Good(f) == f = [i \in S |-> /\ SubSeq(s, i, i + Len(q) - 1) = q
                                      /\ \A k \in 1..(i - 1) : f[k] => k + Len(q) <= i]
           taken == CHOOSE f : Good(f)
           at == {k \in S : taken[k]}
<1>2. \A i : i \in Begins(q, s) <=> i \in S /\ SubSeq(s, i, i + Len(q) - 1) = q
    BY <1>1 DEF Begins
<1>3. Good(taken)
  <2> DEFINE At == {i \in S : SubSeq(s, i, i + Len(q) - 1) = q}
  <2>1. PICK f : TakenFrom(At, Len(q), Len(s) + 1 - Len(q), f)
    <3>1. Len(s) + 1 - Len(q) \in Int
        BY <1>1
    <3> HIDE DEF At
    <3>. QED
        BY <1>1, <3>1, TakenExists, Zenon
  <2>2. ASSUME NEW i \in S
        PROVE  (/\ i \in At
                /\ \A k \in 1..(i - 1) : f[k] => k + Len(q) <= i)
                 = (/\ SubSeq(s, i, i + Len(q) - 1) = q
                    /\ \A k \in 1..(i - 1) : f[k] => k + Len(q) <= i)
    <3>1. i \in At <=> SubSeq(s, i, i + Len(q) - 1) = q
        BY Zenon
    <3> HIDE DEF At
    <3>. QED
        BY <3>1, Zenon
  <2>3. Good(f)
    <3>1. f = [i \in S |-> i \in At /\ \A k \in 1..(i - 1) : f[k] => k + Len(q) <= i]
        BY <2>1, Zenon DEF TakenFrom
    <3> HIDE DEF At, S
    <3>. QED
        BY <2>2, <3>1, Zenon
  <2> HIDE DEF Good
  <2>. QED
      BY <2>3, Zenon
<1>4. ASSUME NEW i \in S
      PROVE  taken[i] <=> /\ SubSeq(s, i, i + Len(q) - 1) = q
                          /\ \A k \in 1..(i - 1) : taken[k] => k + Len(q) <= i
  <2> HIDE DEF taken, S
  <2>. QED
      BY <1>3, Zenon
<1>5. at \subseteq Begins(q, s)
  <2> HIDE DEF taken, S
  <2>. QED
      BY <1>2, <1>4, Zenon
<1>6. ASSUME \A k, l \in Begins(q, s) : k \in Block(l, q) => k = l
      PROVE  at = Begins(q, s)
  <2>1. ASSUME NEW i \in Begins(q, s) PROVE i \in at
    <3>0. i \in S /\ SubSeq(s, i, i + Len(q) - 1) = q
        BY <1>2, <2>1, Zenon
    <3>1. ASSUME NEW k \in 1..(i - 1), taken[k], ~(k + Len(q) <= i) PROVE FALSE
      <4>1. k \in S /\ k # i /\ i \in Block(k, q)
          BY <1>1, <3>0, <3>1 DEF Block
      <4>2. k \in Begins(q, s)
          BY <1>5, <3>1, <4>1, Zenon
      <4>. QED
          BY <1>6, <2>1, <4>1, <4>2, Zenon
    <3> HIDE DEF taken, S
    <3>. QED
        BY <1>4, <3>0, <3>1, Zenon
  <2> HIDE DEF at
  <2>. QED
      BY <1>5, <2>1, Zenon
<1>7. DOMAIN taken = S
  <2> HIDE DEF taken, S
  <2>. QED
      BY <1>3
<1>8. Replaced(s, q) = [i \in DOMAIN s |->
          IF \E k \in DOMAIN taken : taken[k] /\ k <= i /\ i < k + Len(q) THEN Blank ELSE s[i]]
    BY Zenon DEF Replaced
<1>9. ASSUME NEW i \in DOMAIN s
      PROVE  (\E k \in DOMAIN taken : taken[k] /\ k <= i /\ i < k + Len(q))
                <=> i \in UNION {Block(k, q) : k \in at}
  <2>1. ASSUME NEW k \in S PROVE k <= i /\ i < k + Len(q) <=> i \in Block(k, q)
      BY <1>1 DEF Block
  <2>2. i \in UNION {Block(k, q) : k \in at} <=> \E k \in at : i \in Block(k, q)
      OBVIOUS
  <2>3. (\E k \in at : i \in Block(k, q)) <=> \E k \in S : taken[k] /\ i \in Block(k, q)
    <3> HIDE DEF taken, S
    <3>. QED
        BY Zenon
  <2> HIDE DEF taken, S, at
  <2>. QED
      BY <1>7, <2>1, <2>2, <2>3, Zenon
<1>10. Replaced(s, q) = Masked(s, UNION {Block(k, q) : k \in at})
  <2> HIDE DEF taken, S, at
  <2>. QED
      BY <1>8, <1>9 DEF Masked
<1>. QED
  <2> HIDE DEF at
  <2>. QED
      BY <1>5, <1>6, <1>10, Zenon

\* The positions of the text that belong to the query.
Cites(text, q) == UNION {Block(k, q) : k \in Begins(q, text)}

\* Replacement in a masked text: more places are blanked, all of the query's if no
\* citation is blanked in part and the query does not overlap itself.
LEMMA ReplacedInMasked ==
    ASSUME NEW text \in Seq(Words), NEW q \in Queries, NEW covered
    PROVE  \E more \in SUBSET Cites(text, q) :
               /\ Replaced(Masked(text, covered), q) = Masked(text, covered \cup more)
               /\ (/\ \A k, l \in Begins(q, text) : k \in Block(l, q) => k = l
                   /\ \A k \in Begins(q, text) :
                          Block(k, q) \cap covered # {} => Block(k, q) \subseteq covered)
                  => covered \cup more = covered \cup Cites(text, q)
<1>1. q \in Seq(Words) /\ q # <<>> /\ q \in Seq(Marked)
    BY EvaluationConstants DEF Marked
<1>2. Masked(text, covered) \in Seq(Marked) /\ DOMAIN Masked(text, covered) = DOMAIN text
  <2>1. Masked(text, covered) \in Seq(Marked)
      BY <1>1, BeginsMasked, Zenon
  <2>. QED
      BY <2>1 DEF Masked
<1>3. ASSUME NEW k
      PROVE  k \in Begins(q, Masked(text, covered))
               <=> k \in Begins(q, text) /\ Block(k, q) \cap covered = {}
    BY <1>1, BeginsMasked, Zenon
<1>4. PICK at \in SUBSET Begins(q, Masked(text, covered)) :
          /\ Replaced(Masked(text, covered), q)
                = Masked(Masked(text, covered), UNION {Block(k, q) : k \in at})
          /\ (\A k, l \in Begins(q, Masked(text, covered)) : k \in Block(l, q) => k = l)
                => at = Begins(q, Masked(text, covered))
    BY <1>1, <1>2, ReplacedIsMasked, Zenon
<1> DEFINE more == UNION {Block(k, q) : k \in at}
<1>5. \A p : p \in more <=> \E k \in at : p \in Block(k, q)
    OBVIOUS
<1>6. \A p : p \in Cites(text, q) <=> \E k \in Begins(q, text) : p \in Block(k, q)
    BY DEF Cites
<1>7. Replaced(Masked(text, covered), q) = Masked(Masked(text, covered), more)
    BY <1>4, Zenon
<1> HIDE DEF more
<1>8. more \subseteq Cites(text, q)
    BY <1>3, <1>4, <1>5, <1>6, Zenon
<1>9. Masked(Masked(text, covered), more) = Masked(text, covered \cup more)
  <2>1. ASSUME NEW i \in DOMAIN text
        PROVE  (IF i \in more THEN Blank ELSE Masked(text, covered)[i])
                  = (IF i \in covered \cup more THEN Blank ELSE text[i])
    <3>1. Masked(text, covered)[i] = IF i \in covered THEN Blank ELSE text[i]
        BY DEF Masked
    <3>. QED
        BY <3>1
  <2>2. Masked(Masked(text, covered), more)
          = [i \in DOMAIN text |-> IF i \in more THEN Blank ELSE Masked(text, covered)[i]]
      BY <1>2, Zenon DEF Masked
  <2>3. Masked(text, covered \cup more)
          = [i \in DOMAIN text |-> IF i \in covered \cup more THEN Blank ELSE text[i]]
      BY Zenon DEF Masked
  <2>. QED
      BY <2>1, <2>2, <2>3, Zenon
<1>10. ASSUME \A k, l \in Begins(q, text) : k \in Block(l, q) => k = l,
              \A k \in Begins(q, text) :
                  Block(k, q) \cap covered # {} => Block(k, q) \subseteq covered
       PROVE  covered \cup more = covered \cup Cites(text, q)
  <2>1. at = Begins(q, Masked(text, covered))
      BY <1>3, <1>4, <1>10, Zenon
  <2>2. ASSUME NEW p \in Cites(text, q), p \notin covered PROVE p \in more
    <3>1. PICK k \in Begins(q, text) : p \in Block(k, q)
        BY <1>6, <2>2, Zenon
    <3>2. Block(k, q) \cap covered = {}
        BY <1>10, <2>2, <3>1, Zenon
    <3>. QED
        BY <1>3, <1>5, <2>1, <3>1, <3>2, Zenon
  <2>. QED
      BY <1>8, <2>2
<1>. QED
    BY <1>7, <1>8, <1>9, <1>10, Zenon

\* A part of the record: calls that a query of no forbidden word was made with.
Sendings == Seq(Names \X Queries)

\* The positions that the first n calls cite.
CitedBy(text, sent, n) == UNION {Cites(text, sent[i][2]) : i \in 1..n}

\* No citation of the answer overlaps another: the second part of ClearlyCited.
Apart(text, sent) ==
    \A p, q \in Asked(sent) : \A k \in Begins(p, text), l \in Begins(q, text) :
        Block(k, p) \cap Block(l, q) # {} => k = l /\ p = q

LEMMA AskedAreQueries ==
    ASSUME NEW sent \in Sendings
    PROVE  /\ Len(sent) \in Nat /\ DOMAIN sent = 1..Len(sent)
           /\ \A i \in 1..Len(sent) : sent[i][2] \in Queries /\ sent[i][2] \in Asked(sent)
           /\ Asked(sent) \subseteq Queries
<1>1. Len(sent) \in Nat /\ DOMAIN sent = 1..Len(sent)
    BY DEF Sendings
<1>2. \A i \in 1..Len(sent) : sent[i][2] \in Queries
    BY DEF Sendings
<1>. QED
    BY <1>1, <1>2, Zenon DEF Asked

LEMMA CitesAt ==
    ASSUME NEW text, NEW q, NEW p
    PROVE  p \in Cites(text, q) <=> \E k \in Begins(q, text) : p \in Block(k, q)
    BY DEF Cites

LEMMA CitedByAt ==
    ASSUME NEW text, NEW sent, NEW n, NEW p
    PROVE  p \in CitedBy(text, sent, n) <=> \E i \in 1..n : p \in Cites(text, sent[i][2])
    BY DEF CitedBy

LEMMA CitedByAsked ==
    ASSUME NEW text, NEW sent \in Sendings
    PROVE  CitedBy(text, sent, Len(sent)) = Covered(text, Asked(sent))
<1>1. \A p : p \in Covered(text, Asked(sent)) <=> \E q \in Asked(sent) : p \in Cites(text, q)
    BY DEF Covered, Cites
<1>2. \A q : q \in Asked(sent) <=> \E i \in 1..Len(sent) : q = sent[i][2]
    BY AskedAreQueries, Zenon DEF Asked
<1>3. \A p : p \in CitedBy(text, sent, Len(sent)) <=> p \in Covered(text, Asked(sent))
  <2>1. \A p : p \in CitedBy(text, sent, Len(sent))
                 <=> \E i \in 1..Len(sent) : p \in Cites(text, sent[i][2])
      BY CitedByAt, Zenon
  <2>. QED
      BY <1>1, <1>2, <2>1
<1>. QED
    BY <1>3, Zenon

\* One call.  With the citations apart, what is blanked already of the call's query
\* was blanked for the same query.
LEMMA NextCitation ==
    ASSUME NEW text \in Seq(Words), NEW sent \in Sendings, NEW n \in 1..Len(sent),
           NEW covered \in SUBSET CitedBy(text, sent, n - 1),
           Apart(text, sent) => covered = CitedBy(text, sent, n - 1)
    PROVE  \E places \in SUBSET CitedBy(text, sent, n) :
               /\ Replaced(Masked(text, covered), sent[n][2]) = Masked(text, places)
               /\ Apart(text, sent) => places = CitedBy(text, sent, n)
<1>1. /\ n \in Nat /\ n \in 1..n /\ 1..n = 1..(n - 1) \cup {n}
      /\ 1..n \subseteq 1..Len(sent)
    BY AskedAreQueries
<1>2. /\ sent[n][2] \in Queries /\ sent[n][2] \in Asked(sent)
      /\ \A i \in 1..(n - 1) : sent[i][2] \in Asked(sent)
    BY <1>1, AskedAreQueries, Zenon
<1>3. PICK q : q = sent[n][2]
    OBVIOUS
<1>4. PICK more \in SUBSET Cites(text, q) :
          /\ Replaced(Masked(text, covered), q) = Masked(text, covered \cup more)
          /\ (/\ \A k, l \in Begins(q, text) : k \in Block(l, q) => k = l
              /\ \A k \in Begins(q, text) :
                     Block(k, q) \cap covered # {} => Block(k, q) \subseteq covered)
             => covered \cup more = covered \cup Cites(text, q)
    BY <1>2, <1>3, ReplacedInMasked, Zenon
<1>5. CitedBy(text, sent, n) = CitedBy(text, sent, n - 1) \cup Cites(text, q)
  <2>1. ASSUME NEW p
        PROVE  p \in CitedBy(text, sent, n)
                 <=> p \in CitedBy(text, sent, n - 1) \/ p \in Cites(text, q)
      BY <1>1, <1>3, CitedByAt, Zenon
  <2>. QED
      BY <2>1, Zenon
<1>6. ASSUME Apart(text, sent) PROVE covered \cup more = CitedBy(text, sent, n)
  <2>1. ASSUME NEW k \in Begins(q, text), NEW l \in Begins(q, text), k \in Block(l, q)
        PROVE  k = l
    <3>1. k \in Block(k, q)
      <4>1. q \in Seq(Words) /\ q # <<>>
          BY <1>2, <1>3, EvaluationConstants
      <4>2. k \in DOMAIN text
          BY <2>1 DEF Begins
      <4>3. k \in Nat /\ Len(q) \in Nat /\ Len(q) # 0
          BY <4>1, <4>2
      <4>. QED
          BY <4>3 DEF Block
    <3>. QED
        BY <1>2, <1>3, <1>6, <2>1, <3>1, Zenon DEF Apart
  <2>2. ASSUME NEW k \in Begins(q, text), Block(k, q) \cap covered # {}
        PROVE  Block(k, q) \subseteq covered
    <3>1. covered = CitedBy(text, sent, n - 1)
        BY <1>6
    <3>2. PICK p : p \in Block(k, q) /\ p \in CitedBy(text, sent, n - 1)
        BY <2>2, <3>1, Zenon
    <3>3. PICK i \in 1..(n - 1) : p \in Cites(text, sent[i][2])
        BY <3>2, CitedByAt, Zenon
    <3>4. PICK l \in Begins(sent[i][2], text) : p \in Block(l, sent[i][2])
        BY <3>3, CitesAt, Zenon
    <3>5. k = l /\ q = sent[i][2]
        BY <1>2, <1>3, <1>6, <3>2, <3>4, Zenon DEF Apart
    <3>6. ASSUME NEW r \in Block(k, q) PROVE r \in CitedBy(text, sent, n - 1)
      <4>1. r \in Cites(text, sent[i][2])
          BY <3>4, <3>5, <3>6, CitesAt, Zenon
      <4>. QED
          BY <4>1, CitedByAt, Zenon
    <3>. QED
        BY <3>1, <3>6, Zenon
  <2>3. covered \cup more = covered \cup Cites(text, q)
      BY <1>4, <2>1, <2>2, Zenon
  <2>. QED
      BY <1>5, <1>6, <2>3, Zenon
<1>7. covered \cup more \subseteq CitedBy(text, sent, n)
    BY <1>4, <1>5, Zenon
<1>. QED
    BY <1>3, <1>4, <1>6, <1>7, Zenon

\* What prose makes of the text call by call is well defined.
AfterCalls(text, sent, N, f) ==
    f = [n \in 0..N |-> IF n = 0 THEN text ELSE Replaced(f[n - 1], sent[n][2])]

LEMMA AfterExists ==
    ASSUME NEW text, NEW sent, NEW N \in Nat
    PROVE  \E f : AfterCalls(text, sent, N, f)
<1> DEFINE Step(n, f) == IF n = 0 THEN text ELSE Replaced(f[n - 1], sent[n][2])
           Good(m, f) == f = [n \in 0..m |-> Step(n, f)]
           wrong == {m \in Nat : ~\E f : Good(m, f)}
<1>1. \E f : Good(0, f)
  <2> DEFINE f == [n \in 0..0 |-> text]
  <2>1. \A n \in 0..0 : text = Step(n, f)
    <3>1. \A n \in 0..0 : n = 0
        OBVIOUS
    <3> HIDE DEF f
    <3>. QED
        BY <3>1, Zenon
  <2>2. f = [n \in 0..0 |-> Step(n, f)]
    <3>1. f = [n \in 0..0 |-> text]
        BY Zenon
    <3> HIDE DEF f, Step
    <3>. QED
        BY <2>1, <3>1, Zenon
  <2>. QED
      BY <2>2, Zenon
<1>2. ASSUME NEW m \in Nat, NEW f, Good(m, f) PROVE \E h : Good(m + 1, h)
  <2> DEFINE h == [n \in 0..(m + 1) |-> Step(n, f)]
  <2>1. ASSUME NEW k \in 0..m PROVE h[k] = f[k]
    <3>1. k \in 0..(m + 1)
        OBVIOUS
    <3>2. h[k] = Step(k, f)
      <4> HIDE DEF Step
      <4>. QED
          BY <3>1, Zenon
    <3>3. f[k] = Step(k, f)
      <4> HIDE DEF Step
      <4>. QED
          BY <1>2, Zenon
    <3>. QED
        BY <3>2, <3>3, Zenon
  <2>2. ASSUME NEW n \in 0..(m + 1) PROVE Step(n, f) = Step(n, h)
    <3>1. n # 0 => n - 1 \in 0..m
        OBVIOUS
    <3> HIDE DEF h
    <3>2. n # 0 => h[n - 1] = f[n - 1]
        BY <2>1, <3>1, Zenon
    <3>. QED
        BY <3>2, Zenon
  <2>3. h = [n \in 0..(m + 1) |-> Step(n, h)]
    <3>1. h = [n \in 0..(m + 1) |-> Step(n, f)]
        BY Zenon
    <3> HIDE DEF Step, h
    <3>. QED
        BY <2>2, <3>1, Zenon
  <2>. QED
      BY <2>3, Zenon
<1> HIDE DEF Good
<1>3. wrong = {}
  <2>1. ASSUME wrong # {} PROVE \E n \in wrong : \A k \in wrong : ~(<<k, n>> \in Below)
    <3>1. wrong \subseteq Nat
        BY Zenon
    <3> HIDE DEF wrong
    <3>. QED
        BY <2>1, <3>1, BelowWF, WFMin, Zenon
  <2>2. ASSUME NEW n \in wrong, \A k \in wrong : ~(<<k, n>> \in Below) PROVE FALSE
    <3>1. n \in Nat /\ n # 0
        BY <1>1
    <3>2. n - 1 \in Nat /\ <<n - 1, n>> \in Below /\ (n - 1) + 1 = n
        BY <3>1 DEF Below
    <3>3. n - 1 \notin wrong
        BY <2>2, <3>2, Zenon
    <3>4. \E f : Good((n - 1) + 1, f)
        BY <1>2, <3>2, <3>3, Zenon
    <3>5. \E f : Good(n, f)
        BY <3>2, <3>4
    <3>. QED
        BY <3>5, Zenon
  <2>. QED
      BY <2>1, <2>2, Zenon
<1>. QED
    BY <1>3, Zenon DEF Good, AfterCalls

\* The prose: blanks for some of what the whole queries cite, and for all of it where
\* the citations are apart.
LEMMA ProseIsMasked ==
    ASSUME NEW text \in Seq(Words), NEW sent \in Sendings
    PROVE  \E places \in SUBSET Covered(text, Asked(sent)) :
               /\ prose(text, sent) = Masked(text, places)
               /\ Apart(text, sent) => places = Covered(text, Asked(sent))
<1> DEFINE N == Len(sent)
           Good(f) == f = [n \in 0..N |->
                             IF n = 0 THEN text ELSE Replaced(f[n - 1], sent[n][2])]
           after == CHOOSE f : Good(f)
           Fits(n) == \E places \in SUBSET CitedBy(text, sent, n) :
                         /\ after[n] = Masked(text, places)
                         /\ Apart(text, sent) => places = CitedBy(text, sent, n)
           wrong == {n \in 0..N : ~Fits(n)}
<1>1. N \in Nat
    BY AskedAreQueries
<1>2. Good(after)
  <2>0. PICK f : AfterCalls(text, sent, N, f)
    <3> HIDE DEF N
    <3>. QED
        BY <1>1, AfterExists, Zenon
  <2>1. Good(f)
      BY <2>0, Zenon DEF AfterCalls
  <2> HIDE DEF Good
  <2>. QED
      BY <2>1, Zenon
<1>3. ASSUME NEW n \in 0..N
      PROVE  after[n] = IF n = 0 THEN text ELSE Replaced(after[n - 1], sent[n][2])
  <2> HIDE DEF after, N
  <2>. QED
      BY <1>2, Zenon
<1>4. Fits(0)
  <2>1. 0 \in 0..N
      BY <1>1
  <2>2. after[0] = text
    <3> HIDE DEF after
    <3>. QED
        BY <1>3, <2>1, Zenon
  <2>3. CitedBy(text, sent, 0) = {}
      BY DEF CitedBy
  <2>4. text = Masked(text, {})
    <3>1. text = [i \in DOMAIN text |-> text[i]]
        OBVIOUS
    <3>. QED
        BY <3>1 DEF Masked
  <2> HIDE DEF after
  <2>. QED
      BY <2>2, <2>3, <2>4
<1>5. ASSUME NEW n \in 1..N, Fits(n - 1) PROVE Fits(n)
  <2> HIDE DEF after
  <2>1. PICK covered \in SUBSET CitedBy(text, sent, n - 1) :
            /\ after[n - 1] = Masked(text, covered)
            /\ Apart(text, sent) => covered = CitedBy(text, sent, n - 1)
      BY <1>5, Zenon
  <2>2. n \in 0..N /\ n # 0
      BY <1>1
  <2>3. after[n] = Replaced(Masked(text, covered), sent[n][2])
      BY <1>3, <2>1, <2>2, Zenon
  <2>4. \E places \in SUBSET CitedBy(text, sent, n) :
            /\ Replaced(Masked(text, covered), sent[n][2]) = Masked(text, places)
            /\ Apart(text, sent) => places = CitedBy(text, sent, n)
      BY <2>1, NextCitation, Zenon
  <2>. QED
      BY <2>3, <2>4, Zenon
<1> HIDE DEF after, Fits
<1>6. wrong = {}
  <2>1. ASSUME wrong # {} PROVE \E n \in wrong : \A k \in wrong : ~(<<k, n>> \in Below)
    <3>1. wrong \subseteq Nat
        BY <1>1
    <3> HIDE DEF wrong
    <3>. QED
        BY <2>1, <3>1, BelowWF, WFMin, Zenon
  <2>2. ASSUME NEW n \in wrong, \A k \in wrong : ~(<<k, n>> \in Below) PROVE FALSE
    <3>1. n \in 0..N /\ n # 0
        BY <1>4
    <3>2. n \in 1..N /\ n - 1 \in 0..N /\ <<n - 1, n>> \in Below
        BY <1>1, <3>1 DEF Below
    <3>3. Fits(n - 1)
        BY <2>2, <3>2, Zenon
    <3>. QED
        BY <1>5, <3>2, <3>3, Zenon
  <2>. QED
      BY <2>1, <2>2, Zenon
<1>7. Fits(N)
  <2>1. N \in 0..N
      BY <1>1
  <2>. QED
      BY <1>6, <2>1, Zenon
<1>8. prose(text, sent) = after[N]
    BY Zenon DEF prose, after
<1>. QED
    BY <1>7, <1>8, CitedByAsked, Zenon DEF Fits

-----------------------------------------------------------------------------
(* The scores of an answer.                                                *)

\* A score is FALSE exactly for what the answer fails.
Failed(scores, d) == d \in DOMAIN scores /\ ~scores[d]

LEMMA FirstPart ==
    ASSUME NEW C, NEW q \in Seq(C), NEW c \in Nat \ {0}, q # <<>>
    PROVE  /\ Min({c, Len(q)}) \in 1..Len(q)
           /\ SubSeq(q, 1, Min({c, Len(q)})) \in Seq(C)
           /\ SubSeq(q, 1, Min({c, Len(q)})) # <<>>
<1>1. Len(q) \in Nat /\ Len(q) # 0
    OBVIOUS
<1>2. Min({c, Len(q)}) \in 1..Len(q)
  <2>1. CASE c <= Len(q)
    <3>1. Min({c, Len(q)}) = c
        BY <1>1, <2>1 DEF Min
    <3>. QED
        BY <1>1, <2>1, <3>1
  <2>2. CASE Len(q) <= c
    <3>1. Min({c, Len(q)}) = Len(q)
        BY <1>1, <2>2 DEF Min
    <3>. QED
        BY <1>1, <3>1
  <2>. QED
      BY <1>1, <2>1, <2>2
<1>3. ASSUME NEW k \in 1..Len(q) PROVE SubSeq(q, 1, k) \in Seq(C) /\ SubSeq(q, 1, k) # <<>>
  <2>1. SubSeq(q, 1, k) \in Seq(C) /\ Len(SubSeq(q, 1, k)) = k /\ k # 0
      BY <1>1
  <2>. QED
      BY <2>1
<1>. QED
    BY <1>2, <1>3, Zenon

LEMMA WholeIsCitation ==
    ASSUME NEW sent \in Sendings
    PROVE  Asked(sent) \subseteq Citations(sent)
<1>1. ASSUME NEW q \in Asked(sent) PROVE q \in Citations(sent)
  <2>1. q \in Queries
      BY <1>1, AskedAreQueries, Zenon
  <2>2. q \in Seq(Words) /\ q # <<>> /\ Len(q) \in Nat
      BY <2>1, EvaluationConstants
  <2>3. Min({CiteLength, Len(q)}) \in 1..Len(q)
      BY <2>2, FirstPart, HarnessConstants, Zenon
  <2>4. Len(q) \in Min({CiteLength, Len(q)})..Len(q)
      BY <2>2, <2>3
  <2>5. q = SubSeq(q, 1, Len(q))
      BY <2>2
  <2>6. q \in {SubSeq(q, 1, n) : n \in Min({CiteLength, Len(q)})..Len(q)}
      BY <2>4, <2>5, Zenon
  <2>. QED
      BY <2>6, Zenon DEF Citations
<1>. QED
    BY <1>1, Zenon

LEMMA CoveredAt ==
    ASSUME NEW text, NEW parts, NEW p
    PROVE  p \in Covered(text, parts)
             <=> \E part \in parts : \E k \in Begins(part, text) : p \in Block(k, part)
<1>1. \A part : p \in Cites(text, part) <=> \E k \in Begins(part, text) : p \in Block(k, part)
    BY CitesAt, Zenon
<1>2. Covered(text, parts) = UNION {Cites(text, part) : part \in parts}
    BY DEF Covered, Cites
<1>3. p \in UNION {Cites(text, part) : part \in parts} <=> \E part \in parts : p \in Cites(text, part)
    OBVIOUS
<1>. QED
    BY <1>1, <1>2, <1>3, Zenon

\* The answer is grounded exactly if something in it is a citation, of any length
\* from CiteLength on: where a longer one stands, the shortest stands as well.
LEMMA CitedIsGrounded ==
    ASSUME NEW text \in Seq(Words), NEW sent \in Sendings
    PROVE  sent # <<>> /\ cited(text, sent) <=> Covered(text, Citations(sent)) # {}
<1> DEFINE first(q) == SubSeq(q, 1, Min({CiteLength, Len(q)}))
<1>1. \A q : q \in Asked(sent) <=> \E i \in DOMAIN sent : q = sent[i][2]
    BY Zenon DEF Asked
<1>2. ASSUME NEW q \in Asked(sent)
      PROVE  /\ q \in Seq(Words) /\ Len(q) \in Nat
             /\ Min({CiteLength, Len(q)}) \in 1..Len(q)
             /\ first(q) \in Seq(Words) /\ first(q) # <<>>
  <2>1. q \in Queries
      BY <1>2, AskedAreQueries, Zenon
  <2>2. q \in Seq(Words) /\ q # <<>> /\ Len(q) \in Nat
      BY <2>1, EvaluationConstants
  <2>. QED
      BY <2>2, FirstPart, HarnessConstants, Zenon
<1>3. sent # <<>> /\ cited(text, sent) <=> \E q \in Asked(sent) : Begins(first(q), text) # {}
  <2>1. ASSUME NEW q \in Asked(sent) PROVE Occurs(first(q), text) <=> Begins(first(q), text) # {}
    <3>1. first(q) \in Seq(Words) /\ first(q) # <<>>
        BY <1>2, <2>1, Zenon
    <3> HIDE DEF first
    <3>. QED
        BY <3>1, OccursBegins, Zenon
  <2>2. cited(text, sent) <=> \E i \in DOMAIN sent : Occurs(first(sent[i][2]), text)
      BY Zenon DEF cited
  <2>3. sent = <<>> => DOMAIN sent = {}
      OBVIOUS
  <2> HIDE DEF first
  <2>. QED
      BY <1>1, <2>1, <2>2, <2>3, Zenon
<1>4. ASSUME NEW q \in Asked(sent), NEW k \in Begins(first(q), text)
      PROVE  Covered(text, Citations(sent)) # {}
  <2>1. first(q) \in Citations(sent)
    <3>1. Min({CiteLength, Len(q)}) \in 1..Len(q) /\ Len(q) \in Nat
        BY <1>2, <1>4, Zenon
    <3>2. \A m \in 1..Len(q) : m \in m..Len(q)
        BY <3>1
    <3>3. first(q) \in {SubSeq(q, 1, n) : n \in Min({CiteLength, Len(q)})..Len(q)}
        BY <3>1, <3>2, Zenon
    <3> HIDE DEF first
    <3>. QED
        BY <1>4, <3>3, Zenon DEF Citations
  <2>2. k \in Block(k, first(q))
    <3>1. k \in DOMAIN text
        BY <1>4, Zenon DEF Begins
    <3>2. first(q) \in Seq(Words) /\ first(q) # <<>>
        BY <1>2, <1>4, Zenon
    <3> HIDE DEF first
    <3>3. k \in Nat /\ Len(first(q)) \in Nat /\ Len(first(q)) # 0
        BY <3>1, <3>2
    <3>. QED
        BY <3>3 DEF Block
  <2> HIDE DEF first
  <2>3. k \in Covered(text, Citations(sent))
      BY <1>4, <2>1, <2>2, CoveredAt, Zenon
  <2>. QED
      BY <2>3, Zenon
<1>5. ASSUME NEW p \in Covered(text, Citations(sent))
      PROVE  \E q \in Asked(sent) : Begins(first(q), text) # {}
  <2>1. PICK part \in Citations(sent) : \E k \in Begins(part, text) : p \in Block(k, part)
      BY <1>5, CoveredAt, Zenon
  <2>2. PICK k \in Begins(part, text) : p \in Block(k, part)
      BY <2>1, Zenon
  <2>3. PICK q \in Asked(sent) :
            part \in {SubSeq(q, 1, n) : n \in Min({CiteLength, Len(q)})..Len(q)}
      BY <2>1, Zenon DEF Citations
  <2>4. PICK n \in Min({CiteLength, Len(q)})..Len(q) : part = SubSeq(q, 1, n)
      BY <2>3, Zenon
  <2>5. PICK m : m = Min({CiteLength, Len(q)})
      OBVIOUS
  <2>6. /\ q \in Seq(Words) /\ Len(q) \in Nat /\ m \in 1..Len(q) /\ n \in m..Len(q)
        /\ n \in 1..Len(q)
    <3>1. q \in Seq(Words) /\ Len(q) \in Nat /\ m \in 1..Len(q) /\ n \in m..Len(q)
        BY <1>2, <2>3, <2>4, <2>5, Zenon
    <3>. QED
        BY <3>1
  <2>7. /\ SubSeq(q, 1, m) \in Seq(Words) /\ Len(SubSeq(q, 1, m)) = m
        /\ \A j \in 1..m : SubSeq(q, 1, m)[j] = q[j]
        /\ part \in Seq(Words) /\ Len(part) = n
        /\ \A j \in 1..n : part[j] = q[j]
      BY <2>4, <2>6
  <2>8. k \in Nat
    <3>1. k \in DOMAIN text
        BY <2>2, Zenon DEF Begins
    <3>. QED
        BY <3>1
  <2>9. /\ k \in 1..Len(text) /\ k + n - 1 <= Len(text)
        /\ \A j \in 1..n : q[j] = text[k + j - 1]
    <3>1. part # <<>>
        BY <2>6, <2>7
    <3>2. /\ k \in 1..Len(text) /\ k + Len(part) - 1 <= Len(text)
          /\ \A j \in 1..Len(part) : part[j] = text[k + j - 1]
      <4>1. part \in Seq(Words) /\ k \in Begins(part, text)
          BY <2>2, <2>7, Zenon
      <4>2. k \in Begins(part, text)
              <=> /\ k \in 1..Len(text) /\ k + Len(part) - 1 <= Len(text)
                  /\ \A j \in 1..Len(part) : part[j] = text[k + j - 1]
          BY <2>8, <3>1, <4>1, BeginsAt
      <4>. QED
          BY <4>1, <4>2, Zenon
    <3>. QED
        BY <2>7, <3>2, Zenon
  <2>10. PICK head : head = SubSeq(q, 1, m)
      OBVIOUS
  <2>11. head \in Seq(Words) /\ Len(head) = m /\ \A j \in 1..m : head[j] = q[j]
      BY <2>7, <2>10, Zenon
  <2>12. k \in Begins(head, text)
    <3>1. head # <<>>
        BY <2>6, <2>11
    <3>2. k + m - 1 <= Len(text) /\ 1..m \subseteq 1..n
        BY <2>6, <2>8, <2>9
    <3>3. \A j \in 1..m : head[j] = text[k + j - 1]
        BY <2>9, <2>11, <3>2, Zenon
    <3>4. k + Len(head) - 1 <= Len(text)
        BY <2>11, <3>2, Zenon
    <3>5. \A j \in 1..Len(head) : head[j] = text[k + j - 1]
        BY <2>11, <3>3, Zenon
    <3>6. head \in Seq(Words)
        BY <2>11, Zenon
    <3>7. k \in Begins(head, text)
            <=> /\ k \in 1..Len(text) /\ k + Len(head) - 1 <= Len(text)
                /\ \A j \in 1..Len(head) : head[j] = text[k + j - 1]
        BY <2>8, <3>1, <3>6, BeginsAt
    <3>. QED
        BY <2>9, <3>4, <3>5, <3>7, Zenon
  <2>. QED
      BY <2>5, <2>10, <2>12, Zenon
<1> HIDE DEF first
<1>. QED
    BY <1>3, <1>4, <1>5, Zenon

\* A group that stands outside of every citation is found in the prose; with every
\* citation clear, nothing else is.
LEMMA GroupIsFound ==
    ASSUME NEW text \in Seq(Words), NEW sent \in Sendings, NEW g \in Seq(Words), g # <<>>
    PROVE  LET outside == \E k \in Begins(g, text) :
                              Block(k, g) \cap Covered(text, Citations(sent)) = {}
           IN  /\ outside => Occurs(g, prose(text, sent))
               /\ ClearlyCited(text, sent) /\ Occurs(g, prose(text, sent)) => outside
<1>1. PICK places \in SUBSET Covered(text, Asked(sent)) :
          /\ prose(text, sent) = Masked(text, places)
          /\ Apart(text, sent) => places = Covered(text, Asked(sent))
    BY ProseIsMasked, Zenon
<1>2. Occurs(g, prose(text, sent))
        <=> \E k \in Begins(g, text) : Block(k, g) \cap places = {}
  <2>1. Masked(text, places) \in Seq(Marked) /\ g \in Seq(Marked)
    <3>1. Masked(text, places) \in Seq(Marked)
        BY BeginsMasked, Zenon
    <3>. QED
        BY <3>1 DEF Marked
  <2>2. Occurs(g, prose(text, sent)) <=> Begins(g, Masked(text, places)) # {}
      BY <1>1, <2>1, OccursBegins
  <2>3. ASSUME NEW k
        PROVE  k \in Begins(g, Masked(text, places))
                 <=> k \in Begins(g, text) /\ Block(k, g) \cap places = {}
      BY BeginsMasked, Zenon
  <2>. QED
      BY <2>2, <2>3, Zenon
<1>3. places \subseteq Covered(text, Citations(sent))
    BY <1>1, WholeIsCitation, CoveredAt, Zenon
<1>4. ClearlyCited(text, sent) => places = Covered(text, Citations(sent))
    BY <1>1, Zenon DEF ClearlyCited, Apart
<1>. QED
    BY <1>2, <1>3, <1>4, Zenon

\* A score is FALSE for nothing but what the answer fails, and for all of it if its
\* citations are clear.
LEMMA ScoresTellFlaws ==
    ASSUME NEW case \in Cases, NEW text \in Texts, NEW sent \in Sendings, NEW d \in Dimension
    PROVE  /\ Failed(score_case(case, text, sent), d) => d \in Flaws(case, text, sent)
           /\ d \in Flaws(case, text, sent) /\ (d = "completeness" => ClearlyCited(text, sent))
                => Failed(score_case(case, text, sent), d)
<1>1. text \in Seq(Words) /\ \A g \in case.expected_groups : g \in Seq(Words) /\ g # <<>>
    BY EvaluationConstants
<1> DEFINE r == Hinted(RefusalHints, text) /\ sent = <<>>
           g == sent # <<>> /\ cited(text, sent)
           m == \A x \in case.expected_groups : Occurs(x, prose(text, sent))
           c == case.result_truncated => Hinted(TruncationHints, text)
           unreported == \E x \in case.expected_groups :
                            \A k \in Begins(x, text) :
                                Block(k, x) \cap Covered(text, Citations(sent)) # {}
<1>2. /\ ~r <=> sent # <<>> \/ ~\E i \in DOMAIN text : text[i] \in RefusalHints
      /\ ~c <=> case.result_truncated /\ ~\E i \in DOMAIN text : text[i] \in TruncationHints
    BY DEF Hinted
<1>3. ~g <=> Covered(text, Citations(sent)) = {}
    BY <1>1, CitedIsGrounded, Zenon
<1>4. /\ ~m => unreported
      /\ ClearlyCited(text, sent) /\ unreported => ~m
  <2>1. ASSUME NEW x \in case.expected_groups
        PROVE  /\ ~Occurs(x, prose(text, sent)) =>
                     \A k \in Begins(x, text) :
                         Block(k, x) \cap Covered(text, Citations(sent)) # {}
               /\ ClearlyCited(text, sent) /\ Occurs(x, prose(text, sent)) =>
                     \E k \in Begins(x, text) :
                         Block(k, x) \cap Covered(text, Citations(sent)) = {}
    <3>1. x \in Seq(Words) /\ x # <<>>
        BY <1>1, <2>1, Zenon
    <3>. QED
        BY <1>1, <3>1, GroupIsFound, Zenon
  <2>. QED
      BY <2>1, Zenon
<1>5. score_case(case, text, sent) =
         IF case.expect_refusal
         THEN [refusal |-> r, grounding |-> TRUE, completeness |-> TRUE, calibration |-> TRUE]
         ELSE [grounding |-> g, completeness |-> m, calibration |-> c]
    BY DEF score_case
<1>6. CASE case.expect_refusal
  <2>1. Flaws(case, text, sent) = {x \in {"refusal"} : ~r}
      BY <1>2, <1>6, Zenon DEF Flaws
  <2> HIDE DEF r, g, m, c
  <2>. QED
      BY <1>5, <1>6, <2>1 DEF Failed, Dimension
<1>7. CASE ~case.expect_refusal
  <2>1. Flaws(case, text, sent) =
           {x \in Dimension : \/ x = "grounding" /\ ~g
                              \/ x = "completeness" /\ unreported
                              \/ x = "calibration" /\ ~c}
    <3> HIDE DEF r, g, m, c
    <3>. QED
        BY <1>2, <1>3, <1>7, Zenon DEF Flaws
  <2> HIDE DEF r, g, m, c, unreported
  <2>. QED
      BY <1>4, <1>5, <1>7, <2>1 DEF Failed, Dimension
<1>. QED
    BY <1>6, <1>7

\* A rate is full exactly if every report with a score of the dimension passed.
LEMMA FullRate ==
    ASSUME NEW n \in Nat, NEW k \in Nat, n # 0, k <= n
    PROVE  (100 * k) \div n = 100 <=> k = n
    OBVIOUS

LEMMA RatesOfReports ==
    ASSUME NEW rs \in Seq(Scores), NEW d \in Dimension,
           \E i \in DOMAIN rs : d \in DOMAIN rs[i]
    PROVE  rates(rs)[d] = 100 <=> ~\E i \in DOMAIN rs : Failed(rs[i], d)
<1> DEFINE relevant == {i \in DOMAIN rs : d \in DOMAIN rs[i]}
           passed == {i \in relevant : rs[i][d]}
<1>1. IsFiniteSet(relevant) /\ relevant # {} /\ passed \subseteq relevant
  <2>1. DOMAIN rs = 1..Len(rs) /\ Len(rs) \in Nat
      OBVIOUS
  <2>2. IsFiniteSet(1..Len(rs)) /\ relevant \subseteq 1..Len(rs)
      BY <2>1, FS_Interval
  <2>. QED
      BY <2>2, FS_Subset
<1>2. passed = relevant <=> ~\E i \in DOMAIN rs : Failed(rs[i], d)
    BY DEF Failed
<1>3. rates(rs)[d] = (100 * Cardinality(passed)) \div Cardinality(relevant)
    BY <1>1 DEF rates
<1> HIDE DEF relevant, passed
<1>4. /\ Cardinality(relevant) \in Nat /\ Cardinality(passed) \in Nat
      /\ Cardinality(relevant) # 0 /\ Cardinality(passed) <= Cardinality(relevant)
      /\ Cardinality(passed) = Cardinality(relevant) <=> passed = relevant
  <2>1. IsFiniteSet(passed) /\ Cardinality(passed) <= Cardinality(relevant)
      BY <1>1, FS_Subset
  <2>2. Cardinality(passed) = Cardinality(relevant) => passed = relevant
      BY <1>1, FS_Subset
  <2>. QED
      BY <1>1, <2>1, <2>2, FS_CardinalityType, FS_EmptySet
<1>. QED
    BY <1>2, <1>3, <1>4, FullRate

-----------------------------------------------------------------------------
(* The history of flaws.                                                   *)

\* What some report denies is what some answer failed; and the other way round, for
\* completeness as long as every answer was ClearlyCited.
FlawsReported ==
    \A d \in Dimension :
        /\ (\E i \in DOMAIN reports : Failed(reports[i], d)) => d \in flawed
        /\ d \in flawed /\ ~(d = "completeness" /\ unclear) =>
              \E i \in DOMAIN reports : Failed(reports[i], d)

LEMMA FlawsStep ==
    ASSUME GatewayInv, TypeOK, FlawsReported, [Next]_vars
    PROVE  FlawsReported'
<1>1. CASE UNCHANGED <<reports, flawed, unclear>>
    BY <1>1 DEF FlawsReported
<1>2. ASSUME NEW text \in Texts, Answer(text)
      PROVE  FlawsReported'
  <2> PICK sent : sent = SubSeq(calls, before + 1, Len(calls))
      OBVIOUS
  <2> PICK scores : scores = score_case(question[1], text, sent)
      OBVIOUS
  <2>1. question[1] \in Cases
      BY <1>2 DEF TypeOK, Answer
  <2>2. sent \in Sendings
    <3>1. calls \in Seq(Names \X Queries)
        BY DEF TypeOK, GatewayTypeOK
    <3>2. before \in Nat /\ before + 1 \in 1..(Len(calls) + 1)
        BY DEF TypeOK, GatewayTypeOK
    <3>. QED
        BY <3>1, <3>2 DEF Sendings
  <2>3. /\ reports' = Append(reports, scores)
        /\ flawed' = flawed \cup Flaws(question[1], text, sent)
        /\ unclear' = (unclear \/ ~ClearlyCited(text, sent))
      BY <1>2 DEF Answer
  <2>4. reports \in Seq(Scores)
      BY DEF TypeOK
  <2>5. /\ DOMAIN reports' = DOMAIN reports \cup {Len(reports) + 1}
        /\ \A i \in DOMAIN reports : reports'[i] = reports[i]
        /\ reports'[Len(reports) + 1] = scores
      BY <2>3, <2>4
  <2>6. ASSUME NEW d \in Dimension
        PROVE  /\ (\E i \in DOMAIN reports' : Failed(reports'[i], d)) => d \in flawed'
               /\ d \in flawed' /\ ~(d = "completeness" /\ unclear') =>
                     \E i \in DOMAIN reports' : Failed(reports'[i], d)
    <3>1. /\ Failed(scores, d) => d \in Flaws(question[1], text, sent)
          /\ d \in Flaws(question[1], text, sent)
                /\ (d = "completeness" => ClearlyCited(text, sent)) => Failed(scores, d)
        BY <2>1, <2>2, ScoresTellFlaws, Zenon
    <3>2. (\E i \in DOMAIN reports' : Failed(reports'[i], d))
            <=> (\E i \in DOMAIN reports : Failed(reports[i], d)) \/ Failed(scores, d)
        BY <2>5, Zenon
    <3>3. d \in flawed' <=> d \in flawed \/ d \in Flaws(question[1], text, sent)
        BY <2>3
    <3>4. ~(d = "completeness" /\ unclear') =>
              /\ ~(d = "completeness" /\ unclear)
              /\ d = "completeness" => ClearlyCited(text, sent)
        BY <2>3, Zenon
    <3>. QED
        BY <3>1, <3>2, <3>3, <3>4, Zenon DEF FlawsReported
  <2>. QED
      BY <2>6, Zenon DEF FlawsReported
<1>. QED
    BY <1>1, <1>2 DEF Next, evaluation, RegisterTool, Ask, CallTool, HandlerStep, vars

\* The rate of a dimension that no answer failed is full, and a full rate says that
\* none did; of completeness it says so if no citation of the answers was shortened
\* or overlapped another (eval_harness.py:6-24, 117-142, 165-180).
THEOREM RatesAreHonest == Spec => []RatesTellFlaws
<1>1. Init => FlawsReported
    BY DEF Init, FlawsReported
<1>2. GatewayInv /\ TypeOK /\ FlawsReported /\ [Next]_vars => FlawsReported'
    BY FlawsStep
<1>3. TypeOK /\ FlawsReported => RatesTellFlaws
  <2>1. ASSUME TypeOK, FlawsReported, NEW d \in Dimension, Scored(d)
        PROVE  /\ d \notin flawed => rates(reports)[d] = 100
               /\ rates(reports)[d] = 100 => d \notin flawed \/ (d = "completeness" /\ unclear)
    <3>1. rates(reports)[d] = 100 <=> ~\E i \in DOMAIN reports : Failed(reports[i], d)
        BY <2>1, RatesOfReports, Zenon DEF TypeOK, Scored
    <3>. QED
        BY <2>1, <3>1, Zenon DEF FlawsReported
  <2>. QED
      BY <2>1, Zenon DEF RatesTellFlaws
<1>. QED
    BY <1>1, <1>2, <1>3, GatewayAlways, TypeCorrect, PTL DEF Spec
=============================================================================
