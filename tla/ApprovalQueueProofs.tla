------------------------- MODULE ApprovalQueueProofs -------------------------
(* Theorems about ApprovalQueue.                                           *)
EXTENDS ApprovalQueue, FiniteSetTheorems, TLAPS

-----------------------------------------------------------------------------
(* Types.                                                                  *)

\* The rows of a decision are rows of the log.
LEMMA DecisionRowsType ==
    ASSUME NEW id \in Nat, NEW state \in ProposalState, NEW operator \in Operators
    PROVE  /\ DecisionRows(id, state, operator) \in Seq(Entry)
           /\ Len(DecisionRows(id, state, operator)) \in 1..2
<1> DEFINE row(event) == [event |-> event, id |-> id, state |-> state, by |-> operator]
<1>1. row("proposal.irreversible_approved") \in Entry /\ row("proposal.decided") \in Entry
    BY DEF Entry
<1>. QED
    BY <1>1 DEF DecisionRows

\* Changing the state of a proposal, and its decider, leaves a list of
\* proposals of the same length.
LEMMA ProposalUpdate ==
    ASSUME TypeOK, NEW id \in Ids, NEW state \in ProposalState,
           NEW operator \in Operators \cup {Nobody}
    PROVE  /\ [proposals EXCEPT ![id].state = state] \in Seq(Proposal)
           /\ [proposals EXCEPT ![id].state = state, ![id].decided_by = operator]
                \in Seq(Proposal)
<1>1. proposals[id] \in Proposal
    BY DEF TypeOK, Ids
<1>2. /\ [proposals[id] EXCEPT !.state = state] \in Proposal
      /\ [proposals[id] EXCEPT !.state = state, !.decided_by = operator] \in Proposal
    BY <1>1 DEF Proposal
<1>. QED
    BY <1>1, <1>2 DEF TypeOK, Ids

\* Every step keeps the types.
LEMMA TypingStep == TypeOK /\ [Next]_vars => TypeOK'
<1> SUFFICES ASSUME TypeOK, [Next]_vars PROVE TypeOK'
    OBVIOUS
<1>1. ASSUME NEW action \in Asked, NEW lag \in 0..Lag, lag <= clock,
             Propose(action, clock - lag)
      PROVE  TypeOK'
  <2> DEFINE moment == clock - lag
  <2>1. moment \in Nat
      BY <1>1, QueueConstants DEF TypeOK
  <2>2. CASE Accept(action, moment)
    <3>1. [action |-> action, proposed_at |-> moment, state |-> "pending",
           decided_by |-> Nobody] \in Proposal
        BY <1>1, <2>1 DEF Proposal, ProposalState, Propose
    <3>2. Created(Len(proposals) + 1) \in Entry
        BY DEF TypeOK, Created, Entry, ProposalState
    <3>. QED
        BY <1>1, <2>2, <3>1, <3>2 DEF TypeOK, Accept, Propose
  <2>3. CASE Trip(moment)
    <3>1. [event |-> "queue.killed", reason |-> Limit(moment)] \in Entry
        BY DEF Entry, Limit, Reasons
    <3>. QED
        BY <1>1, <2>3, <3>1 DEF TypeOK, Trip, Halt, Propose
  <2>. QED
      BY <1>1, <2>2, <2>3 DEF Propose
<1>2. ASSUME NEW id \in Ids, NEW state \in {"approved", "rejected"},
             NEW operator \in Operators, Decide(id, state, operator)
      PROVE  TypeOK'
  <2>1. id \in Nat /\ state \in ProposalState
      BY DEF Ids, TypeOK, ProposalState
  <2>2. [proposals EXCEPT ![id].state = state, ![id].decided_by = operator] \in Seq(Proposal)
      BY <2>1, ProposalUpdate
  <2>3. audit_log \o DecisionRows(id, state, operator) \in Seq(Entry)
      BY <2>1, DecisionRowsType DEF TypeOK
  <2>. QED
      BY <1>2, <2>2, <2>3 DEF Decide, TypeOK
<1>3. ASSUME NEW id \in Ids, NEW state \in {"executed", "failed"}, Execute(id, state)
      PROVE  TypeOK'
  <2>1. state \in ProposalState
      BY DEF ProposalState
  <2>2. [proposals EXCEPT ![id].state = state] \in Seq(Proposal)
      BY <2>1, ProposalUpdate
  <2>. QED
      BY <1>3, <2>2 DEF Execute, TypeOK
<1>4. ASSUME Kill PROVE TypeOK'
  <2>1. [event |-> "queue.killed", reason |-> "operator"] \in Entry
      BY DEF Entry, Reasons
  <2>. QED
      BY <1>4, <2>1 DEF Kill, Halt, TypeOK
<1>5. ASSUME Tick PROVE TypeOK'
    BY <1>5 DEF Tick, TypeOK
<1>6. ASSUME UNCHANGED vars PROVE TypeOK'
    BY <1>6 DEF vars, TypeOK
<1>. QED
    BY <1>1, <1>2, <1>3, <1>4, <1>5, <1>6 DEF Next

\* The empty queue.
LEMMA TypingInit == Init => TypeOK /\ Ids = {}
<1> SUFFICES ASSUME Init PROVE TypeOK /\ Ids = {}
    OBVIOUS
<1>1. proposals \in Seq(Proposal) /\ audit_log \in Seq(Entry)
  <2>1. << >> \in Seq(Proposal) /\ << >> \in Seq(Entry)
      OBVIOUS
  <2>. QED
      BY <2>1, Zenon DEF Init
<1>2. clock \in Nat
    BY SMT DEF Init
<1>3. killed \in BOOLEAN
    BY Zenon DEF Init
<1>4. Ids = {}
  <2>1. DOMAIN << >> = {}
      OBVIOUS
  <2>. QED
      BY <2>1, Zenon DEF Init, Ids
<1>. QED
    BY <1>1, <1>2, <1>3, <1>4, Zenon DEF TypeOK

\* Every variable keeps its type.
THEOREM TypeCorrect == Spec => []TypeOK
    BY TypingInit, TypingStep, PTL DEF Spec

-----------------------------------------------------------------------------
(* The limits.                                                             *)

\* Sets of places of the history are finite.
LEMMA PlacesFinite ==
    ASSUME TypeOK, NEW S \in SUBSET Ids
    PROVE  IsFiniteSet(S) /\ Cardinality(S) \in Nat
<1>1. Ids = 1..Len(proposals) /\ Len(proposals) \in Nat
    BY DEF TypeOK, Ids
<1>2. IsFiniteSet(Ids)
    BY <1>1, FS_Interval
<1>. QED
    BY <1>2, FS_Subset, FS_CardinalityType

\* A set that adds at most one element to a set of places is one larger at most.
LEMMA OneMore ==
    ASSUME TypeOK, NEW S \in SUBSET Ids, NEW n, NEW T, T \subseteq S \cup {n}
    PROVE  Cardinality(T) \in Nat /\ Cardinality(T) <= Cardinality(S) + 1
<1>1. IsFiniteSet(S) /\ Cardinality(S) \in Nat
    BY PlacesFinite
<1>2. /\ IsFiniteSet(S \cup {n})
      /\ Cardinality(S \cup {n}) \in {Cardinality(S), Cardinality(S) + 1}
    BY <1>1, FS_AddElement
<1>3. Cardinality(T) <= Cardinality(S \cup {n}) /\ IsFiniteSet(T)
    BY <1>2, FS_Subset
<1>4. Cardinality(T) \in Nat
    BY <1>3, FS_CardinalityType
<1>. QED
    BY <1>1, <1>2, <1>3, <1>4

Limits == TypeOK /\ RollingRate /\ PendingBounded

\* Both limits survive every step that leaves the moments of the proposals alone
\* and returns none to pending.
LEMMA LimitsKept ==
    ASSUME Limits, TypeOK',
           Ids' = Ids,
           \A i \in Ids : proposals'[i].proposed_at = proposals[i].proposed_at,
           Pending' \subseteq Pending
    PROVE  Limits'
<1>1. RollingRate'
  <2>1. \A i \in Ids : Within(proposals[i].proposed_at)' = Within(proposals[i].proposed_at)
      BY DEF Within
  <2>. QED
      BY <2>1 DEF Limits, RollingRate
<1>2. PendingBounded'
  <2>1. Pending \in SUBSET Ids
      BY DEF Pending
  <2>2. IsFiniteSet(Pending) /\ Cardinality(Pending) \in Nat
      BY <2>1, PlacesFinite DEF Limits
  <2>3. Cardinality(Pending') <= Cardinality(Pending) /\ IsFiniteSet(Pending')
      BY <2>2, FS_Subset
  <2>4. Cardinality(Pending') \in Nat
      BY <2>3, FS_CardinalityType
  <2>. QED
      BY <2>2, <2>3, <2>4, QueueConstants DEF Limits, PendingBounded
<1>. QED
    BY <1>1, <1>2 DEF Limits

\* Taking a proposal keeps both.
LEMMA LimitsAccept ==
    ASSUME Limits, TypeOK', NEW action, NEW moment \in Nat, Accept(action, moment)
    PROVE  Limits'
<1> DEFINE n == Len(proposals) + 1
<1>1. /\ Ids = 1..Len(proposals) /\ Ids' = 1..n /\ n \in Nat
      /\ proposals'[n].proposed_at = moment
      /\ \A i \in Ids : proposals'[i] = proposals[i] /\ i \in Ids' /\ i # n
      /\ \A i \in Ids : proposals[i].proposed_at \in Nat
  <2>1. \A i \in Ids : proposals[i] \in Proposal
      BY DEF Limits, TypeOK, Ids
  <2>. QED
      BY <2>1 DEF Limits, TypeOK, Ids, Accept, Proposal
<1>2. /\ Recent(moment) \in SUBSET Ids
      /\ Cardinality(Recent(moment)) \in Nat /\ Cardinality(Recent(moment)) < max_per_hour
  <2>1. Recent(moment) \in SUBSET Ids
      BY DEF Recent
  <2>2. Cardinality(Recent(moment)) \in Nat
      BY <2>1, PlacesFinite DEF Limits
  <2>. QED
      BY <2>1, <2>2, QueueConstants DEF Accept, RateReached
<1>3. ASSUME NEW i \in Ids' PROVE Cardinality(Within(proposals[i].proposed_at)') <= max_per_hour
  <2> DEFINE x == proposals'[i].proposed_at
             W == Within(proposals[i].proposed_at)'
  <2>1. W = {j \in Ids' : x - Hour < proposals'[j].proposed_at /\ proposals'[j].proposed_at <= x}
      BY DEF Within
  <2>2. CASE n \in W
    <3>1. x \in Nat
        BY <1>1, <1>3
    <3>2. x - Hour < moment /\ moment <= x
        BY <2>2, <2>1, <1>1
    <3>3. W \subseteq Recent(moment) \cup {n}
      <4> SUFFICES ASSUME NEW j \in W, j # n PROVE j \in Recent(moment)
          OBVIOUS
      <4>1. j \in Ids /\ proposals'[j] = proposals[j]
          BY <2>1, <1>1
      <4>2. x - Hour < proposals[j].proposed_at
          BY <2>1, <4>1
      <4>. QED
          BY <4>1, <4>2, <3>1, <3>2, <1>1, QueueConstants DEF Recent
    <3>4. Cardinality(W) \in Nat /\ Cardinality(W) <= Cardinality(Recent(moment)) + 1
        BY <3>3, <1>2, OneMore DEF Limits
    <3>. QED
        BY <3>4, <1>2, QueueConstants
  <2>3. CASE n \notin W
    <3>1. i # n
        BY <2>3, <2>1, <1>1, QueueConstants
    <3>2. i \in Ids
        BY <3>1, <1>1, <1>3
    <3>3. W = Within(proposals[i].proposed_at)
        BY <3>2, <2>3, <2>1, <1>1 DEF Within
    <3>. QED
        BY <3>2, <3>3 DEF Limits, RollingRate
  <2>. QED
      BY <2>2, <2>3
<1>4. RollingRate'
    BY <1>3 DEF RollingRate
<1>5. PendingBounded'
  <2>1. Pending \in SUBSET Ids
      BY DEF Pending
  <2>2. Cardinality(Pending) \in Nat /\ Cardinality(Pending) < max_pending
      BY <2>1, PlacesFinite, QueueConstants DEF Limits, Accept, BacklogFull
  <2>3. Pending' \subseteq Pending \cup {n}
      BY <1>1 DEF Pending
  <2>4. Cardinality(Pending') \in Nat /\ Cardinality(Pending') <= Cardinality(Pending) + 1
      BY <2>1, <2>3, OneMore DEF Limits
  <2>. QED
      BY <2>2, <2>4, QueueConstants DEF PendingBounded
<1>. QED
    BY <1>1, <1>4, <1>5 DEF Limits

\* How a change of state leaves the rest of the history.
LEMMA StateChange ==
    ASSUME TypeOK, NEW id \in Ids, NEW state, NEW operator,
           \/ proposals' = [proposals EXCEPT ![id].state = state]
           \/ proposals' = [proposals EXCEPT ![id].state = state, ![id].decided_by = operator]
    PROVE  /\ Ids' = Ids
           /\ proposals'[id].state = state
           /\ \A i \in Ids : /\ proposals'[i].proposed_at = proposals[i].proposed_at
                             /\ proposals'[i].action = proposals[i].action
                             /\ i # id => proposals'[i] = proposals[i]
<1>1. \A i \in Ids : proposals[i] \in Proposal
    BY DEF TypeOK, Ids
<1>2. proposals[id] \in Proposal
    BY <1>1
<1>3. /\ [proposals[id] EXCEPT !.state = state].proposed_at = proposals[id].proposed_at
      /\ [proposals[id] EXCEPT !.state = state].action = proposals[id].action
      /\ [proposals[id] EXCEPT !.state = state].state = state
    BY <1>2 DEF Proposal
<1>4. /\ [proposals[id] EXCEPT !.state = state, !.decided_by = operator].proposed_at
           = proposals[id].proposed_at
      /\ [proposals[id] EXCEPT !.state = state, !.decided_by = operator].action
           = proposals[id].action
      /\ [proposals[id] EXCEPT !.state = state, !.decided_by = operator].state = state
    BY <1>2 DEF Proposal
<1>. QED
    BY <1>3, <1>4 DEF TypeOK, Ids

\* The same of a decision.
LEMMA DecisionChange ==
    ASSUME TypeOK, NEW id \in Ids, NEW state, NEW operator, Decide(id, state, operator)
    PROVE  /\ Ids' = Ids
           /\ proposals'[id].state = state
           /\ \A i \in Ids : /\ proposals'[i].proposed_at = proposals[i].proposed_at
                             /\ proposals'[i].action = proposals[i].action
                             /\ i # id => proposals'[i] = proposals[i]
<1>1. proposals' = [proposals EXCEPT ![id].state = state, ![id].decided_by = operator]
    BY DEF Decide
<1>. QED
    BY <1>1, StateChange, Zenon

LEMMA LimitsStep == Limits /\ [Next]_vars => Limits'
<1> SUFFICES ASSUME Limits, [Next]_vars PROVE Limits'
    OBVIOUS
<1>1. TypeOK'
    BY TypingStep DEF Limits
<1>2. ASSUME NEW action \in Asked, NEW lag \in 0..Lag, lag <= clock,
             Propose(action, clock - lag)
      PROVE  Limits'
  <2>1. clock - lag \in Nat
      BY <1>2, QueueConstants DEF Limits, TypeOK
  <2>2. CASE Accept(action, clock - lag)
      BY <2>1, <2>2, <1>1, LimitsAccept
  <2>3. CASE Trip(clock - lag)
      BY <2>3, <1>1, LimitsKept DEF Trip, Ids, Pending
  <2>. QED
      BY <1>2, <2>2, <2>3 DEF Propose
<1>3. ASSUME NEW id \in Ids, NEW state \in {"approved", "rejected"},
             NEW operator \in Operators, Decide(id, state, operator)
      PROVE  Limits'
  <2>1. /\ Ids' = Ids /\ proposals'[id].state = state
        /\ \A i \in Ids : proposals'[i].proposed_at = proposals[i].proposed_at
        /\ \A i \in Ids : i # id => proposals'[i] = proposals[i]
      BY <1>3, DecisionChange, Zenon DEF Limits
  <2>2. Pending' \subseteq Pending
      BY <2>1 DEF Pending
  <2>. QED
      BY <2>1, <2>2, <1>1, LimitsKept
<1>4. ASSUME NEW id \in Ids, NEW state \in {"executed", "failed"}, Execute(id, state)
      PROVE  Limits'
  <2>1. /\ Ids' = Ids /\ proposals'[id].state = state
        /\ \A i \in Ids : proposals'[i].proposed_at = proposals[i].proposed_at
        /\ \A i \in Ids : i # id => proposals'[i] = proposals[i]
      BY <1>4, StateChange DEF Execute, Limits
  <2>2. Pending' \subseteq Pending
      BY <2>1 DEF Pending
  <2>. QED
      BY <2>1, <2>2, <1>1, LimitsKept
<1>5. ASSUME UNCHANGED proposals PROVE Limits'
    BY <1>5, <1>1, LimitsKept DEF Ids, Pending
<1>. QED
    BY <1>2, <1>3, <1>4, <1>5 DEF Next, Kill, Tick, vars

LEMMA LimitsAlways == Spec => []Limits
<1>1. Init => Limits
  <2> SUFFICES ASSUME Init PROVE Limits
      OBVIOUS
  <2>1. TypeOK /\ Ids = {}
      BY TypingInit
  <2>2. Pending = {}
      BY <2>1 DEF Pending
  <2>. QED
      BY <2>1, <2>2, FS_EmptySet, QueueConstants DEF Limits, RollingRate, PendingBounded
<1>. QED
    BY <1>1, LimitsStep, PTL DEF Spec

\* No hour holds more than max_per_hour proposals, for any clock, lag and order of
\* the moments.
THEOREM HourlyRateHolds == Spec => []RollingRate
<1>1. Limits => RollingRate
    BY DEF Limits
<1>. QED
    BY <1>1, LimitsAlways, PTL

\* Never more than max_pending proposals await review.
THEOREM BacklogIsBounded == Spec => []PendingBounded
<1>1. Limits => PendingBounded
    BY DEF Limits
<1>. QED
    BY <1>1, LimitsAlways, PTL

-----------------------------------------------------------------------------
(* Decisions.                                                              *)

\* A decision is neither reversed nor taken over, and nothing is carried out
\* without one.
THEOREM DecisionsAreFinal == Spec => DecisionsStand
<1>1. ASSUME TypeOK, [Next]_vars PROVE [DecisionsKept]_vars
  <2>1. ASSUME UNCHANGED proposals PROVE DecisionsKept
      BY <2>1 DEF DecisionsKept, Ids
  <2>2. ASSUME NEW action, NEW moment, Accept(action, moment) PROVE DecisionsKept
      BY <1>1, <2>2 DEF Accept, DecisionsKept, Ids, TypeOK
  <2>3. ASSUME NEW id \in Ids, NEW state \in {"approved", "rejected"},
               NEW operator \in Operators, Decide(id, state, operator)
        PROVE  DecisionsKept
    <3>1. /\ Ids' = Ids /\ proposals'[id].state = state
          /\ \A i \in Ids : i # id => proposals'[i] = proposals[i]
        BY <1>1, <2>3, DecisionChange, Zenon
    <3>. QED
        BY <2>3, <3>1 DEF Decide, DecisionsKept, Ids
  <2>4. ASSUME NEW id \in Ids, NEW state \in {"executed", "failed"}, Execute(id, state)
        PROVE  DecisionsKept
    <3>1. /\ Ids' = Ids /\ proposals'[id].state = state
          /\ \A i \in Ids : i # id => proposals'[i] = proposals[i]
        BY <1>1, <2>4, StateChange DEF Execute
    <3>2. proposals'[id].decided_by = proposals[id].decided_by
      <4>1. proposals[id] \in Proposal
          BY <1>1 DEF TypeOK, Ids
      <4>2. [proposals[id] EXCEPT !.state = state].decided_by = proposals[id].decided_by
          BY <4>1 DEF Proposal
      <4>. QED
          BY <1>1, <2>4, <4>2 DEF Execute, TypeOK, Ids
    <3>. QED
        BY <2>4, <3>1, <3>2 DEF Execute, Approved, DecisionsKept, Ids
  <2>. QED
      BY <1>1, <2>1, <2>2, <2>3, <2>4 DEF Next, Propose, Trip, Kill, Tick, vars
<1>. QED
    BY <1>1, TypeCorrect, PTL DEF Spec, DecisionsStand

-----------------------------------------------------------------------------
(* The log.                                                                *)

About == {"proposal.created", "proposal.decided", "proposal.irreversible_approved"}

\* The log speaks of proposals in the history only.
RowsKnown ==
    \A k \in DOMAIN audit_log : audit_log[k].event \in About => audit_log[k].id \in Ids

\* What the log has of a proposal that awaits its decision.
PendingUnmarked ==
    \A i \in Ids : proposals[i].state = "pending" =>
        RowsOf("proposal.irreversible_approved", i) = {}

AuditInv == TypeOK /\ RowsKnown /\ PendingUnmarked /\ AuditReconstructs

\* Appending to the log keeps its rows where they are.
LEMMA LogGrows ==
    ASSUME TypeOK, NEW rows \in Seq(Entry), audit_log' = audit_log \o rows
    PROVE  /\ Len(audit_log) \in Nat /\ Len(rows) \in Nat
           /\ DOMAIN audit_log = 1..Len(audit_log)
           /\ DOMAIN audit_log' = 1..(Len(audit_log) + Len(rows))
           /\ \A k \in DOMAIN audit_log : audit_log'[k] = audit_log[k]
           /\ \A j \in 1..Len(rows) : audit_log'[Len(audit_log) + j] = rows[j]
           /\ \A k \in DOMAIN audit_log' :
                 k \in DOMAIN audit_log \/ \E j \in 1..Len(rows) : k = Len(audit_log) + j
<1>1. audit_log \in Seq(Entry)
    BY DEF TypeOK
<1>2. Len(audit_log) \in Nat /\ Len(rows) \in Nat /\ DOMAIN audit_log = 1..Len(audit_log)
    BY <1>1
<1>3. /\ DOMAIN audit_log' = 1..(Len(audit_log) + Len(rows))
      /\ \A k \in DOMAIN audit_log : audit_log'[k] = audit_log[k]
      /\ \A j \in 1..Len(rows) : audit_log'[Len(audit_log) + j] = rows[j]
    BY <1>1, <1>2
<1>4. ASSUME NEW k \in DOMAIN audit_log', k \notin DOMAIN audit_log
      PROVE  \E j \in 1..Len(rows) : k = Len(audit_log) + j
  <2>1. k - Len(audit_log) \in 1..Len(rows) /\ k = Len(audit_log) + (k - Len(audit_log))
      BY <1>2, <1>3, <1>4
  <2>. QED
      BY <2>1
<1>. QED
    BY <1>2, <1>3, <1>4

\* Rows that do not speak of a proposal leave what the log tells of it.
LEMMA TellsKept ==
    ASSUME TypeOK, NEW rows \in Seq(Entry), audit_log' = audit_log \o rows,
           NEW i \in Ids, AuditTells(i),
           \A j \in 1..Len(rows) : rows[j].event \in About => rows[j].id # i,
           proposals'[i].state = "pending" <=> proposals[i].state = "pending",
           proposals'[i].state = "rejected" <=> proposals[i].state = "rejected",
           proposals'[i].decided_by = proposals[i].decided_by,
           proposals'[i].action = proposals[i].action
    PROVE  /\ AuditTells(i)'
           /\ \A event \in About : RowsOf(event, i)' = RowsOf(event, i)
<1>1. ASSUME NEW event \in About PROVE RowsOf(event, i)' = RowsOf(event, i)
  <2>1. \A k \in DOMAIN audit_log : k \in DOMAIN audit_log' /\ audit_log'[k] = audit_log[k]
      BY LogGrows
  <2>2. ASSUME NEW k \in DOMAIN audit_log', audit_log'[k].event = event, audit_log'[k].id = i
        PROVE  k \in DOMAIN audit_log
      BY <2>2, LogGrows
  <2>. QED
      BY <2>1, <2>2 DEF RowsOf
<1>2. /\ RowsOf("proposal.created", i)' = RowsOf("proposal.created", i)
      /\ RowsOf("proposal.decided", i)' = RowsOf("proposal.decided", i)
      /\ RowsOf("proposal.irreversible_approved", i)' = RowsOf("proposal.irreversible_approved", i)
    BY <1>1 DEF About
<1>3. \A k \in DOMAIN audit_log : k \in DOMAIN audit_log' /\ audit_log'[k] = audit_log[k]
    BY LogGrows
<1>4. AuditTells(i)'
  <2>1. PICK c \in DOMAIN audit_log :
            /\ RowsOf("proposal.created", i) = {c}
            /\ proposals[i].state = "pending" <=> Undecided(i)
            /\ proposals[i].state # "pending" =>
                 \E d \in DOMAIN audit_log :
                    /\ RowsOf("proposal.decided", i) = {d}
                    /\ c < d
                    /\ audit_log[d].by = proposals[i].decided_by
                    /\ audit_log[d].state = "rejected" <=> proposals[i].state = "rejected"
                    /\ RowsOf("proposal.irreversible_approved", i) =
                         IF proposals[i].state # "rejected" /\ proposals[i].action \notin Reversible
                         THEN {d - 1} ELSE {}
      BY DEF AuditTells
  <2>2. c \in DOMAIN audit_log' /\ RowsOf("proposal.created", i)' = {c}
      BY <2>1, <1>2, <1>3
  <2>3. proposals'[i].state = "pending" <=> Undecided(i)'
      BY <2>1, <1>2 DEF Undecided
  <2>4. ASSUME proposals'[i].state # "pending"
        PROVE  \E d \in DOMAIN audit_log' :
                  /\ RowsOf("proposal.decided", i)' = {d}
                  /\ c < d
                  /\ audit_log'[d].by = proposals'[i].decided_by
                  /\ audit_log'[d].state = "rejected" <=> proposals'[i].state = "rejected"
                  /\ RowsOf("proposal.irreversible_approved", i)' =
                       IF proposals'[i].state # "rejected" /\ proposals'[i].action \notin Reversible
                       THEN {d - 1} ELSE {}
      BY <2>4, <2>1, <1>2, <1>3
  <2>. QED
      BY <2>2, <2>3, <2>4 DEF AuditTells
<1>. QED
    BY <1>1, <1>4

\* The log is left alone.
NoRows ==
    /\ << >> \in Seq(Entry)
    /\ \A j \in 1..Len(<< >>) : <<>>[j].event \notin About
    /\ audit_log' = audit_log \o << >>

LEMMA NothingAppended ==
    ASSUME TypeOK, audit_log' = audit_log
    PROVE  NoRows
<1>1. audit_log \in Seq(Entry)
    BY DEF TypeOK
<1>. QED
    BY <1>1 DEF NoRows

\* Steps that speak of no proposal and change none but approved to carried out.
LEMMA AuditQuiet ==
    ASSUME AuditInv, TypeOK', NEW rows \in Seq(Entry), audit_log' = audit_log \o rows,
           \A j \in 1..Len(rows) : rows[j].event \notin About,
           Ids' = Ids,
           \A i \in Ids :
              /\ proposals'[i].state = "pending" <=> proposals[i].state = "pending"
              /\ proposals'[i].state = "rejected" <=> proposals[i].state = "rejected"
              /\ proposals'[i].decided_by = proposals[i].decided_by
              /\ proposals'[i].action = proposals[i].action
    PROVE  AuditInv'
<1>1. RowsKnown'
    BY LogGrows DEF AuditInv, RowsKnown
<1>2. ASSUME NEW i \in Ids
      PROVE  AuditTells(i)' /\ \A event \in About : RowsOf(event, i)' = RowsOf(event, i)
    BY TellsKept DEF AuditInv, AuditReconstructs
<1>3. PendingUnmarked'
    BY <1>2 DEF AuditInv, PendingUnmarked, About
<1>4. AuditReconstructs'
    BY <1>2 DEF AuditReconstructs
<1>. QED
    BY <1>1, <1>3, <1>4 DEF AuditInv

\* A new proposal has its creation in the log and nothing else.
LEMMA AuditAccept ==
    ASSUME AuditInv, TypeOK', NEW action, NEW moment, Accept(action, moment)
    PROVE  AuditInv'
<1> PICK n : n = Len(proposals) + 1
    OBVIOUS
<1> PICK last : last = Len(audit_log) + 1
    OBVIOUS
<1> PICK rows : rows = <<Created(n)>>
    OBVIOUS
<1>1. /\ TypeOK /\ Len(proposals) \in Nat /\ n \in Nat /\ n \notin Ids
      /\ Ids' = Ids \cup {n}
      /\ \A i \in Ids : proposals'[i] = proposals[i]
      /\ proposals'[n].state = "pending"
    BY DEF AuditInv, TypeOK, Ids, Accept
<1>2. /\ Created(n) \in Entry /\ Created(n).event = "proposal.created" /\ Created(n).id = n
    BY <1>1 DEF Created, Entry, ProposalState
<1>3. rows \in Seq(Entry) /\ Len(rows) = 1 /\ rows[1] = Created(n)
    BY <1>2
<1>4. audit_log' = audit_log \o rows
  <2>1. audit_log' = Append(audit_log, Created(n))
      BY DEF Accept
  <2>2. audit_log \in Seq(Entry)
      BY <1>1 DEF TypeOK
  <2>. QED
      BY <2>1, <2>2, <1>2
<1>5. /\ DOMAIN audit_log' = DOMAIN audit_log \cup {last}
      /\ last \notin DOMAIN audit_log
      /\ \A k \in DOMAIN audit_log : audit_log'[k] = audit_log[k]
      /\ audit_log'[last] = Created(n)
    BY <1>1, <1>3, <1>4, LogGrows
<1>6. RowsKnown'
    BY <1>1, <1>2, <1>5 DEF AuditInv, RowsKnown
<1>7. ASSUME NEW i \in Ids
      PROVE  AuditTells(i)' /\ \A event \in About : RowsOf(event, i)' = RowsOf(event, i)
  <2>1. rows \in Seq(Entry) /\ \A j \in 1..Len(rows) : rows[j].id # i
      BY <1>1, <1>2, <1>3
  <2>2. AuditTells(i) /\ proposals'[i] = proposals[i]
      BY <1>1 DEF AuditInv, AuditReconstructs
  <2>. QED
      BY <1>1, <1>4, <2>1, <2>2, TellsKept
<1>8. /\ RowsOf("proposal.created", n)' = {last}
      /\ RowsOf("proposal.decided", n)' = {}
      /\ RowsOf("proposal.irreversible_approved", n)' = {}
    BY <1>1, <1>2, <1>5 DEF AuditInv, RowsKnown, RowsOf, About
<1>9. AuditTells(n)'
    BY <1>1, <1>5, <1>8 DEF AuditTells, Undecided
<1>10. PendingUnmarked'
    BY <1>1, <1>7, <1>8 DEF AuditInv, PendingUnmarked, About
<1>11. AuditReconstructs'
    BY <1>1, <1>7, <1>9 DEF AuditReconstructs
<1>. QED
    BY <1>6, <1>10, <1>11 DEF AuditInv

\* A decision adds its rows at the end, and they are the only ones of its proposal.
LEMMA AuditDecide ==
    ASSUME AuditInv, TypeOK', NEW id \in Ids, NEW state \in {"approved", "rejected"},
           NEW operator \in Operators, Decide(id, state, operator)
    PROVE  AuditInv'
<1> DEFINE marked == state = "approved" /\ proposals[id].action \notin Reversible
<1> PICK rows : rows = DecisionRows(id, state, operator)
    OBVIOUS
<1> PICK last : last = Len(audit_log) + Len(rows)
    OBVIOUS
<1>1. TypeOK /\ id \in Nat /\ state \in ProposalState /\ proposals[id].state = "pending"
    BY DEF AuditInv, TypeOK, Ids, ProposalState, Decide
<1>2. /\ rows \in Seq(Entry) /\ Len(rows) = IF marked THEN 2 ELSE 1
      /\ rows[Len(rows)].event = "proposal.decided"
      /\ rows[Len(rows)].state = state /\ rows[Len(rows)].by = operator
      /\ marked => rows[1].event = "proposal.irreversible_approved"
      /\ \A j \in 1..Len(rows) : rows[j].id = id
    BY <1>1, DecisionRowsType DEF DecisionRows
<1>3. audit_log' = audit_log \o rows
    BY DEF Decide
<1>4. /\ Ids' = Ids /\ proposals'[id].state = state
      /\ \A i \in Ids : proposals'[i].action = proposals[i].action
      /\ \A i \in Ids : i # id => proposals'[i] = proposals[i]
    BY <1>1, DecisionChange, Zenon
<1>5. proposals'[id].decided_by = operator
  <2>1. proposals[id] \in Proposal
      BY <1>1 DEF TypeOK, Ids
  <2>2. [proposals[id] EXCEPT !.state = state, !.decided_by = operator].decided_by = operator
      BY <2>1 DEF Proposal
  <2>. QED
      BY <1>1, <2>2 DEF Decide, TypeOK, Ids
<1>6. /\ Len(audit_log) \in Nat /\ Len(rows) \in Nat /\ DOMAIN audit_log = 1..Len(audit_log)
      /\ DOMAIN audit_log' = 1..last /\ last \in Nat
      /\ \A k \in DOMAIN audit_log : audit_log'[k] = audit_log[k]
      /\ \A j \in 1..Len(rows) : audit_log'[Len(audit_log) + j] = rows[j]
      /\ \A k \in DOMAIN audit_log' :
            k \in DOMAIN audit_log \/ \E j \in 1..Len(rows) : k = Len(audit_log) + j
  <2>1. rows \in Seq(Entry)
      BY <1>2
  <2>2. /\ Len(audit_log) \in Nat /\ Len(rows) \in Nat /\ DOMAIN audit_log = 1..Len(audit_log)
        /\ DOMAIN audit_log' = 1..(Len(audit_log) + Len(rows))
        /\ \A k \in DOMAIN audit_log : audit_log'[k] = audit_log[k]
        /\ \A j \in 1..Len(rows) : audit_log'[Len(audit_log) + j] = rows[j]
        /\ \A k \in DOMAIN audit_log' :
              k \in DOMAIN audit_log \/ \E j \in 1..Len(rows) : k = Len(audit_log) + j
      BY <1>1, <1>3, <2>1, LogGrows
  <2>. QED
      BY <2>2
<1>7. /\ audit_log'[last] = rows[Len(rows)]
      /\ last \notin DOMAIN audit_log
      /\ marked => audit_log'[last - 1] = rows[1] /\ last - 1 \in DOMAIN audit_log'
      /\ \A k \in DOMAIN audit_log' :
            k \in DOMAIN audit_log \/ k = last \/ (marked /\ k = last - 1)
  <2>1. /\ Len(rows) \in 1..2
        /\ marked <=> Len(rows) = 2
      BY <1>2
  <2> HIDE DEF marked
  <2>2. /\ audit_log'[last] = rows[Len(rows)]
        /\ last \notin DOMAIN audit_log
    <3>1. /\ Len(audit_log) \in Nat /\ Len(rows) \in Nat
          /\ DOMAIN audit_log = 1..Len(audit_log)
        BY <1>6, Zenon
    <3>2. last \notin DOMAIN audit_log
        BY <2>1, <3>1
    <3>3. Len(rows) \in 1..Len(rows)
        BY <2>1
    <3>4. audit_log'[Len(audit_log) + Len(rows)] = rows[Len(rows)]
        BY <1>6, <3>3, Zenon
    <3>. QED
        BY <3>2, <3>4, Zenon
  <2>3. marked => audit_log'[last - 1] = rows[1] /\ last - 1 \in DOMAIN audit_log'
    <3> SUFFICES ASSUME marked
                 PROVE  audit_log'[last - 1] = rows[1] /\ last - 1 \in DOMAIN audit_log'
        OBVIOUS
    <3>1. Len(rows) = 2
        BY <2>1
    <3>2. last - 1 = Len(audit_log) + 1 /\ last - 1 \in 1..last
        BY <1>6, <3>1
    <3>3. audit_log'[Len(audit_log) + 1] = rows[1]
        BY <3>1, <1>6
    <3>. QED
        BY <3>2, <3>3, <1>6
  <2>4. ASSUME NEW k \in DOMAIN audit_log', k \notin DOMAIN audit_log, k # last
        PROVE  marked /\ k = last - 1
    <3>1. PICK j \in 1..Len(rows) : k = Len(audit_log) + j
        BY <2>4, <1>6
    <3>2. Len(audit_log) \in Nat /\ Len(rows) \in 1..2
        BY <2>1, <1>6
    <3>3. j # Len(rows)
        BY <3>1, <2>4
    <3>4. j = 1 /\ Len(rows) = 2
      <4> DEFINE n == Len(rows)
      <4>1. n \in 1..2 /\ j \in 1..n /\ j # n
          BY <3>2, <3>3
      <4> HIDE DEF n
      <4>2. j = 1 /\ n = 2
          BY <4>1
      <4>. QED
          BY <4>2 DEF n
    <3>. QED
        BY <3>1, <3>4, <2>1
  <2>. QED
      BY <2>2, <2>3, <2>4
<1>8. RowsKnown'
  <2> SUFFICES ASSUME NEW k \in DOMAIN audit_log', audit_log'[k].event \in About
               PROVE  audit_log'[k].id \in Ids
      BY <1>4 DEF RowsKnown
  <2>1. CASE k \in DOMAIN audit_log
    <3>1. audit_log'[k] = audit_log[k]
        BY <2>1, <1>6
    <3>. QED
        BY <2>1, <3>1 DEF AuditInv, RowsKnown
  <2>2. CASE k \notin DOMAIN audit_log
    <3>1. PICK j \in 1..Len(rows) : k = Len(audit_log) + j
        BY <2>2, <1>6
    <3>2. audit_log'[k] = rows[j] /\ rows[j].id = id
        BY <3>1, <1>2, <1>6
    <3>. QED
        BY <3>2
  <2>. QED
      BY <2>1, <2>2
<1>9. ASSUME NEW i \in Ids, i # id
      PROVE  AuditTells(i)' /\ \A event \in About : RowsOf(event, i)' = RowsOf(event, i)
  <2>1. TypeOK /\ rows \in Seq(Entry) /\ AuditTells(i)
      BY <1>1, <1>2, <1>9, Zenon DEF AuditInv, AuditReconstructs
  <2>2. \A j \in 1..Len(rows) : rows[j].event \in About => rows[j].id # i
      BY <1>2, <1>9, Zenon
  <2>3. proposals'[i] = proposals[i]
      BY <1>4, <1>9, Zenon
  <2>. QED
      BY <1>3, <2>1, <2>2, <2>3, TellsKept, Zenon
<1>10. PICK c \in DOMAIN audit_log :
          /\ RowsOf("proposal.created", id) = {c}
          /\ RowsOf("proposal.decided", id) = {}
          /\ RowsOf("proposal.irreversible_approved", id) = {}
    BY <1>1 DEF AuditInv, AuditReconstructs, AuditTells, Undecided, PendingUnmarked
<1>11. RowsOf("proposal.created", id)' = {c}
    BY <1>2, <1>6, <1>7, <1>10 DEF RowsOf
<1>12. RowsOf("proposal.decided", id)' = {last}
  <2>1. last \in DOMAIN audit_log' /\ audit_log'[last].id = id
        /\ audit_log'[last].event = "proposal.decided"
      BY <1>2, <1>6, <1>7
  <2>. QED
      BY <1>2, <1>6, <1>7, <1>10, <2>1 DEF RowsOf
<1>13. RowsOf("proposal.irreversible_approved", id)' = IF marked THEN {last - 1} ELSE {}
  <2> DEFINE irreversible(k) == /\ k \in DOMAIN audit_log'
                                /\ audit_log'[k].event = "proposal.irreversible_approved"
                                /\ audit_log'[k].id = id
  <2>1. ~irreversible(last)
      BY <1>2, <1>7
  <2>2. marked => irreversible(last - 1)
      BY <1>2, <1>7
  <2>3. ASSUME NEW k \in DOMAIN audit_log PROVE ~irreversible(k)
    <3>1. audit_log'[k] = audit_log[k]
        BY <1>6
    <3>. QED
        BY <3>1, <1>10 DEF RowsOf
  <2>4. ASSUME NEW k \in DOMAIN audit_log', irreversible(k)
        PROVE  marked /\ k = last - 1
      BY <1>7, <2>1, <2>3, <2>4
  <2>5. RowsOf("proposal.irreversible_approved", id)' = {k \in DOMAIN audit_log' : irreversible(k)}
      BY DEF RowsOf
  <2> HIDE DEF marked, irreversible
  <2>6. irreversible(last - 1) => last - 1 \in DOMAIN audit_log'
      BY DEF irreversible
  <2>. QED
      BY <2>2, <2>4, <2>5, <2>6
<1>14. AuditTells(id)'
  <2>1. c \in DOMAIN audit_log' /\ last \in DOMAIN audit_log' /\ c < last
      BY <1>2, <1>6
  <2>2. audit_log'[last].by = proposals'[id].decided_by /\ audit_log'[last].state = state
      BY <1>2, <1>5, <1>7
  <2>3. Undecided(id)' = FALSE /\ proposals'[id].state # "pending"
      BY <1>4, <1>12 DEF Undecided
  <2>4. marked <=> (proposals'[id].state # "rejected" /\ proposals'[id].action \notin Reversible)
      BY <1>4
  <2>. QED
      BY <1>4, <1>11, <1>12, <1>13, <2>1, <2>2, <2>3, <2>4 DEF AuditTells
<1>15. PendingUnmarked'
    BY <1>4, <1>9 DEF AuditInv, PendingUnmarked, About
<1>16. AuditReconstructs'
    BY <1>4, <1>9, <1>14 DEF AuditReconstructs
<1>. QED
    BY <1>8, <1>15, <1>16 DEF AuditInv

LEMMA AuditStep == AuditInv /\ [Next]_vars => AuditInv'
<1> SUFFICES ASSUME AuditInv, [Next]_vars PROVE AuditInv'
    OBVIOUS
<1>1. TypeOK /\ TypeOK'
    BY TypingStep DEF AuditInv
<1>2. ASSUME NEW reason \in Reasons, Halt(reason), UNCHANGED proposals PROVE AuditInv'
  <2> PICK entry : entry = [event |-> "queue.killed", reason |-> reason]
      OBVIOUS
  <2> PICK rows : rows = <<entry>>
      OBVIOUS
  <2>1. entry \in Entry /\ entry.event \notin About
      BY DEF Entry, About
  <2>2. rows \in Seq(Entry) /\ \A j \in 1..Len(rows) : rows[j].event \notin About
      BY <2>1
  <2>3. audit_log' = audit_log \o rows
    <3>1. audit_log' = Append(audit_log, entry) /\ audit_log \in Seq(Entry)
        BY <1>1, <1>2 DEF Halt, TypeOK
    <3>. QED
        BY <2>1, <3>1
  <2>. QED
      BY <1>1, <1>2, <2>2, <2>3, AuditQuiet DEF Ids
<1>3. ASSUME NEW id \in Ids, NEW state \in {"executed", "failed"}, Execute(id, state)
      PROVE  AuditInv'
  <2>1. NoRows
      BY <1>1, <1>3, NothingAppended DEF Execute
  <2>2. /\ Ids' = Ids /\ proposals'[id].state = state
        /\ \A i \in Ids : proposals'[i].action = proposals[i].action
        /\ \A i \in Ids : i # id => proposals'[i] = proposals[i]
      BY <1>1, <1>3, StateChange DEF Execute
  <2>3. proposals'[id].decided_by = proposals[id].decided_by
    <3>1. proposals[id] \in Proposal
        BY <1>1 DEF TypeOK, Ids
    <3>2. [proposals[id] EXCEPT !.state = state].decided_by = proposals[id].decided_by
        BY <3>1 DEF Proposal
    <3>. QED
        BY <1>1, <1>3, <3>2 DEF Execute, TypeOK, Ids
  <2>4. proposals[id].state = "approved"
      BY <1>3 DEF Execute, Approved
  <2>. QED
      BY <1>1, <2>1, <2>2, <2>3, <2>4, AuditQuiet DEF NoRows
<1>4. ASSUME UNCHANGED <<proposals, audit_log>> PROVE AuditInv'
  <2>1. NoRows
      BY <1>1, <1>4, NothingAppended
  <2>. QED
      BY <1>1, <1>4, <2>1, AuditQuiet DEF NoRows, Ids
<1>5. ASSUME NEW action \in Asked, NEW moment, Propose(action, moment) PROVE AuditInv'
  <2>1. Limit(moment) \in Reasons
      BY DEF Limit, Reasons
  <2>. QED
      BY <1>1, <1>2, <1>5, <2>1, AuditAccept DEF Propose, Trip
<1>6. "operator" \in Reasons
    BY DEF Reasons
<1>. QED
    BY <1>1, <1>2, <1>3, <1>4, <1>5, <1>6, AuditDecide DEF Next, Kill, Tick, vars

\* Who decided what, and which irreversible action was approved, can be told from
\* the log of every history.
THEOREM LogReconstructs == Spec => []AuditReconstructs
<1>1. Init => AuditInv
  <2> SUFFICES ASSUME Init PROVE AuditInv
      OBVIOUS
  <2>1. DOMAIN audit_log = {}
    <3>1. DOMAIN << >> = {}
        OBVIOUS
    <3>. QED
        BY <3>1, Zenon DEF Init
  <2>. QED
      BY TypingInit, <2>1 DEF AuditInv, RowsKnown, PendingUnmarked, AuditReconstructs
<1>2. AuditInv => AuditReconstructs
    BY DEF AuditInv
<1>. QED
    BY <1>1, <1>2, AuditStep, PTL DEF Spec

-----------------------------------------------------------------------------
(* Halts.                                                                  *)

\* The rows of the log with this event.
EventRows(event) == {j \in DOMAIN audit_log : audit_log[j].event = event}

\* The rows with this event before place k.
Before(k, event) == {j \in 1..(k - 1) : audit_log[j].event = event}

\* An hour, and the lag of the clock, that holds max_per_hour proposals.
InLaggedHour(x) == {i \in Ids : /\ x - Hour < proposals[i].proposed_at
                                /\ proposals[i].proposed_at <= x + Lag}

FullHour == \E x \in 0..clock : Cardinality(InLaggedHour(x)) >= max_per_hour

\* The halt of place k has its reason in the history.
Earned(k) ==
    audit_log[k].event = "queue.killed" =>
        \/ audit_log[k].reason = "operator"
        \/ /\ audit_log[k].reason = "backlog"
           /\ Cardinality(Before(k, "proposal.created"))
                - Cardinality(Before(k, "proposal.decided")) >= max_pending
        \/ audit_log[k].reason = "rate" /\ FullHour

\* The creations of the log less its decisions are the proposals that await one.
BacklogCounted ==
    Cardinality(EventRows("proposal.created"))
      = Cardinality(EventRows("proposal.decided")) + Cardinality(Pending)

\* No proposal is dated after the clock.
DatedByClock == \A i \in Ids : proposals[i].proposed_at <= clock

HaltInv == TypeOK /\ BacklogCounted /\ DatedByClock /\ \A k \in DOMAIN audit_log : Earned(k)

\* The property, in the terms of this section.
LEMMA EarnedByAll == HaltIsEarned <=> \A k \in DOMAIN audit_log : Earned(k)
    BY DEF HaltIsEarned, Earned, Before, FullHour, InLaggedHour

\* Sets of places of the log are finite.
LEMMA RowsFinite ==
    ASSUME TypeOK, NEW event
    PROVE  IsFiniteSet(EventRows(event)) /\ Cardinality(EventRows(event)) \in Nat
<1>1. DOMAIN audit_log = 1..Len(audit_log) /\ Len(audit_log) \in Nat
    BY DEF TypeOK
<1>2. IsFiniteSet(1..Len(audit_log))
    BY <1>1, FS_Interval
<1>3. EventRows(event) \subseteq 1..Len(audit_log)
    BY <1>1 DEF EventRows
<1>. QED
    BY <1>2, <1>3, FS_Subset, FS_CardinalityType

\* Once full, an hour stays so: proposals keep their moments and the clock advances.
LEMMA FullHourKept ==
    ASSUME TypeOK, TypeOK', FullHour, clock <= clock',
           \A i \in Ids : i \in Ids' /\ proposals'[i].proposed_at = proposals[i].proposed_at
    PROVE  FullHour'
<1>1. PICK x \in 0..clock : Cardinality(InLaggedHour(x)) >= max_per_hour
    BY DEF FullHour
<1>2. InLaggedHour(x) \subseteq InLaggedHour(x)'
    BY DEF InLaggedHour
<1>3. IsFiniteSet(InLaggedHour(x)') /\ Cardinality(InLaggedHour(x)') \in Nat
  <2>1. Ids' = 1..Len(proposals') /\ Len(proposals') \in Nat
      BY DEF TypeOK, Ids
  <2>2. IsFiniteSet(Ids')
      BY <2>1, FS_Interval
  <2>3. InLaggedHour(x)' \subseteq Ids'
      BY DEF InLaggedHour
  <2>. QED
      BY <2>2, <2>3, FS_Subset, FS_CardinalityType
<1>4. Cardinality(InLaggedHour(x)) <= Cardinality(InLaggedHour(x)')
    BY <1>2, <1>3, FS_Subset
<1>5. Cardinality(InLaggedHour(x)) \in Nat
  <2>1. InLaggedHour(x) \in SUBSET Ids
      BY DEF InLaggedHour
  <2>. QED
      BY <2>1, PlacesFinite
<1>6. x \in 0..clock'
    BY <1>1 DEF TypeOK
<1>7. Cardinality(InLaggedHour(x)') >= max_per_hour
    BY <1>1, <1>3, <1>4, <1>5, QueueConstants
<1>. QED
    BY <1>6, <1>7 DEF FullHour

\* What the log shows of earlier halts stays as it is when rows are appended.
LEMMA EarnedKept ==
    ASSUME TypeOK, NEW rows \in Seq(Entry), audit_log' = audit_log \o rows,
           FullHour => FullHour',
           NEW k \in DOMAIN audit_log, Earned(k)
    PROVE  Earned(k)'
<1>1. /\ DOMAIN audit_log = 1..Len(audit_log) /\ Len(audit_log) \in Nat
      /\ \A j \in DOMAIN audit_log : audit_log'[j] = audit_log[j]
    BY LogGrows
<1>2. \A event : Before(k, event)' = Before(k, event)
    BY <1>1 DEF Before
<1>. QED
    BY <1>1, <1>2 DEF Earned

\* A step that appends no halt keeps every halt earned.
LEMMA NoHalt ==
    ASSUME TypeOK, TypeOK', NEW rows \in Seq(Entry), audit_log' = audit_log \o rows,
           \A j \in 1..Len(rows) : rows[j].event # "queue.killed",
           clock <= clock',
           \A i \in Ids : i \in Ids' /\ proposals'[i].proposed_at = proposals[i].proposed_at,
           \A k \in DOMAIN audit_log : Earned(k)
    PROVE  \A k \in DOMAIN audit_log' : Earned(k)'
<1> SUFFICES ASSUME NEW k \in DOMAIN audit_log' PROVE Earned(k)'
    OBVIOUS
<1>1. CASE k \in DOMAIN audit_log
    BY <1>1, EarnedKept, FullHourKept
<1>2. CASE k \notin DOMAIN audit_log
  <2>1. PICK j \in 1..Len(rows) : k = Len(audit_log) + j
      BY <1>2, LogGrows
  <2>2. audit_log'[k] = rows[j]
      BY <2>1, LogGrows
  <2>. QED
      BY <2>2 DEF Earned
<1>. QED
    BY <1>1, <1>2

\* A limit that trips shows in the history: the backlog in the rows of the log,
\* the rate in the hour of the moment, which the clock leads by Lag at most.
LEMMA TripEarned ==
    ASSUME HaltInv, TypeOK', NEW lag \in 0..Lag, lag <= clock, Trip(clock - lag),
           UNCHANGED clock
    PROVE  HaltInv'
<1> DEFINE moment == clock - lag
<1> PICK entry : entry = [event |-> "queue.killed", reason |-> Limit(moment)]
    OBVIOUS
<1> PICK rows : rows = <<entry>>
    OBVIOUS
<1> PICK last : last = Len(audit_log) + 1
    OBVIOUS
<1>1. TypeOK /\ moment \in Nat /\ moment \in 0..clock /\ clock <= moment + Lag
    BY QueueConstants DEF HaltInv, TypeOK
<1>2. /\ entry \in Entry /\ entry.event = "queue.killed" /\ entry.reason = Limit(moment)
      /\ rows \in Seq(Entry) /\ Len(rows) = 1 /\ rows[1] = entry
    BY DEF Entry, Limit, Reasons
<1>3. audit_log' = audit_log \o rows /\ proposals' = proposals
  <2>1. audit_log \in Seq(Entry) /\ audit_log' = Append(audit_log, entry)
      BY <1>1 DEF TypeOK, Trip, Halt
  <2>. QED
      BY <2>1, <1>2 DEF Trip
<1>4. /\ DOMAIN audit_log = 1..Len(audit_log) /\ Len(audit_log) \in Nat
      /\ DOMAIN audit_log' = DOMAIN audit_log \cup {last}
      /\ \A j \in DOMAIN audit_log : audit_log'[j] = audit_log[j]
      /\ audit_log'[last] = entry
    BY <1>1, <1>2, <1>3, LogGrows
<1>5. /\ EventRows("proposal.created")' = EventRows("proposal.created")
      /\ EventRows("proposal.decided")' = EventRows("proposal.decided")
    BY <1>2, <1>4 DEF EventRows
<1>6. /\ Before(last, "proposal.created")' = EventRows("proposal.created")
      /\ Before(last, "proposal.decided")' = EventRows("proposal.decided")
    BY <1>4 DEF EventRows, Before
<1>7. FullHour' <=> FullHour
    BY <1>3 DEF FullHour, InLaggedHour, Ids
<1>8. Earned(last)'
  <2>1. CASE BacklogFull
    <3>1. audit_log'[last].reason = "backlog"
        BY <2>1, <1>2, <1>4 DEF Limit
    <3>2. Cardinality(Pending) \in Nat
      <4>1. Pending \in SUBSET Ids
          BY DEF Pending
      <4>. QED
          BY <4>1, <1>1, PlacesFinite
    <3>3. Cardinality(EventRows("proposal.created"))
            - Cardinality(EventRows("proposal.decided")) >= max_pending
        BY <1>1, <2>1, <3>2, RowsFinite, QueueConstants DEF HaltInv, BacklogCounted, BacklogFull
    <3>. QED
        BY <3>1, <3>3, <1>6 DEF Earned
  <2>2. CASE ~BacklogFull
    <3>1. audit_log'[last].reason = "rate"
        BY <2>2, <1>2, <1>4 DEF Limit
    <3>2. Recent(moment) \subseteq InLaggedHour(moment)
      <4> SUFFICES ASSUME NEW i \in Recent(moment) PROVE i \in InLaggedHour(moment)
          OBVIOUS
      <4>1. i \in Ids /\ proposals[i].proposed_at \in Nat
        <5>1. proposals[i] \in Proposal
            BY <1>1 DEF TypeOK, Recent, Ids
        <5>. QED
            BY <5>1 DEF Recent, Proposal
      <4>2. proposals[i].proposed_at <= clock
          BY <4>1 DEF HaltInv, DatedByClock
      <4>3. clock \in Nat
          BY <1>1 DEF TypeOK
      <4>4. /\ moment - Hour < proposals[i].proposed_at
            /\ proposals[i].proposed_at <= moment + Lag
          BY <4>1, <4>2, <4>3, <1>1, QueueConstants DEF Recent
      <4>. QED
          BY <4>1, <4>4 DEF InLaggedHour
    <3>3. InLaggedHour(moment) \in SUBSET Ids /\ Recent(moment) \in SUBSET Ids
        BY DEF InLaggedHour, Recent
    <3>4. /\ IsFiniteSet(InLaggedHour(moment)) /\ Cardinality(InLaggedHour(moment)) \in Nat
          /\ Cardinality(Recent(moment)) \in Nat
        BY <1>1, <3>3, PlacesFinite
    <3>5. Cardinality(Recent(moment)) <= Cardinality(InLaggedHour(moment))
        BY <3>2, <3>4, FS_Subset
    <3>6. Cardinality(Recent(moment)) >= max_per_hour
        BY <2>2 DEF Trip, RateReached
    <3>7. FullHour
        BY <1>1, <3>4, <3>5, <3>6, QueueConstants DEF FullHour
    <3>. QED
        BY <3>1, <3>7, <1>7 DEF Earned
  <2>. QED
      BY <2>1, <2>2
<1>9. ASSUME NEW k \in DOMAIN audit_log PROVE Earned(k)'
    BY <1>1, <1>2, <1>3, <1>7, EarnedKept DEF HaltInv
<1>10. BacklogCounted' /\ DatedByClock'
    BY <1>3, <1>5 DEF HaltInv, BacklogCounted, DatedByClock, Pending, Ids
<1>. QED
    BY <1>4, <1>8, <1>9, <1>10 DEF HaltInv

\* A proposal taken: one creation more, and one proposal more to decide.
LEMMA AcceptCounted ==
    ASSUME HaltInv, TypeOK', NEW action, NEW moment \in Nat, moment <= clock,
           Accept(action, moment), UNCHANGED clock
    PROVE  HaltInv'
<1> PICK n : n = Len(proposals) + 1
    OBVIOUS
<1> PICK rows : rows = <<Created(n)>>
    OBVIOUS
<1> PICK last : last = Len(audit_log) + 1
    OBVIOUS
<1>1. /\ TypeOK /\ n \in Nat /\ n \notin Ids /\ Ids' = Ids \cup {n}
      /\ \A i \in Ids : proposals'[i] = proposals[i]
      /\ proposals'[n].state = "pending" /\ proposals'[n].proposed_at = moment
    BY DEF HaltInv, TypeOK, Ids, Accept
<1>2. /\ Created(n) \in Entry /\ Created(n).event = "proposal.created"
      /\ rows \in Seq(Entry) /\ Len(rows) = 1 /\ rows[1] = Created(n)
    BY <1>1 DEF Created, Entry, ProposalState
<1>3. audit_log' = audit_log \o rows
  <2>1. audit_log \in Seq(Entry) /\ audit_log' = Append(audit_log, Created(n))
      BY <1>1 DEF TypeOK, Accept
  <2>. QED
      BY <2>1, <1>2
<1>4. /\ DOMAIN audit_log' = DOMAIN audit_log \cup {last} /\ last \notin DOMAIN audit_log
      /\ \A j \in DOMAIN audit_log : audit_log'[j] = audit_log[j]
      /\ audit_log'[last] = Created(n)
    BY <1>1, <1>2, <1>3, LogGrows
<1>5. /\ EventRows("proposal.created")' = EventRows("proposal.created") \cup {last}
      /\ last \notin EventRows("proposal.created")
      /\ EventRows("proposal.decided")' = EventRows("proposal.decided")
    BY <1>2, <1>4 DEF EventRows
<1>6. Pending' = Pending \cup {n} /\ n \notin Pending
    BY <1>1 DEF Pending
<1>7. IsFiniteSet(Pending) /\ Cardinality(Pending) \in Nat
  <2>1. Pending \in SUBSET Ids
      BY DEF Pending
  <2>. QED
      BY <2>1, <1>1, PlacesFinite
<1>8. BacklogCounted'
  <2>1. Cardinality(Pending') = Cardinality(Pending) + 1
      BY <1>6, <1>7, FS_AddElement
  <2>2. Cardinality(EventRows("proposal.created")') = Cardinality(EventRows("proposal.created")) + 1
      BY <1>1, <1>5, RowsFinite, FS_AddElement
  <2>. QED
      BY <1>1, <1>5, <1>7, <2>1, <2>2, RowsFinite DEF HaltInv, BacklogCounted
<1>9. DatedByClock'
    BY <1>1 DEF HaltInv, DatedByClock
<1>10. \A k \in DOMAIN audit_log' : Earned(k)'
  <2>1. clock <= clock'
      BY <1>1 DEF TypeOK
  <2>2. \A i \in Ids : i \in Ids' /\ proposals'[i].proposed_at = proposals[i].proposed_at
      BY <1>1
  <2>3. \A j \in 1..Len(rows) : rows[j].event # "queue.killed"
      BY <1>2
  <2>4. rows \in Seq(Entry) /\ \A k \in DOMAIN audit_log : Earned(k)
      BY <1>2 DEF HaltInv
  <2>. QED
      BY <1>1, <1>3, <2>1, <2>2, <2>3, <2>4, NoHalt
<1>. QED
    BY <1>8, <1>9, <1>10 DEF HaltInv

\* A decision: one decision more in the log, and one proposal less to decide.
LEMMA DecideCounted ==
    ASSUME HaltInv, TypeOK', NEW id \in Ids, NEW state \in {"approved", "rejected"},
           NEW operator \in Operators, Decide(id, state, operator)
    PROVE  HaltInv'
<1> PICK rows : rows = DecisionRows(id, state, operator)
    OBVIOUS
<1> PICK last : last = Len(audit_log) + Len(rows)
    OBVIOUS
<1>1. TypeOK /\ id \in Nat /\ state \in ProposalState /\ proposals[id].state = "pending"
    BY DEF HaltInv, TypeOK, Ids, ProposalState, Decide
<1>2. /\ rows \in Seq(Entry) /\ Len(rows) \in 1..2
      /\ \A j \in 1..Len(rows) : /\ rows[j].event \notin {"queue.killed", "proposal.created"}
                                 /\ rows[j].event = "proposal.decided" <=> j = Len(rows)
    BY <1>1, DecisionRowsType DEF DecisionRows
<1>3. audit_log' = audit_log \o rows /\ UNCHANGED clock
    BY DEF Decide
<1>4. /\ Ids' = Ids /\ proposals'[id].state = state
      /\ \A i \in Ids : proposals'[i].proposed_at = proposals[i].proposed_at
      /\ \A i \in Ids : i # id => proposals'[i] = proposals[i]
    BY <1>1, DecisionChange, Zenon
<1>5. /\ Len(audit_log) \in Nat /\ DOMAIN audit_log = 1..Len(audit_log)
      /\ last \in DOMAIN audit_log' /\ last \notin DOMAIN audit_log
      /\ \A k \in DOMAIN audit_log : k \in DOMAIN audit_log' /\ audit_log'[k] = audit_log[k]
      /\ audit_log'[last] = rows[Len(rows)]
    <3>1. /\ Len(audit_log) \in Nat /\ DOMAIN audit_log = 1..Len(audit_log)
          /\ DOMAIN audit_log' = 1..(Len(audit_log) + Len(rows))
          /\ \A k \in DOMAIN audit_log : audit_log'[k] = audit_log[k]
          /\ \A j \in 1..Len(rows) : audit_log'[Len(audit_log) + j] = rows[j]
        BY <1>1, <1>2, <1>3, LogGrows
    <3> DEFINE m == Len(audit_log)
               l == Len(rows)
    <3>2. m \in Nat /\ l \in 1..2 /\ last = m + l /\ DOMAIN audit_log = 1..m
          /\ DOMAIN audit_log' = 1..(m + l)
        BY <1>2, <3>1
    <3> HIDE DEF m, l
    <3>3. /\ last \in DOMAIN audit_log' /\ last \notin DOMAIN audit_log /\ l \in 1..l
          /\ \A k \in DOMAIN audit_log : k \in DOMAIN audit_log'
        BY <3>2
    <3>. QED
        BY <3>1, <3>3 DEF m, l
<1>6. ASSUME NEW k \in DOMAIN audit_log', k \notin DOMAIN audit_log
      PROVE  /\ audit_log'[k].event # "proposal.created"
             /\ audit_log'[k].event = "proposal.decided" <=> k = last
  <2>1. PICK j \in 1..Len(rows) : k = Len(audit_log) + j
      BY <1>1, <1>2, <1>3, <1>6, LogGrows
  <2>2. audit_log'[k] = rows[j]
      BY <1>1, <1>2, <1>3, <2>1, LogGrows
  <2>3. j = Len(rows) <=> k = last
    <3> DEFINE m == Len(audit_log)
               l == Len(rows)
    <3>1. m \in Nat /\ l \in 1..2 /\ j \in 1..l /\ k = m + j /\ last = m + l
        BY <1>2, <1>5, <2>1
    <3> HIDE DEF m, l
    <3>2. j = l <=> k = last
        BY <3>1
    <3>. QED
        BY <3>2 DEF l
  <2>. QED
      BY <2>2, <2>3, <1>2
<1>7. EventRows("proposal.created")' = EventRows("proposal.created")
    BY <1>5, <1>6 DEF EventRows
<1>8. /\ EventRows("proposal.decided")' = EventRows("proposal.decided") \cup {last}
      /\ last \notin EventRows("proposal.decided")
    BY <1>5, <1>6 DEF EventRows
<1>9. Pending' = Pending \ {id} /\ id \in Pending
    BY <1>1, <1>4 DEF Pending
<1>10. BacklogCounted'
  <2>1. IsFiniteSet(Pending) /\ Cardinality(Pending) \in Nat
    <3>1. Pending \in SUBSET Ids
        BY DEF Pending
    <3>. QED
        BY <3>1, <1>1, PlacesFinite
  <2>2. Cardinality(Pending') = Cardinality(Pending) - 1
      BY <1>9, <2>1, FS_RemoveElement
  <2>3. Cardinality(EventRows("proposal.decided")') = Cardinality(EventRows("proposal.decided")) + 1
      BY <1>1, <1>8, RowsFinite, FS_AddElement
  <2>. QED
      BY <1>1, <1>7, <2>1, <2>2, <2>3, RowsFinite DEF HaltInv, BacklogCounted
<1>11. DatedByClock'
    BY <1>3, <1>4 DEF HaltInv, DatedByClock
<1>12. \A k \in DOMAIN audit_log' : Earned(k)'
  <2>1. clock <= clock'
      BY <1>1, <1>3 DEF TypeOK
  <2>2. \A i \in Ids : i \in Ids' /\ proposals'[i].proposed_at = proposals[i].proposed_at
      BY <1>4
  <2>3. \A j \in 1..Len(rows) : rows[j].event # "queue.killed"
      BY <1>2
  <2>4. rows \in Seq(Entry) /\ \A k \in DOMAIN audit_log : Earned(k)
      BY <1>2 DEF HaltInv
  <2>. QED
      BY <1>1, <1>3, <2>1, <2>2, <2>3, <2>4, NoHalt
<1>. QED
    BY <1>10, <1>11, <1>12 DEF HaltInv

\* Steps that leave the log alone, and return no proposal to pending.
LEMMA LogAlone ==
    ASSUME HaltInv, TypeOK', UNCHANGED audit_log, clock <= clock', Ids' = Ids, Pending' = Pending,
           \A i \in Ids : proposals'[i].proposed_at = proposals[i].proposed_at
    PROVE  HaltInv'
<1>1. TypeOK
    BY DEF HaltInv
<1>2. NoRows
    BY <1>1, NothingAppended
<1>3. \A k \in DOMAIN audit_log' : Earned(k)'
  <2> PICK rows : rows = << >>
      OBVIOUS
  <2>1. /\ rows \in Seq(Entry) /\ audit_log' = audit_log \o rows
        /\ \A j \in 1..Len(rows) : rows[j].event # "queue.killed"
      BY <1>2 DEF NoRows
  <2>2. \A i \in Ids : i \in Ids' /\ proposals'[i].proposed_at = proposals[i].proposed_at
      OBVIOUS
  <2>. QED
      BY <1>1, <2>1, <2>2, NoHalt DEF HaltInv
<1>4. BacklogCounted'
    BY DEF HaltInv, BacklogCounted, EventRows
<1>5. DatedByClock'
  <2>1. \A i \in Ids : proposals[i].proposed_at \in Nat
    <3>1. \A i \in Ids : proposals[i] \in Proposal
        BY <1>1 DEF TypeOK, Ids
    <3>. QED
        BY <3>1 DEF Proposal
  <2>. QED
      BY <2>1, <1>1 DEF HaltInv, DatedByClock, TypeOK
<1>. QED
    BY <1>3, <1>4, <1>5 DEF HaltInv

\* A halt by hand needs no reason in the history.
LEMMA KillEarned ==
    ASSUME HaltInv, TypeOK', Kill
    PROVE  HaltInv'
<1> PICK entry : entry = [event |-> "queue.killed", reason |-> "operator"]
    OBVIOUS
<1> PICK rows : rows = <<entry>>
    OBVIOUS
<1> PICK last : last = Len(audit_log) + 1
    OBVIOUS
<1>1. TypeOK /\ audit_log \in Seq(Entry)
    BY DEF HaltInv, TypeOK
<1>2. /\ entry \in Entry /\ entry.event = "queue.killed" /\ entry.reason = "operator"
      /\ rows \in Seq(Entry) /\ Len(rows) = 1 /\ rows[1] = entry
    BY DEF Entry, Reasons
<1>3. audit_log' = audit_log \o rows /\ proposals' = proposals /\ clock' = clock
    BY <1>1, <1>2 DEF Kill, Halt
<1>4. /\ DOMAIN audit_log' = DOMAIN audit_log \cup {last}
      /\ \A j \in DOMAIN audit_log : audit_log'[j] = audit_log[j]
      /\ audit_log'[last] = entry
    BY <1>1, <1>2, <1>3, LogGrows
<1>5. /\ EventRows("proposal.created")' = EventRows("proposal.created")
      /\ EventRows("proposal.decided")' = EventRows("proposal.decided")
    BY <1>2, <1>4 DEF EventRows
<1>6. FullHour' <=> FullHour
    BY <1>3 DEF FullHour, InLaggedHour, Ids
<1>7. Earned(last)'
    BY <1>2, <1>4 DEF Earned
<1>8. ASSUME NEW k \in DOMAIN audit_log PROVE Earned(k)'
    BY <1>1, <1>2, <1>3, <1>6, EarnedKept DEF HaltInv
<1>9. BacklogCounted' /\ DatedByClock'
    BY <1>3, <1>5 DEF HaltInv, BacklogCounted, DatedByClock, Pending, Ids
<1>. QED
    BY <1>4, <1>7, <1>8, <1>9 DEF HaltInv

LEMMA HaltStep == HaltInv /\ [Next]_vars => HaltInv'
<1> SUFFICES ASSUME HaltInv, [Next]_vars PROVE HaltInv'
    OBVIOUS
<1>1. TypeOK /\ TypeOK'
    BY TypingStep DEF HaltInv
<1>2. ASSUME NEW action \in Asked, NEW lag \in 0..Lag, lag <= clock,
             Propose(action, clock - lag)
      PROVE  HaltInv'
  <2>1. clock - lag \in Nat /\ clock - lag <= clock
      BY <1>1, <1>2, QueueConstants DEF TypeOK
  <2>. QED
      BY <1>1, <1>2, <2>1, TripEarned, AcceptCounted DEF Propose
<1>3. ASSUME NEW id \in Ids, NEW state \in {"executed", "failed"}, Execute(id, state)
      PROVE  HaltInv'
  <2>1. /\ Ids' = Ids /\ proposals'[id].state = state
        /\ \A i \in Ids : proposals'[i].proposed_at = proposals[i].proposed_at
        /\ \A i \in Ids : i # id => proposals'[i] = proposals[i]
      BY <1>1, <1>3, StateChange DEF Execute
  <2>2. Pending' = Pending
      BY <2>1, <1>3 DEF Pending, Execute, Approved
  <2>3. clock <= clock'
      BY <1>1, <1>3 DEF Execute, TypeOK
  <2>. QED
      BY <1>1, <1>3, <2>1, <2>2, <2>3, LogAlone DEF Execute
<1>4. ASSUME Tick \/ UNCHANGED vars PROVE HaltInv'
  <2>1. /\ UNCHANGED <<proposals, audit_log>> /\ clock <= clock'
        /\ Ids' = Ids /\ Pending' = Pending
      BY <1>1, <1>4 DEF Tick, vars, TypeOK, Ids, Pending
  <2>. QED
      BY <1>1, <2>1, LogAlone
<1>. QED
    BY <1>1, <1>2, <1>3, <1>4, KillEarned, DecideCounted DEF Next

\* A queue is halted by hand, or for a limit that the history shows to be reached.
THEOREM HaltsAreEarned == Spec => []HaltIsEarned
<1>1. Init => HaltInv
  <2> SUFFICES ASSUME Init PROVE HaltInv
      OBVIOUS
  <2>1. DOMAIN audit_log = {}
    <3>1. DOMAIN << >> = {}
        OBVIOUS
    <3>. QED
        BY <3>1, Zenon DEF Init
  <2>2. TypeOK /\ Pending = {} /\ DatedByClock
      BY TypingInit DEF Pending, DatedByClock
  <2>3. EventRows("proposal.created") = {} /\ EventRows("proposal.decided") = {}
      BY <2>1 DEF EventRows
  <2>. QED
      BY <2>1, <2>2, <2>3, FS_EmptySet DEF HaltInv, BacklogCounted
<1>2. HaltInv => HaltIsEarned
    BY EarnedByAll DEF HaltInv
<1>. QED
    BY <1>1, <1>2, HaltStep, PTL DEF Spec
=============================================================================
