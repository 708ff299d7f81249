---------------------------- MODULE ApprovalQueue ----------------------------
(***************************************************************************)
(* examples/ai/approval_gate.py: the queue of proposals between a model    *)
(* that proposes, operators who decide and an executor.                    *)
(*                                                                         *)
(* The queue's methods do not await, so each is one action.  A moment is   *)
(* the `now` of propose: the clock, or up to Lag behind it (a caller that  *)
(* supplies it, or a system clock set back).                               *)
(***************************************************************************)
EXTENDS Integers, Sequences, FiniteSets

CONSTANTS
    Asked,       \* requests; those outside of Allowlist stand for all that are
                 \* refused for their action, arguments or rationale
    Allowlist,   \* actions of `allowlist`
    Reversible,  \* those that are `reversible`
    Operators,
    Nobody,      \* `None`: not decided
    max_pending,
    max_per_hour,
    Hour,        \* 3600 seconds
    Lag,         \* how far behind the clock a moment may be
    MaxTime,     \* bound of the clock
    MaxProposals \* bound of the history

ASSUME QueueConstants ==
    /\ Allowlist \subseteq Asked
    /\ Reversible \subseteq Allowlist
    /\ Nobody \notin Operators
    /\ max_pending \in Nat /\ max_per_hour \in Nat
    /\ Hour \in Nat \ {0} /\ Lag \in Nat /\ MaxTime \in Nat /\ MaxProposals \in Nat

VARIABLES
    clock,
    proposals,  \* _proposals; a proposal's id is its place
    killed,
    audit_log

vars == <<clock, proposals, killed, audit_log>>

ProposalState == {"pending", "approved", "rejected", "executed", "failed"}

Proposal == [action : Allowlist, proposed_at : Nat, state : ProposalState,
             decided_by : Operators \cup {Nobody}]

Reasons == {"operator", "backlog", "rate"}

Entry == [event : {"proposal.created", "proposal.decided", "proposal.irreversible_approved"},
          id : Nat, state : ProposalState, by : Operators \cup {Nobody}]
         \cup [event : {"queue.killed"}, reason : Reasons]

TypeOK ==
    /\ clock \in Nat
    /\ proposals \in Seq(Proposal)
    /\ killed \in BOOLEAN
    /\ audit_log \in Seq(Entry)

Init ==
    /\ clock = 0
    /\ proposals = << >>
    /\ killed = FALSE
    /\ audit_log = << >>

Ids == DOMAIN proposals

-----------------------------------------------------------------------------

\* kill: sets the flag and leaves its row.
Halt(reason) ==
    /\ killed' = TRUE
    /\ audit_log' = Append(audit_log, [event |-> "queue.killed", reason |-> reason])

Pending == {i \in Ids : proposals[i].state = "pending"}

\* Faulty Recent: forgets the window.
RecentEver(moment) == Ids

\* Faulty Recent: a proposal dated after the moment does not count.
RecentPast(moment) ==
    {i \in Ids : moment - proposals[i].proposed_at \in 0..(Hour - 1)}

\* The proposals less than an hour older than the moment.
Recent(moment) == {i \in Ids : moment - proposals[i].proposed_at < Hour}

BacklogFull == Cardinality(Pending) >= max_pending

RateReached(moment) == Cardinality(Recent(moment)) >= max_per_hour

\* The backlog is checked first, then the rate; reaching either halts the queue.
Limit(moment) == IF BacklogFull THEN "backlog" ELSE "rate"

Created(id) ==
    [event |-> "proposal.created", id |-> id, state |-> "pending", by |-> Nobody]

\* A request that passes every check: _next_id is one more than the last place.
Accept(action, moment) ==
    /\ ~BacklogFull
    /\ ~RateReached(moment)
    /\ proposals' = Append(proposals, [action |-> action, proposed_at |-> moment,
                                       state |-> "pending", decided_by |-> Nobody])
    /\ audit_log' = Append(audit_log, Created(Len(proposals) + 1))
    /\ UNCHANGED killed

\* A request that trips a limit is refused and halts the queue.
Trip(moment) ==
    /\ BacklogFull \/ RateReached(moment)
    /\ Halt(Limit(moment))
    /\ UNCHANGED proposals

\* propose: a killed queue and a request outside of Allowlist refuse first,
\* and nothing changes.
Propose(action, moment) ==
    /\ ~killed
    /\ action \in Allowlist
    /\ Accept(action, moment) \/ Trip(moment)
    /\ UNCHANGED clock

\* The rows of a decision: an irreversible approval has one more of its own.
DecisionRows(id, state, operator) ==
    LET row(event) == [event |-> event, id |-> id, state |-> state, by |-> operator] IN
    IF state = "approved" /\ proposals[id].action \notin Reversible
    THEN <<row("proposal.irreversible_approved"), row("proposal.decided")>>
    ELSE <<row("proposal.decided")>>

\* Faulty Decide: the irreversible approval looks like any other.
DecideAlike(id, state, operator) ==
    /\ proposals[id].state = "pending"
    /\ proposals' = [proposals EXCEPT ![id].state = state, ![id].decided_by = operator]
    /\ audit_log' = Append(audit_log, [event |-> "proposal.decided", id |-> id,
                                       state |-> state, by |-> operator])
    /\ UNCHANGED <<clock, killed>>

\* Faulty Decide: whatever the proposal's state.
DecideAgain(id, state, operator) ==
    /\ proposals' = [proposals EXCEPT ![id].state = state, ![id].decided_by = operator]
    /\ audit_log' = audit_log \o DecisionRows(id, state, operator)
    /\ UNCHANGED <<clock, killed>>

\* Faulty Decide: the operator's name where the state belongs.
DecideSwapped(id, state, operator) ==
    /\ proposals[id].state = "pending"
    /\ proposals' = [proposals EXCEPT ![id].state = operator, ![id].decided_by = state]
    /\ audit_log' = audit_log \o DecisionRows(id, state, operator)
    /\ UNCHANGED <<clock, killed>>

\* decide: only a pending proposal, also after a kill.
Decide(id, state, operator) ==
    /\ proposals[id].state = "pending"
    /\ proposals' = [proposals EXCEPT ![id].state = state, ![id].decided_by = operator]
    /\ audit_log' = audit_log \o DecisionRows(id, state, operator)
    /\ UNCHANGED <<clock, killed>>

\* kill, by hand.
Kill ==
    /\ Halt("operator")
    /\ UNCHANGED <<clock, proposals>>

\* What approved() hands to the executor.
Approved == {i \in Ids : proposals[i].state = "approved"}

\* The executor applies an approved proposal and records how it went.
Execute(id, state) ==
    /\ id \in Approved
    /\ proposals' = [proposals EXCEPT ![id].state = state]
    /\ UNCHANGED <<clock, killed, audit_log>>

Tick ==
    /\ clock < MaxTime
    /\ clock' = clock + 1
    /\ UNCHANGED <<proposals, killed, audit_log>>

\* Bounds: MaxTime and MaxProposals, and one kill.
Next ==
    \/ \E action \in Asked, lag \in 0..Lag :
          lag <= clock /\ Len(proposals) < MaxProposals /\ Propose(action, clock - lag)
    \/ \E id \in Ids :
          \/ \E state \in {"approved", "rejected"}, operator \in Operators :
                Decide(id, state, operator)
          \/ \E state \in {"executed", "failed"} : Execute(id, state)
    \/ ~killed /\ Kill
    \/ Tick

Spec == Init /\ [][Next]_vars

-----------------------------------------------------------------------------
(* Properties.                                                             *)

\* The proposals dated within the hour that ends with x.
Within(x) == {i \in Ids : x - Hour < proposals[i].proposed_at /\ proposals[i].proposed_at <= x}

\* No hour holds more than max_per_hour proposals, whichever hour is looked at
\* and in whatever order the moments of the proposals came
\* (approval_gate.py:159-164).
RollingRate ==
    \A i \in Ids : Cardinality(Within(proposals[i].proposed_at)) <= max_per_hour

\* Never more than max_pending proposals await review (approval_gate.py:150-157).
PendingBounded == Cardinality(Pending) <= max_pending

\* The places of the log with this event for this proposal.
RowsOf(event, id) ==
    {k \in DOMAIN audit_log : audit_log[k].event = event /\ audit_log[k].id = id}

\* The log has no decision of it.
Undecided(id) == RowsOf("proposal.decided", id) = {}

\* The log has one creation of proposal i; a decision exactly if it has left
\* pending, and then one, made after the creation, with its decider and verdict;
\* and for the approval of an irreversible action a row of its own right before.
AuditTells(i) ==
    \E c \in DOMAIN audit_log :
        /\ RowsOf("proposal.created", i) = {c}
        /\ proposals[i].state = "pending" <=> Undecided(i)
        /\ proposals[i].state # "pending" =>
             \E d \in DOMAIN audit_log :
                /\ RowsOf("proposal.decided", i) = {d}
                /\ c < d
                /\ audit_log[d].by = proposals[i].decided_by
                /\ audit_log[d].state = "rejected" <=> proposals[i].state = "rejected"
                /\ RowsOf("proposal.irreversible_approved", i) =
                     IF proposals[i].state # "rejected" /\ proposals[i].action \notin Reversible
                     THEN {d - 1} ELSE {}

\* What became of each proposal, and who decided it, can be told from the log
\* alone, except for the executor's part (approval_gate.py:184-199, 209-211,
\* "Reconstructing what an agent did").
AuditReconstructs == \A i \in Ids : AuditTells(i)

\* A queue is halted by hand or for a limit the history shows to be reached:
\* before a halt for the backlog the log has max_pending creations without their
\* decisions; for the rate there is an hour, and the Lag of the clock, with
\* max_per_hour proposals (approval_gate.py:150-164).
HaltIsEarned ==
    \A k \in DOMAIN audit_log :
        LET before(event) == {j \in 1..(k - 1) : audit_log[j].event = event} IN
        audit_log[k].event = "queue.killed" =>
            \/ audit_log[k].reason = "operator"
            \/ /\ audit_log[k].reason = "backlog"
               /\ Cardinality(before("proposal.created"))
                    - Cardinality(before("proposal.decided")) >= max_pending
            \/ /\ audit_log[k].reason = "rate"
               /\ \E x \in 0..clock :
                     Cardinality({i \in Ids : /\ x - Hour < proposals[i].proposed_at
                                              /\ proposals[i].proposed_at <= x + Lag})
                       >= max_per_hour

\* The step keeps each decision, and carries nothing out without one.
DecisionsKept ==
    \A i \in Ids :
        /\ i \in DOMAIN proposals'
        /\ proposals[i].state # "pending" =>
              /\ proposals'[i].decided_by = proposals[i].decided_by
              /\ proposals'[i].state = "rejected" <=> proposals[i].state = "rejected"
        /\ proposals'[i].state \in {"executed", "failed"} =>
              proposals[i].state \notin {"pending", "rejected"}

\* A decision stands: whoever comes second, a killed queue and the executor
\* included, neither reverses it nor takes it over, and nothing is carried out
\* without one (approval_gate.py:181-182, 202-204).
DecisionsStand == [][DecisionsKept]_vars
=============================================================================
