-------------------------- MODULE IdempotentWebhook --------------------------
(***************************************************************************)
(* examples/api/idempotent_webhook.py: receive_payment, one action per     *)
(* await, for any number of deliveries of the same notifications at once.  *)
(*                                                                         *)
(* A transaction stands for its notification: provider id, account and     *)
(* amount are the same in every delivery.  Known tells whether the account *)
(* matches, Parseable whether parse_minor_units accepts the amount.  The   *)
(* provider delivers a paid notification again whenever it likes, also     *)
(* after a 2xx ("sometimes when it succeeded").                            *)
(***************************************************************************)
EXTENDS Naturals, FiniteSets

CONSTANTS
    Handlers,   \* requests that may be in receive_payment at once
    Txns,       \* transactions, each with its notification
    Known,      \* those whose account_ref matches an account
    Parseable,  \* those whose amount parses
    MaxFaults   \* bound: exceptions, crashes and lost responses in a behaviour

ASSUME WebhookConstants ==
    /\ Known \subseteq Txns
    /\ Parseable \subseteq Txns
    /\ MaxFaults \in Nat

VARIABLES
    paid,      \* transactions the provider notifies
    ledger,    \* Ledger: what it holds under each provider_txn_id
    queued,    \* ActivationQueue: enqueues of each transaction
    alerted,   \* Alerter: the criticals raised, as <<event, transaction>>
    answers,   \* responses the provider has seen for each transaction
    pc,        \* where each request is
    txn,       \* the transaction it is about
    response,  \* what it is about to answer
    faults     \* faults so far

requests == <<pc, txn, response>>
vars == <<paid, ledger, queued, alerted, answers, pc, txn, response, faults>>

Acks == {"accepted", "duplicate", "unmatched"}    \* status 200
Responses == Acks \cup {"404", "422", "500"}

Events == {"payment.amount_unparseable", "payment.unmatched"}

TypeOK ==
    /\ paid \subseteq Txns
    /\ ledger \in [Txns -> {"absent", "credited", "unmatched"}]
    /\ queued \in [Txns -> Nat]
    /\ alerted \subseteq Events \X Txns
    /\ answers \in [Txns -> SUBSET Responses]
    /\ pc \in [Handlers -> {"idle", "alerting_unparseable", "crediting",
                            "alerting_unmatched", "enqueueing", "responding"}]
    /\ txn \in [Handlers -> Txns]
    /\ response \in [Handlers -> Responses \cup {"none"}]
    /\ faults \in 0..MaxFaults

Init ==
    /\ paid = {}
    /\ ledger = [t \in Txns |-> "absent"]
    /\ queued = [t \in Txns |-> 0]
    /\ alerted = {}
    /\ answers = [t \in Txns |-> {}]
    /\ pc = [h \in Handlers |-> "idle"]
    /\ txn \in [Handlers -> Txns]
    /\ response = [h \in Handlers |-> "none"]
    /\ faults = 0

Goto(h, s) == pc' = [pc EXCEPT ![h] = s]

\* Faulty Answer: a branch that returns nothing.
FallThrough(h, r) ==
    /\ Goto(h, "responding")
    /\ response' = [response EXCEPT ![h] = "none"]

\* The request has its answer, which is on its way back.
Answer(h, r) ==
    /\ Goto(h, "responding")
    /\ response' = [response EXCEPT ![h] = r]

\* One more of the MaxFaults.
Fault == faults < MaxFaults /\ faults' = faults + 1

-----------------------------------------------------------------------------
(* The provider.                                                           *)

\* Money arrives and the provider starts notifying.
Pay(t) ==
    /\ t \notin paid
    /\ paid' = paid \cup {t}
    /\ UNCHANGED <<ledger, queued, alerted, answers, requests, faults>>

\* A delivery, the first or a retry.  Token and amount are checked before the
\* first await.
Deliver(h, t, authorised) ==
    /\ pc[h] = "idle"
    /\ t \in paid
    /\ txn' = [txn EXCEPT ![h] = t]
    /\ \/ ~authorised /\ Answer(h, "404")
       \/ /\ authorised
          /\ Goto(h, IF t \in Parseable THEN "crediting" ELSE "alerting_unparseable")
          /\ UNCHANGED response
    /\ UNCHANGED <<paid, ledger, queued, alerted, answers, faults>>

-----------------------------------------------------------------------------
(* receive_payment.                                                        *)

\* The request is over.
Done(h) ==
    /\ Goto(h, "idle")
    /\ response' = [response EXCEPT ![h] = "none"]

\* except MoneyParseError: alert, then 422.
AlertUnparseable(h) ==
    /\ pc[h] = "alerting_unparseable"
    /\ alerted' = alerted \cup {<<"payment.amount_unparseable", txn[h]>>}
    /\ Answer(h, "422")
    /\ UNCHANGED <<paid, ledger, queued, answers, txn, faults>>

\* What the ledger records under a transaction it has not seen.
Record(t) == IF t \in Known THEN "credited" ELSE "unmatched"

\* Faulty Credit: inserts whatever is there.
CreditWithoutUniqueIndex(h) ==
    LET t == txn[h] IN
    /\ pc[h] = "crediting"
    /\ ledger' = [ledger EXCEPT ![t] = Record(t)]
    /\ Goto(h, IF t \in Known THEN "enqueueing" ELSE "alerting_unmatched")
    /\ UNCHANGED <<paid, queued, alerted, answers, txn, response, faults>>

\* Faulty Credit: a duplicate is an error.
RaiseOnDuplicate(h) ==
    LET t == txn[h] IN
    /\ pc[h] = "crediting"
    /\ \/ /\ ledger[t] # "absent"
          /\ Answer(h, "500")
          /\ UNCHANGED ledger
       \/ /\ ledger[t] = "absent"
          /\ ledger' = [ledger EXCEPT ![t] = Record(t)]
          /\ Goto(h, IF t \in Known THEN "enqueueing" ELSE "alerting_unmatched")
          /\ UNCHANGED response
    /\ UNCHANGED <<paid, queued, alerted, answers, txn, faults>>

\* credit decides and inserts in one step, by the unique index; then the
\* branches on duplicate and accepted.
Credit(h) ==
    LET t == txn[h] IN
    /\ pc[h] = "crediting"
    /\ \/ /\ ledger[t] # "absent"
          /\ Answer(h, "duplicate")
          /\ UNCHANGED ledger
       \/ /\ ledger[t] = "absent"
          /\ ledger' = [ledger EXCEPT ![t] = Record(t)]
          /\ Goto(h, IF t \in Known THEN "enqueueing" ELSE "alerting_unmatched")
          /\ UNCHANGED response
    /\ UNCHANGED <<paid, queued, alerted, answers, txn, faults>>

\* not result.accepted: alert, then 200.
AlertUnmatched(h) ==
    /\ pc[h] = "alerting_unmatched"
    /\ alerted' = alerted \cup {<<"payment.unmatched", txn[h]>>}
    /\ Answer(h, "unmatched")
    /\ UNCHANGED <<paid, ledger, queued, answers, txn, faults>>

\* Faulty Enqueue: answers without queueing.
AcknowledgeUnqueued(h) ==
    /\ pc[h] = "enqueueing"
    /\ Answer(h, "accepted")
    /\ UNCHANGED <<paid, ledger, queued, alerted, answers, txn, faults>>

\* The activation is queued, then 200.
Enqueue(h) ==
    /\ pc[h] = "enqueueing"
    /\ queued' = [queued EXCEPT ![txn[h]] = @ + 1]
    /\ Answer(h, "accepted")
    /\ UNCHANGED <<paid, ledger, alerted, answers, txn, faults>>

\* Faulty Raise: an exception is logged and answered 200.
AcknowledgeAnyway(h) ==
    /\ Fault
    /\ pc[h] \in {"alerting_unparseable", "crediting", "alerting_unmatched", "enqueueing"}
    /\ Answer(h, "accepted")
    /\ UNCHANGED <<paid, ledger, queued, alerted, answers, txn>>

\* An awaited call raises, without or with its effect: the framework answers 500.
Raise(h) ==
    /\ Fault
    /\ \/ /\ pc[h] \in {"alerting_unparseable", "crediting", "alerting_unmatched",
                        "enqueueing"}
          /\ UNCHANGED <<ledger, queued, alerted>>
       \/ /\ pc[h] = "crediting" /\ ledger[txn[h]] = "absent"
          /\ ledger' = [ledger EXCEPT ![txn[h]] = Record(txn[h])]
          /\ UNCHANGED <<queued, alerted>>
       \/ /\ pc[h] = "alerting_unparseable"
          /\ alerted' = alerted \cup {<<"payment.amount_unparseable", txn[h]>>}
          /\ UNCHANGED <<ledger, queued>>
       \/ /\ pc[h] = "alerting_unmatched"
          /\ alerted' = alerted \cup {<<"payment.unmatched", txn[h]>>}
          /\ UNCHANGED <<ledger, queued>>
       \/ /\ pc[h] = "enqueueing"
          /\ queued' = [queued EXCEPT ![txn[h]] = @ + 1]
          /\ UNCHANGED <<ledger, alerted>>
    /\ Answer(h, "500")
    /\ UNCHANGED <<paid, answers, txn>>

\* The response reaches the provider.
Respond(h) ==
    /\ pc[h] = "responding"
    /\ answers' = [answers EXCEPT ![txn[h]] = @ \cup {response[h]}]
    /\ Done(h)
    /\ UNCHANGED <<paid, ledger, queued, alerted, txn, faults>>

\* The response is lost, or the process dies wherever the request is.
Lose(h) ==
    /\ Fault
    /\ pc[h] # "idle"
    /\ Done(h)
    /\ UNCHANGED <<paid, ledger, queued, alerted, answers, txn>>

Handle(h) ==
    \/ AlertUnparseable(h)
    \/ Credit(h)
    \/ AlertUnmatched(h)
    \/ Enqueue(h)
    \/ Respond(h)

Next ==
    \/ \E t \in Txns : Pay(t)
    \/ \E h \in Handlers :
          \/ \E t \in Txns, authorised \in BOOLEAN : Deliver(h, t, authorised)
          \/ Handle(h)
          \/ Raise(h)
          \/ Lose(h)

Spec == Init /\ [][Next]_vars

Acked(t) == answers[t] \cap Acks # {}

\* The provider notifies, with its token, until it sees a 2xx, and a request
\* that has started is worked on.
Fairness ==
    /\ \A t \in Txns : SF_vars(~Acked(t) /\ \E h \in Handlers : Deliver(h, t, TRUE))
    /\ \A h \in Handlers : WF_vars(Handle(h))

FairSpec == Spec /\ Fairness

-----------------------------------------------------------------------------
(* Properties.                                                             *)

\* However often and however concurrently a notification is delivered, its
\* activation is queued at most once, and only if the ledger credited it
\* (idempotent_webhook.py:8-11, 143-147).
QueuedAtMostOnce ==
    \A t \in Txns :
        /\ queued[t] <= 1
        /\ queued[t] > 0 => ledger[t] = "credited"

\* No 2xx, of any delivery, without the money in the ledger: "The 200 means 'we
\* have your money'" (idempotent_webhook.py:19-22, 108).
AckMeansRecorded == \A t \in Txns : Acked(t) => ledger[t] # "absent"

\* Each answer stands for something that has happened: "accepted" for a queued
\* activation, "unmatched" and 422 for an alert (idempotent_webhook.py:19-22,
\* 150-152, "never a silent discard").
AnswersAreBacked ==
    \A t \in Txns :
        /\ "accepted" \in answers[t] => queued[t] = 1
        /\ "unmatched" \in answers[t] => <<"payment.unmatched", t>> \in alerted
        /\ "422" \in answers[t] => <<"payment.amount_unparseable", t>> \in alerted

\* A paid and parseable notification is acknowledged in the end, whichever of
\* its deliveries fail (idempotent_webhook.py:8-11).
PaidIsAcknowledged ==
    \A t \in Parseable : t \in paid ~> Acked(t)

\* t is recorded, what the branch on it is for has not happened (the activation, or
\* the alert), and no request is about to do it: a retry is a duplicate.
Stranded(t) ==
    \/ /\ ledger[t] = "credited" /\ queued[t] = 0
       /\ \A h \in Handlers : ~(pc[h] = "enqueueing" /\ txn[h] = t)
    \/ /\ ledger[t] = "unmatched" /\ <<"payment.unmatched", t>> \notin alerted
       /\ \A h \in Handlers : ~(pc[h] = "alerting_unmatched" /\ txn[h] = t)

\* "Activation is queued" (108-110) and "never a silent discard" (150-152) fail only
\* in the window between the credit and what follows it: each exception or lost
\* request strands one recorded payment at most, and no race of deliveries any.
StrandedByFaults == Cardinality({t \in Txns : Stranded(t)}) <= faults
=============================================================================
