----------------------- MODULE IdempotentWebhookProofs -----------------------
(***************************************************************************)
(* Theorems about IdempotentWebhook, for every number of requests,         *)
(* transactions and faults.                                                *)
(***************************************************************************)
EXTENDS IdempotentWebhook, FiniteSetTheorems, TLAPS

\* A request that answers has an answer.
HasAnswer == \A h \in Handlers : pc[h] = "responding" => response[h] \in Responses

Typing == TypeOK /\ HasAnswer

\* At most one request ever gets to queue a transaction, and it is the one the
\* ledger answered with duplicate = FALSE.
OneEnqueuer ==
    /\ \A h \in Handlers :
          pc[h] = "enqueueing" => ledger[txn[h]] = "credited" /\ queued[txn[h]] = 0
    /\ \A h, g \in Handlers :
          pc[h] = "enqueueing" /\ pc[g] = "enqueueing" /\ txn[h] = txn[g] => h = g

QueueInv == Typing /\ QueuedAtMostOnce /\ OneEnqueuer

\* What answer r about transaction t stands for.
Backed(r, t) ==
    /\ r \in Acks => ledger[t] # "absent"
    /\ r = "accepted" => queued[t] = 1
    /\ r = "unmatched" => <<"payment.unmatched", t>> \in alerted
    /\ r = "422" => <<"payment.amount_unparseable", t>> \in alerted

AllBacked ==
    /\ \A h \in Handlers : pc[h] = "responding" => Backed(response[h], txn[h])
    /\ \A h \in Handlers :
          pc[h] = "alerting_unmatched" => ledger[txn[h]] # "absent"
    /\ \A t \in Txns : \A r \in answers[t] : Backed(r, t)

-----------------------------------------------------------------------------

\* What a request that raises has done.
LEMMA RaiseFrame ==
    ASSUME TypeOK, NEW h \in Handlers, Raise(h)
    PROVE  /\ pc[h] # "idle" /\ pc[h] # "responding"
           /\ pc' = [pc EXCEPT ![h] = "responding"]
           /\ response' = [response EXCEPT ![h] = "500"]
           /\ UNCHANGED <<paid, answers, txn>>
           /\ faults' \in 0..MaxFaults
           /\ \/ UNCHANGED <<ledger, queued>>
              \/ /\ pc[h] = "crediting" /\ ledger[txn[h]] = "absent"
                 /\ ledger' = [ledger EXCEPT ![txn[h]] = Record(txn[h])]
                 /\ UNCHANGED queued
              \/ /\ pc[h] = "enqueueing"
                 /\ queued' = [queued EXCEPT ![txn[h]] = @ + 1]
                 /\ UNCHANGED ledger
           /\ \/ UNCHANGED alerted
              \/ \E v \in Events : alerted' = alerted \cup {<<v, txn[h]>>}
BY WebhookConstants DEF TypeOK, Raise, Fault, Answer, Goto, Events

\* Every variable keeps its type.
LEMMA TypingStep == Typing /\ [Next]_vars => Typing'
<1> SUFFICES ASSUME Typing, [Next]_vars
             PROVE  Typing'
    OBVIOUS
<1> USE DEF Acks, Responses, Events
<1>1. ASSUME NEW t \in Txns, Pay(t)
      PROVE  Typing'
    BY <1>1 DEF Typing, TypeOK, HasAnswer, Pay, requests
<1>2. ASSUME NEW h \in Handlers, NEW t \in Txns, NEW a \in BOOLEAN, Deliver(h, t, a)
      PROVE  Typing'
    BY <1>2 DEF Typing, TypeOK, HasAnswer, Deliver, Answer, Goto
<1>3. ASSUME NEW h \in Handlers, AlertUnparseable(h) \/ AlertUnmatched(h)
      PROVE  Typing'
    BY <1>3 DEF Typing, TypeOK, HasAnswer, AlertUnparseable, AlertUnmatched, Answer, Goto
<1>4. ASSUME NEW h \in Handlers, Credit(h)
      PROVE  Typing'
    BY <1>4 DEF Typing, TypeOK, HasAnswer, Credit, Record, Answer, Goto
<1>5. ASSUME NEW h \in Handlers, Enqueue(h)
      PROVE  Typing'
    BY <1>5 DEF Typing, TypeOK, HasAnswer, Enqueue, Answer, Goto
<1>6. ASSUME NEW h \in Handlers, Raise(h)
      PROVE  Typing'
  <2>1. /\ ledger' \in [Txns -> {"absent", "credited", "unmatched"}]
        /\ queued' \in [Txns -> Nat]
        /\ alerted' \subseteq Events \X Txns
      BY <1>6, RaiseFrame DEF Typing, TypeOK, HasAnswer, Record
  <2>. QED
      BY <1>6, <2>1, RaiseFrame DEF Typing, TypeOK, HasAnswer
<1>7. ASSUME NEW h \in Handlers, Respond(h)
      PROVE  Typing'
  <2>1. answers' \in [Txns -> SUBSET Responses]
      BY <1>7 DEF Typing, TypeOK, HasAnswer, Respond
  <2>. QED
      BY <1>7, <2>1 DEF Typing, TypeOK, HasAnswer, Respond, Done, Goto
<1>8. ASSUME NEW h \in Handlers, Lose(h)
      PROVE  Typing'
    BY <1>8, WebhookConstants DEF Typing, TypeOK, HasAnswer, Lose, Fault, Done, Goto
<1>9. CASE UNCHANGED vars
    BY <1>9 DEF Typing, TypeOK, HasAnswer, vars, requests
<1>. QED
    BY <1>1, <1>2, <1>3, <1>4, <1>5, <1>6, <1>7, <1>8, <1>9 DEF Next, Handle

-----------------------------------------------------------------------------
(* The activation queue.                                                   *)

\* Steps that leave the ledger and the queue alone and start no enqueuer.
LEMMA QueueFrame ==
    ASSUME QueueInv, UNCHANGED <<ledger, queued>>,
           \A h \in Handlers :
              pc'[h] = "enqueueing" => pc[h] = "enqueueing" /\ txn'[h] = txn[h]
    PROVE  QueuedAtMostOnce' /\ OneEnqueuer'
BY DEF QueueInv, QueuedAtMostOnce, OneEnqueuer

\* The unique index makes one enqueuer of a transaction, and enqueueing or
\* failing ends it.
LEMMA QueueStep == QueueInv /\ [Next]_vars => QueueInv'
<1> SUFFICES ASSUME QueueInv, [Next]_vars
             PROVE  QueuedAtMostOnce' /\ OneEnqueuer'
    BY TypingStep DEF QueueInv
<1> USE DEF QueueInv, Typing, TypeOK
<1>1. ASSUME NEW t \in Txns, Pay(t)
      PROVE  QueuedAtMostOnce' /\ OneEnqueuer'
    BY <1>1, QueueFrame DEF Pay, requests
<1>2. ASSUME NEW h \in Handlers, NEW t \in Txns, NEW a \in BOOLEAN, Deliver(h, t, a)
      PROVE  QueuedAtMostOnce' /\ OneEnqueuer'
    BY <1>2, QueueFrame DEF Deliver, Answer, Goto
<1>3. ASSUME NEW h \in Handlers,
             AlertUnparseable(h) \/ AlertUnmatched(h) \/ Respond(h) \/ Lose(h)
      PROVE  QueuedAtMostOnce' /\ OneEnqueuer'
    BY <1>3, QueueFrame
       DEF AlertUnparseable, AlertUnmatched, Respond, Lose, Answer, Done, Goto
<1>4. ASSUME NEW h \in Handlers, Credit(h)
      PROVE  QueuedAtMostOnce' /\ OneEnqueuer'
  <2>1. CASE ledger[txn[h]] # "absent"
      BY <1>4, <2>1, QueueFrame DEF Credit, Answer, Goto
  <2>2. CASE ledger[txn[h]] = "absent"
    <3>1. /\ ledger' = [ledger EXCEPT ![txn[h]] = Record(txn[h])]
          /\ pc' = [pc EXCEPT ![h] = IF txn[h] \in Known THEN "enqueueing"
                                                        ELSE "alerting_unmatched"]
          /\ UNCHANGED <<queued, txn>>
        BY <1>4, <2>2 DEF Credit, Goto
    <3>2. queued[txn[h]] = 0
        BY <2>2 DEF QueuedAtMostOnce
    <3>3. \A g \in Handlers : pc[g] = "enqueueing" => txn[g] # txn[h]
        BY <2>2 DEF OneEnqueuer
    <3>4. QueuedAtMostOnce'
        BY <3>1, <3>2 DEF QueuedAtMostOnce, Record
    <3>5. OneEnqueuer'
        BY <3>1, <3>2, <3>3 DEF OneEnqueuer, Record
    <3>. QED
        BY <3>4, <3>5
  <2>. QED
      BY <2>1, <2>2
<1>5. ASSUME NEW h \in Handlers, pc[h] = "enqueueing",
             queued' = [queued EXCEPT ![txn[h]] = @ + 1],
             pc' = [pc EXCEPT ![h] = "responding"],
             UNCHANGED <<ledger, txn>>
      PROVE  QueuedAtMostOnce' /\ OneEnqueuer'
  <2>1. ledger[txn[h]] = "credited" /\ queued[txn[h]] = 0
      BY <1>5 DEF OneEnqueuer
  <2>2. \A g \in Handlers : g # h /\ pc[g] = "enqueueing" => txn[g] # txn[h]
      BY <1>5 DEF OneEnqueuer
  <2>3. QueuedAtMostOnce'
      BY <1>5, <2>1 DEF QueuedAtMostOnce
  <2>4. OneEnqueuer'
      BY <1>5, <2>2 DEF OneEnqueuer
  <2>. QED
      BY <2>3, <2>4
<1>6. ASSUME NEW h \in Handlers, Enqueue(h)
      PROVE  QueuedAtMostOnce' /\ OneEnqueuer'
    BY <1>5, <1>6 DEF Enqueue, Answer, Goto
<1>7. ASSUME NEW h \in Handlers, Raise(h)
      PROVE  QueuedAtMostOnce' /\ OneEnqueuer'
  <2>1. /\ pc' = [pc EXCEPT ![h] = "responding"]
        /\ txn' = txn
      BY <1>7, RaiseFrame
  <2>2. CASE UNCHANGED <<ledger, queued>>
      BY <2>1, <2>2, QueueFrame
  <2>3. CASE /\ pc[h] = "crediting" /\ ledger[txn[h]] = "absent"
             /\ ledger' = [ledger EXCEPT ![txn[h]] = Record(txn[h])]
             /\ UNCHANGED queued
    <3>1. queued[txn[h]] = 0
        BY <2>3 DEF QueuedAtMostOnce
    <3>2. \A g \in Handlers : pc[g] = "enqueueing" => txn[g] # txn[h]
        BY <2>3 DEF OneEnqueuer
    <3>3. QueuedAtMostOnce'
        BY <2>3, <3>1 DEF QueuedAtMostOnce
    <3>4. OneEnqueuer'
        BY <2>1, <2>3, <3>2 DEF OneEnqueuer
    <3>. QED
        BY <3>3, <3>4
  <2>4. CASE /\ pc[h] = "enqueueing"
             /\ queued' = [queued EXCEPT ![txn[h]] = @ + 1]
             /\ UNCHANGED ledger
      BY <1>5, <2>1, <2>4
  <2>. QED
      BY <1>7, <2>2, <2>3, <2>4, RaiseFrame
<1>8. CASE UNCHANGED vars
    BY <1>8, QueueFrame DEF vars, requests
<1>. QED
    BY <1>1, <1>2, <1>3, <1>4, <1>6, <1>7, <1>8 DEF Next, Handle

LEMMA QueueAlways == Spec => []QueueInv
<1>1. Init => QueueInv
    BY WebhookConstants
       DEF Init, QueueInv, Typing, TypeOK, HasAnswer, QueuedAtMostOnce, OneEnqueuer,
           Responses, Acks, Events
<1>. QED
    BY <1>1, QueueStep, PTL DEF Spec

\* However many deliveries race, retry, fail or die, an activation is queued at
\* most once and only for credited money.
THEOREM ActivationIsQueuedOnce == Spec => []QueuedAtMostOnce
<1>1. QueueInv => QueuedAtMostOnce
    BY DEF QueueInv
<1>. QED
    BY <1>1, QueueAlways, PTL

-----------------------------------------------------------------------------
(* The answers.                                                            *)

\* Nothing an answer stands for is ever undone: the ledger keeps its records,
\* the queue its entries and the alerts stay.
LEMMA BackedStays ==
    ASSUME QueueInv, QueueInv', [Next]_vars, NEW t \in Txns, NEW r \in Responses,
           Backed(r, t)
    PROVE  Backed(r, t)'
<1> USE DEF QueueInv, Typing, TypeOK
<1>1. ledger[t] # "absent" => ledger'[t] = ledger[t]
  <2>1. ASSUME NEW h \in Handlers, Credit(h) \/ Raise(h)
        PROVE  ledger[t] # "absent" => ledger'[t] = ledger[t]
      BY <2>1, RaiseFrame DEF Credit
  <2>. QED
      BY <2>1 DEF Next, Handle, Pay, Deliver, AlertUnparseable, AlertUnmatched,
                  Enqueue, Respond, Lose, vars
<1>2. queued[t] = 1 => queued'[t] = 1
  <2>1. ASSUME NEW h \in Handlers, Enqueue(h) \/ Raise(h)
        PROVE  queued[t] <= queued'[t]
      BY <2>1, RaiseFrame DEF Enqueue
  <2>2. queued[t] <= queued'[t]
      BY <2>1 DEF Next, Handle, Pay, Deliver, AlertUnparseable, AlertUnmatched,
                  Credit, Respond, Lose, vars
  <2>3. queued'[t] <= 1
      BY DEF QueuedAtMostOnce
  <2>. QED
      BY <2>2, <2>3
<1>3. alerted \subseteq alerted'
  <2>1. ASSUME NEW h \in Handlers, Raise(h)
        PROVE  alerted \subseteq alerted'
      BY <2>1, RaiseFrame
  <2>. QED
      BY <2>1 DEF Next, Handle, Pay, Deliver, AlertUnparseable, AlertUnmatched,
                  Credit, Enqueue, Respond, Lose, vars
<1>. QED
    BY <1>1, <1>2, <1>3 DEF Backed

\* What a request answers is backed at that moment.
LEMMA NewAnswerBacked ==
    ASSUME QueueInv, QueueInv', AllBacked, NEW h \in Handlers, [Next]_vars,
           pc'[h] = "responding",
           pc[h] # "responding"
    PROVE  Backed(response[h], txn[h])'
<1> USE DEF QueueInv, Typing, TypeOK
<1>1. \/ \E t \in Txns, a \in BOOLEAN : Deliver(h, t, a)
      \/ Handle(h)
      \/ Raise(h)
  <2>1. ASSUME NEW g \in Handlers, g # h,
               \/ \E t \in Txns, a \in BOOLEAN : Deliver(g, t, a)
               \/ Handle(g) \/ Lose(g) \/ Raise(g)
        PROVE  pc'[h] = pc[h]
    <3>1. CASE Raise(g)
        BY <2>1, <3>1, RaiseFrame
    <3>2. CASE Lose(g) \/ Respond(g)
        BY <2>1, <3>2 DEF Lose, Respond, Done, Goto
    <3>3. CASE \E t \in Txns, a \in BOOLEAN : Deliver(g, t, a)
        BY <2>1, <3>3 DEF Deliver, Answer, Goto
    <3>4. CASE AlertUnparseable(g) \/ Credit(g) \/ AlertUnmatched(g) \/ Enqueue(g)
        BY <2>1, <3>4 DEF AlertUnparseable, Credit, AlertUnmatched, Enqueue, Answer, Goto
    <3>. QED
        BY <2>1, <3>1, <3>2, <3>3, <3>4 DEF Handle
  <2>2. ~(\E t \in Txns : Pay(t)) /\ ~UNCHANGED vars
      BY DEF Pay, requests, vars
  <2>3. ~Lose(h)
      BY DEF Lose, Done, Goto
  <2>. QED
      BY <2>1, <2>2, <2>3 DEF Next
<1>2. CASE \E t \in Txns, a \in BOOLEAN : Deliver(h, t, a)
    BY <1>2 DEF Deliver, Answer, Goto, Backed, Acks
<1>3. CASE AlertUnparseable(h)
    BY <1>3 DEF AlertUnparseable, Answer, Backed, Acks
<1>4. CASE Credit(h)
    BY <1>4 DEF Credit, Answer, Goto, Backed, Acks
<1>5. CASE AlertUnmatched(h)
    BY <1>5 DEF AlertUnmatched, Answer, AllBacked, Backed, Acks
<1>6. CASE Enqueue(h)
    BY <1>6 DEF Enqueue, Answer, OneEnqueuer, Backed, Acks
<1>7. CASE Raise(h)
    BY <1>7, RaiseFrame DEF Backed, Acks
<1>8. CASE Respond(h)
    BY <1>8 DEF Respond
<1>. QED
    BY <1>1, <1>2, <1>3, <1>4, <1>5, <1>6, <1>7, <1>8 DEF Handle

\* A request that is answering does nothing else until it has answered.
LEMMA AnsweringFrame ==
    ASSUME QueueInv, NEW h \in Handlers, [Next]_vars, pc[h] # "idle", pc'[h] = pc[h]
    PROVE  response'[h] = response[h] /\ txn'[h] = txn[h]
<1> USE DEF QueueInv, Typing, TypeOK
<1>1. ASSUME NEW g \in Handlers, NEW t \in Txns, NEW a \in BOOLEAN, Deliver(g, t, a)
      PROVE  response'[h] = response[h] /\ txn'[h] = txn[h]
    BY <1>1 DEF Deliver, Answer
<1>2. ASSUME NEW g \in Handlers, Raise(g)
      PROVE  response'[h] = response[h] /\ txn'[h] = txn[h]
    BY <1>2, RaiseFrame
<1>3. ASSUME NEW g \in Handlers, Handle(g) \/ Lose(g)
      PROVE  response'[h] = response[h] /\ txn'[h] = txn[h]
  <2>1. CASE AlertUnparseable(g) \/ Credit(g) \/ AlertUnmatched(g) \/ Enqueue(g)
      BY <2>1 DEF AlertUnparseable, Credit, AlertUnmatched, Enqueue, Answer, Goto
  <2>2. CASE Respond(g) \/ Lose(g)
      BY <2>2 DEF Respond, Lose, Done, Goto
  <2>. QED
      BY <1>3, <2>1, <2>2 DEF Handle
<1>. QED
    BY <1>1, <1>2, <1>3 DEF Next, Pay, requests, vars

\* A request alerts about an unmatched payment only after recording it.
LEMMA UnmatchedRecorded ==
    ASSUME QueueInv, NEW h \in Handlers, [Next]_vars,
           pc'[h] = "alerting_unmatched", pc[h] # "alerting_unmatched"
    PROVE  ledger'[txn'[h]] # "absent"
<1> USE DEF QueueInv, Typing, TypeOK
<1>1. ASSUME NEW g \in Handlers, Credit(g)
      PROVE  ledger'[txn'[h]] # "absent"
    BY <1>1 DEF Credit, Record, Answer, Goto
<1>2. ASSUME NEW g \in Handlers, Raise(g)
      PROVE  FALSE
    BY <1>2, RaiseFrame
<1>3. ASSUME NEW g \in Handlers,
             \/ \E t \in Txns, a \in BOOLEAN : Deliver(g, t, a)
             \/ AlertUnparseable(g) \/ AlertUnmatched(g) \/ Enqueue(g)
             \/ Respond(g) \/ Lose(g)
      PROVE  FALSE
    BY <1>3 DEF Deliver, AlertUnparseable, AlertUnmatched, Enqueue, Respond, Lose,
                Answer, Done, Goto
<1>. QED
    BY <1>1, <1>2, <1>3 DEF Next, Handle, Pay, requests, vars

\* The provider sees only what a request answered.
LEMMA NewAnswersSent ==
    ASSUME QueueInv, [Next]_vars, NEW t \in Txns, NEW r \in answers'[t]
    PROVE  \/ r \in answers[t]
           \/ \E h \in Handlers : pc[h] = "responding" /\ txn[h] = t /\ response[h] = r
<1> USE DEF QueueInv, Typing, TypeOK
<1>1. ASSUME NEW g \in Handlers, Respond(g)
      PROVE  \/ r \in answers[t]
             \/ \E h \in Handlers : pc[h] = "responding" /\ txn[h] = t /\ response[h] = r
    BY <1>1 DEF Respond
<1>2. ASSUME NEW g \in Handlers, Raise(g)
      PROVE  r \in answers[t]
    BY <1>2, RaiseFrame
<1>. QED
    BY <1>1, <1>2 DEF Next, Handle, Pay, Deliver, AlertUnparseable, AlertUnmatched,
                      Credit, Enqueue, Lose, vars

LEMMA AllBackedStep == QueueInv /\ AllBacked /\ [Next]_vars => AllBacked'
<1> SUFFICES ASSUME QueueInv, AllBacked, [Next]_vars
             PROVE  AllBacked'
    OBVIOUS
<1>1. QueueInv'
    BY QueueStep
<1>2. ASSUME NEW h \in Handlers, pc'[h] = "responding"
      PROVE  Backed(response[h], txn[h])'
  <2>1. CASE pc[h] # "responding"
      BY <1>1, <1>2, <2>1, NewAnswerBacked
  <2>2. CASE pc[h] = "responding"
    <3>1. /\ response[h] \in Responses /\ txn[h] \in Txns
          /\ Backed(response[h], txn[h])
        BY <2>2 DEF QueueInv, Typing, TypeOK, HasAnswer, AllBacked
    <3>2. response'[h] = response[h] /\ txn'[h] = txn[h]
        BY <1>2, <2>2, AnsweringFrame
    <3>3. ASSUME NEW t \in Txns, NEW r \in Responses, Backed(r, t)
          PROVE  Backed(r, t)'
        BY <1>1, <3>3, BackedStays
    <3>. QED
        BY <3>1, <3>2, <3>3 DEF Backed
  <2>. QED
      BY <2>1, <2>2
<1>3. ASSUME NEW h \in Handlers, pc'[h] = "alerting_unmatched"
      PROVE  ledger'[txn'[h]] # "absent"
  <2>1. CASE pc[h] # "alerting_unmatched"
      BY <1>3, <2>1, UnmatchedRecorded
  <2>2. CASE pc[h] = "alerting_unmatched"
    <3>1. ledger[txn[h]] # "absent" /\ txn[h] \in Txns
        BY <2>2 DEF AllBacked, QueueInv, Typing, TypeOK
    <3>2. txn'[h] = txn[h]
        BY <1>3, <2>2, AnsweringFrame
    <3>3. Backed("duplicate", txn[h])
        BY <3>1 DEF Backed, Acks
    <3>4. Backed("duplicate", txn[h])'
      <4>1. ASSUME NEW t \in Txns, Backed("duplicate", t)
            PROVE  Backed("duplicate", t)'
          BY <1>1, <4>1, BackedStays DEF Responses, Acks
      <4>. QED
          BY <3>1, <3>2, <3>3, <4>1 DEF Backed
    <3>. QED
        BY <3>4 DEF Backed, Acks
  <2>. QED
      BY <2>1, <2>2
<1>4. ASSUME NEW t \in Txns, NEW r \in answers'[t]
      PROVE  Backed(r, t)'
  <2>1. r \in Responses /\ Backed(r, t)
    <3>1. r \in answers[t] => r \in Responses /\ Backed(r, t)
        BY DEF QueueInv, Typing, TypeOK, AllBacked
    <3>2. ASSUME NEW h \in Handlers, pc[h] = "responding", txn[h] = t, response[h] = r
          PROVE  r \in Responses /\ Backed(r, t)
        BY <3>2 DEF QueueInv, Typing, HasAnswer, AllBacked
    <3>. QED
        BY <3>1, <3>2, NewAnswersSent
  <2>. QED
      BY <1>1, <2>1, BackedStays
<1>. QED
    BY <1>2, <1>3, <1>4 DEF AllBacked

LEMMA AllBackedAlways == Spec => []AllBacked
<1>1. Init => AllBacked
    BY DEF Init, AllBacked
<1>. QED
    BY <1>1, AllBackedStep, QueueAlways, PTL DEF Spec

\* No 2xx without the money in the ledger.
THEOREM AcknowledgedMoneyIsRecorded == Spec => []AckMeansRecorded
<1>1. QueueInv /\ AllBacked => AckMeansRecorded
    BY DEF AllBacked, Backed, AckMeansRecorded, Acked, Acks
<1>. QED
    BY <1>1, QueueAlways, AllBackedAlways, PTL

\* "accepted" means queued; "unmatched" and 422 mean alerted.
THEOREM AnswersStandForEffects == Spec => []AnswersAreBacked
<1>1. QueueInv /\ AllBacked => AnswersAreBacked
    BY DEF AllBacked, Backed, AnswersAreBacked
<1>. QED
    BY <1>1, QueueAlways, AllBackedAlways, PTL

\* Every variable keeps its type.
THEOREM TypeCorrect == Spec => []TypeOK
<1>1. QueueInv => TypeOK
    BY DEF QueueInv, Typing
<1>. QED
    BY <1>1, QueueAlways, PTL

-----------------------------------------------------------------------------
(* The window between the credit and what follows it.                      *)

Strands == {t \in Txns : Stranded(t)}

\* A step of request h strands nothing but what h is about, and that only if h
\* was about to queue or to alert and now is not.
LEMMA OnlyItsOwn ==
    ASSUME QueueInv, NEW h \in Handlers,
           \A g \in Handlers \ {h} : pc'[g] = pc[g] /\ txn'[g] = txn[g],
           \A t \in Txns \ {txn[h]} : ledger'[t] = ledger[t] /\ queued'[t] = queued[t],
           alerted \subseteq alerted',
           NEW t \in Txns, t # txn[h], Stranded(t)'
    PROVE  Stranded(t)
BY DEF Stranded, QueueInv, Typing, TypeOK

\* Requests in step, deliveries in any order: only a fault strands.
LEMMA NoFaultNoStrand ==
    ASSUME QueueInv, NEW h \in Handlers,
           Handle(h) \/ \E t \in Txns, a \in BOOLEAN : Deliver(h, t, a)
    PROVE  Strands' \subseteq Strands
<1> SUFFICES ASSUME NEW t \in Txns, Stranded(t)'
             PROVE  Stranded(t)
    BY DEF Strands
<1> USE DEF QueueInv, Typing, TypeOK
<1>1. ASSUME NEW u \in Txns, NEW a \in BOOLEAN, Deliver(h, u, a)
      PROVE  Stranded(t)
    BY <1>1 DEF Stranded, Deliver, Answer, Goto
<1>2. CASE AlertUnparseable(h) \/ Respond(h)
    BY <1>2 DEF Stranded, AlertUnparseable, Respond, Answer, Done, Goto, Events
<1>3. CASE Credit(h)
  <2>1. CASE ledger[txn[h]] # "absent"
      BY <1>3, <2>1 DEF Stranded, Credit, Answer, Goto
  <2>2. CASE ledger[txn[h]] = "absent"
    <3>1. /\ ledger' = [ledger EXCEPT ![txn[h]] = Record(txn[h])]
          /\ pc' = [pc EXCEPT ![h] = IF txn[h] \in Known THEN "enqueueing"
                                                        ELSE "alerting_unmatched"]
          /\ UNCHANGED <<queued, txn, alerted>>
        BY <1>3, <2>2 DEF Credit, Goto
    <3>2. t # txn[h]
        BY <3>1 DEF Stranded, Record
    <3>. QED
        BY <3>1, <3>2, OnlyItsOwn
  <2>. QED
      BY <2>1, <2>2
<1>4. CASE AlertUnmatched(h)
  <2>1. pc' = [pc EXCEPT ![h] = "responding"] /\ UNCHANGED <<ledger, queued, txn>>
      BY <1>4 DEF AlertUnmatched, Answer, Goto
  <2>2. alerted' = alerted \cup {<<"payment.unmatched", txn[h]>>}
      BY <1>4 DEF AlertUnmatched
  <2>3. CASE t # txn[h]
      BY <2>1, <2>2, <2>3, OnlyItsOwn
  <2>4. CASE t = txn[h]
      BY <1>4, <2>1, <2>2, <2>4 DEF Stranded, AlertUnmatched
  <2>. QED
      BY <2>3, <2>4
<1>5. CASE Enqueue(h)
  <2>1. /\ pc' = [pc EXCEPT ![h] = "responding"]
        /\ queued' = [queued EXCEPT ![txn[h]] = @ + 1]
        /\ UNCHANGED <<ledger, alerted, txn>>
      BY <1>5 DEF Enqueue, Answer, Goto
  <2>2. CASE t # txn[h]
      BY <2>1, <2>2, OnlyItsOwn
  <2>3. CASE t = txn[h]
      BY <1>5, <2>1, <2>3 DEF Stranded, Enqueue, OneEnqueuer
  <2>. QED
      BY <2>2, <2>3
<1>. QED
    BY <1>1, <1>2, <1>3, <1>4, <1>5 DEF Handle

\* A fault strands one transaction at most, the one its request is about.
LEMMA FaultStrandsOne ==
    ASSUME QueueInv, NEW h \in Handlers, Raise(h) \/ Lose(h)
    PROVE  Strands' \subseteq Strands \cup {txn[h]} /\ faults' = faults + 1
<1>1. faults' = faults + 1
    BY DEF Raise, Lose, Fault
<1>2. /\ \A g \in Handlers \ {h} : pc'[g] = pc[g] /\ txn'[g] = txn[g]
      /\ \A t \in Txns \ {txn[h]} : ledger'[t] = ledger[t] /\ queued'[t] = queued[t]
      /\ alerted \subseteq alerted'
  <2>1. CASE Raise(h)
      BY <2>1, RaiseFrame DEF QueueInv, Typing, TypeOK
  <2>2. CASE Lose(h)
      BY <2>2 DEF Lose, Done, Goto, QueueInv, Typing, TypeOK
  <2>. QED
      BY <2>1, <2>2
<1>3. ASSUME NEW t \in Txns, t # txn[h], Stranded(t)'
      PROVE  Stranded(t)
    BY <1>2, <1>3, OnlyItsOwn
<1>. QED
    BY <1>1, <1>3 DEF Strands

StrandsCounted == IsFiniteSet(Strands) /\ Cardinality(Strands) <= faults

LEMMA StrandsStep == QueueInv /\ StrandsCounted /\ [Next]_vars => StrandsCounted'
<1> SUFFICES ASSUME QueueInv, StrandsCounted, [Next]_vars
             PROVE  StrandsCounted'
    OBVIOUS
<1>1. faults \in Nat /\ Cardinality(Strands) \in Nat
    BY FS_CardinalityType, WebhookConstants DEF StrandsCounted, QueueInv, Typing, TypeOK
<1>2. ASSUME Strands' \subseteq Strands, faults' = faults
      PROVE  StrandsCounted'
  <2>1. Strands' \in SUBSET Strands
      BY <1>2
  <2>2. /\ IsFiniteSet(Strands')
        /\ Cardinality(Strands') <= Cardinality(Strands)
        /\ Cardinality(Strands') \in Nat
      BY <2>1, FS_Subset, FS_CardinalityType DEF StrandsCounted
  <2>. QED
      BY <1>1, <1>2, <2>2 DEF StrandsCounted
<1>3. ASSUME NEW h \in Handlers, Raise(h) \/ Lose(h)
      PROVE  StrandsCounted'
  <2> DEFINE More == Strands \cup {txn[h]}
  <2>1. /\ IsFiniteSet(More)
        /\ Cardinality(More) <= Cardinality(Strands) + 1
        /\ Cardinality(More) \in Nat
    <3>1. IsFiniteSet(Strands)
        BY DEF StrandsCounted
    <3>2. IsFiniteSet(More) /\ Cardinality(More) \in Nat
        BY <3>1, FS_AddElement, FS_CardinalityType
    <3>3. Cardinality(More) = IF txn[h] \in Strands THEN Cardinality(Strands)
                                                   ELSE Cardinality(Strands) + 1
        BY <3>1, FS_AddElement
    <3>. QED
        BY <1>1, <3>2, <3>3
  <2>2. Strands' \in SUBSET More /\ faults' = faults + 1
      BY <1>3, FaultStrandsOne
  <2>3. /\ IsFiniteSet(Strands')
        /\ Cardinality(Strands') <= Cardinality(More)
        /\ Cardinality(Strands') \in Nat
      BY <2>1, <2>2, FS_Subset, FS_CardinalityType
  <2>. QED
      BY <1>1, <2>1, <2>2, <2>3 DEF StrandsCounted
<1>4. ASSUME NEW h \in Handlers,
             Handle(h) \/ \E t \in Txns, a \in BOOLEAN : Deliver(h, t, a)
      PROVE  StrandsCounted'
  <2>1. faults' = faults
      BY <1>4 DEF Handle, Deliver, AlertUnparseable, Credit, AlertUnmatched, Enqueue, Respond
  <2>. QED
      BY <1>2, <1>4, <2>1, NoFaultNoStrand
<1>5. CASE UNCHANGED vars \/ \E t \in Txns : Pay(t)
  <2>1. UNCHANGED <<ledger, queued, alerted, pc, txn, faults>>
      BY <1>5 DEF vars, Pay, requests
  <2>2. Strands' = Strands
      BY <2>1 DEF Strands, Stranded
  <2>. QED
      BY <1>2, <2>1, <2>2
<1>. QED
    BY <1>3, <1>4, <1>5 DEF Next

\* However many deliveries race and retry, each fault leaves one recorded payment
\* without its activation or its alert at most, and nothing else leaves any.
THEOREM FaultsStrandOneEach == Spec => []StrandedByFaults
<1>1. Init => StrandsCounted
  <2>1. ASSUME Init
        PROVE  Strands = {} /\ faults = 0
      BY <2>1 DEF Init, Strands, Stranded
  <2>. QED
      BY <2>1, FS_EmptySet DEF StrandsCounted
<1>2. StrandsCounted => StrandedByFaults
    BY DEF StrandsCounted, StrandedByFaults, Strands
<1>. QED
    BY <1>1, <1>2, StrandsStep, QueueAlways, PTL DEF Spec
=============================================================================
