-------------------------- MODULE OrderAnswersProofs --------------------------
(***************************************************************************)
(* Proofs about OrderSessions and, below, about OrderAnswers, which adds   *)
(* what callers are told, for every set of sessions and products and       *)
(* every number of calls, sagas and charges.                               *)
(*                                                                         *)
(* The row is good although sessions overwrite each other's decisions,     *)
(* because what a session is about to save is good by itself: it was made  *)
(* by a method of the aggregate of a good row, whichever row is there by   *)
(* now.  The same holds of the history: a session at "save" has put its    *)
(* entry, and entries stay.                                                *)
(***************************************************************************)
EXTENDS OrderAnswers, ServiceOrderProofs, FiniteSetTheorems, TLAPS

\* A row that n sagas and the entries h account for.
RowGood(x, n) == GoodRow(x) /\ x.sagaId \in 0..n

Recorded(status, h) == status = "RECEIVED" \/ \E e \in h : e.new = status

\* What a session holds, where its next write relies on it.
SessionGood(r, n, h) ==
  /\ r \in SessionRecord
  /\ r.pc \in {"record", "save", "launch"} => RowGood(r.next, n)
  /\ r.pc \in {"save", "launch"} => Recorded(r.next.status, h)
  /\ r.pc = "start" => r.target \in InferableTarget
  /\ r.pc \in {"launch", "publish"} => r.saga \in 1..n

Logs ==
  /\ history \subseteq Entry
  /\ calls \in Nat /\ sagas \in Nat /\ charges \in Nat
  /\ requests \subseteq 1..sagas
  /\ replies \subseteq [saga : 1..sagas, ok : BOOLEAN]

IInv ==
  /\ Logs
  /\ RowGood(row, sagas)
  /\ Recorded(row.status, history)
  /\ session \in [Sessions -> SessionRecord]
  /\ \A s \in Sessions : SessionGood(session[s], sagas, history)

\* What a step of session s leaves behind.
SessionStep(s) ==
  \E r \in SessionRecord :
    /\ session' = [session EXCEPT ![s] = r]
    /\ SessionGood(r, sagas', history')

StepOf(s) ==
  /\ Logs'
  /\ RowGood(row', sagas')
  /\ Recorded(row'.status, history')
  /\ SessionStep(s)
  /\ sagas <= sagas' /\ history \subseteq history'

-----------------------------------------------------------------------------
(* What a session holds stays good *)

LEMMA SessionStays ==
  ASSUME NEW r, NEW n \in Nat, NEW h, SessionGood(r, n, h),
         NEW m \in Nat, n <= m, NEW k, h \subseteq k
  PROVE  SessionGood(r, m, k)
<1>1. r.next.sagaId \in 0..n => r.next.sagaId \in 0..m
  OBVIOUS
<1>2. r.saga \in 1..n => r.saga \in 1..m
  OBVIOUS
<1>3. Recorded(r.next.status, h) => Recorded(r.next.status, k)
  BY DEF Recorded
<1> QED  BY <1>1, <1>2, <1>3 DEF SessionGood, RowGood

LEMMA StepKeeps ==
  ASSUME IInv, NEW s \in Sessions, StepOf(s)
  PROVE  IInv'
<1>1. PICK r \in SessionRecord :
        session' = [session EXCEPT ![s] = r] /\ SessionGood(r, sagas', history')
  BY DEF StepOf, SessionStep
<1>2. session' \in [Sessions -> SessionRecord]
  BY <1>1 DEF IInv
<1>3. ASSUME NEW q \in Sessions
      PROVE  SessionGood(session'[q], sagas', history')
  <2>1. CASE q = s
    BY <1>1, <2>1 DEF IInv
  <2>2. CASE q # s
    <3>1. session'[q] = session[q]
      BY <1>1, <2>2 DEF IInv
    <3>2. SessionGood(session[q], sagas, history)
      BY DEF IInv
    <3>3. sagas \in Nat /\ sagas' \in Nat /\ sagas <= sagas' /\ history \subseteq history'
      BY DEF IInv, StepOf, Logs
    <3> QED  BY <3>1, <3>2, <3>3, SessionStays
  <2> QED  BY <2>1, <2>2
<1> QED  BY <1>2, <1>3 DEF IInv, StepOf

-----------------------------------------------------------------------------
(* The ways a session goes on *)

LEMMA NoItems == GoodRow(NewServiceOrder({})) /\ NewServiceOrder({}) \in ServiceOrder
BY NewRow DEF GoodRow

LEMMA EndsStep ==
  ASSUME NEW s \in Sessions, Ends(s)
  PROVE  SessionStep(s)
<1> DEFINE r == Idle(NewServiceOrder({}))
<1>1. r \in SessionRecord /\ r.pc = "idle"
  BY NoItems DEF Idle, SessionRecord, PC, NoId
<1>2. SessionGood(r, sagas', history')
  BY <1>1 DEF SessionGood
<1> QED  BY <1>1, <1>2 DEF Ends, SessionStep

LEMMA DecidesStep ==
  ASSUME IInv, NEW s \in Sessions, NEW x, RowGood(x, sagas), Decides(s, x),
         UNCHANGED <<sagas, history>>
  PROVE  SessionStep(s)
<1> DEFINE r == [session[s] EXCEPT !.pc = "record", !.loaded = row, !.next = x]
<1>1. session[s] \in SessionRecord /\ row \in ServiceOrder /\ x \in ServiceOrder
  BY DEF IInv, RowGood, GoodRow
<1>2. r \in SessionRecord /\ r.pc = "record" /\ r.next = x
  BY <1>1 DEF SessionRecord, PC
<1>3. session' = [session EXCEPT ![s] = r]
  BY DEF Decides, IInv
<1>4. SessionGood(r, sagas', history')
  BY <1>2 DEF SessionGood
<1> QED  BY <1>2, <1>3, <1>4 DEF SessionStep

LEMMA TransitionLocalStep ==
  ASSUME IInv, NEW s \in Sessions, NEW t, TransitionLocal(s, t),
         UNCHANGED <<sagas, history>>
  PROVE  SessionStep(s)
<1>1. CASE CanSettle(row, t)
  <2>1. RowGood(Settle(row, t), sagas)
    BY <1>1, SettledRow DEF IInv, RowGood, NoId, Logs
  <2> QED  BY <1>1, <2>1, DecidesStep DEF TransitionLocal
<1>2. CASE ~CanSettle(row, t)
  BY <1>2, EndsStep DEF TransitionLocal
<1> QED  BY <1>1, <1>2

\* A session about to load again relies on nothing but its target.
LEMMA MovesOnStep ==
  ASSUME IInv, NEW s \in Sessions, NEW r \in SessionRecord,
         session' = [session EXCEPT ![s] = r],
         \/ r.pc \in {"cancel", "settle"}
         \/ r.pc = "start" /\ r.target \in InferableTarget
  PROVE  SessionStep(s)
BY DEF SessionStep, SessionGood

-----------------------------------------------------------------------------
(* The actions *)

LEMMA CallSteps ==
  ASSUME IInv, NEW s \in Sessions, Calls(s)
  PROVE  StepOf(s)
<1>1. Handles(s)
  BY DEF Calls, AdvanceDirectly, AdvanceBySaga, StartPayment, Approve, Deny, Delete,
         EditItems, HandleWebhook, Receive, Refuse
<1>2. /\ UNCHANGED <<row, history, sagas, requests, replies>>
      /\ calls' \in Nat
  BY <1>1 DEF Handles, IInv, Logs
<1>3. charges' \in Nat
  <2>1. charges' = charges \/ charges' = charges + 1
    BY DEF Calls, AdvanceDirectly, AdvanceBySaga, StartPayment, Approve, Deny, Delete,
           EditItems, HandleWebhook, Receive, Refuse
  <2> QED  BY <2>1 DEF IInv, Logs
<1>4. GoodRow(row) /\ row.sagaId \in 0..sagas /\ 0 \in 0..sagas
  BY DEF IInv, RowGood, Logs
<1>5. session[s] \in SessionRecord /\ session[s].saga \in Nat
  BY DEF IInv, SessionRecord
<1>6. SessionStep(s)
  <2>1. CASE AdvanceDirectly(s)
    <3> DEFINE x == UpdateStatus(row, NextStatus(row.status))
    <3>1. RowGood(x, sagas)
      BY <1>4, <2>1, UpdatedRow DEF AdvanceDirectly, RowGood
    <3>2. Decides(s, x)
      BY <2>1 DEF AdvanceDirectly
    <3> QED  BY <1>2, <3>1, <3>2, DecidesStep
  <2>2. CASE AdvanceBySaga(s)
    <3> DEFINE t == NextStatus(row.status)
               r == [session[s] EXCEPT !.pc = "start", !.target = t]
    <3>1. t \in InferableTarget
      BY <2>2 DEF AdvanceBySaga, HasNextStatus, NextStatus, DetermineInventoryOperation,
                  InferableTarget, Final, BeforeCompletion
    <3>2. r \in SessionRecord /\ r.pc = "start" /\ r.target = t
      BY <1>5, <3>1 DEF SessionRecord, PC, InferableTarget, Status
    <3>3. session' = [session EXCEPT ![s] = r]
      BY <2>2 DEF AdvanceBySaga, IInv
    <3> QED  BY <3>1, <3>2, <3>3, MovesOnStep
  <2>3. CASE StartPayment(s)
    <3> DEFINE x == AwaitPayment(row, charges')
    <3>1. CanTransitionTo(row.status, "AWAITING_PAYMENT")
      BY <2>3 DEF StartPayment, CanTransitionTo, NormalFlow, Final
    <3>2. RowGood(x, sagas)
      BY <1>3, <1>4, <3>1, PaymentRow DEF Row, RowGood, NoId
    <3>3. Decides(s, x)
      BY <2>3 DEF StartPayment
    <3> QED  BY <1>2, <3>2, <3>3, DecidesStep
  <2>4. CASE Approve(s)
    <3> DEFINE x == UpdateStatus(row, "AUTHORIZED")
    <3>1. CanTransitionTo(row.status, "AUTHORIZED")
      BY <2>4 DEF Approve, CanTransitionTo, NormalFlow, Final
    <3>2. RowGood(x, sagas)
      BY <1>4, <3>1, UpdatedRow DEF RowGood
    <3>3. Decides(s, x)
      BY <2>4 DEF Approve
    <3> QED  BY <1>2, <3>2, <3>3, DecidesStep
  <2>5. CASE Deny(s)
    <3> DEFINE r == [session[s] EXCEPT !.pc = "start", !.target = "AUTHORIZATION_DENIED"]
    <3>1. "AUTHORIZATION_DENIED" \in InferableTarget
      BY DEF InferableTarget
    <3>2. r \in SessionRecord /\ r.pc = "start" /\ r.target = "AUTHORIZATION_DENIED"
      BY <1>5 DEF SessionRecord, PC, Status
    <3>3. session' = [session EXCEPT ![s] = r]
      BY <2>5 DEF Deny, IInv
    <3> QED  BY <3>1, <3>2, <3>3, MovesOnStep
  <2>6. CASE Delete(s)
    <3> DEFINE r == [session[s] EXCEPT !.pc = "cancel"]
    <3>1. r \in SessionRecord /\ r.pc = "cancel"
      BY <1>5 DEF SessionRecord, PC
    <3>2. session' = [session EXCEPT ![s] = r]
      BY <2>6 DEF Delete, Goes, IInv
    <3> QED  BY <3>1, <3>2, MovesOnStep
  <2>7. CASE EditItems(s)
    <3>1. PICK i \in SUBSET Products : Decides(s, [row EXCEPT !.items = i])
      BY <2>7 DEF EditItems
    <3>2. RowGood([row EXCEPT !.items = i], sagas)
      BY <1>4, EditedRow DEF RowGood
    <3> QED  BY <1>2, <3>1, <3>2, DecidesStep
  <2>8. CASE HandleWebhook(s)
    <3>1. CASE row.status = "AWAITING_PAYMENT"
      <4>1. /\ CanTransitionTo(row.status, "PAID")
            /\ CanTransitionTo(row.status, "PAYMENT_REJECTED")
        BY <3>1 DEF CanTransitionTo, NormalFlow, Final
      <4>2. \A p \in Nat : RowGood(ConfirmPayment(row, p), sagas)
        BY <1>4, <4>1, PaymentRow DEF Row, RowGood, NoId
      <4>3. RowGood(RejectPayment(row), sagas)
        BY <1>4, <4>1, PaymentRow DEF Row, RowGood, NoId
      <4>4. (\E p \in Nat : Decides(s, ConfirmPayment(row, p))) \/ Decides(s, RejectPayment(row))
        BY <2>8, <3>1 DEF HandleWebhook
      <4> QED  BY <1>2, <4>2, <4>3, <4>4, DecidesStep
    <3>2. CASE row.status = "PAID"
      <4>1. CanTransitionTo(row.status, "CANCELED")
        BY <3>2 DEF CanTransitionTo, Final
      <4>2. RowGood(CancelAfterRefund(row), sagas)
        BY <1>4, <4>1, UpdatedRow DEF CancelAfterRefund, RowGood
      <4>3. Decides(s, CancelAfterRefund(row))
        BY <2>8, <3>2 DEF HandleWebhook
      <4> QED  BY <1>2, <4>2, <4>3, DecidesStep
    <3> QED  BY <2>8, <3>1, <3>2 DEF HandleWebhook
  <2>9. CASE \E m \in replies : Receive(s, m)
    <3>1. PICK m \in replies : Receive(s, m)
      BY <2>9
    <3> DEFINE r == [session[s] EXCEPT !.pc = "settle", !.saga = m.saga, !.ok = m.ok]
    <3>2. m.saga \in Nat /\ m.ok \in BOOLEAN
      BY DEF IInv, Logs
    <3>3. r \in SessionRecord /\ r.pc = "settle"
      BY <1>5, <3>2 DEF SessionRecord, PC
    <3>4. session' = [session EXCEPT ![s] = r]
      BY <3>1 DEF Receive, IInv
    <3> QED  BY <3>3, <3>4, MovesOnStep
  <2>10. CASE Refuse(s)
    <3>1. session' = [session EXCEPT ![s] = session[s]]
      BY <2>10 DEF Refuse, IInv
    <3>2. SessionGood(session[s], sagas', history')
      BY <1>2 DEF IInv
    <3> QED  BY <1>5, <3>1, <3>2 DEF SessionStep
  <2> QED  BY <2>1, <2>2, <2>3, <2>4, <2>5, <2>6, <2>7, <2>8, <2>9, <2>10 DEF Calls
<1> QED  BY <1>2, <1>3, <1>6 DEF StepOf, IInv, Logs

LEMMA CancelOrderSteps ==
  ASSUME IInv, NEW s \in Sessions, CancelOrder(s)
  PROVE  StepOf(s)
<1>1. UNCHANGED <<row, history, sagas, calls, charges, requests, replies>>
  BY DEF CancelOrder, externals
<1>2. SessionStep(s)
  <2>1. CASE Ends(s)
    BY <2>1, EndsStep
  <2>2. CASE TransitionLocal(s, "CANCELED")
    BY <1>1, <2>2, TransitionLocalStep
  <2>3. CASE session' = [session EXCEPT ![s].pc = "start", ![s].target = "CANCELED"]
    <3> DEFINE r == [session[s] EXCEPT !.pc = "start", !.target = "CANCELED"]
    <3>1. session[s] \in SessionRecord
      BY DEF IInv
    <3>2. r \in SessionRecord /\ r.pc = "start" /\ r.target = "CANCELED"
      BY <3>1 DEF SessionRecord, PC, Status
    <3>3. session' = [session EXCEPT ![s] = r]
      BY <2>3 DEF IInv
    <3>4. "CANCELED" \in InferableTarget
      BY DEF InferableTarget
    <3> QED  BY <3>2, <3>3, <3>4, MovesOnStep
  <2> QED  BY <2>1, <2>2, <2>3 DEF CancelOrder
<1> QED  BY <1>1, <1>2 DEF StepOf, IInv, Logs

LEMMA StartSagaSteps ==
  ASSUME IInv, NEW s \in Sessions, StartSaga(s)
  PROVE  StepOf(s)
<1>1. UNCHANGED <<row, history, calls, charges, requests, replies>>
  BY DEF StartSaga, externals
<1>2. /\ At(s, "start") /\ session[s] \in SessionRecord
      /\ session[s].target \in InferableTarget
  BY DEF StartSaga, At, IInv, SessionGood
<1>3. CASE UNCHANGED sagas
  <2>1. SessionStep(s)
    <3>1. CASE Ends(s)
      BY <3>1, EndsStep
    <3>2. CASE TransitionLocal(s, session[s].target)
      BY <1>1, <1>3, <3>2, TransitionLocalStep
    <3>3. Ends(s) \/ TransitionLocal(s, session[s].target)
      BY <1>3 DEF StartSaga, IInv, Logs
    <3> QED  BY <3>1, <3>2, <3>3
  <2> QED  BY <1>1, <1>3, <2>1 DEF StepOf, IInv, Logs
<1>4. CASE ~UNCHANGED sagas
  <2> DEFINE x == MarkSagaStarted(row, sagas', session[s].target)
             r == [session[s] EXCEPT !.pc = "launch", !.loaded = row, !.saga = sagas', !.next = x]
  <2>1. /\ sagas' = sagas + 1
        /\ session' = [session EXCEPT
             ![s].pc = "launch", ![s].loaded = row, ![s].saga = sagas', ![s].next = x]
    BY <1>4 DEF StartSaga
  <2>2. sagas \in Nat /\ sagas' \in Nat /\ sagas' # NoId /\ sagas' \in 1..sagas'
    BY <2>1 DEF IInv, Logs, NoId
  <2>3. GoodRow(row) /\ row \in ServiceOrder /\ row.sagaId \in 0..sagas
    BY DEF IInv, RowGood, GoodRow
  <2>4. GoodRow(x) /\ x.status = row.status /\ x.sagaId = sagas'
    BY <1>2, <2>2, <2>3, StartedRow
  <2>5. x \in ServiceOrder
    BY <2>4 DEF GoodRow
  <2> HIDE DEF x
  <2>6. /\ r \in SessionRecord
        /\ r.pc = "launch" /\ r.next = x /\ r.saga = sagas'
    BY <1>2, <2>2, <2>3, <2>5 DEF SessionRecord, PC
  <2>7. session' = [session EXCEPT ![s] = r]
    BY <2>1 DEF IInv
  <2> HIDE DEF r
  <2>8. SessionGood(r, sagas', history')
    BY <1>1, <2>2, <2>4, <2>6 DEF SessionGood, RowGood, IInv, Recorded
  <2>9. SessionStep(s)
    BY <2>6, <2>7, <2>8 DEF SessionStep
  <2>10. Logs'
    <3>1. 1..sagas \subseteq 1..sagas'
      BY <2>1, <2>2
    <3> QED  BY <1>1, <2>2, <3>1 DEF IInv, Logs
  <2>11. RowGood(row', sagas') /\ Recorded(row'.status, history')
    BY <1>1, <2>1, <2>2, <2>3 DEF RowGood, IInv
  <2> QED  BY <1>1, <2>1, <2>2, <2>9, <2>10, <2>11 DEF StepOf
<1> QED  BY <1>3, <1>4

LEMMA HandleReplySteps ==
  ASSUME IInv, NEW s \in Sessions, HandleReply(s)
  PROVE  StepOf(s)
<1>1. UNCHANGED <<row, history, sagas, calls, charges, requests, replies>>
  BY DEF HandleReply, externals
<1>2. SessionStep(s)
  <2>1. CASE Ends(s)
    BY <2>1, EndsStep
  <2>2. CASE TransitionLocal(s, row.target)
    BY <1>1, <2>2, TransitionLocalStep
  <2>3. CASE Decides(s, FailSaga(row))
    <3>1. RowGood(FailSaga(row), sagas)
      BY ClearedRow DEF IInv, RowGood, FailSaga, SagaStatus, NoId, Logs
    <3> QED  BY <1>1, <2>3, <3>1, DecidesStep
  <2> QED  BY <2>1, <2>2, <2>3 DEF HandleReply
<1> QED  BY <1>1, <1>2 DEF StepOf, IInv, Logs

LEMMA SaveHistorySteps ==
  ASSUME IInv, NEW s \in Sessions, SaveHistory(s)
  PROVE  StepOf(s)
<1> DEFINE e == [old |-> session[s].loaded.status, new |-> session[s].next.status]
           r == [session[s] EXCEPT !.pc = "save"]
<1>1. /\ UNCHANGED <<row, sagas, calls, charges, requests, replies>>
      /\ history' = history \cup {e}
      /\ session[s].pc = "record" /\ session' = [session EXCEPT ![s] = r]
  BY DEF SaveHistory, externals, At, Goes, IInv
<1>2. session[s] \in SessionRecord /\ SessionGood(session[s], sagas, history)
  BY DEF IInv
<1>3. e \in Entry /\ e.new = session[s].next.status
  BY <1>2 DEF SessionRecord, ServiceOrder, Entry
<1>4. /\ r \in SessionRecord /\ r.pc = "save" /\ r.next = session[s].next
  BY <1>2 DEF SessionRecord, PC
<1>5. SessionGood(r, sagas', history')
  BY <1>1, <1>2, <1>3, <1>4 DEF SessionGood, Recorded
<1>6. SessionStep(s)
  BY <1>1, <1>4, <1>5 DEF SessionStep
<1> QED  BY <1>1, <1>3, <1>6 DEF StepOf, IInv, Logs, Recorded

LEMMA SaveRowSteps ==
  ASSUME IInv, NEW s \in Sessions, SaveRow(s)
  PROVE  StepOf(s)
<1>1. /\ UNCHANGED <<history, sagas, calls, charges, requests, replies>>
      /\ row' = session[s].next
  BY DEF SaveRow, externals
<1>2. session[s] \in SessionRecord /\ SessionGood(session[s], sagas, history)
  BY DEF IInv
<1>3. session[s].pc \in {"save", "launch"}
  BY DEF SaveRow, At
<1>4. RowGood(row', sagas') /\ Recorded(row'.status, history')
  BY <1>1, <1>2, <1>3 DEF SessionGood
<1>5. SessionStep(s)
  <2>1. CASE Ends(s)
    BY <2>1, EndsStep
  <2>2. CASE At(s, "launch") /\ Goes(s, "publish")
    <3> DEFINE r == [session[s] EXCEPT !.pc = "publish"]
    <3>1. session' = [session EXCEPT ![s] = r]
      BY <2>2 DEF Goes, IInv
    <3>2. r \in SessionRecord /\ r.pc = "publish" /\ r.saga = session[s].saga
      BY <1>2 DEF SessionRecord, PC
    <3>3. SessionGood(r, sagas', history')
      BY <1>1, <1>2, <2>2, <3>2 DEF SessionGood, At
    <3> QED  BY <3>1, <3>2, <3>3 DEF SessionStep
  <2> QED  BY <2>1, <2>2 DEF SaveRow
<1> QED  BY <1>1, <1>4, <1>5 DEF StepOf, IInv, Logs

LEMMA PublishSteps ==
  ASSUME IInv, NEW s \in Sessions, Publish(s)
  PROVE  StepOf(s)
<1>1. /\ UNCHANGED <<row, history, sagas, calls, charges, replies>>
      /\ requests' = requests \cup {session[s].saga} /\ Ends(s)
  BY DEF Publish
<1>2. session[s].saga \in 1..sagas
  BY DEF Publish, At, IInv, SessionGood
<1>3. SessionStep(s)
  BY <1>1, EndsStep
<1>4. requests' \subseteq 1..sagas'
  BY <1>1, <1>2 DEF IInv, Logs
<1>5. Logs'
  BY <1>1, <1>4 DEF IInv, Logs
<1> QED  BY <1>1, <1>3, <1>5 DEF StepOf, IInv, Logs

LEMMA AbandonSteps ==
  ASSUME IInv, NEW s \in Sessions, Abandon(s)
  PROVE  StepOf(s)
<1>1. UNCHANGED <<row, history, sagas, calls, charges, requests, replies>> /\ Ends(s)
  BY DEF Abandon, externals
<1> QED  BY <1>1, EndsStep DEF StepOf, IInv, Logs

LEMMA AnswerKeeps ==
  ASSUME IInv, NEW saga \in requests, Answer(saga)
  PROVE  IInv'
<1>1. UNCHANGED <<row, history, session, calls, sagas, charges, requests>>
  BY DEF Answer
<1>2. PICK ok \in BOOLEAN : replies' = replies \cup {[saga |-> saga, ok |-> ok]}
  BY DEF Answer
<1>3. Logs'
  BY <1>1, <1>2 DEF IInv, Logs
<1> QED  BY <1>1, <1>3 DEF IInv

-----------------------------------------------------------------------------
(* The invariant *)

LEMMA InitIInv == Init => IInv
<1> SUFFICES ASSUME Init PROVE IInv
  OBVIOUS
<1>1. PICK n \in 1..8, items \in SUBSET Products :
        /\ row = RowAt(n, items)
        /\ history = {[old |-> Flow[i - 1], new |-> Flow[i]] : i \in 2..n}
        /\ charges = IF n >= 7 THEN 1 ELSE 0
        /\ session = [s \in Sessions |-> Idle(NewServiceOrder({}))]
        /\ calls = 0 /\ sagas = 0 /\ requests = {} /\ replies = {}
  BY DEF Init
<1>2. \A i \in 1..8 : Flow[i] \in Status /\ (i >= 6 <=> Flow[i] \notin BeforeCompletion)
  BY DEF Flow, Status, BeforeCompletion
<1>3. GoodRow(row) /\ row.status = Flow[n] /\ row.sagaId = NoId
  <2> DEFINE sagaStatus == IF n = 7 THEN "AWAITING_PAYMENT" ELSE "IDLE"
  <2>1. row = [status |-> Flow[n], sagaStatus |-> sagaStatus, sagaId |-> NoId,
               target |-> NoStatus, items |-> items,
               mpOrder |-> IF n >= 7 THEN 1 ELSE NoId,
               mpPayment |-> IF n = 8 THEN 1 ELSE NoId, closed |-> n >= 6]
    BY <1>1 DEF RowAt, NewServiceOrder
  <2>2. sagaStatus \in SagaStatus \ {"AWAITING_INVENTORY"}
    BY DEF SagaStatus
  <2> HIDE DEF sagaStatus
  <2>3. row \in ServiceOrder
    BY <1>2, <2>1, <2>2 DEF ServiceOrder, NoId
  <2>4. Columns(row)
    BY <2>1, <2>2 DEF Columns, AwaitingInventory
  <2>5. Stamped(row)
    BY <1>2, <2>1 DEF Stamped
  <2> QED  BY <2>1, <2>3, <2>4, <2>5 DEF GoodRow
<1>4. Recorded(row.status, history)
  <2>1. CASE n = 1
    BY <1>3, <2>1 DEF Recorded, Flow
  <2>2. CASE n # 1
    <3>1. [old |-> Flow[n - 1], new |-> Flow[n]] \in history
      BY <1>1, <2>2
    <3> QED  BY <1>3, <3>1 DEF Recorded
  <2> QED  BY <2>1, <2>2
<1>5. Logs
  <2>1. \A i \in 2..n : [old |-> Flow[i - 1], new |-> Flow[i]] \in Entry
    BY <1>1, <1>2 DEF Entry
  <2> QED  BY <1>1, <2>1 DEF Logs
<1>6. \A s \in Sessions : session[s] \in SessionRecord /\ session[s].pc = "idle"
  BY <1>1, NoItems DEF Idle, SessionRecord, PC, NoId
<1>7. session \in [Sessions -> SessionRecord]
  BY <1>1, <1>6
<1>8. \A s \in Sessions : SessionGood(session[s], sagas, history)
  BY <1>6 DEF SessionGood
<1> QED  BY <1>1, <1>3, <1>4, <1>5, <1>7, <1>8 DEF IInv, RowGood, NoId

LEMMA NextIInv == IInv /\ [Next]_vars => IInv'
<1> SUFFICES ASSUME IInv, [Next]_vars PROVE IInv'
  OBVIOUS
<1>1. ASSUME NEW s \in Sessions, Calls(s) \/ Steps(s)
      PROVE  StepOf(s)
  BY <1>1, CallSteps, CancelOrderSteps, StartSagaSteps, HandleReplySteps, SaveHistorySteps,
     SaveRowSteps, PublishSteps, AbandonSteps DEF Steps
<1>2. CASE \E s \in Sessions : Calls(s) \/ Steps(s)
  BY <1>1, <1>2, StepKeeps
<1>3. CASE \E saga \in requests : Answer(saga)
  BY <1>3, AnswerKeeps
<1>4. CASE UNCHANGED vars
  BY <1>4 DEF vars, IInv, Logs
<1> QED  BY <1>2, <1>3, <1>4 DEF Next

LEMMA Invariant == Spec => []IInv
BY InitIInv, NextIInv, PTL DEF Spec

-----------------------------------------------------------------------------
(* Theorems *)

(***************************************************************************)
(* Row, history, sessions and messages are well typed.                     *)
(***************************************************************************)
THEOREM SessionTypes == Spec => []TypeOK
<1>1. IInv => TypeOK
  BY DEF IInv, Logs, RowGood, GoodRow, TypeOK
<1> QED  BY <1>1, Invariant, PTL

(***************************************************************************)
(* Any number of handlers, interleaved anyhow and stopped anywhere, leave  *)
(* a row that recovery and the consumers can take up: SaveWithItems writes *)
(* it whole.                                                               *)
(***************************************************************************)
THEOREM RowStaysWhole == Spec => []RowIsWhole
<1>1. IInv => RowIsWhole
  BY DEF IInv, Logs, RowGood, GoodRow, Columns, Stamped, RowIsWhole, NoId
<1> QED  BY <1>1, Invariant, PTL

(***************************************************************************)
(* No status without its entry, whichever sessions wrote and whichever     *)
(* stopped: every handler saves the history first.                         *)
(***************************************************************************)
THEOREM HistoryFirst == Spec => []RecordedFirst
<1>1. IInv => RecordedFirst
  BY DEF IInv, Recorded, RecordedFirst
<1> QED  BY <1>1, Invariant, PTL

-----------------------------------------------------------------------------
(***************************************************************************)
(* Proofs about OrderAnswers, for every set of sessions.                   *)
(*                                                                         *)
(* What a caller is told agrees with what was done because of what a       *)
(* session has done by each point of its way (SoFar), whatever the others  *)
(* do.  What only a lone session may rely on (Lone) speaks of the row as   *)
(* well; no other session is under way that could change it.               *)
(***************************************************************************)

Maps ==
  /\ call \in [Sessions -> Operations]
  /\ answer \in [Sessions -> Nat]
  /\ done \in [Sessions -> SUBSET Effects]

\* A decision on the loaded row, which the table allows.
Decision(s) ==
  LET r == session[s]
  IN /\ r.next.status = r.loaded.status \/ CanTransitionTo(r.loaded.status, r.next.status)
     /\ call[s] \in {"advance", "retry"} /\ r.next.status = "AWAITING_PAYMENT"
          => "charge" \in done[s]

SoFar(s) ==
  LET r == session[s]
  IN /\ r.pc # "idle" => answer[s] = 0 /\ "decision" \notin done[s]
     /\ r.pc \in {"record", "save"} => Decision(s)
     /\ r.pc = "save" => /\ "history" \in done[s]
                         /\ [old |-> r.loaded.status, new |-> r.next.status] \in history
     /\ r.pc = "launch" => r.next.status = r.loaded.status
     /\ r.pc = "publish" => "saga" \in done[s]
     /\ r.pc = "settle" => call[s] = "none"
     /\ r.pc = "cancel" => call[s] = "delete"

Answered(s) ==
  /\ answer[s] = 200 => {"history", "decision"} \subseteq done[s]
  /\ answer[s] = 202 => \/ {"saga", "request"} \subseteq done[s]
                        \/ {"charge", "history", "decision"} \subseteq done[s]
  /\ answer[s] >= 400 => "decision" \notin done[s]

\* Nothing was done yet, or the payment of a row that is still PAID was refunded.
Undecided(s) ==
  \/ done[s] = {}
  \/ /\ done[s] = {"refund"}
     /\ row.status = "PAID"
     /\ session[s].pc = "start" => session[s].target = "CANCELED"

Lone(s) ==
  /\ session[s].pc \in {"record", "save", "launch"} => session[s].loaded = row
  /\ session[s].pc \in {"cancel", "start"} => Undecided(s)
  /\ answer[s] = 409 => done[s] = {}

AInv ==
  /\ Maps
  /\ \A s \in Sessions : SoFar(s) /\ Answered(s)
  /\ alone => Cardinality(Underway) <= 1 /\ \A s \in Sessions : Lone(s)

\* What a step of s does to the other sessions and to itself.
Frame(s) ==
  \A q \in Sessions \ {s} :
    /\ session'[q] = session[q] /\ call'[q] = call[q]
    /\ answer'[q] = answer[q] /\ done'[q] = done[q]

Own(s) ==
  /\ Maps' /\ Frame(s)
  /\ history \subseteq history'
  /\ row' # row => session[s].pc # "idle"
  /\ SoFar(s)' /\ Answered(s)'
  /\ Lone(s) => Lone(s)'

-----------------------------------------------------------------------------
(* Steps of OrderAnswers are steps of OrderSessions *)

LEMMA AnswersStep == [AnswersNext]_allVars => [Next]_vars
<1> SUFFICES ASSUME [AnswersNext]_allVars PROVE [Next]_vars
  OBVIOUS
<1>1. CASE UNCHANGED allVars
  BY <1>1 DEF allVars
<1>2. ASSUME NEW s \in Sessions, Call(s)
      PROVE  Calls(s)
  <2>1. \A op, code : Refused(s, op, code) => Calls(s)
    BY DEF Refused, Calls
  <2>2. Conflict(s) \/ Fails(s) => Calls(s)
    BY <2>1 DEF Conflict, Fails
  <2>3. AdvanceServiceOrderStatus(s) \/ AuthorizeServiceOrder(s) \/ RetryPayment(s)
          \/ UpdateServiceOrder(s) \/ DeleteServiceOrder(s) \/ Told(s) => Calls(s)
    BY DEF AdvanceServiceOrderStatus, AuthorizeServiceOrder, RetryPayment,
           UpdateServiceOrder, DeleteServiceOrder, Told, Calls
  <2> QED  BY <1>2, <2>2, <2>3 DEF Call
<1>3. ASSUME NEW s \in Sessions, Step(s)
      PROVE  Steps(s)
  BY <1>3 DEF Step, Steps, Cancels, Starts, Settles, Records, Saves, Publishes, Stops
<1>4. CASE AnswersNext
  BY <1>2, <1>3, <1>4 DEF AnswersNext, Next
<1> QED  BY <1>1, <1>4

-----------------------------------------------------------------------------
(* Where a session goes *)

\* Session s alone changes, to r.
Becomes(s, r) == session' = [session EXCEPT ![s] = r]

LEMMA BecomesFields ==
  ASSUME IInv, NEW s \in Sessions, NEW r, Becomes(s, r)
  PROVE  /\ session'[s] = r
         /\ \A q \in Sessions \ {s} : session'[q] = session[q]
BY DEF Becomes, IInv

Stays(s) == \A q \in Sessions \ {s} : session'[q] = session[q]

LEMMA EndsFields ==
  ASSUME IInv, NEW s \in Sessions, Ends(s)
  PROVE  session'[s].pc = "idle" /\ Stays(s)
<1>1. Becomes(s, Idle(NewServiceOrder({})))
  BY DEF Ends, Becomes
<1>2. Idle(NewServiceOrder({})).pc = "idle"
  BY DEF Idle
<1> QED  BY <1>1, <1>2, BecomesFields DEF Stays

LEMMA DecidesFields ==
  ASSUME IInv, NEW s \in Sessions, NEW x, Decides(s, x)
  PROVE  /\ session'[s].pc = "record" /\ session'[s].loaded = row
         /\ session'[s].next = x /\ Stays(s)
<1> DEFINE r == [session[s] EXCEPT !.pc = "record", !.loaded = row, !.next = x]
<1>1. session[s] \in SessionRecord /\ Becomes(s, r)
  BY DEF Decides, Becomes, IInv
<1>2. r.pc = "record" /\ r.loaded = row /\ r.next = x
  BY <1>1 DEF SessionRecord
<1> QED  BY <1>1, <1>2, BecomesFields DEF Stays

LEMMA GoesFields ==
  ASSUME IInv, NEW s \in Sessions, NEW pc, Goes(s, pc)
  PROVE  /\ session'[s].pc = pc /\ session'[s].loaded = session[s].loaded
         /\ session'[s].next = session[s].next /\ session'[s].target = session[s].target
         /\ Stays(s)
<1> DEFINE r == [session[s] EXCEPT !.pc = pc]
<1>1. session[s] \in SessionRecord /\ Becomes(s, r)
  BY DEF Goes, Becomes, IInv
<1>2. /\ r.pc = pc /\ r.loaded = session[s].loaded
      /\ r.next = session[s].next /\ r.target = session[s].target
  BY <1>1 DEF SessionRecord
<1> QED  BY <1>1, <1>2, BecomesFields DEF Stays

\* To the next load, for a target.
LEMMA TargetFields ==
  ASSUME IInv, NEW s \in Sessions, NEW t,
         session' = [session EXCEPT ![s].pc = "start", ![s].target = t]
  PROVE  session'[s].pc = "start" /\ session'[s].target = t /\ Stays(s)
<1> DEFINE r == [session[s] EXCEPT !.pc = "start", !.target = t]
<1>1. session[s] \in SessionRecord /\ Becomes(s, r)
  BY DEF Becomes, IInv
<1>2. r.pc = "start" /\ r.target = t
  BY <1>1 DEF SessionRecord
<1> QED  BY <1>1, <1>2, BecomesFields DEF Stays

LEMMA TransitionLocalFields ==
  ASSUME IInv, NEW s \in Sessions, NEW t, TransitionLocal(s, t)
  PROVE  /\ Stays(s)
         /\ CanSettle(row, t) => /\ session'[s].pc = "record" /\ session'[s].loaded = row
                                 /\ session'[s].next.status = t
         /\ ~CanSettle(row, t) => session'[s].pc = "idle"
<1>1. GoodRow(row)
  BY DEF IInv, RowGood
<1>2. CASE CanSettle(row, t)
  BY <1>1, <1>2, SettledRow, DecidesFields DEF TransitionLocal
<1>3. CASE ~CanSettle(row, t)
  BY <1>3, EndsFields DEF TransitionLocal
<1> QED  BY <1>2, <1>3

-----------------------------------------------------------------------------
(* What a session is told and has done *)

Wrote(s, c, a, d) ==
  /\ Maps'
  /\ \A q \in Sessions \ {s} : call'[q] = call[q] /\ answer'[q] = answer[q] /\ done'[q] = done[q]
  /\ call'[s] = c /\ answer'[s] = a /\ done'[s] = d

LEMMA WroteAll ==
  ASSUME Maps, NEW s \in Sessions, NEW c \in Operations, NEW a \in Nat, NEW d \in SUBSET Effects,
         call' = [call EXCEPT ![s] = c],
         answer' = [answer EXCEPT ![s] = a],
         done' = [done EXCEPT ![s] = d]
  PROVE  Wrote(s, c, a, d)
BY DEF Maps, Wrote

LEMMA BeginsWrites ==
  ASSUME Maps, NEW s \in Sessions, NEW op \in Operations, Begins(s, op)
  PROVE  Wrote(s, op, 0, IF charges' # charges THEN {"charge"} ELSE {})
BY WroteAll DEF Begins, Effects

LEMMA AnswersWrites ==
  ASSUME Maps, NEW s \in Sessions, NEW code \in Nat, Answers(s, code), UNCHANGED call,
         NEW d \in SUBSET Effects, done' = [done EXCEPT ![s] = d]
  PROVE  Wrote(s, call[s], IF call[s] = "none" THEN 0 ELSE code, d)
<1>1. call' = [call EXCEPT ![s] = call[s]] /\ call[s] \in Operations
  BY DEF Maps
<1> QED  BY <1>1, WroteAll DEF Answers

\* Nobody is told anything, and s did d.
LEMMA SilentWrites ==
  ASSUME Maps, NEW s \in Sessions, UNCHANGED <<call, answer>>,
         NEW d \in SUBSET Effects, done' = [done EXCEPT ![s] = d]
  PROVE  Wrote(s, call[s], answer[s], d)
BY DEF Maps, Wrote

LEMMA DoesWrites ==
  ASSUME Maps, NEW s \in Sessions, NEW effect \in Effects, Does(s, effect)
  PROVE  /\ done' = [done EXCEPT ![s] = done[s] \cup {effect}]
         /\ done[s] \cup {effect} \in SUBSET Effects
BY DEF Maps, Does

LEMMA DoneSame ==
  ASSUME Maps, NEW s \in Sessions, UNCHANGED done
  PROVE  done' = [done EXCEPT ![s] = done[s]] /\ done[s] \in SUBSET Effects
BY DEF Maps

-----------------------------------------------------------------------------
(* Calls: a decision on the row just loaded, or a target *)

LEMMA RefusedOwn ==
  ASSUME IInv, AInv, NEW s \in Sessions, NEW op \in Operations,
         NEW code \in {409, 500}, Refused(s, op, code)
  PROVE  Own(s)
<1>1. UNCHANGED <<session, row, history>> /\ session[s].pc = "idle"
  BY DEF Refused, Refuse, Handles, At
<1>2. Wrote(s, op, code, {})
  <2>1. code \in Nat /\ {} \in SUBSET Effects
    OBVIOUS
  <2> QED  BY <2>1, WroteAll DEF Refused, AInv
<1> QED  BY <1>1, <1>2 DEF Wrote, Own, Frame, SoFar, Answered, Lone

\* A session that begins with a decision on the row.
LEMMA BegunDecided ==
  ASSUME IInv, AInv, NEW s \in Sessions, NEW op \in Operations, NEW x,
         Handles(s), Begins(s, op), Decides(s, x),
         x.status = row.status \/ CanTransitionTo(row.status, x.status),
         op \in {"advance", "retry"} /\ x.status = "AWAITING_PAYMENT" => charges' # charges
  PROVE  Own(s)
<1>1. UNCHANGED <<row, history>>
  BY DEF Handles
<1>2. Wrote(s, op, 0, IF charges' # charges THEN {"charge"} ELSE {})
  BY BeginsWrites DEF AInv
<1>3. /\ session'[s].pc = "record" /\ session'[s].loaded = row
      /\ session'[s].next = x /\ Stays(s)
  BY DecidesFields
<1>4. SoFar(s)'
  BY <1>1, <1>2, <1>3 DEF Wrote, SoFar, Decision
<1>5. Answered(s)' /\ Lone(s)'
  BY <1>1, <1>2, <1>3 DEF Wrote, Answered, Lone
<1> QED  BY <1>1, <1>2, <1>3, <1>4, <1>5 DEF Own, Frame, Wrote, Stays

LEMMA BegunTargeted ==
  ASSUME IInv, AInv, NEW s \in Sessions, NEW op \in Operations, NEW t,
         Handles(s), Begins(s, op), UNCHANGED charges,
         session' = [session EXCEPT ![s].pc = "start", ![s].target = t]
  PROVE  Own(s)
<1>1. UNCHANGED <<row, history>>
  BY DEF Handles
<1>2. Wrote(s, op, 0, {})
  BY BeginsWrites DEF AInv
<1>3. session'[s].pc = "start" /\ Stays(s)
  BY TargetFields
<1>4. SoFar(s)' /\ Answered(s)' /\ Lone(s)'
  BY <1>1, <1>2, <1>3 DEF Wrote, SoFar, Answered, Lone, Undecided
<1> QED  BY <1>1, <1>2, <1>3, <1>4 DEF Own, Frame, Wrote, Stays

LEMMA PaymentOwn ==
  ASSUME IInv, AInv, NEW s \in Sessions, NEW op \in Operations,
         StartPayment(s), Begins(s, op)
  PROVE  Own(s)
<1> DEFINE x == AwaitPayment(row, charges')
<1>1. Handles(s) /\ Decides(s, x) /\ charges' \in Nat /\ charges' # charges
  BY DEF StartPayment, IInv, Logs
<1>2. CanTransitionTo(row.status, "AWAITING_PAYMENT")
  BY DEF StartPayment, CanTransitionTo, NormalFlow, Final
<1>3. x.status = "AWAITING_PAYMENT"
  BY <1>1, <1>2, PaymentRow DEF Row, IInv, RowGood
<1> HIDE DEF x
<1> QED  BY <1>1, <1>2, <1>3, BegunDecided

LEMMA AdvanceOwn ==
  ASSUME IInv, AInv, NEW s \in Sessions, AdvanceServiceOrderStatus(s)
  PROVE  Own(s)
<1>1. Begins(s, "advance") /\ "advance" \in Operations
  BY DEF AdvanceServiceOrderStatus, Operations
<1>2. CASE AdvanceDirectly(s)
  <2> DEFINE t == NextStatus(row.status)
             x == UpdateStatus(row, t)
  <2>1. Handles(s) /\ Decides(s, x) /\ CanTransitionTo(row.status, t)
    BY <1>2 DEF AdvanceDirectly
  <2>2. x.status = t
    BY <2>1, UpdatedRow DEF IInv, RowGood
  <2>3. t # "AWAITING_PAYMENT"
    BY <1>2 DEF AdvanceDirectly, NextStatus, HasNextStatus, Final, IInv, RowGood, GoodRow,
                ServiceOrder, Status
  <2> HIDE DEF x, t
  <2> QED  BY <1>1, <2>1, <2>2, <2>3, BegunDecided
<1>3. CASE AdvanceBySaga(s)
  BY <1>1, <1>3, BegunTargeted DEF AdvanceBySaga
<1>4. CASE StartPayment(s)
  BY <1>1, <1>4, PaymentOwn
<1> QED  BY <1>2, <1>3, <1>4 DEF AdvanceServiceOrderStatus

LEMMA AuthorizeOwn ==
  ASSUME IInv, AInv, NEW s \in Sessions, AuthorizeServiceOrder(s)
  PROVE  Own(s)
<1>1. Begins(s, "authorize") /\ "authorize" \in Operations
  BY DEF AuthorizeServiceOrder, Operations
<1>2. CASE Approve(s)
  <2> DEFINE x == UpdateStatus(row, "AUTHORIZED")
  <2>1. Handles(s) /\ Decides(s, x)
    BY <1>2 DEF Approve
  <2>2. CanTransitionTo(row.status, "AUTHORIZED")
    BY <1>2 DEF Approve, CanTransitionTo, NormalFlow, Final
  <2>3. x.status = "AUTHORIZED"
    BY <2>2, UpdatedRow DEF IInv, RowGood
  <2> HIDE DEF x
  <2> QED  BY <1>1, <2>1, <2>2, <2>3, BegunDecided
<1>3. CASE Deny(s)
  BY <1>1, <1>3, BegunTargeted DEF Deny
<1> QED  BY <1>2, <1>3 DEF AuthorizeServiceOrder

LEMMA UpdateOwn ==
  ASSUME IInv, AInv, NEW s \in Sessions, UpdateServiceOrder(s)
  PROVE  Own(s)
<1>1. Begins(s, "update") /\ "update" \in Operations /\ Handles(s)
  BY DEF UpdateServiceOrder, EditItems, Operations
<1>2. PICK i \in SUBSET Products : Decides(s, [row EXCEPT !.items = i])
  BY DEF UpdateServiceOrder, EditItems
<1>3. [row EXCEPT !.items = i].status = row.status
  BY EditedRow DEF IInv, RowGood
<1> QED  BY <1>1, <1>2, <1>3, BegunDecided

LEMMA DeleteOwn ==
  ASSUME IInv, AInv, NEW s \in Sessions, DeleteServiceOrder(s)
  PROVE  Own(s)
<1> DEFINE d == IF MustRefund THEN {"refund"} ELSE {}
<1>1. UNCHANGED <<row, history>> /\ Goes(s, "cancel")
  BY DEF DeleteServiceOrder, Delete, Handles
<1>2. Wrote(s, "delete", 0, d)
  <2>1. "delete" \in Operations /\ d \in SUBSET Effects
    BY DEF Operations, Effects
  <2> QED  BY <2>1, WroteAll DEF DeleteServiceOrder, AInv
<1>3. session'[s].pc = "cancel" /\ Stays(s)
  BY <1>1, GoesFields
<1>4. SoFar(s)' /\ Answered(s)'
  BY <1>2, <1>3 DEF Wrote, SoFar, Answered
<1>5. Lone(s)'
  BY <1>1, <1>2, <1>3 DEF Wrote, Lone, Undecided, MustRefund
<1> QED  BY <1>1, <1>2, <1>3, <1>4, <1>5 DEF Own, Frame, Wrote, Stays

LEMMA ToldOwn ==
  ASSUME IInv, AInv, NEW s \in Sessions, Told(s)
  PROVE  Own(s)
<1>1. CASE HandleWebhook(s) /\ Begins(s, "notified")
  <2>1. Handles(s) /\ "notified" \in Operations /\ "notified" \notin {"advance", "retry"}
    BY <1>1 DEF HandleWebhook, Operations
  <2>2. GoodRow(row) /\ charges \in Nat
    BY DEF IInv, RowGood, Logs
  <2>3. CASE row.status = "AWAITING_PAYMENT"
    <3>1. /\ CanTransitionTo(row.status, "PAID")
          /\ CanTransitionTo(row.status, "PAYMENT_REJECTED")
      BY <2>3 DEF CanTransitionTo, NormalFlow, Final
    <3>2. /\ \A p \in Nat : ConfirmPayment(row, p).status = "PAID"
          /\ RejectPayment(row).status = "PAYMENT_REJECTED"
      BY <2>2, <3>1, PaymentRow DEF Row
    <3>3. (\E p \in Nat : Decides(s, ConfirmPayment(row, p))) \/ Decides(s, RejectPayment(row))
      BY <1>1, <2>2, <2>3 DEF HandleWebhook
    <3> QED  BY <1>1, <2>1, <3>1, <3>2, <3>3, BegunDecided
  <2>4. CASE row.status = "PAID"
    <3>1. CanTransitionTo(row.status, "CANCELED")
      BY <2>4 DEF CanTransitionTo, Final
    <3>2. CancelAfterRefund(row).status = "CANCELED"
      BY <2>2, <3>1, UpdatedRow DEF CancelAfterRefund
    <3>3. Decides(s, CancelAfterRefund(row))
      BY <1>1, <2>4 DEF HandleWebhook
    <3> QED  BY <1>1, <2>1, <3>1, <3>2, <3>3, BegunDecided
  <2> QED  BY <1>1, <2>3, <2>4 DEF HandleWebhook
<1>2. CASE \E m \in replies : Receive(s, m) /\ Begins(s, "none")
  <2>1. PICK m \in replies : Receive(s, m) /\ Begins(s, "none")
    BY <1>2
  <2>2. UNCHANGED <<row, history, charges>>
    BY <2>1 DEF Receive, Handles
  <2>3. Wrote(s, "none", 0, {})
    BY <2>1, <2>2, BeginsWrites DEF AInv, Operations
  <2>4. session'[s].pc = "settle" /\ Stays(s)
    <3> DEFINE r == [session[s] EXCEPT !.pc = "settle", !.saga = m.saga, !.ok = m.ok]
    <3>1. session[s] \in SessionRecord /\ Becomes(s, r)
      BY <2>1 DEF Receive, Becomes, IInv
    <3>2. r.pc = "settle"
      BY <3>1 DEF SessionRecord
    <3> QED  BY <3>1, <3>2, BecomesFields DEF Stays
  <2>5. SoFar(s)' /\ Answered(s)' /\ Lone(s)'
    BY <2>3, <2>4 DEF Wrote, SoFar, Answered, Lone
  <2> QED  BY <2>2, <2>3, <2>4, <2>5 DEF Own, Frame, Wrote, Stays
<1> QED  BY <1>1, <1>2 DEF Told

LEMMA CallOwn ==
  ASSUME IInv, AInv, NEW s \in Sessions, Call(s)
  PROVE  Own(s)
<1>1. CASE Conflict(s) \/ Fails(s)
  BY <1>1, RefusedOwn DEF Conflict, Fails, Operations
<1>2. CASE RetryPayment(s)
  BY <1>2, PaymentOwn DEF RetryPayment, Operations
<1> QED  BY <1>1, <1>2, AdvanceOwn, AuthorizeOwn, UpdateOwn, DeleteOwn, ToldOwn DEF Call

-----------------------------------------------------------------------------
(* Steps of the orchestrator and writes *)

\* No answer yet, nothing done.
LEMMA UnansweredWrites ==
  ASSUME AInv, NEW s \in Sessions, UNCHANGED <<call, answer, done>>
  PROVE  Wrote(s, call[s], answer[s], done[s])
BY DEF AInv, Maps, Wrote

\* The way of CancelOrder and StartSaga when they end in an error.
LEMMA ErrorWrites ==
  ASSUME AInv, NEW s \in Sessions, NEW code \in {409, 500}, Answers(s, code),
         UNCHANGED <<call, done>>
  PROVE  Wrote(s, call[s], IF call[s] = "none" THEN 0 ELSE code, done[s])
<1>1. code \in Nat
  OBVIOUS
<1> QED  BY <1>1, DoneSame, AnswersWrites DEF AInv

LEMMA CancelsOwn ==
  ASSUME IInv, AInv, NEW s \in Sessions, Cancels(s)
  PROVE  Own(s)
<1>1. UNCHANGED <<row, history, call, done>> /\ session[s].pc = "cancel"
  BY DEF Cancels, CancelOrder, At
<1>2. /\ call[s] = "delete" /\ answer[s] = 0 /\ "decision" \notin done[s]
      /\ Lone(s) => Undecided(s)
  BY <1>1 DEF AInv, SoFar, Lone
<1>3. CASE TransitionLocal(s, "CANCELED") /\ row.status \in {"RECEIVED", "DIAGNOSING"}
  <2>1. CanSettle(row, "CANCELED") /\ CanTransitionTo(row.status, "CANCELED")
    BY <1>3 DEF CanSettle, CanTransitionTo, Final
  <2>2. /\ session'[s].pc = "record" /\ session'[s].loaded = row
        /\ session'[s].next.status = "CANCELED" /\ Stays(s)
    BY <1>3, <2>1, TransitionLocalFields
  <2>3. Wrote(s, call[s], answer[s], done[s])
    BY <1>1, <2>2, UnansweredWrites DEF Cancels
  <2>4. SoFar(s)' /\ Answered(s)' /\ Lone(s)'
    BY <1>1, <1>2, <2>1, <2>2, <2>3 DEF Wrote, SoFar, Decision, Answered, Lone
  <2> QED  BY <1>1, <2>2, <2>3, <2>4 DEF Own, Frame, Wrote, Stays
<1>4. CASE session' = [session EXCEPT ![s].pc = "start", ![s].target = "CANCELED"]
  <2>1. session'[s].pc = "start" /\ session'[s].target = "CANCELED" /\ Stays(s)
    BY <1>4, TargetFields
  <2>2. Wrote(s, call[s], answer[s], done[s])
    BY <1>1, <2>1, UnansweredWrites DEF Cancels
  <2>3. SoFar(s)' /\ Answered(s)'
    BY <1>2, <2>1, <2>2 DEF Wrote, SoFar, Answered
  <2>4. Lone(s) => Lone(s)'
    BY <1>1, <1>2, <2>1, <2>2 DEF Wrote, Lone, Undecided
  <2> QED  BY <1>1, <2>1, <2>2, <2>3, <2>4 DEF Own, Frame, Wrote, Stays
<1>5. CASE Ends(s) /\ (AwaitingInventory(row) \/ row.status \in Final)
  <2> DEFINE code == IF AwaitingInventory(row) THEN 500 ELSE 409
  <2>1. session'[s].pc = "idle" /\ Stays(s)
    BY <1>5, EndsFields
  <2>2. Wrote(s, call[s], code, done[s])
    <3>1. Answers(s, code)
      BY <2>1 DEF Cancels
    <3> QED  BY <1>1, <1>2, <3>1, ErrorWrites
  <2>3. SoFar(s)' /\ Answered(s)'
    BY <1>2, <2>1, <2>2 DEF Wrote, SoFar, Answered
  <2>4. code = 409 => row.status # "PAID"
    BY <1>5 DEF Final
  <2>5. Lone(s) => Lone(s)'
    BY <1>1, <1>2, <2>1, <2>2, <2>4 DEF Wrote, Lone, Undecided
  <2> QED  BY <1>1, <2>1, <2>2, <2>3, <2>5 DEF Own, Frame, Wrote, Stays
<1> QED  BY <1>3, <1>4, <1>5 DEF Cancels, CancelOrder

LEMMA StartsOwn ==
  ASSUME IInv, AInv, NEW s \in Sessions, Starts(s)
  PROVE  Own(s)
<1>1. UNCHANGED <<row, history, call, done>> /\ session[s].pc = "start"
  BY DEF Starts, StartSaga, At
<1>2. /\ answer[s] = 0 /\ "decision" \notin done[s]
      /\ Lone(s) => Undecided(s)
  BY <1>1 DEF AInv, SoFar, Lone
<1>3. session[s].target \in InferableTarget
  BY <1>1 DEF IInv, SessionGood
<1>4. CASE TransitionLocal(s, session[s].target) /\ CanSettle(row, session[s].target)
  <2>1. /\ session'[s].pc = "record" /\ session'[s].loaded = row
        /\ session'[s].next.status = session[s].target /\ Stays(s)
    BY <1>4, TransitionLocalFields
  <2>2. Wrote(s, call[s], answer[s], done[s])
    BY <1>1, <2>1, UnansweredWrites DEF Starts
  <2>3. SoFar(s)' /\ Answered(s)' /\ Lone(s)'
    BY <1>1, <1>2, <1>3, <1>4, <2>1, <2>2
    DEF Wrote, SoFar, Decision, Answered, Lone, CanSettle, InferableTarget
  <2> QED  BY <1>1, <2>1, <2>2, <2>3 DEF Own, Frame, Wrote, Stays
<1>5. CASE /\ Ends(s) \/ TransitionLocal(s, session[s].target)
           /\ AwaitingInventory(row) \/ ~CanSettle(row, session[s].target)
           /\ session'[s].pc = "idle"
  <2> DEFINE code == IF AwaitingInventory(row) THEN 500 ELSE 409
  <2>1. Stays(s)
    BY <1>5, EndsFields, TransitionLocalFields
  <2>2. Wrote(s, call[s], IF call[s] = "none" THEN 0 ELSE code, done[s])
    <3>1. Answers(s, code)
      BY <1>5 DEF Starts
    <3> QED  BY <1>1, <3>1, ErrorWrites
  <2>3. SoFar(s)' /\ Answered(s)'
    BY <1>2, <1>5, <2>2 DEF Wrote, SoFar, Answered
  <2>4. code = 409 => ~(row.status = "PAID" /\ session[s].target = "CANCELED")
    BY <1>5 DEF CanSettle, CanTransitionTo, Final
  <2>5. Lone(s) => Lone(s)'
    BY <1>1, <1>2, <1>5, <2>2, <2>4 DEF Wrote, Lone, Undecided
  <2> QED  BY <1>1, <2>1, <2>2, <2>3, <2>5 DEF Own, Frame, Wrote, Stays
<1>6. CASE session' = [session EXCEPT
             ![s].pc = "launch", ![s].loaded = row, ![s].saga = sagas',
             ![s].next = MarkSagaStarted(row, sagas', session[s].target)]
           /\ sagas' = sagas + 1
  <2> DEFINE x == MarkSagaStarted(row, sagas', session[s].target)
             r == [session[s] EXCEPT !.pc = "launch", !.loaded = row, !.saga = sagas', !.next = x]
  <2>1. x.status = row.status
    <3>1. GoodRow(row) /\ sagas' \in Nat /\ sagas' # NoId
      BY <1>6 DEF IInv, RowGood, Logs, NoId
    <3> QED  BY <1>3, <3>1, StartedRow
  <2>2. session[s] \in SessionRecord /\ Becomes(s, r)
    BY <1>6 DEF Becomes, IInv
  <2> HIDE DEF x
  <2>3. r.pc = "launch" /\ r.loaded = row /\ r.next = x
    BY <2>2 DEF SessionRecord
  <2> HIDE DEF r
  <2>4. /\ session'[s].pc = "launch" /\ session'[s].loaded = row
        /\ session'[s].next = x /\ Stays(s)
    BY <2>2, <2>3, BecomesFields DEF Stays
  <2>5. Wrote(s, call[s], answer[s], done[s])
    BY <1>1, <2>4, UnansweredWrites DEF Starts
  <2>6. SoFar(s)' /\ Answered(s)' /\ Lone(s)'
    BY <1>1, <1>2, <2>1, <2>4, <2>5 DEF Wrote, SoFar, Answered, Lone
  <2> QED  BY <1>1, <2>4, <2>5, <2>6 DEF Own, Frame, Wrote, Stays
<1>7. \/ Ends(s) /\ AwaitingInventory(row)
      \/ TransitionLocal(s, session[s].target)
      \/ /\ sagas' = sagas + 1
         /\ session' = [session EXCEPT
              ![s].pc = "launch", ![s].loaded = row, ![s].saga = sagas',
              ![s].next = MarkSagaStarted(row, sagas', session[s].target)]
  BY DEF Starts, StartSaga
<1> QED  BY <1>4, <1>5, <1>6, <1>7, EndsFields, TransitionLocalFields

LEMMA SettlesOwn ==
  ASSUME IInv, AInv, NEW s \in Sessions, Settles(s)
  PROVE  Own(s)
<1>1. /\ UNCHANGED <<row, history, call, answer, done>>
      /\ session[s].pc = "settle"
  BY DEF Settles, HandleReply, answersVars, At
<1>2. call[s] = "none" /\ answer[s] = 0 /\ "decision" \notin done[s]
  BY <1>1 DEF AInv, SoFar
<1>3. Wrote(s, call[s], answer[s], done[s])
  BY <1>1, UnansweredWrites
<1>4. /\ Stays(s)
      /\ \/ session'[s].pc = "idle"
         \/ /\ session'[s].pc = "record" /\ session'[s].loaded = row
            /\ \/ session'[s].next.status = row.status
               \/ CanTransitionTo(row.status, session'[s].next.status)
  <2>1. CASE Ends(s)
    BY <2>1, EndsFields
  <2>2. CASE TransitionLocal(s, row.target)
    BY <2>2, TransitionLocalFields DEF CanSettle
  <2>3. CASE Decides(s, FailSaga(row))
    <3>1. FailSaga(row).status = row.status
      BY ClearedRow DEF FailSaga, SagaStatus, IInv, RowGood
    <3> QED  BY <2>3, <3>1, DecidesFields
  <2> QED  BY <2>1, <2>2, <2>3 DEF Settles, HandleReply
<1>5. SoFar(s)' /\ Answered(s)'
  BY <1>2, <1>3, <1>4 DEF Wrote, SoFar, Decision, Answered
<1>6. Lone(s)'
  BY <1>1, <1>2, <1>3, <1>4 DEF Wrote, Lone
<1> QED  BY <1>1, <1>3, <1>4, <1>5, <1>6 DEF Own, Frame, Wrote, Stays

LEMMA RecordsOwn ==
  ASSUME IInv, AInv, NEW s \in Sessions, Records(s)
  PROVE  Own(s)
<1> DEFINE e == [old |-> session[s].loaded.status, new |-> session[s].next.status]
           d == done[s] \cup {"history"}
<1>1. /\ UNCHANGED <<row, call, answer>> /\ session[s].pc = "record"
      /\ history' = history \cup {e} /\ Goes(s, "save")
  BY DEF Records, SaveHistory, At
<1>2. answer[s] = 0 /\ "decision" \notin done[s] /\ Decision(s)
  BY <1>1 DEF AInv, SoFar
<1>3. /\ session'[s].pc = "save" /\ session'[s].loaded = session[s].loaded
      /\ session'[s].next = session[s].next /\ Stays(s)
  BY <1>1, GoesFields
<1>4. Wrote(s, call[s], answer[s], d)
  BY <1>1, DoesWrites, SilentWrites DEF Records, AInv, Effects
<1>5. SoFar(s)' /\ Answered(s)'
  BY <1>1, <1>2, <1>3, <1>4 DEF Wrote, SoFar, Decision, Answered
<1>6. Lone(s) => Lone(s)'
  BY <1>1, <1>2, <1>3, <1>4 DEF Wrote, Lone
<1> QED  BY <1>1, <1>3, <1>4, <1>5, <1>6 DEF Own, Frame, Wrote, Stays

LEMMA SavesOwn ==
  ASSUME IInv, AInv, NEW s \in Sessions, Saves(s)
  PROVE  Own(s)
<1>1. UNCHANGED <<history, call>> /\ session[s].pc \in {"save", "launch"}
  BY DEF Saves, SaveRow, At
<1>2. answer[s] = 0 /\ "decision" \notin done[s]
  BY <1>1 DEF AInv, SoFar
<1>3. CASE At(s, "launch")
  <2>1. session'[s].pc = "publish" /\ Stays(s)
    BY <1>3, GoesFields DEF Saves, SaveRow
  <2>2. Wrote(s, call[s], answer[s], done[s] \cup {"saga"})
    BY <1>1, <1>3, DoesWrites, SilentWrites DEF Saves, AInv, Effects
  <2>3. SoFar(s)' /\ Answered(s)' /\ Lone(s)'
    BY <1>2, <2>1, <2>2 DEF Wrote, SoFar, Answered, Lone
  <2> QED  BY <1>1, <2>1, <2>2, <2>3 DEF Own, Frame, Wrote, Stays
<1>4. CASE ~At(s, "launch")
  <2> DEFINE paying == call[s] \in {"advance", "retry"} /\ session[s].next.status = "AWAITING_PAYMENT"
             code == IF paying THEN 202 ELSE 200
  <2>1. session[s].pc = "save"
    BY <1>1, <1>4 DEF At
  <2>2. "history" \in done[s] /\ (paying => "charge" \in done[s])
    BY <2>1 DEF AInv, SoFar, Decision
  <2>3. session'[s].pc = "idle" /\ Stays(s)
    BY <1>4, EndsFields DEF Saves, SaveRow
  <2>4. Wrote(s, call[s], IF call[s] = "none" THEN 0 ELSE code, done[s] \cup {"decision"})
    <3>1. Answers(s, code) /\ Does(s, "decision") /\ code \in Nat /\ "decision" \in Effects
      BY <1>4 DEF Saves, Effects
    <3> QED  BY <1>1, <3>1, DoesWrites, AnswersWrites DEF AInv
  <2>5. SoFar(s)' /\ Answered(s)' /\ Lone(s)'
    BY <2>2, <2>3, <2>4 DEF Wrote, SoFar, Answered, Lone
  <2> QED  BY <1>1, <2>3, <2>4, <2>5 DEF Own, Frame, Wrote, Stays
<1> QED  BY <1>3, <1>4

LEMMA PublishesOwn ==
  ASSUME IInv, AInv, NEW s \in Sessions, Publishes(s)
  PROVE  Own(s)
<1>1. UNCHANGED <<row, history, call>> /\ session[s].pc = "publish"
  BY DEF Publishes, Publish, At
<1>2. answer[s] = 0 /\ "decision" \notin done[s] /\ "saga" \in done[s]
  BY <1>1 DEF AInv, SoFar
<1>3. session'[s].pc = "idle" /\ Stays(s)
  BY EndsFields DEF Publishes, Publish
<1>4. Wrote(s, call[s], IF call[s] = "none" THEN 0 ELSE 202, done[s] \cup {"request"})
  <2>1. Answers(s, 202) /\ Does(s, "request") /\ "request" \in Effects
    BY DEF Publishes, Effects
  <2> QED  BY <1>1, <2>1, DoesWrites, AnswersWrites DEF AInv
<1>5. SoFar(s)' /\ Answered(s)' /\ Lone(s)'
  BY <1>2, <1>3, <1>4 DEF Wrote, SoFar, Answered, Lone
<1> QED  BY <1>1, <1>3, <1>4, <1>5 DEF Own, Frame, Wrote, Stays

LEMMA StopsOwn ==
  ASSUME IInv, AInv, NEW s \in Sessions, Stops(s)
  PROVE  Own(s)
<1>1. UNCHANGED <<row, history, call, done>> /\ session[s].pc # "idle"
  BY DEF Stops, Abandon, At
<1>2. answer[s] = 0 /\ "decision" \notin done[s]
  BY <1>1 DEF AInv, SoFar
<1>3. session'[s].pc = "idle" /\ Stays(s)
  BY EndsFields DEF Stops, Abandon
<1>4. PICK code \in {0, 500} : Answers(s, code)
  BY DEF Stops
<1>5. Wrote(s, call[s], IF call[s] = "none" THEN 0 ELSE code, done[s])
  <2>1. code \in Nat
    BY <1>4
  <2> QED  BY <1>1, <1>4, <2>1, DoneSame, AnswersWrites DEF AInv
<1>6. SoFar(s)' /\ Answered(s)' /\ Lone(s)'
  BY <1>2, <1>3, <1>5 DEF Wrote, SoFar, Answered, Lone
<1> QED  BY <1>1, <1>3, <1>5, <1>6 DEF Own, Frame, Wrote, Stays

LEMMA StepOwn ==
  ASSUME IInv, AInv, NEW s \in Sessions, Step(s)
  PROVE  Own(s)
BY CancelsOwn, StartsOwn, SettlesOwn, RecordsOwn, SavesOwn, PublishesOwn, StopsOwn DEF Step

-----------------------------------------------------------------------------
(* The invariant *)

\* While no more than one session is under way, it is the only one.
LEMMA OnlyOne ==
  ASSUME Cardinality(Underway) <= 1, NEW s \in Underway, NEW q \in Underway
  PROVE  s = q
<1>1. IsFiniteSet(Underway)
  BY FiniteSessions, FS_Subset DEF Underway
<1>2. SUFFICES ASSUME s # q PROVE FALSE
  OBVIOUS
<1>3. IsFiniteSet({s}) /\ Cardinality({s}) = 1
  BY FS_Singleton
<1>4. Cardinality({s} \cup {q}) = 2 /\ IsFiniteSet({s} \cup {q})
  BY <1>2, <1>3, FS_AddElement
<1>5. Cardinality({s} \cup {q}) <= Cardinality(Underway)
  BY <1>1, FS_Subset
<1>6. Cardinality(Underway) \in Nat
  BY <1>1, FS_CardinalityType
<1> QED  BY <1>4, <1>5, <1>6

LEMMA OwnKeeps ==
  ASSUME AInv, NEW s \in Sessions, Own(s),
         alone' => alone /\ Cardinality(Underway') <= 1
  PROVE  AInv'
<1>1. ASSUME NEW q \in Sessions
      PROVE  SoFar(q)' /\ Answered(q)'
  <2>1. CASE q = s
    BY <2>1 DEF Own
  <2>2. CASE q # s
    BY <2>2 DEF Own, Frame, AInv, SoFar, Decision, Answered
  <2> QED  BY <2>1, <2>2
<1>2. ASSUME alone', NEW q \in Sessions
      PROVE  Lone(q)'
  <2>1. Cardinality(Underway) <= 1 /\ \A x \in Sessions : Lone(x)
    BY <1>2 DEF AInv
  <2>2. CASE q = s
    BY <2>1, <2>2 DEF Own
  <2>3. CASE q # s
    <3>1. /\ session'[q] = session[q] /\ answer'[q] = answer[q] /\ done'[q] = done[q]
      BY <2>3 DEF Own, Frame
    <3>2. CASE row' = row
      BY <2>1, <3>1, <3>2 DEF Lone, Undecided
    <3>3. CASE row' # row
      <4>1. session[q].pc = "idle"
        BY <2>1, <2>3, <3>3, OnlyOne DEF Own, Underway, At
      <4> QED  BY <2>1, <3>1, <4>1 DEF Lone
    <3> QED  BY <3>2, <3>3
  <2> QED  BY <2>2, <2>3
<1>3. alone' => Cardinality(Underway') <= 1
  OBVIOUS
<1> QED  BY <1>1, <1>2, <1>3 DEF AInv, Own

LEMMA InitAInv == AnswersInit => AInv
<1> SUFFICES ASSUME AnswersInit PROVE AInv
  OBVIOUS
<1>1. /\ \A s \in Sessions : session[s].pc = "idle"
      /\ call = [s \in Sessions |-> "none"]
      /\ answer = [s \in Sessions |-> 0]
      /\ done = [s \in Sessions |-> {}]
  BY DEF AnswersInit, Init, Idle
<1>2. Maps
  BY <1>1 DEF Maps, Operations, Effects
<1>3. \A s \in Sessions : SoFar(s) /\ Answered(s) /\ Lone(s)
  BY <1>1 DEF SoFar, Answered, Lone
<1>4. Cardinality(Underway) <= 1
  <2>1. Underway = {}
    BY <1>1 DEF Underway, At
  <2> QED  BY <2>1, FS_EmptySet
<1> QED  BY <1>2, <1>3, <1>4 DEF AInv

LEMMA NextAInv == IInv /\ AInv /\ [AnswersNext]_allVars => AInv'
<1> SUFFICES ASSUME IInv, AInv, [AnswersNext]_allVars PROVE AInv'
  OBVIOUS
<1>1. CASE UNCHANGED allVars
  BY <1>1 DEF allVars, vars, answersVars, AInv, Maps, SoFar, Decision, Answered, Lone,
              Undecided, Underway, At
<1>2. CASE AnswersNext
  <2>1. alone' => alone /\ Cardinality(Underway') <= 1
    BY <1>2, Zenon DEF AnswersNext
  <2>2. CASE \E s \in Sessions : Call(s) \/ Step(s)
    BY <2>1, <2>2, CallOwn, StepOwn, OwnKeeps
  <2>3. CASE (\E saga \in requests : Answer(saga)) /\ UNCHANGED answersVars
    <3>1. UNCHANGED <<row, history, session, call, answer, done>>
      BY <2>3 DEF Answer, answersVars
    <3>2. Underway' = Underway
      BY <3>1 DEF Underway, At
    <3> QED  BY <2>1, <3>1, <3>2 DEF AInv, Maps, SoFar, Decision, Answered, Lone, Undecided
  <2> QED  BY <1>2, <2>2, <2>3 DEF AnswersNext
<1> QED  BY <1>1, <1>2

LEMMA AnswersInvariant == AnswersSpec => [](IInv /\ AInv)
<1>1. AnswersInit => IInv /\ AInv
  BY InitIInv, InitAInv DEF AnswersInit
<1>2. IInv /\ AInv /\ [AnswersNext]_allVars => (IInv /\ AInv)'
  BY AnswersStep, NextIInv, NextAInv
<1> QED  BY <1>1, <1>2, PTL DEF AnswersSpec

-----------------------------------------------------------------------------
(* Theorems *)

(***************************************************************************)
(* Answers are an addition to OrderSessions: what is proved of the row and *)
(* the history holds here as well.                                         *)
(***************************************************************************)
THEOREM AnswersRefine == AnswersSpec => Spec
<1>1. AnswersInit => Init
  BY DEF AnswersInit
<1> QED  BY <1>1, AnswersStep, PTL DEF AnswersSpec, Spec

(***************************************************************************)
(* 200 and 202 come after their effects are stored, for any number of      *)
(* handlers that interleave and stop anywhere.                             *)
(***************************************************************************)
THEOREM DurableSuccess == AnswersSpec => []SuccessIsDurable
<1>1. AInv => SuccessIsDurable
  BY DEF AInv, Answered, SuccessIsDurable
<1> QED  BY <1>1, AnswersInvariant, PTL

(***************************************************************************)
(* An error never comes after the row took the decision: repeating the     *)
(* call does not take the order a status too far.                          *)
(***************************************************************************)
THEOREM ErrorsLeaveStatus == AnswersSpec => []ErrorLeavesStatus
<1>1. AInv => ErrorLeavesStatus
  BY DEF AInv, Answered, ErrorLeavesStatus
<1> QED  BY <1>1, AnswersInvariant, PTL

(***************************************************************************)
(* With no other handler beside it, a handler overwrites the row it        *)
(* decided on: no update is lost.                                          *)
(***************************************************************************)
THEOREM LoneDecisions == AnswersSpec => []DecidesOnTheRow
<1>1. AInv => DecidesOnTheRow
  BY DEF AInv, Lone, DecidesOnTheRow
<1> QED  BY <1>1, AnswersInvariant, PTL

(***************************************************************************)
(* With no other handler beside it, a conflict means that nothing was      *)
(* done, at Mercado Pago included.                                         *)
(***************************************************************************)
THEOREM LoneRefusals == AnswersSpec => []RefusalChangesNothing
<1>1. AInv => RefusalChangesNothing
  BY DEF AInv, Lone, RefusalChangesNothing
<1> QED  BY <1>1, AnswersInvariant, PTL

(***************************************************************************)
(* With no other handler beside it, every change of status is a transition *)
(* of the table with its own entry in the history.                         *)
(***************************************************************************)
THEOREM LoneChanges == AnswersSpec => ChangesAreRecorded
<1> DEFINE Recorded1 == alone /\ row'.status # row.status =>
             /\ CanTransitionTo(row.status, row'.status)
             /\ [old |-> row.status, new |-> row'.status] \in history
<1>1. ASSUME IInv, AInv, [AnswersNext]_allVars
      PROVE  [Recorded1]_allVars
  <2> SUFFICES ASSUME AnswersNext, alone, row'.status # row.status
               PROVE  /\ CanTransitionTo(row.status, row'.status)
                      /\ [old |-> row.status, new |-> row'.status] \in history
    BY <1>1
  <2>1. PICK s \in Sessions : Saves(s)
    <3>1. ASSUME NEW s \in Sessions, Call(s) \/ (Step(s) /\ ~Saves(s))
          PROVE  UNCHANGED row
      <4>1. Call(s) => Handles(s)
        BY DEF Call, AdvanceServiceOrderStatus, AuthorizeServiceOrder, RetryPayment,
               UpdateServiceOrder, DeleteServiceOrder, Told, Conflict, Fails, Refused, Refuse,
               AdvanceDirectly, AdvanceBySaga, StartPayment, Approve, Deny, EditItems, Delete,
               HandleWebhook, Receive
      <4>2. Handles(s) => UNCHANGED row
        BY DEF Handles
      <4>3. Step(s) /\ ~Saves(s) => UNCHANGED row
        BY DEF Step, Cancels, Starts, Settles, Records, Publishes, Stops, CancelOrder,
               StartSaga, HandleReply, SaveHistory, Publish, Abandon
      <4> QED  BY <3>1, <4>1, <4>2, <4>3
    <3>2. (\E saga \in requests : Answer(saga)) => UNCHANGED row
      BY DEF Answer
    <3> QED  BY <3>1, <3>2 DEF AnswersNext
  <2>2. row' = session[s].next /\ session[s].pc \in {"save", "launch"}
    BY <2>1 DEF Saves, SaveRow, At
  <2>3. Lone(s) /\ SoFar(s)
    BY <1>1 DEF AInv
  <2> QED  BY <2>2, <2>3 DEF Lone, SoFar, Decision
<1> QED  BY <1>1, AnswersInvariant, PTL DEF AnswersSpec, ChangesAreRecorded
=============================================================================
