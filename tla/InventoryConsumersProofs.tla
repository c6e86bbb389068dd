---------------------- MODULE InventoryConsumersProofs ----------------------
(***************************************************************************)
(* Proofs about InventoryConsumers for every set of messages, every finite *)
(* set of replicas and every batch size, whichever calls fail and however  *)
(* often the processes die.                                                *)
(*                                                                         *)
(* A handler call uses up a message of a batch, and a batch is filled by a *)
(* receive, so what is bounded by the receives of a message is its handler *)
(* calls together with the batches it still is in: the same message may be *)
(* in the batches of several replicas once its visibility timed out.       *)
(***************************************************************************)
EXTENDS InventoryConsumers, FiniteSetTheorems, TLAPS

\* The replicas whose batch the message is in.
Holders(m) == {k \in Replicas : m \in batch[k]}

\* Messages with a decision to delete were handled; deleted ones too.
DecidedHandled ==
  /\ \A k \in Replicas : current[k] \subseteq handled
  /\ \A m \in Messages : queue[m] = "deleted" => m \in handled

DeadCounted == \A m \in Messages : queue[m] = "dead" => receives[m] = MaxReceives

\* Only a goroutine that works its batch off has one.
IdleEmpty == \A k \in Replicas : worker[k] # "working" => batch[k] = {}

Budget == \A m \in Messages : attempts[m] + Cardinality(Holders(m)) <= receives[m]

IInv == TypeOK /\ DecidedHandled /\ DeadCounted /\ IdleEmpty /\ Budget

-----------------------------------------------------------------------------
(* The number of batches a message is in *)

LEMMA HoldersFinite ==
  ASSUME NEW m
  PROVE  IsFiniteSet(Holders(m)) /\ Cardinality(Holders(m)) \in Nat
<1>1. Holders(m) \subseteq Replicas /\ IsFiniteSet(Replicas)
  BY ConsumersAssumption DEF Holders
<1> QED  BY <1>1, FS_Subset, FS_CardinalityType

\* Batches that only shrink, one that gains a message, one that loses it.
LEMMA HoldersShrink ==
  ASSUME NEW m, \A k \in Replicas : batch'[k] \subseteq batch[k]
  PROVE  /\ Cardinality(Holders(m)') \in Nat
         /\ Cardinality(Holders(m)') <= Cardinality(Holders(m))
<1>1. Holders(m)' \subseteq Holders(m)
  BY DEF Holders
<1> QED  BY <1>1, HoldersFinite, FS_Subset, FS_CardinalityType

LEMMA HoldersGain ==
  ASSUME NEW m, NEW k \in Replicas, m \notin batch[k],
         \A j \in Replicas : m \in batch'[j] <=> j = k \/ m \in batch[j]
  PROVE  Cardinality(Holders(m)') = Cardinality(Holders(m)) + 1
<1>1. Holders(m)' = Holders(m) \cup {k} /\ k \notin Holders(m)
  BY DEF Holders
<1> QED  BY <1>1, HoldersFinite, FS_AddElement

LEMMA HoldersLoss ==
  ASSUME NEW m, NEW k \in Replicas, m \in batch[k],
         \A j \in Replicas : m \in batch'[j] <=> j # k /\ m \in batch[j]
  PROVE  Cardinality(Holders(m)') = Cardinality(Holders(m)) - 1
<1>1. Holders(m)' = Holders(m) \ {k} /\ k \in Holders(m)
  BY DEF Holders
<1> QED  BY <1>1, HoldersFinite, FS_RemoveElement

\* A step that leaves the counters alone and fills no batch keeps the budget.
LEMMA BudgetStays ==
  ASSUME IInv, UNCHANGED <<attempts, receives>>,
         \A k \in Replicas : batch'[k] \subseteq batch[k]
  PROVE  Budget'
<1>1. ASSUME NEW m \in Messages
      PROVE  attempts'[m] + Cardinality(Holders(m)') <= receives'[m]
  <2>1. Cardinality(Holders(m)') <= Cardinality(Holders(m)) /\ Cardinality(Holders(m)') \in Nat
    BY HoldersShrink
  <2>2. attempts[m] \in Nat /\ receives[m] \in 0..MaxReceives /\ Cardinality(Holders(m)) \in Nat
    BY HoldersFinite DEF IInv, TypeOK
  <2>3. attempts[m] + Cardinality(Holders(m)) <= receives[m]
    BY DEF IInv, Budget
  <2> QED  BY <2>1, <2>2, <2>3 DEF MaxReceives
<1> QED  BY <1>1 DEF Budget, Holders

-----------------------------------------------------------------------------
(* One lemma for each kind of step *)

LEMMA QueueStepKeeps ==
  ASSUME IInv, NEW m \in Messages, Send(m) \/ VisibilityTimeout(m) \/ Redrive(m)
  PROVE  IInv'
<1>1. PICK p \in {"visible", "dead"} :
        queue' = [queue EXCEPT ![m] = p] /\ (p = "dead" => receives[m] = MaxReceives)
  BY DEF Send, VisibilityTimeout, Redrive
<1>2. UNCHANGED <<receives, attempts, handled, worker, batch, current, deaths>>
  BY DEF Send, VisibilityTimeout, Redrive
<1>3. TypeOK'
  BY <1>1, <1>2 DEF IInv, TypeOK, Place
<1>4. DecidedHandled' /\ DeadCounted'
  BY <1>1, <1>2 DEF IInv, TypeOK, DecidedHandled, DeadCounted
<1>5. IdleEmpty'
  BY <1>2 DEF IInv, IdleEmpty
<1>6. Budget'
  BY <1>2, BudgetStays
<1> QED  BY <1>3, <1>4, <1>5, <1>6 DEF IInv

LEMMA ReceiveKeeps ==
  ASSUME IInv, NEW k \in Replicas, ReceiveMessage(k)
  PROVE  IInv'
<1>1. PICK got \in SUBSET Deliverable :
        /\ queue' = [m \in Messages |-> IF m \in got THEN "hidden" ELSE queue[m]]
        /\ receives' = [m \in Messages |-> IF m \in got THEN receives[m] + 1 ELSE receives[m]]
        /\ batch' = [batch EXCEPT ![k] = got]
  BY DEF ReceiveMessage
<1>2. /\ worker' = [worker EXCEPT ![k] = "working"]
      /\ UNCHANGED <<attempts, handled, current, deaths>>
      /\ batch[k] = {}
  BY DEF ReceiveMessage, IInv, IdleEmpty
<1>3. \A m \in got : m \in Messages /\ queue[m] = "visible" /\ receives[m] < MaxReceives
  BY DEF Deliverable
<1>4. TypeOK'
  <2>1. receives' \in [Messages -> 0..MaxReceives]
    BY <1>1, <1>3 DEF IInv, TypeOK, MaxReceives
  <2> QED  BY <1>1, <1>2, <1>3, <2>1 DEF IInv, TypeOK, Place
<1>5. DecidedHandled' /\ DeadCounted'
  BY <1>1, <1>2 DEF IInv, TypeOK, DecidedHandled, DeadCounted
<1>6. IdleEmpty'
  BY <1>1, <1>2 DEF IInv, TypeOK, IdleEmpty
<1>7. ASSUME NEW m \in Messages
      PROVE  attempts'[m] + Cardinality(Holders(m)') <= receives'[m]
  <2>1. attempts[m] \in Nat /\ receives[m] \in 0..MaxReceives /\ Cardinality(Holders(m)) \in Nat
    BY HoldersFinite DEF IInv, TypeOK
  <2>2. attempts[m] + Cardinality(Holders(m)) <= receives[m]
    BY DEF IInv, Budget
  <2>3. batch'[k] = got /\ \A j \in Replicas \ {k} : batch'[j] = batch[j]
    BY <1>1 DEF IInv, TypeOK
  <2>4. CASE m \in got
    <3>1. Cardinality(Holders(m)') = Cardinality(Holders(m)) + 1
      BY <1>2, <2>3, <2>4, HoldersGain
    <3> QED  BY <1>1, <1>2, <2>1, <2>2, <2>4, <3>1 DEF MaxReceives
  <2>5. CASE m \notin got
    <3>1. Holders(m)' = Holders(m)
      BY <1>2, <2>3, <2>5 DEF Holders
    <3> QED  BY <1>1, <1>2, <2>2, <2>5, <3>1
  <2> QED  BY <2>4, <2>5
<1> QED  BY <1>4, <1>5, <1>6, <1>7 DEF IInv, Budget, Holders

LEMMA HandleKeeps ==
  ASSUME IInv, NEW k \in Replicas, NEW m \in Messages,
         HandleSucceeds(k, m) \/ HandleFails(k, m)
  PROVE  IInv'
<1>1. /\ Working(k) /\ m \in batch[k]
      /\ attempts' = [attempts EXCEPT ![m] = @ + 1]
      /\ batch' = [batch EXCEPT ![k] = @ \ {m}]
      /\ UNCHANGED <<queue, receives, worker, deaths>>
  BY DEF HandleSucceeds, HandleFails, Attempts
<1>2. \/ handled' = handled \cup {m} /\ current' = [current EXCEPT ![k] = {m}]
      \/ UNCHANGED <<handled, current>>
  BY DEF HandleSucceeds, HandleFails
<1>3. TypeOK'
  BY <1>1, <1>2 DEF IInv, TypeOK
<1>4. DecidedHandled' /\ DeadCounted'
  BY <1>1, <1>2 DEF IInv, TypeOK, DecidedHandled, DeadCounted
<1>5. IdleEmpty'
  BY <1>1 DEF IInv, TypeOK, IdleEmpty, Working
<1>6. ASSUME NEW n \in Messages
      PROVE  attempts'[n] + Cardinality(Holders(n)') <= receives'[n]
  <2>1. attempts[n] \in Nat /\ receives[n] \in 0..MaxReceives /\ Cardinality(Holders(n)) \in Nat
    BY HoldersFinite DEF IInv, TypeOK
  <2>2. attempts[n] + Cardinality(Holders(n)) <= receives[n]
    BY DEF IInv, Budget
  <2>3. batch'[k] = batch[k] \ {m} /\ \A j \in Replicas \ {k} : batch'[j] = batch[j]
    BY <1>1 DEF IInv, TypeOK
  <2>4. CASE n = m
    <3>1. Cardinality(Holders(n)') = Cardinality(Holders(n)) - 1
      BY <1>1, <2>3, <2>4, HoldersLoss
    <3>2. attempts'[n] = attempts[n] + 1
      BY <1>1, <2>4 DEF IInv, TypeOK
    <3> QED  BY <1>1, <2>1, <2>2, <3>1, <3>2 DEF MaxReceives
  <2>5. CASE n # m
    <3>1. Holders(n)' = Holders(n)
      BY <2>3, <2>5 DEF Holders
    <3>2. attempts'[n] = attempts[n]
      BY <1>1, <2>5 DEF IInv, TypeOK
    <3> QED  BY <1>1, <2>2, <3>1, <3>2
  <2> QED  BY <2>4, <2>5
<1> QED  BY <1>3, <1>4, <1>5, <1>6 DEF IInv, Budget, Holders

LEMMA DeleteKeeps ==
  ASSUME IInv, NEW k \in Replicas, NEW m \in Messages, DeleteMessage(k, m)
  PROVE  IInv'
<1>1. /\ UNCHANGED <<receives, attempts, handled, worker, batch, deaths>>
      /\ current' = [current EXCEPT ![k] = {}]
      /\ m \in current[k]
      /\ queue' = [queue EXCEPT ![m] = "deleted"] \/ UNCHANGED queue
  BY DEF DeleteMessage
<1>2. TypeOK'
  BY <1>1 DEF IInv, TypeOK, Place
<1>3. DecidedHandled' /\ DeadCounted'
  BY <1>1 DEF IInv, TypeOK, DecidedHandled, DeadCounted
<1>4. IdleEmpty'
  BY <1>1 DEF IInv, IdleEmpty
<1>5. Budget'
  BY <1>1, BudgetStays
<1> QED  BY <1>2, <1>3, <1>4, <1>5 DEF IInv

LEMMA WorkerStepKeeps ==
  ASSUME IInv, NEW k \in Replicas,
         PollAgain(k) \/ ReceiveFails(k) \/ StartWorkers(k) \/ Die(k)
  PROVE  IInv'
<1>1. /\ UNCHANGED <<queue, receives, attempts, handled>>
      /\ \E w \in {"down", "polling", "ended"} : worker' = [worker EXCEPT ![k] = w]
      /\ UNCHANGED batch \/ batch' = [batch EXCEPT ![k] = {}]
      /\ UNCHANGED current \/ current' = [current EXCEPT ![k] = {}]
      /\ UNCHANGED deaths \/ deaths' = deaths + 1
  BY DEF PollAgain, ReceiveFails, StartWorkers, Die
<1>2. batch'[k] = {}
  BY DEF PollAgain, ReceiveFails, StartWorkers, Die, IInv, TypeOK, IdleEmpty
<1>3. \A j \in Replicas : batch'[j] \subseteq batch[j] /\ current'[j] \subseteq current[j]
  BY <1>1 DEF IInv, TypeOK
<1>4. TypeOK'
  BY <1>1 DEF IInv, TypeOK
<1>5. DecidedHandled' /\ DeadCounted'
  BY <1>1, <1>3 DEF IInv, DecidedHandled, DeadCounted
<1>6. IdleEmpty'
  BY <1>1, <1>2, <1>3 DEF IInv, TypeOK, IdleEmpty
<1>7. Budget'
  BY <1>1, <1>3, BudgetStays
<1> QED  BY <1>4, <1>5, <1>6, <1>7 DEF IInv

-----------------------------------------------------------------------------
LEMMA InitIInv == Init => IInv
<1> SUFFICES ASSUME Init PROVE IInv
  OBVIOUS
<1>1. TypeOK /\ DecidedHandled /\ DeadCounted /\ IdleEmpty
  BY DEF Init, TypeOK, DecidedHandled, DeadCounted, IdleEmpty, Place, MaxReceives
<1>2. \A m \in Messages : Holders(m) = {}
  BY DEF Init, Holders
<1>3. Budget
  BY <1>2, FS_EmptySet DEF Init, Budget
<1> QED  BY <1>1, <1>3 DEF IInv

LEMMA NextIInv == IInv /\ [Next]_vars => IInv'
<1> SUFFICES ASSUME IInv, [Next]_vars PROVE IInv'
  OBVIOUS
<1>1. CASE \E k \in Replicas : Loop(k)
  BY <1>1, ReceiveKeeps, HandleKeeps, DeleteKeeps, WorkerStepKeeps DEF Loop
<1>2. CASE \E k \in Replicas : ReceiveFails(k) \/ Die(k) \/ StartWorkers(k)
  BY <1>2, WorkerStepKeeps
<1>3. CASE \E m \in Messages : Send(m) \/ VisibilityTimeout(m) \/ Redrive(m)
  BY <1>3, QueueStepKeeps
<1>4. CASE UNCHANGED vars
  BY <1>4 DEF vars, IInv, TypeOK, DecidedHandled, DeadCounted, IdleEmpty, Budget, Holders
<1> QED  BY <1>1, <1>2, <1>3, <1>4 DEF Next

LEMMA Invariant == Spec => []IInv
BY InitIInv, NextIInv, PTL DEF Spec

\* The receive counts never pass the redrive limit, whatever times out while
\* a consumer still holds a message.
THEOREM ConsumerTypes == Spec => []TypeOK
<1>1. IInv => TypeOK
  BY DEF IInv
<1> QED  BY <1>1, Invariant, PTL

\* At least once: a message leaves the queue for good only handled or dead
\* after three receives, for any number of replicas, deaths and failures.
THEOREM NothingLost == Spec => []NeverLost
<1>1. IInv => NeverLost
  BY DEF IInv, DecidedHandled, DeadCounted, NeverLost
<1> QED  BY <1>1, Invariant, PTL

\* A message is handled at most as often as it was received: failing on it
\* never blocks the queue nor escapes the redrive policy's count.
THEOREM AttemptsBounded == Spec => []AttemptsCounted
<1>1. IInv => AttemptsCounted
  <2> SUFFICES ASSUME IInv, NEW m \in Messages PROVE attempts[m] <= receives[m]
    BY DEF AttemptsCounted
  <2>1. attempts[m] \in Nat /\ receives[m] \in 0..MaxReceives /\ Cardinality(Holders(m)) \in Nat
    BY HoldersFinite DEF IInv, TypeOK
  <2>2. attempts[m] + Cardinality(Holders(m)) <= receives[m]
    BY DEF IInv, Budget
  <2> QED  BY <2>1, <2>2 DEF MaxReceives
<1> QED  BY <1>1, Invariant, PTL
=============================================================================
