# The order service in TLA+

This directory is the formal model of the order service (MS2): the program that
keeps the service orders of a car-repair shop, drives their stock through a saga
with the stock service (MS3) over SQS queues, and collects their payment through
Mercado Pago. TLC model-checks it on small instances; TLAPS proves what does not
depend on the size of the instance.

Paths below are relative to the repository, in `src/internal/modules/...` unless
they start with `src/`.

## 1. The system

```
 HTTP callers ──> use cases ──┬──> saga orchestrator ──> order-inventory-op-requested ──> MS3
 (customers,      (create,    │        ^                                                  │
  mechanics)      update,     │        └── consumers <── ...-succeeded / ...-failed <─────┘
                  advance,    │
                  respond,    ├──> table service_orders (Postgres)
                  delete)     └──> billing ──> Mercado Pago ──> webhook ──> billing
```

### Inventory of the components

| component | state it keeps | operations | what makes it hard | what makes it correct |
|---|---|---|---|---|
| status machine (`service_order/domain/service_order/order_status.go`, `inventory_operation_type.go`) | none | `CanTransitionTo`, `NextStatus`, `DetermineInventoryOperation`, `inferOperation` | four tables written in four places that must agree | every transition that needs stock has its operation; the operation is recoverable from status and target |
| aggregate `ServiceOrder` (`service_order.go`) | status, closedAt, items, saga columns (status, id, target), payment columns (MP order, MP payment) | `UpdateStatus`, `StartSaga`, `CompleteSaga`, `FailSaga`, `AwaitPayment`, `ConfirmPayment`, `RejectPayment`, `CancelAfterRefund`, item changes | five methods clear the saga columns, each in its own way; the payment methods do not ask whether a saga is in flight | the three saga columns agree; closedAt is stamped on exactly the right rows |
| saga orchestrator (`service_order/application/saga/saga_orchestrator.go`) | none of its own: the saga is the row | `StartSaga`, `CancelOrder`, `HandleSucceeded`, `HandleFailed`, `RecoverAwaitingSagas` | row saved, then request published; replies late, repeated, out of order; recovery from the row alone, while HTTP is served | a reply reaches only the saga it answers; order and stock change together; every saga is resolved |
| use cases of the order (`service_order/application/usecases`) | none | create, update, advance, respond, delete | advance and respond change the status without looking at the saga; delete refunds before it cancels | an order goes through the stages of a repair in order |
| billing (`billing/application/usecases`) | MP columns of the row | start, retry, webhook (approved, rejected, refunded), refund | notifications repeat, come late, cross; a retried MP order stays payable | a row names only a payment of its own; a paid order keeps its stock |
| queues and consumers (`src/internal/messaging`, `src/internal/shared/infra/sqs`) | messages, receive counts, the dead-letter queues | publish, receive, handle, delete | at-least-once delivery, no order, death between handling and deleting | idempotence of the handlers |
| startup (`src/cmd/api/main.go`, `src/k8s`) | life of each replica | register routes, recover, start the consumers | routes are served before recovery; an error of recovery ends the process; a rolling update starts the new replica, recovery included, while the old one works | no row stops a startup; recovering twice does no harm |
| repository (`service_order/infra/persistence`) | tables `service_orders`, `service_order_items` | whole-row save, load by id, load by saga status, filtered and sorted list | no version column: two handlers may overwrite each other; a save deletes the items its writer does not list; rows and items are read by two queries | what is left after any overwriting is still a row the consumers and recovery can take up; no product twice among the items; a list shows items that belong to the status beside them |
| items of an order (`service_order_item.go`, item part of `service_order.go`) | quantity, price, link to the history | add and merge, remove, replace all, total | merged by the text of their ids, stored by value; signatures for the history are built from code points | merging keeps the amount; an entry says whether the items changed; replaced items name their entry |
| history (`history.go`, `history_dynamo_repository.go`) | entries in DynamoDB | append, list, find by id | saved before the row and without a transaction; keyed and sorted by the text of a time | no status without its entry; an entry once saved is shown as it was |
| customer-deleted consumer (`messaging/consumers/customer_deleted.go`) | none | delete the open orders of a customer | one query, then order by order from what it read; an error repeats the whole pass; an order with a saga in flight is passed over | no order forgotten without a reason; no second cancellation over one in flight |
| HTTP handlers and validator (`service_order/infra/http`, `shared/validators`, `shared/utils/error_mapper.go`) | none | validate, call the use case, map the error to a status code | the validator trims what the use case compares; errors are told apart by their text | what is accepted is valid; a refusal left nothing behind; success is answered only of what is durable |
| clients of MS1 and MS3 (`shared/http_clients`, `infra/adapters`) | none | look up customer, vehicle, item; retry on 5xx | retries with a bound | every request is answered |
| reads (`get_*.go`) | none | get, list, payment link, history | two queries while handlers write | `FrozenItemsShown`, `ListFollowsWorkflow` (section 3) |
| MS3, Mercado Pago | stock, sagas seen; MP orders, payments | perform or refuse; pay, refund | external | modelled as the code uses them |

`PROJECT.json` lists every component, also those left out (access control, e-mail,
observability, integration tests and deployment), and under `hazards` what can go
wrong, at its line.

## 2. The modules

| module | models |
|---|---|
| `OrderStatus` | the status machine and the stock operations: pure operators, literally the tables of the Go code |
| `ServiceOrder` | one row as a record; one operator per method of the aggregate; EXTENDS `OrderStatus` |
| `InventoryService` | MS3 and the three queues; EXTENDS `ServiceOrder` |
| `MercadoPago` | MP orders and payments |
| `OrderSaga` | the whole service composed with the two external ones: Init, one action per handler, Next, Spec, and the properties that hold whatever the callers do |
| `OrderSagaDiscipline` | the same actions under disciplined callers, fairness, and the stronger properties that hold then |
| `OrderSagaClaims` | statements of the repository's documents and integration features which the code does not keep |
| `OrderLifecycle` | abstract specification: the stages of a repair |
| `AtomicOrder` | abstract specification: an order and its stock change in one step |
| `OrderSessions` | the handlers of one order seen inside: every load, history entry, save and publication is a step, handlers interleave and stop anywhere; EXTENDS `ServiceOrder` |
| `OrderSessionsClaims` | statements of the documents that concurrent or interrupted handlers do not keep |
| `OrderAnswers` | what the callers of `OrderSessions` are told, beside what their calls had done by then |
| `CustomerDeletion` | the customer-deleted consumer, composed with every action of `OrderSaga` |
| `InventoryConsumers` | the receive loop of a consumer against its queue: batches, visibility timeouts, receive counts, dead-letter queue, ended goroutines, deaths |
| `OrderItems` | the items of one order: the aggregate's rules, the update that replaces them, their rows and their link to the history |
| `OrderHistory` | the history table: keys made of times written out, puts that cross, the query and the search by id |
| `OrderReads` | get, list and payment link, in two queries while handlers write; EXTENDS `ServiceOrder` |
| `OrderRequests` | one create or update from body to answer: validator, lookups with retries, checks, writes, status codes |
| `MCOrderSaga`, `MCOrderAnswers`, `MCCustomerDeletion`, `MCOrderItems`, `MCOrderRequests` | the instances of TLC that need definitions (symmetry, sets of operations, owners of vehicles); one `.cfg` per run |
| `ServiceOrderProofs` | lemmas: each method of the aggregate keeps a good row, with its status, items and ids |
| `OrderSagaProofs` | theorems: types, saga columns, closing, fresh saga ids, correlation of messages, payments, refinement of `OrderLifecycle`; of disciplined callers, faithful requests, sagas that can finish, refinement of `AtomicOrder`; of the deletion, that it is an `OrderSaga`, forgets no order and cancels none twice |
| `OrderAnswersProofs` | theorems of `OrderSessions`: types, whole rows, history first, under any interleaving; of `OrderAnswers`: what callers are told is true, and what a lone handler may rely on |
| `InventoryConsumersProofs` | theorems: types, nothing lost, attempts counted |
| `OrderRequestsProofs` | theorems: types, vehicles of the customer, valid items, refusals without a trace |
| `OrderItemsProofs` | theorems: types, one item of each product or service, totals kept, replaced items linked, changes marked |
| `OrderHistoryProofs` | theorems: types, entries read back, later seconds first |
| `OrderReadsProofs` | theorems: items shown are the row's, lists follow the workflow |

How they fit together: `OrderStatus` and `ServiceOrder` are the vocabulary of all
models of orders. `OrderSaga` is the whole service with a handler as one step;
`OrderSessions` opens the handler up, for one order, and shows when that one step is
right (`DecidesOnTheRow`) and what remains true when it is not (`RowIsWhole`).
`InventoryConsumers` opens up the delivery of a message, which in `OrderSaga` is one
step with a nondeterministic acknowledgement. `OrderRequests`, `OrderItems`,
`OrderHistory` and `OrderReads` model the data that the saga does not look at.

### State of `OrderSaga`

| variable | code |
|---|---|
| `orders` | table `service_orders`: a function from the ids created to rows (`status`, `closed` for closedAt set, `items`, `sagaStatus`, `sagaId`, `target`, `mpOrder`, `mpPayment`) |
| `sagas` | ghost: the i-th saga started, with the request it was started with. Its index stands for the UUID v7 |
| `process`, `recovery`, `crashes` | each replica: down, recovering (HTTP served, consumers not started) or up; the requests its recovery has loaded and not sent yet; deaths so far |
| `requests`, `replies` | queues `order-inventory-op-requested`, and `-succeeded` with `-failed` |
| `settled`, `stock` | MS3: the outcome of each saga id, what is reserved and taken for each order |
| `mpOrders`, `payments` | Mercado Pago: the preferences and the payments attempted on them |

### Actions of `OrderSaga`

| action | code |
|---|---|
| `Create`, `UpdateItems` | `CreateServiceOrder.Execute`, the item part of `UpdateServiceOrder.Execute` |
| `Advance` = `AdvanceBySaga` / `AdvanceToPayment` / `AdvanceDirectly` | the three branches of `AdvanceServiceOrderStatus.Execute` |
| `Approve`, `Deny` (`Respond`) | `RespondToAuthorization.Execute` |
| `DeleteUnpaid`, `DeletePaid` | `DeleteServiceOrder.Execute`, the second refunds first |
| `StartSaga` = `TransitionLocal` / `LaunchSaga`, `CancelOrder` | the orchestrator, called by the above; an order without items changes at once |
| `HandleSucceeded`, `HandleFailed`, `DeadLetter` | a delivery to a consumer; the move to the dead-letter queue when every delivery fails |
| `RetryPayment`, `StartPayment` | `RetryPayment.Execute`, `startPayment` |
| `MarkApproved`, `MarkRejected`, `MarkRefunded` | `HandlePaymentWebhook.Execute` by the status Mercado Pago answers |
| `Crash`, `Start`, `Republish`, `Ready`, `StartFails` | death of the process; `main` with `RecoverAwaitingSagas` |
| `Stock(m)`, `Payer` | MS3 handles a request; the customer pays, the seller refunds |

**Granularity of `OrderSaga`.** A handler is one action: handlers of the same order run one after
the other. What may happen *inside* a handler is kept where two durable effects
follow each other: `LaunchSaga` (row saved, request not published), `StartPayment`
(MP order created, row not saved), `DeletePaid` (refunded, cancellation not
started) and the consumers (`Acknowledge`: handled, not deleted) each have an
outcome in which the process dies, or the call fails, in between (`Interrupted`).
Recovery is several actions, since its rows are loaded once and republished one by
one while calls are served. A failure before the first effect of a handler leaves
the state as it was and is a stuttering step.

**Items** are a set of products; quantities and prices are left out, since the saga
copies them from row to request and MS3 accounts for whole reservations.

**MS3** is external. Its contract is the one the orchestrator relies on and
`features/saga_compensation.feature` describes: requests are idempotent by saga id,
one seen before is answered with the outcome decided then. It may refuse the
operations in `FailableOps` for reasons of its own, and any operation on stock the
order does not hold. **Mercado Pago** is external. A preference stays payable:
`SDKClient.CancelOrder` returns without calling the API. At most one payment of a
preference is approved, earlier attempts may have been rejected.

### The other modules

**`OrderSessions`.** `row` and `history` are the two stores, `session[s]` what one
execution of a handler has in memory: the row it loaded (`loaded`), the row it will
save (`next`), the target and the saga of its call, and `pc`, the write that comes
next. The calls (`AdvanceDirectly`, `AdvanceBySaga`, `StartPayment`, `Approve`, `Deny`,
`Delete`, `EditItems`, `HandleWebhook`, `Receive`) are the first load of a use case or
consumer; `CancelOrder`, `StartSaga` and `HandleReply` are the loads of the
orchestrator, which does not compare what it finds with what the use case saw;
`SaveHistory`, `SaveRow` and `Publish` are the writes in their order; `Abandon` is a
failing store or queue, or a death. `requests`, `replies`, `charges` reduce MS3 and
Mercado Pago to what they may say of this order. The order is taken up at rest at any
status of the normal flow (`RowAt`), with the entries it then has, so that few
handlers are enough for every pair to meet.

**`OrderAnswers`** adds to each call its status code (`answer`) and what it had done
by then (`done`, `refunded`). Its steps are those of `OrderSessions`; a refusal
(`Refuse` there) says here why (`Conflict`, `Fails`). `alone` is a history variable:
TRUE until two sessions are under way at once. Some properties are stated of a handler
that had the order to itself, and `alone` lets one run check them beside those that
hold of two.

**`CustomerDeletion`** adds the message (`message`, `receives`), the rows the pass has
read and not gone through (`batch`) and those it passed over (`skipped`). `DeleteOne` is
`Delete` of `OrderSaga`, which loads the row again; every other handler goes on between
two orders of the batch (`Others`), except creations, since the customer is gone.

**`InventoryConsumers`** has per message its place, receives and handler calls, and
per replica its goroutine, its batch and the message it is about to delete. A batch
shares one visibility timeout, which may end at any time after the receive.

**`OrderItems`.** `table` holds the item rows by id, deleted ones included; a
session holds the list it loaded and the list it will save. `SaveWithItems` deletes
the rows its writer does not list and writes back those it does. A member of
`References` stands for type, id and name of a product or service; `text` is the
spelling of the id in the request, which the aggregate compares and the store forgets.
A request is worked off line by line (`AddLine`), each with its own look at the
catalogue, whose prices may change in between; rows get ids above all before them
(`Later`), as UUIDs of version 7 are, and a list is loaded in any order (`Loaded`).
Prices and quantities are numbers, and `Rune` is Go's conversion of a number to a
code point.

**`OrderHistory`.** Times are instants, and `Format` and `Parse` are RFC 3339 with
trimmed fractions, in `Base` digits of which a second has `Places` (10 and 9 in Go; 2
and 2 in the runs). A text is a sequence of codes, compared as DynamoDB compares a
sort key. `Save` replaces what has the same order and text.

**`OrderReads`.** `Handle` turns a row into any row that a handler of `OrderSaga` may
leave, for any caller. A read loads rows (`LoadRows`, `LoadRow`), then items
(`Preload`); handlers may write between the two queries. The rows of a list are any
sequence of those found that is `Sorted` as `ORDER BY` asks; as `Before` is a total
order there is one.

**`OrderRequests`.** `pc` walks through the handler: validator, load, customer,
vehicle, owner, items one by one, history, save. A field of a body is how it is
written (absent, empty, spaces, malformed, a UUID, a UUID spelt otherwise) and what it
refers to. `Retry` and `LookupFails` are the client, with its bound of three attempts.
`StatusCodes` is the mapper of errors.

## 3. The runs

| run | question | result |
|---|---|---|
| `any_caller` | what survives every call, notification, reply, refusal, failing call, death and recovery, on one order? | holds, 0.2 million states |
| `disciplined` | under disciplined callers, with two replicas, is the saga an atomic change of order and stock, and is every saga in flight resolved? | holds, 0.7 million states |
| `sessions` | what survives handlers of one order that interleave and stop anywhere, and what are their callers told? is a handler on its own one step? | holds, 0.9 million states |
| `deletion` | does a pass over the two orders of a deleted customer forget one or cancel one twice? | holds, 0.6 million states |
| `consumers` | does a message leave the queue unhandled or is it tried uncounted, with two competing consumers, and does it come to an end? | holds, 0.07 million states |
| `items` | are items merged, replaced, linked and marked right, and never doubled, by two handlers? | holds, 3 million states |
| `requests` | is what is accepted consistent, what is refused without a trace, and each request answered? | holds, 0.1 million states |
| `history` | is every entry shown as it was made, later seconds first? | holds |
| `reads` | do the two queries of a read fit together, and the sort with the workflow? | holds |
| `claim_success`, `claim_charge`, `claim_one_saga` | does the code keep what its documents say? | violated, section 5 |

Properties under **any** caller (`OrderSaga`):

- `SagaColumnsConsistent`: a row waits exactly while it has a saga id and a target, and the target is one recovery can infer an operation for. Five methods write these columns.
- `SagasCorrelated`: every message, every request recovery holds, and every waiting row belong to the order the saga was started for.
- `SagaIdsAreFresh`: the only saga id a row can gain is one issued in that step. With the previous one, an old or repeated reply finds nothing to act on.
- `ClosedStamped`: closedAt is set exactly from completion on, through retries and cancellations.
- `PaymentRecorded`: the payment a row names was approved on an MP order of that order, and the row has been PAID since.
- `FollowsLifecycle`: with `StageOf` as refinement mapping, the rows implement `OrderLifecycle`.

Properties under **disciplined** callers (`OrderSagaDiscipline`): nobody calls about
an order whose saga is in flight, an order that can still be paid is not deleted,
and refunds come from the service only. The code enforces none of the three;
section 5 shows what each costs. Then:

- `RequestsAreFaithful`: what recovery republishes equals what was first sent.
- `SagaCanFinish`: the success of the saga in flight can always be applied.
- `SagaIsAtomic`: refinement of `AtomicOrder`. The mapping moves an order to its target when MS3 *performs* the operation, before the reply arrives; refusals, redeliveries, deaths and recovery are stuttering steps.
- `SagasResolve`: an order that waits for the stock service stops waiting.

Properties of **interleaved handlers** (`OrderSessions`, `OrderAnswers`):

- `RowIsWhole`: whatever the interleaving, saga status, id, target and closedAt of the row belong together. A lost update is possible (section 5), a mixed row is not.
- `RecordedFirst`: the status of the row is in the history, whatever stops where.
- `DecidesOnTheRow`, `ChangesAreRecorded` (while alone): the row a handler overwrites is the row it decided on, and every change is a transition of the table with its own entry. This is what allows `OrderSaga` to take a handler for one step when handlers of an order do not overlap.
- `RefusalChangesNothing` (while alone), `SuccessIsDurable`, `ErrorLeavesStatus`: a conflict means that nothing happened, at Mercado Pago included; success means that the effects are stored; an error means that the row did not take the decision, so that the call can be repeated.

Properties of the **customer-deleted consumer** (`CustomerDeletion`): `NoOrderForgotten`
(with the message deleted, an open order is being canceled, was refused by MS3, or was
passed over for its saga), `CancellationStartedOnce` (repeated passes start nothing
over a saga in flight).

Properties of the **receive loop** (`InventoryConsumers`): `NeverLost` (deleted means
handled, dead means received three times), `AttemptsCounted` (handler calls are
bounded by receives), `EveryMessageEnds` (deleted or dead in the end, unless an error
of `ReceiveMessage` has ended the loop of every replica, which nothing restarts).

Properties of the **data**:

- `OneItemPerReference`: no product twice among the active items, whatever save comes last (ids in one spelling); MS3 would reserve it twice.
- `AmountKept`, `ReplacedItemsLinked`, `ChangesMarked`: merging keeps the total of the request, unless the catalogue told its lines two prices of one thing, of which the first is kept; an item a save takes away names the entry of its replacement, unless the writer had not seen it; and that entry says `items_changed` exactly when the content differs (for prices that are code points).
- `EntriesReadBack`, `LatestSecondFirst`: an entry is shown for ever unless one of the same order and instant replaced it; entries of a later second come first however puts cross.
- `FrozenItemsShown`: an order shown past its diagnosis is shown with the items it was decided on, because the row is read first. `ListFollowsWorkflow`: the `CASE` of the query sorts as the status machine moves.
- `VehicleIsTheCustomers`, `AcceptedItemsAreValid`, `RefusalLeavesNoTrace`, `EveryRequestAnswered`: whichever ids a body leaves out and however it spells them, customer and vehicle of a stored order belong together; validator and use case together let no invalid item through; a 4xx left nothing behind.

Each property has a mutant in `PROJECT.json`: a plausible wrong version of one
operator of the model (kept beside it, marked "Mutant"), under which TLC finds the
property violated. Examples: a recovery that issues a new saga id breaks
`SagasCorrelated`; a reply applied without asking the status machine breaks
`FollowsLifecycle`; an `inferOperation` that forgets refused budgets breaks
`SagasResolve`, since every startup then fails.

## 4. Bounds, deadlock and fairness

| bound | value | why it is enough |
|---|---|---|
| `Orders` | 1; 2 in `deletion` | handlers touch one row; two rows are needed for messages to mix, which is proved for any number, and for a pass to stop between them; any number in the proofs |
| `Replicas` | 1; 2 in `disciplined` | a rolling update runs two at most (`maxSurge: 1`); the theorems hold for any number |
| `Products` | 1 | a set of products is then empty or not, the one distinction the code makes; edits during a saga change `{p1}` to `{}` and back |
| `MaxSagas` | 3 in `disciplined`; 2 in `any_caller` and `deletion` | with 3 an order is reserved, taken and returned, so a reply can be two sagas old; with 2 a reply is one saga old, or each of two orders has its cancellation. Every property of `any_caller` is proved for any number |
| `MaxMPOrders`, `MaxPayments` | 2 and 2 in `any_caller`, 2 and 1 in `disciplined`, 2 and 3 in `claim_charge` | a rejection and an approval, on one preference or on two, in either order; a retry after a rejection |
| `MaxCrashes` | 1; 0 in `deletion` | a death at any point, followed by a recovery that may itself fail any number of times (`StartFails`); the proofs cover any number. A pass that stops half way is given back to the queue by a failing order as by a death |
| `CallsMayFail` | TRUE in `any_caller` | calls to queues and stores fail any number of times, replies are lost to the dead-letter queue; elsewhere only a death interrupts a handler, the theorems cover both values |

The other modules:

| bound | value | why it is enough |
|---|---|---|
| `Sessions`, `MaxCalls` | 2 and 4 | two handlers overlap while two more set the scene, started at any status; any number in the proofs |
| `MaxSagas`, `MaxCharges` | 3 and 2 | two sagas to take for each other and one more; a payment and its retry |
| `InventoryConsumers` | 2 messages, one malformed, 2 replicas, batches of 2, 2 deaths | the second message of a batch times out behind the first and is received by the other replica; any number in the proofs |
| `OrderItems` | 2 references, 2 prices, 2 lines per request, 3 rows, 2 entries | a request names one product twice, or two; a price changes between its lines; an update replaces an update; any number of sessions, references, lines and rows in the proofs |
| `OrderHistory` | 2 orders, 2 binary digits, 2 seconds, 3 entries | fractions of none, one and two digits, in one second and across two |
| `OrderReads` | 2 orders, 1 MP order each | order in a list is a relation of two; the ids of MP orders are not shown; any number of both, and of products, in the proofs |
| `OrderRequests` | 2 customers, 3 vehicles, 2 items, `Keywords` FALSE | a vehicle of the same customer and of another; a good item before and after a bad one; bodies of any length and any owners in the proofs. `Keywords` is whether a foreign error may read like a validation error: section 5 shows what it costs |

The counters are bounded in the guards of `LaunchSaga`, `CreateMPOrder`, `Pay` and
`Dies`; a call beyond the bound does not happen. Runs say `CHECK_DEADLOCK FALSE`: an
order that is delivered and never called about again, with empty queues, is a state
in which the system may rest, and callers owe no call. The same holds of the other
modules, except `OrderRequests`, whose run does check deadlock: a handler is answered
(`Done`) or can go on. Symmetry: sessions in `sessions` and `items`,
products in `items`, orders in `deletion`; these runs check only invariants and action
properties that treat sessions, products and orders alike. No run that checks liveness uses symmetry.

Fairness (`FairDisciplinedSpec`) is weak, and asks only for what the environment
does: `Recover(k)`, as Kubernetes restarts the container of a replica that exited; for each saga its
request at MS3 and its reply at the consumer, as SQS keeps delivering a message
until it is deleted, and independently of other messages. Calls, payments,
notifications and deaths have no fairness. `disciplined` sets `CallsMayFail` to
FALSE: a failed `SendMessage` that does not end the process, or a reply lost to the
dead-letter queue, leaves the row waiting until the *next* startup, which nothing
forces to come. That is a limit of the code
(`saga_orchestrator.go:75` returns the error and nobody retries), not of the model;
a death at the same point is included and is recovered from.
`FairSpec` of `InventoryConsumers` has weak fairness of the loop of each replica and of
its restart (a goroutine runs; Kubernetes restarts a process), and of each message's
visibility timeout and redrive (SQS keeps its clock); handlers may fail for ever.
`FairSpec` of `OrderRequests` has weak fairness of the handler: every call it makes
returns, as the HTTP client has a timeout. `NotifyingSpec` (`OrderSagaClaims`) lets
Mercado Pago notify an approved payment until it has been taken.

## 5. What the code does not keep

Three runs expect a violation; the trace TLC prints is the scenario.

| run, property | statement | what happens |
|---|---|---|
| `claim_success`, `SucceededSagaCanBeApplied` | README:234, a success moves the order to its target | a budget approved while its refusal is in flight becomes AUTHORIZED; the success of the refusal then fails on every delivery and the row waits for ever |
| `claim_charge`, `NeverChargedTwice` | business rules, line 49: a retry cancels the previous MP order | it stays payable; both payments are approved |
| `claim_one_saga`, `OneSagaAtATime` | errors.go:46: a second saga is refused | two calls that both load before either saves start a saga each |

The others are stated in the modules and are refuted by the instance of a run: with
the property alone in place of those of the `.cfg` named, TLC prints the scenario.

| `.cfg` | property | statement | what happens |
|---|---|---|---|
| `any_caller`, `MaxSagas = 3` | `RecoveryRepublishesTheOperation` | README:108, a restart republishes pending operations | `inferOperation` knows COMPLETED and PAID only: a cancellation in AWAITING_PAYMENT or PAYMENT_REJECTED, started as CANCEL_CONFIRMED, is republished as CANCEL_RESERVED |
| `any_caller` | `PaidByApprovedPayment` | business rules, line 34: an approved payment makes an order PAID | `POST advance` in AWAITING_PAYMENT makes it PAID too |
| `any_caller`, `MaxSagas = 3` | `PaidOrderKeepsItsStock` | feature: cancellation in AWAITING_PAYMENT ends in CANCELED | an approval during that saga makes the order PAID with its stock given back |
| `any_caller` | `CanceledOrderReturnsItsStock` | README:198: PAID to CANCELED asks for CANCEL_CONFIRMED | a refund that Mercado Pago notifies cancels the row and starts no saga; the stock stays taken |
| `any_caller`, `NotifyingSpec` | `ApprovedPaymentPaysTheOrder` | README:259: an approved payment makes the order PAID | after a rejected attempt on the same MP order the approval is ignored and answered 200 |
| `sessions` | `FinalIsFinal` | business rules, line 40: DELIVERED, CANCELED, AUTHORIZATION_DENIED are final | a handler that loaded the order before it was canceled saves it afterwards: it is open again |
| `sessions` | `HistoryTellsTheEnd` | README:17: the history records the transitions | a handler that stops between entry and row leaves the entry of an end that did not come |
| `sessions` | `LeftForGood` | README:237: duplicates and late events are discarded | a row loaded during a saga and saved after it waits for that saga again, and a duplicate reply acts |
| `sessions` | `RefundedIsNotDelivered` | business rules, line 75: a refund goes with the cancellation | a deletion that stops after the refund leaves a PAID order, which can be delivered |
| `sessions` | `DeleteAnswersAreDocumented` | service_order_handler.go:503: 200, 400, 401, 404, 500 | DELETE answers 202 and 409 as well |
| `deletion` | `AllActiveOrdersCanceled` | README:311: the active orders of the customer are canceled | an order with a saga in flight is passed over and stays open |
| `consumers` | `DeadAfterThreeAttempts` | ADR 0001, line 71: three attempts, then the DLQ | receives are counted, not attempts: the end of a batch times out untried |
| `items`, `Prices = {55296, 55297}` | `ChangesMarked` | history.go:150: a unique signature of the content | numbers that are no code points, as prices above 1114111 cents, are all U+FFFD: the change is not marked |
| `items`, `Spellings` with `"respelt"` | `OneItemPerReference` | service_order.go:312: the same reference adds to the quantity | the same id in upper case is another item until it is stored |
| `requests`, `Keywords = TRUE` | `BadRequestIsTheCallers`, `RefusalLeavesNoTrace` | service_order_handler.go:57: 400 is an invalid body | a failure elsewhere whose text holds "invalid" is answered 400, the history entry of the update written |
| `requests` | `WrongTypeIsRefusedAsSuch` | service_order_dto.go:10: PRODUCT or SERVICE | `" PRODUCT "` passes the validator, is refused by the use case and answered 500 |
| `history` | `NewestFirst` | history_repository.go:10: newest first | `10:00:00.1Z` sorts after `10:00:00.12Z` |
| `history` | `FoundByID` | history_repository.go:13: finds an entry by its id | the limit of one applies before the filter: only the first item of the table can be found |
| `reads` | `HidesCompletedOnly` | service_order_handler.go:257: the statuses that are hidden | AWAITING_PAYMENT is hidden too |
| `reads` | `LinkWhilePayable` | README:255: the link is shown in AWAITING_PAYMENT | after a refused cancellation it is answered 404 for good |

Two disagreements are the exceptions that properties of section 3 name: ADR 0001, line
70, promises a retry of transient failures, and one error of `ReceiveMessage` ends the
loop for the life of the process (`EveryMessageEnds`); service_order_item.go:24 says
that a replaced item names its entry, and a save that did not see an update deletes
its items without one (`ReplacedItemsLinked`).

`SucceededSagaCanBeApplied` and `RecoveryRepublishesTheOperation` are the free-caller
forms of `SagaCanFinish` and `RequestsAreFaithful`.

## 6. What is proved

Each theorem holds for every value of the constants that the `ASSUME` of its module
admits, and where the table says so, under a hypothesis besides. The assumptions are listed below it.

| module | theorem | statement |
|---|---|---|
| `OrderSagaProofs` | `TypeCorrect` | `Spec => []TypeOK` |
| | `ColumnsConsistent` | `Spec => []SagaColumnsConsistent` |
| | `ClosedAtStamped` | `Spec => []ClosedStamped` |
| | `FreshSagaIds` | `Spec => SagaIdsAreFresh` |
| | `Correlation` | `Spec => []SagasCorrelated` |
| | `RecordedPayments` | `Spec => []PaymentRecorded` |
| | `LifecycleImplemented` | `Spec => FollowsLifecycle` |
| | `FaithfulRequests` | `DisciplinedSpec => []RequestsAreFaithful` |
| | `SagasCanFinish` | `DisciplinedSpec => []SagaCanFinish` |
| | `SagasAreAtomic` | `DisciplinedSpec => SagaIsAtomic` |
| | `DeletionIsASaga` | `DeletionSpec => Spec` (of `OrderSaga`) |
| | `NoneForgotten` | `DeletionSpec => []NoOrderForgotten` |
| | `StartedOnce` | `DeletionSpec => CancellationStartedOnce` |
| `OrderAnswersProofs` | `SessionTypes` | `Spec => []TypeOK` (of `OrderSessions`) |
| | `RowStaysWhole` | `Spec => []RowIsWhole` |
| | `HistoryFirst` | `Spec => []RecordedFirst` |
| | `AnswersRefine` | `AnswersSpec => Spec` (of `OrderSessions`) |
| | `DurableSuccess` | `AnswersSpec => []SuccessIsDurable` |
| | `ErrorsLeaveStatus` | `AnswersSpec => []ErrorLeavesStatus` |
| | `LoneDecisions` | `AnswersSpec => []DecidesOnTheRow` |
| | `LoneRefusals` | `AnswersSpec => []RefusalChangesNothing` |
| | `LoneChanges` | `AnswersSpec => ChangesAreRecorded` |
| `InventoryConsumersProofs` | `ConsumerTypes` | `Spec => []TypeOK` |
| | `NothingLost` | `Spec => []NeverLost` |
| | `AttemptsBounded` | `Spec => []AttemptsCounted` |
| `OrderRequestsProofs` | `RequestsTyped` | `Spec => []TypeOK` |
| | `VehicleOfCustomer` | `Spec => []VehicleIsTheCustomers` |
| | `AcceptedItems` | `Spec => []AcceptedItemsAreValid` |
| | `TraceOnlyByKeyword` | `Spec => [](RefusalLeavesNoTrace \/ (Keywords /\ answer = 400))` |
| | `RefusalsLeaveNoTrace` | `Spec => []RefusalLeavesNoTrace`, for `Keywords` FALSE |
| `OrderItemsProofs` | `ItemsTyped` | `Spec => []TypeOK` |
| | `OneItemEach` | `Spec => []OneItemPerReference`, for requests in one spelling |
| | `AmountIsKept` | `Spec => []AmountKept` |
| | `ReplacedAreLinked` | `Spec => ReplacedItemsLinked` |
| | `ChangesAreMarked` | `Spec => ChangesMarked`, while each price and each merged quantity is a character of its own |
| `OrderHistoryProofs` | `HistoryTyped` | `Spec => []TypeOK` |
| | `EntriesAreReadBack` | `Spec => []EntriesReadBack` |
| | `LaterSecondsFirst` | `Spec => []LatestSecondFirst` |
| `OrderReadsProofs` | `ItemsShownAreTheRows` | `Spec => []FrozenItemsShown` |
| | `ListsAreSorted` | `Spec => []ListFollowsWorkflow` |

Assumptions: `BoundsAssumption` (`OrderSaga`: bounds are natural numbers, `FailableOps`
is a set of operations; orders, products and replicas are any sets and `CallsMayFail`
either truth value), `SessionsAssumption` (`OrderSessions`: the same of its bounds, and
one charge at least, which the row started at PAID has), `FiniteSessions`
(`OrderAnswers`: sessions can be counted), `ConsumersAssumption`
(`InventoryConsumers`: malformed messages are messages, a batch holds one at least,
and there are finitely many replicas, so that the workers holding a message can be
counted), `RequestsAssumption` (`OrderRequests`: every vehicle has an owner among the
customers, items are written as the model knows them), `ItemsAssumption` (`OrderItems`:
prices and quantities that fit a rune, spellings the model knows), `ReadsAssumption`
(`OrderReads`: bounds), `HistoryAssumption` (`OrderHistory`: bounds, and a base that
has a digit beside zero). `OneItemEach` and `ChangesAreMarked` assume besides that
requests spell reference ids in lower case, as the database does. `ChangesAreMarked`
assumes that prices are code points and no surrogates, and that no request has lines
enough to merge into a quantity of 55296, the first surrogate. The code sees to none of
this; section 5 shows what another spelling and a price without a character cost.

*Rows* (`ServiceOrderProofs`). `GoodRow(x)` says that one row is well typed, its saga
columns agree and its closing stamp is right. One lemma per method of the aggregate
shows that the method keeps it. Both `OrderSaga` and `OrderSessions` rest on these.

*`OrderSaga`.* `StepWrites` shows that a step of `Next` writes at most one row, and
that row as `NextRow` says: a new order, an item edit, or one of the methods under its
guard. Hence `RowsGood` is preserved, together with the types of the messages and
payments (`StepTyped`): `IInv == TypeOK /\ RowsGood` is inductive. `TypeOK` alone is
not: `Republished` has a typed operation and id only for a row whose columns agree,
and `Settle` a typed target only for one that waits. `Correlation` needs no
strengthening beyond `IInv`, but a lemma, `StepSends`, on what a step may put on a
queue: a request for a new saga, one of a row that waits, or a reply that copies order
and saga of a request or of a reply. `RecordedPayments` rests on `PaymentsOnOrders`:
every payment is on an MP order that exists and MP orders never change.
`LifecycleImplemented` shows with `RowMovesStage` that each way of writing a row is an
`OrderLifecycle` step of that order or leaves its stage.

*The discipline.* A disciplined step is a step of `Next`, so `IInv` and `StepSends`
carry over. The strengthening `DInv` says that every request, on the queue or in the
hands of a recovery, is the one its saga was started with, that the request recovery
*would* rebuild from a waiting row is as well, and that the row waits for one of the
transitions of `SagaMoves`. `StepKinds` sorts the steps: a row is opened, edited or
moved while no saga has it, a saga is launched as recovery would relaunch it, a reply
ends it, MS3 decides a request, or neither the table nor the stock changes. `DInv` is
inductive because of what is not in that list: nobody edits the items or moves the
status of a row that waits. With free callers neither property holds, and section 5
shows the steps that break them.

*The saga is atomic.* The refinement needs `AInv`: the stock of each order is what
`HeldAt` its effective status calls for; MS3 has one verdict on a saga at most; every
reply on the queue is such a verdict; and a saga without one is still the saga of a
waiting row (`NoneLost`). The last is what makes recovery safe: a request that comes
late, twice or from two replicas either has its verdict, and changes nothing, or is
the one its row waits for, and then `DInv` says that it performs the transition the
row waits for, on the stock the row's status calls for (`DecidedRow`, `OperationFits`).
So exactly one step of a successful saga maps to `MoveOrder`, the one of MS3, and the
others stutter; an order without products moves in the step of its handler.

*Interleaved handlers.* A handler may overwrite whatever row is there, so nothing can be
concluded from the row it decided on. The invariant therefore says of each copy in
memory what it says of the row: it is a good row, its saga is one that was started,
and the entry of the status it is about to store is in the history once that step is
past. A save then replaces one good and recorded row by another, whichever they are:
this is why lost updates are possible and mixed rows are not.

*Answers.* `AInv` has two parts. `SoFar` says what a session has done by each point of
its way: the entry before the save, the saga before its publication, the MP order
before the row that names it, and no decision before its end. It needs no assumption
about other sessions, so the answers of `DurableSuccess` and `ErrorsLeaveStatus` are
true under any interleaving. `Lone` relates a session to the row: the row it loaded is
still there, and the order whose payment it refunded is still PAID. Another session's
save would break it; while no two are under way at once there is none (`OnlyOne`).

*The receive loop.* `AttemptsCounted` is not inductive: a message in a batch will be
tried once more. The invariant is a budget, attempts plus the number of workers that
hold the message never exceed its receives; a visibility timeout leaves the message in
the batch, and only a receive, which is counted, puts it in another.

*The deleted customer.* A step of the consumer changes an order only as `Delete` of
`OrderSaga` does, so `DeletionIsASaga` carries every theorem about `OrderSaga` over to
the composition: an order stays correlated, paid and in its stages while the pass
runs. `NoOrderForgotten` alone is not inductive, as it is silent until the message is
deleted. `DelInv` says that during a pass every order that is not in the batch any
more is *handled* (not open, being canceled, refused, or passed over), that a row read
as not open is still not open (`BatchStillGood`), and that all orders are handled
while the message is deleted. The heart of it is `HandledStays`: whatever another
handler does, a handled order stays handled. A closed one never reopens
(`NeverReopens`); one whose cancellation is in flight leaves it only at its target, by a
step of a payment, which ends in no open status, or by a refusal, and that refusal is
on record, since replies are what MS3 settled. For this `StepWrites` says of a row that waits that
only three things end the wait (`WaitEnds`). The theorem covers deaths, failing calls
and payments in the middle of a pass, which the run leaves out.

*Request bodies.* The invariant follows the program counter: `RowInv` says that the
owner was compared by the time items are looked at, of the ids an update would store
and not of those it names; `ItemInv` that every item before the one at hand was found
good; `TraceInv` that a history entry exists only from the point on where the request
can no longer be refused, with one exception. A failure of the store after the entry
is answered by its text, and `Keywords` says whether that text may be taken for a
validation error: `TraceOnlyByKeyword` is all that is true of such a build, the second
theorem what is true without. Bodies have any number of items.

*Reads.* `Keeps` says of a handler that it never takes a row back before its decision
and never changes the items of a decided one; it is proved of each kind of handler
(`KeptByEdit`, `KeptByAdvance`, `KeptByCharge`, `KeptBySaga`). `PastInv` needs it of the
rows an unfinished answer has read: those read as decided still are, so that the items
the second query finds are the ones the decision was about. In the other order, items
first, it would not be inductive. `SortedInv` keeps the ranks of the rows read, which
handlers cannot change any more, and `RankFollowsWorkflow` relates them to the status
machine.

*Items.* `SavedRows` says what a save leaves: the items of the writer's list under their
ids and every other row deleted. What is to hold of the rows must therefore be held of
every session's list meanwhile, as any of them may come to be the table: that its
active items are of different things (`Clean`), kept by a line as `AddItem` appends
only what it does not find (`AddedIsClean`); and, for the links, that it still lists
all that was loaded (`Retained`) and, once the entry is saved, that what it removes
names an entry (`LinkedList`). Neither property is inductive without these:
`OneItemPerReference` says nothing of lists, and `ReplacedItemsLinked` only of the
step that saves. `KnownInv`, that an id in a list is a row of the table, keeps the
rows under their own ids.

*Totals and changes.* `AmountKept` compares two sums over lists of different lengths,
and a line may raise an item in the middle. `MergedInv` says of the list that a session
builds: its active items are those of lines, each once, and unless two lines of one
reference had different prices (`Repriced`) both sums are equal. `TotalAppended` and
`TotalAdded` say what a new and a raised item add to a sum. `ChangesMarked` turns on
whether equal texts mean equal contents. `SignatureIsPart` shows that a part of the
signature, a reference with the characters of quantity and price, gives all three back as
long as these are code points; `SmallInv(M)` keeps merged quantities below the
surrogates, since an item has no more lines in it than the request. With no reference
twice in a list (`OneInv`), sorting loses nothing, and counting settles the lengths
(`ContentCounted`).

*History.* A text gives its instant back (`ParseFormat`): a fraction's digits are those of
nested quotients (`Digits`), cut where only zeros follow. Of two texts one is `Below` the
other unless they are equal (`BelowTotal`), for no text is the beginning of another: only
the last code is a "Z". So a finite table can be listed in descending order, each item at
the place its rank gives it (`Listed`, `AllListed`), and what `Queried` says of such a
list is all the two reads need. `EntriesReadBack` is inductive once it speaks of the
table, not of what is shown (`KeptInv`). In `LaterSecondsFirst` the first code decides.

*Sums and digits.* The library's induction takes an operator as a parameter, which the
provers used cannot instantiate. The recursive functions of `OrderItems` and
`OrderHistory` (totals, powers, the value of a text) are therefore reasoned about through
least counterexamples: a set of numbers that is not empty has a least member
(`LeastNumber`, from `WFMin`), and the recursion takes it to a smaller one. The same
argument shows that the functions exist (`SumsExist`, `ReadsExist`, `Powers`), which
their definitions by `CHOOSE` leave open.

*Only model-checked:* liveness (`SagasResolve`, `EveryMessageEnds`,
`EveryRequestAnswered`), which together with `ENABLED` is beyond the proof system used.
Every other property of a passing run is a theorem. Nothing proved reaches a RECURSIVE
operator.

## 7. What is not modelled, and why

- **Access control**: who may call decides nothing about what a call does; the models let every call happen.
- **E-mail, metrics, traces, logs**: written by handlers, read by none.
- **Decoding and layout** of JSON, query strings and answers. What the validator and the use cases conclude from a field is modelled (`OrderRequests`), not how it is read.
- **Billing data**: amounts sent to Mercado Pago, the payer, QR codes, and the signature of notifications. An authentic notification is a step of the environment; one that is not fails before it has an effect.
- **Two orders that die half way**: `deletion` runs without deaths and payments, to stay within a few minutes; a failing order ends a pass at the same points.
- **Reads**: the filter by customer, paging and dates; handlers that write are taken whole between two queries (`OrderReads`), as `sessions` shows they are when they do not overlap.
- **History**: pages of a query, names of changed fields, clocks of replicas that disagree; the last would break `LatestSecondFirst` as far as they disagree.
- **Overlapping handlers and deaths of the service in one model**: `OrderSessions` has handlers that stop anywhere (`Abandon`) and no recovery; `OrderSaga` has deaths and recovery and handlers that are one step. Their product is beyond TLC at two handlers and two sagas.

## 8. Plan

Done: sections 2 to 6. What is left, most valuable first:

1. Amounts: what is charged against the total of the items when an update crosses the creation of the payment.
2. Liveness, when the proof system supports `ENABLED`: that every saga in flight is resolved.

## 9. Running

```
tlc -workers 4 -config any_caller.cfg MCOrderSaga
tlapm OrderSagaProofs.tla
tlapm OrderAnswersProofs.tla
tlapm InventoryConsumersProofs.tla
tlapm OrderRequestsProofs.tla
tlapm OrderItemsProofs.tla
tlapm OrderHistoryProofs.tla
tlapm OrderReadsProofs.tla
```

A `claim_*` run ends with a counterexample; that is its result.
