---------------------------- MODULE OrderHistory ----------------------------
(***************************************************************************)
(* The history of the orders in DynamoDB.  A handler stamps an entry with  *)
(* the time and puts it later, or fails to; puts of different handlers     *)
(* cross.  The key of an entry is its order and its time written out: a    *)
(* put replaces what has the same key, a query sorts by the text.          *)
(*                                                                         *)
(* An instant counts the smallest fractions of a second since a start.     *)
(* Its text is in RFC 3339 with the trailing zeros of the fraction, and a  *)
(* point before none, left away.  A text is a sequence of codes; date and  *)
(* time to the second have a fixed width and are one code, their number.   *)
(***************************************************************************)
EXTENDS OrderStatus, Naturals, FiniteSets, Sequences

CONSTANTS
  Orders,
  Base,           \* digits, ten in the code
  Places,         \* digits of a fraction, nine in the code
  MaxSeconds,     \* bound: the seconds the clock runs
  MaxEntries      \* bound: entries saved or being saved

ASSUME HistoryAssumption ==
  Base \in 2..10 /\ Places \in Nat /\ MaxSeconds \in Nat /\ MaxEntries \in Nat

VARIABLES
  clock,
  pending,    \* entries made and not put yet
  table,      \* what DynamoDB keeps
  saved       \* ghost: the entries put, in order; an entry's place is its id

vars == <<clock, pending, table, saved>>

Point == 46
Zero  == 48
Zulu  == 90

Power[k \in 0..Places] == IF k = 0 THEN 1 ELSE Base * Power[k - 1]

Second == Power[Places]

Instants == 0..(MaxSeconds * Second - 1)

-----------------------------------------------------------------------------
(* Texts *)

Fraction(n) == [k \in 1..Places |-> (n \div Power[Places - k]) % Base]

Trimmed(digits) ==
  SubSeq(digits, 1, CHOOSE n \in 0..Places :
                      /\ \A k \in (n + 1)..Places : digits[k] = 0
                      /\ n = 0 \/ digits[n] # 0)

\* Mutant: time.RFC3339, to the second.
FormatToTheSecond(n) == <<n \div Second, Zulu>>

Format(n) ==
  LET digits == Trimmed(Fraction(n))
  IN <<n \div Second>>
     \o (IF digits = <<>> THEN <<>> ELSE <<Point>> \o [k \in DOMAIN digits |-> Zero + digits[k]])
     \o <<Zulu>>

\* The digits that were left away are zeros.
Parse(text) ==
  LET value[k \in 0..Places] ==
        IF k = 0 THEN text[1]
                 ELSE Base * value[k - 1]
                        + (IF k + 2 < Len(text) THEN text[k + 2] - Zero ELSE 0)
  IN value[Places]

\* No text is the beginning of another: all end in "Z".
Below(a, b) ==
  \E k \in DOMAIN a \cap DOMAIN b :
    a[k] < b[k] /\ \A j \in 1..(k - 1) : a[j] = b[j]

-----------------------------------------------------------------------------
Init ==
  /\ clock \in Instants
  /\ pending = {} /\ table = {} /\ saved = <<>>

Tick ==
  /\ \E now \in Instants : clock < now /\ clock' = now
  /\ UNCHANGED <<pending, table, saved>>

\* The handlers of one order make entries one after the other in OrderSaga,
\* at once in OrderSessions; here any handler may.
NewHistory(o, status) ==
  /\ Len(saved) + Cardinality(pending) < MaxEntries
  /\ pending' = pending \cup {[order |-> o, status |-> status, createdAt |-> clock]}
  /\ UNCHANGED <<clock, table, saved>>

ToDynamoItem(h, id) ==
  [order |-> h.order, occurredAt |-> Format(h.createdAt), id |-> id,
   status |-> h.status, createdAt |-> Format(h.createdAt)]

SameKey(i, j) == i.order = j.order /\ i.occurredAt = j.occurredAt

\* Mutant: two entries of one instant are kept beside each other.
SaveBeside(h) ==
  /\ table' = table \cup {ToDynamoItem(h, Len(saved) + 1)}
  /\ saved' = Append(saved, h)
  /\ pending' = pending \ {h}
  /\ UNCHANGED clock

Save(h) ==
  LET item == ToDynamoItem(h, Len(saved) + 1)
  IN /\ table' = {i \in table : ~SameKey(i, item)} \cup {item}
     /\ saved' = Append(saved, h)
     /\ pending' = pending \ {h}
     /\ UNCHANGED clock

SaveFails(h) ==
  /\ pending' = pending \ {h}
  /\ UNCHANGED <<clock, table, saved>>

Next ==
  \/ Tick
  \/ \E o \in Orders, status \in {"DIAGNOSING", "CANCELED"} : NewHistory(o, status)
  \/ \E h \in pending : Save(h) \/ SaveFails(h)

Spec == Init /\ [][Next]_vars

-----------------------------------------------------------------------------
(* Reads: the repository's, which GetServiceOrderHistory hands on *)

FromDynamoItem(i) ==
  [id |-> i.id, order |-> i.order, status |-> i.status, createdAt |-> Parse(i.createdAt)]

Descending(items) ==
  \A m, n \in DOMAIN items : m < n => Below(items[n].occurredAt, items[m].occurredAt)

\* Mutant: ScanIndexForward, the oldest first.
FindOldestFirst(o) ==
  LET found == {i \in table : i.order = o}
      items == CHOOSE s \in [1..Cardinality(found) -> found] :
                 \A m, n \in DOMAIN s : m < n => Below(s[m].occurredAt, s[n].occurredAt)
  IN [n \in DOMAIN items |-> FromDynamoItem(items[n])]

\* The query by order, ScanIndexForward false: the keys in descending order.
FindByServiceOrderID(o) ==
  LET found == {i \in table : i.order = o}
      items == CHOOSE s \in [1..Cardinality(found) -> found] : Descending(s)
  IN [n \in DOMAIN items |-> FromDynamoItem(items[n])]

\* What a search by id may find: the limit of one item applies to the scan,
\* in the table's own order, and the filter to what was scanned.
FindByID(id) ==
  {IF first.id = id THEN <<FromDynamoItem(first)>> ELSE <<>> : first \in table}

-----------------------------------------------------------------------------
Entry == [order : Orders, status : Status, createdAt : Instants]

(***************************************************************************)
(* What is kept is what was put: the table holds the texts of entries      *)
(* saved, under a key each.                                                *)
(***************************************************************************)
TypeOK ==
  /\ clock \in Instants
  /\ pending \subseteq Entry
  /\ saved \in Seq(Entry)
  /\ table \subseteq {ToDynamoItem(saved[id], id) : id \in DOMAIN saved}
  /\ \A i, j \in table : SameKey(i, j) => i = j

(***************************************************************************)
(* An entry once saved is shown for ever, as it was, with the time it was  *)
(* made: only an entry of the same order and the same instant replaces it. *)
(* A key to the second would lose all but the last of the entries a        *)
(* handler and a consumer make within one.                                 *)
(***************************************************************************)
EntriesReadBack ==
  \A id \in DOMAIN saved :
    \/ \E n \in DOMAIN FindByServiceOrderID(saved[id].order) :
         FindByServiceOrderID(saved[id].order)[n] =
           [id |-> id, order |-> saved[id].order, status |-> saved[id].status,
            createdAt |-> saved[id].createdAt]
    \/ \E later \in DOMAIN saved :
         /\ later > id
         /\ saved[later].order = saved[id].order
         /\ saved[later].createdAt = saved[id].createdAt

(***************************************************************************)
(* In whatever order entries were put, those of a later second are shown   *)
(* before those of an earlier one.                                         *)
(***************************************************************************)
LatestSecondFirst ==
  \A o \in Orders :
    LET shown == FindByServiceOrderID(o)
    IN \A m, n \in DOMAIN shown :
         m < n => shown[m].createdAt \div Second >= shown[n].createdAt \div Second

-----------------------------------------------------------------------------
(* What the code says of itself and does not keep *)

(***************************************************************************)
(* domain/service_order/history_repository.go:10, of FindByServiceOrderID: *)
(* "ordenados por created_at DESC (mais recente primeiro)".                *)
(***************************************************************************)
NewestFirst ==
  \A o \in Orders :
    LET shown == FindByServiceOrderID(o)
    IN \A m, n \in DOMAIN shown : m < n => shown[m].createdAt >= shown[n].createdAt

(***************************************************************************)
(* domain/service_order/history_repository.go:13: "FindByID retorna um     *)
(* histórico específico pelo ID".                                          *)
(***************************************************************************)
FoundByID == \A i \in table : FindByID(i.id) = {<<FromDynamoItem(i)>>}
=============================================================================
