-------------------------- MODULE OrderItemsProofs --------------------------
(***************************************************************************)
(* The items of an order, for every number of sessions, references, rows   *)
(* and lines of a request.                                                 *)
(*                                                                         *)
(* A save replaces the active rows by the active items of one session's    *)
(* list, whatever the others did since it was loaded: what is to hold of   *)
(* the rows is held, all the while, of every session's list.               *)
(***************************************************************************)
EXTENDS OrderItems, FiniteSetTheorems, WellFoundedInduction, TLAPS

TableInv ==
  /\ Ids \subseteq 1..MaxItems
  /\ table \in [Ids -> Item]
  /\ \A i \in Ids : table[i].id = i

TypeInv ==
  /\ TableInv
  /\ catalogue \in [References -> Prices]
  /\ history \in Seq(BOOLEAN)
  /\ session \in [Sessions -> Session]

\* An item a session holds is a row of the table or a new one.
Known(items) == \A k \in DOMAIN items : items[k].id \in Ids \cup {NoId}

KnownInv == \A s \in Sessions : Known(session[s].next)

IInv == TypeInv /\ KnownInv

-----------------------------------------------------------------------------
(* Items and lists of items *)

LEMMA Bounds ==
  /\ Prices \subseteq Nat /\ Quantities \subseteq Nat
  /\ MaxLines \in Nat /\ MaxItems \in Nat /\ MaxEntries \in Nat
BY ItemsAssumption

LEMMA NewItem ==
  ASSUME TypeInv, NEW ref \in References, NEW text \in Spellings, NEW quantity \in Quantities
  PROVE  LET x == NewServiceOrderItem(ref, text, quantity, catalogue[ref])
         IN /\ x \in Item
            /\ x.id = NoId /\ x.ref = ref /\ x.text = text
            /\ x.history = NoId /\ ~x.deleted
<1>1. catalogue[ref] \in Nat /\ quantity \in Nat
  BY Bounds DEF TypeInv
<1> QED  BY <1>1 DEF NewServiceOrderItem, Item, NoId

LEMMA RemovedItem ==
  ASSUME NEW x \in Item
  PROVE  /\ RemoveItem(x) \in Item
         /\ RemoveItem(x).deleted
         /\ RemoveItem(x).id = x.id /\ RemoveItem(x).history = x.history
         /\ RemoveItem(x).price = x.price /\ RemoveItem(x).quantity = x.quantity
BY DEF RemoveItem, Item

LEMMA MergedItem ==
  ASSUME NEW x \in Item, NEW more \in Nat
  PROVE  LET y == [x EXCEPT !.quantity = @ + more]
         IN /\ y \in Item /\ y.id = x.id /\ y.ref = x.ref /\ y.text = x.text
            /\ y.price = x.price /\ y.history = x.history /\ y.deleted = x.deleted
            /\ y.quantity = x.quantity + more
BY DEF Item

LEMMA LinkedItem ==
  ASSUME NEW x \in Item, NEW entry \in Nat
  PROVE  LET y == [x EXCEPT !.history = entry]
         IN /\ y \in Item /\ y.id = x.id /\ y.ref = x.ref /\ y.text = x.text
            /\ y.price = x.price /\ y.quantity = x.quantity
            /\ y.deleted = x.deleted /\ y.history = entry
BY DEF Item

\* What the repository loads: rows of the table that are not deleted.
LEMMA LoadedItems ==
  ASSUME TableInv, NEW items \in Loaded
  PROVE  /\ items \in Seq(Item)
         /\ \A k \in DOMAIN items : /\ items[k].id \in Ids
                                    /\ items[k] = table[items[k].id]
                                    /\ ~items[k].deleted
         /\ \A k, l \in DOMAIN items : items[k] = items[l] => k = l
<1> DEFINE active == {i \in Ids : ~table[i].deleted}
<1>1. IsFiniteSet(active)
  <2>1. IsFiniteSet(1..MaxItems) /\ active \subseteq 1..MaxItems
    <3>1. MaxItems \in Int /\ 1 \in Int
      BY Bounds
    <3> QED  BY <3>1, FS_Interval DEF TableInv
  <2> QED  BY <2>1, FS_Subset
<1>2. Cardinality(active) \in Nat
  BY <1>1, FS_CardinalityType
<1>3. PICK ids \in SetToSeqs(active) : items = [k \in DOMAIN ids |-> table[ids[k]]]
  BY DEF Loaded
<1>4. PICK n \in Nat : /\ ids \in [1..n -> active]
                       /\ \A k, l \in 1..n : k # l => ids[k] # ids[l]
  BY <1>2 DEF SetToSeqs
<1>5. \A i \in active : table[i] \in Item /\ table[i].id = i /\ i \in Ids /\ ~table[i].deleted
  BY DEF TableInv
<1> HIDE DEF active
<1>6. /\ DOMAIN items = 1..n
      /\ \A k \in 1..n : items[k] = table[ids[k]] /\ ids[k] \in active
  BY <1>3, <1>4
<1>7. items \in Seq(Item)
  BY <1>3, <1>4, <1>5, <1>6
<1> QED  BY <1>4, <1>5, <1>6, <1>7

\* Adding a line leaves every item its id, its mark and its entry.
LEMMA AddedItem ==
  ASSUME NEW items \in Seq(Item), NEW x \in Item
  PROVE  /\ AddItem(items, x) \in Seq(Item)
         /\ \A k \in DOMAIN items :
              /\ k \in DOMAIN AddItem(items, x)
              /\ AddItem(items, x)[k].id = items[k].id
              /\ AddItem(items, x)[k].ref = items[k].ref
              /\ AddItem(items, x)[k].text = items[k].text
              /\ AddItem(items, x)[k].price = items[k].price
              /\ AddItem(items, x)[k].history = items[k].history
              /\ AddItem(items, x)[k].deleted = items[k].deleted
              /\ AddItem(items, x)[k].quantity \in {items[k].quantity, items[k].quantity + x.quantity}
              /\ items[k].deleted => AddItem(items, x)[k] = items[k]
         /\ \A k \in DOMAIN AddItem(items, x) :
              k \notin DOMAIN items =>
                /\ AddItem(items, x)[k] = x
                /\ \A l \in DOMAIN items : ~SameItem(items[l], x)
         /\ \A k, l \in DOMAIN AddItem(items, x) :
              k \notin DOMAIN items /\ l \notin DOMAIN items => k = l
<1>1. CASE \E i \in DOMAIN items : SameItem(items[i], x)
  <2>1. AddItem(items, x) = [i \in DOMAIN items |->
                               IF SameItem(items[i], x)
                                 THEN [items[i] EXCEPT !.quantity = @ + x.quantity] ELSE items[i]]
    BY <1>1 DEF AddItem
  <2>2. x.quantity \in Nat /\ \A i \in DOMAIN items : items[i] \in Item
    <3>1. x.quantity \in Nat
      BY DEF Item
    <3>2. \A i \in DOMAIN items : items[i] \in Item
      OBVIOUS
    <3> QED  BY <3>1, <3>2
  <2>3. ASSUME NEW i \in DOMAIN items
        PROVE  LET y == AddItem(items, x)[i]
               IN /\ y \in Item /\ y.id = items[i].id /\ y.ref = items[i].ref
                  /\ y.text = items[i].text /\ y.price = items[i].price
                  /\ y.history = items[i].history /\ y.deleted = items[i].deleted
                  /\ y.quantity \in {items[i].quantity, items[i].quantity + x.quantity}
                  /\ items[i].deleted => y = items[i]
    <3> DEFINE z == items[i]
               more == x.quantity
    <3>1. /\ AddItem(items, x)[i] \in {z, [z EXCEPT !.quantity = @ + more]}
          /\ z.deleted => AddItem(items, x)[i] = z
      BY <2>1 DEF SameItem
    <3>2. z \in Item /\ more \in Nat
      BY <2>2
    <3> HIDE DEF z, more
    <3>3. LET y == [z EXCEPT !.quantity = @ + more]
          IN /\ y \in Item /\ y.id = z.id /\ y.ref = z.ref /\ y.text = z.text
             /\ y.price = z.price /\ y.history = z.history /\ y.deleted = z.deleted
             /\ y.quantity = z.quantity + more
      BY <3>2, MergedItem
    <3>4. LET y == AddItem(items, x)[i]
          IN /\ y \in Item /\ y.id = z.id /\ y.ref = z.ref /\ y.text = z.text
             /\ y.price = z.price /\ y.history = z.history /\ y.deleted = z.deleted
             /\ y.quantity \in {z.quantity, z.quantity + more}
             /\ z.deleted => y = z
      BY <3>1, <3>2, <3>3
    <3> QED  BY <3>4 DEF z, more
  <2>4. DOMAIN AddItem(items, x) = DOMAIN items
    BY <2>1
  <2>5. AddItem(items, x) \in Seq(Item)
    BY <2>1, <2>3, <2>4
  <2> QED  BY <2>3, <2>4, <2>5
<1>2. CASE ~\E i \in DOMAIN items : SameItem(items[i], x)
  <2>1. AddItem(items, x) = Append(items, x)
    BY <1>2 DEF AddItem
  <2> QED  BY <1>2, <2>1
<1> QED  BY <1>1, <1>2

LEMMA LinkedItems ==
  ASSUME NEW items \in Seq(Item), NEW entry \in Nat
  PROVE  /\ Linked(items, entry) \in Seq(Item)
         /\ DOMAIN Linked(items, entry) = DOMAIN items
         /\ \A k \in DOMAIN items :
              LET y == Linked(items, entry)[k]
              IN /\ y.id = items[k].id /\ y.ref = items[k].ref /\ y.text = items[k].text
                 /\ y.price = items[k].price /\ y.quantity = items[k].quantity
                 /\ y.deleted = items[k].deleted
                 /\ y.history = IF items[k].deleted /\ items[k].history = NoId
                                  THEN entry ELSE items[k].history
<1>1. ASSUME NEW k \in DOMAIN items
      PROVE  LET y == Linked(items, entry)[k]
             IN /\ y \in Item
                /\ y.id = items[k].id /\ y.ref = items[k].ref /\ y.text = items[k].text
                /\ y.price = items[k].price /\ y.quantity = items[k].quantity
                /\ y.deleted = items[k].deleted
                /\ y.history = IF items[k].deleted /\ items[k].history = NoId
                                 THEN entry ELSE items[k].history
  <2> DEFINE z == items[k]
  <2>1. z \in Item
    OBVIOUS
  <2>2. Linked(items, entry)[k] = IF z.deleted /\ z.history = NoId
                                    THEN [z EXCEPT !.history = entry] ELSE z
    BY DEF Linked
  <2> HIDE DEF z
  <2>3. LET y == [z EXCEPT !.history = entry]
        IN /\ y \in Item /\ y.id = z.id /\ y.ref = z.ref /\ y.text = z.text
           /\ y.price = z.price /\ y.quantity = z.quantity
           /\ y.deleted = z.deleted /\ y.history = entry
    BY <2>1, LinkedItem
  <2>4. LET y == Linked(items, entry)[k]
        IN /\ y \in Item
           /\ y.id = z.id /\ y.ref = z.ref /\ y.text = z.text
           /\ y.price = z.price /\ y.quantity = z.quantity
           /\ y.deleted = z.deleted
           /\ y.history = IF z.deleted /\ z.history = NoId THEN entry ELSE z.history
    BY <2>1, <2>2, <2>3
  <2> QED  BY <2>4 DEF z
<1>2. DOMAIN Linked(items, entry) = DOMAIN items
  BY DEF Linked
<1>3. Linked(items, entry) \in Seq(Item)
  <2>1. Linked(items, entry) = [k \in DOMAIN items |-> Linked(items, entry)[k]]
    BY DEF Linked
  <2>2. items \in Seq(Item) /\ \A k \in DOMAIN items : Linked(items, entry)[k] \in Item
    BY <1>1
  <2> DEFINE linked == Linked(items, entry)
  <2> HIDE DEF linked
  <2>3. linked = [k \in DOMAIN items |-> linked[k]] /\ \A k \in DOMAIN items : linked[k] \in Item
    BY <2>1, <2>2 DEF linked
  <2>4. linked \in Seq(Item)
    BY <2>3
  <2> QED  BY <2>4 DEF linked
<1> QED  BY <1>1, <1>2, <1>3

-----------------------------------------------------------------------------
(* The save *)

\* How a save leaves the table: the items of the list under their ids, the
\* other rows deleted.
LEMMA SavedRows ==
  ASSUME TypeInv, NEW items \in Seq(Item), Known(items), SaveWithItems(items)
  PROVE  \E listed \in Seq(Item) :
           /\ DOMAIN listed = DOMAIN items
           /\ \A k \in DOMAIN items :
                /\ listed[k].ref = items[k].ref /\ listed[k].deleted = items[k].deleted
                /\ listed[k].quantity = items[k].quantity /\ listed[k].price = items[k].price
                /\ listed[k].history = items[k].history
                /\ items[k].id # NoId => listed[k].id = items[k].id
                /\ listed[k].id \in 1..MaxItems
           /\ Ids' = Ids \cup {listed[k].id : k \in DOMAIN items}
           /\ \A i \in Ids' :
                \/ \E k \in DOMAIN items : listed[k].id = i /\ table'[i] = listed[k]
                \/ /\ i \in Ids /\ table'[i] = RemoveItem(table[i])
                   /\ \A k \in DOMAIN items : listed[k].id # i
<1>1. PICK ids \in NewIds(items) : table' = Written(WithIds(items, ids))
  BY DEF SaveWithItems
<1> DEFINE listed == WithIds(items, ids)
<1>2. ASSUME NEW k \in DOMAIN items
      PROVE  /\ listed[k] \in Item
             /\ listed[k].ref = items[k].ref /\ listed[k].deleted = items[k].deleted
             /\ listed[k].quantity = items[k].quantity /\ listed[k].price = items[k].price
             /\ listed[k].history = items[k].history
             /\ items[k].id # NoId => listed[k].id = items[k].id
             /\ listed[k].id \in 1..MaxItems
  <2> DEFINE x == items[k]
             id == ids[k]
  <2>1. x \in Item /\ x.id \in Ids \cup {NoId}
    <3>1. x \in Item
      OBVIOUS
    <3> QED  BY <3>1 DEF Known
  <2>2. listed[k] = IF x.id # NoId THEN x ELSE [x EXCEPT !.text = "canonical", !.id = id]
    BY DEF WithIds
  <2>3. x.id = NoId => id \in 1..MaxItems
    BY DEF NewIds, Later
  <2> HIDE DEF x, id
  <2>4. CASE x.id # NoId
    BY <2>1, <2>2, <2>4 DEF TypeInv, TableInv, x
  <2>5. CASE x.id = NoId
    <3>1. id \in 1..MaxItems /\ id \in Nat /\ listed[k] = [x EXCEPT !.text = "canonical", !.id = id]
      BY <2>2, <2>3, <2>5, Bounds
    <3> HIDE DEF listed
    <3>2. /\ listed[k] \in Item
          /\ listed[k].ref = x.ref /\ listed[k].deleted = x.deleted
          /\ listed[k].quantity = x.quantity /\ listed[k].price = x.price
          /\ listed[k].history = x.history /\ listed[k].id = id
      BY <2>1, <3>1 DEF Item
    <3> QED  BY <2>5, <3>1, <3>2 DEF x
  <2> QED  BY <2>4, <2>5
<1>3. DOMAIN listed = DOMAIN items
  BY DEF WithIds
<1>4. listed = [k \in DOMAIN items |-> listed[k]]
  BY DEF WithIds
<1> HIDE DEF listed
<1>5. listed \in Seq(Item)
  BY <1>2, <1>4
<1>6. table' = [i \in Ids \cup {listed[k].id : k \in DOMAIN listed} |->
                  IF \E k \in DOMAIN listed : listed[k].id = i
                    THEN listed[CHOOSE k \in DOMAIN listed : listed[k].id = i]
                    ELSE RemoveItem(table[i])]
  BY <1>1 DEF Written, listed
<1>7. Ids' = Ids \cup {listed[k].id : k \in DOMAIN items}
  BY <1>3, <1>6 DEF Ids
<1>8. ASSUME NEW i \in Ids'
      PROVE  \/ \E k \in DOMAIN items : listed[k].id = i /\ table'[i] = listed[k]
             \/ /\ i \in Ids /\ table'[i] = RemoveItem(table[i])
                /\ \A k \in DOMAIN items : listed[k].id # i
  <2>1. CASE \E k \in DOMAIN listed : listed[k].id = i
    <3>1. PICK l \in DOMAIN listed : /\ l = CHOOSE k \in DOMAIN listed : listed[k].id = i
                                     /\ listed[l].id = i
      BY <2>1
    <3>2. table'[i] = listed[l]
      BY <1>6, <1>7, <1>3, <2>1, <3>1
    <3> QED  BY <1>3, <3>1, <3>2
  <2>2. CASE ~\E k \in DOMAIN listed : listed[k].id = i
    BY <1>3, <1>6, <1>7, <2>2
  <2> QED  BY <2>1, <2>2
<1> QED  BY <1>2, <1>3, <1>5, <1>7, <1>8

LEMMA SavedTable ==
  ASSUME TypeInv, NEW items \in Seq(Item), Known(items), SaveWithItems(items)
  PROVE  TableInv' /\ Ids \subseteq Ids'
<1>1. PICK listed \in Seq(Item) :
           /\ DOMAIN listed = DOMAIN items
           /\ \A k \in DOMAIN items : listed[k].id \in 1..MaxItems
           /\ Ids' = Ids \cup {listed[k].id : k \in DOMAIN items}
           /\ \A i \in Ids' :
                \/ \E k \in DOMAIN items : listed[k].id = i /\ table'[i] = listed[k]
                \/ i \in Ids /\ table'[i] = RemoveItem(table[i])
  BY SavedRows
<1>2. Ids' \subseteq 1..MaxItems
  <2>1. {listed[k].id : k \in DOMAIN items} \subseteq 1..MaxItems
    BY <1>1
  <2>2. Ids \subseteq 1..MaxItems
    BY DEF TypeInv, TableInv
  <2>3. Ids' = Ids \cup {listed[k].id : k \in DOMAIN items}
    BY <1>1
  <2> QED  BY <2>1, <2>2, <2>3
<1>3. ASSUME NEW i \in Ids' PROVE table'[i] \in Item /\ table'[i].id = i
  <2>1. \A k \in DOMAIN items : listed[k] \in Item
    BY <1>1
  <2>2. i \in Ids => table[i] \in Item /\ table[i].id = i
    BY DEF TypeInv, TableInv
  <2>3. CASE \E k \in DOMAIN items : listed[k].id = i /\ table'[i] = listed[k]
    BY <2>1, <2>3
  <2>4. CASE i \in Ids /\ table'[i] = RemoveItem(table[i])
    BY <2>2, <2>4, RemovedItem
  <2> QED  BY <1>1, <2>3, <2>4
<1>4. table' = [i \in Ids' |-> table'[i]]
  <2>1. PICK ids \in NewIds(items) : table' = Written(WithIds(items, ids))
    BY DEF SaveWithItems
  <2> QED  BY <2>1 DEF Written, Ids
<1> QED  BY <1>1, <1>2, <1>3, <1>4 DEF TableInv

-----------------------------------------------------------------------------
(* The steps *)

\* A step of a session sets its record and leaves the others' as they are.
SetsSession(s, r) ==
  /\ session' = [session EXCEPT ![s] = r]
  /\ r \in Session

LEMMA IdleIsKnown == Idle \in Session /\ Known(Idle.next)
BY DEF Idle, Session, Known

\* Whatever handler loads the items: its list is of known items, all as the
\* table has them or all removed.
LEMMA LoadSets ==
  ASSUME TypeInv, NEW s \in Sessions, LoadForUpdate(s) \/ LoadForOther(s)
  PROVE  \E items \in Loaded, r \in Session :
           /\ SetsSession(s, r)
           /\ r.loaded = items /\ r.lines = <<>>
           /\ DOMAIN r.next = DOMAIN items
           /\ \A k \in DOMAIN items : /\ r.next[k].id = items[k].id
                                      /\ r.next[k].history = items[k].history
                                      /\ r.next[k].price = items[k].price
                                      /\ r.next[k].quantity = items[k].quantity
           /\ \/ r.pc = "lines" /\ \A k \in DOMAIN items : r.next[k].deleted
              \/ r.pc = "save" /\ r.next = items
<1>1. CASE LoadForUpdate(s)
  <2>1. PICK items \in Loaded :
          session' = [session EXCEPT ![s] =
            [pc |-> "lines", loaded |-> items,
             next |-> [k \in DOMAIN items |-> RemoveItem(items[k])], lines |-> <<>>]]
    BY <1>1 DEF LoadForUpdate
  <2>2. items \in Seq(Item)
    BY LoadedItems DEF TypeInv
  <2> DEFINE removed == [k \in DOMAIN items |-> RemoveItem(items[k])]
  <2>3. /\ DOMAIN removed = DOMAIN items
        /\ \A k \in DOMAIN items : /\ removed[k] \in Item /\ removed[k].deleted
                                   /\ removed[k].id = items[k].id
                                   /\ removed[k].history = items[k].history
                                   /\ removed[k].price = items[k].price
                                   /\ removed[k].quantity = items[k].quantity
    <3>1. \A k \in DOMAIN items : items[k] \in Item
      BY <2>2
    <3> QED  BY <3>1, RemovedItem
  <2>4. removed \in Seq(Item)
    BY <2>2, <2>3
  <2>5. session' = [session EXCEPT ![s] =
            [pc |-> "lines", loaded |-> items, next |-> removed, lines |-> <<>>]]
    BY <2>1
  <2> HIDE DEF removed
  <2>6. PICK r \in Session : /\ r.pc = "lines" /\ r.loaded = items
                             /\ r.next = removed /\ r.lines = <<>>
                             /\ session' = [session EXCEPT ![s] = r]
    <3> DEFINE q == [pc |-> "lines", loaded |-> items, next |-> removed, lines |-> <<>>]
    <3>1. q \in Session
      BY <2>2, <2>4 DEF Session
    <3> QED  BY <2>5, <3>1
  <2>7. /\ DOMAIN r.next = DOMAIN items
        /\ \A k \in DOMAIN items : /\ r.next[k].id = items[k].id
                                   /\ r.next[k].history = items[k].history
                                   /\ r.next[k].price = items[k].price
                                   /\ r.next[k].quantity = items[k].quantity
                                   /\ r.next[k].deleted
    BY <2>3, <2>6
  <2>8. SetsSession(s, r)
    BY <2>6 DEF SetsSession
  <2> QED  BY <2>6, <2>7, <2>8
<1>2. CASE LoadForOther(s)
  <2>1. PICK items \in Loaded :
          session' = [session EXCEPT ![s] =
            [pc |-> "save", loaded |-> items, next |-> items, lines |-> <<>>]]
    BY <1>2 DEF LoadForOther
  <2>2. items \in Seq(Item)
    BY LoadedItems DEF TypeInv
  <2>3. [pc |-> "save", loaded |-> items, next |-> items, lines |-> <<>>] \in Session
    BY <2>2 DEF Session
  <2> QED  BY <2>1, <2>3 DEF SetsSession
<1> QED  BY <1>1, <1>2

LEMMA AddLineSets ==
  ASSUME TypeInv, NEW s \in Sessions, NEW ref \in References, NEW text \in Spellings,
         NEW quantity \in Quantities, AddLine(s, ref, text, quantity)
  PROVE  \E x \in Item, r \in Session :
           /\ x = NewServiceOrderItem(ref, text, quantity, catalogue[ref])
           /\ ValidItem(x) /\ x.id = NoId /\ x.history = NoId
           /\ session[s].pc = "lines"
           /\ SetsSession(s, r)
           /\ r.pc = "lines" /\ r.loaded = session[s].loaded
           /\ r.next = AddItem(session[s].next, x)
           /\ r.lines = Append(session[s].lines, x)
           /\ Len(session[s].lines) < MaxLines
<1> DEFINE x == NewServiceOrderItem(ref, text, quantity, catalogue[ref])
           a == session[s]
           r == [a EXCEPT !.next = AddItem(a.next, x), !.lines = Append(a.lines, x)]
<1>1. x \in Item /\ x.id = NoId /\ x.history = NoId
  BY NewItem
<1>2. a \in Session
  BY DEF TypeInv
<1>3. /\ ValidItem(x) /\ a.pc = "lines" /\ session' = [session EXCEPT ![s] = r]
      /\ Len(a.lines) < MaxLines
  BY DEF AddLine
<1> HIDE DEF x, a
<1>4. a.next \in Seq(Item) /\ a.lines \in Seq(Item)
  BY <1>2 DEF Session
<1>5. AddItem(a.next, x) \in Seq(Item) /\ Append(a.lines, x) \in Seq(Item)
  BY <1>1, <1>4, AddedItem
<1>6. /\ r \in Session /\ r.pc = a.pc /\ r.loaded = a.loaded
      /\ r.next = AddItem(a.next, x) /\ r.lines = Append(a.lines, x)
  BY <1>2, <1>5 DEF Session
<1> HIDE DEF r
<1> QED  BY <1>1, <1>3, <1>6 DEF SetsSession, x, a

LEMMA SaveHistorySets ==
  ASSUME TypeInv, NEW s \in Sessions, SaveHistory(s)
  PROVE  \E r \in Session :
           /\ session[s].pc = "lines"
           /\ SetsSession(s, r)
           /\ r.pc = "save" /\ r.loaded = session[s].loaded
           /\ r.next = Linked(session[s].next, Len(history) + 1)
<1> DEFINE a == session[s]
           entry == Len(history) + 1
           r == [pc |-> "save", loaded |-> a.loaded, next |-> Linked(a.next, entry), lines |-> <<>>]
<1>1. a \in Session /\ entry \in Nat
  BY DEF TypeInv
<1>2. a.pc = "lines" /\ session' = [session EXCEPT ![s] = r]
  BY DEF SaveHistory
<1> HIDE DEF a, entry
<1>3. a.next \in Seq(Item)
  BY <1>1 DEF Session
<1>4. Linked(a.next, entry) \in Seq(Item)
  BY <1>1, <1>3, LinkedItems
<1>5. /\ r \in Session /\ r.pc = "save" /\ r.loaded = a.loaded
      /\ r.next = Linked(a.next, entry)
  <2> DEFINE linked == Linked(a.next, entry)
  <2> HIDE DEF linked
  <2>1. linked \in Seq(Item)
    BY <1>4 DEF linked
  <2>2. a.loaded \in Seq(Item)
    BY <1>1 DEF Session
  <2>3. r \in Session
    BY <2>1, <2>2 DEF Session, linked
  <2> QED  BY <2>3
<1> HIDE DEF r
<1> QED  BY <1>2, <1>5 DEF SetsSession, a, entry

\* A session that holds known items changes nothing else.
LEMMA SessionInv ==
  ASSUME IInv, UNCHANGED <<catalogue, table>>, history' \in Seq(BOOLEAN),
         NEW s \in Sessions, NEW r, SetsSession(s, r), Known(r.next)
  PROVE  IInv'
<1>1. Ids' = Ids
  BY DEF Ids
<1>2. TypeInv'
  BY <1>1 DEF IInv, TypeInv, TableInv, SetsSession
<1>3. ASSUME NEW t \in Sessions PROVE Known(session[t].next)'
  <2>1. session'[t] = IF t = s THEN r ELSE session[t]
    BY DEF SetsSession, IInv, TypeInv
  <2>2. Known(session[t].next)
    BY DEF IInv, KnownInv
  <2>3. PICK q : q = session'[t] /\ Known(q.next)
    BY <2>1, <2>2
  <2> QED  BY <1>1, <2>3 DEF Known
<1> QED  BY <1>2, <1>3 DEF IInv, KnownInv

LEMMA InitIInv == Init => IInv
BY DEF Init, IInv, TypeInv, TableInv, KnownInv, Known, Ids, Idle, Session

LEMMA SaveOrderInv ==
  ASSUME IInv, NEW s \in Sessions, SaveOrder(s)
  PROVE  IInv'
<1>1. session[s] \in Session /\ Known(session[s].next)
  BY DEF IInv, TypeInv, KnownInv
<1>2. session[s].next \in Seq(Item) /\ SaveWithItems(session[s].next)
  BY <1>1 DEF Session, SaveOrder
<1>3. TableInv' /\ Ids \subseteq Ids'
  BY <1>1, <1>2, SavedTable DEF IInv
<1>4. TypeInv'
  BY <1>3, IdleIsKnown DEF IInv, TypeInv, SaveOrder
<1>5. ASSUME NEW t \in Sessions PROVE Known(session[t].next)'
  <2>1. PICK q : q = session'[t] /\ Known(q.next)
    BY IdleIsKnown DEF SaveOrder, IInv, TypeInv, KnownInv
  <2> QED  BY <1>3, <2>1 DEF Known
<1> QED  BY <1>4, <1>5 DEF IInv, KnownInv

LEMMA NextIInv ==
  ASSUME IInv, [Next]_vars
  PROVE  IInv'
<1>1. ASSUME NEW ref \in References, NEW price \in Prices, CatalogueChanges(ref, price)
      PROVE  IInv'
  BY <1>1 DEF CatalogueChanges, IInv, TypeInv, TableInv, KnownInv, Known, Ids
<1>2. ASSUME NEW s \in Sessions, LoadForUpdate(s) \/ LoadForOther(s)
      PROVE  IInv'
  <2>1. PICK items \in Loaded, r \in Session :
          /\ SetsSession(s, r) /\ DOMAIN r.next = DOMAIN items
          /\ \A k \in DOMAIN items : r.next[k].id = items[k].id
    BY <1>2, LoadSets DEF IInv
  <2>2. Known(r.next)
    BY <2>1, LoadedItems DEF Known, IInv, TypeInv
  <2>3. UNCHANGED <<catalogue, table, history>>
    BY <1>2 DEF LoadForUpdate, LoadForOther
  <2> QED  BY <2>1, <2>2, <2>3, SessionInv DEF IInv, TypeInv
<1>3. ASSUME NEW s \in Sessions, NEW ref \in References, NEW text \in Spellings,
             NEW quantity \in Quantities, AddLine(s, ref, text, quantity)
      PROVE  IInv'
  <2>1. PICK x \in Item, r \in Session :
          /\ x.id = NoId /\ SetsSession(s, r) /\ r.next = AddItem(session[s].next, x)
    BY <1>3, AddLineSets DEF IInv
  <2>2. PICK items \in Seq(Item) : items = session[s].next /\ Known(items)
    BY DEF IInv, TypeInv, KnownInv, Session
  <2>3. Known(r.next)
    <3>1. r.next = AddItem(items, x)
      BY <2>1, <2>2
    <3>2. \A k \in DOMAIN AddItem(items, x) :
            \/ AddItem(items, x)[k] = x
            \/ k \in DOMAIN items /\ AddItem(items, x)[k].id = items[k].id
      BY AddedItem
    <3> QED  BY <2>1, <2>2, <3>1, <3>2 DEF Known
  <2> QED  BY <1>3, <2>1, <2>3, SessionInv DEF AddLine, IInv, TypeInv
<1>4. ASSUME NEW s \in Sessions, SaveHistory(s)
      PROVE  IInv'
  <2>1. PICK r \in Session :
          SetsSession(s, r) /\ r.next = Linked(session[s].next, Len(history) + 1)
    BY <1>4, SaveHistorySets DEF IInv
  <2>2. PICK items \in Seq(Item) : items = session[s].next /\ Known(items)
    BY DEF IInv, TypeInv, KnownInv, Session
  <2>3. Known(r.next)
    <3>1. PICK entry \in Nat : r.next = Linked(items, entry)
      BY <2>1, <2>2 DEF IInv, TypeInv
    <3>2. /\ DOMAIN Linked(items, entry) = DOMAIN items
          /\ \A k \in DOMAIN items : Linked(items, entry)[k].id = items[k].id
      BY LinkedItems
    <3> QED  BY <2>2, <3>1, <3>2 DEF Known
  <2>4. history' \in Seq(BOOLEAN) /\ UNCHANGED <<catalogue, table>>
    BY <1>4 DEF SaveHistory, HasItemsChanged, IInv, TypeInv
  <2> QED  BY <2>1, <2>3, <2>4, SessionInv
<1>5. ASSUME NEW s \in Sessions, SaveOrder(s)
      PROVE  IInv'
  BY <1>5, SaveOrderInv
<1>6. ASSUME NEW s \in Sessions, Abandon(s)
      PROVE  IInv'
  BY <1>6, IdleIsKnown, SessionInv DEF Abandon, SetsSession, IInv, TypeInv
<1>7. CASE UNCHANGED vars
  BY <1>7 DEF vars, IInv, TypeInv, TableInv, KnownInv, Known, Ids
<1> QED  BY <1>1, <1>2, <1>3, <1>4, <1>5, <1>6, <1>7 DEF Next

LEMMA ItemsInvariant == Spec => []IInv
BY InitIInv, NextIInv, PTL DEF Spec

\* The table, the history and what the sessions hold are well typed, and a
\* row is kept under its own id.
THEOREM ItemsTyped == Spec => []TypeOK
<1>1. IInv => TypeOK
  BY DEF IInv, TypeInv, TableInv, TypeOK, NoId
<1> QED  BY <1>1, ItemsInvariant, PTL

-----------------------------------------------------------------------------
(* One active item of each reference *)

Clean(items) ==
  \A k, l \in DOMAIN items :
    ~items[k].deleted /\ ~items[l].deleted =>
      /\ items[k].ref = items[l].ref => k = l
      /\ ValidItem(items[k])

CleanInv == \A s \in Sessions : Clean(session[s].next)

OneInv == OneItemPerReference /\ CleanInv

LEMMA IdleIsClean == Clean(Idle.next)
BY DEF Idle, Clean

LEMMA LoadedIsClean ==
  ASSUME TypeInv, OneItemPerReference, NEW items \in Loaded
  PROVE  Clean(items)
<1> SUFFICES ASSUME NEW k \in DOMAIN items, NEW l \in DOMAIN items
             PROVE  /\ items[k].ref = items[l].ref => k = l
                    /\ ValidItem(items[k])
  BY DEF Clean
<1> DEFINE i == items[k].id
           j == items[l].id
<1>1. /\ i \in Ids /\ items[k] = table[i] /\ ~table[i].deleted
      /\ j \in Ids /\ items[l] = table[j] /\ ~table[j].deleted
      /\ items[k] = items[l] => k = l
  BY LoadedItems DEF TypeInv
<1> HIDE DEF i, j
<1>2. /\ table[i].ref = table[j].ref => i = j
      /\ ValidItem(table[i])
  BY <1>1 DEF OneItemPerReference
<1> QED  BY <1>1, <1>2

\* A line of a thing the order has is merged with it, and only then.
LEMMA AddedIsClean ==
  ASSUME Spellings \subseteq {"canonical"},
         NEW items \in Seq(Item), NEW x \in Item, Clean(items), ValidItem(x)
  PROVE  Clean(AddItem(items, x))
<1> DEFINE added == AddItem(items, x)
<1>1. /\ \A k \in DOMAIN items :
           /\ added[k].ref = items[k].ref /\ added[k].price = items[k].price
           /\ added[k].deleted = items[k].deleted
           /\ added[k].quantity \in {items[k].quantity, items[k].quantity + x.quantity}
      /\ \A k \in DOMAIN added :
           k \notin DOMAIN items =>
             added[k] = x /\ \A l \in DOMAIN items : ~SameItem(items[l], x)
      /\ \A k, l \in DOMAIN added : k \notin DOMAIN items /\ l \notin DOMAIN items => k = l
  BY AddedItem
<1>2. \A y \in Item : y.text = "canonical" /\ y.quantity \in Nat /\ y.price \in Nat
  BY DEF Item
<1>3. x.text = "canonical" /\ \A k \in DOMAIN items : items[k] \in Item /\ items[k].text = "canonical"
  BY <1>2
<1>4. ASSUME NEW k \in DOMAIN items, ~items[k].deleted
      PROVE  ValidItem(added[k])
  <2>1. items[k].quantity > 0 /\ items[k].price > 0
    BY <1>4 DEF Clean, ValidItem
  <2>2. items[k].quantity \in Nat /\ x.quantity \in Nat
    BY <1>2, <1>3
  <2>3. items[k].quantity + x.quantity > 0
    BY <2>1, <2>2
  <2> QED  BY <1>1, <2>1, <2>3 DEF ValidItem
<1> HIDE DEF added
<1>5. ASSUME NEW k \in DOMAIN added, NEW l \in DOMAIN added,
             ~added[k].deleted, ~added[l].deleted
      PROVE  /\ added[k].ref = added[l].ref => k = l
             /\ ValidItem(added[k])
  <2>1. ValidItem(added[k])
    BY <1>1, <1>4, <1>5
  <2>2. CASE k \in DOMAIN items /\ l \in DOMAIN items
    BY <1>1, <1>5, <2>1, <2>2 DEF Clean
  <2>3. CASE k \notin DOMAIN items /\ l \in DOMAIN items
    BY <1>1, <1>3, <1>5, <2>1, <2>3 DEF SameItem
  <2>4. CASE k \in DOMAIN items /\ l \notin DOMAIN items
    BY <1>1, <1>3, <1>5, <2>1, <2>4 DEF SameItem
  <2>5. CASE k \notin DOMAIN items /\ l \notin DOMAIN items
    BY <1>1, <2>1, <2>5
  <2> QED  BY <2>2, <2>3, <2>4, <2>5
<1> QED  BY <1>5 DEF Clean, added

LEMMA LinkedIsClean ==
  ASSUME NEW items \in Seq(Item), NEW entry \in Nat, Clean(items)
  PROVE  Clean(Linked(items, entry))
<1> DEFINE linked == Linked(items, entry)
<1>1. /\ DOMAIN linked = DOMAIN items
      /\ \A k \in DOMAIN items :
           /\ linked[k].ref = items[k].ref /\ linked[k].deleted = items[k].deleted
           /\ linked[k].price = items[k].price /\ linked[k].quantity = items[k].quantity
  BY LinkedItems
<1> HIDE DEF linked
<1>2. Clean(linked)
  BY <1>1 DEF Clean, ValidItem
<1> QED  BY <1>2 DEF linked

LEMMA SavedIsClean ==
  ASSUME TypeInv, NEW items \in Seq(Item), Known(items), SaveWithItems(items), Clean(items)
  PROVE  OneItemPerReference'
<1>1. PICK listed \in Seq(Item) :
           /\ \A k \in DOMAIN items :
                /\ listed[k].ref = items[k].ref /\ listed[k].deleted = items[k].deleted
                /\ listed[k].quantity = items[k].quantity /\ listed[k].price = items[k].price
           /\ \A i \in Ids' :
                \/ \E k \in DOMAIN items : listed[k].id = i /\ table'[i] = listed[k]
                \/ i \in Ids /\ table'[i] = RemoveItem(table[i])
  BY SavedRows
<1>2. ASSUME NEW i \in Ids', ~table'[i].deleted
      PROVE  \E k \in DOMAIN items : listed[k].id = i /\ table'[i] = listed[k]
  <2>1. i \in Ids => RemoveItem(table[i]).deleted
    <3>1. i \in Ids => table[i] \in Item
      BY DEF TypeInv, TableInv
    <3> QED  BY <3>1, RemovedItem
  <2> QED  BY <1>1, <1>2, <2>1
<1>3. ASSUME NEW i \in Ids', NEW j \in Ids', ~table'[i].deleted, ~table'[j].deleted
      PROVE  /\ table'[i].ref = table'[j].ref => i = j
             /\ ValidItem(table'[i])
  <2>1. PICK k \in DOMAIN items : listed[k].id = i /\ table'[i] = listed[k]
    BY <1>2, <1>3
  <2>2. PICK l \in DOMAIN items : listed[l].id = j /\ table'[j] = listed[l]
    BY <1>2, <1>3
  <2>3. /\ items[k].ref = items[l].ref => k = l
        /\ ValidItem(items[k])
    BY <1>1, <1>3, <2>1, <2>2 DEF Clean
  <2> QED  BY <1>1, <2>1, <2>2, <2>3 DEF ValidItem
<1> QED  BY <1>3 DEF OneItemPerReference, Ids

\* A session that holds a clean list leaves the table and the others alone.
LEMMA SessionOne ==
  ASSUME TypeInv, OneInv, UNCHANGED table,
         NEW s \in Sessions, NEW r, SetsSession(s, r), Clean(r.next)
  PROVE  OneInv'
<1>1. OneItemPerReference'
  BY DEF OneInv, OneItemPerReference, Ids
<1>2. ASSUME NEW t \in Sessions PROVE Clean(session[t].next)'
  <2>1. session'[t] = IF t = s THEN r ELSE session[t]
    BY DEF SetsSession, TypeInv
  <2>2. PICK q : q = session'[t] /\ Clean(q.next)
    BY <2>1 DEF OneInv, CleanInv
  <2> QED  BY <2>2 DEF Clean
<1> QED  BY <1>1, <1>2 DEF OneInv, CleanInv

LEMMA InitOneInv == Init => OneInv
BY DEF Init, OneInv, OneItemPerReference, CleanInv, Clean, Ids, Idle

LEMMA NextOneInv ==
  ASSUME Spellings \subseteq {"canonical"}, IInv, OneInv, [Next]_vars
  PROVE  OneInv'
<1>1. ASSUME NEW ref \in References, NEW price \in Prices, CatalogueChanges(ref, price)
      PROVE  OneInv'
  BY <1>1 DEF CatalogueChanges, OneInv, OneItemPerReference, CleanInv, Clean, Ids
<1>2. ASSUME NEW s \in Sessions, LoadForUpdate(s) \/ LoadForOther(s)
      PROVE  OneInv'
  <2>1. PICK items \in Loaded, r \in Session :
          /\ SetsSession(s, r) /\ DOMAIN r.next = DOMAIN items
          /\ (\A k \in DOMAIN items : r.next[k].deleted) \/ r.next = items
    BY <1>2, LoadSets DEF IInv
  <2>2. Clean(r.next)
    <3>1. CASE \A k \in DOMAIN items : r.next[k].deleted
      BY <2>1, <3>1 DEF Clean
    <3>2. CASE r.next = items
      BY <2>1, <3>2, LoadedIsClean DEF IInv, OneInv
    <3> QED  BY <2>1, <3>1, <3>2
  <2>3. UNCHANGED table
    BY <1>2 DEF LoadForUpdate, LoadForOther
  <2> QED  BY <2>1, <2>2, <2>3, SessionOne DEF IInv
<1>3. ASSUME NEW s \in Sessions, NEW ref \in References, NEW text \in Spellings,
             NEW quantity \in Quantities, AddLine(s, ref, text, quantity)
      PROVE  OneInv'
  <2>1. PICK x \in Item, r \in Session :
          ValidItem(x) /\ SetsSession(s, r) /\ r.next = AddItem(session[s].next, x)
    BY <1>3, AddLineSets DEF IInv
  <2>2. PICK items \in Seq(Item) : items = session[s].next /\ Clean(items)
    BY DEF IInv, TypeInv, OneInv, CleanInv, Session
  <2>3. Clean(r.next)
    BY <2>1, <2>2, AddedIsClean
  <2> QED  BY <1>3, <2>1, <2>3, SessionOne DEF AddLine, IInv
<1>4. ASSUME NEW s \in Sessions, SaveHistory(s)
      PROVE  OneInv'
  <2>1. PICK r \in Session :
          SetsSession(s, r) /\ r.next = Linked(session[s].next, Len(history) + 1)
    BY <1>4, SaveHistorySets DEF IInv
  <2>2. PICK items \in Seq(Item) : items = session[s].next /\ Clean(items)
    BY DEF IInv, TypeInv, OneInv, CleanInv, Session
  <2>3. Clean(r.next)
    <3>1. PICK entry \in Nat : r.next = Linked(items, entry)
      BY <2>1, <2>2 DEF IInv, TypeInv
    <3> QED  BY <2>2, <3>1, LinkedIsClean
  <2> QED  BY <1>4, <2>1, <2>3, SessionOne DEF SaveHistory, IInv
<1>5. ASSUME NEW s \in Sessions, SaveOrder(s)
      PROVE  OneInv'
  <2>1. PICK items \in Seq(Item) :
          items = session[s].next /\ Known(items) /\ Clean(items)
    BY DEF IInv, TypeInv, KnownInv, OneInv, CleanInv, Session
  <2>2. OneItemPerReference'
    BY <1>5, <2>1, SavedIsClean DEF SaveOrder, IInv
  <2>3. ASSUME NEW t \in Sessions PROVE Clean(session[t].next)'
    <3>1. PICK q : q = session'[t] /\ Clean(q.next)
      BY <1>5, IdleIsClean DEF SaveOrder, IInv, TypeInv, OneInv, CleanInv
    <3> QED  BY <3>1 DEF Clean
  <2> QED  BY <2>2, <2>3 DEF OneInv, CleanInv
<1>6. ASSUME NEW s \in Sessions, Abandon(s)
      PROVE  OneInv'
  BY <1>6, IdleIsKnown, IdleIsClean, SessionOne DEF Abandon, SetsSession, IInv
<1>7. CASE UNCHANGED vars
  BY <1>7 DEF vars, OneInv, OneItemPerReference, CleanInv, Clean, Ids
<1> QED  BY <1>1, <1>2, <1>3, <1>4, <1>5, <1>6, <1>7 DEF Next

\* While requests spell the reference ids as the database does, no two active
\* items are of one product or service and none is without quantity or price,
\* whatever handlers interleave and stop.
THEOREM OneItemEach ==
  ASSUME Spellings \subseteq {"canonical"}
  PROVE  Spec => []OneItemPerReference
<1>1. IInv /\ OneInv /\ [Next]_vars => OneInv'
  BY NextOneInv
<1>2. OneInv => OneItemPerReference
  BY DEF OneInv
<1> QED  BY <1>1, <1>2, InitOneInv, ItemsInvariant, PTL DEF Spec

-----------------------------------------------------------------------------
(* What a save takes away names an entry *)

\* An item refers to an entry that is there.
Recorded(items, entries) == \A k \in DOMAIN items : items[k].history \in 0..entries

\* What was loaded is still in the list.
Retained(loaded, items) ==
  \A k \in DOMAIN loaded :
    \E l \in DOMAIN items : items[l].id = loaded[k].id /\ items[l].id # NoId

\* What a session that is about to save removes, it has linked.
LinkedList(a) ==
  a.pc = "save" =>
    \A k \in DOMAIN a.next : a.next[k].deleted => a.next[k].history # NoId

SessionLinks(a, entries) ==
  Recorded(a.next, entries) /\ Retained(a.loaded, a.next) /\ LinkedList(a)

LinkInv ==
  /\ \A i \in Ids : table[i].history \in 0..Len(history)
  /\ \A s \in Sessions : SessionLinks(session[s], Len(history))

LEMMA IdleLinks ==
  ASSUME NEW entries
  PROVE  SessionLinks(Idle, entries)
BY DEF Idle, SessionLinks, Recorded, Retained, LinkedList

LEMMA LoadLinks ==
  ASSUME TypeInv, LinkInv, NEW s \in Sessions, LoadForUpdate(s) \/ LoadForOther(s)
  PROVE  \E r \in Session : SetsSession(s, r) /\ SessionLinks(r, Len(history))
<1>1. PICK items \in Loaded, r \in Session :
         /\ SetsSession(s, r)
         /\ r.loaded = items /\ r.lines = <<>>
         /\ DOMAIN r.next = DOMAIN items
         /\ \A k \in DOMAIN items : /\ r.next[k].id = items[k].id
                                    /\ r.next[k].history = items[k].history
                                    /\ r.next[k].price = items[k].price
                                    /\ r.next[k].quantity = items[k].quantity
         /\ \/ r.pc = "lines" /\ \A k \in DOMAIN items : r.next[k].deleted
            \/ r.pc = "save" /\ r.next = items
  BY LoadSets, Zenon
<1>2. \A k \in DOMAIN items : /\ items[k].id \in Ids /\ items[k] = table[items[k].id]
                              /\ ~items[k].deleted
  BY LoadedItems DEF TypeInv
<1>3. Recorded(r.next, Len(history))
  BY <1>1, <1>2 DEF Recorded, LinkInv
<1>4. Retained(r.loaded, r.next)
  <2>1. NoId \notin Ids
    BY Bounds DEF TypeInv, TableInv, NoId
  <2> QED  BY <1>1, <1>2, <2>1 DEF Retained
<1>5. LinkedList(r)
  BY <1>1, <1>2 DEF LinkedList
<1> QED  BY <1>1, <1>3, <1>4, <1>5 DEF SessionLinks

LEMMA AddLineLinks ==
  ASSUME TypeInv, LinkInv, NEW s \in Sessions, NEW ref \in References,
         NEW text \in Spellings, NEW quantity \in Quantities,
         AddLine(s, ref, text, quantity)
  PROVE  \E r \in Session : SetsSession(s, r) /\ SessionLinks(r, Len(history))
<1>1. PICK x \in Item, r \in Session :
        /\ x.history = NoId /\ SetsSession(s, r) /\ r.pc = "lines"
        /\ r.loaded = session[s].loaded /\ r.next = AddItem(session[s].next, x)
  BY AddLineSets
<1>2. PICK a \in Session : a = session[s] /\ SessionLinks(a, Len(history))
  BY DEF TypeInv, LinkInv
<1>3. PICK items \in Seq(Item) : items = a.next
  BY DEF Session
<1>4. /\ \A k \in DOMAIN items :
           /\ k \in DOMAIN r.next /\ r.next[k].id = items[k].id
           /\ r.next[k].history = items[k].history
      /\ \A k \in DOMAIN r.next : k \notin DOMAIN items => r.next[k] = x
  <2>1. r.next = AddItem(items, x)
    BY <1>1, <1>2, <1>3
  <2> QED  BY <2>1, AddedItem
<1>5. Recorded(r.next, Len(history))
  BY <1>1, <1>2, <1>3, <1>4 DEF Recorded, SessionLinks, TypeInv, NoId
<1>6. Retained(r.loaded, r.next)
  BY <1>1, <1>2, <1>3, <1>4 DEF Retained, SessionLinks
<1>7. LinkedList(r)
  BY <1>1 DEF LinkedList
<1> QED  BY <1>1, <1>5, <1>6, <1>7 DEF SessionLinks

LEMMA SaveHistoryLinks ==
  ASSUME TypeInv, LinkInv, NEW s \in Sessions, SaveHistory(s)
  PROVE  \E r \in Session : SetsSession(s, r) /\ SessionLinks(r, Len(history) + 1)
<1>1. PICK r \in Session :
        /\ SetsSession(s, r)
        /\ r.pc = "save" /\ r.loaded = session[s].loaded
        /\ r.next = Linked(session[s].next, Len(history) + 1)
  BY SaveHistorySets
<1>2. PICK a \in Session : a = session[s] /\ SessionLinks(a, Len(history))
  BY DEF TypeInv, LinkInv
<1>3. PICK items \in Seq(Item) : items = a.next
  BY DEF Session
<1>4. PICK n \in Nat : n = Len(history)
  BY DEF TypeInv
<1>5. /\ DOMAIN r.next = DOMAIN items
      /\ \A k \in DOMAIN items :
           /\ r.next[k].id = items[k].id
           /\ r.next[k].deleted = items[k].deleted
           /\ r.next[k].history = IF items[k].deleted /\ items[k].history = NoId
                                    THEN n + 1 ELSE items[k].history
  <2>1. r.next = Linked(items, n + 1) /\ n + 1 \in Nat
    BY <1>1, <1>2, <1>3, <1>4
  <2> QED  BY <2>1, LinkedItems
<1>6. Recorded(r.next, n + 1)
  BY <1>2, <1>3, <1>4, <1>5 DEF Recorded, SessionLinks
<1>7. Retained(r.loaded, r.next)
  BY <1>1, <1>2, <1>3, <1>5 DEF Retained, SessionLinks
<1>8. LinkedList(r)
  BY <1>4, <1>5 DEF LinkedList, NoId
<1> QED  BY <1>1, <1>4, <1>6, <1>7, <1>8 DEF SessionLinks

\* Entries are only added, so the other sessions' lists stay linked.
LEMMA SessionLink ==
  ASSUME TypeInv, LinkInv, UNCHANGED table,
         Len(history') \in {Len(history), Len(history) + 1},
         NEW s \in Sessions, NEW r, SetsSession(s, r), SessionLinks(r, Len(history'))
  PROVE  LinkInv'
<1>1. PICK n \in Nat, m \in Nat : n = Len(history) /\ m = Len(history') /\ n <= m
  BY DEF TypeInv
<1>2. \A i \in Ids' : table'[i].history \in 0..m
  BY <1>1 DEF LinkInv, Ids
<1>3. ASSUME NEW t \in Sessions PROVE SessionLinks(session'[t], m)
  <2>1. session'[t] = IF t = s THEN r ELSE session[t]
    BY DEF SetsSession, TypeInv
  <2>2. SessionLinks(session[t], n)
    BY <1>1 DEF LinkInv
  <2>3. SessionLinks(session[t], m)
    BY <1>1, <2>2 DEF SessionLinks, Recorded
  <2> QED  BY <1>1, <2>1, <2>3
<1> QED  BY <1>1, <1>2, <1>3 DEF LinkInv, SessionLinks, Recorded, Retained, LinkedList

\* What a save takes away of what its session had loaded names an entry.
LEMMA SaveLinks ==
  ASSUME TypeInv, KnownInv, LinkInv, NEW s \in Sessions, SaveOrder(s)
  PROVE  /\ \A i \in Ids' : table'[i].history \in 0..Len(history)
         /\ \A i \in Ids :
              ~table[i].deleted /\ table'[i].deleted =>
                \/ table'[i].history \in 1..Len(history)
                \/ \A k \in DOMAIN session[s].loaded : session[s].loaded[k].id # i
<1>1. PICK a \in Session :
        /\ a = session[s] /\ SessionLinks(a, Len(history)) /\ Known(a.next)
        /\ a.pc = "save"
  BY DEF TypeInv, KnownInv, LinkInv, SaveOrder
<1>2. PICK items \in Seq(Item) : items = a.next
  BY DEF Session
<1>3. Known(items) /\ SaveWithItems(items)
  BY <1>1, <1>2 DEF SaveOrder
<1>4. PICK listed \in Seq(Item) :
           /\ \A k \in DOMAIN items :
                /\ listed[k].deleted = items[k].deleted
                /\ listed[k].history = items[k].history
                /\ items[k].id # NoId => listed[k].id = items[k].id
           /\ Ids' = Ids \cup {listed[k].id : k \in DOMAIN items}
           /\ \A i \in Ids' :
                \/ \E k \in DOMAIN items : listed[k].id = i /\ table'[i] = listed[k]
                \/ /\ i \in Ids /\ table'[i] = RemoveItem(table[i])
                   /\ \A k \in DOMAIN items : listed[k].id # i
  BY <1>3, SavedRows
<1>5. PICK n \in Nat : n = Len(history)
  BY DEF TypeInv
<1>6. ASSUME NEW i \in Ids' PROVE table'[i].history \in 0..n
  <2>1. \A k \in DOMAIN items : items[k].history \in 0..n
    BY <1>1, <1>2, <1>5 DEF SessionLinks, Recorded
  <2>2. i \in Ids => RemoveItem(table[i]).history \in 0..n
    <3>1. i \in Ids => table[i] \in Item /\ table[i].history \in 0..n
      BY <1>5 DEF TypeInv, TableInv, LinkInv
    <3> QED  BY <3>1, RemovedItem
  <2> QED  BY <1>4, <2>1, <2>2
<1>7. ASSUME NEW i \in Ids, table'[i].deleted
      PROVE  \/ table'[i].history \in 1..n
             \/ \A k \in DOMAIN a.loaded : a.loaded[k].id # i
  <2>1. i \in Ids'
    BY <1>4
  <2>2. CASE \E k \in DOMAIN items : listed[k].id = i /\ table'[i] = listed[k]
    <3>1. PICK k \in DOMAIN items : table'[i] = listed[k]
      BY <2>2
    <3>2. items[k].deleted /\ table'[i].history = items[k].history
      BY <1>4, <1>7, <3>1
    <3>3. items[k].history # NoId
      BY <1>1, <1>2, <3>2 DEF SessionLinks, LinkedList
    <3>4. table'[i].history \in 0..n
      BY <1>6, <2>1
    <3> QED  BY <3>2, <3>3, <3>4 DEF NoId
  <2>3. CASE \A k \in DOMAIN items : listed[k].id # i
    BY <1>1, <1>2, <1>4, <2>3 DEF SessionLinks, Retained
  <2> QED  BY <1>4, <2>1, <2>2, <2>3
<1> QED  BY <1>1, <1>5, <1>6, <1>7

LEMMA InitLinkInv == Init => LinkInv
BY IdleLinks DEF Init, LinkInv, Ids

LEMMA NextLinkInv ==
  ASSUME IInv, LinkInv, [Next]_vars
  PROVE  LinkInv'
<1>1. ASSUME NEW ref \in References, NEW price \in Prices, CatalogueChanges(ref, price)
      PROVE  LinkInv'
  BY <1>1 DEF CatalogueChanges, LinkInv, SessionLinks, Recorded, Retained, LinkedList, Ids
<1>2. ASSUME NEW s \in Sessions, LoadForUpdate(s) \/ LoadForOther(s)
      PROVE  LinkInv'
  <2>1. PICK r \in Session : SetsSession(s, r) /\ SessionLinks(r, Len(history))
    BY <1>2, LoadLinks DEF IInv
  <2>2. UNCHANGED <<table, history>>
    BY <1>2 DEF LoadForUpdate, LoadForOther
  <2> QED  BY <2>1, <2>2, SessionLink DEF IInv
<1>3. ASSUME NEW s \in Sessions, NEW ref \in References, NEW text \in Spellings,
             NEW quantity \in Quantities, AddLine(s, ref, text, quantity)
      PROVE  LinkInv'
  <2>1. PICK r \in Session : SetsSession(s, r) /\ SessionLinks(r, Len(history))
    BY <1>3, AddLineLinks DEF IInv
  <2>2. UNCHANGED <<table, history>>
    BY <1>3 DEF AddLine
  <2> QED  BY <2>1, <2>2, SessionLink DEF IInv
<1>4. ASSUME NEW s \in Sessions, SaveHistory(s)
      PROVE  LinkInv'
  <2>1. PICK r \in Session : SetsSession(s, r) /\ SessionLinks(r, Len(history) + 1)
    BY <1>4, SaveHistoryLinks DEF IInv
  <2>2. UNCHANGED table /\ Len(history') = Len(history) + 1
    <3>1. history \in Seq(BOOLEAN) /\ \E b \in BOOLEAN : history' = Append(history, b)
      BY <1>4 DEF SaveHistory, HasItemsChanged, IInv, TypeInv
    <3> QED  BY <1>4, <3>1 DEF SaveHistory
  <2> QED  BY <2>1, <2>2, SessionLink DEF IInv
<1>5. ASSUME NEW s \in Sessions, SaveOrder(s)
      PROVE  LinkInv'
  <2>1. \A i \in Ids' : table'[i].history \in 0..Len(history)
    BY <1>5, SaveLinks DEF IInv
  <2>2. UNCHANGED history
    BY <1>5 DEF SaveOrder
  <2>3. ASSUME NEW t \in Sessions PROVE SessionLinks(session'[t], Len(history))
    BY <1>5, IdleLinks DEF SaveOrder, LinkInv, IInv, TypeInv
  <2> QED  BY <2>1, <2>2, <2>3 DEF LinkInv, SessionLinks, Recorded, Retained, LinkedList
<1>6. ASSUME NEW s \in Sessions, Abandon(s)
      PROVE  LinkInv'
  BY <1>6, IdleIsKnown, IdleLinks, SessionLink DEF Abandon, SetsSession, IInv
<1>7. CASE UNCHANGED vars
  BY <1>7 DEF vars, LinkInv, SessionLinks, Recorded, Retained, LinkedList, Ids
<1> QED  BY <1>1, <1>2, <1>3, <1>4, <1>5, <1>6, <1>7 DEF Next

\* An item that a save takes away names an entry of the history, unless the
\* session that saves had not loaded it: whatever handlers interleave and stop
\* between the entry and the save.
THEOREM ReplacedAreLinked == Spec => ReplacedItemsLinked
<1> DEFINE Step ==
      \A i \in Ids :
       ~table[i].deleted /\ table'[i].deleted =>
         \/ table'[i].history \in DOMAIN history
         \/ \E s \in Sessions :
              /\ session[s].pc = "save" /\ session'[s].pc = "idle"
              /\ \A k \in DOMAIN session[s].loaded : session[s].loaded[k].id # i
<1>1. IInv /\ LinkInv /\ [Next]_vars => LinkInv'
  BY NextLinkInv
<1>2. IInv /\ LinkInv /\ [Next]_vars => [Step]_vars
  <2> SUFFICES ASSUME IInv, LinkInv, Next, ~UNCHANGED table PROVE Step
    BY DEF vars
  <2>1. PICK s \in Sessions : SaveOrder(s)
    <3>1. ASSUME NEW ref \in References, NEW price \in Prices, CatalogueChanges(ref, price)
          PROVE  UNCHANGED table
      BY <3>1 DEF CatalogueChanges
    <3>2. ASSUME NEW s \in Sessions, LoadForUpdate(s) \/ LoadForOther(s) \/ SaveHistory(s) \/ Abandon(s)
          PROVE  UNCHANGED table
      BY <3>2 DEF LoadForUpdate, LoadForOther, SaveHistory, Abandon
    <3>3. ASSUME NEW s \in Sessions, NEW ref \in References, NEW text \in Spellings,
                 NEW quantity \in Quantities, AddLine(s, ref, text, quantity)
          PROVE  UNCHANGED table
      BY <3>3 DEF AddLine
    <3> QED  BY <3>1, <3>2, <3>3 DEF Next
  <2>2. \A i \in Ids :
          ~table[i].deleted /\ table'[i].deleted =>
            \/ table'[i].history \in 1..Len(history)
            \/ \A k \in DOMAIN session[s].loaded : session[s].loaded[k].id # i
    BY <2>1, SaveLinks DEF IInv
  <2>3. session[s].pc = "save" /\ session'[s].pc = "idle"
    BY <2>1 DEF SaveOrder, Idle, IInv, TypeInv
  <2>4. DOMAIN history = 1..Len(history)
    BY DEF IInv, TypeInv
  <2> QED  BY <2>2, <2>3, <2>4
<1>3. Spec => [][Step]_vars
  BY <1>1, <1>2, InitLinkInv, ItemsInvariant, PTL DEF Spec
<1> QED  BY <1>3 DEF ReplacedItemsLinked

-----------------------------------------------------------------------------
(* Sums *)

LEMMA LeastNumber ==
  ASSUME NEW T, T \subseteq Nat, T # {}
  PROVE  \E n \in T : \A m \in T : n <= m
<1> DEFINE R == {ss \in Nat \X Nat : ss[1] < ss[2]}
<1>1. IsWellFoundedOn(R, Nat)
  BY NatLessThanWellFounded DEF OpToRel
<1> HIDE DEF R
<1>2. PICK n \in T : \A m \in T : <<m, n>> \notin R
  BY <1>1, WFMin, Zenon
<1>3. ASSUME NEW m \in T PROVE n <= m
  <2>1. n \in Nat /\ m \in Nat /\ ~(<<m, n>> \in R)
    BY <1>2
  <2>2. <<m, n>> \in Nat \X Nat /\ <<m, n>>[1] = m /\ <<m, n>>[2] = n
    BY <2>1
  <2>3. ~(m < n)
    BY <2>1, <2>2 DEF R
  <2> QED  BY <2>1, <2>3
<1> QED  BY <1>3

\* t[i] is the sum of the first i addends.
Sums(addend, t, n) ==
  /\ \A i \in 0..n : t[i] \in Nat
  /\ t[0] = 0
  /\ \A i \in 1..n : t[i] = t[i - 1] + addend[i]

LEMMA SumsExist ==
  ASSUME NEW n \in Nat, NEW addend, \A i \in 1..n : addend[i] \in Nat
  PROVE  \E t \in [0..n -> Nat] : Sums(addend, t, n)
<1> DEFINE Summed(m) == \E t \in [0..m -> Nat] : Sums(addend, t, m)
           Open == {m \in 0..n : ~Summed(m)}
<1>1. Summed(0)
  <2>1. [i \in 0..0 |-> 0] \in [0..0 -> Nat] /\ Sums(addend, [i \in 0..0 |-> 0], 0)
    BY DEF Sums
  <2> QED  BY <2>1
<1>2. ASSUME NEW m \in 1..n, Summed(m - 1)
      PROVE  Summed(m)
  <2>1. PICK t \in [0..(m - 1) -> Nat] : Sums(addend, t, m - 1)
    BY <1>2
  <2> DEFINE u == [i \in 0..m |-> IF i = m THEN t[m - 1] + addend[m] ELSE t[i]]
  <2>2. u \in [0..m -> Nat]
    BY <2>1 DEF Sums
  <2>3. Sums(addend, u, m)
    BY <2>1, <2>2 DEF Sums
  <2> QED  BY <2>2, <2>3
<1> HIDE DEF Summed
<1>3. Open = {}
  <2> SUFFICES ASSUME Open # {} PROVE FALSE
    OBVIOUS
  <2>1. Open \subseteq Nat
    OBVIOUS
  <2>2. PICK m \in Open : \A k \in Open : m <= k
    BY <2>1, LeastNumber, Zenon
  <2>3. m \in 1..n /\ m - 1 \in 0..n
    BY <1>1, <2>2
  <2>4. m - 1 \notin Open
    BY <2>2, <2>3
  <2> QED  BY <1>2, <2>2, <2>3, <2>4
<1> QED  BY <1>3 DEF Summed

\* The addends of a, the k-th grown by d.
Grown(a, b, n, k, d) ==
  \A i \in 1..n : a[i] \in Nat /\ b[i] = (IF i = k THEN a[i] + d ELSE a[i])

\* Two sums that differ in one addend, or in none.
LEMMA SumsDiffer ==
  ASSUME NEW n \in Nat, NEW k \in Nat, NEW d \in Nat,
         NEW a, NEW b, NEW t, NEW u,
         Sums(a, t, n), Sums(b, u, n), Grown(a, b, n, k, d)
  PROVE  /\ k \in 1..n => u[n] = t[n] + d
         /\ k \notin 1..n => u[n] = t[n]
<1> DEFINE Right(m) == u[m] = (IF k \in 1..m THEN t[m] + d ELSE t[m])
           Wrong == {m \in 0..n : ~Right(m)}
<1>1. Right(0)
  BY DEF Sums
<1>2. ASSUME NEW m \in 1..n, Right(m - 1)
      PROVE  Right(m)
  <2>1. t[m] = t[m - 1] + a[m] /\ u[m] = u[m - 1] + b[m]
    BY DEF Sums
  <2>2. t[m - 1] \in Nat /\ a[m] \in Nat /\ m - 1 \in 0..n /\ b[m] = (IF m = k THEN a[m] + d ELSE a[m])
    BY DEF Sums, Grown
  <2>3. CASE k = m
    BY <1>2, <2>1, <2>2, <2>3
  <2>4. CASE k # m
    <3>1. k \in 1..m <=> k \in 1..(m - 1)
      BY <2>4
    <3> QED  BY <1>2, <2>1, <2>2, <2>4, <3>1
  <2> QED  BY <2>3, <2>4
<1> HIDE DEF Right
<1>3. Wrong = {}
  <2> SUFFICES ASSUME Wrong # {} PROVE FALSE
    OBVIOUS
  <2>1. Wrong \subseteq Nat
    OBVIOUS
  <2>2. PICK m \in Wrong : \A l \in Wrong : m <= l
    BY <2>1, LeastNumber, Zenon
  <2>3. m \in 1..n /\ m - 1 \in 0..n
    BY <1>1, <2>2
  <2>4. m - 1 \notin Wrong
    BY <2>2, <2>3
  <2> QED  BY <1>2, <2>2, <2>3, <2>4
<1> QED  BY <1>3 DEF Right

Cost(x) == IF x.deleted THEN 0 ELSE Subtotal(x)

LEMMA CostType ==
  ASSUME NEW x \in Item
  PROVE  Cost(x) \in Nat /\ Subtotal(x) \in Nat
<1>1. x.quantity \in Nat /\ x.price \in Nat
  BY DEF Item
<1>2. Subtotal(x) \in Nat
  BY <1>1 DEF Subtotal
<1> QED  BY <1>2 DEF Cost

\* The total of a list is the sum of what its items cost.
LEMMA TotalIsSum ==
  ASSUME NEW items \in Seq(Item)
  PROVE  \E t : /\ Sums([k \in DOMAIN items |-> Cost(items[k])], t, Len(items))
               /\ TotalAmount(items) = t[Len(items)]
<1> DEFINE n == Len(items)
           addend == [k \in DOMAIN items |-> Cost(items[k])]
           total == CHOOSE t : t = [i \in 0..n |->
                      IF i = 0 THEN 0
                      ELSE t[i - 1] + (IF items[i].deleted THEN 0 ELSE Subtotal(items[i]))]
<1>1. n \in Nat /\ DOMAIN items = 1..n
  OBVIOUS
<1>2. \A i \in 1..n : addend[i] \in Nat /\ addend[i] = Cost(items[i])
  <2>1. \A i \in 1..n : items[i] \in Item
    OBVIOUS
  <2> QED  BY <1>1, <2>1, CostType
<1>3. TotalAmount(items) = total[n]
  BY DEF TotalAmount
<1> HIDE DEF addend, n
<1>4. PICK t \in [0..n -> Nat] : Sums(addend, t, n)
  BY <1>1, <1>2, SumsExist
<1>5. t = [i \in 0..n |->
             IF i = 0 THEN 0
             ELSE t[i - 1] + (IF items[i].deleted THEN 0 ELSE Subtotal(items[i]))]
  <2>1. t[0] = 0 /\ \A i \in 1..n : t[i] = t[i - 1] + Cost(items[i])
    BY <1>2, <1>4 DEF Sums
  <2> QED  BY <1>1, <2>1 DEF Cost
<1>6. total = [i \in 0..n |->
                 IF i = 0 THEN 0
                 ELSE total[i - 1] + (IF items[i].deleted THEN 0 ELSE Subtotal(items[i]))]
  BY <1>5
<1> HIDE DEF total
<1>7. total[0] = 0 /\ \A i \in 1..n : total[i] = total[i - 1] + addend[i]
  BY <1>1, <1>2, <1>6 DEF Cost
<1> DEFINE Untyped == {i \in 0..n : total[i] \notin Nat}
<1>8. Untyped = {}
  <2> SUFFICES ASSUME Untyped # {} PROVE FALSE
    OBVIOUS
  <2>1. Untyped \subseteq Nat
    BY <1>1
  <2>2. PICK m \in Untyped : \A l \in Untyped : m <= l
    BY <2>1, LeastNumber, Zenon
  <2>3. m \in 1..n /\ m - 1 \in 0..n /\ m - 1 \notin Untyped
    BY <1>1, <1>7, <2>2
  <2> QED  BY <1>2, <1>7, <2>2, <2>3
<1>9. Sums(addend, total, n)
  BY <1>7, <1>8 DEF Sums
<1> QED  BY <1>3, <1>9 DEF addend, n

LEMMA TotalAppended ==
  ASSUME NEW items \in Seq(Item), NEW x \in Item
  PROVE  TotalAmount(Append(items, x)) = TotalAmount(items) + Cost(x)
<1> DEFINE n == Len(items)
           more == Append(items, x)
           a == [k \in DOMAIN items |-> Cost(items[k])]
           b == [k \in DOMAIN more |-> Cost(more[k])]
<1>1. PICK t : Sums(a, t, n) /\ TotalAmount(items) = t[n]
  BY TotalIsSum
<1>2. more \in Seq(Item) /\ Len(more) = n + 1
  OBVIOUS
<1>3. PICK u : Sums(b, u, n + 1) /\ TotalAmount(more) = u[n + 1]
  BY <1>2, TotalIsSum
<1>4. /\ n \in Nat /\ b[n + 1] = Cost(x)
      /\ \A i \in 1..n : a[i] = Cost(items[i]) /\ b[i] = a[i] /\ a[i] \in Nat
  <2>1. \A i \in 1..n : items[i] \in Item /\ Cost(items[i]) \in Nat
    BY CostType
  <2> QED  BY <2>1
<1> HIDE DEF a, b, n, more
<1>5. Sums(b, u, n)
  BY <1>3, <1>4 DEF Sums
<1>6. u[n] = t[n]
  <2>1. Grown(a, b, n, 0, 0)
    BY <1>4 DEF Grown
  <2>2. 0 \in Nat /\ n \in Nat /\ 0 \notin 1..n
    BY <1>4
  <2> QED  BY <1>1, <1>5, <2>1, <2>2, SumsDiffer
<1>7. u[n + 1] = u[n] + Cost(x)
  BY <1>3, <1>4 DEF Sums
<1> QED  BY <1>1, <1>3, <1>6, <1>7 DEF more

\* A line merged with an item of its price adds what it costs.
LEMMA TotalAdded ==
  ASSUME NEW items \in Seq(Item), NEW x \in Item, ~x.deleted,
         \A k, l \in DOMAIN items : SameItem(items[k], x) /\ SameItem(items[l], x) => k = l,
         \A k \in DOMAIN items : SameItem(items[k], x) => items[k].price = x.price
  PROVE  TotalAmount(AddItem(items, x)) = TotalAmount(items) + Subtotal(x)
<1>1. CASE \A k \in DOMAIN items : ~SameItem(items[k], x)
  BY <1>1, TotalAppended DEF AddItem, Cost
<1>2. CASE \E k \in DOMAIN items : SameItem(items[k], x)
  <2>1. PICK k \in DOMAIN items : SameItem(items[k], x)
    BY <1>2
  <2> DEFINE n == Len(items)
             added == AddItem(items, x)
             a == [i \in DOMAIN items |-> Cost(items[i])]
             b == [i \in DOMAIN added |-> Cost(added[i])]
  <2>2. added = [i \in DOMAIN items |->
                   IF SameItem(items[i], x)
                     THEN [items[i] EXCEPT !.quantity = @ + x.quantity] ELSE items[i]]
    BY <1>2 DEF AddItem
  <2>3. DOMAIN added = 1..n /\ added \in Seq(Item) /\ Len(added) = n /\ n \in Nat
    <3>1. added \in Seq(Item)
      BY AddedItem
    <3>2. DOMAIN added = DOMAIN items
      BY <2>2
    <3> QED  BY <3>1, <3>2
  <2>4. \A i \in 1..n : i # k => added[i] = items[i]
    BY <2>1, <2>2
  <2>5. Cost(added[k]) = Cost(items[k]) + Subtotal(x)
    <3> DEFINE y == items[k]
               z == added[k]
    <3>1. y \in Item /\ x.quantity \in Nat /\ ~y.deleted /\ y.price = x.price
      <4>1. y \in Item
        OBVIOUS
      <4>2. x.quantity \in Nat
        BY DEF Item
      <4> QED  BY <2>1, <4>1, <4>2 DEF SameItem
    <3>2. z = [y EXCEPT !.quantity = @ + x.quantity]
      BY <2>1, <2>2
    <3> HIDE DEF y, z
    <3>3. z.quantity = y.quantity + x.quantity /\ z.price = y.price /\ ~z.deleted
      BY <3>1, <3>2, MergedItem
    <3>4. y.quantity \in Nat /\ y.price \in Nat
      BY <3>1 DEF Item
    <3>5. (y.quantity + x.quantity) * y.price = y.quantity * y.price + x.quantity * y.price
      BY <3>1, <3>4
    <3>6. Cost(z) = Cost(y) + Subtotal(x)
      BY <3>1, <3>3, <3>5 DEF Cost, Subtotal
    <3> QED  BY <3>6 DEF y, z
  <2>6. PICK t : Sums(a, t, n) /\ TotalAmount(items) = t[n]
    BY TotalIsSum
  <2>7. PICK u : Sums(b, u, n) /\ TotalAmount(added) = u[n]
    BY <2>3, TotalIsSum
  <2>8. Grown(a, b, n, k, Subtotal(x))
    <3>1. \A i \in 1..n : items[i] \in Item /\ Cost(items[i]) \in Nat
      BY CostType
    <3> QED  BY <2>3, <2>4, <2>5, <3>1 DEF Grown
  <2>9. k \in 1..n /\ k \in Nat /\ Subtotal(x) \in Nat
    BY <2>1, CostType
  <2> HIDE DEF a, b, n, added
  <2>10. u[n] = t[n] + Subtotal(x)
    BY <2>3, <2>6, <2>7, <2>8, <2>9, SumsDiffer
  <2> QED  BY <2>6, <2>7, <2>9, <2>10 DEF added
<1> QED  BY <1>1, <1>2

LEMMA NothingCosts ==
  ASSUME NEW items \in Seq(Item), \A k \in DOMAIN items : items[k].deleted
  PROVE  TotalAmount(items) = 0
<1> DEFINE n == Len(items)
           a == [k \in DOMAIN items |-> Cost(items[k])]
<1>1. PICK t : Sums(a, t, n) /\ TotalAmount(items) = t[n]
  BY TotalIsSum
<1>2. n \in Nat /\ \A i \in 1..n : a[i] = 0
  BY DEF Cost
<1> HIDE DEF a, n
<1> DEFINE Wrong == {i \in 0..n : t[i] # 0}
<1>3. Wrong = {}
  <2> SUFFICES ASSUME Wrong # {} PROVE FALSE
    OBVIOUS
  <2>1. Wrong \subseteq Nat
    OBVIOUS
  <2>2. PICK m \in Wrong : \A l \in Wrong : m <= l
    BY <2>1, LeastNumber, Zenon
  <2>3. m \in 1..n /\ m - 1 \in 0..n /\ m - 1 \notin Wrong
    BY <1>1, <1>2, <2>2 DEF Sums
  <2>4. t[m] = t[m - 1] + a[m] /\ a[m] = 0 /\ t[m - 1] = 0 /\ t[m] # 0
    BY <1>1, <1>2, <2>2, <2>3 DEF Sums
  <2> QED  BY <2>4
<1> QED  BY <1>1, <1>2, <1>3

-----------------------------------------------------------------------------
(* What the request costs *)

\* The active items are those of the lines, each once.
Merged(items, lines) ==
  /\ \A k \in DOMAIN items :
       ~items[k].deleted =>
         \E j \in DOMAIN lines : lines[j].ref = items[k].ref /\ lines[j].price = items[k].price
  /\ \A k, l \in DOMAIN items :
       /\ ~items[k].deleted /\ ~items[l].deleted
       /\ items[k].ref = items[l].ref /\ items[k].text = items[l].text
       => k = l
  /\ ~Repriced(lines) => TotalAmount(items) = TotalAmount(lines)

MergedInv ==
  \A s \in Sessions :
    session[s].pc = "lines" => Merged(session[s].next, session[s].lines)

LEMMA NothingMerged ==
  ASSUME NEW items \in Seq(Item), \A k \in DOMAIN items : items[k].deleted
  PROVE  Merged(items, <<>>)
<1>1. <<>> \in Seq(Item) /\ DOMAIN <<>> = {}
  OBVIOUS
<1>2. TotalAmount(items) = 0 /\ TotalAmount(<<>>) = 0
  BY <1>1, NothingCosts
<1> QED  BY <1>2 DEF Merged

LEMMA LineMerged ==
  ASSUME NEW items \in Seq(Item), NEW lines \in Seq(Item), NEW x \in Item, ~x.deleted,
         Merged(items, lines)
  PROVE  Merged(AddItem(items, x), Append(lines, x))
<1> DEFINE added == AddItem(items, x)
           more == Append(lines, x)
<1>1. /\ DOMAIN lines \subseteq DOMAIN more
      /\ \A j \in DOMAIN lines : more[j] = lines[j]
      /\ Len(more) \in DOMAIN more /\ more[Len(more)] = x
  OBVIOUS
<1>2. /\ \A k \in DOMAIN items :
           /\ added[k].ref = items[k].ref /\ added[k].text = items[k].text
           /\ added[k].price = items[k].price /\ added[k].deleted = items[k].deleted
      /\ \A k \in DOMAIN added :
           k \notin DOMAIN items =>
             added[k] = x /\ \A l \in DOMAIN items : ~SameItem(items[l], x)
      /\ \A k, l \in DOMAIN added : k \notin DOMAIN items /\ l \notin DOMAIN items => k = l
  BY AddedItem
<1>3. TotalAmount(more) = TotalAmount(lines) + Subtotal(x)
  BY TotalAppended DEF Cost
<1>4. \A k, l \in DOMAIN items : SameItem(items[k], x) /\ SameItem(items[l], x) => k = l
  BY DEF SameItem, Merged
<1>5. ASSUME ~Repriced(more)
      PROVE  /\ ~Repriced(lines)
             /\ \A k \in DOMAIN items : SameItem(items[k], x) => items[k].price = x.price
  <2> HIDE DEF more
  <2>1. \A i, j \in DOMAIN more : more[i].ref = more[j].ref => more[i].price = more[j].price
    BY <1>5 DEF Repriced
  <2>2. ~Repriced(lines)
    BY <1>1, <2>1 DEF Repriced
  <2>3. ASSUME NEW k \in DOMAIN items, SameItem(items[k], x)
        PROVE  items[k].price = x.price
    <3>1. PICK j \in DOMAIN lines : lines[j].ref = items[k].ref /\ lines[j].price = items[k].price
      BY <2>3 DEF Merged, SameItem
    <3>2. more[j].ref = x.ref /\ more[j].price = items[k].price
      BY <1>1, <2>3, <3>1 DEF SameItem
    <3> QED  BY <1>1, <2>1, <3>1, <3>2
  <2> QED  BY <2>2, <2>3
<1>6. ~Repriced(more) => TotalAmount(added) = TotalAmount(more)
  <2> SUFFICES ASSUME ~Repriced(more) PROVE TotalAmount(added) = TotalAmount(more)
    OBVIOUS
  <2>1. TotalAmount(items) = TotalAmount(lines)
    BY <1>5 DEF Merged
  <2>2. TotalAmount(added) = TotalAmount(items) + Subtotal(x)
    BY <1>4, <1>5, TotalAdded
  <2> QED  BY <1>3, <2>1, <2>2
<1> HIDE DEF added, more
<1>7. ASSUME NEW k \in DOMAIN added, ~added[k].deleted
      PROVE  \E j \in DOMAIN more : more[j].ref = added[k].ref /\ more[j].price = added[k].price
  <2>1. CASE k \in DOMAIN items
    BY <1>1, <1>2, <1>7, <2>1 DEF Merged
  <2>2. CASE k \notin DOMAIN items
    BY <1>1, <1>2, <1>7, <2>2
  <2> QED  BY <2>1, <2>2
<1>8. ASSUME NEW k \in DOMAIN added, NEW l \in DOMAIN added,
             ~added[k].deleted, ~added[l].deleted,
             added[k].ref = added[l].ref, added[k].text = added[l].text
      PROVE  k = l
  <2>1. CASE k \in DOMAIN items /\ l \in DOMAIN items
    BY <1>2, <1>8, <2>1 DEF Merged
  <2>2. CASE k \notin DOMAIN items /\ l \in DOMAIN items
    BY <1>2, <1>8, <2>2 DEF SameItem
  <2>3. CASE k \in DOMAIN items /\ l \notin DOMAIN items
    BY <1>2, <1>8, <2>3 DEF SameItem
  <2>4. CASE k \notin DOMAIN items /\ l \notin DOMAIN items
    BY <1>2, <2>4
  <2> QED  BY <2>1, <2>2, <2>3, <2>4
<1>9. Merged(added, more)
  BY <1>6, <1>7, <1>8 DEF Merged
<1> QED  BY <1>9 DEF added, more

\* A session whose lines are merged leaves the others as they are.
LEMMA SessionMerged ==
  ASSUME TypeInv, MergedInv, NEW s \in Sessions, NEW r, SetsSession(s, r),
         r.pc = "lines" => Merged(r.next, r.lines)
  PROVE  MergedInv'
<1>1. ASSUME NEW t \in Sessions, session'[t].pc = "lines"
      PROVE  Merged(session'[t].next, session'[t].lines)
  <2>1. session'[t] = IF t = s THEN r ELSE session[t]
    BY DEF SetsSession, TypeInv
  <2> QED  BY <1>1, <2>1 DEF MergedInv
<1> QED  BY <1>1 DEF MergedInv, Merged, TotalAmount, Repriced

LEMMA InitMergedInv == Init => MergedInv
BY DEF Init, MergedInv, Idle

LEMMA NextMergedInv ==
  ASSUME IInv, MergedInv, [Next]_vars
  PROVE  MergedInv'
<1>1. ASSUME UNCHANGED session PROVE MergedInv'
  <2>1. ASSUME NEW s \in Sessions, session'[s].pc = "lines"
        PROVE  Merged(session'[s].next, session'[s].lines)
    BY <1>1, <2>1 DEF MergedInv
  <2> QED  BY <2>1 DEF MergedInv, Merged, TotalAmount, Repriced
<1>2. ASSUME NEW s \in Sessions, LoadForUpdate(s) \/ LoadForOther(s)
      PROVE  MergedInv'
  <2>1. PICK items \in Loaded, r \in Session :
          /\ SetsSession(s, r) /\ r.lines = <<>> /\ DOMAIN r.next = DOMAIN items
          /\ r.pc = "lines" => \A k \in DOMAIN items : r.next[k].deleted
    <3>1. PICK items \in Loaded, r \in Session :
           /\ SetsSession(s, r)
           /\ r.loaded = items /\ r.lines = <<>>
           /\ DOMAIN r.next = DOMAIN items
           /\ \/ r.pc = "lines" /\ \A k \in DOMAIN items : r.next[k].deleted
              \/ r.pc = "save" /\ r.next = items
      BY <1>2, LoadSets DEF IInv
    <3> QED  BY <3>1
  <2>2. r.next \in Seq(Item)
    BY DEF Session
  <2>3. r.pc = "lines" => Merged(r.next, r.lines)
    BY <2>1, <2>2, NothingMerged
  <2> QED  BY <2>1, <2>3, SessionMerged DEF IInv
<1>3. ASSUME NEW s \in Sessions, NEW ref \in References, NEW text \in Spellings,
             NEW quantity \in Quantities, AddLine(s, ref, text, quantity)
      PROVE  MergedInv'
  <2>1. PICK x \in Item, r \in Session :
          /\ x = NewServiceOrderItem(ref, text, quantity, catalogue[ref])
          /\ session[s].pc = "lines" /\ SetsSession(s, r)
          /\ r.next = AddItem(session[s].next, x) /\ r.lines = Append(session[s].lines, x)
    BY <1>3, AddLineSets DEF IInv
  <2>2. ~x.deleted
    BY <2>1 DEF NewServiceOrderItem
  <2>3. PICK items \in Seq(Item), lines \in Seq(Item) :
          items = session[s].next /\ lines = session[s].lines /\ Merged(items, lines)
    BY <2>1 DEF IInv, TypeInv, MergedInv, Session
  <2>4. Merged(r.next, r.lines)
    BY <2>1, <2>2, <2>3, LineMerged
  <2> QED  BY <2>1, <2>4, SessionMerged DEF IInv
<1>4. ASSUME NEW s \in Sessions, SaveHistory(s)
      PROVE  MergedInv'
  <2>1. PICK r \in Session : SetsSession(s, r) /\ r.pc = "save"
    BY <1>4, SaveHistorySets DEF IInv
  <2> QED  BY <2>1, SessionMerged DEF IInv
<1>5. ASSUME NEW s \in Sessions, SaveOrder(s) \/ Abandon(s)
      PROVE  MergedInv'
  <2>1. SetsSession(s, Idle) /\ Idle.pc = "idle"
    <3>1. session' = [session EXCEPT ![s] = Idle]
      BY <1>5 DEF SaveOrder, Abandon
    <3> QED  BY <3>1, IdleIsKnown DEF SetsSession, Idle
  <2> QED  BY <2>1, SessionMerged DEF IInv
<1>6. CASE UNCHANGED vars
  BY <1>1, <1>6 DEF vars
<1>7. ASSUME NEW ref \in References, NEW price \in Prices, CatalogueChanges(ref, price)
      PROVE  MergedInv'
  BY <1>1, <1>7 DEF CatalogueChanges
<1> QED  BY <1>2, <1>3, <1>4, <1>5, <1>6, <1>7 DEF Next

\* While a request's lines are merged, what the order is about to hold costs
\* what the lines do, unless the catalogue repriced one thing between two of
\* them: for any lines, however many of them name the same thing and however
\* they spell it.
THEOREM AmountIsKept == Spec => []AmountKept
<1>1. IInv /\ MergedInv /\ [Next]_vars => MergedInv'
  BY NextMergedInv
<1>2. MergedInv => AmountKept
  BY DEF MergedInv, Merged, AmountKept
<1> QED  BY <1>1, <1>2, InitMergedInv, ItemsInvariant, PTL DEF Spec

-----------------------------------------------------------------------------
(* What an entry says of the items *)

\* What string(rune(n)) writes as n: the code points that are no surrogates.
CodePoint == {n \in Nat : n <= 1114111 /\ n \notin 55296..57343}

LEMMA RuneInjective ==
  ASSUME NEW m \in CodePoint, NEW n \in CodePoint, Rune(m) = Rune(n)
  PROVE  m = n
BY SMTT(30) DEF CodePoint, Rune

\* Every price and quantity of the list is written as itself.
Faithful(items) == \A k \in DOMAIN items : items[k].price \in CodePoint /\ items[k].quantity \in CodePoint

\* What an item contributes to the content.
Part(x) == <<x.ref, x.quantity, x.price>>

LEMMA SignatureIsPart ==
  ASSUME Spellings \subseteq {"canonical"}, NEW x \in Item, NEW y \in Item,
         x.price \in CodePoint, x.quantity \in CodePoint,
         y.price \in CodePoint, y.quantity \in CodePoint
  PROVE  BuildItemSignature(x) = BuildItemSignature(y) <=> Part(x) = Part(y)
<1>1. x.text = "canonical" /\ y.text = "canonical"
  BY DEF Item
<1>2. CASE BuildItemSignature(x) = BuildItemSignature(y)
  <2>1. x.ref = y.ref /\ Rune(x.quantity) = Rune(y.quantity) /\ Rune(x.price) = Rune(y.price)
    BY <1>2 DEF BuildItemSignature
  <2>2. x.quantity = y.quantity /\ x.price = y.price
    BY <2>1, RuneInjective
  <2> QED  BY <1>2, <2>1, <2>2 DEF Part
<1>3. CASE Part(x) = Part(y)
  BY <1>1, <1>3 DEF Part, BuildItemSignature
<1> QED  BY <1>2, <1>3

LEMMA ContentCounted ==
  ASSUME NEW items \in Seq(Item), Clean(items)
  PROVE  /\ IsFiniteSet(FilterActive(items)) /\ IsFiniteSet(Content(items))
         /\ Cardinality(Content(items)) = Cardinality(FilterActive(items))
<1> DEFINE S == FilterActive(items)
           T == Content(items)
           f == [k \in S |-> Part(items[k])]
<1>1. IsFiniteSet(S)
  <2>1. Len(items) \in Nat /\ S \subseteq 1..Len(items)
    BY DEF FilterActive
  <2>2. IsFiniteSet(1..Len(items))
    <3>1. 1 \in Int /\ Len(items) \in Int
      BY <2>1
    <3> QED  BY <3>1, FS_Interval
  <2> QED  BY <2>1, <2>2, FS_Subset
<1>2. \A k \in S : f[k] \in T
  BY DEF Content, Part
<1>3. \A t \in T : \E k \in S : f[k] = t
  BY DEF Content, Part
<1>4. \A k, l \in S : f[k] = f[l] => k = l
  BY DEF Part, Clean, FilterActive
<1> HIDE DEF S, T
<1>5. ExistsBijection(S, T)
  <2>1. f \in [S -> T]
    BY <1>2
  <2> HIDE DEF f
  <2>2. f \in Bijection(S, T)
    BY <1>3, <1>4, <2>1 DEF Bijection, Injection, Surjection, IsInjective
  <2> QED  BY <2>2 DEF ExistsBijection
<1>6. IsFiniteSet(T) /\ Cardinality(T) = Cardinality(S)
  BY <1>1, <1>5, FS_Bijection
<1> QED  BY <1>1, <1>6 DEF S, T

\* Equal numbers, and a signature of the old items for each of the new ones,
\* are the same content: lists without duplicates, of things that are told
\* apart, need no comparison the other way round.
LEMMA ChangesSeen ==
  ASSUME Spellings \subseteq {"canonical"},
         NEW old \in Seq(Item), NEW new \in Seq(Item), Clean(old), Clean(new),
         Faithful(old), Faithful(new)
  PROVE  HasItemsChanged(old, new) <=> Content(old) # Content(new)
<1> DEFINE O == FilterActive(old)
           N == FilterActive(new)
<1>1. /\ IsFiniteSet(Content(old)) /\ Cardinality(Content(old)) = Cardinality(O)
      /\ Cardinality(Content(new)) = Cardinality(N)
  BY ContentCounted
<1>2. /\ Content(old) = {Part(old[k]) : k \in O}
      /\ Content(new) = {Part(new[k]) : k \in N}
  BY DEF Content, Part
<1>3. \A i \in N, j \in O :
        BuildItemSignature(old[j]) = BuildItemSignature(new[i]) <=> Part(old[j]) = Part(new[i])
  <2>1. /\ \A j \in O : old[j] \in Item /\ old[j].price \in CodePoint /\ old[j].quantity \in CodePoint
        /\ \A i \in N : new[i] \in Item /\ new[i].price \in CodePoint /\ new[i].quantity \in CodePoint
    BY DEF FilterActive, Faithful
  <2> QED  BY <2>1, SignatureIsPart
<1>4. HasItemsChanged(old, new) <=>
        \/ Cardinality(O) # Cardinality(N)
        \/ \E i \in N : \A j \in O : Part(old[j]) # Part(new[i])
  BY <1>3 DEF HasItemsChanged
<1> HIDE DEF O, N
<1>5. ASSUME Content(old) = Content(new) PROVE ~HasItemsChanged(old, new)
  <2>1. Cardinality(O) = Cardinality(N)
    BY <1>1, <1>5
  <2>2. \A i \in N : \E j \in O : Part(old[j]) = Part(new[i])
    BY <1>2, <1>5
  <2> QED  BY <1>4, <2>1, <2>2
<1>6. ASSUME ~HasItemsChanged(old, new) PROVE Content(old) = Content(new)
  <2>1. Content(new) \subseteq Content(old)
    BY <1>2, <1>4, <1>6
  <2>2. Cardinality(Content(new)) = Cardinality(Content(old))
    BY <1>1, <1>4, <1>6
  <2> QED  BY <1>1, <2>1, <2>2, FS_Subset
<1> QED  BY <1>5, <1>6

\* Prices are the catalogue's; no line asks for more than M.
Small(items, most) ==
  \A k \in DOMAIN items : items[k].price \in Prices /\ items[k].quantity <= most

\* A session merges at most MaxLines lines into an item, and what it loaded
\* has each reference once.
SmallSession(a, M) ==
  /\ Small(a.next, M * MaxLines) /\ Small(a.loaded, M * MaxLines) /\ Clean(a.loaded)
  /\ a.pc = "lines" =>
       /\ Len(a.lines) <= MaxLines
       /\ \A k \in DOMAIN a.next :
            ~a.next[k].deleted => a.next[k].quantity <= M * Len(a.lines)

SmallInv(M) ==
  /\ \A i \in Ids : table[i].price \in Prices /\ table[i].quantity <= M * MaxLines
  /\ \A s \in Sessions : SmallSession(session[s], M)

LEMMA Times ==
  ASSUME NEW M \in Nat, NEW n \in Nat, NEW most \in Nat, n <= most
  PROVE  /\ M * n \in Nat /\ M * n <= M * most
         /\ M * (n + 1) = M * n + M
OBVIOUS

LEMMA IdleIsSmall ==
  ASSUME NEW M
  PROVE  SmallSession(Idle, M)
BY DEF Idle, SmallSession, Small, Clean

LEMMA LoadedIsSmall ==
  ASSUME TypeInv, OneItemPerReference, NEW M, SmallInv(M), NEW s \in Sessions,
         LoadForUpdate(s) \/ LoadForOther(s)
  PROVE  \E r \in Session : SetsSession(s, r) /\ SmallSession(r, M)
<1>1. PICK items \in Loaded, r \in Session :
         /\ SetsSession(s, r)
         /\ r.loaded = items /\ r.lines = <<>>
         /\ DOMAIN r.next = DOMAIN items
         /\ \A k \in DOMAIN items : /\ r.next[k].id = items[k].id
                                    /\ r.next[k].history = items[k].history
                                    /\ r.next[k].price = items[k].price
                                    /\ r.next[k].quantity = items[k].quantity
         /\ \/ r.pc = "lines" /\ \A k \in DOMAIN items : r.next[k].deleted
            \/ r.pc = "save" /\ r.next = items
  BY LoadSets, Zenon
<1>2. \A k \in DOMAIN items : items[k].id \in Ids /\ items[k] = table[items[k].id]
  BY LoadedItems DEF TypeInv
<1>3. Small(items, M * MaxLines)
  BY <1>2 DEF Small, SmallInv
<1>4. Clean(items)
  BY LoadedIsClean
<1>5. Small(r.next, M * MaxLines) /\ Small(r.loaded, M * MaxLines) /\ Clean(r.loaded)
  BY <1>1, <1>3, <1>4 DEF Small
<1>6. r.pc = "lines" => /\ Len(r.lines) <= MaxLines
                        /\ \A k \in DOMAIN r.next : r.next[k].deleted
  BY <1>1, Bounds
<1> QED  BY <1>1, <1>5, <1>6 DEF SmallSession

LEMMA AddedIsSmall ==
  ASSUME TypeInv, NEW M \in Nat, Quantities \subseteq 0..M, SmallInv(M),
         NEW s \in Sessions, NEW ref \in References, NEW text \in Spellings,
         NEW quantity \in Quantities, AddLine(s, ref, text, quantity)
  PROVE  \E r \in Session : SetsSession(s, r) /\ SmallSession(r, M)
<1>1. PICK x \in Item, r \in Session :
           /\ x = NewServiceOrderItem(ref, text, quantity, catalogue[ref])
           /\ session[s].pc = "lines" /\ SetsSession(s, r)
           /\ r.pc = "lines" /\ r.loaded = session[s].loaded
           /\ r.next = AddItem(session[s].next, x)
           /\ r.lines = Append(session[s].lines, x)
           /\ Len(session[s].lines) < MaxLines
  BY AddLineSets
<1>2. x.price \in Prices /\ x.quantity \in 0..M
  BY <1>1 DEF NewServiceOrderItem, TypeInv
<1>3. PICK items \in Seq(Item), lines \in Seq(Item) :
        /\ items = session[s].next /\ lines = session[s].lines
        /\ SmallSession(session[s], M)
  BY DEF TypeInv, SmallInv, Session
<1>4. PICK n \in Nat : n = Len(lines) /\ n < MaxLines
  BY <1>1, <1>3
<1>5. /\ M * n \in Nat /\ M * (n + 1) = M * n + M
      /\ M * n <= M * MaxLines /\ M * (n + 1) <= M * MaxLines /\ M * MaxLines \in Nat
  <2>1. MaxLines \in Nat /\ n <= MaxLines /\ n + 1 <= MaxLines /\ n + 1 \in Nat
    BY <1>4, Bounds
  <2> QED  BY <2>1, Times
<1>6. /\ Small(items, M * MaxLines)
      /\ \A k \in DOMAIN items : ~items[k].deleted => items[k].quantity <= M * n
      /\ Small(session[s].loaded, M * MaxLines) /\ Clean(session[s].loaded)
  BY <1>1, <1>3, <1>4 DEF SmallSession
<1> DEFINE added == AddItem(items, x)
<1>7. \A k \in DOMAIN items :
        /\ added[k].price = items[k].price
        /\ added[k].quantity \in {items[k].quantity, items[k].quantity + x.quantity}
        /\ added[k].deleted = items[k].deleted
        /\ items[k].deleted => added[k] = items[k]
  BY AddedItem
<1>8. \A k \in DOMAIN added : k \notin DOMAIN items => added[k] = x
  BY AddedItem
<1>9. \A k \in DOMAIN items : items[k].quantity \in Nat
  <2>1. \A k \in DOMAIN items : items[k] \in Item
    OBVIOUS
  <2> QED  BY <2>1 DEF Item
<1> DEFINE past == M * n
           now == M * (n + 1)
           most == M * MaxLines
<1>10. past \in Nat /\ now = past + M /\ past <= most /\ now <= most /\ most \in Nat
  BY <1>5
<1> HIDE DEF added
<1>11. ASSUME NEW k \in DOMAIN added
       PROVE  /\ added[k].price \in Prices /\ added[k].quantity <= most
              /\ ~added[k].deleted => added[k].quantity <= now
  <2>1. CASE k \notin DOMAIN items
    <3>1. added[k] = x
      BY <1>8, <2>1
    <3> HIDE DEF past, now, most
    <3> QED  BY <1>2, <1>10, <3>1
  <2>2. CASE k \in DOMAIN items /\ items[k].deleted
    BY <1>6, <1>7, <2>2 DEF Small
  <2>3. CASE k \in DOMAIN items /\ ~items[k].deleted
    <3>1. items[k].quantity <= past /\ items[k].price \in Prices
      BY <1>6, <2>3 DEF Small
    <3> HIDE DEF past, now, most
    <3>2. added[k].quantity <= now
      BY <1>2, <1>7, <1>9, <1>10, <2>3, <3>1
    <3>3. added[k].quantity \in Nat
      BY <1>2, <1>7, <1>9, <2>3
    <3> QED  BY <1>7, <1>10, <2>3, <3>1, <3>2, <3>3
  <2> QED  BY <2>1, <2>2, <2>3
<1>12. r.next = added /\ Len(r.lines) = n + 1 /\ Len(r.lines) <= MaxLines
  BY <1>1, <1>3, <1>4, Bounds DEF added
<1>13. SmallSession(r, M)
  BY <1>1, <1>6, <1>11, <1>12 DEF SmallSession, Small
<1> QED  BY <1>1, <1>13

LEMMA SavedIsSmall ==
  ASSUME TypeInv, KnownInv, NEW M, SmallInv(M), NEW s \in Sessions, SaveOrder(s)
  PROVE  SmallInv(M)'
<1>1. PICK items \in Seq(Item) :
        items = session[s].next /\ Known(items) /\ Small(items, M * MaxLines)
  BY DEF TypeInv, KnownInv, SmallInv, SmallSession, Session
<1>2. PICK listed \in Seq(Item) :
           /\ \A k \in DOMAIN items :
                listed[k].quantity = items[k].quantity /\ listed[k].price = items[k].price
           /\ \A i \in Ids' :
                \/ \E k \in DOMAIN items : listed[k].id = i /\ table'[i] = listed[k]
                \/ i \in Ids /\ table'[i] = RemoveItem(table[i])
  BY <1>1, SavedRows DEF SaveOrder
<1>3. ASSUME NEW i \in Ids'
      PROVE  table'[i].price \in Prices /\ table'[i].quantity <= M * MaxLines
  <2>1. CASE \E k \in DOMAIN items : table'[i] = listed[k]
    BY <1>1, <1>2, <2>1 DEF Small
  <2>2. CASE i \in Ids /\ table'[i] = RemoveItem(table[i])
    <3>1. table[i] \in Item
      BY <2>2 DEF TypeInv, TableInv
    <3>2. table'[i].price = table[i].price /\ table'[i].quantity = table[i].quantity
      BY <2>2, <3>1, RemovedItem
    <3> QED  BY <2>2, <3>2 DEF SmallInv
  <2> QED  BY <1>2, <2>1, <2>2
<1>4. ASSUME NEW t \in Sessions PROVE SmallSession(session'[t], M)
  BY IdleIsSmall DEF SaveOrder, TypeInv, SmallInv
<1> QED  BY <1>3, <1>4 DEF SmallInv, SmallSession, Small, Clean, Ids

LEMMA SessionSmall ==
  ASSUME TypeInv, NEW M, SmallInv(M), UNCHANGED table,
         NEW s \in Sessions, NEW r, SetsSession(s, r), SmallSession(r, M)
  PROVE  SmallInv(M)'
<1>1. ASSUME NEW t \in Sessions PROVE SmallSession(session'[t], M)
  BY DEF SetsSession, TypeInv, SmallInv
<1> QED  BY <1>1 DEF SmallInv, SmallSession, Small, Clean, Ids

LEMMA LinkedIsSmall ==
  ASSUME TypeInv, NEW M, SmallInv(M), NEW s \in Sessions, SaveHistory(s)
  PROVE  \E r \in Session : SetsSession(s, r) /\ SmallSession(r, M)
<1>1. PICK r \in Session :
        /\ SetsSession(s, r) /\ r.pc = "save" /\ r.loaded = session[s].loaded
        /\ r.next = Linked(session[s].next, Len(history) + 1)
  BY SaveHistorySets
<1>2. PICK items \in Seq(Item) : items = session[s].next /\ SmallSession(session[s], M)
  BY DEF TypeInv, SmallInv, Session
<1>3. /\ DOMAIN r.next = DOMAIN items
      /\ \A k \in DOMAIN items :
           r.next[k].price = items[k].price /\ r.next[k].quantity = items[k].quantity
  <2>1. PICK entry \in Nat : r.next = Linked(items, entry)
    BY <1>1, <1>2 DEF TypeInv
  <2> QED  BY <2>1, LinkedItems
<1>4. SmallSession(r, M)
  BY <1>1, <1>2, <1>3 DEF SmallSession, Small
<1> QED  BY <1>1, <1>4

LEMMA InitSmallInv ==
  ASSUME NEW M
  PROVE  Init => SmallInv(M)
BY IdleIsSmall DEF Init, SmallInv, Ids

LEMMA NextSmallInv ==
  ASSUME NEW M \in Nat, Quantities \subseteq 0..M, IInv, OneInv, SmallInv(M), [Next]_vars
  PROVE  SmallInv(M)'
<1>1. ASSUME UNCHANGED <<table, session>> PROVE SmallInv(M)'
  BY <1>1 DEF SmallInv, SmallSession, Small, Clean, Ids
<1>2. ASSUME NEW ref \in References, NEW price \in Prices, CatalogueChanges(ref, price)
      PROVE  SmallInv(M)'
  BY <1>1, <1>2 DEF CatalogueChanges
<1>3. ASSUME NEW s \in Sessions, LoadForUpdate(s) \/ LoadForOther(s)
      PROVE  SmallInv(M)'
  <2>1. PICK r \in Session : SetsSession(s, r) /\ SmallSession(r, M)
    BY <1>3, LoadedIsSmall DEF IInv, OneInv
  <2>2. UNCHANGED table
    BY <1>3 DEF LoadForUpdate, LoadForOther
  <2> QED  BY <2>1, <2>2, SessionSmall DEF IInv
<1>4. ASSUME NEW s \in Sessions, NEW ref \in References, NEW text \in Spellings,
             NEW quantity \in Quantities, AddLine(s, ref, text, quantity)
      PROVE  SmallInv(M)'
  <2>1. PICK r \in Session : SetsSession(s, r) /\ SmallSession(r, M)
    BY <1>4, AddedIsSmall DEF IInv
  <2>2. UNCHANGED table
    BY <1>4 DEF AddLine
  <2> QED  BY <2>1, <2>2, SessionSmall DEF IInv
<1>5. ASSUME NEW s \in Sessions, SaveHistory(s)
      PROVE  SmallInv(M)'
  <2>1. PICK r \in Session : SetsSession(s, r) /\ SmallSession(r, M)
    BY <1>5, LinkedIsSmall DEF IInv
  <2>2. UNCHANGED table
    BY <1>5 DEF SaveHistory
  <2> QED  BY <2>1, <2>2, SessionSmall DEF IInv
<1>6. ASSUME NEW s \in Sessions, SaveOrder(s)
      PROVE  SmallInv(M)'
  BY <1>6, SavedIsSmall DEF IInv
<1>7. ASSUME NEW s \in Sessions, Abandon(s)
      PROVE  SmallInv(M)'
  BY <1>7, IdleIsKnown, IdleIsSmall, SessionSmall DEF Abandon, SetsSession, IInv
<1>8. CASE UNCHANGED vars
  BY <1>1, <1>8 DEF vars
<1> QED  BY <1>2, <1>3, <1>4, <1>5, <1>6, <1>7, <1>8 DEF Next

\* The entry of an update says items_changed exactly when the content differs,
\* whatever handlers interleave, as long as a character holds every price and
\* every merged quantity: prices that are code points and no surrogates, and
\* no request with lines enough to add up to a surrogate.
THEOREM ChangesAreMarked ==
  ASSUME Spellings \subseteq {"canonical"}, Prices \subseteq CodePoint,
         NEW M \in Nat, Quantities \subseteq 0..M, 0..(M * MaxLines) \subseteq CodePoint
  PROVE  Spec => ChangesMarked
<1> DEFINE Step == \A s \in Sessions : session[s].pc = "lines" /\ session'[s].pc = "save" =>
             (Last(history') <=> Content(session[s].loaded) # Content(session[s].next))
<1>1. IInv /\ OneInv /\ SmallInv(M) /\ [Next]_vars => OneInv' /\ SmallInv(M)'
  BY NextOneInv, NextSmallInv
<1>2. ASSUME IInv, OneInv, SmallInv(M), [Next]_vars
      PROVE  Step
  <2> SUFFICES ASSUME NEW s \in Sessions, session[s].pc = "lines", session'[s].pc = "save"
               PROVE  Last(history') <=> Content(session[s].loaded) # Content(session[s].next)
    OBVIOUS
  <2>1. SaveHistory(s)
    <3>1. session'[s] # session[s] /\ session'[s].pc # "lines" /\ session'[s].pc # "idle"
      OBVIOUS
    <3>2. ASSUME NEW t \in Sessions, NEW r, session' = [session EXCEPT ![t] = r]
          PROVE  t = s /\ session'[s] = r
      BY <1>2, <3>1, <3>2 DEF IInv, TypeInv
    <3>3. ASSUME NEW t \in Sessions, LoadForUpdate(t) \/ LoadForOther(t)
          PROVE  FALSE
      <4>1. PICK r : session' = [session EXCEPT ![t] = r]
        BY <3>3 DEF LoadForUpdate, LoadForOther
      <4>2. session[t].pc = "idle" /\ t = s
        BY <3>2, <3>3, <4>1 DEF LoadForUpdate, LoadForOther
      <4> QED  BY <4>2
    <3>4. ASSUME NEW t \in Sessions, NEW ref \in References, NEW text \in Spellings,
                 NEW quantity \in Quantities, AddLine(t, ref, text, quantity)
          PROVE  FALSE
      <4>1. PICK r : SetsSession(t, r) /\ r.pc = "lines"
        BY <1>2, <3>4, AddLineSets DEF IInv
      <4>2. session' = [session EXCEPT ![t] = r]
        BY <4>1 DEF SetsSession
      <4>3. session'[s] = r
        BY <3>2, <4>2
      <4> QED  BY <3>1, <4>1, <4>3
    <3>5. ASSUME NEW t \in Sessions, SaveOrder(t) \/ Abandon(t)
          PROVE  FALSE
      <4>1. session' = [session EXCEPT ![t] = Idle]
        BY <3>5 DEF SaveOrder, Abandon
      <4>2. session'[s] = Idle
        BY <3>2, <4>1
      <4>3. Idle.pc = "idle"
        BY DEF Idle
      <4> QED  BY <3>1, <4>2, <4>3
    <3>6. ASSUME NEW t \in Sessions, SaveHistory(t)
          PROVE  SaveHistory(s)
      <4>1. PICK r \in Session : SetsSession(t, r)
        BY <1>2, <3>6, SaveHistorySets DEF IInv
      <4>2. t = s
        BY <3>2, <4>1 DEF SetsSession
      <4> QED  BY <3>6, <4>2
    <3>7. session' # session
      BY <3>1
    <3> QED  BY <1>2, <3>3, <3>4, <3>5, <3>6, <3>7 DEF Next, CatalogueChanges, vars
  <2>2. PICK old \in Seq(Item), new \in Seq(Item) :
          /\ old = session[s].loaded /\ new = session[s].next
          /\ Clean(old) /\ Clean(new)
          /\ Small(old, M * MaxLines) /\ Small(new, M * MaxLines)
    BY <1>2 DEF IInv, TypeInv, Session, OneInv, CleanInv, SmallInv, SmallSession
  <2>3. Faithful(old) /\ Faithful(new)
    <3>1. PICK most \in Nat : most = M * MaxLines
      BY Bounds, Times
    <3>2. ASSUME NEW n \in Nat, n <= most PROVE n \in CodePoint
      BY <3>1, <3>2
    <3>3. \A k \in DOMAIN old : old[k].quantity \in Nat
      <4>1. \A k \in DOMAIN old : old[k] \in Item
        OBVIOUS
      <4> QED  BY <4>1 DEF Item
    <3>4. \A k \in DOMAIN new : new[k].quantity \in Nat
      <4>1. \A k \in DOMAIN new : new[k] \in Item
        OBVIOUS
      <4> QED  BY <4>1 DEF Item
    <3> QED  BY <2>2, <3>1, <3>2, <3>3, <3>4 DEF Small, Faithful
  <2>4. HasItemsChanged(old, new) <=> Content(old) # Content(new)
    BY <2>2, <2>3, ChangesSeen
  <2>5. Last(history') = HasItemsChanged(old, new)
    <3>1. history' = Append(history, HasItemsChanged(old, new)) /\ history \in Seq(BOOLEAN)
      BY <1>2, <2>1, <2>2 DEF SaveHistory, IInv, TypeInv
    <3> DEFINE b == HasItemsChanged(old, new)
    <3> HIDE DEF b
    <3>2. Append(history, b)[Len(Append(history, b))] = b
      BY <3>1
    <3> QED  BY <3>1, <3>2 DEF Last, b
  <2> QED  BY <2>2, <2>4, <2>5
<1>3. Init => SmallInv(M)
  BY InitSmallInv
<1> HIDE DEF Step
<1>4. Spec => [][Step]_vars
  BY <1>1, <1>2, <1>3, InitOneInv, ItemsInvariant, PTL DEF Spec
<1> QED  BY <1>4 DEF ChangesMarked, Step
=============================================================================
