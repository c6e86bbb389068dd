----------------------------- MODULE OrderItems -----------------------------
(***************************************************************************)
(* The items of one order: the aggregate's rules for adding and removing   *)
(* them, the update use case that replaces them all, the history entry it  *)
(* writes and links the replaced items to, and the repository, which makes *)
(* the items table agree with the list the writer holds.                   *)
(*                                                                         *)
(* An item refers to a product or a service of the catalogue (a member of  *)
(* References stands for its type, reference id and name) and keeps the    *)
(* price the catalogue had.  Sessions are executions of handlers: they     *)
(* load, look up and merge the lines of a request, save the history, save  *)
(* the order, and may stop in between.                                     *)
(***************************************************************************)
EXTENDS Naturals, Sequences, SequencesExt, FiniteSets

CONSTANTS
  References,
  Spellings,      \* how a request may write the same reference id
  Prices,         \* what the catalogue may charge, in cents
  Quantities,     \* what a request may ask for
  Sessions,
  MaxLines,       \* bound: lines of a request
  MaxItems,       \* bound: rows of the items table
  MaxEntries      \* bound: entries of the history

\* A rune is an int32.
MaxInt32 == 2147483647

ASSUME ItemsAssumption ==
  /\ Spellings \subseteq {"canonical", "respelt"}
  /\ Prices \subseteq 0..MaxInt32 /\ Quantities \subseteq 0..MaxInt32
  /\ MaxLines \in Nat /\ MaxItems \in Nat /\ MaxEntries \in Nat

VARIABLES
  catalogue,  \* the price of each reference, kept by the catalogue service
  table,      \* service_order_items, by id
  history,    \* the entries of the order: whether each says items_changed
  session     \* what each session holds

vars == <<catalogue, table, history, session>>

NoId == 0

Item == [id : Nat, ref : References, text : Spellings \cup {"canonical"}, quantity : Nat,
         price : Nat, history : Nat, deleted : BOOLEAN]

-----------------------------------------------------------------------------
(* The aggregate: its items are a sequence *)

NewServiceOrderItem(ref, text, quantity, price) ==
  [id |-> NoId, ref |-> ref, text |-> text, quantity |-> quantity,
   price |-> price, history |-> NoId, deleted |-> FALSE]

\* NewServiceOrderItem refuses any other.
ValidItem(x) == x.quantity > 0 /\ x.price > 0

\* Where in the list the active items are.
FilterActive(items) == {k \in DOMAIN items : ~items[k].deleted}

\* The reference ids are compared as they are written.
SameItem(x, y) == ~x.deleted /\ x.ref = y.ref /\ x.text = y.text

\* Mutant: the quantity of the item the order has already is replaced.
AddItemReplacing(items, x) ==
  IF \E i \in DOMAIN items : SameItem(items[i], x)
    THEN [i \in DOMAIN items |->
            IF SameItem(items[i], x) THEN [items[i] EXCEPT !.quantity = x.quantity] ELSE items[i]]
    ELSE Append(items, x)

\* Adding an item the order has already adds its quantity to it.
AddItem(items, x) ==
  IF \E i \in DOMAIN items : SameItem(items[i], x)
    THEN [i \in DOMAIN items |->
            IF SameItem(items[i], x)
              THEN [items[i] EXCEPT !.quantity = @ + x.quantity] ELSE items[i]]
    ELSE Append(items, x)

RemoveItem(x) == [x EXCEPT !.deleted = TRUE]

Subtotal(x) == x.quantity * x.price

TotalAmount(items) ==
  LET total[n \in 0..Len(items)] ==
        IF n = 0 THEN 0
                 ELSE total[n - 1] + (IF items[n].deleted THEN 0 ELSE Subtotal(items[n]))
  IN total[Len(items)]

\* string(rune(n)): a code point, or U+FFFD for what is none.
Rune(n) == IF n > 1114111 \/ n \in 55296..57343 THEN 65533 ELSE n

\* Mutant: the price is not part of the content.
SignatureWithoutPrice(x) == <<x.ref, x.text, Rune(x.quantity)>>

BuildItemSignature(x) == <<x.ref, x.text, Rune(x.quantity), Rune(x.price)>>

HasItemsChanged(old, new) ==
  \/ Cardinality(FilterActive(old)) # Cardinality(FilterActive(new))
  \/ \E i \in FilterActive(new) :
       \A j \in FilterActive(old) : BuildItemSignature(old[j]) # BuildItemSignature(new[i])

-----------------------------------------------------------------------------
(* The repository *)

Ids == DOMAIN table

\* Preload reads the rows that are not deleted, in no order it names.
Loaded ==
  {[k \in DOMAIN ids |-> table[ids[k]]] : ids \in SetToSeqs({i \in Ids : ~table[i].deleted})}

\* Ids are UUIDs of version 7: each is above all before it.
Later == {i \in 1..MaxItems : \A j \in Ids : j < i}

\* An id for each item that has none, in the order of the list; that none is
\* skipped is for the bound.
NewIds(items) ==
  LET New == {k \in DOMAIN items : items[k].id = NoId}
  IN {ids \in [New -> Later] :
        /\ \A k, l \in New : k < l => ids[k] < ids[l]
        /\ \A k \in New, i \in Later : i < ids[k] => \E l \in New : ids[l] = i}

\* Mutant: the item does not learn its id.
WithIdsForgotten(items, ids) ==
  [k \in DOMAIN items |->
     IF items[k].id # NoId THEN items[k] ELSE [items[k] EXCEPT !.text = "canonical"]]

\* The id an item refers to is stored as a UUID, which has one spelling.
WithIds(items, ids) ==
  [k \in DOMAIN items |->
     IF items[k].id # NoId THEN items[k]
                           ELSE [items[k] EXCEPT !.text = "canonical", !.id = ids[k]]]

\* Mutant: rows the writer does not know stay as they are.
WriteListed(listed) ==
  [i \in Ids \cup {listed[k].id : k \in DOMAIN listed} |->
     IF \E k \in DOMAIN listed : listed[k].id = i
       THEN listed[CHOOSE k \in DOMAIN listed : listed[k].id = i]
       ELSE table[i]]

\* Rows the writer does not list are deleted, the others are what it holds,
\* even if they were deleted meanwhile.
Written(listed) ==
  [i \in Ids \cup {listed[k].id : k \in DOMAIN listed} |->
     IF \E k \in DOMAIN listed : listed[k].id = i
       THEN listed[CHOOSE k \in DOMAIN listed : listed[k].id = i]
       ELSE RemoveItem(table[i])]

SaveWithItems(items) ==
  \E ids \in NewIds(items) : table' = Written(WithIds(items, ids))

-----------------------------------------------------------------------------
Idle == [pc |-> "idle", loaded |-> <<>>, next |-> <<>>, lines |-> <<>>]

Init ==
  /\ catalogue \in [References -> Prices]
  /\ table = <<>>
  /\ history = <<>>
  /\ session = [s \in Sessions |-> Idle]

CatalogueChanges(ref, price) ==
  /\ catalogue' = [catalogue EXCEPT ![ref] = price]
  /\ UNCHANGED <<table, history, session>>

\* An update with items, of an order in RECEIVED or DIAGNOSING: every active
\* item goes, the lines of the request are added.
LoadForUpdate(s) ==
  /\ session[s].pc = "idle"
  /\ \E items \in Loaded :
       session' = [session EXCEPT ![s] =
         [pc |-> "lines", loaded |-> items,
          next |-> [k \in DOMAIN items |-> RemoveItem(items[k])], lines |-> <<>>]]
  /\ UNCHANGED <<catalogue, table, history>>

\* A line, with the price the catalogue answers.  The code looks all lines up
\* before it adds the first; that nobody sees.
AddLine(s, ref, text, quantity) ==
  LET x == NewServiceOrderItem(ref, text, quantity, catalogue[ref])
  IN /\ session[s].pc = "lines"
     /\ Len(session[s].lines) < MaxLines
     /\ ValidItem(x)
     /\ session' = [session EXCEPT ![s].next = AddItem(@, x), ![s].lines = Append(@, x)]
     /\ UNCHANGED <<catalogue, table, history>>

\* Any other handler: it loads the items with the order and saves them back.
LoadForOther(s) ==
  /\ session[s].pc = "idle"
  /\ \E items \in Loaded :
       session' = [session EXCEPT ![s] =
         [pc |-> "save", loaded |-> items, next |-> items, lines |-> <<>>]]
  /\ UNCHANGED <<catalogue, table, history>>

\* Mutant: the replaced items are not linked.
SaveHistoryUnlinked(s) ==
  /\ session[s].pc = "lines"
  /\ Len(history) < MaxEntries
  /\ history' = Append(history, HasItemsChanged(session[s].loaded, session[s].next))
  /\ session' = [session EXCEPT ![s] = [pc |-> "save", loaded |-> session[s].loaded,
       next |-> session[s].next, lines |-> <<>>]]
  /\ UNCHANGED <<catalogue, table>>

\* The replaced items name the entry.
Linked(items, entry) ==
  [k \in DOMAIN items |-> IF items[k].deleted /\ items[k].history = NoId
                            THEN [items[k] EXCEPT !.history = entry] ELSE items[k]]

\* The lines are all added: the entry, and its id in the items it replaces.
SaveHistory(s) ==
  /\ session[s].pc = "lines"
  /\ Len(history) < MaxEntries
  /\ history' = Append(history, HasItemsChanged(session[s].loaded, session[s].next))
  /\ session' = [session EXCEPT ![s] = [pc |-> "save", loaded |-> session[s].loaded,
       next |-> Linked(session[s].next, Len(history) + 1), lines |-> <<>>]]
  /\ UNCHANGED <<catalogue, table>>

SaveOrder(s) ==
  /\ session[s].pc = "save"
  /\ SaveWithItems(session[s].next)
  /\ session' = [session EXCEPT ![s] = Idle]
  /\ UNCHANGED <<catalogue, history>>

Abandon(s) ==
  /\ session[s].pc # "idle"
  /\ session' = [session EXCEPT ![s] = Idle]
  /\ UNCHANGED <<catalogue, table, history>>

Next ==
  \/ \E ref \in References, price \in Prices : CatalogueChanges(ref, price)
  \/ \E s \in Sessions :
       \/ LoadForUpdate(s) \/ LoadForOther(s)
       \/ \E ref \in References, text \in Spellings, quantity \in Quantities :
            AddLine(s, ref, text, quantity)
       \/ SaveHistory(s) \/ SaveOrder(s) \/ Abandon(s)

Spec == Init /\ [][Next]_vars

-----------------------------------------------------------------------------
Session == [pc : {"idle", "lines", "save"}, loaded : Seq(Item), next : Seq(Item),
            lines : Seq(Item)]

TypeOK ==
  /\ catalogue \in [References -> Prices]
  /\ table \in [Ids -> Item]
  /\ \A i \in Ids : i # NoId /\ table[i].id = i
  /\ history \in Seq(BOOLEAN)
  /\ session \in [Sessions -> Session]

(***************************************************************************)
(* Whatever sessions interleave and stop, the order never has two active   *)
(* items of one product or service, nor one without quantity: requests     *)
(* that name it twice are merged, and a writer's list replaces the table's *)
(* whole.  The stock service would reserve such a product twice.           *)
(***************************************************************************)
OneItemPerReference ==
  \A i, j \in Ids :
    ~table[i].deleted /\ ~table[j].deleted =>
      /\ table[i].ref = table[j].ref => i = j
      /\ ValidItem(table[i])

\* The catalogue changed a price between two lines of one reference.
Repriced(lines) ==
  \E i, j \in DOMAIN lines :
    lines[i].ref = lines[j].ref /\ lines[i].price # lines[j].price

(***************************************************************************)
(* Merging changes how the request is stored and never what it costs, be   *)
(* it that its lines were told different prices of one thing: then those   *)
(* merged cost what the first does.                                        *)
(***************************************************************************)
AmountKept ==
  \A s \in Sessions :
    session[s].pc = "lines" /\ ~Repriced(session[s].lines)
      => TotalAmount(session[s].next) = TotalAmount(session[s].lines)

(***************************************************************************)
(* An item that a save takes away names the history entry of its           *)
(* replacement ("ID do historico associado quando o item e substituido"),  *)
(* unless the session that saves had not seen the item: another one added  *)
(* it meanwhile, and it goes without a trace, as rows the writer does not  *)
(* list are deleted.                                                       *)
(***************************************************************************)
ReplacedItemsLinked ==
  [][\A i \in Ids :
       ~table[i].deleted /\ table'[i].deleted =>
         \/ table'[i].history \in DOMAIN history
         \/ \E s \in Sessions :
              /\ session[s].pc = "save" /\ session'[s].pc = "idle"
              /\ \A k \in DOMAIN session[s].loaded : session[s].loaded[k].id # i]_vars

Content(items) ==
  {<<items[k].ref, items[k].quantity, items[k].price>> : k \in FilterActive(items)}

(***************************************************************************)
(* An entry says items_changed exactly when the content of the order's     *)
(* items, as loaded, differs from what is about to be saved.               *)
(***************************************************************************)
ChangesMarked ==
  [][\A s \in Sessions : session[s].pc = "lines" /\ session'[s].pc = "save" =>
       (Last(history') <=> Content(session[s].loaded) # Content(session[s].next))]_vars
=============================================================================
