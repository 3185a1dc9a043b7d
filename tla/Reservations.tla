---------------------------- MODULE Reservations ----------------------------
(***************************************************************************)
(* The reservation half of the transactions of peers.py, as operators on   *)
(* one replica: what validation refuses, and what a commit, a tx_commit    *)
(* and a tx_abort make of the bookings.  No command of the prompt adds a   *)
(* reservation yet, so there is no state machine here; PinTransactions     *)
(* models the protocol that carries the operations.                        *)
(***************************************************************************)
EXTENDS Integers, TLAPS

CONSTANTS
  Station,  \* station identifiers
  Tx        \* transaction identifiers, drawn from new_id

\* An operation of a transaction; windows are whatever the caller gives.
Op == [station : Station, start : Int, end : Int]

\* reservations: for every station the windows and who booked them.  The code keeps lists
\* and appends to them; nothing reads their order, nor how often an entry is in one, so a
\* list is the set of its entries here.  The user, who goes with the transaction, is left out.
Entry == [start : Int, end : Int, tx : Tx]
Book == [Station -> SUBSET Entry]

\* an item of transactions
Transaction == [ops : SUBSET Op, status : {"active", "committed", "aborted"}]

\* add_reservation_op refuses when the transaction is over.
AddReservation(tx, op) ==
  IF tx.status = "active" THEN [tx EXCEPT !.ops = @ \union {op}] ELSE tx

TimesOverlap(w, v) == ~ (w.end <= v.start \/ v.end <= w.start)

\* validate_transaction, reserve: no window of another transaction is in the way
Valid(book, t, ops) ==
  \A op \in ops : \A x \in book[op.station] : TimesOverlap(op, x) => x.tx = t

Entries(t, ops, s) ==
  {[start |-> op.start, end |-> op.end, tx |-> t] : op \in {o \in ops : o.station = s}}

\* apply_transaction, reserve: every window is entered in its station's list
Apply(book, t, ops) == [s \in Station |-> book[s] \union Entries(t, ops, s)]

\* handle_tx_abort: the entries of the transaction go
RollBack(book, t) == [s \in Station |-> {x \in book[s] : x.tx # t}]

\* do_commit, inside the critical section: the bookings and the status after it
DoCommit(book, t, tx) ==
  CASE tx.status # "active"     -> [book |-> book, status |-> tx.status]
    [] ~ Valid(book, t, tx.ops) -> [book |-> book, status |-> "aborted"]
    [] OTHER -> [book |-> Apply(book, t, tx.ops), status |-> "committed"]

-----------------------------------------------------------------------------
(* What the operators promise. *)

\* No two transactions have booked a station for overlapping windows (the windows of one
\* transaction may overlap: validation compares them with those of others only).
KeptApart(book) ==
  \A s \in Station : \A x, y \in book[s] : x.tx # y.tx => ~ TimesOverlap(x, y)

\* The instants of a window, its end left out.
Instants(w) == {i \in Int : w.start <= i /\ i < w.end}

\* times_overlap says of two windows that last whether they share an instant: windows
\* that only touch do not.
THEOREM OverlapIsShared ==
  ASSUME NEW w, NEW v, w.start \in Int, w.end \in Int, v.start \in Int, v.end \in Int,
         w.start < w.end, v.start < v.end
  PROVE  TimesOverlap(w, v) <=> Instants(w) \intersect Instants(v) # {}
<1>1. ASSUME TimesOverlap(w, v) PROVE Instants(w) \intersect Instants(v) # {}
  <2>1. w.start < v.end /\ v.start < w.end
    BY <1>1 DEF TimesOverlap
  <2>2. CASE w.start <= v.start
    <3>1. v.start \in Instants(w) /\ v.start \in Instants(v)
      BY <2>1, <2>2 DEF Instants
    <3> QED
      BY <3>1
  <2>3. CASE v.start < w.start
    <3>1. w.start \in Instants(w) /\ w.start \in Instants(v)
      BY <2>1, <2>3 DEF Instants
    <3> QED
      BY <3>1
  <2> QED
    BY <2>2, <2>3
<1>2. ASSUME NEW i \in Instants(w) \intersect Instants(v) PROVE TimesOverlap(w, v)
  <2>1. i \in Int /\ w.start <= i /\ i < w.end /\ v.start <= i /\ i < v.end
    BY DEF Instants
  <2> QED
    BY <2>1 DEF TimesOverlap
<1> QED
  BY <1>1, <1>2

\* A commit leaves the bookings of different transactions apart.  It changes them only when
\* the transaction was active and is committed, and then books every window it asks for and
\* touches none of another transaction; one that is refused, or was over, changes nothing.
THEOREM CommitKeepsApart ==
  ASSUME NEW book \in Book, NEW t \in Tx, NEW tx \in Transaction, KeptApart(book),
         NEW after, after = DoCommit(book, t, tx)
  PROVE  /\ KeptApart(after.book)
         /\ \/ /\ tx.status = "active" /\ after.status = "committed"
               /\ \A op \in tx.ops :
                    [start |-> op.start, end |-> op.end, tx |-> t] \in after.book[op.station]
               /\ \A s \in Station :
                    {x \in after.book[s] : x.tx # t} = {x \in book[s] : x.tx # t}
            \/ after.book = book /\ (tx.status = "active" => after.status = "aborted")
<1> DEFINE new == Apply(book, t, tx.ops)
<1>1. ASSUME Valid(book, t, tx.ops) PROVE KeptApart(new)
  <2> SUFFICES ASSUME NEW s \in Station, NEW x \in new[s], NEW y \in new[s], x.tx # y.tx
               PROVE  ~ TimesOverlap(x, y)
    BY DEF KeptApart
  <2>1. \A z \in new[s] : z \in book[s] \/ z \in Entries(t, tx.ops, s)
    BY DEF Apply
  <2>2. \A z \in Entries(t, tx.ops, s) :
          /\ z.tx = t
          /\ \A b \in book[s] : b.tx # t => ~ TimesOverlap(z, b)
    BY <1>1 DEF Valid, Entries, TimesOverlap
  <2>3. \A a, b \in Entry : TimesOverlap(a, b) <=> TimesOverlap(b, a)
    BY DEF TimesOverlap
  <2>4. \A z \in new[s] : z \in Entry
    BY <2>1 DEF Book, Entries, Entry, Transaction, Op
  <2>5. CASE x \in book[s] /\ y \in book[s]
    BY <2>5 DEF KeptApart
  <2>6. CASE x \in Entries(t, tx.ops, s)
    BY <2>1, <2>2, <2>6
  <2>7. CASE y \in Entries(t, tx.ops, s)
    BY <2>1, <2>2, <2>3, <2>4, <2>7
  <2> QED
    BY <2>1, <2>5, <2>6, <2>7
<1>2. \A op \in tx.ops : [start |-> op.start, end |-> op.end, tx |-> t] \in new[op.station]
  <2>1. \A op \in tx.ops : op.station \in Station
    BY DEF Transaction, Op
  <2> QED
    BY <2>1 DEF Apply, Entries
<1>3. \A s \in Station : {x \in new[s] : x.tx # t} = {x \in book[s] : x.tx # t}
  <2>1. \A s \in Station : \A x \in Entries(t, tx.ops, s) : x.tx = t
    BY DEF Entries
  <2> QED
    BY <2>1 DEF Apply
<1>4. CASE tx.status = "active" /\ Valid(book, t, tx.ops)
  <2>1. after = [book |-> new, status |-> "committed"]
    BY <1>4 DEF DoCommit
  <2> QED
    BY <1>1, <1>2, <1>3, <1>4, <2>1
<1>5. CASE ~ (tx.status = "active" /\ Valid(book, t, tx.ops))
  <2>1. after.book = book /\ (tx.status = "active" => after.status = "aborted")
    BY <1>5 DEF DoCommit
  <2> QED
    BY <2>1
<1> QED
  BY <1>4, <1>5

\* A roll-back takes back exactly what its transaction has booked, whatever others
\* have booked since.
THEOREM RollBackUndoes ==
  ASSUME NEW book \in Book, NEW t \in Tx, NEW u \in Tx, u # t, NEW ops, NEW other,
         \A s \in Station : \A x \in book[s] : x.tx # t
  PROVE  /\ RollBack(Apply(book, t, ops), t) = book
         /\ RollBack(Apply(Apply(book, t, ops), u, other), t) = Apply(book, u, other)
<1>1. \A s \in Station : \A x \in Entries(t, ops, s) : x.tx = t
  BY DEF Entries
<1>2. \A s \in Station : \A x \in Entries(u, other, s) : x.tx = u
  BY DEF Entries
<1>3. \A s \in Station : {x \in book[s] \union Entries(t, ops, s) : x.tx # t} = book[s]
  BY <1>1
<1>4. \A s \in Station :
        {x \in (book[s] \union Entries(t, ops, s)) \union Entries(u, other, s) : x.tx # t}
          = book[s] \union Entries(u, other, s)
  BY <1>1, <1>2
<1>5. RollBack(Apply(book, t, ops), t) = [s \in Station |-> book[s]]
  BY <1>3 DEF RollBack, Apply
<1>6. RollBack(Apply(Apply(book, t, ops), u, other), t) = Apply(book, u, other)
  BY <1>4 DEF RollBack, Apply
<1> QED
  BY <1>5, <1>6 DEF Book
=============================================================================
