------------------------- MODULE SubscriptionProofs -------------------------
(***************************************************************************)
(* The subscription rows (SubscriptionLedger), for every set of            *)
(* subscriptions and requests and every batch of the maintenance task: the *)
(* values of the rows always, and with row locks that no transaction       *)
(* undoes what another has committed.  The user's group                    *)
(* (SubscriptionGroups), where transactions are serialised.                *)
(***************************************************************************)
EXTENDS SubscriptionLedger, SubscriptionGroups, FiniteSetTheorems, TLAPS

-----------------------------------------------------------------------------
\* The inductive invariant of every database.

Record == [status: {"none", "consumed", "refunded"}, sub: Subs, amount: Amounts \cup {0}]

\* A transaction saves rows it has read; a pre-consume takes one of the amounts.
TxnFits(t) ==
    /\ t.at \in {"new", "pre", "open", "settle", "refund", "mark", "done"}
    /\ IsCopy(t.copy) /\ t.dirty \subseteq DOMAIN t.copy
    /\ t.amount \in Int
    /\ t.at = "pre" => t.amount \in Amounts

\* The task saves the row it has read, and never counts more rows than a batch has.
RoundFits(t) ==
    /\ t.at \in {"sleep", "list", "reset", "save"}
    /\ t.todo \subseteq Subs
    /\ IsCopy(t.copy) /\ t.dirty \subseteq DOMAIN t.copy
    /\ t.count \in Nat /\ t.count + Cardinality(t.todo) <= Batch
    /\ t.at = "save" => \E s \in t.todo : DOMAIN t.copy = {s}

IInv ==
    /\ row \in Table
    /\ record \in [Requests -> Record]
    /\ txn = [r \in Requests |-> txn[r]] /\ \A r \in Requests : TxnFits(txn[r])
    /\ RoundFits(task)
    /\ resetting \in BOOLEAN /\ now \in 0..MaxTime
    /\ owed \in [Requests -> Nat] /\ wasReset \in BOOLEAN

\* With row locks: no row is in two open transactions, and a copy has its row's status and no
\* earlier a reset.
Fresh(copy, rows) ==
    \A s \in DOMAIN copy : copy[s].status = rows[s].status /\ copy[s].last >= rows[s].last

Apart ==
    /\ \A r \in Requests : \A q \in Requests \ {r} :
          DOMAIN txn[r].copy \cap DOMAIN txn[q].copy = {}
    /\ \A r \in Requests : DOMAIN txn[r].copy \cap DOMAIN task.copy = {}

LInv ==
    /\ IInv /\ Apart
    /\ Fresh(task.copy, row) /\ \A r \in Requests : Fresh(txn[r].copy, row)

\* A copy starts from the usage of its row, or from none if it was reset.
Carried(copy, r) == IF copy.last > r.last THEN 0 ELSE r.used

\* What a pre-consume and what a settlement or a refund are about to save: the row's usage with
\* the request's amount.
PreBooks(t, id, rows) ==
    /\ id \in t.dirty
    /\ \A s \in DOMAIN t.copy :
          t.copy[s].used = Carried(t.copy[s], rows[s]) + (IF s = id THEN t.amount ELSE 0)

DeltaBooks(t, id, rows) ==
    /\ DOMAIN t.copy = {id} /\ t.dirty = {id}
    /\ t.copy[id].last = rows[id].last
    /\ t.copy[id].used = Floor(rows[id].used + t.amount)

\* A request's books: its record is made when the pre-consume is committed; before any reset, a
\* request that is not settled owes what it has pre-consumed, and no delta takes back more.
TxnBooks(r) ==
    /\ txn[r].at \in {"new", "pre"} => record[r].status = "none"
    /\ txn[r].at \in {"open", "settle", "refund", "mark"} => record[r].status # "none"
    /\ txn[r].at = "pre" => PreBooks(txn[r], record[r].sub, row)
    /\ txn[r].at \in {"settle", "refund"} =>
          DeltaBooks(txn[r], record[r].sub, row) /\ record[r].amount + txn[r].amount >= 0
    /\ txn[r].at \in {"open", "settle", "refund"} =>
          record[r].amount \in Amounts /\ (~wasReset => owed[r] = record[r].amount)

TaskBooks == \A s \in DOMAIN task.copy : task.copy[s].used = Carried(task.copy[s], row[s])

UInv == LInv /\ TaskBooks /\ (\A r \in Requests : TxnBooks(r)) /\ UsedIsOwed

-----------------------------------------------------------------------------
\* Facts about the operators.

\* What a request's place and the task's place hold.
LEMMA TxnFields ==
    \A at, copy, dirty, amount :
        /\ Txn(at, copy, dirty, amount).at = at
        /\ Txn(at, copy, dirty, amount).copy = copy
        /\ Txn(at, copy, dirty, amount).dirty = dirty
        /\ Txn(at, copy, dirty, amount).amount = amount
  BY DEF Txn

LEMMA RoundFields ==
    \A at, todo, copy, dirty, count :
        /\ Round(at, todo, copy, dirty, count).at = at
        /\ Round(at, todo, copy, dirty, count).todo = todo
        /\ Round(at, todo, copy, dirty, count).copy = copy
        /\ Round(at, todo, copy, dirty, count).dirty = dirty
        /\ Round(at, todo, copy, dirty, count).count = count
  BY DEF Round

\* An empty copy reads no row.
LEMMA NoTableIs == IsCopy(NoTable) /\ DOMAIN NoTable = {}
  BY DEF IsCopy, NoTable

\* A request between two transactions.
LEMMA ClosedFits ==
    ASSUME NEW at \in {"new", "open", "mark", "done"}
    PROVE  TxnFits(Closed(at)) /\ Closed(at).at = at /\ DOMAIN Closed(at).copy = {}
  BY TxnFields, NoTableIs DEF TxnFits, Closed

\* The task between two transactions, with at most a batch to do.
LEMMA BeginFits ==
    ASSUME NEW at \in {"sleep", "list", "reset"}, NEW todo \in SUBSET Subs,
           Cardinality(todo) \in Nat, Cardinality(todo) <= Batch
    PROVE  RoundFits(Begin(at, todo)) /\ DOMAIN Begin(at, todo).copy = {}
  <1> DEFINE t == Begin(at, todo)
  <1>1. t.at = at /\ t.todo = todo /\ t.copy = NoTable /\ t.dirty = {} /\ t.count = 0
    BY RoundFields DEF Begin
  <1> HIDE DEF t
  <1>2. t.count \in Nat /\ t.count + Cardinality(t.todo) <= Batch BY <1>1
  <1>3. RoundFits(t) BY <1>1, <1>2, NoTableIs DEF RoundFits
  <1> QED BY <1>1, <1>3, NoTableIs DEF t

\* A round with nothing to do yet.
LEMMA BeginEmpty ==
    ASSUME NEW at \in {"sleep", "list"}
    PROVE  RoundFits(Begin(at, {})) /\ DOMAIN Begin(at, {}).copy = {}
  <1>1. Cardinality({}) = 0 BY FS_EmptySet
  <1> QED BY <1>1, BeginFits, LedgerAssumption

\* A row with another usage.
LEMMA UsedRow ==
    ASSUME NEW w \in Row, NEW u \in 0..Total
    PROVE  /\ [w EXCEPT !.used = u] \in Row
           /\ [w EXCEPT !.used = u].status = w.status /\ [w EXCEPT !.used = u].last = w.last
           /\ [w EXCEPT !.used = u].used = u
  BY DEF Row

\* A row with another status.
LEMMA StatusRow ==
    ASSUME NEW w \in Row, NEW st \in {"active", "expired", "cancelled", "deleted"}
    PROVE  /\ [w EXCEPT !.status = st] \in Row
           /\ [w EXCEPT !.status = st].status = st /\ [w EXCEPT !.status = st].last = w.last
           /\ [w EXCEPT !.status = st].used = w.used
  BY DEF Row

\* The next reset is a time.
LEMMA NextResetIs ==
    ASSUME NEW last \in Nat, NEW end \in Nat
    PROVE  NextReset(last, end) \in Nat
  BY DEF NextReset

\* A reset keeps the status and the end, and is never earlier than the last one.
LEMMA MaybeResetIs ==
    ASSUME now \in Nat, NEW w \in Row
    PROVE  /\ MaybeReset(w) \in Row
           /\ MaybeReset(w).status = w.status /\ MaybeReset(w).last >= w.last
           /\ MaybeReset(w).used = Carried(MaybeReset(w), w)
  <1> DEFINE last == IF now <= w.end THEN now ELSE w.end
             next == NextReset(last, w.end)
             changed(u, l, n) == [w EXCEPT !.used = u, !.last = l, !.next = n]
  <1>1. w.end \in Nat /\ w.last \in Nat /\ w.status = w.status BY DEF Row
  <1>2. last \in Nat /\ next \in Nat BY <1>1, NextResetIs
  <1>3. \A u \in 0..Total, l \in Nat, n \in Nat :
           changed(u, l, n) \in Row /\ changed(u, l, n).status = w.status
           /\ changed(u, l, n).last = l /\ changed(u, l, n).used = u
    <2> SUFFICES ASSUME NEW u \in 0..Total, NEW l \in Nat, NEW n \in Nat
                 PROVE  changed(u, l, n) \in Row /\ changed(u, l, n).status = w.status
                        /\ changed(u, l, n).last = l /\ changed(u, l, n).used = u
      OBVIOUS
    <2> DEFINE new == changed(u, l, n)
    <2>1. new = [w EXCEPT !.used = u, !.last = l, !.next = n] OBVIOUS
    <2> HIDE DEF new
    <2>2. new \in Row BY <2>1 DEF Row
    <2>3. new.status = w.status /\ new.last = l /\ new.used = u BY <2>1 DEF Row
    <2> QED BY <2>2, <2>3 DEF new
  <1>4. 0 \in 0..Total BY LedgerAssumption
  <1>5. \/ MaybeReset(w) = w
        \/ MaybeReset(w) = changed(0, last, next) /\ ~(last <= w.last)
    BY DEF MaybeReset
  <1>6. CASE MaybeReset(w) = w BY <1>1, <1>6 DEF Carried
  <1>7. CASE MaybeReset(w) = changed(0, last, next) /\ ~(last <= w.last)
    <2>0. changed(0, last, next) \in Row /\ changed(0, last, next).status = w.status
          /\ changed(0, last, next).last = last /\ changed(0, last, next).used = 0
      <3> HIDE DEF last, next, changed
      <3> QED BY <1>2, <1>3, <1>4
    <2> HIDE DEF changed, next
    <2>1. last >= w.last /\ last > w.last BY <1>1, <1>2, <1>7
    <2> HIDE DEF last
    <2> QED BY <1>7, <2>0, <2>1 DEF Carried
  <1> QED BY <1>5, <1>6, <1>7

\* A floored number is a number.
LEMMA FloorIs == ASSUME NEW x \in Int PROVE Floor(x) \in Nat
  BY DEF Floor

\* A save writes the copies of the rows it names.
LEMMA SaveIs ==
    ASSUME row \in Table, NEW copy, NEW dirty, IsCopy(copy), dirty \subseteq DOMAIN copy,
           Save(copy, dirty)
    PROVE  /\ row' \in Table
           /\ \A s \in Subs : row'[s] = IF s \in dirty THEN copy[s] ELSE row[s]
  BY DEF Save, Table, IsCopy

\* What is owed after a save is a number for each request.
LEMMA OwedIs ==
    ASSUME owed \in [Requests -> Nat], NEW copy, NEW dirty
    PROVE  OwedAfter(copy, dirty) \in [Requests -> Nat]
  BY DEF OwedAfter

\* A batch has no more rows than its bound, and none twice.
LEMMA BatchIs ==
    ASSUME NEW n \in Nat, Batch \in Nat
    PROVE  Min({Batch, n}) \in Nat /\ Min({Batch, n}) <= Batch
  <1>1. \E x \in {Batch, n} : \A y \in {Batch, n} : x <= y
    <2>1. CASE Batch <= n BY <2>1
    <2>2. CASE ~(Batch <= n) BY <2>2
    <2> QED BY <2>1, <2>2
  <1> QED BY <1>1 DEF Min

\* The maintenance task does no more than a batch at a time.
LEMMA TodoFits ==
    ASSUME IInv
    PROVE  /\ IsFiniteSet(task.todo) /\ Cardinality(task.todo) \in Nat
           /\ task.count \in 0..Batch
  <1>1. IsFiniteSet(task.todo)
    BY LedgerAssumption, FS_Subset DEF IInv, RoundFits
  <1>2. Cardinality(task.todo) \in Nat BY <1>1, FS_CardinalityType
  <1>3. task.count \in 0..Batch BY <1>2, LedgerAssumption DEF IInv, RoundFits
  <1> QED BY <1>1, <1>2, <1>3

\* The invariant has the type invariant in it.
LEMMA InvTyped == IInv => TypeOK
  <1> SUFFICES ASSUME IInv PROVE TypeOK OBVIOUS
  <1>1. task.count \in 0..Batch BY TodoFits
  <1>2. \A r \in Requests :
          /\ txn[r].at \in {"new", "pre", "open", "settle", "refund", "mark", "done"}
          /\ IsCopy(txn[r].copy) /\ txn[r].dirty \subseteq Subs /\ txn[r].amount \in Int
    BY DEF IInv, TxnFits, IsCopy
  <1>3. /\ task.at \in {"sleep", "list", "reset", "save"} /\ task.todo \subseteq Subs
        /\ IsCopy(task.copy) /\ task.dirty \subseteq Subs
    BY DEF IInv, RoundFits, IsCopy
  <1> QED BY <1>1, <1>2, <1>3 DEF IInv, TypeOK, Record

-----------------------------------------------------------------------------
\* Every step keeps IInv.

\* The subscriptions are created active and unused.
LEMMA InitIInv == Init => IInv
  <1> SUFFICES ASSUME Init PROVE IInv OBVIOUS
  <1>1. row \in Table
    <2>1. PICK end \in [Subs -> Ends] :
            row = [s \in Subs |-> [status |-> "active", used |-> 0, last |-> 0,
                                   next |-> NextReset(0, end[s]), end |-> end[s]]]
      BY DEF Init
    <2>2. \A s \in Subs : end[s] \in Nat /\ NextReset(0, end[s]) \in Nat
      <3>1. \A s \in Subs : end[s] \in Nat BY LedgerAssumption
      <3> QED BY <3>1, NextResetIs
    <2>3. 0 \in 0..Total BY LedgerAssumption
    <2> QED BY <2>1, <2>2, <2>3 DEF Table, Row
  <1>2. record \in [Requests -> Record]
    <2>1. AnySub \in Subs BY LedgerAssumption DEF AnySub
    <2> QED BY <2>1 DEF Init, Record
  <1>3. txn = [r \in Requests |-> txn[r]] /\ \A r \in Requests : TxnFits(txn[r])
    BY ClosedFits DEF Init
  <1>4. RoundFits(task) BY BeginEmpty DEF Init
  <1>5. now \in 0..MaxTime BY LedgerAssumption DEF Init
  <1> QED BY <1>1, <1>2, <1>3, <1>4, <1>5 DEF Init, IInv

\* A request moves to another legal place.
LEMMA TxnMoves ==
    ASSUME IInv, NEW r \in Requests, NEW t, TxnFits(t), txn' = [txn EXCEPT ![r] = t]
    PROVE  /\ txn' = [q \in Requests |-> txn'[q]] /\ \A q \in Requests : TxnFits(txn'[q])
           /\ txn'[r] = t /\ \A q \in Requests \ {r} : txn'[q] = txn[q]
  <1>1. DOMAIN txn = Requests BY DEF IInv
  <1>2. /\ txn' = [q \in Requests |-> txn'[q]]
        /\ txn'[r] = t /\ \A q \in Requests \ {r} : txn'[q] = txn[q]
    BY <1>1
  <1> QED BY <1>2 DEF IInv

\* What a pre-consume reads: the copies of the active rows, reset where that is due, one of them
\* charged.
LEMMA PreConsumeReads ==
    ASSUME IInv, NEW r \in Requests, PreConsume(r)
    PROVE  /\ UNCHANGED <<row, task, resetting, now, owed, wasReset>>
           /\ record' \in [Requests -> Record]
           /\ \E t : /\ TxnFits(t) /\ txn' = [txn EXCEPT ![r] = t]
                     /\ \/ DOMAIN t.copy = {}
                        \/ RowsFree(DOMAIN t.copy) /\ Fresh(t.copy, row)
                     /\ \/ t.at = "done" /\ record' = record
                        \/ /\ t.at = "pre"
                           /\ \E s \in Subs : /\ record' = [record EXCEPT ![r].sub = s]
                                             /\ PreBooks(t, s, row)
  <1> DEFINE cands == { s \in Subs : Active(s) }
             copy == [s \in cands |-> MaybeReset(row[s])]
             room(amount) == { s \in cands : copy[s].used + amount <= Total }
             before(s, t) == \/ row[s].end < row[t].end
                             \/ row[s].end = row[t].end /\ s <= t
             charged(s, amount) == [copy EXCEPT ![s].used = @ + amount]
             dirty(s) == {s} \cup { t \in cands : before(t, s) /\ copy[t] # row[t] }
  <1>1. PICK amount \in Amounts :
          /\ RowsFree(cands)
          /\ \/ room(amount) = {} /\ End(r, "done") /\ UNCHANGED record
             \/ \E s \in room(amount) :
                  /\ txn' = [txn EXCEPT ![r] = Txn("pre", charged(s, amount), dirty(s), amount)]
                  /\ record' = [record EXCEPT ![r].sub = s]
    BY DEF PreConsume
  <1>2. UNCHANGED <<row, task, resetting, now, owed, wasReset>> BY DEF PreConsume
  <1>3. now \in Nat /\ amount \in Nat /\ amount \in Int
    BY LedgerAssumption DEF IInv
  <1>4. CASE room(amount) = {} /\ End(r, "done") /\ UNCHANGED record
    <2>1. record' \in [Requests -> Record] BY <1>4 DEF IInv
    <2> QED BY <1>2, <1>4, <2>1, ClosedFits DEF End
  <1>5. CASE \E s \in room(amount) :
                  /\ txn' = [txn EXCEPT ![r] = Txn("pre", charged(s, amount), dirty(s), amount)]
                  /\ record' = [record EXCEPT ![r].sub = s]
    <2>1. PICK s \in room(amount) :
            /\ txn' = [txn EXCEPT ![r] = Txn("pre", charged(s, amount), dirty(s), amount)]
            /\ record' = [record EXCEPT ![r].sub = s]
      BY <1>5
    <2>2. s \in cands /\ s \in Subs /\ cands \subseteq Subs OBVIOUS
    <2>3. \A q \in cands : /\ copy[q] \in Row /\ copy[q].status = row[q].status
                           /\ copy[q].last >= row[q].last
                           /\ copy[q].used = Carried(copy[q], row[q])
      BY <1>3, MaybeResetIs DEF IInv, Table
    <2>4. copy[s].used + amount \in 0..Total
      <3>1. copy[s].used \in Nat BY <2>2, <2>3 DEF Row
      <3>2. copy[s].used + amount <= Total OBVIOUS
      <3> HIDE DEF copy
      <3> QED BY <3>1, <3>2, <1>3, LedgerAssumption
    <2> DEFINE one == [copy[s] EXCEPT !.used = copy[s].used + amount]
               c == charged(s, amount)
    <2>5. /\ one \in Row /\ one.status = row[s].status /\ one.last >= row[s].last
          /\ one.used = copy[s].used + amount /\ one.last = copy[s].last
      <3> HIDE DEF copy
      <3> QED BY <2>2, <2>3, <2>4, UsedRow
    <2>6. DOMAIN c = cands /\ \A q \in cands : c[q] = IF q = s THEN one ELSE copy[q]
      BY <2>2
    <2> HIDE DEF one, c, copy
    <2>7. /\ IsCopy(c) /\ Fresh(c, row)
      BY <2>2, <2>3, <2>5, <2>6 DEF IsCopy, Fresh
    <2>8. dirty(s) \subseteq DOMAIN c BY <2>2, <2>6
    <2> DEFINE t == Txn("pre", c, dirty(s), amount)
    <2>9. t.at = "pre" /\ t.copy = c /\ t.dirty = dirty(s) /\ t.amount = amount
      BY TxnFields
    <2>10. txn' = [txn EXCEPT ![r] = t] BY <2>1 DEF c
    <2> HIDE DEF t, dirty
    <2>11. TxnFits(t) BY <1>3, <2>7, <2>8, <2>9 DEF TxnFits
    <2>12. RowsFree(DOMAIN t.copy) /\ Fresh(t.copy, row) BY <1>1, <2>6, <2>7, <2>9
    <2>13. record' \in [Requests -> Record] BY <2>1, <2>2 DEF IInv, Record
    <2>14. PreBooks(t, s, row)
      <3>1. s \in t.dirty BY <2>9 DEF dirty
      <3>2. ASSUME NEW q \in DOMAIN t.copy
            PROVE  t.copy[q].used = Carried(t.copy[q], row[q]) + (IF q = s THEN t.amount ELSE 0)
        <4>0. q \in cands BY <2>6, <2>9
        <4>1. CASE q = s
          <5>1. Carried(c[q], row[q]) = Carried(copy[s], row[s])
            BY <2>5, <2>6, <4>0, <4>1 DEF Carried
          <5> QED BY <2>2, <2>3, <2>5, <2>6, <2>9, <4>1, <5>1
        <4>2. CASE q # s
          <5>1. copy[q].used \in Int BY <2>3, <4>0 DEF Row
          <5> QED BY <2>3, <2>6, <2>9, <4>0, <4>2, <5>1
        <4> QED BY <4>1, <4>2
      <3> QED BY <3>1, <3>2 DEF PreBooks
    <2> QED BY <1>2, <2>1, <2>2, <2>9, <2>10, <2>11, <2>12, <2>13, <2>14
  <1> QED BY <1>1, <1>4, <1>5

\* What a settlement or a refund reads: the subscription's row, if it is there and has room.
LEMMA DeltaReads ==
    ASSUME IInv, NEW r \in Requests, NEW delta \in Int, NEW at \in {"settle", "refund"},
           ReadDelta(r, delta, at)
    PROVE  /\ UNCHANGED <<row, record, task, resetting, now, owed, wasReset>>
           /\ \E t : /\ TxnFits(t) /\ txn' = [txn EXCEPT ![r] = t]
                     /\ \/ DOMAIN t.copy = {}
                        \/ RowsFree(DOMAIN t.copy) /\ Fresh(t.copy, row)
                     /\ \/ t.at = "done"
                        \/ t.at = at /\ t.amount = delta /\ DeltaBooks(t, record[r].sub, row)
  <1> DEFINE s == record[r].sub
             used == Floor(row[s].used + delta)
             c == [t \in {s} |-> [row[t] EXCEPT !.used = used]]
  <1>1. UNCHANGED <<row, record, task, resetting, now, owed, wasReset>> BY DEF ReadDelta
  <1>2. /\ RowsFree({s})
        /\ \/ txn' = [txn EXCEPT ![r] = Txn(at, c, {s}, delta)] /\ used <= Total
           \/ End(r, "done")
    BY DEF ReadDelta
  <1>3. s \in Subs /\ row[s] \in Row BY DEF IInv, Record, Table
  <1>4. CASE txn' = [txn EXCEPT ![r] = Txn(at, c, {s}, delta)] /\ used <= Total
    <2>1. used \in Nat
      <3>1. row[s].used \in Int BY <1>3 DEF Row
      <3> QED BY <3>1, FloorIs
    <2>2. used \in 0..Total
      <3> HIDE DEF used
      <3> QED BY <1>4, <2>1, LedgerAssumption
    <2> HIDE DEF used
    <2> DEFINE one == [row[s] EXCEPT !.used = used]
    <2>3. one \in Row /\ one.status = row[s].status /\ one.last = row[s].last /\ one.used = used
      BY <1>3, <2>2, UsedRow
    <2>4. DOMAIN c = {s} /\ c[s] = one OBVIOUS
    <2> HIDE DEF c, one
    <2>5. IsCopy(c) BY <1>3, <2>3, <2>4 DEF IsCopy
    <2>6. Fresh(c, row)
      <3>1. row[s].last \in Nat BY <1>3 DEF Row
      <3>2. one.last >= row[s].last BY <2>3, <3>1
      <3> QED BY <2>3, <2>4, <3>2 DEF Fresh
    <2> DEFINE t == Txn(at, c, {s}, delta)
    <2>7. t.at = at /\ t.copy = c /\ t.dirty = {s} /\ t.amount = delta BY TxnFields
    <2>8. txn' = [txn EXCEPT ![r] = t] BY <1>4
    <2> HIDE DEF t
    <2>9. TxnFits(t) BY <2>4, <2>5, <2>7 DEF TxnFits
    <2>10. DeltaBooks(t, s, row) BY <2>3, <2>4, <2>7 DEF DeltaBooks, used
    <2> QED BY <1>1, <1>2, <2>4, <2>6, <2>7, <2>8, <2>9, <2>10
  <1>5. CASE End(r, "done") BY <1>1, <1>5, ClosedFits DEF End
  <1> QED BY <1>2, <1>4, <1>5

\* What a request commits: its dirty copies, and the transaction is closed.
LEMMA RequestCommits ==
    ASSUME IInv, NEW r \in Requests, CommitPreConsume(r) \/ CommitDelta(r)
    PROVE  /\ IInv'
           /\ Save(txn[r].copy, txn[r].dirty) /\ task' = task
           /\ \E t : TxnFits(t) /\ DOMAIN t.copy = {} /\ txn' = [txn EXCEPT ![r] = t]
  <1> DEFINE copy == txn[r].copy
             dirty == txn[r].dirty
  <1>1. Save(copy, dirty) /\ UNCHANGED <<task, resetting, now>>
    BY DEF CommitPreConsume, CommitDelta
  <1>2. TxnFits(txn[r]) BY DEF IInv
  <1>3. row' \in Table BY <1>1, <1>2, SaveIs DEF IInv, TxnFits
  <1>4. OwedAfter(copy, dirty) \in [Requests -> Nat] BY OwedIs DEF IInv
  <1>5. PICK at \in {"open", "mark", "done"} : End(r, at)
    BY DEF CommitPreConsume, CommitDelta
  <1>6. /\ txn' = [q \in Requests |-> txn'[q]] /\ \A q \in Requests : TxnFits(txn'[q])
    BY <1>5, ClosedFits, TxnMoves DEF End
  <1>7. CASE CommitPreConsume(r)
    <2>1. txn[r].amount \in Amounts /\ txn[r].amount \in Nat
      BY <1>2, <1>7, LedgerAssumption DEF TxnFits, CommitPreConsume
    <2>2. record' \in [Requests -> Record]
      BY <1>7, <2>1 DEF IInv, CommitPreConsume, Record
    <2>3. owed' \in [Requests -> Nat]
      <3>1. owed' = [OwedAfter(copy, dirty) EXCEPT ![r] = txn[r].amount]
        BY <1>7 DEF CommitPreConsume
      <3> QED BY <1>4, <2>1, <3>1
    <2>4. wasReset' \in BOOLEAN
      <3>1. (Resets(copy, dirty) # {}) \in BOOLEAN OBVIOUS
      <3> QED BY <1>7, <3>1 DEF CommitPreConsume, IInv
    <2> QED BY <1>1, <1>3, <1>5, <1>6, <2>2, <2>3, <2>4, ClosedFits DEF IInv, End
  <1>8. CASE CommitDelta(r)
    <2>1. owed' \in [Requests -> Nat]
      <3> DEFINE base == OwedAfter(copy, dirty)
      <3>1. owed' = [base EXCEPT ![r] = Floor(base[r] + txn[r].amount)]
        BY <1>8 DEF CommitDelta
      <3>2. base[r] + txn[r].amount \in Int BY <1>2, <1>4 DEF TxnFits
      <3>3. Floor(base[r] + txn[r].amount) \in Nat BY <3>2, FloorIs
      <3> QED BY <1>4, <3>1, <3>3
    <2>2. record' \in [Requests -> Record] /\ wasReset' \in BOOLEAN
      BY <1>8 DEF CommitDelta, IInv
    <2> QED BY <1>1, <1>3, <1>5, <1>6, <2>1, <2>2, ClosedFits DEF IInv, End
  <1> QED BY <1>7, <1>8

\* The mark of a refund changes the record alone.
LEMMA MarkKeeps ==
    ASSUME IInv, NEW r \in Requests, MarkRefunded(r)
    PROVE  /\ IInv' /\ row' = row /\ task' = task
           /\ \E t : TxnFits(t) /\ DOMAIN t.copy = {} /\ txn' = [txn EXCEPT ![r] = t]
  <1>1. record' \in [Requests -> Record] BY DEF IInv, MarkRefunded, Record
  <1>2. TxnFits(Closed("done")) /\ DOMAIN Closed("done").copy = {}
        /\ txn' = [txn EXCEPT ![r] = Closed("done")]
    BY ClosedFits DEF MarkRefunded, End
  <1>3. /\ txn' = [q \in Requests |-> txn'[q]] /\ \A q \in Requests : TxnFits(txn'[q])
    BY <1>2, TxnMoves
  <1> QED BY <1>1, <1>2, <1>3 DEF IInv, MarkRefunded

\* What the requests read.
LEMMA RequestReads ==
    ASSUME IInv, NEW r \in Requests, PreConsume(r) \/ Settle(r) \/ Refund(r)
    PROVE  /\ IInv' /\ row' = row /\ task' = task
           /\ \E t : /\ TxnFits(t) /\ txn' = [txn EXCEPT ![r] = t]
                     /\ \/ DOMAIN t.copy = {}
                        \/ RowsFree(DOMAIN t.copy) /\ Fresh(t.copy, row)
  <1>1. /\ UNCHANGED <<row, task, resetting, now, owed, wasReset>>
        /\ record' \in [Requests -> Record]
        /\ \E t : /\ TxnFits(t) /\ txn' = [txn EXCEPT ![r] = t]
                  /\ \/ DOMAIN t.copy = {}
                     \/ RowsFree(DOMAIN t.copy) /\ Fresh(t.copy, row)
    <2>1. CASE PreConsume(r) BY <2>1, PreConsumeReads
    <2>2. CASE Settle(r)
      <3>1. PICK delta \in Deltas : ReadDelta(r, delta, "settle") BY <2>2 DEF Settle
      <3>2. delta \in Int BY LedgerAssumption
      <3>3. record' = record BY <3>1 DEF ReadDelta
      <3> QED BY <3>1, <3>2, <3>3, DeltaReads DEF IInv
    <2>3. CASE Refund(r)
      <3>1. record[r].amount \in Int BY LedgerAssumption DEF IInv, Record
      <3>2. -record[r].amount \in Int BY <3>1
      <3>3. ReadDelta(r, -record[r].amount, "refund") BY <2>3 DEF Refund
      <3>4. record' = record BY <3>3 DEF ReadDelta
      <3> QED BY <3>2, <3>3, <3>4, DeltaReads DEF IInv
    <2> QED BY <2>1, <2>2, <2>3
  <1>2. /\ txn' = [q \in Requests |-> txn'[q]] /\ \A q \in Requests : TxnFits(txn'[q])
    BY <1>1, TxnMoves
  <1> QED BY <1>1, <1>2 DEF IInv

\* The expiry changes the status of rows that are active and not locked.
LEMMA ExpireKeeps ==
    ASSUME IInv, ExpireDue
    PROVE  /\ IInv' /\ txn' = txn /\ DOMAIN task'.copy = {}
           /\ \E S \in SUBSET Subs :
                 /\ RowsFree(S)
                 /\ \A s \in Subs \ S : row'[s] = row[s]
                 /\ \A s \in S : /\ row[s].status = "active" /\ row'[s].last = row[s].last
                                 /\ row'[s].used = row[s].used
  <1> DEFINE S == { s \in Subs : row[s].status = "active" /\ row[s].end <= now }
  <1>1. MarkExpired(S) BY DEF ExpireDue
  <1>2. \A s \in Subs : /\ row[s] \in Row /\ [row[s] EXCEPT !.status = "expired"] \in Row
                        /\ [row[s] EXCEPT !.status = "expired"].last = row[s].last
                        /\ [row[s] EXCEPT !.status = "expired"].used = row[s].used
    BY StatusRow DEF IInv, Table
  <1>3. row' \in Table BY <1>1, <1>2 DEF MarkExpired, Table
  <1>4. RoundFits(task') /\ DOMAIN task'.copy = {} BY <1>1, BeginEmpty DEF MarkExpired
  <1>5. IInv' BY <1>1, <1>3, <1>4 DEF IInv, MarkExpired
  <1>6. /\ RowsFree(S)
        /\ \A s \in Subs \ S : row'[s] = row[s]
        /\ \A s \in S : /\ row[s].status = "active" /\ row'[s].last = row[s].last
                        /\ row'[s].used = row[s].used
    BY <1>1, <1>2 DEF MarkExpired
  <1> QED BY <1>1, <1>4, <1>5, <1>6 DEF MarkExpired

\* A batch is listed, or ended.
LEMMA ListKeeps ==
    ASSUME IInv, ListDue \/ EndBatch
    PROVE  IInv' /\ row' = row /\ txn' = txn /\ DOMAIN task'.copy = {}
  <1>1. RoundFits(task') /\ DOMAIN task'.copy = {}
    <2>1. CASE ListDue
      <3> DEFINE due == { s \in Subs : Due(s) /\ row[s].status = "active" }
      <3>1. \/ task' = Begin("sleep", {})
            \/ \E todo \in SUBSET due :
                  Cardinality(todo) = Min({Batch, Cardinality(due)}) /\ task' = Begin("reset", todo)
        BY <2>1 DEF ListDue
      <3>2. IsFiniteSet(due) BY LedgerAssumption, FS_Subset
      <3>3. Cardinality(due) \in Nat /\ Batch \in Nat
        BY <3>2, FS_CardinalityType, LedgerAssumption
      <3>4. CASE task' = Begin("sleep", {}) BY <3>4, BeginEmpty
      <3>5. CASE \E todo \in SUBSET due :
                  Cardinality(todo) = Min({Batch, Cardinality(due)}) /\ task' = Begin("reset", todo)
        <4>1. PICK todo \in SUBSET due :
                Cardinality(todo) = Min({Batch, Cardinality(due)}) /\ task' = Begin("reset", todo)
          BY <3>5
        <4>2. todo \in SUBSET Subs OBVIOUS
        <4>3. Cardinality(todo) \in Nat /\ Cardinality(todo) <= Batch
          <5> HIDE DEF due
          <5> QED BY <3>3, <4>1, BatchIs
        <4> QED BY <4>1, <4>2, <4>3, BeginFits
      <3> QED BY <3>1, <3>4, <3>5
    <2>2. CASE EndBatch
      <3>1. \E at \in {"sleep", "list"} : task' = Begin(at, {}) BY <2>2 DEF EndBatch, NextBatch
      <3> QED BY <3>1, BeginEmpty
    <2> QED BY <2>1, <2>2
  <1>2. UNCHANGED <<row, record, txn, resetting, now, owed, wasReset>> BY DEF ListDue, EndBatch
  <1> QED BY <1>1, <1>2 DEF IInv

\* The task reads one row of its batch, or leaves it out.
LEMMA TaskReads ==
    ASSUME IInv, NEW s \in Subs, ReadDue(s)
    PROVE  /\ IInv' /\ row' = row /\ txn' = txn
           /\ DOMAIN task'.copy = {} \/ (RowsFree(DOMAIN task'.copy) /\ Fresh(task'.copy, row))
           /\ \A q \in DOMAIN task'.copy : task'.copy[q].used = Carried(task'.copy[q], row[q])
  <1>1. /\ s \in task.todo /\ RowsFree({s})
        /\ UNCHANGED <<row, record, txn, resetting, now, owed, wasReset>>
        /\ task' = Reread(s) \/ task' = Skip(s)
    BY DEF ReadDue
  <1>2. RoundFits(task) BY DEF IInv
  <1>3. CASE task' = Reread(s)
    <2> DEFINE w == MaybeReset(row[s])
               c == [t \in {s} |-> w]
               d == IF w = row[s] THEN {} ELSE {s}
    <2>1. /\ w \in Row /\ w.status = row[s].status /\ w.last >= row[s].last
          /\ w.used = Carried(w, row[s])
      BY MaybeResetIs DEF IInv, Table
    <2>2. task' = Round("save", task.todo, c, d, task.count) BY <1>3 DEF Reread
    <2> HIDE DEF w
    <2>3. DOMAIN c = {s} /\ c[s] = w /\ d \subseteq {s} OBVIOUS
    <2> HIDE DEF c, d
    <2>4. /\ task'.at = "save" /\ task'.todo = task.todo /\ task'.copy = c
          /\ task'.dirty = d /\ task'.count = task.count
      BY <2>2, RoundFields
    <2>5. IsCopy(c) BY <2>1, <2>3 DEF IsCopy
    <2>6. Fresh(c, row) BY <2>1, <2>3 DEF Fresh
    <2>7. RoundFits(task') BY <1>1, <1>2, <2>3, <2>4, <2>5 DEF RoundFits
    <2>8. IInv' BY <1>1, <2>7 DEF IInv
    <2> QED BY <1>1, <2>1, <2>3, <2>4, <2>6, <2>8
  <1>4. CASE task' = Skip(s)
    <2>1. /\ task'.at = "reset" /\ task'.todo = task.todo \ {s} /\ task'.copy = NoTable
          /\ task'.dirty = {} /\ task'.count = task.count
      BY <1>4, RoundFields DEF Skip
    <2>2. IsFiniteSet(task.todo) /\ Cardinality(task.todo) \in Nat BY TodoFits
    <2>3. Cardinality(task.todo \ {s}) = Cardinality(task.todo) - 1
      BY <1>1, <2>2, FS_RemoveElement
    <2>4. task'.count + Cardinality(task'.todo) <= Batch
      BY <1>2, <2>1, <2>2, <2>3, LedgerAssumption DEF RoundFits
    <2>5. RoundFits(task') BY <1>2, <2>1, <2>4, NoTableIs DEF RoundFits
    <2>6. IInv' BY <1>1, <2>5 DEF IInv
    <2> QED BY <1>1, <2>1, <2>6, NoTableIs
  <1> QED BY <1>1, <1>3, <1>4

\* The task commits the row it has read and counts it.
LEMMA TaskCommits ==
    ASSUME IInv, CommitReset
    PROVE  IInv' /\ Save(task.copy, task.dirty) /\ txn' = txn /\ DOMAIN task'.copy = {}
  <1>1. RoundFits(task) BY DEF IInv
  <1>2. Save(task.copy, task.dirty) /\ UNCHANGED <<record, txn, resetting, now>>
    BY DEF CommitReset
  <1>3. row' \in Table BY <1>1, <1>2, SaveIs DEF IInv, RoundFits
  <1>4. owed' \in [Requests -> Nat] BY OwedIs DEF IInv, CommitReset
  <1>5. wasReset' \in BOOLEAN
    <2>1. (Resets(task.copy, task.dirty) # {}) \in BOOLEAN OBVIOUS
    <2> QED BY <2>1 DEF CommitReset, IInv
  <1>6. /\ task'.at = "reset" /\ task'.todo = task.todo \ DOMAIN task.copy
        /\ task'.copy = NoTable /\ task'.dirty = {} /\ task'.count = task.count + 1
    BY RoundFields DEF CommitReset
  <1>7. PICK s \in task.todo : DOMAIN task.copy = {s}
    BY <1>1 DEF RoundFits, CommitReset
  <1>8. IsFiniteSet(task.todo) /\ Cardinality(task.todo) \in Nat BY TodoFits
  <1>9. Cardinality(task.todo \ {s}) = Cardinality(task.todo) - 1
    BY <1>8, FS_RemoveElement
  <1>10. task'.count \in Nat /\ task'.count + Cardinality(task'.todo) <= Batch
    BY <1>1, <1>6, <1>7, <1>8, <1>9, LedgerAssumption DEF RoundFits
  <1>11. RoundFits(task') BY <1>1, <1>6, <1>10, NoTableIs DEF RoundFits
  <1>12. IInv' BY <1>2, <1>3, <1>4, <1>5, <1>11 DEF IInv
  <1> QED BY <1>2, <1>6, <1>12, NoTableIs

\* An administrator changes one row that is not locked; it is cancelled or deleted afterwards.
LEMMA AdminKeeps ==
    ASSUME IInv, NEW s \in Subs, Invalidate(s) \/ Delete(s)
    PROVE  /\ IInv' /\ txn' = txn /\ task' = task /\ RowsFree({s})
           /\ \A t \in Subs \ {s} : row'[t] = row[t]
           /\ row'[s].status \in {"cancelled", "deleted"} /\ row'[s].last = row[s].last
           /\ row[s].status # "deleted" /\ row'[s].used = row[s].used
  <1>0. row[s] \in Row /\ now \in Nat BY LedgerAssumption DEF IInv, Table
  <1>1. PICK w \in Row : /\ row' = [row EXCEPT ![s] = w]
                         /\ w.status \in {"cancelled", "deleted"} /\ w.last = row[s].last
                         /\ w.used = row[s].used
    <2>1. CASE Invalidate(s)
      <3> DEFINE w == [row[s] EXCEPT !.status = "cancelled", !.end = now]
      <3>1. w = [row[s] EXCEPT !.status = "cancelled", !.end = now]
            /\ row' = [row EXCEPT ![s] = w]
        BY <2>1 DEF Invalidate
      <3> HIDE DEF w
      <3>2. w \in Row BY <1>0, <3>1 DEF Row
      <3>3. w.status = "cancelled" /\ w.last = row[s].last /\ w.used = row[s].used
        BY <1>0, <3>1 DEF Row
      <3> QED BY <3>1, <3>2, <3>3
    <2>2. CASE Delete(s)
      <3> DEFINE w == [row[s] EXCEPT !.status = "deleted"]
      <3>1. w \in Row /\ w.status = "deleted" /\ w.last = row[s].last /\ w.used = row[s].used
        BY <1>0, StatusRow
      <3>2. row' = [row EXCEPT ![s] = w] BY <2>2 DEF Delete
      <3> HIDE DEF w
      <3> QED BY <3>1, <3>2
    <2> QED BY <2>1, <2>2
  <1>2. row' \in Table /\ row'[s] = w /\ \A t \in Subs \ {s} : row'[t] = row[t]
    BY <1>1 DEF IInv, Table
  <1>3. /\ RowsFree({s}) /\ row[s].status # "deleted"
        /\ UNCHANGED <<record, txn, task, resetting, now, owed, wasReset>>
    BY DEF Invalidate, Delete, Exists
  <1>4. IInv' BY <1>2, <1>3 DEF IInv
  <1> QED BY <1>1, <1>2, <1>3, <1>4

\* The plan and the clock.
LEMMA ClockKeeps ==
    ASSUME IInv, StopResets \/ Tick
    PROVE  IInv' /\ row' = row /\ txn' = txn /\ task' = task
  <1>1. CASE StopResets BY <1>1 DEF StopResets, IInv
  <1>2. CASE Tick
    <2>1. now' \in 0..MaxTime BY <1>2, LedgerAssumption DEF Tick, IInv
    <2> QED BY <1>2, <2>1 DEF Tick, IInv
  <1> QED BY <1>1, <1>2

\* Every step is one of these.
LEMMA Cases ==
    ASSUME Next
    PROVE  \/ \E r \in Requests : PreConsume(r) \/ Settle(r) \/ Refund(r)
           \/ \E r \in Requests : CommitPreConsume(r) \/ CommitDelta(r)
           \/ \E r \in Requests : MarkRefunded(r)
           \/ ExpireDue
           \/ ListDue \/ EndBatch
           \/ \E s \in Subs : ReadDue(s)
           \/ CommitReset
           \/ \E s \in Subs : Invalidate(s) \/ Delete(s)
           \/ StopResets \/ Tick
  BY DEF Next, Request, Maintain

\* IInv is inductive.
LEMMA NextIInv == IInv /\ [Next]_vars => IInv'
  <1> SUFFICES ASSUME IInv, [Next]_vars PROVE IInv' OBVIOUS
  <1>1. CASE UNCHANGED vars BY <1>1 DEF vars, IInv
  <1>2. CASE Next
    BY <1>2, Cases, RequestReads, RequestCommits, MarkKeeps, ExpireKeeps, ListKeeps, TaskReads,
       TaskCommits, AdminKeeps, ClockKeeps
  <1> QED BY <1>1, <1>2

\* With or without row locks, every usage lies between 0 and the total, whatever is settled or
\* refunded after a reset, and the task counts no more resets than a batch has.
THEOREM TypeCorrect == Spec => []TypeOK
  <1>1. Spec => []IInv BY InitIInv, NextIInv, PTL DEF Spec
  <1> QED BY <1>1, InvTyped, PTL

-----------------------------------------------------------------------------
\* With row locks.

\* What no step may do to a row.
RowKept(s) ==
    /\ row[s].status \in {"cancelled", "deleted"} => row'[s].status \in {"cancelled", "deleted"}
    /\ row'[s].last >= row[s].last

\* Rows that are free are in no open transaction.
LEMMA FreeOfAll ==
    ASSUME RowLocks, NEW S, RowsFree(S)
    PROVE  /\ \A r \in Requests : S \cap DOMAIN txn[r].copy = {}
           /\ S \cap DOMAIN task.copy = {}
  BY DEF RowsFree, Locked

\* A copy stays fresh while its rows are not written.
LEMMA FreshStays ==
    ASSUME NEW copy, NEW rows, NEW rows2, Fresh(copy, rows),
           \A s \in DOMAIN copy : rows2[s] = rows[s]
    PROVE  Fresh(copy, rows2)
  BY DEF Fresh

\* A copy of no row is fresh.
LEMMA EmptyFresh ==
    ASSUME NEW copy, NEW rows, DOMAIN copy = {}
    PROVE  Fresh(copy, rows)
  BY DEF Fresh

\* The last reset of a row is a number.
LEMMA LastIs == ASSUME row \in Table, NEW s \in Subs PROVE row[s].last \in Nat
  BY DEF Table, Row

\* A row that is not written is kept.
LEMMA SameKept ==
    ASSUME IInv, NEW s \in Subs, row'[s] = row[s]
    PROVE  RowKept(s)
  <1>1. row[s].last \in Nat BY LastIs DEF IInv
  <1> QED BY <1>1 DEF RowKept

\* The save of a fresh copy writes only rows of the copy, and keeps their status and resets.
LEMMA SaveKept ==
    ASSUME IInv, NEW copy, NEW dirty, IsCopy(copy), dirty \subseteq DOMAIN copy,
           Fresh(copy, row), Save(copy, dirty)
    PROVE  /\ \A s \in Subs : RowKept(s)
           /\ \A s \in Subs \ DOMAIN copy : row'[s] = row[s]
  <1>1. \A s \in Subs : row'[s] = IF s \in dirty THEN copy[s] ELSE row[s]
    BY SaveIs DEF IInv
  <1>2. \A s \in Subs \ DOMAIN copy : row'[s] = row[s] BY <1>1
  <1>3. ASSUME NEW s \in Subs PROVE RowKept(s)
    <2>1. CASE s \in dirty BY <1>1, <2>1 DEF Fresh, RowKept
    <2>2. CASE s \notin dirty BY <1>1, <2>2, SameKept
    <2> QED BY <2>1, <2>2
  <1> QED BY <1>2, <1>3

\* A request opens a transaction on free rows, or closes the one it has; the rows of the other
\* transactions are not written.
LEMMA RequestApart ==
    ASSUME RowLocks, LInv, IInv', NEW r \in Requests, NEW t, TxnFits(t),
           txn' = [txn EXCEPT ![r] = t], task' = task,
           DOMAIN t.copy = {} \/ (RowsFree(DOMAIN t.copy) /\ Fresh(t.copy, row')),
           \A s \in Subs \ DOMAIN txn[r].copy : row'[s] = row[s]
    PROVE  LInv'
  <1>0. IInv /\ Apart /\ Fresh(task.copy, row) /\ \A q \in Requests : Fresh(txn[q].copy, row)
    BY DEF LInv
  <1>1. txn'[r] = t /\ \A q \in Requests \ {r} : txn'[q] = txn[q]
    BY <1>0, TxnMoves
  <1>2. /\ \A q \in Requests \ {r} : DOMAIN t.copy \cap DOMAIN txn[q].copy = {}
        /\ DOMAIN t.copy \cap DOMAIN task.copy = {}
    <2>1. CASE DOMAIN t.copy = {} BY <2>1
    <2>2. CASE RowsFree(DOMAIN t.copy) BY <2>2, FreeOfAll
    <2> QED BY <2>1, <2>2
  <1>3. Apart' BY <1>0, <1>1, <1>2 DEF Apart
  <1>4. Fresh(t.copy, row') BY EmptyFresh
  <1>5. \A q \in Requests \ {r} : Fresh(txn[q].copy, row')
    <2> SUFFICES ASSUME NEW q \in Requests \ {r} PROVE Fresh(txn[q].copy, row')
      OBVIOUS
    <2>1. DOMAIN txn[q].copy \subseteq Subs \ DOMAIN txn[r].copy
      <3>1. DOMAIN txn[q].copy \subseteq Subs BY <1>0 DEF IInv, TxnFits, IsCopy
      <3>2. DOMAIN txn[r].copy \cap DOMAIN txn[q].copy = {} BY <1>0 DEF Apart
      <3> QED BY <3>1, <3>2
    <2>2. \A s \in DOMAIN txn[q].copy : row'[s] = row[s] BY <2>1
    <2> QED BY <1>0, <2>2, FreshStays
  <1>6. Fresh(task.copy, row')
    <2>1. DOMAIN task.copy \subseteq Subs \ DOMAIN txn[r].copy
      <3>1. DOMAIN task.copy \subseteq Subs BY <1>0 DEF IInv, RoundFits, IsCopy
      <3>2. DOMAIN txn[r].copy \cap DOMAIN task.copy = {} BY <1>0 DEF Apart
      <3> QED BY <3>1, <3>2
    <2>2. \A s \in DOMAIN task.copy : row'[s] = row[s] BY <2>1
    <2> QED BY <1>0, <2>2, FreshStays
  <1> QED BY <1>1, <1>3, <1>4, <1>5, <1>6 DEF LInv

\* The same for the task.
LEMMA TaskApart ==
    ASSUME RowLocks, LInv, IInv', txn' = txn,
           DOMAIN task'.copy = {} \/ (RowsFree(DOMAIN task'.copy) /\ Fresh(task'.copy, row')),
           \A r \in Requests : \A s \in DOMAIN txn[r].copy : row'[s] = row[s]
    PROVE  LInv'
  <1>0. IInv /\ Apart /\ \A q \in Requests : Fresh(txn[q].copy, row) BY DEF LInv
  <1>1. \A r \in Requests : DOMAIN txn[r].copy \cap DOMAIN task'.copy = {}
    <2>1. CASE DOMAIN task'.copy = {} BY <2>1
    <2>2. CASE RowsFree(DOMAIN task'.copy) BY <2>2, FreeOfAll
    <2> QED BY <2>1, <2>2
  <1>2. Apart' BY <1>0, <1>1 DEF Apart
  <1>3. Fresh(task'.copy, row') BY EmptyFresh
  <1>4. \A r \in Requests : Fresh(txn[r].copy, row') BY <1>0, FreshStays
  <1> QED BY <1>2, <1>3, <1>4 DEF LInv

\* Every step keeps LInv and every row.
LEMMA NextLInv ==
    ASSUME RowLocks, LInv, [Next]_vars
    PROVE  LInv' /\ \A s \in Subs : RowKept(s)
  <1>0. IInv /\ Apart /\ Fresh(task.copy, row) /\ \A q \in Requests : Fresh(txn[q].copy, row)
    BY DEF LInv
  <1>d. /\ \A r \in Requests : IsCopy(txn[r].copy) /\ txn[r].dirty \subseteq DOMAIN txn[r].copy
                               /\ DOMAIN txn[r].copy \subseteq Subs
        /\ IsCopy(task.copy) /\ task.dirty \subseteq DOMAIN task.copy
        /\ DOMAIN task.copy \subseteq Subs
    BY <1>0 DEF IInv, TxnFits, RoundFits, IsCopy
  <1>1. CASE UNCHANGED vars
    BY <1>1, SameKept DEF vars, LInv, IInv, Apart
  <1>2. CASE \E r \in Requests : PreConsume(r) \/ Settle(r) \/ Refund(r)
    <2>1. PICK r \in Requests : PreConsume(r) \/ Settle(r) \/ Refund(r) BY <1>2
    <2>2. /\ IInv' /\ row' = row /\ task' = task
          /\ \E t : /\ TxnFits(t) /\ txn' = [txn EXCEPT ![r] = t]
                    /\ \/ DOMAIN t.copy = {}
                       \/ RowsFree(DOMAIN t.copy) /\ Fresh(t.copy, row)
      BY <1>0, <2>1, RequestReads
    <2>3. LInv' BY <2>2, RequestApart
    <2> QED BY <1>0, <2>2, <2>3, SameKept
  <1>3. CASE \E r \in Requests : CommitPreConsume(r) \/ CommitDelta(r)
    <2>1. PICK r \in Requests : CommitPreConsume(r) \/ CommitDelta(r) BY <1>3
    <2>2. /\ IInv' /\ Save(txn[r].copy, txn[r].dirty) /\ task' = task
          /\ \E t : TxnFits(t) /\ DOMAIN t.copy = {} /\ txn' = [txn EXCEPT ![r] = t]
      BY <1>0, <2>1, RequestCommits
    <2>3. /\ \A s \in Subs : RowKept(s)
          /\ \A s \in Subs \ DOMAIN txn[r].copy : row'[s] = row[s]
      BY <1>0, <1>d, <2>2, SaveKept
    <2>4. LInv' BY <2>2, <2>3, RequestApart
    <2> QED BY <2>3, <2>4
  <1>4. CASE \E r \in Requests : MarkRefunded(r)
    <2>1. PICK r \in Requests : MarkRefunded(r) BY <1>4
    <2>2. /\ IInv' /\ row' = row /\ task' = task
          /\ \E t : TxnFits(t) /\ DOMAIN t.copy = {} /\ txn' = [txn EXCEPT ![r] = t]
      BY <1>0, <2>1, MarkKeeps
    <2>3. LInv' BY <2>2, RequestApart
    <2> QED BY <1>0, <2>2, <2>3, SameKept
  <1>5. CASE ExpireDue
    <2>1. IInv' /\ txn' = txn /\ DOMAIN task'.copy = {} BY <1>0, <1>5, ExpireKeeps
    <2>2. PICK S \in SUBSET Subs :
            /\ RowsFree(S)
            /\ \A s \in Subs \ S : row'[s] = row[s]
            /\ \A s \in S : row[s].status = "active" /\ row'[s].last = row[s].last
      BY <1>0, <1>5, ExpireKeeps
    <2>3. \A r \in Requests : \A s \in DOMAIN txn[r].copy : row'[s] = row[s]
      BY <1>d, <2>2, FreeOfAll
    <2>4. LInv' BY <2>1, <2>3, TaskApart
    <2>5. ASSUME NEW s \in Subs PROVE RowKept(s)
      <3>1. CASE s \in S
        <4>1. row[s].last \in Nat BY <1>0, LastIs DEF IInv
        <4> QED BY <2>2, <3>1, <4>1 DEF RowKept
      <3>2. CASE s \notin S BY <1>0, <2>2, <3>2, SameKept
      <3> QED BY <3>1, <3>2
    <2> QED BY <2>4, <2>5
  <1>6. CASE ListDue \/ EndBatch
    <2>1. IInv' /\ row' = row /\ txn' = txn /\ DOMAIN task'.copy = {} BY <1>0, <1>6, ListKeeps
    <2>2. LInv' BY <2>1, TaskApart
    <2> QED BY <1>0, <2>1, <2>2, SameKept
  <1>7. CASE \E s \in Subs : ReadDue(s)
    <2>1. /\ IInv' /\ row' = row /\ txn' = txn
          /\ DOMAIN task'.copy = {} \/ (RowsFree(DOMAIN task'.copy) /\ Fresh(task'.copy, row))
      BY <1>0, <1>7, TaskReads
    <2>2. LInv' BY <2>1, TaskApart
    <2> QED BY <1>0, <2>1, <2>2, SameKept
  <1>8. CASE CommitReset
    <2>1. IInv' /\ Save(task.copy, task.dirty) /\ txn' = txn /\ DOMAIN task'.copy = {}
      BY <1>0, <1>8, TaskCommits
    <2>2. /\ \A s \in Subs : RowKept(s)
          /\ \A s \in Subs \ DOMAIN task.copy : row'[s] = row[s]
      BY <1>0, <1>d, <2>1, SaveKept
    <2>3. \A r \in Requests : \A s \in DOMAIN txn[r].copy : row'[s] = row[s]
      BY <1>0, <1>d, <2>2 DEF Apart
    <2>4. LInv' BY <2>1, <2>3, TaskApart
    <2> QED BY <2>2, <2>4
  <1>9. CASE \E s \in Subs : Invalidate(s) \/ Delete(s)
    <2>1. PICK s \in Subs : Invalidate(s) \/ Delete(s) BY <1>9
    <2>2. /\ IInv' /\ txn' = txn /\ task' = task /\ RowsFree({s})
          /\ \A t \in Subs \ {s} : row'[t] = row[t]
          /\ row'[s].status \in {"cancelled", "deleted"} /\ row'[s].last = row[s].last
      BY <1>0, <2>1, AdminKeeps
    <2>3. /\ \A r \in Requests : {s} \cap DOMAIN txn[r].copy = {}
          /\ {s} \cap DOMAIN task.copy = {}
      BY <2>2, FreeOfAll
    <2>4. /\ \A r \in Requests : \A t \in DOMAIN txn[r].copy : row'[t] = row[t]
          /\ \A t \in DOMAIN task.copy : row'[t] = row[t]
      BY <1>d, <2>2, <2>3
    <2>5. /\ \A r \in Requests : Fresh(txn[r].copy, row')
          /\ Fresh(task.copy, row')
      BY <1>0, <2>4, FreshStays
    <2>6. LInv' BY <1>0, <2>2, <2>5 DEF LInv, Apart
    <2>7. ASSUME NEW t \in Subs PROVE RowKept(t)
      <3>1. CASE t = s
        <4>1. row[s].last \in Nat BY <1>0, LastIs DEF IInv
        <4> QED BY <2>2, <3>1, <4>1 DEF RowKept
      <3>2. CASE t # s BY <1>0, <2>2, <3>2, SameKept
      <3> QED BY <3>1, <3>2
    <2> QED BY <2>6, <2>7
  <1>10. CASE StopResets \/ Tick
    <2>1. IInv' /\ row' = row /\ txn' = txn /\ task' = task BY <1>0, <1>10, ClockKeeps
    <2>2. LInv' BY <1>0, <2>1 DEF LInv, Apart
    <2> QED BY <1>0, <2>1, <2>2, SameKept
  <1> QED BY <1>1, <1>2, <1>3, <1>4, <1>5, <1>6, <1>7, <1>8, <1>9, <1>10, Cases

\* At first no transaction is open.
LEMMA InitLInv == Init => LInv
  <1> SUFFICES ASSUME Init PROVE LInv OBVIOUS
  <1>1. /\ \A r \in Requests : DOMAIN txn[r].copy = {}
        /\ DOMAIN task.copy = {}
    BY ClosedFits, BeginEmpty DEF Init
  <1> QED BY <1>1, InitIInv, EmptyFresh DEF LInv, Apart

\* With row locks, no transaction that was open when an administrator cancelled or deleted a
\* subscription brings it back: the columns it saves are those of a row nobody has changed.
THEOREM EndIsFinal == ASSUME RowLocks PROVE Spec => EndedStaysEnded
  <1>1. LInv /\ [Next]_vars => LInv' BY NextLInv
  <1>2. LInv /\ [Next]_vars =>
          [\A s \in Subs : row[s].status \in {"cancelled", "deleted"}
              => row'[s].status \in {"cancelled", "deleted"}]_vars
    BY NextLInv DEF RowKept
  <1> QED BY <1>1, <1>2, InitLInv, PTL DEF Spec, EndedStaysEnded

\* With row locks, no reset is lost: whichever transactions are open, the time of the last reset
\* of a subscription never goes back.
THEOREM ResetsAreKept == ASSUME RowLocks PROVE Spec => ResetsAdvance
  <1>1. LInv /\ [Next]_vars => LInv' BY NextLInv
  <1>2. LInv /\ [Next]_vars => [\A s \in Subs : row'[s].last >= row[s].last]_vars
    BY NextLInv DEF RowKept
  <1> QED BY <1>1, <1>2, InitLInv, PTL DEF Spec, ResetsAdvance

-----------------------------------------------------------------------------
\* Sums over finite sets of requests.

\* g is the sum of f over every subset of S.
Adds(g, f, S) ==
    /\ g \in [SUBSET S -> Int] /\ g[{}] = 0
    /\ \A U \in SUBSET S : \A x \in U : g[U] = f[x] + g[U \ {x}]

\* Induction on the subsets of a finite set: a family of them that is not empty has a member
\* from which no element can be taken without leaving the family.
LEMMA Smallest ==
    ASSUME NEW S, IsFiniteSet(S), NEW Bad \in SUBSET (SUBSET S), Bad # {}
    PROVE  \E T \in Bad : \A x \in T : T \ {x} \notin Bad
  <1>1. FiniteSubsetsOf(S) = SUBSET S
    BY FS_Subset DEF FiniteSubsetsOf
  <1>2. IsWellFoundedOn(StrictSubsetOrdering(S), SUBSET S)
    BY <1>1, FS_StrictSubsetOrderingWellFounded
  <1>3. PICK T \in Bad : \A U \in Bad : ~(<<U, T>> \in StrictSubsetOrdering(S))
    BY <1>2, WFMin
  <1>4. ASSUME NEW x \in T, T \ {x} \in Bad PROVE FALSE
    <2>1. <<T \ {x}, T>> \in StrictSubsetOrdering(S)
      BY <1>4 DEF StrictSubsetOrdering
    <2> QED BY <1>3, <1>4, <2>1
  <1> QED BY <1>4

\* Every finite set has a sum.
LEMMA SumExists ==
    ASSUME NEW S, IsFiniteSet(S), NEW f, \A x \in S : f[x] \in Int
    PROVE  \E g : Adds(g, f, S)
  <1> DEFINE Bad == { T \in SUBSET S : ~ \E g : Adds(g, f, T) }
  <1>1. SUFFICES ASSUME Bad # {} PROVE FALSE
    OBVIOUS
  <1>2. PICK T \in Bad : \A x \in T : T \ {x} \notin Bad
    BY <1>1, Smallest
  <1>3. CASE T = {}
    <2> DEFINE g == [U \in SUBSET T |-> 0]
    <2>1. Adds(g, f, T) BY <1>3 DEF Adds
    <2> QED BY <2>1
  <1>4. CASE T # {}
    <2>1. PICK a \in T : TRUE BY <1>4
    <2>2. PICK h : Adds(h, f, T \ {a}) BY <1>2, <2>1
    <2> DEFINE g == [U \in SUBSET T |-> IF a \in U THEN f[a] + h[U \ {a}] ELSE h[U]]
    <2>3. \A U \in SUBSET T : /\ U \ {a} \in SUBSET (T \ {a})
                              /\ a \notin U => U \in SUBSET (T \ {a})
      OBVIOUS
    <2>4. f[a] \in Int BY <2>1
    <2>5. g \in [SUBSET T -> Int] BY <2>2, <2>3, <2>4 DEF Adds
    <2>6. g[{}] = 0 BY <2>2 DEF Adds
    <2>7. ASSUME NEW U \in SUBSET T, NEW x \in U PROVE g[U] = f[x] + g[U \ {x}]
      <3>0. U \ {x} \in SUBSET T /\ f[x] \in Int BY <2>7
      <3>1. CASE x = a
        <4>1. g[U] = f[a] + h[U \ {a}] BY <3>1
        <4>2. g[U \ {x}] = h[U \ {a}] BY <3>0, <3>1
        <4> QED BY <3>1, <4>1, <4>2
      <3>2. CASE x # a /\ a \in U
        <4>1. g[U] = f[a] + h[U \ {a}] BY <3>2
        <4>2. g[U \ {x}] = f[a] + h[(U \ {x}) \ {a}] BY <3>0, <3>2
        <4>3. (U \ {x}) \ {a} = (U \ {a}) \ {x} OBVIOUS
        <4>7. g[U \ {x}] = f[a] + h[(U \ {a}) \ {x}] BY <4>2, <4>3, Zenon
        <4>4. x \in U \ {a} /\ U \ {a} \in SUBSET (T \ {a}) BY <3>2
        <4>5. h[U \ {a}] = f[x] + h[(U \ {a}) \ {x}] BY <2>2, <4>4 DEF Adds
        <4>6. h[(U \ {a}) \ {x}] \in Int BY <2>2, <4>4 DEF Adds
        <4> HIDE DEF g
        <4>8. \A i, j, k \in Int : i + (j + k) = j + (i + k) OBVIOUS
        <4> QED BY <2>4, <3>0, <4>1, <4>5, <4>6, <4>7, <4>8
      <3>3. CASE a \notin U
        <4>1. g[U] = h[U] /\ g[U \ {x}] = h[U \ {x}] BY <3>0, <3>3
        <4>2. U \in SUBSET (T \ {a}) BY <3>3
        <4> QED BY <2>2, <4>1, <4>2 DEF Adds
      <3> QED BY <3>1, <3>2, <3>3
    <2>8. Adds(g, f, T) BY <2>5, <2>6, <2>7 DEF Adds
    <2> QED BY <2>8
  <1> QED BY <1>3, <1>4

\* The sum of the library: a function that takes the elements out in some order.
LEMMA FoldIs ==
    ASSUME NEW S, NEW f
    PROVE Sum(f, S) = (CHOOSE g : g = [s \in SUBSET S |-> IF s = {} THEN 0
                         ELSE f[CHOOSE x \in s : TRUE] + g[s \ {CHOOSE x \in s : TRUE}]])[S]
  BY DEF Sum, MapThenSumSet, MapThenFoldSet

\* It is the sum, whatever the order.
LEMMA SumIs ==
    ASSUME NEW S, IsFiniteSet(S), NEW f, NEW g, Adds(g, f, S), NEW T \in SUBSET S
    PROVE  Sum(f, T) = g[T]
  <1> DEFINE pick(s) == CHOOSE x \in s : TRUE
             rec(i) == [s \in SUBSET T |-> IF s = {} THEN 0 ELSE f[pick(s)] + i[s \ {pick(s)}]]
             h == [s \in SUBSET T |-> g[s]]
             iter == CHOOSE i : i = rec(i)
  <1>1. \A s : s # {} => pick(s) \in s OBVIOUS
  <1>2. h = rec(h)
    <2> SUFFICES ASSUME NEW s \in SUBSET T
                 PROVE  g[s] = IF s = {} THEN 0 ELSE f[pick(s)] + g[s \ {pick(s)}]
      OBVIOUS
    <2> HIDE DEF pick
    <2> QED BY <1>1 DEF Adds
  <1>3. iter = rec(iter) BY <1>2
  <1>4. Sum(f, T) = iter[T] BY FoldIs
  <1> DEFINE Bad == { s \in SUBSET T : iter[s] # g[s] }
  <1>5. Bad = {}
    <2> SUFFICES ASSUME Bad # {} PROVE FALSE OBVIOUS
    <2>0. IsFiniteSet(T) BY FS_Subset
    <2>1. PICK s \in Bad : \A x \in s : s \ {x} \notin Bad
      <3> HIDE DEF iter
      <3> QED BY <2>0, Smallest
    <2>2. iter[s] = IF s = {} THEN 0 ELSE f[pick(s)] + iter[s \ {pick(s)}]
      <3> HIDE DEF iter
      <3> QED BY <1>3
    <2> HIDE DEF iter, pick
    <2>3. CASE s = {} BY <2>1, <2>2, <2>3 DEF Adds
    <2>4. CASE s # {}
      <3>1. pick(s) \in s BY <1>1, <2>4
      <3>2. s \ {pick(s)} \in SUBSET T /\ s \in SUBSET S BY <3>1
      <3>3. iter[s \ {pick(s)}] = g[s \ {pick(s)}] BY <2>1, <3>1, <3>2
      <3>4. g[s] = f[pick(s)] + g[s \ {pick(s)}] BY <3>1, <3>2 DEF Adds
      <3> QED BY <2>1, <2>2, <2>4, <3>3, <3>4
    <2> QED BY <2>3, <2>4
  <1> HIDE DEF iter
  <1>6. iter[T] = g[T] BY <1>5
  <1> QED BY <1>4, <1>6

\* A sum is a number; one of its terms may be taken out.
LEMMA SumType ==
    ASSUME NEW S, IsFiniteSet(S), NEW f, \A x \in S : f[x] \in Int
    PROVE  /\ Sum(f, S) \in Int
           /\ \A x \in S : Sum(f, S) = f[x] + Sum(f, S \ {x})
           /\ Sum(f, {}) = 0
  <1>1. PICK g : Adds(g, f, S) BY SumExists
  <1>2. \A T \in SUBSET S : Sum(f, T) = g[T] BY <1>1, SumIs
  <1>3. S \in SUBSET S /\ {} \in SUBSET S OBVIOUS
  <1> QED BY <1>1, <1>2, <1>3 DEF Adds

\* Equal terms have equal sums.
LEMMA SumSame ==
    ASSUME NEW S, IsFiniteSet(S), NEW f, NEW h, \A x \in S : f[x] \in Int /\ h[x] = f[x]
    PROVE  Sum(h, S) = Sum(f, S)
  <1>1. PICK g : Adds(g, f, S) BY SumExists
  <1>2. Adds(g, h, S) BY <1>1 DEF Adds
  <1>3. S \in SUBSET S OBVIOUS
  <1> QED BY <1>1, <1>2, <1>3, SumIs

\* A sum changes by what one of its terms changes.
LEMMA SumChange ==
    ASSUME NEW S, IsFiniteSet(S), NEW f, NEW h, NEW a \in S,
           \A x \in S : f[x] \in Int /\ h[x] \in Int,
           \A x \in S \ {a} : h[x] = f[x]
    PROVE  Sum(h, S) = Sum(f, S) + (h[a] - f[a])
  <1>1. IsFiniteSet(S \ {a}) BY FS_RemoveElement
  <1>2. Sum(h, S \ {a}) = Sum(f, S \ {a}) /\ Sum(f, S \ {a}) \in Int
    BY <1>1, SumSame, SumType
  <1>3. Sum(f, S) = f[a] + Sum(f, S \ {a}) /\ Sum(h, S) = h[a] + Sum(h, S \ {a})
    BY SumType
  <1>4. \A i, j, k \in Int : j + k = (i + k) + (j - i) OBVIOUS
  <1> QED BY <1>2, <1>3, <1>4

\* A sum of zeros.
LEMMA SumZero ==
    ASSUME NEW S, IsFiniteSet(S), NEW f, \A x \in S : f[x] = 0
    PROVE  Sum(f, S) = 0
  <1> DEFINE g == [U \in SUBSET S |-> 0]
  <1>1. Adds(g, f, S) BY DEF Adds
  <1>2. S \in SUBSET S OBVIOUS
  <1>3. Sum(f, S) = g[S] BY <1>1, <1>2, SumIs
  <1> QED BY <1>3

\* A sum of natural numbers is no less than any of its terms.
LEMMA SumNat ==
    ASSUME NEW S, IsFiniteSet(S), NEW f, \A x \in S : f[x] \in Nat
    PROVE  Sum(f, S) \in Nat /\ \A x \in S : Sum(f, S) >= f[x]
  <1>0. \A x \in S : f[x] \in Int OBVIOUS
  <1>1. PICK g : Adds(g, f, S) BY <1>0, SumExists
  <1> DEFINE Bad == { T \in SUBSET S : g[T] \notin Nat }
  <1>2. Bad = {}
    <2> SUFFICES ASSUME Bad # {} PROVE FALSE OBVIOUS
    <2>1. PICK T \in Bad : \A x \in T : T \ {x} \notin Bad BY Smallest
    <2>2. CASE T = {} BY <1>1, <2>2 DEF Adds
    <2>3. CASE T # {}
      <3>1. PICK x \in T : TRUE BY <2>3
      <3>2. g[T] = f[x] + g[T \ {x}] /\ g[T \ {x}] \in Nat BY <1>1, <2>1, <3>1 DEF Adds
      <3>3. f[x] \in Nat OBVIOUS
      <3> QED BY <3>2, <3>3
    <2> QED BY <2>2, <2>3
  <1>3. S \in SUBSET S OBVIOUS
  <1>4. Sum(f, S) = g[S] BY <1>1, <1>3, SumIs
  <1>5. ASSUME NEW x \in S PROVE Sum(f, S) >= f[x]
    <2>1. S \ {x} \in SUBSET S OBVIOUS
    <2>2. g[S] = f[x] + g[S \ {x}] /\ g[S \ {x}] \in Nat BY <1>1, <1>2, <1>3, <2>1 DEF Adds
    <2>3. f[x] \in Nat OBVIOUS
    <2> QED BY <1>4, <2>2, <2>3
  <1> QED BY <1>2, <1>3, <1>4, <1>5

-----------------------------------------------------------------------------
\* With row locks, a subscription is charged for what its requests have taken.

\* The takers of a subscription are finitely many, and what they owe is a number.
LEMMA TakersIs ==
    ASSUME IInv, NEW s
    PROVE  /\ Takers(s) \subseteq Requests /\ IsFiniteSet(Takers(s))
           /\ \A r \in Takers(s) : owed[r] \in Nat
           /\ Sum(owed, Takers(s)) \in Nat
  <1>1. Takers(s) \subseteq Requests BY DEF Takers
  <1>2. IsFiniteSet(Takers(s)) BY <1>1, LedgerAssumption, FS_Subset
  <1>3. \A r \in Takers(s) : owed[r] \in Nat BY <1>1 DEF IInv
  <1>4. Sum(owed, Takers(s)) \in Nat BY <1>2, <1>3, SumNat
  <1> QED BY <1>1, <1>2, <1>3, <1>4

\* The property for one subscription.
Owing(s) ==
    row[s].status # "deleted" =>
        /\ row[s].used <= Sum(owed, Takers(s))
        /\ ~wasReset => row[s].used = Sum(owed, Takers(s))

\* UsedIsOwed, one subscription at a time.
LEMMA OwingIs == UsedIsOwed <=> \A s \in Subs : Owing(s)
  BY DEF UsedIsOwed, Owing

\* A request's books stay while its row copies, its record and its debt do.
LEMMA BooksStay ==
    ASSUME NEW q \in Requests, TxnBooks(q), txn'[q] = txn[q], record'[q] = record[q],
           \A s \in DOMAIN txn[q].copy : row'[s].used = row[s].used /\ row'[s].last = row[s].last,
           txn[q].dirty \subseteq DOMAIN txn[q].copy,
           wasReset' \/ (~wasReset /\ owed'[q] = owed[q])
    PROVE  TxnBooks(q)'
  <1>1. PreBooks(txn[q], record[q].sub, row) => PreBooks(txn'[q], record'[q].sub, row')
    BY DEF PreBooks, Carried
  <1>2. DeltaBooks(txn[q], record[q].sub, row) => DeltaBooks(txn'[q], record'[q].sub, row')
    BY DEF DeltaBooks
  <1> QED BY <1>1, <1>2 DEF TxnBooks

\* So do the task's.
LEMMA TaskBooksStay ==
    ASSUME TaskBooks, task' = task,
           \A s \in DOMAIN task.copy : row'[s].used = row[s].used /\ row'[s].last = row[s].last
    PROVE  TaskBooks'
  BY DEF TaskBooks, Carried

\* A subscription's debt stays while its usage, its takers and what they owe do.
LEMMA OwingStays ==
    ASSUME NEW s \in Subs, Owing(s), Takers(s)' = Takers(s), owed' = owed, wasReset' = wasReset,
           row'[s].used = row[s].used,
           row'[s].status # "deleted" => row[s].status # "deleted"
    PROVE  Owing(s)'
  <1>1. Sum(owed, Takers(s))' = Sum(owed, Takers(s)) OBVIOUS
  <1> QED BY <1>1 DEF Owing

\* What a request reads for its transaction goes into its books.
LEMMA ReadBooks ==
    ASSUME UInv, LInv', NEW r \in Requests, PreConsume(r) \/ Settle(r) \/ Refund(r)
    PROVE  UInv'
  <1>0. IInv /\ TaskBooks /\ (\A q \in Requests : TxnBooks(q)) /\ \A s \in Subs : Owing(s)
    BY OwingIs DEF UInv, LInv
  <1>1. /\ UNCHANGED <<row, task, owed, wasReset>>
        /\ \E t : /\ TxnFits(t) /\ txn' = [txn EXCEPT ![r] = t]
                  /\ \/ DOMAIN t.copy = {}
                     \/ RowsFree(DOMAIN t.copy) /\ Fresh(t.copy, row)
    BY <1>0, RequestReads DEF PreConsume, Settle, Refund, ReadDelta
  <1>2. \A q \in Requests \ {r} : txn'[q] = txn[q] BY <1>0, <1>1, TxnMoves
  <1>3. TxnBooks(r)' /\ (\A q \in Requests \ {r} : record'[q] = record[q])
        /\ (\A s : Takers(s)' = Takers(s))
    <2>1. CASE PreConsume(r)
      <3>1. PICK t : /\ TxnFits(t) /\ txn' = [txn EXCEPT ![r] = t]
                     /\ \/ t.at = "done" /\ record' = record
                        \/ /\ t.at = "pre"
                           /\ \E s \in Subs : /\ record' = [record EXCEPT ![r].sub = s]
                                             /\ PreBooks(t, s, row)
        BY <1>0, <2>1, PreConsumeReads
      <3>2. txn'[r] = t BY <1>0, <3>1, TxnMoves
      <3>3. txn[r].at = "new" BY <2>1 DEF PreConsume
      <3>4. record[r].status = "none" BY <1>0, <3>3 DEF TxnBooks
      <3>5. CASE t.at = "done" /\ record' = record
        BY <3>2, <3>5 DEF TxnBooks, Takers
      <3>6. CASE /\ t.at = "pre"
                 /\ \E s \in Subs : record' = [record EXCEPT ![r].sub = s] /\ PreBooks(t, s, row)
        <4>1. PICK s \in Subs : record' = [record EXCEPT ![r].sub = s] /\ PreBooks(t, s, row)
          BY <3>6
        <4>2. /\ record'[r].sub = s /\ record'[r].status = record[r].status
              /\ \A q \in Requests \ {r} : record'[q] = record[q]
          BY <1>0, <4>1 DEF IInv, Record
        <4>3. TxnBooks(r)' BY <1>1, <3>2, <3>4, <3>6, <4>1, <4>2 DEF TxnBooks
        <4>4. \A u : Takers(u)' = Takers(u) BY <3>4, <4>2 DEF Takers
        <4> QED BY <4>2, <4>3, <4>4
      <3> QED BY <3>1, <3>5, <3>6
    <2>2. ASSUME NEW delta \in Int, NEW at \in {"settle", "refund"}, ReadDelta(r, delta, at),
                 txn[r].at = "open", record[r].amount + delta >= 0
          PROVE  TxnBooks(r)' /\ record' = record
      <3>1. PICK t : /\ TxnFits(t) /\ txn' = [txn EXCEPT ![r] = t]
                     /\ \/ t.at = "done"
                        \/ t.at = at /\ t.amount = delta /\ DeltaBooks(t, record[r].sub, row)
        BY <1>0, <2>2, DeltaReads
      <3>2. txn'[r] = t BY <1>0, <3>1, TxnMoves
      <3>3. record' = record BY <2>2 DEF ReadDelta
      <3>4. TxnBooks(r) BY <1>0
      <3>5. CASE t.at = "done" BY <3>2, <3>3, <3>5 DEF TxnBooks
      <3>6. CASE t.at = at /\ t.amount = delta /\ DeltaBooks(t, record[r].sub, row)
        BY <1>1, <2>2, <3>2, <3>3, <3>4, <3>6 DEF TxnBooks
      <3> QED BY <3>1, <3>3, <3>5, <3>6
    <2>3. CASE Settle(r)
      <3>1. PICK delta \in Deltas : ReadDelta(r, delta, "settle") BY <2>3 DEF Settle
      <3>2. txn[r].at = "open" BY <2>3 DEF Settle
      <3>3. record[r].amount \in Amounts BY <1>0, <3>2 DEF TxnBooks
      <3>4. delta \in Int /\ record[r].amount + delta >= 0 BY <3>3, LedgerAssumption
      <3>5. TxnBooks(r)' /\ record' = record BY <2>2, <3>1, <3>2, <3>4
      <3> QED BY <3>5 DEF Takers
    <2>4. CASE Refund(r)
      <3>1. ReadDelta(r, -record[r].amount, "refund") /\ txn[r].at = "open"
        BY <2>4 DEF Refund
      <3>2. record[r].amount \in Nat
        BY <1>0, <3>1, LedgerAssumption DEF TxnBooks
      <3>3. -record[r].amount \in Int /\ record[r].amount + (-record[r].amount) >= 0 BY <3>2
      <3>4. TxnBooks(r)' /\ record' = record BY <2>2, <3>1, <3>3
      <3> QED BY <3>4 DEF Takers
    <2> QED BY <2>1, <2>3, <2>4
  <1>4. \A q \in Requests \ {r} : TxnBooks(q)'
    <2> SUFFICES ASSUME NEW q \in Requests \ {r} PROVE TxnBooks(q)' OBVIOUS
    <2>1. TxnBooks(q) BY <1>0
    <2> QED BY <1>1, <1>2, <1>3, <2>1 DEF TxnBooks
  <1>5. TaskBooks' BY <1>0, <1>1 DEF TaskBooks
  <1>6. \A s \in Subs : Owing(s)' BY <1>0, <1>1, <1>3, OwingStays
  <1>7. UsedIsOwed' BY <1>6 DEF UsedIsOwed, Owing
  <1> QED BY <1>3, <1>4, <1>5, <1>7 DEF UInv

\* A request that commits writes rows of its own copies; the other books stay.
LEMMA OthersStay ==
    ASSUME UInv, NEW r \in Requests, CommitPreConsume(r) \/ CommitDelta(r),
           wasReset' \/ (~wasReset /\ \A q \in Requests \ {r} : owed'[q] = owed[q])
    PROVE  /\ TaskBooks' /\ \A q \in Requests \ {r} : TxnBooks(q)'
           /\ \A s \in Subs : row'[s] = IF s \in txn[r].dirty THEN txn[r].copy[s] ELSE row[s]
  <1>0. IInv /\ Apart /\ TaskBooks /\ \A q \in Requests : TxnBooks(q)
    BY DEF UInv, LInv
  <1>1. TxnFits(txn[r]) /\ Save(txn[r].copy, txn[r].dirty) /\ task' = task
    BY <1>0, RequestCommits DEF IInv
  <1>2. \A s \in Subs : row'[s] = IF s \in txn[r].dirty THEN txn[r].copy[s] ELSE row[s]
    BY <1>0, <1>1, SaveIs DEF IInv, TxnFits
  <1>3. \A q \in Requests \ {r} : txn'[q] = txn[q] /\ record'[q] = record[q]
    <2>1. \E t : TxnFits(t) /\ txn' = [txn EXCEPT ![r] = t] BY <1>0, RequestCommits
    <2>2. \A q \in Requests \ {r} : txn'[q] = txn[q] BY <1>0, <2>1, TxnMoves
    <2>3. \A q \in Requests \ {r} : record'[q] = record[q]
      BY <1>0 DEF CommitPreConsume, CommitDelta, IInv
    <2> QED BY <2>2, <2>3
  <1>4. \A s \in DOMAIN task.copy : row'[s] = row[s]
    <2>1. DOMAIN task.copy \subseteq Subs BY <1>0 DEF IInv, RoundFits, IsCopy
    <2>2. DOMAIN txn[r].copy \cap DOMAIN task.copy = {} BY <1>0 DEF Apart
    <2> QED BY <1>1, <1>2, <2>1, <2>2 DEF TxnFits
  <1>5. TaskBooks' BY <1>0, <1>1, <1>4, TaskBooksStay
  <1>6. ASSUME NEW q \in Requests \ {r} PROVE TxnBooks(q)'
    <2>1. DOMAIN txn[q].copy \subseteq Subs /\ txn[q].dirty \subseteq DOMAIN txn[q].copy
      BY <1>0 DEF IInv, TxnFits, IsCopy
    <2>2. DOMAIN txn[r].copy \cap DOMAIN txn[q].copy = {} BY <1>0 DEF Apart
    <2>3. \A s \in DOMAIN txn[q].copy : row'[s] = row[s]
      BY <1>1, <1>2, <2>1, <2>2 DEF TxnFits
    <2>4. TxnBooks(q) /\ txn'[q] = txn[q] /\ record'[q] = record[q] BY <1>0, <1>3
    <2>5. wasReset' \/ (~wasReset /\ owed'[q] = owed[q]) OBVIOUS
    <2> QED BY <2>1, <2>3, <2>4, <2>5, BooksStay
  <1> QED BY <1>2, <1>5, <1>6

\* The commit of a pre-consume: the request joins the takers of its subscription, and those of
\* the subscriptions it resets owe nothing any more.
LEMMA PreConsumeBooks ==
    ASSUME UInv, LInv', NEW r \in Requests, CommitPreConsume(r)
    PROVE  UInv'
  <1> DEFINE copy == txn[r].copy
             dirty == txn[r].dirty
             amount == txn[r].amount
             id == record[r].sub
             R == Resets(copy, dirty)
  <1>0. IInv /\ (\A q \in Requests : Fresh(txn[q].copy, row)) /\ (\A q \in Requests : TxnBooks(q))
        /\ \A s \in Subs : Owing(s)
    BY OwingIs DEF UInv, LInv
  <1>1. txn[r].at = "pre" BY DEF CommitPreConsume
  <1>2. TxnFits(txn[r]) /\ record[r].status = "none" /\ PreBooks(txn[r], id, row)
    BY <1>0, <1>1 DEF IInv, TxnBooks
  <1>3. amount \in Amounts /\ amount \in Nat BY <1>1, <1>2, LedgerAssumption DEF TxnFits
  <1>4. /\ record'[r].sub = id /\ record'[r].status = "consumed" /\ record'[r].amount = amount
        /\ \A q \in Requests \ {r} : record'[q] = record[q]
    BY <1>0 DEF IInv, CommitPreConsume, Record
  <1>5. /\ owed'[r] = amount
        /\ \A q \in Requests \ {r} : owed'[q] = IF record[q].sub \in R THEN 0 ELSE owed[q]
    <2>1. owed' = [OwedAfter(copy, dirty) EXCEPT ![r] = amount] BY DEF CommitPreConsume
    <2> QED BY <2>1 DEF OwedAfter
  <1>6. wasReset' = (wasReset \/ R # {}) BY DEF CommitPreConsume
  <1>7. wasReset' \/ (~wasReset /\ \A q \in Requests \ {r} : owed'[q] = owed[q])
    <2>1. CASE R # {} BY <1>6, <2>1
    <2>2. CASE R = {} BY <1>0, <1>5, <1>6, <2>2 DEF IInv
    <2> QED BY <2>1, <2>2
  <1>8. /\ TaskBooks' /\ \A q \in Requests \ {r} : TxnBooks(q)'
        /\ \A s \in Subs : row'[s] = IF s \in dirty THEN copy[s] ELSE row[s]
    BY <1>7, OthersStay
  <1>9. TxnBooks(r)'
    <2>1. txn'[r] = Closed("open") BY <1>0, ClosedFits, TxnMoves DEF CommitPreConsume, End
    <2>2. txn'[r].at = "open" BY <2>1, ClosedFits
    <2> QED BY <1>3, <1>4, <1>5, <2>2 DEF TxnBooks
  <1>10. ASSUME NEW s \in Subs PROVE Owing(s)'
    <2> DEFINE T == Takers(s)
               old == Sum(owed, T)
               plus == IF s = id THEN amount ELSE 0
               base == IF s \in R THEN 0 ELSE row[s].used
               rest == IF s \in R THEN 0 ELSE old
    <2>1. T \subseteq Requests /\ IsFiniteSet(T) /\ (\A q \in T : owed[q] \in Nat) /\ old \in Nat
      BY <1>0, TakersIs
    <2>2. r \notin T BY <1>2 DEF Takers
    <2>3. Sum(owed', T) = rest
      <3>1. CASE s \in R
        <4>1. \A q \in T : owed'[q] = 0 BY <1>5, <2>1, <2>2, <3>1 DEF Takers
        <4> QED BY <2>1, <3>1, <4>1, SumZero
      <3>2. CASE s \notin R
        <4>1. \A q \in T : owed[q] \in Int /\ owed'[q] = owed[q]
          BY <1>5, <2>1, <2>2, <3>2 DEF Takers
        <4> QED BY <2>1, <3>2, <4>1, SumSame
      <3> QED BY <3>1, <3>2
    <2>4. Sum(owed', Takers(s)') = rest + plus
      <3>1. CASE s = id
        <4>1. Takers(s)' = T \cup {r} BY <1>2, <1>4, <3>1 DEF Takers
        <4>2. IsFiniteSet(T \cup {r}) /\ (T \cup {r}) \ {r} = T
          BY <2>1, <2>2, FS_AddElement
        <4>3. \A q \in T \cup {r} : owed'[q] \in Int BY <1>3, <1>5, <2>1, <2>2
        <4>4. r \in T \cup {r} OBVIOUS
        <4>5. Sum(owed', T \cup {r}) = owed'[r] + Sum(owed', (T \cup {r}) \ {r})
          BY <4>2, <4>3, <4>4, SumType
        <4>6. Sum(owed', Takers(s)') = amount + rest BY <1>5, <2>3, <4>1, <4>2, <4>5
        <4>7. rest \in Int BY <2>1
        <4> HIDE DEF rest, amount
        <4> QED BY <1>3, <3>1, <4>6, <4>7
      <3>2. CASE s # id
        <4>1. Takers(s)' = T BY <1>2, <1>4, <3>2 DEF Takers
        <4>2. rest \in Int BY <2>1
        <4> HIDE DEF rest, T
        <4> QED BY <2>3, <3>2, <4>1, <4>2
      <3> QED BY <3>1, <3>2
    <2>5. row'[s].used = base + plus
      <3>0. row[s].used \in Nat BY <1>0 DEF IInv, Table, Row
      <3>1. CASE s \in dirty
        <4>1. s \in DOMAIN copy BY <1>2, <3>1 DEF TxnFits
        <4>2. copy[s].used = Carried(copy[s], row[s]) + plus BY <1>2, <4>1 DEF PreBooks
        <4>3. Carried(copy[s], row[s]) = base BY <3>1 DEF Carried, Resets
        <4>4. row'[s].used = copy[s].used BY <1>8, <3>1
        <4> QED BY <4>2, <4>3, <4>4
      <3>2. CASE s \notin dirty
        <4>1. s # id /\ s \notin R /\ row'[s] = row[s] BY <1>2, <1>8, <3>2 DEF PreBooks, Resets
        <4> QED BY <3>0, <4>1
      <3> QED BY <3>1, <3>2
    <2>6. row'[s].status = row[s].status
      BY <1>0, <1>2, <1>8 DEF Fresh, TxnFits
    <2>7. row[s].used \in Nat /\ plus \in Nat /\ base \in Nat /\ rest \in Nat
      BY <1>0, <1>3, <2>1 DEF IInv, Table, Row
    <2>8. row[s].status # "deleted" =>
             /\ base <= rest
             /\ ~wasReset' => base = rest
      <3>1. CASE s \in R BY <3>1
      <3>2. CASE s \notin R
        <4>1. base = row[s].used /\ rest = old BY <3>2
        <4>2. ~wasReset' => ~wasReset
          <5>1. CASE wasReset BY <1>6, <5>1
          <5>2. CASE ~wasReset BY <5>2
          <5> QED BY <5>1, <5>2
        <4>3. Owing(s) BY <1>0
        <4> QED BY <4>1, <4>2, <4>3 DEF Owing
      <3> QED BY <3>1, <3>2
    <2> HIDE DEF plus, base, rest
    <2>9. row'[s].status # "deleted" =>
             /\ row'[s].used <= Sum(owed', Takers(s)')
             /\ ~wasReset' => row'[s].used = Sum(owed', Takers(s)')
      BY <2>4, <2>5, <2>6, <2>7, <2>8
    <2> QED BY <2>9 DEF Owing
  <1>11. UsedIsOwed' BY <1>10 DEF UsedIsOwed, Owing
  <1> QED BY <1>8, <1>9, <1>11 DEF UInv

\* What a floored delta does to a usage that is no more than what is owed.
LEMMA FloorAdds ==
    ASSUME NEW used \in Nat, NEW all \in Nat, NEW one \in Nat, NEW delta \in Int,
           used <= all, one <= all
    PROVE  /\ Floor(used + delta) <= all + (Floor(one + delta) - one)
           /\ used = all /\ one + delta >= 0
                 => Floor(used + delta) = all + (Floor(one + delta) - one)
  BY DEF Floor

\* The commit of a settlement or a refund: what the request owes and the usage change by the
\* same delta.
LEMMA DeltaCommitBooks ==
    ASSUME UInv, LInv', NEW r \in Requests, CommitDelta(r)
    PROVE  UInv'
  <1> DEFINE copy == txn[r].copy
             dirty == txn[r].dirty
             amount == txn[r].amount
             id == record[r].sub
  <1>0. IInv /\ (\A q \in Requests : Fresh(txn[q].copy, row)) /\ (\A q \in Requests : TxnBooks(q))
        /\ \A s \in Subs : Owing(s)
    BY OwingIs DEF UInv, LInv
  <1>1. txn[r].at \in {"settle", "refund"} BY DEF CommitDelta
  <1>2. /\ TxnFits(txn[r]) /\ record[r].status # "none" /\ DeltaBooks(txn[r], id, row)
        /\ record[r].amount + amount >= 0 /\ (~wasReset => owed[r] = record[r].amount)
    BY <1>0, <1>1 DEF IInv, TxnBooks
  <1>3. amount \in Int /\ id \in Subs /\ row[id] \in Row /\ owed[r] \in Nat
    BY <1>0, <1>2 DEF TxnFits, IInv, Record, Table
  <1>4. Resets(copy, dirty) = {}
    <2>1. row[id].last \in Int BY <1>3 DEF Row
    <2> QED BY <1>2, <2>1 DEF DeltaBooks, Resets
  <1>5. /\ owed'[r] = Floor(owed[r] + amount) /\ owed'[r] \in Nat
        /\ \A q \in Requests \ {r} : owed'[q] = owed[q]
    <2> DEFINE after == OwedAfter(copy, dirty)
    <2>1. after = owed BY <1>0, <1>4 DEF OwedAfter, IInv
    <2>2. owed' = [after EXCEPT ![r] = Floor(after[r] + amount)] BY DEF CommitDelta
    <2> HIDE DEF after
    <2>3. Floor(owed[r] + amount) \in Nat BY <1>3, FloorIs
    <2> QED BY <1>0, <2>1, <2>2, <2>3 DEF IInv
  <1>6. record' = record /\ wasReset' = wasReset BY DEF CommitDelta
  <1>7. wasReset' \/ (~wasReset /\ \A q \in Requests \ {r} : owed'[q] = owed[q])
    BY <1>5, <1>6
  <1>8. /\ TaskBooks' /\ \A q \in Requests \ {r} : TxnBooks(q)'
        /\ \A s \in Subs : row'[s] = IF s \in dirty THEN copy[s] ELSE row[s]
    BY <1>7, OthersStay
  <1>9. TxnBooks(r)'
    <2>1. PICK at \in {"mark", "done"} : End(r, at) BY DEF CommitDelta
    <2>2. txn'[r] = Closed(at) BY <1>0, <2>1, ClosedFits, TxnMoves DEF End
    <2>3. txn'[r].at = at BY <2>2, ClosedFits
    <2> QED BY <1>2, <1>6, <2>3 DEF TxnBooks
  <1>10. ASSUME NEW s \in Subs PROVE Owing(s)'
    <2> DEFINE T == Takers(s)
               old == Sum(owed, T)
    <2>1. T \subseteq Requests /\ IsFiniteSet(T) /\ (\A q \in T : owed[q] \in Nat) /\ old \in Nat
      BY <1>0, TakersIs
    <2>2. Takers(s)' = T BY <1>6 DEF Takers
    <2>3. row[s].used \in Nat /\ Owing(s) BY <1>0 DEF IInv, Table, Row
    <2>4. CASE s = id
      <3>1. r \in T BY <1>2, <2>4 DEF Takers
      <3>2. \A q \in T : owed[q] \in Int /\ owed'[q] \in Int BY <1>5, <2>1
      <3>3. \A q \in T \ {r} : owed'[q] = owed[q] BY <1>5, <2>1
      <3> HIDE DEF T
      <3>4. Sum(owed', T) = old + (owed'[r] - owed[r]) BY <2>1, <3>1, <3>2, <3>3, SumChange
      <3>5. owed[r] <= old BY <2>1, <3>1, SumNat
      <3>6. row'[s].used = Floor(row[s].used + amount) /\ row'[s].status = row[s].status
        BY <1>0, <1>2, <1>8, <2>4 DEF DeltaBooks, Fresh
      <3>7. row[s].used <= old =>
               /\ row'[s].used <= Sum(owed', T)
               /\ row[s].used = old /\ owed[r] + amount >= 0 => row'[s].used = Sum(owed', T)
        <4> HIDE DEF old, amount
        <4> QED BY <1>3, <1>5, <2>1, <2>3, <3>4, <3>5, <3>6, FloorAdds
      <3>8. row'[s].status # "deleted" =>
               /\ row'[s].used <= Sum(owed', Takers(s)')
               /\ ~wasReset' => row'[s].used = Sum(owed', Takers(s)')
        BY <1>2, <1>6, <2>2, <2>3, <3>6, <3>7 DEF Owing, T
      <3> QED BY <3>8 DEF Owing
    <2>5. CASE s # id
      <3>1. row'[s] = row[s] BY <1>2, <1>8, <2>5 DEF DeltaBooks
      <3>2. r \notin T BY <2>5 DEF Takers
      <3>3. \A q \in T : owed[q] \in Int /\ owed'[q] = owed[q] BY <1>5, <2>1, <3>2
      <3>4. Sum(owed', T) = old BY <2>1, <3>3, SumSame
      <3>5. row'[s].status # "deleted" =>
               /\ row'[s].used <= Sum(owed', Takers(s)')
               /\ ~wasReset' => row'[s].used = Sum(owed', Takers(s)')
        <4>1. Sum(owed', Takers(s)') = old BY <2>2, <3>4
        <4> HIDE DEF T
        <4> QED BY <1>6, <2>3, <3>1, <4>1 DEF Owing, T
      <3> QED BY <3>5 DEF Owing
    <2> QED BY <2>4, <2>5
  <1>11. UsedIsOwed' BY <1>10 DEF UsedIsOwed, Owing
  <1> QED BY <1>8, <1>9, <1>11 DEF UInv

\* The mark of a refund takes nobody off the takers.
LEMMA MarkBooks ==
    ASSUME UInv, LInv', NEW r \in Requests, MarkRefunded(r)
    PROVE  UInv'
  <1>0. IInv /\ TaskBooks /\ (\A q \in Requests : TxnBooks(q)) /\ \A s \in Subs : Owing(s)
    BY OwingIs DEF UInv, LInv
  <1>1. /\ txn[r].at = "mark" /\ UNCHANGED <<row, task, owed, wasReset>>
        /\ txn' = [txn EXCEPT ![r] = Closed("done")]
    BY DEF MarkRefunded, End
  <1>2. /\ record'[r].status = "refunded" /\ record'[r].sub = record[r].sub
        /\ \A q \in Requests \ {r} : record'[q] = record[q]
    BY <1>0 DEF IInv, MarkRefunded, Record
  <1>3. record[r].status # "none" BY <1>0, <1>1 DEF TxnBooks
  <1>4. ASSUME NEW s PROVE Takers(s)' = Takers(s)
    BY <1>2, <1>3 DEF Takers
  <1>5. txn'[r] = Closed("done") /\ \A q \in Requests \ {r} : txn'[q] = txn[q]
    BY <1>0, <1>1, ClosedFits, TxnMoves
  <1>6. txn'[r].at = "done" BY <1>5, ClosedFits
  <1>7. TxnBooks(r)' BY <1>6 DEF TxnBooks
  <1>8. ASSUME NEW q \in Requests \ {r} PROVE TxnBooks(q)'
    <2>1. TxnBooks(q) BY <1>0
    <2> QED BY <1>1, <1>2, <1>5, <2>1 DEF TxnBooks
  <1>9. TaskBooks' BY <1>0, <1>1 DEF TaskBooks
  <1>10. \A s \in Subs : Owing(s)' BY <1>0, <1>1, <1>4, OwingStays
  <1>11. UsedIsOwed' BY <1>10 DEF UsedIsOwed, Owing
  <1> QED BY <1>7, <1>8, <1>9, <1>11 DEF UInv

\* A step that reads no row for a request, and changes no usage, no reset and no debt.
LEMMA QuietBooks ==
    ASSUME UInv, LInv', UNCHANGED <<record, txn, owed, wasReset>>, TaskBooks',
           \A s \in Subs : /\ row'[s].used = row[s].used /\ row'[s].last = row[s].last
                           /\ row'[s].status # "deleted" => row[s].status # "deleted"
    PROVE  UInv'
  <1>0. IInv /\ (\A q \in Requests : TxnBooks(q)) /\ \A s \in Subs : Owing(s)
    BY OwingIs DEF UInv, LInv
  <1>1. ASSUME NEW q \in Requests PROVE TxnBooks(q)'
    <2>1. DOMAIN txn[q].copy \subseteq Subs /\ txn[q].dirty \subseteq DOMAIN txn[q].copy
      BY <1>0 DEF IInv, TxnFits, IsCopy
    <2>2. wasReset' \/ (~wasReset /\ owed'[q] = owed[q]) OBVIOUS
    <2>3. TxnBooks(q) /\ txn'[q] = txn[q] /\ record'[q] = record[q] BY <1>0
    <2> QED BY <2>1, <2>2, <2>3, BooksStay
  <1>2. \A s : Takers(s)' = Takers(s) BY DEF Takers
  <1>3. \A s \in Subs : Owing(s)' BY <1>0, <1>2, OwingStays
  <1>4. UsedIsOwed' BY <1>3 DEF UsedIsOwed, Owing
  <1> QED BY <1>1, <1>4 DEF UInv

\* The task's reset: the requests of the subscription owe nothing any more.
LEMMA ResetBooks ==
    ASSUME UInv, LInv', CommitReset
    PROVE  UInv'
  <1> DEFINE copy == task.copy
             dirty == task.dirty
             R == Resets(copy, dirty)
  <1>0. /\ IInv /\ Apart /\ Fresh(copy, row) /\ TaskBooks
        /\ (\A q \in Requests : TxnBooks(q)) /\ \A s \in Subs : Owing(s)
    BY OwingIs DEF UInv, LInv
  <1>1. Save(copy, dirty) /\ txn' = txn /\ DOMAIN task'.copy = {} BY <1>0, TaskCommits
  <1>2. IsCopy(copy) /\ dirty \subseteq DOMAIN copy /\ DOMAIN copy \subseteq Subs
    BY <1>0 DEF IInv, RoundFits, IsCopy
  <1>3. \A s \in Subs : row'[s] = IF s \in dirty THEN copy[s] ELSE row[s]
    BY <1>0, <1>1, <1>2, SaveIs DEF IInv
  <1>4. record' = record /\ wasReset' = (wasReset \/ R # {}) BY DEF CommitReset
  <1>5. \A q \in Requests : owed'[q] = IF record[q].sub \in R THEN 0 ELSE owed[q]
    BY DEF CommitReset, OwedAfter
  <1>6. TaskBooks' BY <1>1 DEF TaskBooks
  <1>7. ASSUME NEW q \in Requests PROVE TxnBooks(q)'
    <2>1. DOMAIN txn[q].copy \subseteq Subs /\ txn[q].dirty \subseteq DOMAIN txn[q].copy
      BY <1>0 DEF IInv, TxnFits, IsCopy
    <2>2. DOMAIN txn[q].copy \cap DOMAIN copy = {} BY <1>0 DEF Apart
    <2>3. \A s \in DOMAIN txn[q].copy : row'[s] = row[s] BY <1>2, <1>3, <2>1, <2>2
    <2>4. wasReset' \/ (~wasReset /\ owed'[q] = owed[q])
      <3>1. CASE R # {} BY <1>4, <3>1
      <3>2. CASE R = {}
        <4>1. owed'[q] = owed[q] BY <1>5, <3>2
        <4>2. CASE wasReset BY <1>4, <4>2
        <4>3. CASE ~wasReset BY <4>1, <4>3
        <4> QED BY <4>2, <4>3
      <3> QED BY <3>1, <3>2
    <2>5. TxnBooks(q) /\ txn'[q] = txn[q] /\ record'[q] = record[q] BY <1>0, <1>1, <1>4
    <2> HIDE DEF R
    <2> QED BY <2>1, <2>3, <2>4, <2>5, BooksStay
  <1>8. ASSUME NEW s \in Subs PROVE Owing(s)'
    <2> DEFINE T == Takers(s)
               old == Sum(owed, T)
    <2>1. T \subseteq Requests /\ IsFiniteSet(T) /\ (\A q \in T : owed[q] \in Nat) /\ old \in Nat
      BY <1>0, TakersIs
    <2>2. Takers(s)' = T BY <1>4 DEF Takers
    <2>3. row[s].used \in Nat /\ Owing(s) BY <1>0 DEF IInv, Table, Row
    <2>4. row'[s].status = row[s].status BY <1>0, <1>2, <1>3 DEF Fresh
    <2>5. CASE s \in R
      <3>1. \A q \in T : owed'[q] = 0 BY <1>5, <2>1, <2>5 DEF Takers
      <3>2. Sum(owed', T) = 0 BY <2>1, <3>1, SumZero
      <3>3. s \in dirty /\ copy[s].last > row[s].last BY <2>5 DEF Resets
      <3>4. copy[s].used = 0 BY <1>0, <1>2, <3>3 DEF TaskBooks, Carried
      <3>5. row'[s].used = 0 BY <1>3, <3>3, <3>4
      <3>6. Sum(owed', Takers(s)') = 0 BY <2>2, <3>2
      <3> QED BY <3>5, <3>6 DEF Owing
    <2>6. CASE s \notin R
      <3>1. \A q \in T : owed[q] \in Int /\ owed'[q] = owed[q] BY <1>5, <2>1, <2>6 DEF Takers
      <3>2. Sum(owed', T) = old BY <2>1, <3>1, SumSame
      <3>3. row'[s].used = row[s].used
        <4>1. CASE s \in dirty
          <5>1. ~(copy[s].last > row[s].last) BY <2>6, <4>1 DEF Resets
          <5>2. copy[s].used = row[s].used BY <1>0, <1>2, <4>1, <5>1 DEF TaskBooks, Carried
          <5> QED BY <1>3, <4>1, <5>2
        <4>2. CASE s \notin dirty BY <1>3, <4>2
        <4> QED BY <4>1, <4>2
      <3>4. ~wasReset' => ~wasReset
        <4>1. CASE wasReset BY <1>4, <4>1
        <4>2. CASE ~wasReset BY <4>2
        <4> QED BY <4>1, <4>2
      <3>5. Sum(owed', Takers(s)') = Sum(owed, Takers(s)) BY <2>2, <3>2
      <3> QED BY <2>3, <2>4, <3>3, <3>4, <3>5 DEF Owing
    <2> QED BY <2>5, <2>6
  <1>9. UsedIsOwed' BY <1>8 DEF UsedIsOwed, Owing
  <1> QED BY <1>6, <1>7, <1>9 DEF UInv

\* At first no subscription is used and nobody has taken anything.
LEMMA InitUInv == Init => UInv
  <1> SUFFICES ASSUME Init PROVE UInv OBVIOUS
  <1>1. LInv /\ IInv BY InitLInv, InitIInv
  <1>2. DOMAIN task.copy = {} /\ \A r \in Requests : txn[r].at = "new"
    BY ClosedFits, BeginEmpty DEF Init
  <1>3. \A r \in Requests : record[r].status = "none" BY DEF Init
  <1>4. TaskBooks BY <1>2 DEF TaskBooks
  <1>5. \A r \in Requests : TxnBooks(r) BY <1>2, <1>3 DEF TxnBooks
  <1>6. ASSUME NEW s \in Subs PROVE Owing(s)
    <2>1. Takers(s) = {} BY <1>3 DEF Takers
    <2>2. Sum(owed, {}) = 0 BY FS_EmptySet, SumZero
    <2>3. row[s].used = 0 BY DEF Init
    <2> QED BY <2>1, <2>2, <2>3 DEF Owing
  <1>7. UsedIsOwed BY <1>6, OwingIs
  <1> QED BY <1>1, <1>4, <1>5, <1>7 DEF UInv

\* UInv is inductive.
LEMMA NextUInv ==
    ASSUME RowLocks, UInv, [Next]_vars
    PROVE  UInv'
  <1>0. LInv /\ IInv /\ TaskBooks BY DEF UInv, LInv
  <1>1. LInv' BY <1>0, NextLInv
  <1>2. CASE UNCHANGED vars
    <2>1. TaskBooks' BY <1>0, <1>2 DEF vars, TaskBooks
    <2> QED BY <1>1, <1>2, <2>1, QuietBooks DEF vars
  <1>3. CASE \E r \in Requests : PreConsume(r) \/ Settle(r) \/ Refund(r)
    BY <1>1, <1>3, ReadBooks
  <1>4. CASE \E r \in Requests : CommitPreConsume(r) \/ CommitDelta(r)
    BY <1>1, <1>4, PreConsumeBooks, DeltaCommitBooks
  <1>5. CASE \E r \in Requests : MarkRefunded(r) BY <1>1, <1>5, MarkBooks
  <1>6. CASE ExpireDue
    <2>1. DOMAIN task'.copy = {} BY <1>0, <1>6, ExpireKeeps
    <2>2. \A s \in Subs : /\ row'[s].used = row[s].used /\ row'[s].last = row[s].last
                          /\ row'[s].status # "deleted" => row[s].status # "deleted"
      <3>1. PICK S \in SUBSET Subs :
              /\ \A s \in Subs \ S : row'[s] = row[s]
              /\ \A s \in S : /\ row[s].status = "active" /\ row'[s].last = row[s].last
                              /\ row'[s].used = row[s].used
        BY <1>0, <1>6, ExpireKeeps
      <3> QED BY <3>1
    <2>3. UNCHANGED <<record, txn, owed, wasReset>> BY <1>6 DEF ExpireDue, MarkExpired
    <2>4. TaskBooks' BY <2>1 DEF TaskBooks
    <2> QED BY <1>1, <2>2, <2>3, <2>4, QuietBooks
  <1>7. CASE ListDue \/ EndBatch
    <2>1. row' = row /\ DOMAIN task'.copy = {} BY <1>0, <1>7, ListKeeps
    <2>2. UNCHANGED <<record, txn, owed, wasReset>> BY <1>7 DEF ListDue, EndBatch
    <2>3. TaskBooks' BY <2>1 DEF TaskBooks
    <2> QED BY <1>1, <2>1, <2>2, <2>3, QuietBooks
  <1>8. CASE \E s \in Subs : ReadDue(s)
    <2>1. /\ row' = row
          /\ \A q \in DOMAIN task'.copy : task'.copy[q].used = Carried(task'.copy[q], row[q])
      BY <1>0, <1>8, TaskReads
    <2>2. UNCHANGED <<record, txn, owed, wasReset>> BY <1>8 DEF ReadDue
    <2>3. TaskBooks' BY <2>1 DEF TaskBooks
    <2> QED BY <1>1, <2>1, <2>2, <2>3, QuietBooks
  <1>9. CASE CommitReset BY <1>1, <1>9, ResetBooks
  <1>10. CASE \E s \in Subs : Invalidate(s) \/ Delete(s)
    <2>1. PICK s \in Subs : Invalidate(s) \/ Delete(s) BY <1>10
    <2>2. /\ task' = task /\ \A t \in Subs \ {s} : row'[t] = row[t]
          /\ row'[s].last = row[s].last /\ row'[s].used = row[s].used
          /\ row[s].status # "deleted"
      BY <1>0, <2>1, AdminKeeps
    <2>3. UNCHANGED <<record, txn, owed, wasReset>> BY <2>1 DEF Invalidate, Delete
    <2>4. \A t \in Subs : /\ row'[t].used = row[t].used /\ row'[t].last = row[t].last
                          /\ row'[t].status # "deleted" => row[t].status # "deleted"
      BY <2>2
    <2>5. DOMAIN task.copy \subseteq Subs BY <1>0 DEF IInv, RoundFits, IsCopy
    <2>6. TaskBooks' BY <1>0, <2>2, <2>4, <2>5, TaskBooksStay
    <2> QED BY <1>1, <2>3, <2>4, <2>6, QuietBooks
  <1>11. CASE StopResets \/ Tick
    <2>1. row' = row /\ task' = task BY <1>0, <1>11, ClockKeeps
    <2>2. UNCHANGED <<record, txn, owed, wasReset>> BY <1>11 DEF StopResets, Tick
    <2>3. TaskBooks' BY <1>0, <2>1 DEF TaskBooks
    <2> QED BY <1>1, <2>1, <2>2, <2>3, QuietBooks
  <1> QED BY <1>2, <1>3, <1>4, <1>5, <1>6, <1>7, <1>8, <1>9, <1>10, <1>11, Cases

\* With row locks, no pre-consume, settlement, refund or reset overwrites another: a subscription
\* is never charged for more than its requests have taken since its last reset, and until there
\* is a reset it is charged for exactly that, however many requests there are.
THEOREM ChargedAsOwed == ASSUME RowLocks PROVE Spec => []UsedIsOwed
  <1>1. UInv /\ [Next]_vars => UInv' BY NextUInv
  <1>2. UInv => UsedIsOwed BY DEF UInv
  <1> QED BY <1>1, <1>2, InitUInv, PTL DEF Spec

-----------------------------------------------------------------------------
\* The user's group: SubscriptionGroups.

UserRow == [status: {"none", "active", "expired", "cancelled", "deleted"},
            up: Groups \cup {NoGroup}, prev: Groups \cup {Base, NoGroup}, end: Nat]

IsActive(rows, s) == rows[s].status = "active"
Runs(rows, clk, s) == IsActive(rows, s) /\ rows[s].end > clk

\* UpgradeKept, of rows and a group g that may still have to be committed.
KeptIn(rows, g, clk) == (\E s \in UserSubs : Runs(rows, clk, s)) => g # Base

\* GroupReturned, and why: of subscriptions that never overlapped each has replaced Base, one at
\* most is active, the user is in its group or already back, and it ends last.
ReturnedIn(rows, g, clk) ==
    /\ \A s \in UserSubs : rows[s].status # "none" => rows[s].up \in Groups /\ rows[s].prev = Base
    /\ \A s, t \in UserSubs : IsActive(rows, s) /\ IsActive(rows, t) => s = t
    /\ \A s \in UserSubs : IsActive(rows, s) => g \in {rows[s].up, Base}
    /\ (\A s \in UserSubs : ~IsActive(rows, s)) => g = Base
    /\ \A s, t \in UserSubs : IsActive(rows, s) /\ rows[t].status = "expired" => rows[t].end < rows[s].end
    /\ \A t \in UserSubs : rows[t].status = "expired" => rows[t].end <= clk

Good(rows, g, clk, o) ==
    /\ rows \in [UserSubs -> UserRow] /\ g \in Groups \cup {Base}
    /\ KeptIn(rows, g, clk)
    /\ ~o => ReturnedIn(rows, g, clk)

\* What a transaction will leave.
After(tx, rows) == [s \in UserSubs |-> IF s \in DOMAIN tx.rows THEN tx.rows[s] ELSE rows[s]]
GroupAfter(tx, g) == IF tx.target = NoGroup THEN g ELSE tx.target

\* Both hold of what is stored, and of what the one open transaction will leave.
GInv ==
    /\ clock \in Nat /\ overlapped \in BOOLEAN
    /\ DOMAIN trans = Actors
    /\ \A a, b \in Actors : trans[a] # Idle /\ trans[b] # Idle => a = b
    /\ Good(sub, group, clock, overlapped)
    /\ \A a \in Actors :
          trans[a] # Idle => Good(After(trans[a], sub), GroupAfter(trans[a], group), clock, overlapped)

LEMMA Names ==
    /\ UserSubs \subseteq Nat /\ Base \notin Groups /\ Base # NoGroup /\ NoGroup \notin Groups
           /\ Terms \subseteq Nat \ {0} /\ MaxClock \in Nat
  BY GroupsAssumption DEF NoGroup

\* Time passes.
LEMMA GoodLater ==
    ASSUME NEW rows, NEW g, NEW clk \in Nat, NEW o, Good(rows, g, clk, o)
    PROVE  Good(rows, g, clk + 1, o)
  <1>1. ASSUME NEW s \in UserSubs PROVE rows[s].end \in Nat
    BY DEF Good, UserRow
  <1>2. KeptIn(rows, g, clk + 1)
    <2>1. \A s \in UserSubs : Runs(rows, clk + 1, s) => Runs(rows, clk, s) BY <1>1 DEF Runs
    <2> QED BY <2>1 DEF KeptIn, Good
  <1>3. ASSUME ~o PROVE ReturnedIn(rows, g, clk + 1)
    <2>1. ReturnedIn(rows, g, clk) BY <1>3 DEF Good
    <2>2. \A t \in UserSubs : rows[t].status = "expired" => rows[t].end <= clk + 1
      BY <1>1, <2>1 DEF ReturnedIn
    <2> QED BY <2>1, <2>2 DEF ReturnedIn
  <1> QED BY <1>2, <1>3 DEF Good

\* An overlap makes less of it.
LEMMA GoodOverlapped ==
    ASSUME NEW rows, NEW g, NEW clk, NEW o, NEW p, Good(rows, g, clk, o), o => p
    PROVE  Good(rows, g, clk, p)
  BY DEF Good

\* A transaction begins: what it will leave has to be good.
LEMMA BeginKeeps ==
    ASSUME Serial, GInv, NEW a \in Actors, NEW rows, NEW target, BeginTx(a, rows, target),
           overlapped' \in BOOLEAN, overlapped => overlapped',
           NEW res, res = [s \in UserSubs |-> IF s \in DOMAIN rows THEN rows[s] ELSE sub[s]],
           NEW ng, ng = (IF target = NoGroup THEN group ELSE target),
           Good(res, ng, clock, overlapped')
    PROVE  GInv'
  <1> DEFINE tx == [open |-> TRUE, rows |-> rows, target |-> target]
  <1>1. /\ \A b \in Actors : trans[b] = Idle
        /\ trans' = [trans EXCEPT ![a] = tx] /\ UNCHANGED <<group, sub, clock>>
    BY DEF BeginTx
  <1>2. tx.rows = rows /\ tx.target = target OBVIOUS
  <1> HIDE DEF tx
  <1>3. /\ DOMAIN trans' = Actors /\ trans'[a] = tx
        /\ \A b \in Actors : b # a => trans'[b] = Idle
    BY <1>1 DEF GInv
  <1>4. After(tx, sub) = res /\ GroupAfter(tx, group) = ng BY <1>2 DEF After, GroupAfter
  <1>5. Good(sub, group, clock, overlapped') BY GoodOverlapped DEF GInv
  <1>6. /\ Good(sub', group', clock', overlapped')
        /\ Good(After(tx, sub'), GroupAfter(tx, group'), clock', overlapped')
    BY <1>1, <1>4, <1>5
  <1>7. \A b \in Actors : trans'[b] # Idle =>
           Good(After(trans'[b], sub'), GroupAfter(trans'[b], group'), clock', overlapped')
    BY <1>3, <1>6
  <1>8. \A b, c \in Actors : trans'[b] # Idle /\ trans'[c] # Idle => b = c BY <1>3
  <1>9. clock' \in Nat BY <1>1 DEF GInv
  <1> QED BY <1>3, <1>6, <1>7, <1>8, <1>9 DEF GInv

\* Subscriptions D are ended on account of s, unless one of the others runs.
LEMMA MarkGood ==
    ASSUME Serial, GInv, NEW D \in SUBSET UserSubs, NEW s \in UserSubs, sub[s].status # "none",
           NEW O \in SUBSET UserSubs,
           \A t \in UserSubs \ D : Running(t) => t \in O,
           NEW res \in [UserSubs -> UserRow],
           \A t \in UserSubs \ D : res[t] = sub[t],
           \A t \in D : /\ res[t].status \notin {"active", "none"} /\ sub[t].status # "none"
                        /\ res[t].up = sub[t].up /\ res[t].prev = sub[t].prev,
           \A t \in D : res[t].status = "expired" =>
                           /\ res[t].end = sub[t].end /\ sub[t].end <= clock
                           /\ sub[t].status = "active",
           ~overlapped => \A t \in D : IsActive(sub, t) => t = s /\ \A u \in O : ~Running(u),
           NEW ng, ng = (IF FallBack(s, O) = NoGroup THEN group ELSE FallBack(s, O))
    PROVE  Good(res, ng, clock, overlapped)
  <1>t. /\ sub \in [UserSubs -> UserRow] /\ group \in Groups \cup {Base} /\ clock \in Nat
        /\ KeptIn(sub, group, clock)
    BY DEF GInv, Good
  <1>f. sub[s] \in UserRow BY <1>t
  <1>g. sub[s].prev \in Groups \cup {Base, NoGroup} BY <1>f DEF UserRow
  <1>1. ng \in Groups \cup {Base}
    BY <1>t, <1>g DEF FallBack
  <1>2. KeptIn(res, ng, clock)
    <2> SUFFICES ASSUME NEW t \in UserSubs, Runs(res, clock, t) PROVE ng # Base BY DEF KeptIn
    <2>1. t \notin D BY DEF Runs, IsActive
    <2>2. Runs(sub, clock, t) BY <2>1 DEF Runs, IsActive
    <2>3. Running(t) BY <2>2 DEF Runs, IsActive, Running
    <2>4. t \in O BY <2>1, <2>3
    <2>5. FallBack(s, O) = NoGroup BY <2>3, <2>4 DEF FallBack
    <2> QED BY <1>t, <2>2, <2>5 DEF KeptIn
  <1>3. ASSUME ~overlapped PROVE ReturnedIn(res, ng, clock)
    <2>1. ReturnedIn(sub, group, clock) BY <1>3 DEF GInv, Good
    <2>2. sub[s].prev = Base BY <2>1 DEF ReturnedIn
    <2>3. ng \in {group, Base} BY <2>2 DEF FallBack
    <2>4. \A t \in UserSubs : IsActive(res, t) => t \notin D /\ IsActive(sub, t) /\ res[t] = sub[t]
      BY DEF IsActive
    <2>5. \A t \in UserSubs : res[t].status # "none" => res[t].up \in Groups /\ res[t].prev = Base
      <3> SUFFICES ASSUME NEW t \in UserSubs, res[t].status # "none"
                   PROVE  res[t].up \in Groups /\ res[t].prev = Base
        OBVIOUS
      <3>1. CASE t \in D BY <2>1, <3>1 DEF ReturnedIn
      <3>2. CASE t \notin D BY <2>1, <3>2 DEF ReturnedIn
      <3> QED BY <3>1, <3>2
    <2>6. \A t, u \in UserSubs : IsActive(res, t) /\ IsActive(res, u) => t = u
      BY <2>1, <2>4 DEF ReturnedIn
    <2>7. \A t \in UserSubs : IsActive(res, t) => ng \in {res[t].up, Base}
      BY <2>1, <2>3, <2>4 DEF ReturnedIn
    <2>8. ASSUME \A t \in UserSubs : ~IsActive(res, t) PROVE ng = Base
      <3>1. CASE group = Base BY <2>3, <3>1
      <3>2. CASE group # Base
        <4>1. PICK d \in UserSubs : IsActive(sub, d) BY <2>1, <3>2 DEF ReturnedIn
        <4>2. d \in D BY <2>8, <4>1 DEF IsActive
        <4>3. d = s /\ \A u \in O : ~Running(u) BY <1>3, <4>1, <4>2
        <4>4. group = sub[s].up BY <2>1, <3>2, <4>1, <4>3 DEF ReturnedIn
        <4>5. FallBack(s, O) = Base BY <2>2, <3>2, <4>3, <4>4 DEF FallBack
        <4> QED BY <4>5, Names
      <3> QED BY <3>1, <3>2
    <2>9. ASSUME NEW t \in UserSubs, res[t].status = "expired"
          PROVE  /\ res[t].end <= clock
                 /\ \A u \in UserSubs : IsActive(res, u) => res[t].end < res[u].end
      <3>1. CASE t \in D
        <4>1. res[t].end = sub[t].end /\ sub[t].end <= clock /\ IsActive(sub, t) BY <2>9, <3>1 DEF IsActive
        <4>2. \A u \in UserSubs : ~IsActive(res, u) BY <2>1, <2>4, <3>1, <4>1 DEF ReturnedIn
        <4> QED BY <4>1, <4>2
      <3>2. CASE t \notin D
        <4>1. res[t] = sub[t] BY <3>2
        <4> QED BY <2>1, <2>4, <2>9, <4>1 DEF ReturnedIn
      <3> QED BY <3>1, <3>2
    <2> QED BY <2>5, <2>6, <2>7, <2>8, <2>9 DEF ReturnedIn
  <1> QED BY <1>1, <1>2, <1>3 DEF Good

\* CreateUserSubscriptionFromPlanTx.
LEMMA BuyKeeps ==
    ASSUME Serial, GInv, NEW s \in UserSubs, Buy(s)
    PROVE  GInv'
  <1>t. /\ sub \in [UserSubs -> UserRow] /\ group \in Groups \cup {Base} /\ clock \in Nat
        /\ overlapped \in BOOLEAN
    BY DEF GInv, Good
  <1>n. Base \notin Groups /\ Base # NoGroup /\ NoGroup \notin Groups /\ Terms \subseteq Nat \ {0}
    BY Names
  <1>1. PICK up \in Groups, term \in Terms :
           BeginTx("buyer",
                   [t \in {s} |-> [status |-> "active", up |-> up, end |-> clock + term,
                                   prev |-> IF group = up THEN NoGroup ELSE group]],
                   IF group = up THEN NoGroup ELSE up)
    BY DEF Buy
  <1> DEFINE prev == IF group = up THEN NoGroup ELSE group
             new == [status |-> "active", up |-> up, end |-> clock + term, prev |-> prev]
             rows == [t \in {s} |-> new]
             target == IF group = up THEN NoGroup ELSE up
             res == [t \in UserSubs |-> IF t \in DOMAIN rows THEN rows[t] ELSE sub[t]]
             ng == IF target = NoGroup THEN group ELSE target
  <1>2. sub[s].status = "none" /\ overlapped' = (overlapped \/ \E t \in UserSubs : sub[t].status = "active")
    BY DEF Buy
  <1>3. ng = up BY <1>n
  <1>4. prev \in Groups \cup {Base, NoGroup} BY <1>t
  <1>5. term \in Nat /\ clock + term \in Nat /\ clock + term > clock BY <1>t, <1>n
  <1>6. new \in UserRow /\ new.status = "active" /\ new.up = up /\ new.end = clock + term /\ new.prev = prev
    <2> HIDE DEF prev
    <2> QED BY <1>4, <1>5 DEF UserRow
  <1> HIDE DEF new
  <1>7. res = [t \in UserSubs |-> IF t = s THEN new ELSE sub[t]] OBVIOUS
  <1>8. res \in [UserSubs -> UserRow] /\ res[s] = new /\ \A t \in UserSubs : t # s => res[t] = sub[t]
    BY <1>t, <1>6, <1>7
  <1> HIDE DEF res, rows
  <1>9. KeptIn(res, up, clock) BY <1>n DEF KeptIn
  <1>10. ASSUME ~overlapped' PROVE ReturnedIn(res, up, clock)
    <2>1. ~overlapped /\ \A t \in UserSubs : ~IsActive(sub, t) BY <1>2, <1>10 DEF IsActive
    <2>2. ReturnedIn(sub, group, clock) BY <2>1 DEF GInv, Good
    <2>3. group = Base /\ prev = Base BY <1>n, <2>1, <2>2 DEF ReturnedIn
    <2> HIDE DEF prev
    <2>4. \A t \in UserSubs : IsActive(res, t) => t = s BY <1>8, <2>1 DEF IsActive
    <2>5. \A t \in UserSubs : res[t].status # "none" => res[t].up \in Groups /\ res[t].prev = Base
      BY <1>6, <1>8, <2>2, <2>3 DEF ReturnedIn
    <2>6. IsActive(res, s) BY <1>6, <1>8 DEF IsActive
    <2>7. ASSUME NEW t \in UserSubs, res[t].status = "expired"
          PROVE  res[t].end <= clock /\ res[t].end < res[s].end
      <3>1. t # s BY <1>6, <1>8, <2>7
      <3>2. res[t] = sub[t] /\ sub[t] \in UserRow BY <1>t, <1>8, <3>1
      <3>3. sub[t].end <= clock /\ sub[t].end \in Nat BY <2>2, <2>7, <3>2 DEF ReturnedIn, UserRow
      <3> QED BY <1>t, <1>5, <1>6, <1>8, <3>2, <3>3
    <2> QED BY <1>6, <1>8, <2>4, <2>5, <2>6, <2>7 DEF ReturnedIn
  <1>11. Good(res, up, clock, overlapped') BY <1>8, <1>9, <1>10 DEF Good
  <1>12. "buyer" \in Actors BY DEF Actors
  <1>13. overlapped' \in BOOLEAN /\ (overlapped => overlapped') BY <1>t, <1>2
  <1>14. BeginTx("buyer", rows, target) BY <1>1 DEF rows, new
  <1>15. res = [t \in UserSubs |-> IF t \in DOMAIN rows THEN rows[t] ELSE sub[t]] BY DEF res
  <1> HIDE DEF target
  <1> QED BY <1>3, <1>11, <1>12, <1>13, <1>14, <1>15, BeginKeeps

\* ExpireDueSubscriptions: the one that ended last is the one that was active, if none overlapped.
LEMMA ExpiryKeeps ==
    ASSUME Serial, GInv, Expire
    PROVE  GInv'
  <1> DEFINE due == { t \in UserSubs : sub[t].status = "active" /\ sub[t].end <= clock }
             expired == due \cup { t \in UserSubs : sub[t].status = "expired" }
             rows == [t \in due |-> [sub[t] EXCEPT !.status = "expired"]]
             res == [t \in UserSubs |-> IF t \in DOMAIN rows THEN rows[t] ELSE sub[t]]
  <1>t. /\ sub \in [UserSubs -> UserRow] /\ group \in Groups \cup {Base} /\ clock \in Nat
        /\ overlapped \in BOOLEAN
    BY DEF GInv, Good
  <1>1. PICK s \in expired :
           /\ \A t \in expired : sub[t].end < sub[s].end \/ (sub[t].end = sub[s].end /\ t <= s)
           /\ BeginTx("task", rows, FallBack(s, UserSubs))
    BY DEF Expire
  <1>2. overlapped' = overlapped BY DEF Expire
  <1> DEFINE target == FallBack(s, UserSubs)
             ng == IF target = NoGroup THEN group ELSE target
  <1>3. ASSUME NEW t \in due
        PROVE  /\ rows[t] \in UserRow /\ rows[t].status = "expired" /\ rows[t].end = sub[t].end
               /\ rows[t].up = sub[t].up /\ rows[t].prev = sub[t].prev
    <2>1. sub[t] \in UserRow BY <1>t
    <2>2. rows[t] = [sub[t] EXCEPT !.status = "expired"] OBVIOUS
    <2> HIDE DEF rows
    <2> QED BY <2>1, <2>2 DEF UserRow
  <1>4. /\ \A t \in due : res[t] = rows[t]
        /\ \A t \in UserSubs \ due : res[t] = sub[t]
    OBVIOUS
  <1>5. res \in [UserSubs -> UserRow] BY <1>t, <1>3
  <1>6. s \in UserSubs /\ sub[s].status # "none" /\ due \in SUBSET UserSubs OBVIOUS
  <1>7. \A t \in due : sub[t].status = "active" /\ sub[t].end <= clock OBVIOUS
  <1>8. ASSUME ~overlapped, NEW d \in due, IsActive(sub, d)
        PROVE  d = s /\ \A u \in UserSubs : ~Running(u)
    <2>1. ReturnedIn(sub, group, clock) BY <1>8 DEF GInv, Good
    <2>2. d \in UserSubs /\ sub[d] \in UserRow /\ sub[s] \in UserRow BY <1>t, <1>6
    <2>3. sub[d].end \in Nat /\ sub[s].end \in Nat BY <2>2 DEF UserRow
    <2>4. sub[d].end <= sub[s].end BY <1>1, <2>3
    <2>5. d = s
      <3>1. CASE sub[s].status = "active" BY <1>6, <1>8, <2>1, <2>2, <3>1 DEF ReturnedIn, IsActive
      <3>2. CASE sub[s].status # "active"
        <4>1. sub[s].status = "expired" BY <3>2
        <4>2. sub[s].end < sub[d].end BY <1>6, <1>8, <2>1, <2>2, <4>1 DEF ReturnedIn
        <4> QED BY <2>3, <2>4, <4>2
      <3> QED BY <3>1, <3>2
    <2>6. ASSUME NEW u \in UserSubs, Running(u) PROVE FALSE
      <3>1. IsActive(sub, u) /\ sub[u].end > clock BY <2>6 DEF Running, IsActive
      <3>2. u = d BY <1>8, <2>1, <2>2, <3>1 DEF ReturnedIn
      <3> QED BY <1>t, <1>7, <2>3, <3>1, <3>2
    <2> QED BY <2>5, <2>6
  <1> HIDE DEF due, expired, rows, res
  <1>9. \A t \in due : /\ res[t].status \notin {"active", "none"} /\ sub[t].status # "none"
                       /\ res[t].up = sub[t].up /\ res[t].prev = sub[t].prev
    BY <1>3, <1>4, <1>7
  <1>10. \A t \in due : res[t].status = "expired" =>
                           /\ res[t].end = sub[t].end /\ sub[t].end <= clock
                           /\ sub[t].status = "active"
    BY <1>3, <1>4, <1>7
  <1>11. Good(res, ng, clock, overlapped)
    BY <1>4, <1>5, <1>6, <1>8, <1>9, <1>10, MarkGood
  <1>12. "task" \in Actors BY DEF Actors
  <1>13. res = [t \in UserSubs |-> IF t \in DOMAIN rows THEN rows[t] ELSE sub[t]] BY DEF res
  <1> HIDE DEF target
  <1>14. BeginTx("task", rows, target) BY <1>1 DEF target
  <1> QED BY <1>t, <1>2, <1>11, <1>12, <1>13, <1>14, BeginKeeps

\* AdminInvalidateUserSubscription and AdminDeleteUserSubscription.
LEMMA EndKeeps ==
    ASSUME Serial, GInv, NEW s \in UserSubs, IsSub(s), NEW new \in UserRow,
           new.status \in {"cancelled", "deleted"}, new.up = sub[s].up, new.prev = sub[s].prev,
           BeginTx("admin", [t \in {s} |-> new], FallBack(s, UserSubs \ {s})), UNCHANGED overlapped
    PROVE  GInv'
  <1> DEFINE rows == [t \in {s} |-> new]
             res == [t \in UserSubs |-> IF t \in DOMAIN rows THEN rows[t] ELSE sub[t]]
             target == FallBack(s, UserSubs \ {s})
             ng == IF target = NoGroup THEN group ELSE target
             D == {s}
  <1>t. sub \in [UserSubs -> UserRow] /\ overlapped \in BOOLEAN BY DEF GInv, Good
  <1>1. sub[s].status # "none" BY DEF IsSub
  <1>2. res \in [UserSubs -> UserRow] /\ res[s] = new /\ \A t \in UserSubs \ D : res[t] = sub[t] BY <1>t
  <1>3. ASSUME ~overlapped, NEW t \in D, IsActive(sub, t)
        PROVE  t = s /\ \A u \in UserSubs \ {s} : ~Running(u)
    <2>1. ReturnedIn(sub, group, clock) BY <1>3 DEF GInv, Good
    <2>2. \A u \in UserSubs : Running(u) => IsActive(sub, u) BY DEF Running, IsActive
    <2> QED BY <1>3, <2>1, <2>2 DEF ReturnedIn
  <1>4. \A t \in D : /\ res[t].status \notin {"active", "none"} /\ sub[t].status # "none"
                     /\ res[t].up = sub[t].up /\ res[t].prev = sub[t].prev
                     /\ res[t].status # "expired"
    BY <1>1, <1>2
  <1>5. D \in SUBSET UserSubs /\ UserSubs \ {s} \in SUBSET UserSubs /\ \A t \in UserSubs \ D : t \in UserSubs \ {s} OBVIOUS
  <1> HIDE DEF res, rows, D
  <1>6. Good(res, ng, clock, overlapped)
    BY <1>1, <1>2, <1>3, <1>4, <1>5, MarkGood
  <1>7. "admin" \in Actors BY DEF Actors
  <1>8. res = [t \in UserSubs |-> IF t \in DOMAIN rows THEN rows[t] ELSE sub[t]] BY DEF res
  <1> HIDE DEF target
  <1>9. BeginTx("admin", rows, target) BY DEF target, rows
  <1> QED BY <1>t, <1>6, <1>7, <1>8, <1>9, BeginKeeps

LEMMA ClosingKeeps ==
    ASSUME Serial, GInv, NEW s \in UserSubs, InvalidateSub(s) \/ DeleteSub(s)
    PROVE  GInv'
  <1>t. sub[s] \in UserRow /\ clock \in Nat BY DEF GInv, Good
  <1>1. CASE DeleteSub(s)
    <2> DEFINE new == [sub[s] EXCEPT !.status = "deleted"]
    <2>1. new \in UserRow /\ new.status = "deleted" /\ new.up = sub[s].up /\ new.prev = sub[s].prev
      BY <1>t DEF UserRow
    <2>2. /\ IsSub(s) /\ UNCHANGED overlapped
          /\ BeginTx("admin", [t \in {s} |-> [sub[t] EXCEPT !.status = "deleted"]],
                     FallBack(s, UserSubs \ {s}))
      BY <1>1 DEF DeleteSub
    <2>3. [t \in {s} |-> [sub[t] EXCEPT !.status = "deleted"]] = [t \in {s} |-> new] OBVIOUS
    <2> HIDE DEF new
    <2> QED BY <2>1, <2>2, <2>3, EndKeeps
  <1>2. CASE InvalidateSub(s)
    <2> DEFINE new == [sub[s] EXCEPT !.status = "cancelled", !.end = clock]
    <2>1. new \in UserRow /\ new.status = "cancelled" /\ new.up = sub[s].up /\ new.prev = sub[s].prev
      BY <1>t DEF UserRow
    <2>2. /\ IsSub(s) /\ UNCHANGED overlapped
          /\ BeginTx("admin", [t \in {s} |-> [sub[t] EXCEPT !.status = "cancelled", !.end = clock]],
                     FallBack(s, UserSubs \ {s}))
      BY <1>2 DEF InvalidateSub
    <2>3. [t \in {s} |-> [sub[t] EXCEPT !.status = "cancelled", !.end = clock]] = [t \in {s} |-> new]
      OBVIOUS
    <2> HIDE DEF new
    <2> QED BY <2>1, <2>2, <2>3, EndKeeps
  <1> QED BY <1>1, <1>2

LEMMA CommitKeeps ==
    ASSUME Serial, GInv, NEW a \in Actors, Commit(a)
    PROVE  GInv'
  <1> DEFINE tx == trans[a]
  <1>1. /\ tx.open /\ sub' = After(tx, sub) /\ group' = GroupAfter(tx, group)
        /\ trans' = [trans EXCEPT ![a] = Idle] /\ UNCHANGED <<clock, overlapped>>
    BY DEF Commit, After, GroupAfter
  <1>2. tx # Idle BY <1>1 DEF Idle
  <1>3. Good(sub', group', clock', overlapped') BY <1>1, <1>2 DEF GInv
  <1>4. \A b \in Actors : b # a => trans[b] = Idle BY <1>2 DEF GInv
  <1>5. DOMAIN trans' = Actors /\ \A b \in Actors : trans'[b] = Idle BY <1>1, <1>4 DEF GInv
  <1> HIDE DEF tx
  <1> QED BY <1>1, <1>3, <1>5 DEF GInv

LEMMA TickKeeps ==
    ASSUME GInv, ClockTick
    PROVE  GInv'
  <1>1. clock' = clock + 1 /\ clock \in Nat /\ UNCHANGED <<group, sub, trans, overlapped>>
    BY DEF ClockTick, GInv
  <1>2. Good(sub', group', clock', overlapped') BY <1>1, GoodLater DEF GInv
  <1>3. ASSUME NEW a \in Actors, trans[a] # Idle
        PROVE  Good(After(trans[a], sub), GroupAfter(trans[a], group), clock + 1, overlapped)
    BY <1>1, <1>3, GoodLater DEF GInv
  <1> QED BY <1>1, <1>2, <1>3 DEF GInv

LEMMA GroupsKept ==
    ASSUME Serial
    PROVE  GroupSpec => []GInv
  <1>1. GroupInit => GInv
    <2> SUFFICES ASSUME GroupInit PROVE GInv OBVIOUS
    <2> DEFINE none == [status |-> "none", up |-> NoGroup, prev |-> NoGroup, end |-> 0]
    <2>1. /\ group = Base /\ clock = 0 /\ overlapped = FALSE /\ sub = [s \in UserSubs |-> none]
          /\ trans = [a \in Actors |-> Idle]
      BY DEF GroupInit
    <2>2. none \in UserRow /\ none.status = "none" BY DEF UserRow
    <2> HIDE DEF none
    <2>3. sub \in [UserSubs -> UserRow] /\ \A s \in UserSubs : sub[s].status = "none" BY <2>1, <2>2
    <2>4. \A s \in UserSubs : ~IsActive(sub, s) /\ sub[s].status # "expired" BY <2>3 DEF IsActive
    <2>5. KeptIn(sub, group, clock) BY <2>4 DEF KeptIn, Runs
    <2>6. ReturnedIn(sub, group, clock) BY <2>1, <2>3, <2>4 DEF ReturnedIn
    <2>7. Good(sub, group, clock, overlapped) BY <2>1, <2>3, <2>5, <2>6 DEF Good
    <2>8. DOMAIN trans = Actors /\ \A a \in Actors : trans[a] = Idle BY <2>1
    <2> QED BY <2>1, <2>7, <2>8 DEF GInv
  <1>2. ASSUME GInv, [GroupNext]_groupVars PROVE GInv'
    <2>1. CASE UNCHANGED groupVars BY <1>2, <2>1 DEF groupVars, GInv
    <2>2. CASE Expire BY <1>2, <2>2, ExpiryKeeps
    <2>3. CASE ClockTick BY <1>2, <2>3, TickKeeps
    <2>4. ASSUME NEW s \in UserSubs, Buy(s) \/ InvalidateSub(s) \/ DeleteSub(s) PROVE GInv'
      BY <1>2, <2>4, BuyKeeps, ClosingKeeps
    <2>5. ASSUME NEW a \in Actors, Commit(a) PROVE GInv' BY <1>2, <2>5, CommitKeeps
    <2> QED BY <1>2, <2>1, <2>2, <2>3, <2>4, <2>5 DEF GroupNext
  <1>3. GInv /\ [GroupNext]_groupVars => GInv' BY <1>2
  <1> QED BY <1>1, <1>3, PTL DEF GroupSpec

\* Where the database serialises transactions, a user who has never bought one subscription while
\* another was not marked as ended is back in the group they had before the first once none is left,
\* however purchases, expiries, administrators' calls and the clock cross
\* (downgradeUserGroupForSubscriptionTx, ExpireDueSubscriptions).
THEOREM BackInOwnGroup ==
    ASSUME Serial
    PROVE  GroupSpec => []GroupReturned
  <1>1. GInv => GroupReturned
    BY DEF GInv, Good, ReturnedIn, IsActive, GroupReturned
  <1> QED BY <1>1, GroupsKept, PTL

\* There, whatever overlaps, nobody loses the group of a running subscription to the end of another
\* ("If there's an active upgraded subscription, keep current group").
THEOREM RunningKeepsGroup ==
    ASSUME Serial
    PROVE  GroupSpec => []UpgradeKept
  <1>1. GInv => UpgradeKept
    BY DEF GInv, Good, KeptIn, Runs, IsActive, UpgradeKept, Running
  <1> QED BY <1>1, GroupsKept, PTL
=============================================================================
