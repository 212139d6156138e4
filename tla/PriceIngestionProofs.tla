------------------------ MODULE PriceIngestionProofs ------------------------
(***************************************************************************)
(* Proofs about PriceIngestion, for every set of jobs, tickers and prices, *)
(* every answer of the provider and every number of retries.               *)
(***************************************************************************)
EXTENDS PriceIngestion, TLAPS

\* The inductive invariant: each part needs the others in the step of some
\* action (the table stays unique because inserts are isolated, isolation
\* holds at a flush because of what the invocation last read).
IInv == TypeOK /\ UniqueKeys /\ WritesIsolated /\ AttemptsConsistent

Kinds == {"transient", "permanent", "uncaught"}

\* Only job j moves.
OthersKeep(j) ==
  \A i \in Jobs \ {j} : /\ pc'[i] = pc[i]
                        /\ attempt'[i] = attempt[i]
                        /\ txn'[i] = txn[i]

-----------------------------------------------------------------------------
\* Lemmas on types.

LEMMA FreshType == Fresh \in Attempts
BY DEF Fresh, Attempts

\* The state an invocation leaves when it raises is of the right type.
LEMMA RaiseType ==
  ASSUME TypeOK, NEW j \in Jobs, NEW kind \in Kinds, Raise(j, kind),
         table' \subseteq Points
  PROVE  TypeOK' /\ OthersKeep(j)
BY FreshType, RetriesAssumption
   DEF TypeOK, Kinds, Raise, Rollback, Retries, OthersKeep, Running, Ended

\* Going on to the next ticker keeps the types.
LEMMA NextTickerType ==
  ASSUME TypeOK, NEW j \in Jobs, NEW a \in Attempts, NextTicker(j, a),
         UNCHANGED <<retries, txn, raised, table>>
  PROVE  /\ TypeOK' /\ OthersKeep(j)
         /\ attempt'[j] = [a EXCEPT !.cursor = @ + 1]
         /\ pc'[j] \in {"calling", "committing"}
<1>1. [a EXCEPT !.cursor = @ + 1] \in Attempts
  BY DEF Attempts
<1>2. QED
  BY <1>1 DEF TypeOK, NextTicker, OthersKeep, Running, Ended

\* What the invariant says of a job that does not move stays true while no
\* key leaves the table.
LEMMA OthersConsistent ==
  ASSUME AttemptsConsistent, NEW j \in Jobs, OthersKeep(j),
         KeysOf(table) \subseteq KeysOf(table')
  PROVE  \A i \in Jobs \ {j} : InvocationConsistent(i)'
BY DEF AttemptsConsistent, InvocationConsistent, OthersKeep

LEMMA NothingLeft == Elements(<<>>) = {} /\ KeysOf({}) = {}
BY DEF Elements, KeysOf

LEMMA KeysOfUnion ==
  ASSUME NEW S, NEW T
  PROVE  KeysOf(S \cup T) = KeysOf(S) \cup KeysOf(T)
BY DEF KeysOf

\* A job without a transaction, whose invocation is over, is consistent.
LEMMA FreshConsistent ==
  ASSUME NEW j \in Jobs, attempt'[j] = Fresh, txn'[j] = {},
         pc'[j] \in {"waiting", "calling", "failed", "lost"}
  PROVE  InvocationConsistent(j)'
BY NothingLeft DEF InvocationConsistent, Fresh

-----------------------------------------------------------------------------
\* Lemmas on the table and the transactions.

\* Rolling back one transaction keeps writes isolated.
LEMMA RollbackIsolated ==
  ASSUME WritesIsolated, TypeOK, NEW j \in Jobs, UNCHANGED table,
         txn' = [txn EXCEPT ![j] = {}]
  PROVE  WritesIsolated'
BY DEF WritesIsolated, TypeOK, KeysOf

\* An invocation that raises leaves the invariant true.
LEMMA RaiseKeeps ==
  ASSUME IInv, NEW j \in Jobs, NEW kind \in Kinds, Raise(j, kind),
         UNCHANGED table
  PROVE  IInv'
<1>1. TypeOK' /\ OthersKeep(j)
  BY RaiseType DEF IInv, TypeOK
<1>2. UniqueKeys'
  BY DEF IInv, UniqueKeys
<1>3. WritesIsolated'
  BY RollbackIsolated DEF IInv, Raise, Rollback
<1>4. AttemptsConsistent'
  <2>1. \A i \in Jobs \ {j} : InvocationConsistent(i)'
    BY <1>1, OthersConsistent DEF IInv
  <2>2. InvocationConsistent(j)'
    BY FreshConsistent DEF Raise, Rollback, IInv, TypeOK
  <2>3. QED
    BY <2>1, <2>2 DEF AttemptsConsistent
<1>5. QED
  BY <1>1, <1>2, <1>3, <1>4 DEF IInv

\* What COMMIT makes of the table: no key is lost, the keys of the
\* transaction are added, no key comes twice, others stay isolated.
LEMMA AppliedTable ==
  ASSUME IInv, NEW j \in Jobs, table' = Applied(j),
         txn' = [txn EXCEPT ![j] = {}]
  PROVE  /\ table' \subseteq Points
         /\ KeysOf(table') = KeysOf(table) \cup KeysOf(txn[j])
         /\ UniqueKeys'
         /\ WritesIsolated'
<1> USE DEF IInv, TypeOK
<1>1. \A w \in txn[j] : /\ w \in Writes
                        /\ [key |-> w.key, price |-> w.price] \in Points
  BY DEF Writes, Points
<1>2. table' \subseteq Points
  BY <1>1 DEF Applied, RowsOf
<1>3. KeysOf(RowsOf(j)) = KeysOf(txn[j])
  <2>1. ASSUME NEW w \in txn[j] PROVE \E r \in RowsOf(j) : r.key = w.key
    <3> DEFINE r == [key |-> w.key, price |-> w.price]
    <3>1. r \in RowsOf(j) /\ r.key = w.key
      BY DEF RowsOf
    <3>2. QED
      BY <3>1
  <2>2. \A r \in RowsOf(j) : \E w \in txn[j] : r.key = w.key
    BY DEF RowsOf
  <2>3. QED
    BY <2>1, <2>2 DEF KeysOf
<1>4. \A w \in txn[j] : w.op = "update" \/ w.key \notin KeysOf(table)
  BY <1>1 DEF WritesIsolated, Writes
<1>5. KeysOf(table') = KeysOf(table) \cup KeysOf(txn[j])
  <2>1. KeysOf(table') \subseteq KeysOf(table) \cup KeysOf(txn[j])
    BY <1>3 DEF Applied, KeysOf
  <2>2. KeysOf(txn[j]) \subseteq KeysOf(table')
    BY <1>3 DEF Applied, KeysOf
  <2>3. ASSUME NEW p \in table PROVE p.key \in KeysOf(table')
    <3>1. CASE \E w \in txn[j] : w.op = "update" /\ w.key = p.key
      BY <3>1, <2>2 DEF KeysOf
    <3>2. CASE ~\E w \in txn[j] : w.op = "update" /\ w.key = p.key
      BY <3>2 DEF Applied, KeysOf
    <3>3. QED
      BY <3>1, <3>2
  <2>4. QED
    BY <2>1, <2>2, <2>3 DEF KeysOf
<1>6. UniqueKeys'
  <2> SUFFICES ASSUME NEW p \in table', NEW q \in table', p.key = q.key
               PROVE  p = q
    BY DEF UniqueKeys
  <2>1. CASE p \in table /\ q \in table
    BY <2>1 DEF UniqueKeys
  <2>2. CASE p \in RowsOf(j) /\ q \in RowsOf(j)
    BY <2>2 DEF RowsOf, AttemptsConsistent, InvocationConsistent
  <2>3. ASSUME NEW r \in RowsOf(j), NEW o \in table' \ RowsOf(j),
               r.key = o.key
        PROVE  FALSE
    <3>1. PICK w \in txn[j] : w.key = r.key
      BY DEF RowsOf
    <3>2. o \in table /\ o.key \in KeysOf(table)
      BY DEF Applied, KeysOf
    <3>3. w.op = "update"
      BY <3>1, <3>2, <1>4, <2>3
    <3>4. QED
      BY <3>1, <3>2, <3>3, <2>3 DEF Applied
  <2>4. QED
    BY <2>1, <2>2, <2>3 DEF Applied
<1>7. WritesIsolated'
  <2>1. ASSUME NEW i \in Jobs \ {j}, NEW w \in txn[i]
        PROVE  w.op = "insert" <=> w.key \notin KeysOf(table')
    <3>1. w.key \in KeysOf(txn[i])
      BY DEF KeysOf
    <3>2. w.key \notin KeysOf(txn[j])
      BY <3>1 DEF WritesIsolated
    <3>3. QED
      BY <3>2, <1>5 DEF WritesIsolated
  <2>2. KeysOf(txn'[j]) = {}
    BY DEF KeysOf
  <2>3. QED
    BY <2>1, <2>2 DEF WritesIsolated
<1>8. QED
  BY <1>2, <1>5, <1>6, <1>7

-----------------------------------------------------------------------------
\* The invariant, action by action.

\* Only the local state of j moves: nothing to show of the database.
LEMMA LocalKeeps ==
  ASSUME IInv, NEW j \in Jobs, TypeOK', OthersKeep(j), UNCHANGED <<txn, table>>,
         InvocationConsistent(j)'
  PROVE  IInv'
<1>1. UniqueKeys' /\ WritesIsolated'
  BY DEF IInv, UniqueKeys, WritesIsolated
<1>2. AttemptsConsistent'
  <2>1. \A i \in Jobs \ {j} : InvocationConsistent(i)'
    BY OthersConsistent DEF IInv
  <2>2. QED
    BY <2>1 DEF AttemptsConsistent
<1>3. QED
  BY <1>1, <1>2 DEF IInv

\* A ticker is skipped, or its chart was empty.
LEMMA SkipKeeps ==
  ASSUME IInv, NEW j \in Jobs, pc[j] = "calling",
         NEW a \in {attempt[j], [attempt[j] EXCEPT !.unreachable = TRUE]},
         NextTicker(j, a), UNCHANGED <<retries, txn, raised, table>>
  PROVE  IInv'
<1>1. attempt[j] \in Attempts
  BY DEF IInv, TypeOK
<1>2. /\ a \in Attempts /\ a.points = attempt[j].points
      /\ a.pending = attempt[j].pending /\ a.saved = attempt[j].saved
      /\ a.received = attempt[j].received
  BY <1>1 DEF Attempts
<1>3. /\ TypeOK' /\ OthersKeep(j)
      /\ attempt'[j] = [a EXCEPT !.cursor = @ + 1]
      /\ pc'[j] \in {"calling", "committing"}
  BY <1>2, NextTickerType DEF IInv
<1>4. /\ attempt'[j].points = attempt[j].points
      /\ attempt'[j].pending = attempt[j].pending
      /\ attempt'[j].saved = attempt[j].saved
      /\ attempt'[j].received = attempt[j].received
  BY <1>2, <1>3 DEF Attempts
<1>5. InvocationConsistent(j)'
  BY <1>3, <1>4 DEF IInv, AttemptsConsistent, InvocationConsistent
<1>6. QED
  BY <1>3, <1>5, LocalKeeps

\* A point made of an answer has a key of a ticker and a whole second.
LEMMA PointOfType ==
  ASSUME NEW ticker \in Tickers, NEW answer \in Answers, NEW unit \in Nat \ {0}
  PROVE  PointOf(ticker, answer, unit) \in Points
<1>1. answer.stamp \in Nat /\ answer.price \in Prices
  BY DEF Answers
<1>2. answer.stamp \div unit \in Nat
  BY <1>1, SMT
<1>3. QED
  BY <1>1, <1>2 DEF PointOf, Points, Keys

LEMMA AnsweredKeeps ==
  ASSUME IInv, NEW j \in Jobs, pc[j] = "calling",
         NEW ps \in Seq(Points), Answered(j, ps)
  PROVE  IInv'
<1>1. CASE ps = <<>>
  BY <1>1, SkipKeeps DEF Answered
<1>2. CASE ps # <<>>
  <2> DEFINE new == Elements(ps)
             a   == attempt[j]
             b   == [a EXCEPT !.points = ps, !.received = @ \cup new]
  <2>1. new \subseteq Points
    BY DEF Elements
  <2>2. a \in Attempts
    BY DEF IInv, TypeOK
  <2>3. /\ b \in Attempts /\ b.points = ps /\ b.pending = a.pending
        /\ b.saved = a.saved /\ b.received = a.received \cup new
    BY <2>1, <2>2 DEF Attempts
  <2>4. attempt' = [attempt EXCEPT ![j] = b] /\ pc' = [pc EXCEPT ![j] = "saving"]
    BY <1>2 DEF Answered
  <2>5. UNCHANGED <<retries, txn, raised, table>>
    BY DEF Answered
  <2>6. TypeOK' /\ OthersKeep(j)
    BY <2>3, <2>4, <2>5 DEF IInv, TypeOK, OthersKeep, Running
  <2>7. attempt'[j] = b /\ pc'[j] = "saving" /\ txn'[j] = txn[j]
    BY <2>4, <2>5 DEF IInv, TypeOK
  <2>8. InvocationConsistent(j)
    BY DEF IInv, AttemptsConsistent
  <2>9. InvocationConsistent(j)'
    <3>1. KeysOf(b.received) \subseteq b.saved \cup KeysOf(new)
      BY <2>3, <2>8, NothingLeft, KeysOfUnion DEF InvocationConsistent
    <3>2. QED
      BY <1>2, <2>3, <2>5, <2>7, <2>8, <3>1 DEF InvocationConsistent
  <2>10. QED
    BY <2>5, <2>6, <2>9, LocalKeeps
<1>3. QED
  BY <1>1, <1>2

\* Taking the first point off a non-empty sequence of points.
LEMMA TakePoint ==
  ASSUME NEW s \in Seq(Points), s # <<>>
  PROVE  /\ Head(s) \in Points /\ Tail(s) \in Seq(Points)
         /\ Elements(s) = {Head(s)} \cup Elements(Tail(s))
<1>1. Head(s) \in Points /\ Tail(s) \in Seq(Points)
  OBVIOUS
<1>2. \A i \in DOMAIN Tail(s) : i + 1 \in DOMAIN s /\ Tail(s)[i] = s[i + 1]
  OBVIOUS
<1>3. \A i \in DOMAIN s \ {1} :
        i - 1 \in DOMAIN Tail(s) /\ Tail(s)[i - 1] = s[i]
  OBVIOUS
<1>4. 1 \in DOMAIN s /\ Head(s) = s[1]
  OBVIOUS
<1>5. \A e \in Elements(s) : e = Head(s) \/ e \in Elements(Tail(s))
  BY <1>3, <1>4 DEF Elements
<1>6. Head(s) \in Elements(s) /\ Elements(Tail(s)) \subseteq Elements(s)
  BY <1>2, <1>4 DEF Elements
<1>7. QED
  BY <1>1, <1>5, <1>6

\* A SELECT finds nothing exactly when the key is neither committed nor
\* written by the job's own transaction.
LEMMA VisibleNothing ==
  ASSUME NEW j \in Jobs, NEW k
  PROVE  Visible(j, k) = {} <=> k \notin KeysOf(table) \cup KeysOf(txn[j])
BY DEF Visible, KeysOf

LEMMA SelectKeeps ==
  ASSUME IInv, NEW j \in Jobs, Select(j)
  PROVE  IInv'
<1> DEFINE o    == attempt[j]
           p    == Head(o.points)
           rest == Tail(o.points)
           seen == Visible(j, p.key)
           w    == [key |-> p.key, price |-> p.price,
                    op |-> IF seen = {} THEN "insert" ELSE "update"]
           pend == IF p.price \in seen THEN {} ELSE {w}
           a    == [o EXCEPT !.points = rest, !.saved = @ \cup {p.key},
                             !.pending = pend]
<1>1. /\ o \in Attempts /\ o.points \in Seq(Points) /\ o.points # <<>>
      /\ InvocationConsistent(j) /\ o.pending = {}
  BY DEF IInv, TypeOK, AttemptsConsistent, InvocationConsistent, Select, Attempts
<1>2. /\ p \in Points /\ rest \in Seq(Points)
      /\ Elements(o.points) = {p} \cup Elements(rest)
  BY <1>1, TakePoint
<1>3. w \in Writes /\ p.key \in Keys
  BY <1>2 DEF Points, Writes
<1>4. /\ a \in Attempts /\ a.points = rest /\ a.saved = o.saved \cup {p.key}
      /\ a.pending = pend /\ a.received = o.received
  BY <1>1, <1>2, <1>3 DEF Attempts
<1>5. UNCHANGED <<retries, txn, raised, table>>
  BY DEF Select
<1>6. IF rest = <<>> THEN NextTicker(j, a)
      ELSE attempt' = [attempt EXCEPT ![j] = a] /\ UNCHANGED pc
  BY Zenon DEF Select
<1>7. /\ TypeOK' /\ OthersKeep(j)
      /\ attempt'[j].points = rest /\ attempt'[j].saved = o.saved \cup {p.key}
      /\ attempt'[j].pending = pend /\ attempt'[j].received = o.received
      /\ pc'[j] = "saving" <=> rest # <<>>
      /\ pc'[j] \in {"calling", "saving", "committing"}
  <2>1. CASE rest = <<>>
    <3> HIDE DEF a
    <3>1. NextTicker(j, a)
      BY <2>1, <1>6
    <3>2. /\ TypeOK' /\ OthersKeep(j)
          /\ attempt'[j] = [a EXCEPT !.cursor = @ + 1]
          /\ pc'[j] \in {"calling", "committing"}
      BY <3>1, <1>4, <1>5, NextTickerType DEF IInv
    <3>3. QED
      BY <2>1, <3>2, <1>4 DEF Attempts
  <2>2. CASE rest # <<>>
    <3> HIDE DEF a, rest, pend
    <3>1. attempt' = [attempt EXCEPT ![j] = a] /\ UNCHANGED pc
      BY <2>2, <1>6
    <3>2. attempt'[j] = a /\ TypeOK' /\ OthersKeep(j)
      BY <3>1, <1>4, <1>5 DEF IInv, TypeOK, OthersKeep
    <3>3. QED
      BY <2>2, <3>1, <3>2, <1>4 DEF Select
  <2>3. QED
    BY <2>1, <2>2
<1>8. InvocationConsistent(j)'
  <2>1. p \in o.received /\ Elements(rest) \subseteq o.received
    BY <1>1, <1>2 DEF InvocationConsistent
  <2>2. [key |-> w.key, price |-> w.price] = p
    BY <1>2 DEF Points
  <2>3. KeysOf(o.received) \subseteq o.saved \cup {p.key} \cup KeysOf(Elements(rest))
    <3>1. KeysOf(o.received) \subseteq o.saved \cup KeysOf(Elements(o.points))
      BY <1>1 DEF InvocationConsistent
    <3>2. KeysOf(Elements(o.points)) = {p.key} \cup KeysOf(Elements(rest))
      BY <1>2 DEF KeysOf
    <3>3. QED
      BY <3>1, <3>2
  <2>4. p.price \in seen => p.key \in KeysOf(table) \cup KeysOf(txn[j])
    BY VisibleNothing
  <2>5. p.key \in KeysOf(table) \cup KeysOf(txn[j]) \cup KeysOf(pend)
    BY <2>4 DEF KeysOf
  <2>6. \A v \in pend : v = w
    OBVIOUS
  <2>7. IF w.op = "insert" THEN w.key \notin KeysOf(txn[j])
        ELSE w.key \in KeysOf(table) \cup KeysOf(txn[j])
    BY VisibleNothing
  <2>8. \A v \in txn[j] \cup pend : [key |-> v.key, price |-> v.price] \in o.received
    BY <1>1, <2>1, <2>2, <2>6 DEF InvocationConsistent
  <2>9. o.saved \subseteq KeysOf(table) \cup KeysOf(txn[j])
    BY <1>1 DEF InvocationConsistent, KeysOf
  <2>10. \A v, u \in txn[j] : v.key = u.key => v = u
    BY <1>1 DEF InvocationConsistent
  <2> HIDE DEF pend, w, p, rest, o
  <2>11. QED
    BY <1>5, <1>7, <2>1, <2>3, <2>5, <2>6, <2>7, <2>8, <2>9, <2>10
       DEF InvocationConsistent
<1>9. QED
  BY <1>5, <1>7, <1>8, LocalKeeps

\* One row is written: it is inserted if the key is new, updated otherwise.
LEMMA FlushKeeps ==
  ASSUME IInv, NEW j \in Jobs, Flush(j)
  PROVE  IInv'
<1> DEFINE o == attempt[j]
<1>1. /\ o \in Attempts /\ txn[j] \subseteq Writes /\ o.pending \subseteq Writes
      /\ InvocationConsistent(j) /\ pc[j] \in {"saving", "committing"}
  BY DEF IInv, TypeOK, Attempts, AttemptsConsistent, Flush, Flushes
<1>2. PICK w \in o.pending : txn' = [txn EXCEPT ![j] = Written(txn[j], w)]
  BY DEF Flush
<1>3. w \in Writes /\ o.pending = {w}
  BY <1>1 DEF InvocationConsistent
<1> DEFINE again == \E r \in txn[j] : r.key = w.key /\ r.op = "insert"
           x     == [w EXCEPT !.op = IF again THEN "insert" ELSE @]
<1>4. x \in Writes /\ x.key = w.key /\ x.price = w.price
      /\ x.op = IF again THEN "insert" ELSE w.op
  BY <1>3 DEF Writes
<1>5. txn'[j] = {r \in txn[j] : r.key # w.key} \cup {x}
  BY <1>2 DEF IInv, TypeOK, Written
<1> HIDE DEF x
<1>6. KeysOf(txn'[j]) = KeysOf(txn[j]) \cup {w.key}
  BY <1>4, <1>5 DEF KeysOf
<1>7. attempt' = [attempt EXCEPT ![j] = [o EXCEPT !.pending = {}]]
      /\ UNCHANGED <<pc, retries, raised, table>>
  BY DEF Flush
<1>8. /\ [o EXCEPT !.pending = {}] \in Attempts
      /\ attempt'[j].points = o.points /\ attempt'[j].saved = o.saved
      /\ attempt'[j].pending = {} /\ attempt'[j].received = o.received
  BY <1>1, <1>7 DEF Attempts, IInv, TypeOK
<1>9. TypeOK' /\ OthersKeep(j)
  BY <1>1, <1>2, <1>4, <1>5, <1>7, <1>8 DEF IInv, TypeOK, OthersKeep
<1>10. WritesIsolated'
  <2>1. x.op = "insert" <=> x.key \notin KeysOf(table)
    <3>1. CASE again
      BY <3>1, <1>4 DEF IInv, WritesIsolated
    <3>2. CASE ~again /\ w.op = "insert"
      BY <3>2, <1>3, <1>4 DEF Flush, Conflicts
    <3>3. CASE ~again /\ w.op # "insert"
      <4>1. w.key \in KeysOf(table) \cup KeysOf(txn[j])
        BY <3>3, <1>1, <1>3 DEF InvocationConsistent
      <4>2. w.key \in KeysOf(txn[j]) => w.key \in KeysOf(table)
        BY <3>3 DEF IInv, WritesIsolated, KeysOf
      <4>3. QED
        BY <3>3, <4>1, <4>2, <1>4
    <3>4. QED
      BY <3>1, <3>2, <3>3
  <2>2. \A i \in Jobs \ {j} : KeysOf(txn[i]) \cap {w.key} = {}
    BY <1>3 DEF Flush, Holders, KeysOf
  <2>3. \A i \in Jobs \ {j} : KeysOf(txn'[i]) \cap KeysOf(txn'[j]) = {}
    BY <1>6, <1>9, <2>2 DEF IInv, WritesIsolated, OthersKeep
  <2>4. ASSUME NEW i \in Jobs, NEW r \in txn'[i]
        PROVE  r.op = "insert" <=> r.key \notin KeysOf(table)
    <3>1. r \in txn[i] \/ r = x
      BY <1>5, <1>9 DEF OthersKeep
    <3>2. QED
      BY <2>1, <3>1 DEF IInv, WritesIsolated
  <2>5. \A i, k \in Jobs : i # k => KeysOf(txn'[i]) \cap KeysOf(txn'[k]) = {}
    BY <1>9, <2>3 DEF IInv, WritesIsolated, OthersKeep
  <2>6. UNCHANGED table
    BY <1>7
  <2>7. QED
    BY <2>4, <2>5, <2>6 DEF WritesIsolated
<1>11. InvocationConsistent(j)'
  <2>1. \A v \in txn'[j] : [key |-> v.key, price |-> v.price] \in o.received
    BY <1>1, <1>4, <1>5 DEF InvocationConsistent
  <2>2. \A u, v \in txn'[j] : u.key = v.key => u = v
    BY <1>1, <1>4, <1>5 DEF InvocationConsistent
  <2>3. o.saved \subseteq KeysOf(table) \cup KeysOf(txn'[j])
    BY <1>1, <1>3, <1>6 DEF InvocationConsistent, KeysOf
  <2> HIDE DEF o
  <2>4. /\ pc[j] = "saving" <=> o.points # <<>>
        /\ Elements(o.points) \subseteq o.received
        /\ KeysOf(o.received) \subseteq o.saved \cup KeysOf(Elements(o.points))
    BY <1>1 DEF InvocationConsistent, o
  <2>5. QED
    BY <1>1, <1>7, <1>8, <2>1, <2>2, <2>3, <2>4 DEF InvocationConsistent
<1>12. AttemptsConsistent'
  <2>1. \A i \in Jobs \ {j} : InvocationConsistent(i)'
    BY <1>7, <1>9, OthersConsistent DEF IInv
  <2>2. QED
    BY <2>1, <1>11 DEF AttemptsConsistent
<1>13. UniqueKeys'
  BY <1>7 DEF IInv, UniqueKeys
<1>14. QED
  BY <1>9, <1>10, <1>12, <1>13 DEF IInv

\* COMMIT: everything received is in the table.
LEMMA CommitStores ==
  ASSUME IInv, NEW j \in Jobs, Commits(j)
  PROVE  /\ KeysOf(attempt[j].received) \subseteq attempt[j].saved
         /\ attempt[j].saved \subseteq KeysOf(table) \cup KeysOf(txn[j])
BY NothingLeft DEF IInv, AttemptsConsistent, InvocationConsistent, Commits

LEMMA CommitKeeps ==
  ASSUME IInv, NEW j \in Jobs, Commit(j)
  PROVE  IInv'
<1>1. /\ table' \subseteq Points
      /\ KeysOf(table') = KeysOf(table) \cup KeysOf(txn[j])
      /\ UniqueKeys' /\ WritesIsolated'
  BY AppliedTable DEF Commit
<1>2. TypeOK' /\ OthersKeep(j)
  BY <1>1 DEF IInv, TypeOK, Commit, OthersKeep, Running
<1>3. /\ pc'[j] = "closing" /\ txn'[j] = {} /\ attempt'[j] = attempt[j]
      /\ pc[j] = "committing" /\ attempt[j].pending = {}
  BY DEF IInv, TypeOK, Commit, Commits
<1>4. InvocationConsistent(j)'
  BY <1>1, <1>3, CommitStores, NothingLeft
     DEF IInv, AttemptsConsistent, InvocationConsistent, Commit
<1>5. AttemptsConsistent'
  BY <1>1, <1>2, <1>4, OthersConsistent DEF IInv, AttemptsConsistent
<1>6. QED
  BY <1>1, <1>2, <1>5 DEF IInv

LEMMA CommitAckLostKeeps ==
  ASSUME IInv, NEW j \in Jobs, CommitAckLost(j)
  PROVE  IInv'
<1>1. Raise(j, "transient") /\ txn' = [txn EXCEPT ![j] = {}]
  BY DEF CommitAckLost, Raise, Rollback
<1>2. /\ table' \subseteq Points
      /\ KeysOf(table') = KeysOf(table) \cup KeysOf(txn[j])
      /\ UniqueKeys' /\ WritesIsolated'
  BY <1>1, AppliedTable DEF CommitAckLost
<1>3. TypeOK' /\ OthersKeep(j)
  BY <1>1, <1>2, RaiseType DEF IInv, Kinds
<1>4. InvocationConsistent(j)'
  BY <1>1, FreshConsistent DEF Raise, IInv, TypeOK
<1>5. AttemptsConsistent'
  BY <1>2, <1>3, <1>4, OthersConsistent DEF IInv, AttemptsConsistent
<1>6. QED
  BY <1>2, <1>3, <1>5 DEF IInv

LEMMA StartKeeps ==
  ASSUME IInv, NEW j \in Jobs, Start(j)
  PROVE  IInv'
<1>1. CASE Configured(j)
  <2>1. /\ pc[j] = "waiting" /\ pc' = [pc EXCEPT ![j] = "calling"]
        /\ UNCHANGED <<retries, attempt, txn, raised, table>>
    BY <1>1 DEF Start
  <2>2. TypeOK' /\ OthersKeep(j)
    BY <2>1 DEF IInv, TypeOK, OthersKeep, Running
  <2>3. attempt'[j] = Fresh /\ txn'[j] = {} /\ pc'[j] = "calling"
    BY <2>1 DEF IInv, TypeOK, AttemptsConsistent, InvocationConsistent
  <2>4. QED
    BY <2>1, <2>2, <2>3, FreshConsistent, LocalKeeps
<1>2. CASE ~Configured(j)
  BY <1>2, RaiseKeeps DEF Start, Kinds
<1>3. QED
  BY <1>1, <1>2

\* The invocation is over or never began: only the place of j changes.
LEMMA EndKeeps ==
  ASSUME IInv, NEW j \in Jobs, Finish(j) \/ Expire(j)
  PROVE  IInv'
<1>1. /\ pc[j] \in {"closing", "waiting"}
      /\ \E e \in {"succeeded", "expired"} : pc' = [pc EXCEPT ![j] = e]
      /\ UNCHANGED <<retries, attempt, txn, raised, table>>
  BY DEF Finish, Expire
<1>2. TypeOK' /\ OthersKeep(j) /\ pc'[j] \in {"succeeded", "expired"}
  BY <1>1 DEF IInv, TypeOK, OthersKeep, Ended
<1>3. InvocationConsistent(j)'
  BY <1>1, <1>2 DEF IInv, AttemptsConsistent, InvocationConsistent
<1>4. QED
  BY <1>1, <1>2, <1>3, LocalKeeps

LEMMA CrashKeeps ==
  ASSUME IInv, NEW j \in Jobs, Crash(j)
  PROVE  IInv'
<1>1. TypeOK' /\ OthersKeep(j)
  BY FreshType DEF IInv, TypeOK, Crash, OthersKeep, Ended
<1>2. attempt'[j] = Fresh /\ txn'[j] = {} /\ pc'[j] = "lost"
  BY DEF IInv, TypeOK, Crash
<1>3. UniqueKeys'
  BY DEF IInv, UniqueKeys, Crash
<1>4. WritesIsolated'
  BY RollbackIsolated DEF IInv, Crash
<1>5. AttemptsConsistent'
  BY <1>1, <1>2, FreshConsistent, OthersConsistent
     DEF AttemptsConsistent, IInv, Crash
<1>6. QED
  BY <1>1, <1>3, <1>4, <1>5 DEF IInv

\* The points that come back from the provider have the right type.
LEMMA AnswerKeeps ==
  ASSUME IInv, NEW j \in Jobs, FetchAnswered(j) \/ ChartAnswered(j)
  PROVE  IInv'
<1>1. pc[j] = "calling" /\ Ticker(j) \in Tickers
  BY JobsAssumption DEF FetchAnswered, ChartAnswered, Calls
<1>2. CASE FetchAnswered(j)
  <2>1. PICK a \in IndexAnswers :
          Answered(j, <<PointOf(Ticker(j), a, MicrosPerSecond)>>)
    BY <1>2 DEF FetchAnswered
  <2>2. PointOf(Ticker(j), a, MicrosPerSecond) \in Points
    BY <1>1, PointOfType, ProviderAssumption
  <2>3. <<PointOf(Ticker(j), a, MicrosPerSecond)>> \in Seq(Points)
    BY <2>2
  <2>4. QED
    BY <1>1, <2>1, <2>3, AnsweredKeeps
<1>3. CASE ChartAnswered(j)
  <2>1. PICK s \in ChartAnswers :
          Answered(j, [i \in 1 .. Len(s) |->
                         PointOf(Ticker(j), s[i], MillisPerSecond)])
    BY <1>3 DEF ChartAnswered
  <2>2. s \in Seq(Answers)
    BY ProviderAssumption
  <2>3. \A i \in 1 .. Len(s) :
          PointOf(Ticker(j), s[i], MillisPerSecond) \in Points
    BY <1>1, <2>2, PointOfType, ProviderAssumption
  <2>4. [i \in 1 .. Len(s) |-> PointOf(Ticker(j), s[i], MillisPerSecond)]
          \in Seq(Points)
    BY <2>2, <2>3
  <2>5. QED
    BY <1>1, <2>1, <2>4, AnsweredKeeps
<1>4. QED
  BY <1>2, <1>3

LEMMA NextKeeps == IInv /\ [Next]_vars => IInv'
<1> SUFFICES ASSUME IInv, [Next]_vars PROVE IInv'
  OBVIOUS
<1>1. CASE UNCHANGED vars
  BY <1>1 DEF vars, IInv, TypeOK, UniqueKeys, WritesIsolated,
              AttemptsConsistent, InvocationConsistent
<1>2. ASSUME NEW j \in Jobs, Progress(j) PROVE IInv'
  <2>1. CASE Start(j)
    BY <2>1, StartKeeps
  <2>2. CASE FetchAnswered(j) \/ ChartAnswered(j)
    BY <2>2, AnswerKeeps
  <2>3. CASE CallRejected(j) \/ FetchUnreachable(j)
    BY <2>3, SkipKeeps DEF CallRejected, FetchUnreachable, Calls
  <2>4. CASE ChartUnreachable(j)
    BY <2>4, RaiseKeeps DEF ChartUnreachable, Kinds
  <2>5. CASE BodyNotJson(j) \/ FieldGarbled(j)
    BY <2>5, RaiseKeeps DEF BodyNotJson, FieldGarbled, Kinds
  <2>6. CASE Select(j)
    BY <2>6, SelectKeeps
  <2>7. CASE Flush(j)
    BY <2>7, FlushKeeps
  <2>8. CASE FlushRejected(j) \/ Deadlock(j)
    BY <2>8, RaiseKeeps DEF FlushRejected, Deadlock, DatabaseError, Kinds
  <2>9. CASE EndEmpty(j)
    BY <2>9, RaiseKeeps DEF EndEmpty, Kinds
  <2>10. CASE Commit(j)
    BY <2>10, CommitKeeps
  <2>11. CASE Finish(j)
    BY <2>11, EndKeeps
  <2>12. QED
    BY <1>2, <2>1, <2>2, <2>3, <2>4, <2>5, <2>6, <2>7, <2>8, <2>9, <2>10,
       <2>11 DEF Progress
<1>3. ASSUME NEW j \in Jobs, Fault(j) PROVE IInv'
  <2>1. CASE DatabaseUnavailable(j)
    BY <2>1, RaiseKeeps DEF DatabaseUnavailable, DatabaseError, Kinds
  <2>2. CASE CommitAckLost(j)
    BY <2>2, CommitAckLostKeeps
  <2>3. CASE Expire(j)
    BY <2>3, EndKeeps
  <2>4. CASE Crash(j)
    BY <2>4, CrashKeeps
  <2>5. QED
    BY <1>3, <2>1, <2>2, <2>3, <2>4 DEF Fault
<1>4. QED
  BY <1>1, <1>2, <1>3 DEF Next

LEMMA InitHolds == Init => IInv
<1> SUFFICES ASSUME Init PROVE IInv
  OBVIOUS
<1>1. TypeOK
  BY FreshType, RetriesAssumption DEF Init, TypeOK
<1>2. UniqueKeys /\ WritesIsolated
  BY NothingLeft DEF Init, UniqueKeys, WritesIsolated
<1>3. AttemptsConsistent
  BY NothingLeft DEF Init, AttemptsConsistent, InvocationConsistent, Fresh
<1>4. QED
  BY <1>1, <1>2, <1>3 DEF IInv

LEMMA InvariantHolds == Spec => []IInv
BY InitHolds, NextKeeps, PTL DEF Spec

-----------------------------------------------------------------------------
\* The results.

\* Every variable keeps its type: the retries never exceed their limit, and
\* what is stored are points of configured or given tickers.
THEOREM TypeCorrect == Spec => []TypeOK
<1>1. IInv => TypeOK
  BY DEF IInv
<1>2. QED
  BY <1>1, InvariantHolds, PTL

\* One row for each (ticker, timestamp), whatever jobs race for it.
THEOREM KeysStayUnique == Spec => []UniqueKeys
<1>1. IInv => UniqueKeys
  BY DEF IInv
<1>2. QED
  BY <1>1, InvariantHolds, PTL

\* Writes of open transactions stay apart from each other and from what is
\* committed, which is why a commit never adds a second row for a key.
THEOREM WritesStayIsolated == Spec => []WritesIsolated
<1>1. IInv => WritesIsolated
  BY DEF IInv
<1>2. QED
  BY <1>1, InvariantHolds, PTL

\* The local state of every invocation accounts for all it has received.
THEOREM AttemptsStayConsistent == Spec => []AttemptsConsistent
<1>1. IInv => AttemptsConsistent
  BY DEF IInv
<1>2. QED
  BY <1>1, InvariantHolds, PTL

\* A job that has succeeded has left a row for every point it saved, after
\* any crash, retry or overwrite by another job.
THEOREM SuccessStaysStored == Spec => []SuccessMeansStored
<1>1. IInv => SuccessMeansStored
  BY NothingLeft DEF IInv, AttemptsConsistent, InvocationConsistent,
                     SuccessMeansStored
<1>2. QED
  BY <1>1, InvariantHolds, PTL

\* An exception that ends a live batch is permanent or uses up a retry.
LEMMA RaiseRetried ==
  ASSUME TypeOK, FetchRetried, NEW j \in Jobs, NEW kind \in Kinds,
         Raise(j, kind), Kind[j] = "fetch" => kind # "uncaught"
  PROVE  FetchRetried'
<1>1. CASE Retries(j, kind)
  BY <1>1 DEF TypeOK, FetchRetried, Raise
<1>2. CASE ~Retries(j, kind)
  <2>1. Kind[j] = "fetch" /\ ViaBroker[j] =>
          kind = "permanent" \/ retries[j] = MaxRetries
    BY <1>2, RetriesAssumption DEF TypeOK, Kinds, Retries
  <2>2. QED
    BY <1>2, <2>1 DEF TypeOK, FetchRetried, Raise
<1>3. QED
  BY <1>1, <1>2

\* A live batch a worker runs is not given up while it has retries left and
\* no answer of the provider was permanent.
THEOREM FetchStaysRetried == Spec => []FetchRetried
<1>1. Init => FetchRetried
  BY DEF Init, FetchRetried
<1>2. IInv /\ FetchRetried /\ [Next]_vars => FetchRetried'
  <2> SUFFICES ASSUME IInv, FetchRetried, [Next]_vars PROVE FetchRetried'
    OBVIOUS
  <2>1. TypeOK
    BY DEF IInv
  <2>2. CASE UNCHANGED vars
    BY <2>2 DEF vars, FetchRetried
  <2>3. ASSUME NEW j \in Jobs, NEW kind \in Kinds, Raise(j, kind),
               Kind[j] = "fetch" => kind # "uncaught"
        PROVE  FetchRetried'
    BY <2>1, <2>3, RaiseRetried
  <2>4. ASSUME NEW j \in Jobs, pc' = [pc EXCEPT ![j] = pc'[j]],
               pc'[j] # "failed", UNCHANGED <<retries, raised>>
        PROVE  FetchRetried'
    BY <2>1, <2>4 DEF TypeOK, FetchRetried
  <2>5. ASSUME NEW j \in Jobs, NEW a, NextTicker(j, a),
               UNCHANGED <<retries, raised>>
        PROVE  FetchRetried'
    BY <2>1, <2>4, <2>5 DEF TypeOK, NextTicker
  <2>6. ASSUME NEW j \in Jobs, Progress(j) PROVE FetchRetried'
    <3>1. CASE Start(j)
      <4>1. CASE Configured(j)
        BY <3>1, <4>1, <2>1, <2>4 DEF Start, TypeOK
      <4>2. CASE ~Configured(j)
        BY <3>1, <4>2, <2>3 DEF Start, Kinds
      <4>3. QED
        BY <4>1, <4>2
    <3>2. CASE FetchAnswered(j) \/ ChartAnswered(j)
      <4>1. PICK ps : Answered(j, ps)
        BY <3>2 DEF FetchAnswered, ChartAnswered
      <4>2. CASE ps = <<>>
        BY <4>1, <4>2, <2>5 DEF Answered
      <4>3. CASE ps # <<>>
        BY <4>1, <4>3, <2>1, <2>4 DEF Answered, TypeOK
      <4>4. QED
        BY <4>2, <4>3
    <3>3. CASE CallRejected(j) \/ FetchUnreachable(j)
      BY <3>3, <2>5 DEF CallRejected, FetchUnreachable
    <3>4. CASE ChartUnreachable(j)
      BY <3>4, <2>3 DEF ChartUnreachable, Kinds
    <3>5. CASE BodyNotJson(j) \/ FieldGarbled(j)
      BY <3>5, <2>3 DEF BodyNotJson, FieldGarbled, Kinds
    <3>6. CASE Select(j)
      <4>1. UNCHANGED <<retries, raised>>
        BY <3>6 DEF Select
      <4>2. UNCHANGED pc \/ \E a : NextTicker(j, a)
        BY <3>6 DEF Select
      <4>3. CASE UNCHANGED pc
        BY <4>1, <4>3 DEF FetchRetried
      <4>4. QED
        BY <4>1, <4>2, <4>3, <2>5
    <3>7. CASE Flush(j)
      BY <3>7 DEF Flush, FetchRetried
    <3>8. CASE FlushRejected(j) \/ Deadlock(j)
      BY <3>8, <2>3 DEF FlushRejected, Deadlock, DatabaseError, Kinds
    <3>9. CASE EndEmpty(j)
      BY <3>9, <2>3 DEF EndEmpty, Kinds
    <3>10. CASE Commit(j) \/ Finish(j)
      BY <3>10, <2>1, <2>4 DEF Commit, Finish, TypeOK
    <3>11. QED
      BY <2>6, <3>1, <3>2, <3>3, <3>4, <3>5, <3>6, <3>7, <3>8, <3>9, <3>10
         DEF Progress
  <2>7. ASSUME NEW j \in Jobs, Fault(j) PROVE FetchRetried'
    <3>1. CASE DatabaseUnavailable(j)
      BY <3>1, <2>3 DEF DatabaseUnavailable, DatabaseError, Kinds
    <3>2. CASE CommitAckLost(j)
      BY <3>2, <2>3 DEF CommitAckLost, Kinds
    <3>3. CASE Expire(j) \/ Crash(j)
      BY <3>3, <2>1, <2>4 DEF Expire, Crash, TypeOK
    <3>4. QED
      BY <2>7, <3>1, <3>2, <3>3 DEF Fault
  <2>8. QED
    BY <2>2, <2>6, <2>7 DEF Next
<1>3. QED
  BY <1>1, <1>2, InvariantHolds, PTL DEF Spec

\* The rows of a transaction were all received by its job, and committing
\* them is the publication of a set of received points.
LEMMA RowsReceived ==
  ASSUME IInv, NEW j \in Jobs
  PROVE  /\ RowsOf(j) \subseteq attempt[j].received
         /\ KeysOf(RowsOf(j)) = KeysOf(txn[j])
         /\ \A p, q \in RowsOf(j) : p.key = q.key => p = q
         /\ Applied(j) = {p \in table : p.key \notin KeysOf(RowsOf(j))}
                         \cup RowsOf(j)
<1>1. RowsOf(j) \subseteq attempt[j].received
  BY DEF IInv, AttemptsConsistent, InvocationConsistent, RowsOf
<1>2. KeysOf(RowsOf(j)) = KeysOf(txn[j])
  <2>1. ASSUME NEW w \in txn[j] PROVE \E r \in RowsOf(j) : r.key = w.key
    <3> DEFINE r == [key |-> w.key, price |-> w.price]
    <3>1. r \in RowsOf(j) /\ r.key = w.key
      BY DEF RowsOf
    <3>2. QED
      BY <3>1
  <2>2. \A r \in RowsOf(j) : \E w \in txn[j] : r.key = w.key
    BY DEF RowsOf
  <2>3. QED
    BY <2>1, <2>2 DEF KeysOf
<1>3. \A p, q \in RowsOf(j) : p.key = q.key => p = q
  BY DEF IInv, AttemptsConsistent, InvocationConsistent, RowsOf
<1>4. \A p \in table : (\A w \in txn[j] : w.op = "update" => w.key # p.key)
                       <=> p.key \notin KeysOf(RowsOf(j))
  <2> SUFFICES ASSUME NEW p \in table
               PROVE  (\A w \in txn[j] : w.op = "update" => w.key # p.key)
                        <=> p.key \notin KeysOf(txn[j])
    BY <1>2
  <2>1. \A w \in txn[j] : w.key = p.key => w.op = "update"
    BY DEF IInv, WritesIsolated, TypeOK, Writes, KeysOf
  <2>2. QED
    BY <2>1 DEF KeysOf
<1>5. Applied(j) = {p \in table : p.key \notin KeysOf(RowsOf(j))} \cup RowsOf(j)
  BY <1>4 DEF Applied
<1>6. QED
  BY <1>1, <1>2, <1>3, <1>5

\* Storing points that are all stored already changes no row.
THEOREM RepeatsChangeNothing == Spec => RepeatChangesNothing
<1>1. IInv /\ [Next]_vars =>
        [\A j \in Jobs :
           attempt[j].received \subseteq table /\ (Commit(j) \/ CommitAckLost(j))
             => table' = table]_vars
  <2> SUFFICES ASSUME IInv, NEW j \in Jobs,
                      attempt[j].received \subseteq table,
                      Commit(j) \/ CommitAckLost(j)
               PROVE  table' = table
    OBVIOUS
  <2>1. table' = Applied(j)
    BY DEF Commit, CommitAckLost
  <2>2. RowsOf(j) \subseteq table
    BY RowsReceived
  <2>3. \A p \in table : p.key \in KeysOf(RowsOf(j)) => p \in RowsOf(j)
    BY <2>2 DEF IInv, UniqueKeys, KeysOf
  <2>4. Applied(j) = table
    BY <2>2, <2>3, RowsReceived
  <2>5. QED
    BY <2>1, <2>4
<1>2. QED
  BY <1>1, InvariantHolds, PTL DEF Spec, RepeatChangesNothing

-----------------------------------------------------------------------------
\* PriceIngestion implements PriceHistory.

\* What a reader of PriceHistory sees of job j's points in hand.
InHand == [j \in Jobs |-> IF pc[j] = "closing" \/ pc[j] \in Ended
                         THEN {} ELSE attempt[j].received]

Over == {j \in Jobs : pc[j] \in Ended}

\* A step of j that is neither a commit nor an end leaves the history alone
\* and adds points to what j has in hand, or nothing.
LEMMA GatherStep ==
  ASSUME IInv, IInv', NEW j \in Jobs, OthersKeep(j), UNCHANGED table,
         pc[j] \in {"waiting", "calling", "saving", "committing"},
         pc'[j] \in {"waiting", "calling", "saving", "committing"},
         attempt[j].received \subseteq attempt'[j].received
  PROVE  History!Receive(j)
<1>1. j \notin Over /\ Over' = Over
  BY DEF Over, OthersKeep, Ended
<1>2. /\ InHand[j] = attempt[j].received /\ InHand'[j] = attempt'[j].received
      /\ \A i \in Jobs \ {j} : InHand'[i] = InHand[i]
  BY DEF InHand, OthersKeep, Ended
<1>3. InHand' = [InHand EXCEPT ![j] = InHand'[j]]
  BY <1>2 DEF InHand
<1>4. attempt'[j].received \subseteq Points
  BY DEF IInv, TypeOK, Attempts
<1>5. QED
  BY <1>1, <1>2, <1>3, <1>4
     DEF History!Receive, History!Points, Points, InHand, Over

\* After it j has nothing in hand: it has raised, expired or finished.
LEMMA ReleaseStep ==
  ASSUME IInv, IInv', NEW j \in Jobs, OthersKeep(j), pc[j] \notin Ended,
         pc'[j] \in Ended \cup {"closing"} \/ attempt'[j] = Fresh
  PROVE  History!Release(j)
<1>1. j \notin Over /\ Over' \in {Over, Over \cup {j}}
  BY DEF Over, OthersKeep
<1>2. InHand'[j] = {} /\ \A i \in Jobs \ {j} : InHand'[i] = InHand[i]
  BY DEF InHand, OthersKeep, Fresh
<1>3. InHand' = [InHand EXCEPT ![j] = {}]
  BY <1>2 DEF InHand
<1>4. QED
  BY <1>1, <1>3 DEF History!Release, InHand, Over

LEMMA CommitStep ==
  ASSUME IInv, IInv', NEW j \in Jobs, Commits(j), table' = Applied(j),
         txn' = [txn EXCEPT ![j] = {}], History!Release(j)
  PROVE  History!Publish(j)
<1> DEFINE S == RowsOf(j)
<1>1. InHand[j] = attempt[j].received
  BY DEF InHand, Commits, Ended
<1>2. S \in SUBSET InHand[j]
  BY <1>1, RowsReceived
<1>3. History!Functional(S)
  BY RowsReceived DEF History!Functional
<1>4. table' = {p \in table : p.key \notin KeysOf(S)} \cup S
  BY RowsReceived
<1>5. KeysOf(InHand[j]) \subseteq KeysOf(table')
  BY <1>1, CommitStores, AppliedTable
<1>6. \A T : History!KeysOf(T) = KeysOf(T)
  BY DEF History!KeysOf, KeysOf
<1> HIDE DEF S
<1>7. QED
  BY <1>2, <1>3, <1>4, <1>5, <1>6 DEF History!Publish, InHand

LEMMA RaiseAbandons ==
  ASSUME IInv, IInv', NEW j \in Jobs, NEW kind \in Kinds, Raise(j, kind),
         UNCHANGED table, pc[j] \notin Ended
  PROVE  History!Abandon(j)
<1>1. OthersKeep(j)
  BY RaiseType DEF IInv, TypeOK
<1>2. attempt'[j] = Fresh
  BY DEF Raise, IInv, TypeOK
<1>3. QED
  BY <1>1, <1>2, ReleaseStep DEF History!Abandon

LEMMA NextTickerGathers ==
  ASSUME IInv, IInv', NEW j \in Jobs, NEW a, NextTicker(j, a),
         a.received = attempt[j].received, a \in Attempts,
         pc[j] \in {"calling", "saving"}, UNCHANGED <<txn, table>>
  PROVE  History!Receive(j)
<1>1. /\ attempt'[j] = [a EXCEPT !.cursor = @ + 1]
      /\ pc'[j] \in {"calling", "committing"} /\ OthersKeep(j)
  BY DEF IInv, TypeOK, NextTicker, OthersKeep
<1>2. attempt'[j].received = attempt[j].received
  BY <1>1 DEF Attempts
<1>3. QED
  BY <1>1, <1>2, GatherStep

\* Every step of the program is a step of the abstract history.
LEMMA StepImplements ==
  ASSUME IInv, IInv', NEW j \in Jobs, Progress(j) \/ Fault(j)
  PROVE  History!Receive(j) \/ History!Publish(j) \/ History!Abandon(j)
<1> USE DEF Ended, Running
<1>0. /\ attempt[j] \in Attempts /\ pc \in [Jobs -> {"waiting"} \cup Running \cup Ended]
      /\ attempt \in [Jobs -> Attempts] /\ txn \in [Jobs -> SUBSET Writes]
  BY DEF IInv, TypeOK
<1>1. CASE Start(j)
  <2>1. CASE Configured(j)
    BY <1>0, <1>1, <2>1, GatherStep DEF Start, OthersKeep
  <2>2. CASE ~Configured(j)
    BY <1>1, <2>2, RaiseAbandons DEF Start, Kinds
  <2>3. QED
    BY <2>1, <2>2
<1>2. CASE FetchAnswered(j) \/ ChartAnswered(j)
  <2>1. PICK ps : Answered(j, ps)
    BY <1>2 DEF FetchAnswered, ChartAnswered
  <2>2. pc[j] = "calling"
    BY <1>2 DEF FetchAnswered, ChartAnswered, Calls
  <2>3. CASE ps = <<>>
    BY <1>0, <2>1, <2>2, <2>3, NextTickerGathers DEF Answered
  <2>4. CASE ps # <<>>
    <3>1. attempt'[j].received = attempt[j].received \cup Elements(ps)
      BY <1>0, <2>1, <2>4 DEF Answered, Attempts
    <3>2. pc'[j] = "saving" /\ OthersKeep(j) /\ UNCHANGED table
      BY <1>0, <2>1, <2>4 DEF Answered, OthersKeep
    <3>3. QED
      BY <2>2, <3>1, <3>2, GatherStep
  <2>5. QED
    BY <2>3, <2>4
<1>3. CASE CallRejected(j)
  BY <1>0, <1>3, NextTickerGathers DEF CallRejected
<1>4. CASE FetchUnreachable(j)
  <2> DEFINE a == [attempt[j] EXCEPT !.unreachable = TRUE]
  <2>1. a \in Attempts /\ a.received = attempt[j].received
    BY <1>0 DEF Attempts
  <2>2. NextTicker(j, a) /\ pc[j] = "calling" /\ UNCHANGED <<txn, table>>
    BY <1>4 DEF FetchUnreachable, Calls
  <2> HIDE DEF a
  <2>3. QED
    BY <2>1, <2>2, NextTickerGathers
<1>5. CASE ChartUnreachable(j) \/ BodyNotJson(j) \/ FieldGarbled(j)
  BY <1>5, RaiseAbandons
     DEF ChartUnreachable, BodyNotJson, FieldGarbled, Calls, Kinds
<1>6. CASE Select(j)
  <2> DEFINE p == Head(attempt[j].points)
             rest == Tail(attempt[j].points)
             seen == Visible(j, p.key)
             a == [attempt[j] EXCEPT
                    !.points = rest,
                    !.saved = @ \cup {p.key},
                    !.pending =
                      IF p.price \in seen THEN {}
                      ELSE {[key |-> p.key, price |-> p.price,
                             op |-> IF seen = {} THEN "insert" ELSE "update"]}]
  <2>1. /\ pc[j] = "saving" /\ UNCHANGED <<txn, table>>
        /\ IF rest = <<>> THEN NextTicker(j, a)
           ELSE attempt' = [attempt EXCEPT ![j] = a] /\ UNCHANGED pc
    BY <1>6, Zenon DEF Select
  <2>2. a.received = attempt[j].received
    BY <1>0 DEF Attempts
  <2>3. attempt'[j].received = attempt[j].received /\ OthersKeep(j)
        /\ pc'[j] \in {"calling", "saving", "committing"}
    <3> HIDE DEF a, rest
    <3>1. a.received = [a EXCEPT !.cursor = @ + 1].received
      OBVIOUS
    <3>2. QED
      BY <1>0, <2>1, <2>2, <3>1 DEF NextTicker, OthersKeep
  <2>4. QED
    BY <2>1, <2>3, GatherStep
<1>7. CASE Flush(j)
  <2>1. attempt'[j].received = attempt[j].received
    BY <1>0, <1>7 DEF Flush, Attempts
  <2>2. OthersKeep(j) /\ UNCHANGED <<pc, table>>
        /\ pc[j] \in {"saving", "committing"}
    BY <1>0, <1>7 DEF Flush, Flushes, OthersKeep
  <2>3. QED
    BY <2>1, <2>2, GatherStep
<1>8. CASE FlushRejected(j) \/ Deadlock(j)
  BY <1>8, RaiseAbandons
     DEF FlushRejected, Deadlock, Waits, Flushes, DatabaseError, Kinds
<1>9. CASE EndEmpty(j) \/ DatabaseUnavailable(j)
  BY <1>9, RaiseAbandons DEF EndEmpty, DatabaseUnavailable, DatabaseError, Kinds
<1>10. CASE Commit(j)
  <2>1. OthersKeep(j) /\ pc[j] = "committing" /\ pc'[j] = "closing"
    BY <1>0, <1>10 DEF Commit, Commits, OthersKeep
  <2>2. History!Release(j)
    BY <2>1, ReleaseStep
  <2>3. QED
    BY <1>10, <2>2, CommitStep DEF Commit
<1>11. CASE CommitAckLost(j)
  <2>1. OthersKeep(j) /\ pc[j] = "committing" /\ attempt'[j] = Fresh
        /\ txn' = [txn EXCEPT ![j] = {}]
    BY <1>0, <1>11, RaiseType
       DEF CommitAckLost, Commits, Raise, Rollback, IInv, TypeOK, Kinds
  <2>2. History!Release(j)
    BY <2>1, ReleaseStep
  <2>3. QED
    BY <1>11, <2>1, <2>2, CommitStep DEF CommitAckLost
<1>12. CASE Finish(j) \/ Expire(j) \/ Crash(j)
  <2>1. OthersKeep(j) /\ pc[j] \notin Ended /\ pc'[j] \in Ended /\ UNCHANGED table
    BY <1>0, <1>12 DEF Finish, Expire, Crash, OthersKeep
  <2>2. QED
    BY <2>1, ReleaseStep DEF History!Abandon
<1>13. QED
  BY <1>1, <1>2, <1>3, <1>4, <1>5, <1>6, <1>7, <1>8, <1>9, <1>10, <1>11, <1>12
     DEF Progress, Fault

\* The program implements the abstract history: readers see the points of an
\* invocation all at once or never, and no published key disappears.
THEOREM ImplementsHistory == Spec => PublishesWhole
<1>1. Init => History!Init
  BY DEF Init, History!Init, Fresh, Ended
<1>2. IInv /\ IInv' /\ [Next]_vars => [History!Next]_(History!vars)
  <2> SUFFICES ASSUME IInv, IInv', [Next]_vars
               PROVE  History!Next \/ UNCHANGED History!vars
    OBVIOUS
  <2>1. CASE UNCHANGED vars
    BY <2>1 DEF vars, History!vars
  <2>2. CASE Next
    BY <2>2, StepImplements DEF Next, History!Next
  <2>3. QED
    BY <2>1, <2>2
<1>3. QED
  BY <1>1, <1>2, InvariantHolds, PTL DEF Spec, PublishesWhole, History!Spec

=============================================================================
