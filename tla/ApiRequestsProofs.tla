------------------------- MODULE ApiRequestsProofs -------------------------
(***************************************************************************)
(* Proofs about ApiRequests, for every finite set of requests and every    *)
(* size of the pool.  Each counter of RuntimeMetrics is the cardinality of *)
(* a set of requests; a step of the middleware adds one request to some of *)
(* these sets or removes it, all other steps leave them alone.             *)
(***************************************************************************)
EXTENDS ApiRequests, FiniteSetTheorems, TLAPS

\* The sets that RuntimeMetrics counts.
InProgress == {r \in Requests : request[r].stage # "new" /\ ~Counted(request[r])}

Ended == {r \in Requests : Counted(request[r])}

Failed == {r \in Requests : Counted(request[r]) /\ request[r].status >= 400}

OnPath(p) == {r \in Requests : request[r].stage # "new" /\ request[r].path = p}

InGroup(g) == {r \in Requests : Counted(request[r]) /\ request[r].status \div 100 = g}

CountersAreSizes ==
  /\ metrics.in_progress = Cardinality(InProgress)
  /\ metrics.total = Cardinality(Ended)
  /\ metrics.failed = Cardinality(Failed)
  /\ \A p \in Paths : metrics.paths[p] = Cardinality(OnPath(p))
  /\ \A g \in Groups : metrics.statuses[g] = Cardinality(InGroup(g))

\* A request the middleware has a reply for has a status.
AnswersHaveStatus ==
  \A r \in Requests :
    request[r].stage \in {"answered", "ended", "sent"} => request[r].status # 0

\* The replies received before a request are among those counted since.
RepliesCounted == \A r \in Requests : request[r].before <= metrics.total

IInv ==
  /\ TypeOK
  /\ AnswersHaveStatus
  /\ CountersAreSizes
  /\ RepliesCounted
  /\ ScrapesCountReplies

-----------------------------------------------------------------------------
\* Lemmas on cardinalities and types.

LEMMA SetsFinite ==
  ASSUME NEW S \in SUBSET Requests
  PROVE  IsFiniteSet(S) /\ Cardinality(S) \in 0 .. Cardinality(Requests)
<1>1. IsFiniteSet(S) /\ Cardinality(S) <= Cardinality(Requests)
  BY RequestsAssumption, FS_Subset
<1>2. Cardinality(S) \in Nat /\ Cardinality(Requests) \in Nat
  BY <1>1, RequestsAssumption, FS_CardinalityType
<1>3. QED
  BY <1>1, <1>2

\* A request that joins a set, or leaves it.
LEMMA Joins ==
  ASSUME NEW S \in SUBSET Requests, NEW r \in Requests, r \notin S
  PROVE  Cardinality(S \cup {r}) = Cardinality(S) + 1
BY SetsFinite, FS_AddElement

LEMMA Leaves ==
  ASSUME NEW S \in SUBSET Requests, NEW r \in Requests, r \in S
  PROVE  Cardinality(S \ {r}) = Cardinality(S) - 1
BY SetsFinite, FS_RemoveElement

LEMMA PathsAre ==
  /\ Paths = {"healthz", "unknown", "active", "readyz", "prices", "metrics"}
  /\ \A p \in Paths : Statements[p] \in 0 .. 3
BY DEF Paths, Statements

LEMMA NewType == New \in RequestRecords /\ NewMetrics \in MetricsRecords
<1>1. Cardinality(Requests) \in Nat
  BY RequestsAssumption, FS_CardinalityType
<1>2. "unknown" \in Paths /\ NoBody \in [total : Nat, in_progress : Int]
  BY PathsAre DEF NoBody
<1>3. New \in RequestRecords
  BY <1>1, <1>2 DEF New, RequestRecords, Statuses
<1>4. NewMetrics \in MetricsRecords
  BY DEF NewMetrics, MetricsRecords
<1>5. QED
  BY <1>3, <1>4

\* What both calls of the middleware make of the counters.
LEMMA MetricsOnStart ==
  ASSUME metrics \in MetricsRecords, NEW path \in Paths
  PROVE  LET m == OnRequestStart(path)
         IN  /\ m \in MetricsRecords
             /\ m.in_progress = metrics.in_progress + 1
             /\ m.total = metrics.total /\ m.failed = metrics.failed
             /\ m.paths = [metrics.paths EXCEPT ![path] = @ + 1]
             /\ m.statuses = metrics.statuses
<1> DEFINE paths == [metrics.paths EXCEPT ![path] = @ + 1]
<1>1. paths \in [Paths -> Nat] /\ metrics.in_progress + 1 \in Int
  BY DEF MetricsRecords
<1>2. OnRequestStart(path) =
        [metrics EXCEPT !.in_progress = metrics.in_progress + 1, !.paths = paths]
  BY DEF OnRequestStart, MetricsRecords
<1> HIDE DEF paths
<1>3. QED
  BY <1>1, <1>2 DEF MetricsRecords, paths

LEMMA MetricsOnEnd ==
  ASSUME metrics \in MetricsRecords, NEW status \in Statuses \ {0}
  PROVE  LET m == OnRequestEnd(status)
         IN  /\ m \in MetricsRecords
             /\ m.in_progress = metrics.in_progress - 1
             /\ m.total = metrics.total + 1
             /\ m.failed = IF status >= 400 THEN metrics.failed + 1 ELSE metrics.failed
             /\ m.paths = metrics.paths
             /\ m.statuses = [metrics.statuses EXCEPT ![status \div 100] = @ + 1]
<1> DEFINE statuses == [metrics.statuses EXCEPT ![status \div 100] = @ + 1]
           failed == IF status >= 400 THEN metrics.failed + 1 ELSE metrics.failed
<1>1. /\ statuses \in [Groups -> Nat] /\ failed \in Nat
      /\ metrics.in_progress - 1 \in Int /\ metrics.total + 1 \in Nat
  <2>1. status \div 100 \in Groups
    BY DEF Statuses, Groups
  <2>2. statuses \in [Groups -> Nat]
    <3>1. \A g \in Groups : [metrics.statuses EXCEPT ![g] = @ + 1] \in [Groups -> Nat]
      BY DEF MetricsRecords
    <3>2. QED
      BY <2>1, <3>1
  <2>3. QED
    BY <2>2 DEF MetricsRecords
<1>2. OnRequestEnd(status) =
        [metrics EXCEPT !.in_progress = metrics.in_progress - 1,
                        !.total = metrics.total + 1,
                        !.statuses = statuses, !.failed = failed]
  BY DEF OnRequestEnd, MetricsRecords
<1> HIDE DEF statuses, failed
<1>3. OnRequestEnd(status) =
        [in_progress |-> metrics.in_progress - 1, total |-> metrics.total + 1,
         failed |-> failed, paths |-> metrics.paths, statuses |-> statuses]
  BY <1>2 DEF MetricsRecords
<1>4. metrics.paths \in [Paths -> Nat]
  BY DEF MetricsRecords
<1>5. OnRequestEnd(status) \in MetricsRecords
  BY <1>1, <1>3, <1>4 DEF MetricsRecords
<1>6. QED
  BY <1>3, <1>5 DEF statuses, failed

-----------------------------------------------------------------------------
\* Steps that no counter notices.

\* What a scrape has read agrees with the replies before it.
ScrapeCounts(q) ==
  q.path = "metrics" /\ q.status = 200 =>
    q.body.total >= q.before /\ q.body.in_progress >= 1

\* Request r becomes q, in the same sets as before.
Moves(r, q) ==
  /\ request' = [request EXCEPT ![r] = q]
  /\ q \in RequestRecords /\ ScrapeCounts(q)
  /\ q.path = request[r].path /\ q.before = request[r].before
  /\ q.stage # "new" /\ request[r].stage # "new"
  /\ Counted(q) = Counted(request[r])
  /\ Counted(q) => q.status = request[r].status
  /\ q.stage \in {"answered", "ended", "sent"} => q.status # 0

\* Such a step keeps what the invariant says of requests and counters.
LEMMA MovesKeeps ==
  ASSUME IInv, NEW r \in Requests, NEW q, Moves(r, q), UNCHANGED metrics
  PROVE  /\ request' \in [Requests -> RequestRecords]
         /\ AnswersHaveStatus' /\ CountersAreSizes' /\ RepliesCounted'
         /\ ScrapesCountReplies'
<1> USE DEF IInv, TypeOK, Moves
<1>1. request'[r] = q /\ \A s \in Requests \ {r} : request'[s] = request[s]
  OBVIOUS
<1>2. request' \in [Requests -> RequestRecords]
  OBVIOUS
<1>3. AnswersHaveStatus' /\ RepliesCounted'
  BY <1>1 DEF AnswersHaveStatus, RepliesCounted
<1>4. ScrapesCountReplies'
  BY <1>1 DEF ScrapesCountReplies, ScrapeCounts
<1>5. /\ InProgress' = InProgress /\ Ended' = Ended /\ Failed' = Failed
      /\ \A p \in Paths : OnPath(p)' = OnPath(p)
      /\ \A g \in Groups : InGroup(g)' = InGroup(g)
  BY <1>1 DEF InProgress, Ended, Failed, OnPath, InGroup
<1>6. CountersAreSizes'
  BY <1>5 DEF CountersAreSizes
<1>7. QED
  BY <1>2, <1>3, <1>4, <1>6

\* An endpoint, validation, the pool or the database answers.
LEMMA AnswerMoves ==
  ASSUME TypeOK, NEW r \in Requests, NEW status \in Statuses \ {0}, NEW cause,
         cause \in {"none", "pool", "database", "range", "provider"},
         request[r].stage \in {"routed", "reading"},
         request[r].path = "metrics" => status # 200,
         Answer(r, status, cause)
  PROVE  \E q : Moves(r, q)
<1> DEFINE q == [request[r] EXCEPT !.stage = "answered", !.status = status,
                                   !.cause = cause]
<1>1. request[r] \in RequestRecords
  BY DEF TypeOK
<1>2. /\ q \in RequestRecords
      /\ q.path = request[r].path /\ q.before = request[r].before
      /\ q.stage = "answered" /\ q.status = status
  BY <1>1 DEF RequestRecords
<1>3. request' = [request EXCEPT ![r] = q]
  BY <1>1 DEF Answer, TypeOK
<1> HIDE DEF q
<1>4. Moves(r, q)
  BY <1>2, <1>3 DEF Moves, ScrapeCounts, Counted
<1>5. QED
  BY <1>4

\* ReadLast updates three fields of a request; this is one update of the record.
FinishesWith(r, status, body) ==
  request' = [request EXCEPT ![r].stage = "answered",
                             ![r].status = status, ![r].body = body]

Finished(r, status, body) ==
  [request[r] EXCEPT !.stage = "answered", !.status = status, !.body = body]

LEMMA UpdatesTogether ==
  ASSUME TypeOK, NEW r \in Requests, NEW status, NEW body,
         FinishesWith(r, status, body)
  PROVE  request' = [request EXCEPT ![r] = Finished(r, status, body)]
<1>1. request \in [Requests -> RequestRecords]
  BY DEF TypeOK
<1>2. QED
  BY <1>1 DEF FinishesWith, Finished

\* The last statement of a scrape: the request itself is in progress.
LEMMA ReadLastMoves ==
  ASSUME IInv, NEW r \in Requests, ReadLast(r)
  PROVE  \E q : Moves(r, q)
<1>0. PICK body : body = Body(r)
  OBVIOUS
<1>1. PICK status \in {200, 404} :
        FinishesWith(r, status, body)
  <2>1. PICK status \in IF request[r].path = "prices" THEN {200, 404} ELSE {200} :
          request' = [request EXCEPT ![r].stage = "answered",
                                     ![r].status = status, ![r].body = Body(r)]
    BY DEF ReadLast
  <2>2. status \in {200, 404}
    BY <2>1
  <2>3. FinishesWith(r, status, body)
    BY <1>0, <2>1 DEF FinishesWith
  <2>4. QED
    BY <2>2, <2>3
<1>2. request[r] \in RequestRecords /\ request[r].stage = "reading"
  BY DEF IInv, TypeOK, ReadLast
<1>3. body \in [total : Nat, in_progress : Int] /\ status \in Statuses
  BY <1>0 DEF Body, NoBody, IInv, TypeOK, MetricsRecords, Statuses
<1> DEFINE q == Finished(r, status, body)
<1>4. /\ q \in RequestRecords
      /\ q.path = request[r].path /\ q.before = request[r].before
      /\ q.stage = "answered" /\ q.status = status /\ q.body = body
  BY <1>2, <1>3 DEF RequestRecords, Finished
<1>5. request' = [request EXCEPT ![r] = q]
  BY <1>1, UpdatesTogether DEF IInv
<1>6. metrics.in_progress >= 1
  <2>1. r \in InProgress /\ InProgress \subseteq Requests
    BY <1>2 DEF InProgress, Counted
  <2>2. IsFiniteSet(InProgress) /\ Cardinality(InProgress) \in Nat
    BY <2>1, SetsFinite
  <2>3. Cardinality(InProgress) # 0
    BY <2>1, <2>2, FS_EmptySet
  <2>4. QED
    BY <2>2, <2>3 DEF IInv, CountersAreSizes
<1>7. q.path = "metrics" => q.body.total >= q.before /\ q.body.in_progress >= 1
  BY <1>0, <1>4, <1>6 DEF Body, IInv, RepliesCounted
<1> HIDE DEF q
<1>8. Moves(r, q)
  BY <1>2, <1>4, <1>5, <1>7 DEF Moves, ScrapeCounts, Counted
<1>9. QED
  BY <1>8

\* A wait for a connection, a statement and the reply change one field.
LEMMA ConnectMoves ==
  ASSUME IInv, NEW r \in Requests, Connect(r)
  PROVE  \E q : Moves(r, q)
<1> DEFINE q == [request[r] EXCEPT !.stage = "reading"]
<1>1. request[r] \in RequestRecords /\ request[r].stage = "routed"
  BY DEF IInv, TypeOK, Connect, NeedsConnection
<1>2. /\ q \in RequestRecords /\ q.stage = "reading" /\ q.status = request[r].status
      /\ q.path = request[r].path /\ q.before = request[r].before
      /\ q.body = request[r].body
  BY <1>1 DEF RequestRecords
<1>3. request' = [request EXCEPT ![r] = q]
  BY <1>1 DEF Connect, IInv, TypeOK
<1> HIDE DEF q
<1>4. Moves(r, q)
  BY <1>1, <1>2, <1>3 DEF Moves, ScrapeCounts, Counted, IInv, ScrapesCountReplies
<1>5. QED
  BY <1>4

LEMMA ReadMoves ==
  ASSUME IInv, NEW r \in Requests, Read(r)
  PROVE  \E q : Moves(r, q)
<1> DEFINE q == [request[r] EXCEPT !.left = request[r].left - 1]
<1>1. /\ request[r] \in RequestRecords /\ request[r].stage = "reading"
      /\ request[r].left - 1 \in 0 .. 3
  BY DEF IInv, TypeOK, Read, RequestRecords
<1>2. /\ q \in RequestRecords /\ q.stage = "reading" /\ q.status = request[r].status
      /\ q.path = request[r].path /\ q.before = request[r].before
      /\ q.body = request[r].body
  BY <1>1 DEF RequestRecords
<1>3. request' = [request EXCEPT ![r] = q]
  BY <1>1 DEF Read, IInv, TypeOK
<1> HIDE DEF q
<1>4. Moves(r, q)
  BY <1>1, <1>2, <1>3 DEF Moves, ScrapeCounts, Counted, IInv, ScrapesCountReplies
<1>5. QED
  BY <1>4

LEMMA SendMoves ==
  ASSUME IInv, NEW r \in Requests, Send(r)
  PROVE  \E q : Moves(r, q)
<1> DEFINE q == [request[r] EXCEPT !.stage = "sent"]
<1>1. /\ request[r] \in RequestRecords /\ request[r].stage = "ended"
      /\ request[r].status # 0
  BY DEF IInv, TypeOK, Send, AnswersHaveStatus
<1>2. /\ q \in RequestRecords /\ q.stage = "sent" /\ q.status = request[r].status
      /\ q.path = request[r].path /\ q.before = request[r].before
      /\ q.body = request[r].body
  BY <1>1 DEF RequestRecords
<1>3. request' = [request EXCEPT ![r] = q]
  BY <1>1 DEF Send, IInv, TypeOK
<1> HIDE DEF q
<1>4. Moves(r, q)
  BY <1>1, <1>2, <1>3 DEF Moves, ScrapeCounts, Counted, IInv, ScrapesCountReplies
<1>5. QED
  BY <1>4

\* Every way to an answer but the last statement.
Answers(r) ==
  \/ AnswerInvalid(r) \/ AnswerDirectly(r) \/ DescribeProvider(r)
  \/ PoolTimeout(r) \/ ConnectFails(r) \/ ReadRefused(r) \/ ReadFails(r)

LEMMA AnswersMove ==
  ASSUME TypeOK, NEW r \in Requests, Answers(r)
  PROVE  \E q : Moves(r, q)
<1>1. \A status \in Statuses \ {0} :
        \A cause \in {"none", "pool", "database", "range", "provider"} :
          /\ request[r].stage \in {"routed", "reading"}
          /\ request[r].path = "metrics" => status # 200
          /\ Answer(r, status, cause)
          => \E q : Moves(r, q)
  BY AnswerMoves
<1>2. {200, 404, 422, 500} = Statuses \ {0}
  BY DEF Statuses
<1>3. CASE AnswerInvalid(r)
  BY <1>1, <1>2, <1>3 DEF AnswerInvalid
<1>4. CASE AnswerDirectly(r)
  BY <1>1, <1>2, <1>4 DEF AnswerDirectly
<1>5. CASE DescribeProvider(r)
  BY <1>1, <1>2, <1>5 DEF DescribeProvider
<1>6. CASE PoolTimeout(r)
  BY <1>1, <1>2, <1>6 DEF PoolTimeout, NeedsConnection
<1>7. CASE ConnectFails(r)
  BY <1>1, <1>2, <1>7 DEF ConnectFails, NeedsConnection
<1>8. CASE ReadRefused(r)
  BY <1>1, <1>2, <1>8 DEF ReadRefused
<1>9. CASE ReadFails(r)
  BY <1>1, <1>2, <1>9 DEF ReadFails
<1>10. QED
  BY <1>3, <1>4, <1>5, <1>6, <1>7, <1>8, <1>9 DEF Answers

-----------------------------------------------------------------------------
\* The state beside requests and counters.

\* The pool has no more connections than it has.
HeldOK(h) == h \subseteq Requests /\ Cardinality(h) <= Pool

LEMMA HeldKeeps ==
  ASSUME TypeOK, NEW r \in Requests
  PROVE  /\ HeldOK(held \ {r})
         /\ Cardinality(held) < Pool => HeldOK(held \cup {r})
<1>1. /\ held \subseteq Requests /\ Cardinality(held) <= Pool
      /\ Pool \in Nat /\ Cardinality(held) \in Nat
  BY SetsFinite, RequestsAssumption DEF TypeOK
<1>2. HeldOK(held \ {r})
  <2>1. CASE r \in held
    BY <1>1, <2>1, Leaves DEF HeldOK
  <2>2. CASE r \notin held
    <3>1. held \ {r} = held
      BY <2>2
    <3>2. QED
      BY <1>1, <3>1 DEF HeldOK
  <2>3. QED
    BY <2>1, <2>2
<1>3. ASSUME Cardinality(held) < Pool PROVE HeldOK(held \cup {r})
  <2>1. CASE r \in held
    <3>1. held \cup {r} = held
      BY <2>1
    <3>2. QED
      BY <1>1, <3>1 DEF HeldOK
  <2>2. CASE r \notin held
    BY <1>1, <1>3, <2>2, Joins DEF HeldOK
  <2>3. QED
    BY <2>1, <2>2
<1>4. QED
  BY <1>2, <1>3

\* What TypeOK says beside requests and counters.
RestOK ==
  /\ up \in BOOLEAN /\ provider \in BOOLEAN /\ HeldOK(held)
  /\ context \in [Requests -> Requests \cup {NoContext}]
  /\ sent \in [Requests -> [status : Statuses, logged : Requests \cup {NoContext}]]

LEMMA TypeParts ==
  /\ TypeOK <=> RestOK /\ request \in [Requests -> RequestRecords]
                /\ metrics \in MetricsRecords
  /\ TypeOK' <=> RestOK' /\ request' \in [Requests -> RequestRecords]
                 /\ metrics' \in MetricsRecords
BY DEF TypeOK, RestOK, HeldOK

\* Steps of a request between its start and its end.
Between(r) ==
  \/ Answers(r) \/ Connect(r) \/ Read(r) \/ ReadLast(r) \/ Send(r) \/ Close(r)

LEMMA BetweenKeepsRest ==
  ASSUME TypeOK, NEW r \in Requests, Between(r)
  PROVE  RestOK'
<1>1. RestOK /\ HeldOK(held \ {r})
  BY TypeParts, HeldKeeps
<1>2. CASE Answers(r)
  BY <1>1, <1>2 DEF Answers, AnswerInvalid, AnswerDirectly, DescribeProvider,
     PoolTimeout, ConnectFails, ReadRefused, ReadFails, Answer, Released, RestOK
<1>3. CASE Connect(r)
  <2>1. HeldOK(held \cup {r})
    BY <1>3, HeldKeeps DEF Connect
  <2>2. QED
    BY <1>1, <1>3, <2>1 DEF Connect, RestOK
<1>4. CASE Read(r)
  BY <1>1, <1>4 DEF Read, RestOK
<1>5. CASE ReadLast(r)
  <2>1. held' = held \/ held' = held \ {r}
    BY <1>5 DEF ReadLast, Released
  <2>2. UNCHANGED <<up, provider, context, sent>>
    BY <1>5 DEF ReadLast
  <2>3. QED
    BY <1>1, <2>1, <2>2 DEF RestOK
<1>6. CASE Send(r)
  <2>1. request[r].status \in Statuses /\ Logged(r) \in Requests \cup {NoContext}
    BY DEF TypeOK, RequestRecords, Logged
  <2>2. QED
    BY <1>1, <1>6, <2>1 DEF Send, RestOK
<1>7. CASE Close(r)
  BY <1>1, <1>7 DEF Close, Released, RestOK
<1>8. QED
  BY <1>2, <1>3, <1>4, <1>5, <1>6, <1>7 DEF Between, Answers

\* Nothing that the invariant says of requests and counters changes.
LEMMA SameKeeps ==
  ASSUME IInv, UNCHANGED <<request, metrics>>
  PROVE  /\ request' \in [Requests -> RequestRecords]
         /\ AnswersHaveStatus' /\ CountersAreSizes' /\ RepliesCounted'
         /\ ScrapesCountReplies'
<1>1. /\ InProgress' = InProgress /\ Ended' = Ended /\ Failed' = Failed
      /\ \A p \in Paths : OnPath(p)' = OnPath(p)
      /\ \A g \in Groups : InGroup(g)' = InGroup(g)
  BY DEF InProgress, Ended, Failed, OnPath, InGroup, Counted
<1>2. CountersAreSizes'
  BY <1>1 DEF CountersAreSizes, IInv
<1>3. QED
  BY <1>2 DEF IInv, TypeOK, AnswersHaveStatus, RepliesCounted, ScrapesCountReplies

LEMMA BetweenKeeps ==
  ASSUME IInv, NEW r \in Requests, Between(r)
  PROVE  IInv'
<1>1. UNCHANGED metrics
  BY DEF Between, Answers, AnswerInvalid, AnswerDirectly, DescribeProvider,
     PoolTimeout, ConnectFails, ReadRefused, ReadFails, Answer, Connect, Read,
     ReadLast, Send, Close
<1>2. CASE Close(r)
  <2>1. UNCHANGED request
    BY <1>2 DEF Close
  <2>2. QED
    BY <1>1, <2>1, SameKeeps, BetweenKeepsRest, TypeParts DEF IInv
<1>3. CASE ~Close(r)
  <2>1. \E q : Moves(r, q)
    BY <1>3, AnswersMove, ConnectMoves, ReadMoves, ReadLastMoves, SendMoves
       DEF Between, IInv
  <2>2. QED
    BY <1>1, <2>1, MovesKeeps, BetweenKeepsRest, TypeParts DEF IInv
<1>4. QED
  BY <1>2, <1>3

-----------------------------------------------------------------------------
\* The two steps of the middleware.

\* Before call_next: the request joins those in progress and its path.
LEMMA ReceiveKeeps ==
  ASSUME IInv, NEW r \in Requests, NEW path \in Paths, NEW params \in Params(path),
         Receive(r, path, params)
  PROVE  IInv'
<1> DEFINE received == {s \in Requests : request[s].stage = "sent"}
           before == Cardinality(received)
           q == [New EXCEPT !.stage = "routed", !.path = path, !.params = params,
                            !.left = Statements[path], !.before = before]
<1>1. /\ request \in [Requests -> RequestRecords] /\ metrics \in MetricsRecords
      /\ RestOK
  BY TypeParts DEF IInv
<1>2. /\ request' = [request EXCEPT ![r] = q] /\ metrics' = OnRequestStart(path)
      /\ request[r].stage = "new"
  BY DEF Receive, With
<1>3. before \in 0 .. Cardinality(Requests)
  BY SetsFinite
<1>4. before <= metrics.total
  <2>1. received \subseteq Ended /\ IsFiniteSet(Ended)
    BY SetsFinite DEF Ended, Counted
  <2>2. QED
    BY <2>1, FS_Subset DEF IInv, CountersAreSizes
<1>5. /\ q \in RequestRecords /\ q.stage = "routed" /\ q.path = path
      /\ q.status = 0 /\ q.before = before
  <2>1. Statements[path] \in 0 .. 3 /\ params \in {"valid", "invalid", "wide"}
    BY PathsAre DEF Params
  <2> HIDE DEF before
  <2>2. New \in RequestRecords /\ New.status = 0
    BY NewType DEF New
  <2>3. QED
    BY <1>3, <2>1, <2>2 DEF RequestRecords
<1> HIDE DEF before, q
<1>6. request'[r] = q /\ \A s \in Requests \ {r} : request'[s] = request[s]
  BY <1>1, <1>2
<1>7. /\ request' \in [Requests -> RequestRecords] /\ metrics' \in MetricsRecords
      /\ metrics'.total = metrics.total
  BY <1>1, <1>2, <1>5, MetricsOnStart
<1>8. CountersAreSizes'
  <2>1. /\ r \notin InProgress /\ InProgress' = InProgress \cup {r}
        /\ Ended' = Ended /\ Failed' = Failed
        /\ \A g \in Groups : InGroup(g)' = InGroup(g)
    BY <1>2, <1>5, <1>6 DEF InProgress, Ended, Failed, InGroup, Counted
  <2>2. /\ r \notin OnPath(path) /\ OnPath(path)' = OnPath(path) \cup {r}
        /\ \A p \in Paths \ {path} : OnPath(p)' = OnPath(p)
    BY <1>2, <1>5, <1>6 DEF OnPath
  <2>3. /\ Cardinality(InProgress') = Cardinality(InProgress) + 1
        /\ Cardinality(OnPath(path)') = Cardinality(OnPath(path)) + 1
    <3>1. InProgress \subseteq Requests /\ OnPath(path) \subseteq Requests
      BY DEF InProgress, OnPath
    <3>2. QED
      BY <2>1, <2>2, <3>1, Joins
  <2>4. /\ metrics'.in_progress = metrics.in_progress + 1
        /\ metrics'.failed = metrics.failed /\ metrics'.statuses = metrics.statuses
        /\ metrics'.paths = [metrics.paths EXCEPT ![path] = @ + 1]
    BY <1>1, <1>2, MetricsOnStart
  <2>5. /\ metrics'.paths[path] = metrics.paths[path] + 1
        /\ \A p \in Paths \ {path} : metrics'.paths[p] = metrics.paths[p]
    BY <1>1, <2>4 DEF MetricsRecords
  <2>6. /\ metrics.in_progress = Cardinality(InProgress)
        /\ metrics.total = Cardinality(Ended) /\ metrics.failed = Cardinality(Failed)
        /\ \A p \in Paths : metrics.paths[p] = Cardinality(OnPath(p))
        /\ \A g \in Groups : metrics.statuses[g] = Cardinality(InGroup(g))
    BY DEF IInv, CountersAreSizes
  <2>7. /\ metrics'.in_progress = Cardinality(InProgress')
        /\ metrics'.total = Cardinality(Ended') /\ metrics'.failed = Cardinality(Failed')
    BY <1>7, <2>1, <2>3, <2>4, <2>6
  <2>8. \A p \in Paths : metrics'.paths[p] = Cardinality(OnPath(p)')
    BY <2>2, <2>3, <2>5, <2>6
  <2>9. \A g \in Groups : metrics'.statuses[g] = Cardinality(InGroup(g)')
    BY <2>1, <2>4, <2>6
  <2>10. QED
    BY <2>7, <2>8, <2>9 DEF CountersAreSizes
<1>9. AnswersHaveStatus' /\ RepliesCounted'
  BY <1>4, <1>5, <1>6, <1>7 DEF IInv, AnswersHaveStatus, RepliesCounted
<1>10. ScrapesCountReplies'
  BY <1>5, <1>6 DEF IInv, ScrapesCountReplies
<1>11. RestOK'
  BY <1>1 DEF Receive, RestOK
<1>12. QED
  BY <1>7, <1>8, <1>9, <1>10, <1>11, TypeParts DEF IInv

\* After call_next: the request leaves those in progress and is counted, by its
\* status, whether the endpoint returned or raised.
LEMMA EndKeeps ==
  ASSUME IInv, NEW r \in Requests, End(r)
  PROVE  IInv'
<1>0. PICK group : group = request[r].status \div 100
  OBVIOUS
<1> DEFINE q == [request[r] EXCEPT !.stage = "ended"]
           failure == request[r].status >= 400
<1>1. /\ request \in [Requests -> RequestRecords] /\ metrics \in MetricsRecords
      /\ RestOK /\ request[r] \in RequestRecords
  BY TypeParts DEF IInv
<1>2. /\ request[r].stage = "answered" /\ request[r].status \in Statuses \ {0}
      /\ metrics' = OnRequestEnd(request[r].status)
  BY <1>1 DEF End, IInv, AnswersHaveStatus, RequestRecords
<1>3. request' = [request EXCEPT ![r] = q]
  BY <1>1 DEF End
<1>4. /\ q \in RequestRecords /\ q.stage = "ended" /\ q.status = request[r].status
      /\ q.path = request[r].path /\ q.before = request[r].before
      /\ q.body = request[r].body
  BY <1>1 DEF RequestRecords
<1> HIDE DEF q
<1>5. request'[r] = q /\ \A s \in Requests \ {r} : request'[s] = request[s]
  BY <1>1, <1>3
<1>6. /\ metrics' \in MetricsRecords
      /\ metrics'.in_progress = metrics.in_progress - 1
      /\ metrics'.total = metrics.total + 1
      /\ metrics'.failed = IF failure THEN metrics.failed + 1 ELSE metrics.failed
      /\ metrics'.paths = metrics.paths
      /\ metrics'.statuses = [metrics.statuses EXCEPT ![group] = @ + 1]
  BY <1>0, <1>1, <1>2, MetricsOnEnd
<1>7. request' \in [Requests -> RequestRecords]
  BY <1>1, <1>3, <1>4
<1>8. group \in Groups
  BY <1>0, <1>2 DEF Statuses, Groups
<1> HIDE DEF failure
<1>9. /\ metrics'.statuses[group] = metrics.statuses[group] + 1
      /\ \A g \in Groups \ {group} : metrics'.statuses[g] = metrics.statuses[g]
  BY <1>1, <1>6, <1>8 DEF MetricsRecords
<1>10. CountersAreSizes'
  <2>1. r \in InProgress /\ InProgress' = InProgress \ {r}
    BY <1>2, <1>4, <1>5 DEF InProgress, Counted
  <2>2. r \notin Ended /\ Ended' = Ended \cup {r}
    BY <1>2, <1>4, <1>5 DEF Ended, Counted
  <2>3. /\ r \notin Failed
        /\ Failed' = IF failure THEN Failed \cup {r} ELSE Failed
    BY <1>2, <1>4, <1>5 DEF Failed, Counted, failure
  <2>4. \A p \in Paths : OnPath(p)' = OnPath(p)
    BY <1>2, <1>4, <1>5 DEF OnPath
  <2>5. /\ r \notin InGroup(group) /\ InGroup(group)' = InGroup(group) \cup {r}
        /\ \A g \in Groups \ {group} : InGroup(g)' = InGroup(g)
    BY <1>0, <1>2, <1>4, <1>5 DEF InGroup, Counted
  <2>6. /\ InProgress \subseteq Requests /\ Ended \subseteq Requests
        /\ Failed \subseteq Requests /\ InGroup(group) \subseteq Requests
    BY DEF InProgress, Ended, Failed, InGroup
  <2>7. /\ Cardinality(InProgress') = Cardinality(InProgress) - 1
        /\ Cardinality(Ended') = Cardinality(Ended) + 1
        /\ Cardinality(InGroup(group)') = Cardinality(InGroup(group)) + 1
    BY <2>1, <2>2, <2>5, <2>6, Joins, Leaves
  <2>8. Cardinality(Failed') =
          IF failure THEN Cardinality(Failed) + 1 ELSE Cardinality(Failed)
    BY <2>3, <2>6, Joins
  <2>9. /\ metrics'.in_progress = Cardinality(InProgress')
        /\ metrics'.total = Cardinality(Ended')
        /\ metrics'.failed = Cardinality(Failed')
    BY <1>6, <2>7, <2>8 DEF IInv, CountersAreSizes
  <2>10. \A p \in Paths : metrics'.paths[p] = Cardinality(OnPath(p)')
    BY <1>6, <2>4 DEF IInv, CountersAreSizes
  <2>11. \A g \in Groups : metrics'.statuses[g] = Cardinality(InGroup(g)')
    <3>1. \A g \in Groups : metrics.statuses[g] = Cardinality(InGroup(g))
      BY DEF IInv, CountersAreSizes
    <3>2. ASSUME NEW g \in Groups
          PROVE  metrics'.statuses[g] = Cardinality(InGroup(g)')
      <4>1. CASE g = group
        BY <1>8, <1>9, <2>7, <3>1, <4>1
      <4>2. CASE g # group
        BY <1>9, <2>5, <3>1, <4>2
      <4>3. QED
        BY <4>1, <4>2
    <3>3. QED
      BY <3>2
  <2>12. QED
    BY <2>9, <2>10, <2>11 DEF CountersAreSizes
<1>11. AnswersHaveStatus'
  BY <1>2, <1>4, <1>5 DEF IInv, AnswersHaveStatus
<1>12. RepliesCounted'
  <2>1. \A s \in Requests : request[s].before \in Nat /\ metrics.total \in Nat
    <3>1. Cardinality(Requests) \in Nat
      BY RequestsAssumption, FS_CardinalityType
    <3>2. QED
      BY <1>1, <3>1 DEF RequestRecords, MetricsRecords
  <2>2. \A s \in Requests : request'[s].before = request[s].before
    BY <1>4, <1>5
  <2>3. QED
    BY <1>6, <2>1, <2>2 DEF IInv, RepliesCounted
<1>13. ScrapesCountReplies'
  BY <1>2, <1>4, <1>5 DEF IInv, ScrapesCountReplies
<1>14. RestOK'
  BY <1>1 DEF End, RestOK
<1>15. QED
  BY <1>6, <1>7, <1>10, <1>11, <1>12, <1>13, <1>14, TypeParts DEF IInv

-----------------------------------------------------------------------------
\* The process itself.

\* A process that has not started knows no request.
Idle ==
  /\ up = FALSE /\ provider \in BOOLEAN
  /\ request = [r \in Requests |-> New]
  /\ held = {} /\ metrics = NewMetrics
  /\ context = [r \in Requests |-> NoContext] /\ sent = NothingSent

LEMMA IdleHolds == Idle => IInv
<1> SUFFICES ASSUME Idle PROVE IInv
  OBVIOUS
<1>1. \A r \in Requests : request[r] = New
  BY DEF Idle
<1>2. New.stage = "new" /\ New.path = "unknown" /\ New.before = 0 /\ New.status = 0
  BY DEF New
<1>3. TypeOK
  <2>1. /\ request \in [Requests -> RequestRecords] /\ metrics \in MetricsRecords
    BY NewType DEF Idle
  <2>2. HeldOK(held)
    BY FS_EmptySet, RequestsAssumption DEF Idle, HeldOK
  <2>3. RestOK
    BY <2>2 DEF Idle, RestOK, NothingSent, Statuses
  <2>4. QED
    BY <2>1, <2>3, TypeParts
<1>4. AnswersHaveStatus /\ ScrapesCountReplies
  BY <1>1, <1>2 DEF AnswersHaveStatus, ScrapesCountReplies
<1>5. /\ metrics.in_progress = 0 /\ metrics.total = 0 /\ metrics.failed = 0
      /\ \A p \in Paths : metrics.paths[p] = 0
      /\ \A g \in Groups : metrics.statuses[g] = 0
  BY DEF Idle, NewMetrics
<1>6. RepliesCounted
  BY <1>1, <1>2, <1>5 DEF RepliesCounted
<1>7. /\ InProgress = {} /\ Ended = {} /\ Failed = {}
      /\ \A p \in Paths : OnPath(p) = {}
      /\ \A g \in Groups : InGroup(g) = {}
  BY <1>1, <1>2 DEF InProgress, Ended, Failed, OnPath, InGroup, Counted
<1>8. CountersAreSizes
  BY <1>5, <1>7, FS_EmptySet DEF CountersAreSizes
<1>9. QED
  BY <1>3, <1>4, <1>6, <1>8 DEF IInv

LEMMA NextKeeps == IInv /\ [Next]_vars => IInv'
<1> SUFFICES ASSUME IInv, [Next]_vars PROVE IInv'
  OBVIOUS
<1>1. CASE Startup
  <2>1. RestOK'
    BY <1>1, TypeParts DEF Startup, RestOK, IInv
  <2>2. UNCHANGED <<request, metrics>>
    BY <1>1 DEF Startup
  <2>3. QED
    BY <2>1, <2>2, SameKeeps, TypeParts DEF IInv
<1>2. CASE Exit
  <2>1. Idle'
    BY <1>2 DEF Exit, Idle
  <2>2. QED
    BY <2>1, IdleHolds, PTL
<1>3. ASSUME NEW r \in Requests, NEW path \in Paths, NEW params \in Params(path),
             Receive(r, path, params)
      PROVE  IInv'
  BY <1>3, ReceiveKeeps
<1>4. ASSUME NEW r \in Requests, Progress(r) \/ DatabaseFails(r)
      PROVE  IInv'
  <2>1. Between(r) \/ End(r)
    BY <1>4 DEF Progress, DatabaseFails, Between, Answers
  <2>2. QED
    BY <2>1, BetweenKeeps, EndKeeps
<1>5. CASE UNCHANGED vars
  <2>1. RestOK'
    BY <1>5, TypeParts DEF vars, RestOK, IInv
  <2>2. UNCHANGED <<request, metrics>>
    BY <1>5 DEF vars
  <2>3. QED
    BY <2>1, <2>2, SameKeeps, TypeParts DEF IInv
<1>6. QED
  BY <1>1, <1>2, <1>3, <1>4, <1>5 DEF Next

LEMMA InvariantHolds == Spec => []IInv
<1>1. Init => IInv
  BY IdleHolds DEF Init, Idle
<1>2. QED
  BY <1>1, NextKeeps, PTL DEF Spec

-----------------------------------------------------------------------------
\* Every variable keeps its type; no more connections are held than the pool has.
THEOREM TypeCorrect == Spec => []TypeOK
<1>1. IInv => TypeOK
  BY DEF IInv
<1>2. QED
  BY <1>1, InvariantHolds, PTL

\* The published counters are those of the requests: the middleware counts a
\* request once, also when the endpoint raised or found no connection.
THEOREM CountersStayTrue == Spec => []CountersAgree
<1>1. CountersAreSizes => CountersAgree
  BY DEF CountersAreSizes, CountersAgree, With, InProgress, Ended, Failed, OnPath,
         InGroup
<1>2. IInv => CountersAgree
  BY <1>1 DEF IInv
<1>3. QED
  BY <1>2, InvariantHolds, PTL

\* A scrape reports every reply sent before it and itself as in progress.
THEOREM ScrapesStayTrue == Spec => []ScrapesCountReplies
<1>1. IInv => ScrapesCountReplies
  BY DEF IInv
<1>2. QED
  BY <1>1, InvariantHolds, PTL

=============================================================================
