----------------------------- MODULE ApiRequests -----------------------------
(***************************************************************************)
(* HTTP requests in the API process and the process itself: lifespan, the  *)
(* middleware and the exception handlers of app/main.py, validation        *)
(* (app/schemas.py), the session of a request (app/core/db.py), the        *)
(* provider of the settings (collector/providers.py), and RuntimeMetrics   *)
(* (app/core/metrics.py).  Handlers are coroutines of one event loop: a    *)
(* step of the model runs from one await to the next.                      *)
(*                                                                         *)
(* FastAPI is modelled from how the code uses it: an exception without a   *)
(* handler of its own passes the middleware and is answered outside it; a  *)
(* dependency with yield ends before the reply when the endpoint raised,   *)
(* and after the reply was sent when it returned.                          *)
(***************************************************************************)
EXTENDS Integers, FiniteSets

CONSTANTS
  Requests,   \* requests, named by their X-Request-ID
  Pool        \* connections of the engine: pool_size + max_overflow

ASSUME RequestsAssumption ==
  IsFiniteSet(Requests) /\ Requests # {} /\ Pool \in Nat \ {0}

\* Statements an endpoint sends to the database.  active: the endpoints that
\* describe the active provider.
Statements == [healthz |-> 0, unknown |-> 0, active |-> 0,
               readyz |-> 1, prices |-> 1, metrics |-> 3]

Paths == DOMAIN Statements

\* "wide": timestamps or an offset that the query models accept and an
\* integer column or parameter of the database does not hold.
Params(path) == IF path = "prices" THEN {"valid", "invalid", "wide"} ELSE {"valid"}

Groups == 2 .. 5  \* status_code // 100

NoContext == "-"  \* default of request_id_context

VARIABLES
  up,        \* the process accepts requests
  provider,  \* MARKET_DATA_PROVIDER names a provider of the program
  request,   \* id -> what the tasks of the request hold
  held,      \* requests that hold a connection
  metrics,   \* RuntimeMetrics
  context,   \* id -> request_id_context in the task of the middleware
  sent       \* id -> what the client has received and the handler logged

vars == <<up, provider, request, held, metrics, context, sent>>

Statuses == {0, 200, 404, 422, 500}

\* Stages: new, routed, reading, answered (the middleware has the response or
\* the exception), ended (counted), sent.  before: replies received by clients
\* when the request was sent; body: the counters in the reply to a scrape.
RequestRecords ==
  [stage : {"new", "routed", "reading", "answered", "ended", "sent"},
   path : Paths, params : {"valid", "invalid", "wide"}, left : 0 .. 3,
   status : Statuses, cause : {"none", "pool", "database", "range", "provider"},
   before : 0 .. Cardinality(Requests), body : [total : Nat, in_progress : Int]]

MetricsRecords ==
  [in_progress : Int, total : Nat, failed : Nat,
   paths : [Paths -> Nat], statuses : [Groups -> Nat]]

TypeOK ==
  /\ up \in BOOLEAN /\ provider \in BOOLEAN
  /\ request \in [Requests -> RequestRecords]
  /\ held \subseteq Requests /\ Cardinality(held) <= Pool
  /\ metrics \in MetricsRecords
  /\ context \in [Requests -> Requests \cup {NoContext}]
  /\ sent \in [Requests -> [status : Statuses, logged : Requests \cup {NoContext}]]

NoBody == [total |-> 0, in_progress |-> 0]

New == [stage |-> "new", path |-> "unknown", params |-> "valid", left |-> 0,
        status |-> 0, cause |-> "none", before |-> 0, body |-> NoBody]

NewMetrics == [in_progress |-> 0, total |-> 0, failed |-> 0,
               paths |-> [p \in Paths |-> 0], statuses |-> [g \in Groups |-> 0]]

NothingSent == [r \in Requests |-> [status |-> 0, logged |-> NoContext]]

Init ==
  /\ up = FALSE /\ provider \in BOOLEAN
  /\ request = [r \in Requests |-> New]
  /\ held = {} /\ metrics = NewMetrics
  /\ context = [r \in Requests |-> NoContext] /\ sent = NothingSent

\* lifespan: the process accepts requests once the database has answered.
Startup ==
  /\ ~up /\ up' = TRUE
  /\ UNCHANGED <<provider, request, held, metrics, context, sent>>

\* The process is stopped or killed and nothing in it survives; clients send
\* requests again, and it starts with the settings of then.
Exit ==
  /\ up /\ up' = FALSE /\ provider' \in BOOLEAN
  /\ request' = [r \in Requests |-> New]
  /\ held' = {} /\ metrics' = NewMetrics
  /\ context' = [r \in Requests |-> NoContext] /\ sent' = NothingSent

OnRequestStart(path) ==
  [metrics EXCEPT !.in_progress = @ + 1, !.paths[path] = @ + 1]

EndSuccessOnly(status) ==  \* mutant: not called when call_next raised
  IF status = 500 THEN metrics
  ELSE [metrics EXCEPT !.in_progress = @ - 1, !.total = @ + 1,
                       !.statuses[status \div 100] = @ + 1,
                       !.failed = IF status >= 400 THEN @ + 1 ELSE @]

OnRequestEnd(status) ==
  [metrics EXCEPT !.in_progress = @ - 1, !.total = @ + 1,
                  !.statuses[status \div 100] = @ + 1,
                  !.failed = IF status >= 400 THEN @ + 1 ELSE @]

With(S(_)) == Cardinality({r \in Requests : S(request[r])})

Receive(r, path, params) ==
  /\ up /\ request[r].stage = "new"
  /\ request' = [request EXCEPT ![r] =
       [New EXCEPT !.stage = "routed", !.path = path, !.params = params,
                   !.left = Statements[path],
                   !.before = With(LAMBDA q : q.stage = "sent")]]
  /\ metrics' = OnRequestStart(path)
  /\ context' = [context EXCEPT ![r] = r]
  /\ UNCHANGED <<up, provider, held, sent>>

Answer(r, status, cause) ==
  /\ request' = [request EXCEPT ![r].stage = "answered", ![r].status = status,
                                ![r].cause = cause]
  /\ UNCHANGED <<up, provider, metrics, context, sent>>

\* Validation of a ticker asks the active provider for its instruments; the
\* ValueError that there is no such provider is one of validation.
Rejected(r) ==
  \/ request[r].params = "invalid"
  \/ request[r].path = "prices" /\ ~provider

\* Validation comes before the first statement.
AnswerInvalid(r) ==
  /\ request[r].stage = "routed" /\ Rejected(r)
  /\ Answer(r, 422, "none")
  /\ UNCHANGED held

\* Endpoints without a statement, and paths that have none.
AnswerDirectly(r) ==
  /\ request[r].stage = "routed"
  /\ \/ request[r].path = "healthz" /\ Answer(r, 200, "none")
     \/ request[r].path = "unknown" /\ Answer(r, 404, "none")
  /\ UNCHANGED held

\* Here the same ValueError of get_active_provider_metadata has no handler.
DescribeProvider(r) ==
  /\ request[r].stage = "routed" /\ request[r].path = "active"
  /\ IF provider THEN Answer(r, 200, "none") ELSE Answer(r, 500, "provider")
  /\ UNCHANGED held

NeedsConnection(r) ==
  /\ request[r].stage = "routed" /\ ~Rejected(r)
  /\ request[r].left > 0

ConnectOnceMore(r) ==  \* mutant: a pool without overflow control
  /\ NeedsConnection(r) /\ Cardinality(held) <= Pool
  /\ held' = held \cup {r}
  /\ request' = [request EXCEPT ![r].stage = "reading"]
  /\ UNCHANGED <<up, provider, metrics, context, sent>>

\* The session takes a connection at its first statement.
Connect(r) ==
  /\ NeedsConnection(r) /\ Cardinality(held) < Pool
  /\ held' = held \cup {r}
  /\ request' = [request EXCEPT ![r].stage = "reading"]
  /\ UNCHANGED <<up, provider, metrics, context, sent>>

\* All connections have been in use for pool_timeout.
PoolTimeout(r) ==
  /\ NeedsConnection(r) /\ Cardinality(held) >= Pool
  /\ Answer(r, 500, "pool")
  /\ UNCHANGED held

ConnectFails(r) ==
  /\ NeedsConnection(r)
  /\ Answer(r, 500, "database")
  /\ UNCHANGED held

Read(r) ==
  /\ request[r].stage = "reading" /\ request[r].left > 1
  /\ request' = [request EXCEPT ![r].left = @ - 1]
  /\ UNCHANGED <<up, provider, held, metrics, context, sent>>

ReleasedOnReturn(r) ==  \* mutant: no finally in get_async_session
  held

\* The session is closed, after a rollback when an exception reached it.
Released(r) == held \ {r}

\* runtime_metrics.snapshot() or to_prometheus(), after the last await.
Body(r) ==
  IF request[r].path # "metrics" THEN NoBody
  ELSE [total |-> metrics.total, in_progress |-> metrics.in_progress]

\* The last statement.  An endpoint of prices raises 404 when it finds nothing;
\* the connection of ping_db does not outlive it.
ReadLast(r) ==
  /\ request[r].stage = "reading" /\ request[r].left = 1 /\ request[r].params = "valid"
  /\ \E status \in IF request[r].path = "prices" THEN {200, 404} ELSE {200} :
       /\ request' = [request EXCEPT ![r].stage = "answered",
                                     ![r].status = status, ![r].body = Body(r)]
       /\ held' = CASE request[r].path = "readyz" -> held \ {r}
                    [] status = 404 -> Released(r)
                    [] OTHER -> held
  /\ UNCHANGED <<up, provider, metrics, context, sent>>

\* The driver refuses to encode the parameter.
ReadRefused(r) ==
  /\ request[r].stage = "reading" /\ request[r].params = "wide"
  /\ Answer(r, 500, "range")
  /\ held' = Released(r)

ReadFails(r) ==
  /\ request[r].stage = "reading"
  /\ Answer(r, 500, "database")
  /\ held' = Released(r)

\* The middleware resumes after call_next: counts, and resets the context, also
\* before it lets an exception through.
End(r) ==
  /\ request[r].stage = "answered"
  /\ request' = [request EXCEPT ![r].stage = "ended"]
  /\ metrics' = OnRequestEnd(request[r].status)
  /\ context' = [context EXCEPT ![r] = NoContext]
  /\ UNCHANGED <<up, provider, held, sent>>

\* The request id in the record that the handler of a 500 logs.
Logged(r) == IF request[r].status = 500 THEN context[r] ELSE NoContext

\* The reply; unhandled_exception_handler logs before it answers 500.
Send(r) ==
  /\ request[r].stage = "ended"
  /\ request' = [request EXCEPT ![r].stage = "sent"]
  /\ sent' = [sent EXCEPT ![r] =
       [status |-> request[r].status, logged |-> Logged(r)]]
  /\ UNCHANGED <<up, provider, held, metrics, context>>

\* get_async_session ends after the reply of an endpoint that returned.
Close(r) ==
  /\ request[r].stage = "sent" /\ r \in held
  /\ held' = Released(r)
  /\ UNCHANGED <<up, provider, request, metrics, context, sent>>

Progress(r) ==
  \/ AnswerInvalid(r) \/ AnswerDirectly(r) \/ DescribeProvider(r) \/ Connect(r) \/ PoolTimeout(r)
  \/ Read(r) \/ ReadLast(r) \/ ReadRefused(r)
  \/ End(r) \/ Send(r) \/ Close(r)

DatabaseFails(r) == ConnectFails(r) \/ ReadFails(r)

Next ==
  \/ Startup \/ Exit
  \/ \E r \in Requests, path \in Paths :
       \E params \in Params(path) : Receive(r, path, params)
  \/ \E r \in Requests : Progress(r) \/ DatabaseFails(r)

Spec == Init /\ [][Next]_vars

\* The event loop runs every coroutine, a wait for a connection times out, and
\* the database answers a statement or fails it.
FairSpec == Spec /\ \A r \in Requests : WF_vars(Progress(r) \/ DatabaseFails(r))

-----------------------------------------------------------------------------
Counted(q) == q.stage \in {"ended", "sent"}

\* The counters that both metrics endpoints publish are those of the requests
\* themselves at every moment: a request is in progress until it is counted
\* once, exceptions that pass the middleware included.
CountersAgree ==
  /\ metrics.in_progress = With(LAMBDA q : q.stage # "new" /\ ~Counted(q))
  /\ metrics.total = With(Counted)
  /\ metrics.failed = With(LAMBDA q : Counted(q) /\ q.status >= 400)
  /\ \A p \in Paths : metrics.paths[p] = With(LAMBDA q : q.stage # "new" /\ q.path = p)
  /\ \A g \in Groups :
       metrics.statuses[g] = With(LAMBDA q : Counted(q) /\ q.status \div 100 = g)

\* A scrape counts every reply that a client of the same process had received
\* when it was asked for, errors included, and itself as in progress.
ScrapesCountReplies ==
  \A r \in Requests :
    request[r].path = "metrics" /\ request[r].status = 200 =>
      /\ request[r].body.total >= request[r].before
      /\ request[r].body.in_progress >= 1

\* Every request is answered and gives its connection back, with all others
\* waiting for the pool and with the database failing at any statement, unless
\* the process ends.
RequestsEnd ==
  \A r \in Requests :
    request[r].stage = "routed" ~>
      \/ request[r].stage = "sent" /\ r \notin held
      \/ ~up

\* README.md: "request ID propagation".  The record of an unhandled error names
\* its request.  Violated: the middleware resets the context before it raises.
ErrorsLoggedWithId ==
  \A r \in Requests : sent[r].status = 500 => sent[r].logged = r

\* schemas.py: timestamps up to 2500000000 are valid.  Parameters that pass
\* validation are not answered with 500 while pool and database work.
AcceptedIsServed == \A r \in Requests : request[r].cause # "range"

=============================================================================
