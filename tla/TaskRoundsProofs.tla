-------------------------- MODULE TaskRoundsProofs --------------------------
(***************************************************************************)
(* Proofs about TaskRounds, for every interval, deadline, number of        *)
(* tickers, size of a batch, number of workers and number of retries.      *)
(* Parents, children and running tasks age in step, so that whatever is    *)
(* true of the ages of two rounds when beat sends the later of them stays  *)
(* true until a deadline has passed.                                       *)
(***************************************************************************)
EXTENDS TaskRounds, FiniteSetTheorems, TLAPS

\* The children that wait or run.
Present == (children \cup {running[w] : w \in 1 .. Workers}) \ {Idle}

\* The ages of the rounds that still have a task within MaxAge.
Rounds == parents \cup {a \in 0 .. MaxAge : \E m \in Present : m.age = a}

\* What is left of a deadline is what its round has left.
DeadlinesKept ==
  /\ \A m \in children : m.left >= 0
  /\ \A m \in Present : m.left >= 0 => m.age + m.left <= MaxAge

\* Beat has sent the rounds an interval apart, the last one since ago.
RoundsSpaced ==
  /\ \A x \in Rounds : since <= x
  /\ \A x, y \in Rounds : x < y => x + Interval <= y

\* A chunk of a round is in one place; a round whose parent still waits has
\* no children.
OneOfEach ==
  /\ \A m \in Present : m.age \notin parents
  /\ \A m, n \in children : m.chunk = n.chunk /\ m.age = n.age => m = n
  /\ \A w \in 1 .. Workers, m \in children :
       running[w] # Idle /\ m.chunk = running[w].chunk => m.age # running[w].age
  /\ \A v, w \in 1 .. Workers :
       /\ v # w /\ running[v] # Idle /\ running[w] # Idle
       /\ running[v].chunk = running[w].chunk
       => running[v].age # running[w].age \/ running[w].age > MaxAge

IInv == TypeOK /\ DeadlinesKept /\ RoundsSpaced /\ OneOfEach

-----------------------------------------------------------------------------
\* Lemmas on the operators.

LEMMA ChunksType == Chunks \in Int /\ MaxAge \in Nat
BY RoundsAssumption DEF Chunks, MaxAge

LEMMA PresentType ==
  ASSUME TypeOK
  PROVE  /\ Idle \notin Messages
         /\ Present \subseteq Messages
         /\ children \subseteq Present
         /\ \A w \in 1 .. Workers : running[w] # Idle => running[w] \in Present
<1>1. Idle \notin Messages
  BY ChunksType DEF Idle, Messages
<1>2. QED
  BY <1>1 DEF TypeOK, Present

\* A message ages by one, and its deadline comes nearer by one, until both
\* stand still.
LEMMA AgedMessage ==
  ASSUME NEW m \in Messages
  PROVE  /\ Aged(m) \in Messages
         /\ Aged(m).chunk = m.chunk /\ Aged(m).retries = m.retries
         /\ m.age <= MaxAge => Aged(m).age = m.age + 1
         /\ m.age > MaxAge => Aged(m).age = m.age
         /\ m.left >= 0 => Aged(m).left = m.left - 1
         /\ m.left < 0 => Aged(m).left = m.left
<1> DEFINE age == IF m.age > MaxAge THEN m.age ELSE m.age + 1
           left == IF m.left < 0 THEN m.left ELSE m.left - 1
<1>1. age \in 0 .. MaxAge + 1 /\ left \in -1 .. ChildDeadline
  BY ChunksType, RoundsAssumption DEF Messages
<1>2. Aged(m) = [m EXCEPT !.age = age, !.left = left]
  BY DEF Aged
<1>3. /\ Aged(m) \in Messages
      /\ Aged(m).chunk = m.chunk /\ Aged(m).retries = m.retries
      /\ Aged(m).age = age /\ Aged(m).left = left
  <2> HIDE DEF age, left
  <2>1. QED
    BY <1>1, <1>2 DEF Messages
<1>4. QED
  BY <1>3, ChunksType DEF Messages

LEMMA SentMessages ==
  ASSUME NEW a \in 0 .. ParentDeadline, NEW n \in 0 .. Chunks
  PROVE  /\ Sent(n, a) \subseteq Messages
         /\ \A m \in Sent(n, a) : m.age = a /\ m.left = ChildDeadline
         /\ \A k, m \in Sent(n, a) : k.chunk = m.chunk => k = m
BY ChunksType, RoundsAssumption DEF Sent, Messages, MaxAge

\* The message a retry sends is the one that ran, but for the count.
LEMMA RetriedMessage ==
  ASSUME NEW m \in Messages, m.retries < MaxRetries
  PROVE  /\ [m EXCEPT !.retries = @ + 1] \in Messages
         /\ [m EXCEPT !.retries = @ + 1].chunk = m.chunk
         /\ [m EXCEPT !.retries = @ + 1].age = m.age
         /\ [m EXCEPT !.retries = @ + 1].left = m.left
BY RoundsAssumption DEF Messages

\* Every step keeps the types.
LEMMA TypeKeeps == TypeOK /\ [Next]_vars => TypeOK'
<1> SUFFICES ASSUME TypeOK, [Next]_vars
             PROVE  TypeOK'
  OBVIOUS
<1> USE DEF TypeOK
<1>1. CASE Tick
  <2>1. since' \in 0 .. Interval
    BY <1>1, RoundsAssumption DEF Tick
  <2>2. children' \subseteq Messages
    BY <1>1, AgedMessage DEF Tick
  <2>3. running' \in [1 .. Workers -> Messages \cup {Idle}]
    BY <1>1, AgedMessage DEF Tick
  <2>4. QED
    BY <1>1, <2>1, <2>2, <2>3 DEF Tick
<1>2. CASE Beat
  BY <1>2, RoundsAssumption DEF Beat
<1>3. ASSUME NEW a \in parents, Dispatch(a)
      PROVE  TypeOK'
  BY <1>3, SentMessages DEF Dispatch
<1>4. ASSUME NEW m \in children, NEW w \in 1 .. Workers, Start(m, w)
      PROVE  TypeOK'
  BY <1>4 DEF Start
<1>5. ASSUME NEW w \in 1 .. Workers, Finish(w)
      PROVE  TypeOK'
  BY <1>5 DEF Finish
<1>6. ASSUME NEW w \in 1 .. Workers, Retry(w)
      PROVE  TypeOK'
  <2>1. running[w] \in Messages
    BY <1>6 DEF Retry
  <2>2. children' \subseteq Messages
    BY <1>6, <2>1, RetriedMessage DEF Retry
  <2>3. QED
    BY <1>6, <2>2 DEF Retry
<1>7. CASE UNCHANGED vars
  BY <1>7 DEF vars
<1>8. QED
  BY <1>1, <1>2, <1>3, <1>4, <1>5, <1>6, <1>7 DEF Next

-----------------------------------------------------------------------------
\* What each step does to the messages that are present.

LEMMA TickPresent ==
  ASSUME TypeOK, Tick
  PROVE  /\ \A m \in Present' : \E c \in Present : m = Aged(c)
         /\ \A m \in children' : m.left >= 0 /\ \E c \in children : m = Aged(c)
<1>1. \A m \in children' : m.left >= 0 /\ \E c \in children : m = Aged(c)
  BY DEF Tick
<1>2. \A w \in 1 .. Workers :
        running'[w] # Idle => running[w] # Idle /\ running'[w] = Aged(running[w])
  BY DEF Tick
<1>3. \A m \in Present' :
        m \in children' \/ \E w \in 1 .. Workers : running'[w] = m /\ m # Idle
  BY DEF Present
<1>4. QED
  BY <1>1, <1>2, <1>3, PresentType

LEMMA DispatchPresent ==
  ASSUME TypeOK, NEW a \in parents, Dispatch(a)
  PROVE  \E n \in 0 .. Chunks : /\ children' = children \cup Sent(n, a)
                               /\ Present' \subseteq Present \cup Sent(n, a)
BY DEF Dispatch, Present

\* A task that is sent again keeps its chunk, its age and its deadline.
LEMMA RetryStep ==
  ASSUME TypeOK, NEW w \in 1 .. Workers, Retry(w)
  PROVE  /\ running[w] \in Messages
         /\ \E m \in Messages :
              /\ m.chunk = running[w].chunk /\ m.age = running[w].age
              /\ m.left = running[w].left
              /\ children' \subseteq children \cup {m}
              /\ running[w].left < 0 => children' = children
<1> DEFINE m == [running[w] EXCEPT !.retries = @ + 1]
<1>1. running[w] \in Messages /\ running[w].retries < MaxRetries
  BY DEF Retry, TypeOK
<1>2. /\ m \in Messages
      /\ m.chunk = running[w].chunk /\ m.age = running[w].age
      /\ m.left = running[w].left
  BY <1>1, RetriedMessage
<1>3. children' = IF running[w].left < 0 THEN children ELSE children \cup {m}
  BY DEF Retry
<1> HIDE DEF m
<1>4. QED
  BY <1>1, <1>2, <1>3

\* A task that starts, ends or is retried.
LEMMA TaskPresent ==
  ASSUME TypeOK, NEW w \in 1 .. Workers,
         (\E m \in children : Start(m, w)) \/ Finish(w) \/ Retry(w)
  PROVE  /\ UNCHANGED <<since, parents>>
         /\ \A m \in Present' : \E c \in Present :
              c.chunk = m.chunk /\ c.age = m.age /\ c.left = m.left
<1>1. ASSUME NEW m \in children, Start(m, w)
      PROVE  Present' \subseteq Present
  BY <1>1 DEF Start, Present, TypeOK
<1>2. CASE Finish(w)
  BY <1>2 DEF Finish, Present, TypeOK
<1>3. CASE Retry(w)
  <2>1. PICK m \in Messages :
          /\ m.chunk = running[w].chunk /\ m.age = running[w].age
          /\ m.left = running[w].left
          /\ children' \subseteq children \cup {m}
    BY <1>3, RetryStep
  <2>2. Present' \subseteq Present \cup {m}
    BY <1>3, <2>1 DEF Retry, Present, TypeOK
  <2>3. running[w] \in Present
    BY <1>3, PresentType DEF Retry
  <2>4. UNCHANGED <<since, parents>>
    BY <1>3 DEF Retry
  <2>5. QED
    BY <2>1, <2>2, <2>3, <2>4
<1>4. QED
  BY <1>1, <1>2, <1>3 DEF Start, Finish

-----------------------------------------------------------------------------
\* Deadlines.

LEMMA DeadlinesKeep ==
  ASSUME TypeOK, DeadlinesKept, [Next]_vars
  PROVE  DeadlinesKept'
<1> USE DEF DeadlinesKept
<1>1. CASE Tick
  <2>1. ASSUME NEW m \in Present', m.left >= 0
        PROVE  m.age + m.left <= MaxAge
    <3>1. PICK c \in Present : m = Aged(c)
      BY <1>1, TickPresent
    <3>2. c \in Messages /\ c.age \in Int /\ c.left \in Int
      BY PresentType DEF Messages
    <3>3. c.left >= 0
      BY <2>1, <3>1, <3>2, AgedMessage
    <3>4. c.age <= MaxAge
      BY <3>2, <3>3, ChunksType
    <3>5. QED
      BY <3>1, <3>2, <3>3, <3>4, AgedMessage, ChunksType
  <2>2. QED
    BY <1>1, <2>1, TickPresent
<1>2. CASE Beat
  BY <1>2 DEF Beat, Present
<1>3. ASSUME NEW a \in parents, Dispatch(a)
      PROVE  DeadlinesKept'
  <2>1. PICK n \in 0 .. Chunks : /\ children' = children \cup Sent(n, a)
                                 /\ Present' \subseteq Present \cup Sent(n, a)
    BY <1>3, DispatchPresent
  <2>2. a \in 0 .. ParentDeadline
    BY DEF TypeOK
  <2>3. \A m \in Sent(n, a) : m.left >= 0 /\ m.age + m.left <= MaxAge
    BY <2>2, SentMessages, RoundsAssumption DEF MaxAge
  <2>4. QED
    BY <2>1, <2>3
<1>4. ASSUME NEW w \in 1 .. Workers,
             (\E m \in children : Start(m, w)) \/ Finish(w) \/ Retry(w)
      PROVE  DeadlinesKept'
  <2>1. \A m \in children' : m.left >= 0
    <3>1. CASE Retry(w)
      <4>1. running[w].left \in Int
        BY <3>1, RetryStep DEF Messages
      <4>2. QED
        BY <3>1, <4>1, RetryStep
    <3>2. QED
      BY <1>4, <3>1 DEF Start, Finish
  <2>2. QED
    BY <1>4, <2>1, TaskPresent
<1>5. CASE UNCHANGED vars
  BY <1>5 DEF vars, Present
<1>6. QED
  BY <1>1, <1>2, <1>3, <1>4, <1>5 DEF Next

-----------------------------------------------------------------------------
\* Rounds.

LEMMA RoundsType ==
  ASSUME TypeOK
  PROVE  Rounds \subseteq 0 .. MaxAge
<1>1. parents \subseteq 0 .. MaxAge
  BY RoundsAssumption DEF TypeOK, MaxAge
<1>2. QED
  BY <1>1 DEF Rounds

\* A round that is left was a step younger before the tick.
LEMMA TickRounds ==
  ASSUME TypeOK, Tick, NEW x \in Rounds'
  PROVE  x \in Int /\ x - 1 \in Rounds
<1>1. CASE x \in parents'
  BY <1>1 DEF Tick, TypeOK, Rounds
<1>2. CASE x \in 0 .. MaxAge /\ \E m \in Present' : m.age = x
  <2>1. PICK m \in Present' : m.age <= MaxAge /\ x = m.age
    BY <1>2, ChunksType
  <2>2. PICK c \in Present : m = Aged(c)
    BY TickPresent
  <2>3. c \in Messages /\ c.age \in Nat
    BY PresentType, ChunksType DEF Messages
  <2>4. c.age <= MaxAge /\ x = c.age + 1
    BY <2>1, <2>2, <2>3, AgedMessage, ChunksType
  <2>5. QED
    BY <2>3, <2>4, ChunksType DEF Rounds
<1>3. QED
  BY <1>1, <1>2 DEF Rounds

\* No other step but Beat makes a round of another age.
LEMMA OtherRounds ==
  ASSUME TypeOK, DeadlinesKept, [Next]_vars, ~Tick, ~Beat
  PROVE  Rounds' \subseteq Rounds /\ since' = since
<1>1. ASSUME NEW a \in parents, Dispatch(a)
      PROVE  Rounds' \subseteq Rounds /\ since' = since
  <2>1. PICK n \in 0 .. Chunks : Present' \subseteq Present \cup Sent(n, a)
    BY <1>1, DispatchPresent
  <2>2. \A m \in Sent(n, a) : m.age = a
    BY SentMessages DEF TypeOK
  <2>3. parents' \subseteq parents /\ since' = since
    BY <1>1 DEF Dispatch
  <2>4. QED
    BY <2>1, <2>2, <2>3 DEF Rounds
<1>2. ASSUME NEW w \in 1 .. Workers,
             (\E m \in children : Start(m, w)) \/ Finish(w) \/ Retry(w)
      PROVE  Rounds' \subseteq Rounds /\ since' = since
  BY <1>2, TaskPresent DEF Rounds
<1>3. CASE UNCHANGED vars
  BY <1>3 DEF vars, Rounds, Present
<1>4. QED
  BY <1>1, <1>2, <1>3 DEF Next

LEMMA RoundsKeep ==
  ASSUME IInv, [Next]_vars
  PROVE  RoundsSpaced'
<1> USE DEF IInv, RoundsSpaced
<1>1. CASE Tick
  <2>1. since' <= since + 1 /\ since \in Int /\ since' \in Int
    BY <1>1, RoundsAssumption DEF Tick, TypeOK
  <2>2. \A x \in Rounds' : since' <= x
    BY <1>1, <2>1, TickRounds
  <2>3. ASSUME NEW x \in Rounds', NEW y \in Rounds', x < y
        PROVE  x + Interval <= y
    <3>1. /\ x \in Int /\ y \in Int /\ Interval \in Int
          /\ x - 1 \in Rounds /\ y - 1 \in Rounds
      BY <1>1, TickRounds, RoundsAssumption
    <3>2. (x - 1) + Interval <= y - 1
      BY <2>3, <3>1
    <3>3. QED
      BY <3>1, <3>2
  <2>4. QED
    BY <2>2, <2>3
<1>2. CASE Beat
  <2>1. Rounds' = Rounds \cup {0}
    BY <1>2 DEF Beat, Rounds, Present
  <2>2. since' = 0 /\ since = Interval
    BY <1>2 DEF Beat
  <2>3. Rounds \subseteq Nat
    BY RoundsType
  <2>4. QED
    BY <2>1, <2>2, <2>3, RoundsAssumption
<1>3. CASE ~Tick /\ ~Beat
  BY <1>3, OtherRounds
<1>4. QED
  BY <1>1, <1>2, <1>3

-----------------------------------------------------------------------------
\* One message for each chunk of a round.

\* A child that waits is young.
LEMMA WaitingIsYoung ==
  ASSUME TypeOK, DeadlinesKept, NEW m \in Present, m.left >= 0
  PROVE  m.age <= MaxAge
BY PresentType, ChunksType DEF DeadlinesKept, Messages

LEMMA TickKeepsOne ==
  ASSUME IInv, DeadlinesKept', TypeOK', Tick
  PROVE  OneOfEach'
<1> USE DEF IInv
<1>1. /\ Present \subseteq Messages /\ Present' \subseteq Messages
      /\ children \subseteq Present /\ children' \subseteq Present'
      /\ \A m \in Messages : m.age \in 0 .. MaxAge + 1
  <2>1. \A m \in Messages : m.age \in 0 .. MaxAge + 1
    BY DEF Messages
  <2>2. Idle \notin Messages
    BY PresentType
  <2>3. children' \subseteq Present' /\ Present' \subseteq Messages
    BY <2>2 DEF TypeOK, Present
  <2>4. QED
    BY <2>1, <2>3, PresentType
<1>2. ASSUME NEW m \in Present'
      PROVE  m.age \notin parents'
  <2>1. PICK c \in Present : m = Aged(c)
    BY TickPresent
  <2>2. CASE c.age <= MaxAge
    <3>1. m.age = c.age + 1 /\ c.age \in Int
      BY <1>1, <2>1, <2>2, AgedMessage
    <3>2. \A x \in parents' : x \in Int /\ x - 1 \in parents
      BY DEF Tick, TypeOK
    <3>3. c.age \notin parents
      BY DEF OneOfEach
    <3>4. QED
      BY <3>1, <3>2, <3>3
  <2>3. CASE c.age > MaxAge
    <3>1. m.age > MaxAge
      BY <1>1, <2>1, <2>3, AgedMessage
    <3>2. \A x \in parents' : x <= MaxAge
      BY RoundsAssumption DEF TypeOK, MaxAge
    <3>3. QED
      BY <1>1, <3>1, <3>2, ChunksType
  <2>4. QED
    BY <1>1, <2>2, <2>3, ChunksType
<1>3. \A m \in children' :
        /\ m.age <= MaxAge
        /\ \E c \in children : m = Aged(c) /\ m.chunk = c.chunk /\ m.age = c.age + 1
  <2>1. TAKE m \in children'
  <2>2. m.age <= MaxAge
    <3>1. m.left \in Int /\ m.age \in Int
      BY <1>1 DEF Messages
    <3>2. m.left >= 0 /\ m.age + m.left <= MaxAge
      BY <1>1 DEF DeadlinesKept
    <3>3. QED
      BY <3>1, <3>2, ChunksType
  <2>3. PICK c \in children : m = Aged(c)
    BY TickPresent
  <2>4. c.age <= MaxAge
    BY <1>1, WaitingIsYoung DEF DeadlinesKept
  <2>5. QED
    BY <1>1, <2>2, <2>3, <2>4, AgedMessage
<1>4. \A w \in 1 .. Workers : running'[w] # Idle =>
        /\ running[w] # Idle /\ running[w].age \in 0 .. MaxAge + 1
        /\ running'[w].chunk = running[w].chunk
        /\ running[w].age <= MaxAge => running'[w].age = running[w].age + 1
        /\ running[w].age > MaxAge => running'[w].age = running[w].age
  <2>1. TAKE w \in 1 .. Workers
  <2>2. HAVE running'[w] # Idle
  <2>3. running[w] # Idle /\ running'[w] = Aged(running[w])
    BY <2>2 DEF Tick
  <2>4. running[w] \in Messages
    BY <2>3 DEF TypeOK
  <2>5. QED
    BY <1>1, <2>3, <2>4, AgedMessage
<1>5. \A m, n \in children' : m.chunk = n.chunk /\ m.age = n.age => m = n
  <2>1. TAKE m, n \in children'
  <2>2. HAVE m.chunk = n.chunk /\ m.age = n.age
  <2>3. PICK c \in children : m = Aged(c) /\ m.chunk = c.chunk /\ m.age = c.age + 1
    BY <1>3
  <2>4. PICK d \in children : n = Aged(d) /\ n.chunk = d.chunk /\ n.age = d.age + 1
    BY <1>3
  <2>5. c.age \in Int /\ d.age \in Int
    BY <1>1
  <2>6. c = d
    BY <2>2, <2>3, <2>4, <2>5 DEF OneOfEach
  <2>7. QED
    BY <2>3, <2>4, <2>6
<1>6. \A w \in 1 .. Workers, m \in children' :
        running'[w] # Idle /\ m.chunk = running'[w].chunk => m.age # running'[w].age
  <2>1. TAKE w \in 1 .. Workers, m \in children'
  <2>2. HAVE running'[w] # Idle /\ m.chunk = running'[w].chunk
  <2>3. PICK c \in children : m.chunk = c.chunk /\ m.age = c.age + 1
    BY <1>3
  <2>4. c.age # running[w].age
    BY <1>4, <2>2, <2>3 DEF OneOfEach
  <2>5. m.age <= MaxAge /\ c.age \in Int
    BY <1>1, <1>3
  <2>6. QED
    BY <1>4, <2>2, <2>3, <2>4, <2>5, ChunksType
<1>7. \A v, w \in 1 .. Workers :
        /\ v # w /\ running'[v] # Idle /\ running'[w] # Idle
        /\ running'[v].chunk = running'[w].chunk
        => running'[v].age # running'[w].age \/ running'[w].age > MaxAge
  <2>1. TAKE v, w \in 1 .. Workers
  <2>2. HAVE /\ v # w /\ running'[v] # Idle /\ running'[w] # Idle
             /\ running'[v].chunk = running'[w].chunk
  <2>3. running[v].age # running[w].age \/ running[w].age > MaxAge
    BY <1>4, <2>2 DEF OneOfEach
  <2>4. QED
    BY <1>4, <2>2, <2>3, ChunksType
<1>8. QED
  BY <1>2, <1>5, <1>6, <1>7 DEF OneOfEach

\* A round is sent when the last one is an interval old.
LEMMA BeatKeepsOne ==
  ASSUME IInv, Beat
  PROVE  OneOfEach'
<1>1. UNCHANGED <<children, running, Present>> /\ parents' = parents \cup {0}
  BY DEF Beat, Present
<1>2. ASSUME NEW m \in Present
      PROVE  m.age # 0
  <2>1. 0 \notin Rounds
    BY RoundsAssumption DEF Beat, IInv, RoundsSpaced
  <2>2. QED
    BY <2>1, ChunksType DEF Rounds
<1>3. QED
  BY <1>1, <1>2 DEF IInv, OneOfEach

LEMMA DispatchKeepsOne ==
  ASSUME IInv, NEW a \in parents, Dispatch(a)
  PROVE  OneOfEach'
<1> USE DEF IInv
<1>1. PICK n \in 0 .. Chunks : /\ children' = children \cup Sent(n, a)
                               /\ Present' \subseteq Present \cup Sent(n, a)
  BY DispatchPresent
<1>2. /\ \A m \in Sent(n, a) : m.age = a
      /\ \A k, m \in Sent(n, a) : k.chunk = m.chunk => k = m
  BY SentMessages DEF TypeOK
<1>3. \A m \in Present : m.age # a
  BY DEF OneOfEach
<1>4. parents' = parents \ {a} /\ running' = running
  BY DEF Dispatch
<1>5. children \subseteq Present /\ \A w \in 1 .. Workers :
        running[w] # Idle => running[w] \in Present
  BY PresentType
<1>6. QED
  BY <1>1, <1>2, <1>3, <1>4, <1>5 DEF OneOfEach

LEMMA StartKeepsOne ==
  ASSUME IInv, NEW m \in children, NEW w \in 1 .. Workers, Start(m, w)
  PROVE  OneOfEach'
<1> USE DEF IInv
<1>1. \A n \in Present' : n.age \notin parents'
  BY TaskPresent DEF OneOfEach
<1>2. /\ children' = children \ {m} /\ running'[w] = m
      /\ \A v \in 1 .. Workers \ {w} : running'[v] = running[v]
  BY DEF Start, TypeOK
<1>3. QED
  BY <1>1, <1>2 DEF OneOfEach

LEMMA FinishKeepsOne ==
  ASSUME IInv, NEW w \in 1 .. Workers, Finish(w)
  PROVE  OneOfEach'
<1> USE DEF IInv
<1>1. \A n \in Present' : n.age \notin parents'
  BY TaskPresent DEF OneOfEach
<1>2. /\ children' = children /\ running'[w] = Idle
      /\ \A v \in 1 .. Workers \ {w} : running'[v] = running[v]
  BY DEF Finish, TypeOK
<1>3. QED
  BY <1>1, <1>2 DEF OneOfEach

\* A task is sent again only within its deadline, so it takes the place of the
\* one that ran.
LEMMA RetryKeepsOne ==
  ASSUME IInv, NEW w \in 1 .. Workers, Retry(w)
  PROVE  OneOfEach'
<1> USE DEF IInv
<1>1. \A n \in Present' : n.age \notin parents'
  BY TaskPresent DEF OneOfEach
<1>2. /\ running[w] # Idle /\ running'[w] = Idle
      /\ \A v \in 1 .. Workers \ {w} : running'[v] = running[v]
  BY DEF Retry, TypeOK
<1>3. PICK m \in Messages :
        /\ m.chunk = running[w].chunk /\ m.age = running[w].age
        /\ children' \subseteq children \cup {m}
        /\ running[w].left < 0 => children' = children
  BY RetryStep
<1>4. CASE children' = children
  BY <1>1, <1>2, <1>4 DEF OneOfEach
<1>5. CASE children' # children
  <2>1. running[w].age \in Int /\ running[w].left \in Int /\ running[w] \in Present
    BY <1>2, RetryStep, PresentType, ChunksType DEF Messages
  <2>2. ~(running[w].age > MaxAge)
    BY <1>3, <1>5, <2>1, WaitingIsYoung, ChunksType
  <2>3. QED
    BY <1>1, <1>2, <1>3, <2>2 DEF OneOfEach
<1>6. QED
  BY <1>4, <1>5

-----------------------------------------------------------------------------
LEMMA OneKeeps ==
  ASSUME IInv, TypeOK', DeadlinesKept', [Next]_vars
  PROVE  OneOfEach'
<1>1. CASE UNCHANGED vars
  BY <1>1 DEF vars, IInv, OneOfEach, Present
<1>2. QED
  BY <1>1, TickKeepsOne, BeatKeepsOne, DispatchKeepsOne, StartKeepsOne,
     FinishKeepsOne, RetryKeepsOne DEF Next

LEMMA NextKeeps == IInv /\ [Next]_vars => IInv'
<1> SUFFICES ASSUME IInv, [Next]_vars
             PROVE  IInv'
  OBVIOUS
<1>1. TypeOK' /\ DeadlinesKept'
  BY TypeKeeps, DeadlinesKeep DEF IInv
<1>2. QED
  BY <1>1, RoundsKeep, OneKeeps DEF IInv

LEMMA InitHolds == Init => IInv
<1> SUFFICES ASSUME Init
             PROVE  IInv
  OBVIOUS
<1>1. Present = {} /\ Rounds = {}
  BY DEF Init, Present, Rounds
<1>2. QED
  BY <1>1, RoundsAssumption
     DEF Init, IInv, TypeOK, DeadlinesKept, RoundsSpaced, OneOfEach

LEMMA InvariantHolds == Spec => []IInv
BY InitHolds, NextKeeps, PTL DEF Spec

\* Messages keep their types: no task is retried more than max_retries times,
\* and no age or deadline leaves its range.
THEOREM TypeCorrect == Spec => []TypeOK
<1>1. IInv => TypeOK
  BY DEF IInv
<1>2. QED
  BY <1>1, InvariantHolds, PTL

\* No chunk of a round waits or runs twice within its deadline.
THEOREM NoTwins == Spec => []NoTwin
<1>1. IInv => NoTwin
  <2> SUFFICES ASSUME IInv
               PROVE  NoTwin
    OBVIOUS
  <2> USE DEF IInv
  <2>1. ASSUME NEW w \in 1 .. Workers, running[w] # Idle, running[w].left >= 0
        PROVE  /\ running[w].age \notin parents
               /\ \A m \in children :
                    m.chunk = running[w].chunk => m.age # running[w].age
               /\ \A v \in 1 .. Workers \ {w} :
                    running[v].chunk = running[w].chunk
                    => running[v].age # running[w].age
    <3>1. running[w] \in Present /\ running[w] \in Messages
      BY <2>1, PresentType
    <3>2. running[w].age <= MaxAge /\ running[w].age \in Int
      BY <2>1, <3>1, WaitingIsYoung, ChunksType DEF Messages
    <3>3. \A v \in 1 .. Workers : running[v] = Idle => running[v].chunk # running[w].chunk
      BY <3>1, ChunksType DEF Messages, Idle
    <3>4. QED
      BY <2>1, <3>1, <3>2, <3>3, ChunksType DEF OneOfEach
  <2>2. \A m, n \in children : m.chunk = n.chunk /\ m.age = n.age => m = n
    BY DEF OneOfEach
  <2>3. QED
    BY <2>1, <2>2 DEF NoTwin
<1>2. QED
  BY <1>1, InvariantHolds, PTL

\* A child starts within MaxAge of beat, however often it has been retried.
THEOREM ChildrenStartInTime == Spec => StartsInTime
<1>1. IInv /\ [Next]_vars =>
        [\A w \in 1 .. Workers :
           running[w] = Idle /\ running'[w] # Idle => running'[w].age <= MaxAge]_vars
  <2> SUFFICES ASSUME IInv, Next, NEW w \in 1 .. Workers,
                      running[w] = Idle, running'[w] # Idle
               PROVE  running'[w].age <= MaxAge
    OBVIOUS
  <2> USE DEF IInv, TypeOK
  <2>1. PICK m \in children : running'[w] = m
    BY DEF Next, Tick, Beat, Dispatch, Start, Finish, Retry
  <2>2. QED
    BY <2>1, PresentType, WaitingIsYoung DEF DeadlinesKept
<1>2. QED
  BY <1>1, InvariantHolds, PTL DEF Spec, StartsInTime

\* Naturals that are d apart have different quotients by d.
LEMMA QuotientsApart ==
  ASSUME NEW d \in Nat \ {0}, NEW x \in Nat, NEW y \in Nat, x + d <= y
  PROVE  x \div d < y \div d
<1>1. /\ x \div d \in Nat /\ y \div d \in Nat
      /\ d * (x \div d) <= x /\ y < d * (y \div d) + d
  OBVIOUS
<1>2. CASE y \div d <= x \div d
  <2>1. d * (y \div d) <= d * (x \div d)
    BY <1>1, <1>2
  <2>2. QED
    BY <1>1, <2>1
<1>3. QED
  BY <1>1, <1>2

\* A quotient grows with its dividend.
LEMMA QuotientGrows ==
  ASSUME NEW d \in Nat \ {0}, NEW x \in Nat, NEW y \in Nat, x <= y
  PROVE  x \div d \in 0 .. y \div d
<1>1. /\ x \div d \in Nat /\ y \div d \in Nat
      /\ d * (x \div d) <= x /\ y < d * (y \div d) + d
  OBVIOUS
<1>2. CASE y \div d < x \div d
  <2>1. d * (y \div d) + d <= d * (x \div d)
    BY <1>1, <1>2
  <2>2. QED
    BY <1>1, <2>1
<1>3. QED
  BY <1>1, <1>2

\* Ages an interval apart, none of them above MaxAge, are few: their quotients
\* by the interval are different.
LEMMA SpacedAreFew ==
  ASSUME NEW A \in SUBSET (0 .. MaxAge),
         \A x, y \in A : x < y => x + Interval <= y
  PROVE  Cardinality(A) <= MaxAge \div Interval + 1
<1> DEFINE n == MaxAge \div Interval
           f == [x \in A |-> x \div Interval]
<1>1. Interval \in Nat \ {0} /\ MaxAge \in Nat /\ n \in Nat /\ A \subseteq Nat
  BY RoundsAssumption, ChunksType
<1>2. \A x \in A : x \div Interval \in 0 .. n
  BY <1>1, QuotientGrows
<1>3. \A x, y \in A : x # y => x \div Interval # y \div Interval
  <2>1. TAKE x, y \in A
  <2>2. HAVE x # y
  <2>3. /\ x \in Nat /\ y \in Nat
        /\ x \div Interval \in Int /\ y \div Interval \in Int
        /\ x + Interval <= y \/ y + Interval <= x
    BY <1>1, <1>2, <2>2
  <2>4. CASE x + Interval <= y
    <3>1. x \div Interval < y \div Interval
      BY <1>1, <2>3, <2>4, QuotientsApart
    <3>2. QED
      BY <2>3, <3>1
  <2>5. CASE y + Interval <= x
    <3>1. y \div Interval < x \div Interval
      BY <1>1, <2>3, <2>5, QuotientsApart
    <3>2. QED
      BY <2>3, <3>1
  <2>6. QED
    BY <2>3, <2>4, <2>5
<1>4. f \in Injection(A, 0 .. n)
  BY <1>2, <1>3 DEF Injection, IsInjective
<1>5. IsFiniteSet(0 .. n) /\ Cardinality(0 .. n) = n + 1
  <2> HIDE DEF n
  <2>1. QED
    BY <1>1, FS_Interval
<1>6. QED
  BY <1>4, <1>5, FS_Injection

\* Rounds do not pile up, for any number of workers and however long they are
\* busy: the children that wait come from MaxAge \div Interval + 1 rounds at
\* most, two for the settings of the code.
THEOREM RoundsStayBounded == Spec => []RoundsBounded
<1>1. IInv => RoundsBounded
  <2> SUFFICES ASSUME IInv
               PROVE  RoundsBounded
    OBVIOUS
  <2> DEFINE A == {m.age : m \in children}
  <2>1. \A m \in children : m \in Present /\ m.age \in 0 .. MaxAge
    BY PresentType, WaitingIsYoung, ChunksType DEF IInv, DeadlinesKept, Messages
  <2>2. A \subseteq Rounds /\ A \subseteq 0 .. MaxAge
    BY <2>1 DEF Rounds
  <2>3. \A x, y \in A : x < y => x + Interval <= y
    BY <2>2 DEF IInv, RoundsSpaced
  <2>4. Cardinality(A) <= MaxAge \div Interval + 1
    BY <2>2, <2>3, SpacedAreFew
  <2>5. QED
    BY <2>4 DEF RoundsBounded
<1>2. QED
  BY <1>1, InvariantHolds, PTL

=============================================================================
