---------------------------- MODULE PriceHistory ----------------------------
(***************************************************************************)
(* What the ingestion side of the collector promises to its readers,       *)
(* without sessions, locks, retries or errors.  The history has one point  *)
(* for each key.  A job gathers points from the provider; it publishes     *)
(* them all in one step, and after that step each of their keys has a      *)
(* point; or it abandons them all.  A published key never disappears, and  *)
(* a job that has ended publishes nothing more.                            *)
(***************************************************************************)

CONSTANTS
  Jobs,    \* collection jobs: one live batch or one backfill each
  Keys,    \* the pairs (ticker, second) a price is stored under
  Prices   \* price values

VARIABLES
  history,   \* the published points
  received,  \* job -> points gathered and neither published nor abandoned
  ended      \* the jobs that will never run again

vars == <<history, received, ended>>

Points == [key : Keys, price : Prices]

KeysOf(S) == {p.key : p \in S}

\* S has at most one point for each key.
Functional(S) == \A p, q \in S : p.key = q.key => p = q

TypeOK ==
  /\ history \subseteq Points
  /\ received \in [Jobs -> SUBSET Points]
  /\ ended \subseteq Jobs

Init ==
  /\ history = {}
  /\ received = [j \in Jobs |-> {}]
  /\ ended = {}

\* The provider answers a request of a running job.
Receive(j) ==
  /\ j \notin ended
  /\ received' = [received EXCEPT ![j] = received'[j]]
  /\ received[j] \subseteq received'[j]
  /\ received'[j] \subseteq Points
  /\ UNCHANGED <<history, ended>>

\* Job j has nothing in hand any more; it may be over, or try again.
Release(j) ==
  /\ j \notin ended
  /\ received' = [received EXCEPT ![j] = {}]
  /\ ended' \in {ended, ended \cup {j}}

\* Chosen points S, one for each key received or at least for those whose
\* point is not already there, replace those published under the same keys.
Publish(j) ==
  /\ \E S \in SUBSET received[j] :
       /\ Functional(S)
       /\ history' = {p \in history : p.key \notin KeysOf(S)} \cup S
  /\ KeysOf(received[j]) \subseteq KeysOf(history')
  /\ Release(j)

Abandon(j) == Release(j) /\ UNCHANGED history

Next == \E j \in Jobs : Receive(j) \/ Publish(j) \/ Abandon(j)

Spec == Init /\ [][Next]_vars

=============================================================================
