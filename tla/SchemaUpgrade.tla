--------------------------- MODULE SchemaUpgrade ----------------------------
(***************************************************************************)
(* What starting a release promises about the prices table: its schema     *)
(* goes from wherever an earlier release left it to the head in one step,  *)
(* and only over rows that are unique; from then on they stay unique; and  *)
(* the API and the workers of the release run on the head only.            *)
(***************************************************************************)
EXTENDS Integers

CONSTANTS
  Keys,  \* the pairs (ticker, second)
  Head   \* the newest revision of the schema

VARIABLES
  version,  \* revision of the schema, 0 for an empty database
  rows,     \* key -> number of rows
  serving,  \* the API of this release is up
  working   \* so are its workers

vars == <<version, rows, serving, working>>

Unique == \A k \in Keys : rows[k] <= 1

Init ==
  /\ version \in 0 .. Head
  /\ rows \in [Keys -> Nat]
  /\ version = Head => Unique
  /\ ~serving /\ ~working

Store(k) ==
  /\ version > 0 /\ (version = Head => rows[k] = 0)
  /\ rows' = [rows EXCEPT ![k] = @ + 1]
  /\ UNCHANGED <<version, serving, working>>

Upgrade ==
  /\ version < Head /\ Unique
  /\ version' = Head
  /\ UNCHANGED <<rows, serving, working>>

\* The API or the workers start, stop, or both.
Turn ==
  /\ serving' \in BOOLEAN /\ working' \in BOOLEAN
  /\ version # Head => (serving' => serving) /\ (working' => working)
  /\ UNCHANGED <<version, rows>>

Next == (\E k \in Keys : Store(k)) \/ Upgrade \/ Turn

Spec == Init /\ [][Next]_vars

=============================================================================
