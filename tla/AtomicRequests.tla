--------------------------- MODULE AtomicRequests ---------------------------
(***************************************************************************)
(* What a client may count on (db/session.py, get_db): a request does all  *)
(* it is to do or nothing, before it is answered, and success is answered  *)
(* only after it was done.  An error, or no answer, says nothing.          *)
(***************************************************************************)
CONSTANTS
  Requests,   \* requests that are ever sent
  Intent      \* what each of them is to do to the tables: a set

VARIABLES
  applied,    \* what each request has done
  answers     \* what its client was told

atomicVars == <<applied, answers>>

AtomicInit ==
  /\ applied = [r \in Requests |-> {}]
  /\ answers = [r \in Requests |-> "none"]

Apply(r) ==
  /\ answers[r] = "none"
  /\ applied[r] = {}
  /\ applied' = [applied EXCEPT ![r] = Intent[r]]
  /\ UNCHANGED answers

Answer(r) ==
  /\ answers[r] = "none"
  /\ \/ answers' = [answers EXCEPT ![r] = "error"]
     \/ applied[r] = Intent[r] /\ answers' = [answers EXCEPT ![r] = "ok"]
  /\ UNCHANGED applied

Lose(lost) ==
  /\ \A r \in lost : answers[r] = "none"
  /\ answers' = [r \in Requests |-> IF r \in lost THEN "lost" ELSE answers[r]]
  /\ UNCHANGED applied

AtomicNext ==
  \/ \E r \in Requests : Apply(r) \/ Answer(r)
  \/ \E lost \in SUBSET Requests : Lose(lost)

AtomicSpec == AtomicInit /\ [][AtomicNext]_atomicVars

=============================================================================
