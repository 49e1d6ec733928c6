------------------------------ MODULE OnceOnly ------------------------------
(***************************************************************************)
(* What the mutation envelope promises a client that repeats itself: the   *)
(* intent behind a key takes effect at most once, and whoever is answered  *)
(* for that key is given the effect it had.  An effect is forgotten only   *)
(* together with the aggregate it was about.                               *)
(***************************************************************************)
CONSTANTS Keys, NoResult

VARIABLES
  applied,  \* the effect a key has, or NoResult
  past,     \* every pair of a key and an effect it has had
  answers   \* the pairs of a key and an effect that clients were given

vars == <<applied, past, answers>>

Init ==
  /\ applied = [k \in Keys |-> NoResult]
  /\ past = {}
  /\ answers = {}

Apply(k) ==
  /\ applied[k] = NoResult
  /\ applied' = [applied EXCEPT ![k] = applied'[k]]
  /\ past' = past \union {<<k, applied'[k]>>}
  /\ UNCHANGED answers

Answer ==
  /\ \E given \in past : answers' = answers \union {given}
  /\ UNCHANGED <<applied, past>>

Forget(ks) ==
  /\ applied' = [k \in Keys |-> IF k \in ks THEN NoResult ELSE applied[k]]
  /\ UNCHANGED <<past, answers>>

Next == (\E k \in Keys : Apply(k)) \/ Answer \/ (\E ks \in SUBSET Keys : Forget(ks))

Spec == Init /\ [][Next]_vars
=============================================================================
