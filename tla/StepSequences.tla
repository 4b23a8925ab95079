--------------------------- MODULE StepSequences ---------------------------
(***************************************************************************)
(* A thread as the sequence of steps it still has to take: what is among   *)
(* them, and what follows what.                                            *)
(***************************************************************************)
EXTENDS Naturals, Sequences

\* A step of B is still to come in s.
Has(s, B) == \E i \in DOMAIN s : s[i] \in B

\* After every a in s comes a step in B.
Later(s, a, B) == \A i \in DOMAIN s : s[i] = a => \E j \in DOMAIN s : j > i /\ s[j] \in B
=============================================================================
