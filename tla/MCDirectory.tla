----------------------------- MODULE MCDirectory -----------------------------
(* Instances of Directory for TLC.                                          *)
EXTENDS Directory, TLC

CONSTANTS h1, h2, n1, n2, plain, old

\* Two numbers that differ in their punctuation only.
OneAddress == [n \in Numbers |-> plain]

\* The handlers may be exchanged, and so may the numbers.
Alike == Permutations(Handlers) \cup Permutations(Numbers)
=============================================================================
