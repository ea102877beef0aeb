----------------------------- MODULE MCOnboarding -----------------------------
(* Instances of Onboarding for TLC.                                           *)
EXTENDS Onboarding, TLC

CONSTANTS h1, h2, h3

\* The handlers may be exchanged.
Alike == Permutations(Handlers)
=============================================================================
