-------------------------- MODULE MCCompanyAccess --------------------------
(* Instances of CompanyAccess for TLC.                                      *)
EXTENDS CompanyAccess, TLC

CONSTANTS t1, t2, t3, b1, b2

\* Two pages of one browser, and a page of another.
SomeBrowsers == [t \in Tabs |-> IF t = t3 THEN b2 ELSE b1]

\* The two pages of the one browser may be exchanged.
Pages == Permutations({t1, t2})
=============================================================================
