------------------------------- MODULE MCServices -------------------------------
(***************************************************************************)
(* The services for TLC: two modules of which the second depends on the    *)
(* first, three requests to the supervisor of which two name one job, two  *)
(* processes and two requests of the operation runtime and two devices,    *)
(* each of which are interchangeable.                                      *)
(***************************************************************************)
EXTENDS Services, TLC

CONSTANTS m1, m2, c1, c2, c3, j1, j2

MCOrder == <<m1, m2>>
MCJobOf(r) == IF r = c2 THEN j2 ELSE j1
ServiceSymmetry == Permutations(Runtimes) \cup Permutations(Requests) \cup Permutations(Devices)

=============================================================================
