--------------------------- MODULE MCInstallation ---------------------------
(* Model values for checking Installation.                                 *)
EXTENDS Installation, Sequences, TLC

(* A bound: deaths and slow requests there may be once that many processes *)
(* have been launched.                                                     *)
Room == <<4, 2, 1>>

ASSUME MaxLaunches <= Len(Room)

Budget == launches > 0 => deaths + work <= Room[launches]

Symmetry ==
  Permutations(Procs) \union Permutations(Passwords)
    \union Permutations(Addresses) \union Permutations(Requests)
=============================================================================
