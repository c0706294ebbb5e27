-------------------------- MODULE MCAlarmDelivery --------------------------
(* Model values and symmetry for checking AlarmDelivery.                   *)
EXTENDS AlarmDelivery, TLC

Symmetry == Permutations(Payments) \cup Permutations(Workers) \cup Permutations(Admins)
=============================================================================
