------------------------- MODULE MCSafetyController -------------------------
(* SafetyController on a fleet of three: two waiters can race for a slot.  *)
EXTENDS SafetyController
=============================================================================
