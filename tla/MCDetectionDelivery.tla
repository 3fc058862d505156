------------------------ MODULE MCDetectionDelivery -------------------------
(* One event whose attempts overlap; DetectionService's runs have the races *)
(* between events.                                                         *)
EXTENDS DetectionDelivery, TLC

CONSTANTS e1, m1

MCEvents == {e1}
MCMotions == {m1}
MCMotionOf == e1 :> m1
=============================================================================
