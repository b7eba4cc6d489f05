--------------------------- MODULE MCOutputDelivery ---------------------------
(* Instances of OutputDelivery for TLC.                                    *)
EXTENDS OutputDelivery, TLC

CONSTANTS v1, v2
=============================================================================
