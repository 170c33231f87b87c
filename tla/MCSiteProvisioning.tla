------------------------- MODULE MCSiteProvisioning -------------------------
(***************************************************************************)
(* Instances of SiteProvisioning for TLC.                                  *)
(***************************************************************************)
EXTENDS SiteProvisioning

CONSTANTS a, b, t1, t2, e1, e2

=============================================================================
