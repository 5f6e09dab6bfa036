----------------------------- MODULE MtlsConfig -----------------------------
(* The contents resources.mtls may have (spec.py), one fingerprint each.   *)
CONSTANTS Materials, None

ASSUME MaterialsAssumption == None \notin Materials
=============================================================================
