----------------------------- MODULE MCReports -----------------------------
(* Values of the constants of Reports for TLC. *)
EXTENDS Reports

MCExports == {{<<1, "ana">>, <<2, "ben">>}, {<<2, "ana">>}, {}}
=============================================================================
