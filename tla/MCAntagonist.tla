---------------------------- MODULE MCAntagonist ----------------------------
(* The antagonist on small instances; the cfg files give the sizes.        *)
EXTENDS AntagonistAudit
=============================================================================
