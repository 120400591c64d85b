----------------------------- MODULE MCRehoming -----------------------------
(* Instances of Rehoming for TLC. *)
EXTENDS Rehoming, MCMotion

=============================================================================
