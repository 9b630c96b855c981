----------------------------- MODULE MCLostAdd ------------------------------
(* NotifierHistory.tla for TLC, with the events of MCNotifiers.tla.        *)
EXTENDS MCNotifiers, NotifierHistory

=============================================================================
