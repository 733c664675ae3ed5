------------------------------ MODULE MCStore ------------------------------
(* Values for Store: a key set at once and a key set lazily. *)
EXTENDS Store
CONSTANTS totals, links

MCKeys == {totals, links}
MCValues == 0..1
=============================================================================
