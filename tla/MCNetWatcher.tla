---------------------------- MODULE MCNetWatcher ----------------------------
(* NetWatcher on two networks, polled every 3 s; it must hold for 4 s.  *)
EXTENDS NetWatcher
CONSTANTS wifi, cable

MCNets == {wifi, cable}
=============================================================================
