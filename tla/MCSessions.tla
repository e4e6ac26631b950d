----------------------------- MODULE MCSessions -----------------------------
(***************************************************************************)
(* Instances of Sessions for TLC.                                          *)
(***************************************************************************)
EXTENDS Sessions

CONSTANTS c1, c2, v1, v2

TwoClients   == {c1, c2}
TwoVMs       == {v1, v2}

=============================================================================
