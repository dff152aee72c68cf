----------------------------- MODULE MCSyncServer -----------------------------
(* Small instances of SyncServer for TLC. *)
EXTENDS SyncServer

CONSTANTS d1, d2, h1, h2, h3

MCOneDevice == {d1}
MCTwoDevices == {d1, d2}
MCTwoCalls == {h1, h2}
MCThreeCalls == {h1, h2, h3}
=============================================================================
