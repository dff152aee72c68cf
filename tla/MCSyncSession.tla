---------------------------- MODULE MCSyncSession ----------------------------
(* Small instances of SyncSession for TLC. *)
EXTENDS SyncSession, TLC

CONSTANTS b1, b2, n1, n2, dA, dB

MCOneBook == {b1}
MCTwoBooks == {b1, b2}
MCOneName == {n1}
MCTwoNames == {n1, n2}
MCOneNameOf == b1 :> n1
MCTwoNameOf == b1 :> n1 @@ b2 :> n2
MCOneDevice == {dA}
MCTwoDevices == {dA, dB}
MCAllFaults == {"sidecar", "reverse", "list", "unlabel"}
MCNoFaults == {}
=============================================================================
