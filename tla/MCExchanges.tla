----------------------------- MODULE MCExchanges -----------------------------
EXTENDS Exchanges, TLC

(*************************** Reading lists **********************************)
CONSTANTS p, q, o, b1, b2

Entry(i, n, s, y, f) == [issue |-> i, number |-> n, series |-> s, year |-> y, volume |-> 1, format |-> f]
(* A series with a volume in its name, and without. *)
WithVolume == <<"a 1", "a", "a">>
Plain == <<"a", "a", "a">>
First == Entry(0, 1, WithVolume, 5, "")
Paper == Entry(0, 1, Plain, 5, "tpb")
Known == Entry(7, 2, Plain, 9, "")
MCFacts == (b1 :> Entry(0, 1, Plain, 4, "")) @@ (b2 :> Entry(7, 3, WithVolume, 8, "tpb"))
(* The second commit renames p to q and changes both files. *)
MCHistory ==
    <<(p :> <<First, Known>>) @@ (q :> Gone) @@ (o :> <<Paper>>), (p :> Gone) @@ (q :> <<Known>>) @@ (o :> <<First>>)>>
MCUploads == {<<First>>}

(*************************** Backups ****************************************)
Keeping(mode, n) == [enabled |-> TRUE, mode |-> mode, keep |-> n]
MCFirstSetting == Keeping("interval", 2)
MCSetting == {MCFirstSetting, Keeping("daily", 1)}

(*************************** Devices ****************************************)
CONSTANTS d1, d2, l1, a1, a2

MCPlace == (a1 :> d1) @@ (a2 :> d2)
(* The second device is too old and is ignored. *)
Says(edition, version) == [complete |-> TRUE, hash |-> TRUE, edition |-> edition, version |-> version]
MCIni == (d1 :> Says("Android Free", 100)) @@ (d2 :> Says("iOS", 1))
MCYamlLists == (d1 :> {l1}) @@ (d2 :> {})

(*************************** Komga ******************************************)
CONSTANTS n1, series
MCSeriesOf == b1 :> series
MCMembers == l1 :> {{b1}}
MCForm ==
    {[kind |-> "readlist", name |-> n1, enabled |-> TRUE, reads |-> TRUE],
     [kind |-> "collection", name |-> n1, enabled |-> FALSE, reads |-> TRUE]}
=============================================================================
