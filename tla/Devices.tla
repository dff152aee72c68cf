------------------------------- MODULE Devices -------------------------------
(***************************************************************************)
(* The devices the server knows (internal/device, internal/configdb:       *)
(* devices, internal/api: devices, device_config, the device handlers of   *)
(* api, and cmd/server: discovery, the move of config.yaml's devices and   *)
(* the search for the address of a manual sync).                           *)
(*                                                                         *)
(* A device is known in three places that change one after the other: the  *)
(* registry holds where it was seen, the api's set says that it is         *)
(* registered, and a row keeps its name, address and lists.  Devices move  *)
(* between addresses, and an address may be taken by another device.       *)
(***************************************************************************)
EXTENDS Naturals, FiniteSets

CONSTANTS
    Device, Address, List, Caller,
    Place,              \* who is at which address at first: Address -> Device or None
    Manual,             \* the addresses a device may be given
    Ini,                \* Device -> [complete, hash, edition, version], what its comicrack.ini says
    Ignored,            \* the devices and addresses that are ignored
    YamlLists,             \* Device -> the lists config.yaml gives it, or None if it does not name the device
    None,
    Requested, MaxRequests, MaxMoves    \* bounds: the devices of requests, the requests, and what happens to devices and server

VARIABLES
    at,             \* Address -> the device that answers there, or None
    heard,          \* the broadcast the main loop works on: [key, address], or None
    seen,           \* Device -> [address, recent] in the registry, or None
    registered,     \* the api's set
    row,            \* Device -> [address, lists], or None; lists: List -> [enabled, own], or None
    yaml,           \* the devices that config.yaml holds
    phase, todo,    \* "down", "moving", "up"; the devices still to be moved
    pinged,         \* the direct ping of this start was made
    work,           \* Caller -> its request, or None
    requests, moves,    \* bounds: so far
    answered,       \* ghost: the <<device, address>> of which the server read a comicrack.ini
    doubtful        \* ghost: devices of which the set and the row may differ, see RegistrationAgrees

vars == <<at, heard, seen, registered, row, yaml, phase, todo, pinged, work, requests, moves, answered, doubtful>>

Init ==
    /\ at = Place
    /\ heard = None
    /\ seen = [d \in Device |-> None]
    /\ registered = {}
    /\ row = [d \in Device |-> None]
    /\ yaml = {d \in Device : YamlLists[d] # None}
    /\ phase = "down" /\ todo = {} /\ pinged = FALSE
    /\ work = [c \in Caller |-> None]
    /\ requests = 0 /\ moves = 0
    /\ answered = {} /\ doubtful = {}

(* The registry's record of a device, and the row with its lists. *)
Seen == [address : Address, recent : BOOLEAN]
DeviceRow ==
    [address : Address \union {None}, lists : [List -> [enabled : BOOLEAN, own : BOOLEAN] \union {None}]]

TypeOK ==
    /\ at \in [Address -> Device \union {None}]
    /\ heard \in [key : Device, address : Address] \union {None}
    /\ seen \in [Device -> Seen \union {None}]
    /\ registered \subseteq Device /\ yaml \subseteq Device /\ todo \subseteq Device
    /\ row \in [Device -> DeviceRow \union {None}]
    /\ phase \in {"down", "moving", "up"} /\ pinged \in BOOLEAN
    /\ requests \in 0 .. MaxRequests /\ moves \in 0 .. MaxMoves

(*************************** The rows ***************************************)

NoLists == [l \in List |-> None]

(* UpsertDevice: an address and lists that are there stay. *)
Upserted(d) == [row EXCEPT ![d] = IF @ = None THEN [address |-> None, lists |-> NoLists] ELSE @]

(* handleDevices: what the page says of a device, in the registry or with a row. *)
ShownRegistered(d) == IF seen[d] # None THEN d \in registered ELSE row[d] # None

(*************************** Start and stop *********************************)

(* Fault: only devices with lists count. *)
LoadedListed == {d \in Device : row[d] # None /\ \E l \in List : row[d].lists[l] # None}

(* NewServer: every device with a row is registered, *)
Loaded == {d \in Device : row[d] # None}

(* or none, if the rows cannot be read. *)
LoadRegistered ==
    \/ registered' = Loaded /\ UNCHANGED doubtful
    \/ registered' = {} /\ doubtful' = doubtful \union Loaded

(* runServer: config.yaml's devices are moved if there is no row yet. *)
Start ==
    /\ phase = "down"
    /\ IF yaml # {} /\ \A d \in Device : row[d] = None
       THEN phase' = "moving" /\ todo' = yaml /\ UNCHANGED <<registered, doubtful>>
       ELSE phase' = "up" /\ LoadRegistered /\ UNCHANGED todo
    /\ UNCHANGED <<at, heard, seen, row, yaml, pinged, work, requests, moves, answered>>

(* migrateDevicesToConfigDB, a device. *)
Migrate(d) ==
    /\ phase = "moving" /\ d \in todo
    /\ todo' = todo \ {d}
    /\ row' = [row EXCEPT ![d] = [address |-> None,
                               lists |-> [l \in List |-> IF l \in YamlLists[d] THEN [enabled |-> TRUE, own |-> FALSE] ELSE None]]]
    /\ UNCHANGED <<at, heard, seen, registered, yaml, phase, pinged, work, requests, moves, answered, doubtful>>

(* The devices leave config.yaml; if it cannot be saved that is only logged. *)
Migrated ==
    /\ phase = "moving" /\ todo = {}
    /\ phase' = "up"
    /\ LoadRegistered
    /\ yaml' \in {yaml, {}}
    /\ UNCHANGED <<at, heard, seen, row, todo, pinged, work, requests, moves, answered>>

(* The process ends, also in the middle of the move (an error of it ends the start) or of *)
(* requests. *)
Stop ==
    /\ phase # "down" /\ moves < MaxMoves
    /\ moves' = moves + 1
    /\ phase' = "down" /\ todo' = {} /\ pinged' = FALSE /\ heard' = None
    /\ seen' = [d \in Device |-> None]
    /\ registered' = {} /\ doubtful' = {}
    /\ work' = [c \in Caller |-> None]
    /\ UNCHANGED <<at, row, yaml, requests, answered>>

(*************************** Discovery **************************************)

(* External: a device goes to an address, or off the network. *)
Move(d, a) ==
    /\ moves < MaxMoves
    /\ moves' = moves + 1
    /\ at' = [b \in Address |-> IF b = a THEN d ELSE IF at[b] = d THEN None ELSE at[b]]
    /\ UNCHANGED <<heard, seen, registered, row, yaml, phase, todo, pinged, work, requests, answered, doubtful>>

(* Time: recentPingWindow passes without a ping. *)
Age(d) ==
    /\ seen[d] # None /\ seen[d].recent
    /\ seen' = [seen EXCEPT ![d].recent = FALSE]
    /\ UNCHANGED <<at, heard, registered, row, yaml, phase, todo, pinged, work, requests, moves, answered, doubtful>>

Broadcast(a) ==
    /\ phase = "up" /\ heard = None /\ at[a] # None
    /\ heard' = [key |-> at[a], address |-> a]
    /\ UNCHANGED <<at, seen, registered, row, yaml, phase, todo, pinged, work, requests, moves, answered, doubtful>>

(* ParseINI and Validate: the fields are there, the hash is the one of the device, and
   the app is not too old. *)
MinVersion(edition) == CASE edition = "Android Free" -> 100 [] edition = "Android Full" -> 89 [] edition = "iOS" -> 1 [] OTHER -> 0
Readable(d) == Ini[d].complete /\ Ini[d].version # 0
HashFits(d) == Ini[d].hash
Valid(d) == Readable(d) /\ HashFits(d) /\ Ini[d].version >= MinVersion(Ini[d].edition)

(* registry.Add *)
Added(d, a) == [seen EXCEPT ![d] = [address |-> a, recent |-> TRUE]]

(* Who answers at the address is added, with what its comicrack.ini says. *)
AddAnswering(key, a) ==
    /\ at[a] # None /\ Valid(at[a]) /\ {a, at[a]} \intersect Ignored = {}
    /\ seen' = Added(at[a], a)
    /\ answered' = answered \union {<<at[a], a>>}

(* handleDiscoveredDevice; UpdateLastSeen leaves the address as it is. *)
HandleDiscovered ==
    /\ heard # None
    /\ heard' = None
    /\ \/ seen[heard.key] # None /\ heard.address \notin Ignored
          /\ seen' = [seen EXCEPT ![heard.key].recent = TRUE]
          /\ UNCHANGED answered
       \/ seen[heard.key] = None /\ AddAnswering(heard.key, heard.address)
       \/ UNCHANGED <<seen, answered>>      \* a limit, the ignore list, or nobody answers
    /\ UNCHANGED <<at, registered, row, yaml, phase, todo, pinged, work, requests, moves, doubtful>>

(* sendDirectPingAndRegister: its key is never the one of the registry. *)
DirectPing(a) ==
    /\ phase = "up" /\ ~pinged
    /\ pinged' = TRUE
    /\ AddAnswering(at[a], a)
    /\ UNCHANGED <<at, heard, registered, row, yaml, phase, todo, work, requests, moves, doubtful>>

(*************************** Requests ***************************************)

(* A request is [op, stage, device, list, address, home, refuted]: the address
   is one to be saved or probed, home the one of the registry, and refuted says that
   another device was found.  The name and the default settings, which are saved like
   the row's existence, are left out. *)
Idle(c) == phase = "up" /\ work[c] = None /\ requests < MaxRequests
Request(op, stage, d) ==
    [op |-> op, stage |-> stage, device |-> d, list |-> None, address |-> None, home |-> None, refuted |-> FALSE]
Take(c, request) == work' = [work EXCEPT ![c] = request]
Others(c, d) == {b \in Caller \ {c} : work[b] # None /\ work[b].device = d}
Cross(c, d) == doubtful' = IF Others(c, d) # {} THEN doubtful \union {d} ELSE doubtful

(* A registration, or the end of one, that meets no other request puts the set and the row right. *)
Settle(c, d) == doubtful' = IF Others(c, d) # {} THEN doubtful \union {d} ELSE doubtful \ {d}

Turn(c, op, stage) == work[c] # None /\ work[c].op = op /\ work[c].stage = stage
Done(c) == work' = [work EXCEPT ![c] = None]
Dev(c) == work[c].device

(* Its row is not written or not deleted, which is only logged: the set stays as it is now. *)
Unwritten(c) == doubtful' = doubtful \union {Dev(c)} /\ UNCHANGED row

(* handleDeviceRegister: the set, *)
Register(c, d) ==
    /\ Idle(c) /\ seen[d] # None
    /\ requests' = requests + 1
    /\ registered' = registered \union {d}
    /\ Take(c, Request("register", "look", d)) /\ Settle(c, d)
    /\ UNCHANGED <<at, heard, seen, row, yaml, phase, todo, pinged, moves, answered>>

(* the look for a row, which finds none if it fails, *)
LookForRow(c) ==
    /\ Turn(c, "register", "look")
    /\ \/ work' = [work EXCEPT ![c].stage = "insert"]
       \/ row[Dev(c)] # None /\ Done(c)
    /\ UNCHANGED <<at, heard, seen, registered, row, yaml, phase, todo, pinged, requests, moves, answered, doubtful>>

(* and the row. *)
InsertRow(c) ==
    /\ Turn(c, "register", "insert")
    /\ \/ row' = Upserted(Dev(c)) /\ UNCHANGED doubtful
       \/ Unwritten(c)
    /\ Done(c)
    /\ UNCHANGED <<at, heard, seen, registered, yaml, phase, todo, pinged, requests, moves, answered>>

(* handleDeviceUnregister: the set, then the row and with it its lists. *)
Unregister(c, d) ==
    /\ Idle(c)
    /\ requests' = requests + 1
    /\ registered' = registered \ {d}
    /\ Take(c, Request("unregister", "delete", d)) /\ Settle(c, d)
    /\ UNCHANGED <<at, heard, seen, row, yaml, phase, todo, pinged, moves, answered>>

DeleteDevice(c) ==
    /\ Turn(c, "unregister", "delete")
    /\ \/ row' = [row EXCEPT ![Dev(c)] = None] /\ UNCHANGED doubtful
       \/ Unwritten(c)
    /\ Done(c)
    /\ UNCHANGED <<at, heard, seen, registered, yaml, phase, todo, pinged, requests, moves, answered>>

(* handleUpdateDevice: the row is read, for any device, *)
Edit(c, d, address) ==
    /\ Idle(c)
    /\ requests' = requests + 1
    /\ Take(c, [Request("edit", "save", d) EXCEPT !.address = address])
    /\ doubtful' = IF Others(c, d) # {} \/ row[d] = None THEN doubtful \union {d} ELSE doubtful
    /\ UNCHANGED <<at, heard, seen, registered, row, yaml, phase, todo, pinged, moves, answered>>

(* written back with what was asked for in it, *)
SaveEdit(c) ==
    /\ Turn(c, "edit", "save")
    /\ row' = Upserted(Dev(c))
    /\ IF work[c].address = None THEN Done(c) ELSE work' = [work EXCEPT ![c].stage = "address"]
    /\ UNCHANGED <<at, heard, seen, registered, yaml, phase, todo, pinged, requests, moves, answered, doubtful>>

(* and the address is saved after it, if the row is still there. *)
SetDeviceAddress(c) ==
    /\ Turn(c, "edit", "address")
    /\ row' = IF row[Dev(c)] = None THEN row ELSE [row EXCEPT ![Dev(c)].address = work[c].address]
    /\ Done(c)
    /\ UNCHANGED <<at, heard, seen, registered, yaml, phase, todo, pinged, requests, moves, answered, doubtful>>

(* handleDeviceListAdd: a registered device without a row gets one, if it was seen, *)
AddList(c, d, l) ==
    /\ Idle(c) /\ d \in registered
    /\ requests' = requests + 1
    /\ \/ row[d] = None /\ seen[d] # None
       \/ row[d] # None /\ row[d].lists[l] = None
    /\ Take(c, [Request("add", IF row[d] = None THEN "insert" ELSE "list", d) EXCEPT !.list = l])
    /\ Cross(c, d)
    /\ UNCHANGED <<at, heard, seen, registered, row, yaml, phase, todo, pinged, moves, answered>>

InsertMissing(c) ==
    /\ Turn(c, "add", "insert")
    /\ row' = Upserted(Dev(c))
    /\ work' = [work EXCEPT ![c].stage = "list"]
    /\ UNCHANGED <<at, heard, seen, registered, yaml, phase, todo, pinged, requests, moves, answered, doubtful>>

(* and the list; AddDeviceList fails without a row, or with this list in it. *)
AddDeviceList(c) ==
    /\ Turn(c, "add", "list")
    /\ LET d == Dev(c)  l == work[c].list
       IN  row' = IF row[d] # None /\ row[d].lists[l] = None
                  THEN [row EXCEPT ![d].lists[l] = [enabled |-> TRUE, own |-> FALSE]] ELSE row
    /\ Done(c)
    /\ UNCHANGED <<at, heard, seen, registered, yaml, phase, todo, pinged, requests, moves, answered, doubtful>>

(* handleDeviceListUpdate, handleDeviceListRemove: the list is looked for, *)
ChangeList(c, d, l, op) ==
    /\ Idle(c) /\ row[d] # None /\ row[d].lists[l] # None
    /\ requests' = requests + 1
    /\ Take(c, [Request(op, "first", d) EXCEPT !.list = l])
    /\ Cross(c, d)
    /\ UNCHANGED <<at, heard, seen, registered, row, yaml, phase, todo, pinged, moves, answered>>

HasList(c) == row[Dev(c)] # None /\ row[Dev(c)].lists[work[c].list] # None

(* and changed, enabled and settings by a statement each, *)
UpdateDeviceList(c) ==
    /\ \/ /\ Turn(c, "update", "first")
          /\ row' = IF HasList(c) THEN [row EXCEPT ![Dev(c)].lists[work[c].list].enabled = ~@] ELSE row
          /\ work' = [work EXCEPT ![c].stage = "second"]
       \/ /\ Turn(c, "update", "second")
          /\ row' = IF HasList(c) THEN [row EXCEPT ![Dev(c)].lists[work[c].list].own = TRUE] ELSE row
          /\ Done(c)
    /\ UNCHANGED <<at, heard, seen, registered, yaml, phase, todo, pinged, requests, moves, answered, doubtful>>

(* or removed. *)
RemoveDeviceList(c) ==
    /\ Turn(c, "remove", "first")
    /\ row' = IF row[Dev(c)] # None THEN [row EXCEPT ![Dev(c)].lists[work[c].list] = None] ELSE row
    /\ Done(c)
    /\ UNCHANGED <<at, heard, seen, registered, yaml, phase, todo, pinged, requests, moves, answered, doubtful>>

(* A statement of these fails: the request ends with an error. *)
RowFails(c) ==
    /\ work[c] # None /\ work[c].op \in {"edit", "add", "update", "remove"}
    /\ Done(c)
    /\ UNCHANGED <<at, heard, seen, registered, row, yaml, phase, todo, pinged, requests, moves, answered, doubtful>>

(*************************** Where a manual sync goes ***********************)

(* resolveSyncTarget: a device that pinged recently is taken to be where it was seen; *)
(* of another one the address is read, which may be the only way to it.               *)
Resolve(c, d) ==
    /\ Idle(c)
    /\ requests' = requests + 1
    /\ LET manual == IF row[d] = None THEN None ELSE row[d].address
           home == IF seen[d] = None THEN None ELSE seen[d].address
           ask(stage, address) == [Request("sync", stage, d) EXCEPT !.address = address, !.home = home]
       IN  work' = [work EXCEPT ![c] =
               CASE home # None /\ seen[d].recent -> ask("found", home)
                 [] manual # None /\ home \notin {None, manual} /\ ~(seen[d].recent) -> ask("quick", manual)
                 [] manual # None /\ home \in {None, manual} -> ask("probe", manual)
                 [] manual = None /\ home # None -> ask("found", home)
                 [] OTHER -> None]
    /\ UNCHANGED <<at, heard, seen, registered, row, yaml, phase, todo, pinged, moves, answered, doubtful>>

(* probeWith: the device itself, another one, or nobody: one that is there
   may not answer, and one that is not valid counts as one that does not. *)
Probed(a) == {None} \union {d \in Device : at[a] = d /\ Valid(d)}

QuickProbe(c) ==
    /\ Turn(c, "sync", "quick")
    /\ \E found \in Probed(work[c].home) :
        /\ work' = [work EXCEPT ![c] = IF found = Dev(c) THEN [@ EXCEPT !.stage = "found", !.address = work[c].home]
                                       ELSE [@ EXCEPT !.stage = "probe"]]
        /\ answered' = IF found = None THEN answered ELSE answered \union {<<found, work[c].home>>}
    /\ UNCHANGED <<at, heard, seen, registered, row, yaml, phase, todo, pinged, requests, moves, doubtful>>

(* Fault: a wrong device is taken for one that does not answer. *)
FallBack(c, found) ==
    IF work[c].home # None
    THEN [work EXCEPT ![c] = [@ EXCEPT !.stage = "found", !.address = work[c].home, !.refuted = found # None]]
    ELSE [work EXCEPT ![c] = None]

(* What follows from the probe of the manual address: another device is an error, and
   if nobody answers the old address is all there is. *)
FoundElsewhere(c, found) ==
    IF found = None /\ work[c].home # None
    THEN [work EXCEPT ![c] = [@ EXCEPT !.stage = "found", !.address = work[c].home]] ELSE [work EXCEPT ![c] = None]

ManualProbe(c) ==
    /\ Turn(c, "sync", "probe")
    /\ \E found \in Probed(work[c].address) :
        /\ IF found = Dev(c)
           THEN /\ work' = [work EXCEPT ![c].stage = "found"]
                /\ seen' = Added(Dev(c), work[c].address)
           ELSE work' = FoundElsewhere(c, found) /\ UNCHANGED seen
        /\ answered' = IF found = None THEN answered ELSE answered \union {<<found, work[c].address>>}
    /\ UNCHANGED <<at, heard, registered, row, yaml, phase, todo, pinged, requests, moves, doubtful>>

(* The sync itself goes on in module SyncServer. *)
Sync(c) ==
    /\ Turn(c, "sync", "found")
    /\ Done(c)
    /\ UNCHANGED <<at, heard, seen, registered, row, yaml, phase, todo, pinged, requests, moves, answered, doubtful>>

-----------------------------------------------------------------------------
Rowed(c) ==
    \/ LookForRow(c) \/ InsertRow(c) \/ DeleteDevice(c) \/ SaveEdit(c) \/ SetDeviceAddress(c)
    \/ InsertMissing(c) \/ AddDeviceList(c) \/ UpdateDeviceList(c) \/ RemoveDeviceList(c) \/ RowFails(c)

Next ==
    \/ Start \/ Migrated \/ Stop \/ HandleDiscovered
    \/ \E d \in Device : Migrate(d) \/ Age(d)
    \/ \E d \in Device, a \in Address : Move(d, a)
    \/ \E a \in Address : Broadcast(a) \/ DirectPing(a)
    \/ \E c \in Caller : Rowed(c) \/ QuickProbe(c) \/ ManualProbe(c) \/ Sync(c)
    \/ \E c \in Caller, d \in Requested :
        \/ Register(c, d) \/ Unregister(c, d) \/ Resolve(c, d)
        \/ \E a \in Manual \union {None} : Edit(c, d, a)
        \/ \E l \in List : AddList(c, d, l) \/ ChangeList(c, d, l, "update") \/ ChangeList(c, d, l, "remove")

Spec == Init /\ [][Next]_vars

-----------------------------------------------------------------------------
(* The api's set, which decides who may be given lists, the page of devices *)
(* and the rows, which decide who is synced, name the same devices when no  *)
(* request for them is under way, after any starts and stops in the middle  *)
(* of requests or of the move out of config.yaml (api.go: every device with *)
(* a row is registered).  Not so after two requests for a device that       *)
(* overlapped, an edit of one that is not registered (which makes its row), *)
(* a row that a registration could not write or the end of one not delete,  *)
(* or rows that a start could not read: the three may then disagree until   *)
(* the next start that reads the rows, or until the device is registered or *)
(* unregistered once more with no other request for it under way.           *)
RegistrationAgrees ==
    phase = "up" => \A d \in Device \ doubtful :
        (\A c \in Caller : work[c] = None \/ work[c].device # d) =>
            (d \in registered <=> row[d] # None) /\ (ShownRegistered(d) <=> row[d] # None)

(* A manual sync is sent where this very device answered the server at some *)
(* time, never where only another one did, and not to its old address when  *)
(* another device was found at its manual one (server.go resolveSyncTarget: *)
(* "A wrong device is an error, never a fallback").                         *)
SentWhereItAnswered ==
    \A c \in Caller : Turn(c, "sync", "found") => <<Dev(c), work[c].address>> \in answered /\ ~work[c].refuted
=============================================================================
