------------------------------ MODULE Exchanges ------------------------------
(***************************************************************************)
(* The parts of the server that exchange something with its surroundings:  *)
(* reading lists from a repository, backups, the table of devices, lists   *)
(* for Komga, the XML library, events for browsers, and the limits on who  *)
(* may ask for how much.  They share no state: part says which of them     *)
(* moves in a behaviour, as in Services.  The limits are extended and not  *)
(* instantiated, so that their assumptions are this module's too.          *)
(***************************************************************************)
EXTENDS RateLimiters

CONSTANTS
    None, List, Caller, Book, Root, MaxChanges,
    \* CBLLists
    Owned, Present, Wanted, Facts, Path, History, Uploads, Gone, MaxImports,
    \* Backups
    Setting, FirstSetting, Day, Step, Retry, RunsKept, MaxTime, MaxWrites, MaxBackups,
    \* Devices
    Reader, Address, Place, Manual, Ini, Ignored, YamlLists, Requested, MaxAsked, MaxMoves,
    \* Komga
    Comic, Name, Form, Remote, SeriesOf, Members, MaxTargets,
    \* XmlLibrary
    Shelf, Torn, MaxSteps,
    \* Hub
    Client, QueueSize, SendSize, MaxEvents

(* The slots of a schedule are not empty. *)
ASSUME DayAssumption == Day \in Nat \ {0} /\ Step \in Nat

IsFile(content) == Len(content) \in Nat /\ content = [i \in 1 .. Len(content) |-> content[i]]

(* The repository has a commit; its files, and those that are uploaded, are    *)
(* sequences; and a book is not both owned and made for an entry.              *)
ASSUME ListsAssumption ==
    /\ Len(History) \in Nat \ {0}
    /\ \A content \in Uploads : IsFile(content)
    /\ \A h \in 1 .. Len(History) : \A path \in Path : History[h][path] = Gone \/ IsFile(History[h][path])
    /\ Owned \intersect Wanted = {} /\ Present \subseteq Owned /\ None \notin Wanted

VARIABLES
    part,
    reading, shelf, made, head, known, importing, imports, pulls, shared, outrun, crossed, undecided,
    clock, up, live, stale, setting, runs, due, failed, dir, names, job, removing, verify, restore, writes, changes, lastDone,
    excused, cut, before,
    at, heard, seen, registered, row, yaml, phase, todo, pinged, work, requests, moves, answered, doubtful,
    target, given, trigger, handler, pass, members, read, group, held, marked, status, indexError, orders, edits, taken, overtaken,
    cached, library, file, dirty, holder, steps, overlapped, astray,
    waiting, sent, turn, clients, send, closed, reader, writer, events, joined, got, panicked

limitVars == <<now, attempts, buckets, answer, admitted>>
listVars == <<reading, shelf, made, head, known, importing, imports, pulls, shared, outrun, crossed, undecided>>
backupVars == <<clock, up, live, stale, setting, runs, due, failed, dir, names, job, removing, verify, restore, writes, changes,
                lastDone, excused, cut, before>>
deviceVars == <<at, heard, seen, registered, row, yaml, phase, todo, pinged, work, requests, moves, answered, doubtful>>
komgaVars == <<target, given, trigger, handler, pass, members, read, group, held, marked, status, indexError, orders, edits,
               taken, overtaken>>
libraryVars == <<cached, library, file, dirty, holder, steps, overlapped, astray>>
hubVars == <<waiting, sent, turn, clients, send, closed, reader, writer, events, joined, got, panicked>>
exchangeVars == <<part, limitVars, listVars, backupVars, deviceVars, komgaVars, libraryVars, hubVars>>

L == INSTANCE CBLLists WITH work <- importing, requests <- imports, moves <- pulls, overtaken <- outrun,
                            MaxRequests <- MaxImports
B == INSTANCE Backups WITH MaxClock <- MaxTime
D == INSTANCE Devices WITH Device <- Reader, MaxRequests <- MaxAsked
K == INSTANCE Komga WITH live <- given, requests <- orders, changes <- edits, Book <- Comic, MaxRequests <- MaxTargets
X == INSTANCE XmlLibrary WITH changes <- steps, List <- Shelf, MaxChanges <- MaxSteps
H == INSTANCE Hub WITH taken <- sent

ExchangesInit ==
    /\ part \in {"limits", "reading lists", "backups", "devices", "komga", "library", "events"}
    /\ Init /\ L!Init /\ B!Init /\ D!Init /\ K!Init /\ X!Init /\ H!Init
    /\ part = "library" \/ cached

ExchangesNext ==
    /\ part' = part
    /\ IF part = "limits" THEN Next ELSE UNCHANGED limitVars
    /\ IF part = "reading lists" THEN L!Next ELSE UNCHANGED listVars
    /\ IF part = "backups" THEN B!Next ELSE UNCHANGED backupVars
    /\ IF part = "devices" THEN D!Next ELSE UNCHANGED deviceVars
    /\ IF part = "komga" THEN K!Next ELSE UNCHANGED komgaVars
    /\ IF part = "library" THEN X!Next ELSE UNCHANGED libraryVars
    /\ IF part = "events" THEN H!Next ELSE UNCHANGED hubVars

ExchangesSpec == ExchangesInit /\ [][ExchangesNext]_exchangeVars

(* The properties of the parts; each is stated and explained in its module. *)
EntriesAreMembers == part = "reading lists" => L!EntriesAreMembers
UnchangedIsCurrent == part = "reading lists" => L!UnchangedIsCurrent
WantedOnce == part = "reading lists" => L!WantedOnce
ListedIsWhole == part = "backups" => B!ListedIsWhole
OncePerSlot == part = "backups" => B!OncePerSlot
RestoreCanBeUndone == part = "backups" => B!RestoreCanBeUndone
RegistrationAgrees == part = "devices" => D!RegistrationAgrees
SentWhereItAnswered == part = "devices" => D!SentWhereItAnswered
ChangesArePushed == part = "komga" => K!ChangesArePushed
SavedOrMarked == part = "library" => X!SavedOrMarked
NoGaps == part = "events" => H!NoGaps
=============================================================================
