----------------------------- MODULE VolumeSync -----------------------------
(***************************************************************************)
(* The background sync of ComicVine volumes and their issue lists into the *)
(* cache (internal/comicvine: sync, cache, client), started once by the    *)
(* server (cmd/server.go), beside the scraper, which caches issue lists    *)
(* too, and beside ComicVine itself, which changes between two requests.   *)
(*                                                                         *)
(* An issue list comes in pages.  Requests fail at any time; whether the   *)
(* circuit breaker held one back or it was refused is the same here, but   *)
(* for what is written of the volume.  An issue never moves to another     *)
(* volume: the cache would keep it with the first.                         *)
(***************************************************************************)
EXTENDS Naturals, FiniteSets, Sequences, SequencesExt

CONSTANTS
    Volume, Issue,
    Tagged,         \* the volumes the books of the library name
    Home,           \* issue -> the volume it belongs to
    Listing,        \* volume -> its issues on ComicVine at first, by cover date
    PageSize,
    Absent, None,
    MaxRevisions    \* bound: how often ComicVine changes

VolumeAssumption ==
    /\ Tagged \subseteq Volume
    /\ Home \in [Issue -> Volume]
    /\ Listing \in [Volume -> Seq(Issue)]
    /\ \A v \in Volume : Listing[v] \in Seq({i \in Issue : Home[i] = v})
    /\ PageSize \in Nat \ {0}

VARIABLES
    remote,     \* volume -> its issues on ComicVine, or Absent: deleted or merged there
    volumes,        \* cv_volumes: volume -> [status, issuesSynced], or Absent
    cached,     \* cv_issues: issue -> the volume it is stored under, or None
    sync,       \* Run: [at, queue, volume, read, all]
    scraping,   \* the issue list that the scraper fetches: [volume, all], or None
    revisions,
    stable,     \* ghost: volume -> the issues listed since its list was first asked for
    torn        \* ghost: the volumes from whose list something was taken out meanwhile

vars == <<remote, volumes, cached, sync, scraping, revisions, stable, torn>>

(* A row of cv_volumes. *)
VolumeRow == [status : {"pending", "synced", "failed", "missing"}, issuesSynced : BOOLEAN]

TypeOK ==
    /\ \A v \in Volume : remote[v] = Absent \/ ToSet(remote[v]) \subseteq Issue
    /\ volumes \in [Volume -> VolumeRow \union {Absent}]
    /\ cached \in [Issue -> Volume \union {None}]
    /\ sync.at \in {"idle", "choose", "volume", "issues", "store", "mark", "done"}
    /\ sync.queue \subseteq Volume
    /\ revisions \in 0 .. MaxRevisions /\ torn \subseteq Volume

Idle == [at |-> "idle", queue |-> {}, volume |-> None, read |-> Absent, all |-> <<>>]

Init ==
    /\ remote = Listing
    /\ volumes = [v \in Volume |-> Absent] /\ cached = [i \in Issue |-> None]
    /\ sync = Idle /\ scraping = None
    /\ revisions = 0 /\ stable = [v \in Volume |-> {}] /\ torn = {}

(*************************** The cache **************************************)

(* EnsureVolumesExist. *)
Ensured == [v \in Volume |-> IF v \in Tagged /\ volumes[v] = Absent
                             THEN [status |-> "pending", issuesSynced |-> FALSE] ELSE volumes[v]]

(* PendingVolumeIDs. *)
Pending == {v \in Volume : /\ volumes[v] # Absent
                           /\ volumes[v].status = "pending" \/ ~volumes[v].issuesSynced
                           /\ volumes[v].status # "missing"}

(* UpsertIssues: an issue that is there already stays with its volume. *)
Upserted(v, all) == [i \in Issue |-> IF i \in ToSet(all) /\ cached[i] = None THEN v ELSE cached[i]]

(*************************** ComicVine **************************************)

(* What ComicVine lists of a volume; nothing for one that is gone. *)
Listed(v) == IF remote[v] = Absent THEN <<>> ELSE remote[v]

(* Fault: the first page is taken for all. *)
FirstPageOnly(v, all) == TRUE

(* FetchVolumeIssues: as many as there are in total, or a page that is not full. *)
LastPage(v, all) ==
    \/ Len(all) >= Len(Listed(v))
    \/ Len(all) % PageSize # 0

Page(v, all) == SubSeq(Listed(v), Len(all) + 1, Min({Len(Listed(v)), Len(all) + PageSize}))

(* What is taken out of a list between two of its pages shifts the later ones. *)
TakenOut(v) == torn' = IF sync.at = "issues" /\ sync.volume = v /\ sync.all # <<>> THEN torn \union {v} ELSE torn

(* A new issue is the latest; an issue is taken out, or its volume is. *)
Change ==
    /\ revisions < MaxRevisions /\ revisions' = revisions + 1
    /\ \E v \in {v \in Volume : remote[v] # Absent} :
          \/ /\ \E i \in Issue : /\ Home[i] = v /\ ~Contains(remote[v], i)
                                 /\ remote' = [remote EXCEPT ![v] = Append(@, i)]
             /\ UNCHANGED torn
          \/ /\ \E n \in DOMAIN remote[v] : remote' = [remote EXCEPT ![v] = RemoveAt(@, n)]
             /\ TakenOut(v)
          \/ remote' = [remote EXCEPT ![v] = Absent] /\ TakenOut(v)
    /\ UNCHANGED <<volumes, cached, sync, scraping, stable>>

(*************************** Run ********************************************)

(* startComicVineSync, SeedFromLibrary. *)
Start ==
    /\ sync.at = "idle"
    /\ volumes' = Ensured
    /\ sync' = [Idle EXCEPT !.at = "choose"]
    /\ UNCHANGED <<remote, cached, scraping, revisions, stable, torn>>

(* The next pending volume; those with the most books come first, here any.
   When all have been tried, what is pending is asked for again, until
   nothing is. *)
Choose ==
    /\ sync.at = "choose"
    /\ IF sync.queue = {}
       THEN sync' = [Idle EXCEPT !.at = IF Pending = {} THEN "done" ELSE "choose", !.queue = Pending]
       ELSE \E v \in sync.queue :
              sync' = [at |-> CASE volumes[v].status # "synced" -> "volume"
                                [] volumes[v].status = "synced" /\ ~volumes[v].issuesSynced -> "issues"
                                [] OTHER -> "choose",
                       queue |-> sync.queue \ {v}, volume |-> v, read |-> volumes[v], all |-> <<>>]
    /\ UNCHANGED <<remote, volumes, cached, scraping, revisions, stable, torn>>

(* markStatus. *)
Marked(v, status) == [volumes EXCEPT ![v].status = status]

(* A request that fails; what the circuit breaker holds back leaves no mark. *)
Fail ==
    /\ sync.at \in {"volume", "issues"}
    /\ volumes' \in {volumes, Marked(sync.volume, "failed")}
    /\ sync' = [sync EXCEPT !.at = "choose"]
    /\ UNCHANGED <<remote, cached, scraping, revisions, stable, torn>>

(* syncVolume, FetchVolume: what it brings says nothing of the issues. *)
FetchVolume ==
    LET v == sync.volume IN
    /\ sync.at = "volume"
    /\ IF remote[v] = Absent
       THEN volumes' = Marked(v, "missing") /\ sync' = [sync EXCEPT !.at = "choose"]
       ELSE /\ volumes' = [volumes EXCEPT ![v] = [status |-> "synced", issuesSynced |-> FALSE]]
            /\ sync' = [sync EXCEPT !.at = IF sync.read.issuesSynced THEN "choose" ELSE "issues"]
    /\ UNCHANGED <<remote, cached, scraping, revisions, stable, torn>>

(* syncVolume, FetchVolumeIssues: one page. *)
FetchPage ==
    LET v == sync.volume
        all == sync.all \o Page(v, sync.all)
    IN  /\ sync.at = "issues"
        /\ stable' = IF sync.all = <<>> THEN [stable EXCEPT ![v] = ToSet(Listed(v))] ELSE stable
        /\ torn' = IF sync.all = <<>> THEN torn \ {v} ELSE torn
        /\ sync' = [sync EXCEPT !.all = all, !.at = IF LastPage(v, all) THEN "store" ELSE "issues"]
        /\ UNCHANGED <<remote, volumes, cached, scraping, revisions>>

(* syncVolume: the issues are stored in a transaction of their own. *)
Store ==
    /\ sync.at = "store"
    /\ cached' = Upserted(sync.volume, sync.all)
    /\ sync' = [sync EXCEPT !.at = "mark"]
    /\ UNCHANGED <<remote, volumes, scraping, revisions, stable, torn>>

(* syncVolume: then the volume says so. *)
MarkSynced ==
    /\ sync.at = "mark"
    /\ volumes' = [volumes EXCEPT ![sync.volume].issuesSynced = TRUE]
    /\ sync' = [sync EXCEPT !.at = "choose"]
    /\ UNCHANGED <<remote, cached, scraping, revisions, stable, torn>>

(* The server stops, or is killed, and starts again. *)
Restart == sync # Idle /\ sync' = Idle /\ scraping' = None /\ UNCHANGED <<remote, volumes, cached, revisions, stable, torn>>

(*************************** The scraper ************************************)

(* volumeIssues: an issue list that is cached, complete or not, is used as it is. *)
Scrape(v) ==
    /\ scraping = None /\ \A i \in Issue : cached[i] # v
    /\ scraping' = [volume |-> v, all |-> <<>>]
    /\ UNCHANGED <<remote, volumes, cached, sync, revisions, stable, torn>>

(* volumeIssues: one page, and after the last the list is cached; without a row
   of the volume the foreign key refuses it, and that is only logged. *)
ScrapePage ==
    /\ scraping # None
    /\ LET v == scraping.volume
           all == scraping.all \o Page(v, scraping.all)
       IN  IF LastPage(v, all)
           THEN /\ cached' \in {cached} \union (IF volumes[v] # Absent THEN {Upserted(v, all)} ELSE {})
                /\ scraping' = None
           ELSE scraping' = [scraping EXCEPT !.all = all] /\ UNCHANGED cached
    /\ UNCHANGED <<remote, volumes, sync, revisions, stable, torn>>

ScrapeFails == scraping # None /\ scraping' = None /\ UNCHANGED <<remote, volumes, cached, sync, revisions, stable, torn>>

Next ==
    \/ Change \/ Start \/ Choose \/ Fail \/ FetchVolume \/ FetchPage \/ Store \/ MarkSynced \/ Restart
    \/ \E v \in Volume : Scrape(v)
    \/ ScrapePage \/ ScrapeFails

(*************************** Properties *************************************)

(* A volume whose issues are said to be synced has all of them: every issue
   that ComicVine listed when its list was asked for is cached under it,
   whatever failed, came in between or crashed on the way, unless ComicVine
   took an issue out between two pages, which shifts the later ones. *)
SyncedIsComplete ==
    \A v \in Volume : volumes[v] # Absent /\ volumes[v].issuesSynced /\ v \notin torn =>
        \A i \in stable[v] : cached[i] = v
=============================================================================
