------------------------------ MODULE Services ------------------------------
(***************************************************************************)
(* The parts of the server that share no state with the synchronisation    *)
(* and with each other: part says which of them moves in a behaviour, and  *)
(* the others keep their initial state, so that one run checks the sum of  *)
(* their states.                                                           *)
(***************************************************************************)
EXTENDS Naturals

CONSTANTS
    None,
    \* Lists
    Folder, Manual, Local, Book, Rules, LibraryFile, FileLists, FileBooks, Root, Gone, NoHash, MaxChanges,
    \* SmartLists
    Title, Facts, LowerCase, AsciiLower, Code, Split, SmartList, BaseList, NoBase, Cold, NoValue,
    \* ComicVineLimits
    Caller, Background, BurstSize, WindowSize, BurstReserve, WindowReserve, HourlyCap,
    BurstPause, WindowPause, Hour, MinBackoff, MaxBackoff, MaxClock,
    \* VolumeSync
    Volume, Issue, Tagged, Home, Listing, PageSize, Absent, MaxRevisions,
    \* Scraping
    Scraped, MaxJobs, MaxPasses, Recheck,
    \* RuleTree
    RuleGroup, Ruleset, Rule, RuleFile, MaxImports, MaxEdits,
    \* Workflow
    Comic, Writer, InitialRecord, Lockable, RulesetList, EditForm, Detected, SeriesFound, Skip, Custom, Refers, Yes, No,
    IssueCount, Annual, Limited, Series, Marks, PageType, Elsewhere, MaxRequests, MaxTogether

VARIABLES
    part,
    row, live, editing, placing, count, view, importing, changes, calm, doubtful,
    books, base, cache,
    clock, pacer, circuit, stored, call,
    remote, volumes, cached, sync, scraping, revisions, stable, torn,
    book, rows, tidying, jobs, job, outcome, pass, passes, request, settled,
    group, ruleset, rules, updating, imports, edits,
    record, saving, audit, started, first, unexplained, strayed

listVars == <<row, live, editing, placing, count, view, importing, changes, calm, doubtful>>
smartListVars == <<books, base, cache>>
limitVars == <<clock, pacer, circuit, stored, call>>
volumeVars == <<remote, volumes, cached, sync, scraping, revisions, stable, torn>>
scrapingVars == <<book, rows, tidying, jobs, job, outcome, pass, passes, request, settled>>
ruleVars == <<group, ruleset, rules, updating, imports, edits>>
workflowVars == <<record, saving, audit, started, first, unexplained, strayed>>
vars == <<part, listVars, smartListVars, limitVars, volumeVars, scrapingVars, ruleVars, workflowVars>>

L == INSTANCE Lists
E == INSTANCE SmartLists WITH List <- SmartList
C == INSTANCE ComicVineLimits
V == INSTANCE VolumeSync
S == INSTANCE Scraping WITH Book <- Scraped
R == INSTANCE RuleTree WITH Group <- RuleGroup
W == INSTANCE Workflow WITH Book <- Comic

(* What the parts assume of their constants. *)
ASSUME ServicesAssumption ==
    /\ C!LimitAssumption
    /\ L!ListAssumption
    /\ L!FileAssumption
    /\ E!SmartListAssumption
    /\ R!RuleFileAssumption
    /\ S!ScrapingAssumption
    /\ V!VolumeAssumption
    /\ W!WorkflowAssumption

Init ==
    /\ part \in {"lists", "smart lists", "limits", "volumes", "scraping", "rules", "workflow"}
    /\ L!Init /\ E!Init /\ C!Init /\ V!Init /\ S!Init /\ R!Init /\ W!Init

Next ==
    /\ part' = part
    /\ IF part = "lists" THEN L!Next ELSE UNCHANGED listVars
    /\ IF part = "smart lists" THEN E!Next ELSE UNCHANGED smartListVars
    /\ IF part = "limits" THEN C!Next ELSE UNCHANGED limitVars
    /\ IF part = "volumes" THEN V!Next ELSE UNCHANGED volumeVars
    /\ IF part = "scraping" THEN S!Next ELSE UNCHANGED scrapingVars
    /\ IF part = "rules" THEN R!Next ELSE UNCHANGED ruleVars
    /\ IF part = "workflow" THEN W!Next ELSE UNCHANGED workflowVars

Spec == Init /\ [][Next]_vars

(* The part that moves is well typed, whatever its requests do to it. *)
TypeOK ==
    CASE part = "lists" -> L!TypeOK
      [] part = "smart lists" -> E!TypeOK
      [] part = "limits" -> C!TypeOK
      [] part = "volumes" -> V!TypeOK
      [] part = "scraping" -> S!TypeOK
      [] part = "rules" -> R!TypeOK
      [] part = "workflow" -> W!TypeOK

(* The properties of the parts; each is stated and explained in its module. *)
HashDescribesRow == part = "lists" => L!HashDescribesRow
ListsStayVisible == part = "lists" => L!ListsStayVisible
FreshCountsTrue == part = "lists" => L!FreshCountsTrue
FastPathAgrees == part = "smart lists" => E!FastPathAgrees
OvershootBounded == part = "limits" => C!OvershootBounded
RestartKeepsPauses == part = "limits" => C!RestartKeepsPauses
SyncedIsComplete == part = "volumes" => V!SyncedIsComplete
SettledStaysSettled == part = "scraping" => S!SettledStaysSettled
SelectedAsWhole == part = "workflow" => W!SelectedAsWhole
AuditExplains == part = "workflow" => W!AuditExplains
FiledWhereItSays == part = "workflow" => W!FiledWhereItSays
ImportKeepsManual == [][R!KeepsManual]_vars
=============================================================================
