------------------------------ MODULE Scraping ------------------------------
(***************************************************************************)
(* Matching books with ComicVine (internal/comicvine: scraper, match,      *)
(* recheck, cache; internal/api: scrape, cvmatch, localrecheck,            *)
(* localidentity): one scrape job at a time, the daily re-check of books   *)
(* with a local identity, and a person who answers what they ask in Scrape *)
(* Review, all on the one table of results.                                *)
(*                                                                         *)
(* Which volume is found, and how well it fits, is any outcome; a request  *)
(* to ComicVine fails at any time.  Scraping writes the whole book, of     *)
(* which what decides about a review is kept here.                         *)
(***************************************************************************)
EXTENDS Naturals, FiniteSets, FiniteSetsExt

CONSTANTS
    Book,
    MaxJobs,        \* bound: how many scrape jobs are started
    MaxPasses,      \* bound: how many re-checks are started
    Recheck,        \* RecheckJobID
    None

ScrapingAssumption == MaxJobs \in Nat /\ MaxPasses \in Nat /\ Recheck \notin 1 .. MaxJobs

VARIABLES
    book,       \* Book -> [tagged, identity, noMatch]
    rows,       \* scrape_job_books: job -> book -> the status of its row, or "none"
    tidying,    \* the rows that were written, whose writer has yet to delete the older reviews
    jobs,       \* how many jobs were started; the last is the current one
    job,        \* [todo, found]: the books of the job that runs, or None
    outcome,    \* localid_recheck
    pass,       \* [todo, row]: the books of the re-check that runs, or None
    passes,
    request,    \* an accept or a match by link that waits for ComicVine: [book, job], or None
    settled     \* ghost: the books whose review was answered while nothing else worked on them

vars == <<book, rows, tidying, jobs, job, outcome, pass, passes, request, settled>>

Job == 1 .. MaxJobs \union {Recheck}
(* A skipped book counts as failed here: either may be tried again. *)
Result == {"scraped", "failed", "deadEnd", "pending"}
(* localid_recheck; the books of a job or a re-check, and where it is. *)
Outcome == {"none", "checked", "suggested", "dismissed"}
Running == [todo : SUBSET Book, found : Result \union {None}]
Rechecking == [todo : SUBSET Book, row : Book \union {None}]
Answering == [book : Book, job : Job \union {None}]
Fields == [tagged : BOOLEAN, identity : BOOLEAN, noMatch : BOOLEAN]

TypeOK ==
    /\ book \in [Book -> Fields]
    /\ rows \in [Job -> [Book -> Result \union {"none"}]]
    /\ tidying \subseteq Job \X Book
    /\ jobs \in 0 .. MaxJobs /\ passes \in 0 .. MaxPasses
    /\ job \in Running \union {None} /\ pass \in Rechecking \union {None}
    /\ outcome \in [Book -> Outcome]
    /\ request \in Answering \union {None}
    /\ settled \subseteq Book

Init ==
    /\ book = [b \in Book |-> [tagged |-> FALSE, identity |-> FALSE, noMatch |-> FALSE]]
    /\ rows = [j \in Job |-> [b \in Book |-> "none"]] /\ tidying = {}
    /\ jobs = 0 /\ job = None
    /\ outcome = [b \in Book |-> "none"] /\ pass = None /\ passes = 0
    /\ request = None /\ settled = {}

(*************************** Results ****************************************)

PendingJobs(b) == {j \in Job : rows[j][b] = "pending"}

(* GetPendingReviewBooks, PendingReviewJobID: the newest job is asked for; the
   re-check has no start, and comes last. *)
Newest(js) == IF js \ {Recheck} = {} THEN Recheck ELSE Max(js \ {Recheck})

(* handleScrapeReviewList: a book with a local identity is asked about by the
   re-check only, a book without by scrape jobs only. *)
Shown(b) ==
    /\ PendingJobs(b) # {} /\ ~book[b].noMatch
    /\ book[b].identity <=> Newest(PendingJobs(b)) = Recheck

(* UpsertScrapeJobBook, its first statement. *)
Write(j, b, result) ==
    /\ rows' = [rows EXCEPT ![j][b] = result]
    /\ tidying' = IF result \in {"pending", "scraped"} THEN tidying \union {<<j, b>>} ELSE tidying

(* UpsertScrapeJobBook, its second: the reviews of the book in other jobs go. *)
Tidy(j, b) ==
    /\ <<j, b>> \in tidying /\ tidying' = tidying \ {<<j, b>>}
    /\ rows' = [k \in Job |-> IF k # j /\ rows[k][b] = "pending" THEN [rows[k] EXCEPT ![b] = "none"] ELSE rows[k]]
    /\ UNCHANGED <<book, jobs, job, outcome, pass, passes, request, settled>>

Writing(j) == \E b \in Book : <<j, b>> \in tidying

(* ApplyMetadata: the tags come, the local identity and the no-match mark go. *)
Matched(b) == [book EXCEPT ![b] = [tagged |-> TRUE, identity |-> FALSE, noMatch |-> FALSE]]

(*************************** Scrape jobs ************************************)

(* LatestScrapeResults, HeldBackReason: the newest job that has a result. *)
HeldBack(b) ==
    LET has == {j \in 1 .. jobs : rows[j][b] # "none"}
    IN  has # {} /\ rows[Max(has)][b] \in {"pending", "deadEnd"}

(* selectScrapeBooks, filterHeldBack: the books that were asked for, or those
   without tags that a retry may help. *)
Untagged == {b \in Book : ~book[b].tagged}
Selected(ids) ==
    IF ids # {} THEN ids ELSE {b \in Untagged : ~book[b].noMatch /\ ~book[b].identity /\ ~HeldBack(b)}

(* handleScrapeStart, Scrape. *)
StartJob(ids) ==
    /\ job = None /\ jobs < MaxJobs /\ Selected(ids) # {}
    /\ jobs' = jobs + 1
    /\ job' = [todo |-> Selected(ids), found |-> None]
    /\ settled' = settled \ Selected(ids)
    /\ UNCHANGED <<book, rows, tidying, outcome, pass, passes, request>>

(* scrapeOneBook: what it finds of one book, written to the library when it is
   sure. *)
ScrapeOne(b, result) ==
    /\ job # None /\ job.found = None /\ b \in job.todo /\ ~Writing(jobs)
    /\ \A c \in Book : rows[jobs][c] = "none" \/ c # b
    /\ book' = IF result = "scraped" THEN Matched(b) ELSE book
    /\ job' = [todo |-> job.todo, found |-> result]
    /\ UNCHANGED <<rows, tidying, jobs, outcome, pass, passes, request, settled>>

(* recordResult. *)
Record(b) ==
    /\ job # None /\ job.found # None /\ b \in job.todo
    /\ Write(jobs, b, job.found)
    /\ job' = [todo |-> job.todo \ {b}, found |-> None]
    /\ UNCHANGED <<book, jobs, outcome, pass, passes, request, settled>>

(* The job is through, or was cancelled. *)
EndJob ==
    /\ job # None /\ job.found = None /\ ~Writing(jobs)
    /\ job' = None
    /\ UNCHANGED <<book, rows, tidying, jobs, outcome, pass, passes, request, settled>>

(*************************** Re-check ***************************************)

(* Fault: a dismissed book is searched for again. *)
EligibleAgain(b) == book[b].identity /\ outcome[b] \in {"none", "checked", "dismissed"}

(* RecheckLocalIdentity: a check without a result is due again after a while. *)
Eligible(b) == book[b].identity /\ outcome[b] \in {"none", "checked"}

(* localRecheckPass. *)
StartPass ==
    /\ pass = None /\ job = None /\ passes < MaxPasses
    /\ passes' = passes + 1
    /\ pass' = [todo |-> {b \in Book : Eligible(b)}, row |-> None]
    /\ UNCHANGED <<book, rows, tidying, jobs, job, outcome, request, settled>>

(* A search that found nothing convincing. *)
Unfound(b) ==
    /\ pass # None /\ pass.row = None /\ b \in pass.todo
    /\ outcome' = [outcome EXCEPT ![b] = "checked"]
    /\ pass' = [pass EXCEPT !.todo = @ \ {b}]
    /\ UNCHANGED <<book, rows, tidying, jobs, job, passes, request, settled>>

(* A search that found a volume: the review first, then the outcome. *)
Suggest(b) ==
    /\ pass # None /\ pass.row = None /\ b \in pass.todo
    /\ Write(Recheck, b, "pending")
    /\ pass' = [todo |-> pass.todo \ {b}, row |-> b]
    /\ UNCHANGED <<book, jobs, job, outcome, passes, request, settled>>

Remember ==
    /\ pass # None /\ pass.row # None /\ ~Writing(Recheck)
    /\ outcome' = [outcome EXCEPT ![pass.row] = "suggested"]
    /\ pass' = [pass EXCEPT !.row = None]
    /\ UNCHANGED <<book, rows, tidying, jobs, job, passes, request, settled>>

(* No search is left, or one failed. *)
EndPass ==
    /\ pass # None /\ pass.row = None
    /\ pass' = None
    /\ UNCHANGED <<book, rows, tidying, jobs, job, outcome, passes, request, settled>>

(*************************** A person ***************************************)

(* A job or a re-check that is about to look at the book, or still writes what
   it found. *)
AtWork(b) ==
    \/ job # None /\ b \in job.todo
    \/ pass # None /\ b \in pass.todo
    \/ \E j \in Job : <<j, b>> \in tidying
Settle(b) == settled' = IF AtWork(b) THEN settled ELSE settled \union {b}

(* AcceptReview: the review is that of the current job, or else the newest; then
   it asks ComicVine. *)
Accept(b) ==
    /\ request = None /\ Shown(b)
    /\ request' = [book |-> b, job |-> IF jobs > 0 /\ rows[jobs][b] = "pending" THEN jobs ELSE Newest(PendingJobs(b))]
    /\ UNCHANGED <<book, rows, tidying, jobs, job, outcome, pass, passes, settled>>

(* The end of AcceptReview: an error in the result is one that an answer of
   ComicVine gave. *)
FinishAccept(result) ==
    /\ request # None /\ request.job # None
    /\ LET b == request.book IN
       /\ book' = IF result = "scraped" THEN Matched(b) ELSE book
       /\ Write(request.job, b, result)
       /\ IF result = "scraped" THEN Settle(b) ELSE UNCHANGED settled
    /\ request' = None
    /\ UNCHANGED <<jobs, job, outcome, pass, passes>>

(* handleCVMatch, ApplyIssue. *)
Match(b) ==
    /\ request = None /\ request' = [book |-> b, job |-> None]
    /\ UNCHANGED <<book, rows, tidying, jobs, job, outcome, pass, passes, settled>>

(* The end of ApplyIssue, ResolvePendingReview: every review of the book. *)
FinishMatch ==
    /\ request # None /\ request.job = None
    /\ LET b == request.book IN
       /\ book' = Matched(b)
       /\ rows' = [j \in Job |-> IF rows[j][b] = "pending" THEN [rows[j] EXCEPT ![b] = "scraped"] ELSE rows[j]]
       /\ Settle(b)
    /\ request' = None
    /\ UNCHANGED <<tidying, jobs, job, outcome, pass, passes>>

(* ComicVine did not answer. *)
FailRequest ==
    /\ request # None /\ request' = None
    /\ UNCHANGED <<book, rows, tidying, jobs, job, outcome, pass, passes, settled>>

(* DismissRecheck, for a suggestion that is shown. *)
Dismiss(b) ==
    /\ Shown(b) /\ book[b].identity
    /\ outcome' = [outcome EXCEPT ![b] = "dismissed"]
    /\ rows' = [rows EXCEPT ![Recheck][b] = "none"]
    /\ Settle(b)
    /\ UNCHANGED <<book, tidying, jobs, job, pass, passes, request>>

(* handleLocalIdentity: only a book without a ComicVine volume gets one, and it
   takes the place of a no-match mark. *)
SetIdentity(b, is) ==
    /\ is => ~book[b].tagged
    /\ book[b].identity # is
    /\ book' = [book EXCEPT ![b].identity = is, ![b].noMatch = @ /\ ~is]
    /\ settled' = settled \ {b}
    /\ UNCHANGED <<rows, tidying, jobs, job, outcome, pass, passes, request>>

(* SetNoCVMatch, ClearNoCVMatch. *)
SetNoMatch(b, is) ==
    /\ book[b].noMatch # is
    /\ book' = [book EXCEPT ![b].noMatch = is]
    /\ UNCHANGED <<rows, tidying, jobs, job, outcome, pass, passes, request, settled>>

(* What was written stays; the reviews that were about to be deleted do, too. *)
Restart ==
    /\ <<job, pass, request>> # <<None, None, None>> \/ tidying # {}
    /\ job' = None /\ pass' = None /\ request' = None /\ tidying' = {}
    /\ settled' = {b \in settled : \A j \in Job : <<j, b>> \notin tidying}
    /\ UNCHANGED <<book, rows, jobs, outcome, passes>>

Next ==
    \/ \E ids \in SUBSET Book : StartJob(ids)
    \/ \E b \in Book :
          \/ \E result \in Result : ScrapeOne(b, result)
          \/ Record(b) \/ Unfound(b) \/ Suggest(b)
          \/ Accept(b) \/ Match(b) \/ Dismiss(b)
          \/ \E is \in BOOLEAN : SetIdentity(b, is) \/ SetNoMatch(b, is)
          \/ \E j \in Job : Tidy(j, b)
    \/ EndJob \/ StartPass \/ Remember \/ EndPass
    \/ \E result \in {"scraped", "failed", "deadEnd"} : FinishAccept(result)
    \/ FinishMatch \/ FailRequest \/ Restart

(*************************** Properties *************************************)

(* What a person has settled is not asked again: a book whose review was
   accepted, that was matched by a link, or whose suggestion was dismissed,
   while no job and no re-check was about to look at it, does not come back to
   Scrape Review before a later job takes it, once its older reviews are
   deleted, unless the server stopped just before it deleted them. *)
SettledStaysSettled == \A b \in settled : Shown(b) => \E j \in Job : <<j, b>> \in tidying
=============================================================================
