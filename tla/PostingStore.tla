---------------------------- MODULE PostingStore ----------------------------
(***************************************************************************)
(* The Job Board half of the platform database (backend/db.py): the        *)
(* JobPosting, AlertRun and WatchedCompany tables, and one operator per    *)
(* function that writes them.  Each function runs in one transaction (or   *)
(* in the number of transactions the operator's comment says), so each     *)
(* operator is one atomic update of the tables.  The agent's components    *)
(* (AlertSend, MonitorCycle) and the UI reach the tables only through      *)
(* these operators.                                                        *)
(*                                                                         *)
(* A posting is the pair (watchedCompanyId, dedupKey) of the unique index: *)
(* one element of Postings, with the company it belongs to in BoardOf.     *)
(* Timestamps are ticks of a discrete clock; 0 stands for SQL NULL.        *)
(***************************************************************************)
EXTENDS Integers

CONSTANTS Companies,    \* ids of watched companies
          Postings,     \* (company, dedup key) pairs
          BoardOf,      \* [Postings -> Companies]
          Years,        \* [Postings -> Nat \cup {Unstated}]: minYears
          Unstated,     \* minYears IS NULL
          PostedAt,     \* [Postings -> Nat \cup {Undated}]: postedAt
          Undated,      \* postedAt IS NULL
          Runs,         \* ids of AlertRun rows (a bound on alert attempts)
          NoRun,        \* alertRunId IS NULL
          MaxClock      \* bound on the clock

ASSUME StoreAssumption ==
    /\ BoardOf \in [Postings -> Companies]
    /\ Unstated \notin Nat /\ Years \in [Postings -> Nat \cup {Unstated}]
    /\ Undated \notin Nat /\ PostedAt \in [Postings -> Nat \cup {Undated}]
    /\ NoRun \notin Runs
    /\ MaxClock \in Nat \ {0}

VARIABLES now,         \* CURRENT_TIMESTAMP
          watched,     \* WatchedCompany rows that exist
          seeded,      \* companies whose seededAt is not NULL
          stored,      \* JobPosting rows that exist
          isNew,       \* rows with isNew = true
          archived,    \* rows with archivedAt not NULL
          tracked,     \* rows with jobApplicationId not NULL
          firstSeen,   \* firstSeenAt of each row
          stamp,       \* alertRunId of each row
          runStatus,   \* status of each AlertRun row, "none" before it exists
          finishedAt   \* finishedAt of each AlertRun row

postingVars == <<stored, isNew, archived, tracked, firstSeen, stamp>>
companyVars == <<watched, seeded>>
runVars == <<runStatus, finishedAt>>
storeVars == <<now, companyVars, postingVars, runVars>>

RunStatus == {"none", "pending", "sent", "skipped", "failed"}
Time == 0..MaxClock

StoreTypeOK ==
    /\ now \in 1..MaxClock
    /\ watched \subseteq Companies
    /\ seeded \subseteq watched
    /\ stored \subseteq Postings
    /\ isNew \subseteq stored
    /\ archived \subseteq stored
    /\ tracked \subseteq stored
    /\ firstSeen \in [Postings -> Time]
    /\ stamp \in [Postings -> Runs \cup {NoRun}]
    /\ runStatus \in [Runs -> RunStatus]
    /\ finishedAt \in [Runs -> Time]

\* A fresh install: no rows but the watched companies, none of them seeded.
StoreInit ==
    /\ now = 1
    /\ watched = Companies
    /\ seeded = {}
    /\ stored = {}
    /\ isNew = {}
    /\ archived = {}
    /\ tracked = {}
    /\ firstSeen = [p \in Postings |-> 0]
    /\ stamp = [p \in Postings |-> NoRun]
    /\ runStatus = [r \in Runs |-> "none"]
    /\ finishedAt = [r \in Runs |-> 0]

Tick == now < MaxClock /\ now' = now + 1 /\ UNCHANGED <<companyVars, postingVars, runVars>>

RowsOf(c) == {p \in stored : BoardOf[p] = c}

-----------------------------------------------------------------------------
(* JobPosting writes.  None of them touches the clock, the companies or    *)
(* the alert runs; the caller says so.                                     *)

\* Mutant: the insert ignores the caller's is_new.
UpsertAllAsNews(ps, new, t) ==
    LET created == ps \ stored IN
    /\ stored' = stored \cup created
    /\ isNew' = isNew \cup created
    /\ archived' = archived \ ps
    /\ firstSeen' = [p \in Postings |-> IF p \in created THEN t ELSE firstSeen[p]]
    /\ stamp' = [p \in Postings |-> IF p \in created THEN NoRun ELSE stamp[p]]
    /\ UNCHANGED tracked

\* Mutant: the conflict clause also refreshes isNew and clears alertRunId.
UpsertRefreshesAll(ps, new, t) ==
    LET created == ps \ stored IN
    /\ stored' = stored \cup created
    /\ isNew' = IF new THEN isNew \cup ps ELSE isNew
    /\ archived' = archived \ ps
    /\ firstSeen' = [p \in Postings |-> IF p \in created THEN t ELSE firstSeen[p]]
    /\ stamp' = [p \in Postings |-> IF p \in ps THEN NoRun ELSE stamp[p]]
    /\ UNCHANGED tracked

\* upsert_job_postings: one transaction.  A conflict refreshes the display
\* columns and clears archivedAt, and never touches isNew, firstSeenAt or
\* alertRunId.  t is the CURRENT_TIMESTAMP of the transaction, its start.
UpsertPostings(ps, new, t) ==
    LET created == ps \ stored IN
    /\ stored' = stored \cup created
    /\ isNew' = IF new THEN isNew \cup created ELSE isNew
    /\ archived' = archived \ ps
    /\ firstSeen' = [p \in Postings |-> IF p \in created THEN t ELSE firstSeen[p]]
    /\ stamp' = [p \in Postings |-> IF p \in created THEN NoRun ELSE stamp[p]]
    /\ UNCHANGED tracked

\* Mutant: an empty key list is taken at its word.
MissingOfEmpty(c, keys) == RowsOf(c) \ keys

\* archive_missing_postings: an empty key list archives nothing.
Missing(c, keys) == IF keys = {} THEN {} ELSE RowsOf(c) \ keys

ArchivePostings(ps) ==
    /\ archived' = archived \cup ps
    /\ UNCHANGED <<stored, isNew, tracked, firstSeen, stamp>>

RestorePostings(ps) ==
    /\ archived' = archived \ ps
    /\ UNCHANGED <<stored, isNew, tracked, firstSeen, stamp>>

\* COALESCE(postedAt, firstSeenAt)
AgeBase(p) == IF PostedAt[p] = Undated THEN firstSeen[p] ELSE PostedAt[p]

\* Mutant: the sweep forgets to exempt tracked rows.
StaleTracked(window) == {p \in stored : AgeBase(p) < now - window}

\* archive_stale_postings: rows older than the window; tracked rows exempt.
Stale(window) == {p \in stored \ tracked : AgeBase(p) < now - window}

\* archive_over_experience: rows that state more years; tracked rows exempt.
OverExperience(ceiling) ==
    {p \in stored \ tracked : Years[p] # Unstated /\ Years[p] > ceiling}

\* restore_within_experience: any archived row that states few enough years
\* and is inside the retention window, whatever archived it.
WithinExperience(ceiling, window) ==
    {p \in archived : /\ Years[p] # Unstated /\ Years[p] <= ceiling
                      /\ AgeBase(p) > now - window}

\* dismissPostings (UI): isNew := false.
DismissPostings(ps) ==
    /\ isNew' = isNew \ ps
    /\ UNCHANGED <<stored, archived, tracked, firstSeen, stamp>>

\* link_posting_to_application, and the link half of the UI's trackPosting.
LinkPosting(p) ==
    /\ p \in stored
    /\ tracked' = tracked \cup {p}
    /\ UNCHANGED <<stored, isNew, archived, firstSeen, stamp>>

\* delete_job_application: ON DELETE SET NULL releases its posting.
UnlinkPosting(p) ==
    /\ p \in tracked
    /\ tracked' = tracked \ {p}
    /\ UNCHANGED <<stored, isNew, archived, firstSeen, stamp>>

\* deleteWatchedCompany (UI): ON DELETE CASCADE removes the board's postings.
DeleteCompany(c) ==
    LET gone == RowsOf(c) IN
    /\ c \in watched
    /\ watched' = watched \ {c}
    /\ seeded' = seeded \ {c}
    /\ stored' = stored \ gone
    /\ isNew' = isNew \ gone
    /\ archived' = archived \ gone
    /\ tracked' = tracked \ gone
    /\ UNCHANGED <<firstSeen, stamp>>

-----------------------------------------------------------------------------
(* AlertRun.                                                               *)

\* Mutant: any closed run moves the watermark.
IsWatermarkOfClosed(t) ==
    LET closed == {r \in Runs : runStatus[r] \in {"sent", "skipped", "failed"}} IN
    /\ \A r \in closed : finishedAt[r] <= t
    /\ IF closed = {} THEN t = 0 ELSE \E r \in closed : finishedAt[r] = t

\* last_sent_alert_at: finishedAt of the latest sent run, 0 before the first.
IsWatermark(t) ==
    LET sent == {r \in Runs : runStatus[r] = "sent"} IN
    /\ \A r \in sent : finishedAt[r] <= t
    /\ IF sent = {} THEN t = 0 ELSE \E r \in sent : finishedAt[r] = t

\* Mutant: the query of the UI's news feed.
UnalertedFeed(mark) == isNew \ archived

\* list_unalerted_postings: three conditions on the row, and the watermark.
Eligible == {p \in isNew \ archived : stamp[p] = NoRun}
Unalerted(mark) == {p \in Eligible : firstSeen[p] > mark}

\* create_alert_run: a row of status 'pending'.
CreateAlertRun(r) ==
    /\ runStatus[r] = "none"
    /\ runStatus' = [runStatus EXCEPT ![r] = "pending"]
    /\ UNCHANGED <<finishedAt, postingVars>>

\* Mutant: archived rows are left unstamped.
CloseStampsLive(r, status, ids) ==
    /\ runStatus' = [runStatus EXCEPT ![r] = status]
    /\ finishedAt' = [finishedAt EXCEPT ![r] = now]
    /\ stamp' = [p \in Postings |->
                    IF p \in (ids \cap stored) \ archived /\ stamp[p] = NoRun
                    THEN r ELSE stamp[p]]
    /\ UNCHANGED <<stored, isNew, archived, tracked, firstSeen>>

\* close_alert_run: status, finishedAt and the stamps, in one transaction.
CloseAlertRun(r, status, ids) ==
    /\ runStatus' = [runStatus EXCEPT ![r] = status]
    /\ finishedAt' = [finishedAt EXCEPT ![r] = now]
    /\ stamp' = [p \in Postings |->
                    IF p \in ids \cap stored /\ stamp[p] = NoRun THEN r ELSE stamp[p]]
    /\ UNCHANGED <<stored, isNew, archived, tracked, firstSeen>>

=============================================================================
