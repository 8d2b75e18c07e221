---------------------------- MODULE MonitorCycle ----------------------------
(***************************************************************************)
(* The monitor (agent_server/jobboard/monitor.py): run_monitor_cycle as a  *)
(* process that lists the companies, reads the settings, passes over each  *)
(* board (fetch, filter, upsert in chunks, archive what is missing, stamp  *)
(* the company) and ends with the retention and the experience sweep, one  *)
(* platform call per step.  Cycles are the jobs that may run it: the cron  *)
(* job, the startup job and the manual trigger, none of which excludes     *)
(* another.  Around them the boards change and the user edits settings     *)
(* (frontend/src/app/job-board/actions.ts) through the same tables.        *)
(*                                                                         *)
(* A platform call succeeds, fails, or takes effect and then reports a     *)
(* failure because its reply was lost.                                     *)
(***************************************************************************)
EXTENDS PostingStore, FiniteSets

CONSTANTS Cycles,         \* jobs that run run_monitor_cycle
          NoCompany,      \* no company in hand
          Country,        \* [Postings -> Codes \cup {Unknown}]
          Unknown,        \* country IS NULL
          OwnCountries,   \* [Companies -> set of codes]: countryFilter, {} when unset
          Ceilings,       \* values the user may give maxYears, 0 for no limit
          CountryLists,   \* values the user may give the country list, {} for anywhere
          Windows,        \* values the user may give the retention window
          RoleSets,       \* sets of postings a choice of role filters may match
          TodayOnly,      \* CONFIG.jobboard_today_only
          Day,            \* length of a day
          Chunk,          \* UPSERT_CHUNK
          ArchiveCap,     \* max_length of live_dedup_keys
          DefaultWindow   \* DEFAULT_RETENTION_WEEKS

ASSUME CycleAssumption ==
    /\ NoCompany \notin Companies
    /\ Ceilings \subseteq Nat /\ Ceilings # {}
    /\ Windows \subseteq Nat \ {0} /\ Windows # {}
    /\ DefaultWindow \in Nat \ {0}
    /\ RoleSets \subseteq SUBSET Postings /\ RoleSets # {}
    /\ CountryLists # {}
    /\ TodayOnly \in BOOLEAN
    /\ Day \in Nat \ {0} /\ Chunk \in Nat \ {0} /\ ArchiveCap \in Nat

VARIABLES board,      \* postings now on their career pages
          active,     \* companies with active = true
          lastStatus, \* lastStatus of each company
          setting,    \* the scrape-wide settings and the role filters
          ui,         \* which sweep of a settings change the user's request has left
          cyc,        \* the local state of each cycle
          appeared,   \* history: postings that have been on their board
          late,       \* history: postings that first appeared after their company's seeding
          backlog,    \* history: postings a company's first seeding cycle matched
          cause       \* history: what last archived each posting

cycleVars == <<cyc, lastStatus>>
worldVars == <<board, active, setting, ui>>
historyVars == <<appeared, late, backlog, cause>>
vars == <<storeVars, cycleVars, worldVars, historyVars>>

Causes == {"none", "board", "age", "years", "country"}
Steps == {"idle", "list", "ceiling", "countries", "next", "upsert", "stamp",
          "failed", "retention", "experience", "restore"}

Local == [at : Steps, began : Time, todo : SUBSET Companies, unseeded : SUBSET Companies,
          wanted : SUBSET Postings, ceiling : Ceilings \cup {0},
          allowed : CountryLists \cup {{}}, company : Companies \cup {NoCompany},
          fetched : SUBSET Postings, payload : SUBSET Postings, left : SUBSET Postings,
          window : Windows \cup {DefaultWindow}]

Asleep == [at |-> "idle", began |-> 0, todo |-> {}, unseeded |-> {}, wanted |-> {},
           ceiling |-> 0, allowed |-> {}, company |-> NoCompany, fetched |-> {},
           payload |-> {}, left |-> {}, window |-> DefaultWindow]

TypeOK ==
    /\ StoreTypeOK
    /\ board \subseteq Postings
    /\ active \subseteq watched
    /\ lastStatus \in [Companies -> {"none", "ok", "error"}]
    /\ setting \in [maxYears : Ceilings, countries : CountryLists, window : Windows,
                    wanted : RoleSets]
    /\ ui \in {"idle", "overYears", "withinYears", "outsideCountries", "insideCountries"}
    /\ cyc \in [Cycles -> Local]
    /\ late \subseteq appeared /\ appeared \subseteq Postings /\ backlog \subseteq Postings
    /\ cause \in [Postings -> Causes]

Init ==
    /\ StoreInit
    /\ board \in SUBSET {p \in Postings : PostedAt[p] = Undated \/ PostedAt[p] <= 1}
    /\ active = Companies
    /\ lastStatus = [c \in Companies |-> "none"]
    /\ setting \in [maxYears : Ceilings, countries : CountryLists, window : Windows,
                    wanted : RoleSets]
    /\ ui = "idle"
    /\ cyc = [m \in Cycles |-> Asleep]
    /\ appeared = board
    /\ late = {}
    /\ backlog = {}
    /\ cause = [p \in Postings |-> "none"]

-----------------------------------------------------------------------------
(* The filters of monitor_company.                                         *)

\* _apply_day_filter: dated postings of another day go, undated ones stay.
SameDay(p, moment) == PostedAt[p] # Undated => PostedAt[p] \div Day = moment \div Day

\* _country_allowed: the company's own list wins over the global one; an
\* unparsed country is kept.
CountryAllowed(p, allowed) ==
    LET list == IF OwnCountries[BoardOf[p]] # {} THEN OwnCountries[BoardOf[p]] ELSE allowed IN
    list # {} /\ Country[p] # Unknown => Country[p] \in list

\* _experience_allowed: 0 is no limit; an unstated requirement is kept.
ExperienceAllowed(p, ceiling) ==
    ceiling # 0 /\ Years[p] # Unstated => Years[p] <= ceiling

OnBoard(c) == {p \in board : BoardOf[p] = c}

Matched(m, fetched) ==
    {p \in fetched :
        /\ TodayOnly /\ BoardOf[p] \notin cyc[m].unseeded => SameDay(p, cyc[m].began)
        /\ p \in cyc[m].wanted
        /\ CountryAllowed(p, cyc[m].allowed)
        /\ ExperienceAllowed(p, cyc[m].ceiling)}

-----------------------------------------------------------------------------
(* run_monitor_cycle.                                                      *)

At(m, step) == cyc[m].at = step
Become(m, local) == cyc' = [cyc EXCEPT ![m] = local]
Goto(m, step) == cyc' = [cyc EXCEPT ![m].at = step]
Finish(m) == Become(m, Asleep)

\* The board pass is over: what it held in hand goes.
Dropped(m, step) == [cyc[m] EXCEPT !.at = step, !.fetched = {}, !.payload = {}, !.left = {}]
Fails(m) == Become(m, Dropped(m, "failed"))
NextCompany(m) == Become(m, [Dropped(m, "next") EXCEPT !.company = NoCompany])

\* What archived the postings ps; a live posting has no cause.
Blame(ps, what) ==
    cause' = [p \in Postings |-> IF p \in ps THEN what
                                 ELSE IF p \in archived' THEN cause[p] ELSE "none"]

\* jb_db.start_run
Start(m) ==
    /\ At(m, "idle")
    /\ Goto(m, "list")
    /\ UNCHANGED <<storeVars, lastStatus, worldVars, historyVars>>

\* Mutant: a company whose last pass failed is seeded again.
ListSeedsAfterError(m) ==
    /\ At(m, "list")
    /\ IF active = {}
       THEN Finish(m)
       ELSE Become(m, [cyc[m] EXCEPT !.at = "ceiling", !.todo = active, !.began = now,
                           !.unseeded = {c \in Companies : lastStatus[c] # "ok"},
                           !.wanted = setting.wanted])
    /\ UNCHANGED <<storeVars, lastStatus, worldVars, historyVars>>

\* companies = pc.list_companies(active_only=True).  Whether a company is
\* seeded and what its role filter matches is read here, once per cycle.
ListCompanies(m) ==
    /\ At(m, "list")
    /\ IF active = {}
       THEN Finish(m)
       ELSE Become(m, [cyc[m] EXCEPT !.at = "ceiling", !.todo = active, !.began = now,
                           !.unseeded = Companies \ seeded, !.wanted = setting.wanted])
    /\ UNCHANGED <<storeVars, lastStatus, worldVars, historyVars>>

\* ceiling = pc.max_years(): 0 when the setting cannot be read
ReadCeiling(m) ==
    /\ At(m, "ceiling")
    /\ \E value \in {setting.maxYears, 0} :
          Become(m, [cyc[m] EXCEPT !.at = "countries", !.ceiling = value])
    /\ UNCHANGED <<storeVars, lastStatus, worldVars, historyVars>>

\* default_countries = pc.global_countries(): [] when it cannot be read
ReadCountries(m) ==
    /\ At(m, "countries")
    /\ \E value \in {setting.countries, {}} :
          Become(m, [cyc[m] EXCEPT !.at = "next", !.allowed = value])
    /\ UNCHANGED <<storeVars, lastStatus, worldVars, historyVars>>

\* fetch_for and the filters.  A page that comes back without postings is
\* indistinguishable from an empty board.
Fetch(m) ==
    /\ At(m, "next")
    /\ \E c \in cyc[m].todo : \E fetched \in {OnBoard(c), {}} :
          Become(m, [cyc[m] EXCEPT !.at = "upsert", !.todo = @ \ {c}, !.company = c,
                  !.fetched = fetched, !.payload = Matched(m, fetched),
                  !.left = Matched(m, fetched)])
    /\ UNCHANGED <<storeVars, lastStatus, worldVars, historyVars>>

\* AdapterError, or any other exception of an adapter
FetchFails(m) ==
    /\ At(m, "next")
    /\ \E c \in cyc[m].todo :
          Become(m, [cyc[m] EXCEPT !.at = "failed", !.todo = @ \ {c}, !.company = c])
    /\ UNCHANGED <<storeVars, lastStatus, worldVars, historyVars>>

\* pc.upsert_postings: one request and one transaction per chunk.
UpsertChunk(m) ==
    LET me == cyc[m] IN
    /\ At(m, "upsert") /\ me.left # {}
    /\ me.company \in watched
    /\ \E part \in SUBSET me.left :
          /\ Cardinality(part) = Chunk \/ (part = me.left /\ Cardinality(part) < Chunk)
          /\ UpsertPostings(part, me.company \notin me.unseeded, now)
          /\ \/ Become(m, [me EXCEPT !.left = @ \ part])
             \/ Fails(m)
    /\ Blame({}, "none")
    /\ UNCHANGED <<now, companyVars, runVars, lastStatus, worldVars, appeared, late, backlog>>

\* pc.archive_postings(company_id, live_keys), refused beyond ArchiveCap keys
ArchiveMissing(m) ==
    LET me == cyc[m]
        gone == Missing(me.company, me.payload) \ archived IN
    /\ At(m, "upsert") /\ me.left = {}
    /\ Cardinality(me.payload) <= ArchiveCap
    /\ ArchivePostings(gone)
    /\ Blame(gone, "board")
    /\ Goto(m, "stamp") \/ Fails(m)
    /\ UNCHANGED <<now, companyVars, runVars, lastStatus, worldVars, appeared, late, backlog>>

\* pc.patch_company: status ok, and seededAt on a seeding pass
StampCompany(m) ==
    LET me == cyc[m]
        seeding == {me.company} \cap me.unseeded IN
    /\ At(m, "stamp")
    /\ me.company \in watched
    /\ seeded' = seeded \cup seeding
    /\ backlog' = IF seeding \ seeded # {} THEN backlog \cup me.payload ELSE backlog
    /\ lastStatus' = [lastStatus EXCEPT ![me.company] = "ok"]
    /\ NextCompany(m) \/ Fails(m)
    /\ UNCHANGED <<now, watched, postingVars, runVars, worldVars, appeared, late, cause>>

\* A call of the board pass that failed without effect: a lost request, a
\* refusal (too many keys), or a 404 for a company deleted meanwhile.
CallFails(m) ==
    /\ At(m, "upsert") \/ At(m, "stamp")
    /\ Fails(m)
    /\ UNCHANGED <<storeVars, lastStatus, worldVars, historyVars>>

\* Mutant: a company that failed is put back on the list.
RecordAndRetry(m) ==
    /\ At(m, "failed")
    /\ Become(m, [Dropped(m, "next") EXCEPT !.todo = @ \cup {cyc[m].company},
                                          !.company = NoCompany])
    /\ UNCHANGED <<storeVars, lastStatus, worldVars, historyVars>>

\* The except clauses: record the failure on the company, carry on.
RecordFailure(m) ==
    /\ At(m, "failed")
    /\ \/ /\ cyc[m].company \in watched
          /\ lastStatus' = [lastStatus EXCEPT ![cyc[m].company] = "error"]
       \/ UNCHANGED lastStatus
    /\ NextCompany(m)
    /\ UNCHANGED <<storeVars, worldVars, historyVars>>

\* weeks = pc.retention_weeks(): the default when it cannot be read
ReadRetention(m) ==
    /\ At(m, "next") /\ cyc[m].todo = {}
    /\ \E value \in {setting.window, DefaultWindow} :
          Become(m, [cyc[m] EXCEPT !.at = "retention", !.window = value,
                           !.unseeded = {}, !.wanted = {}, !.allowed = {}, !.began = 0])
    /\ UNCHANGED <<storeVars, lastStatus, worldVars, historyVars>>

AfterRetention(m) == IF cyc[m].ceiling = 0 THEN Finish(m) ELSE Goto(m, "experience")

\* pc.archive_stale_postings(weeks)
SweepRetention(m) ==
    LET gone == Stale(cyc[m].window) \ archived IN
    /\ At(m, "retention")
    /\ ArchivePostings(gone)
    /\ Blame(gone, "age")
    /\ AfterRetention(m)
    /\ UNCHANGED <<now, companyVars, runVars, lastStatus, worldVars, appeared, late, backlog>>

\* pc.apply_experience_threshold(ceiling), first transaction: archive
SweepExperience(m) ==
    LET gone == OverExperience(cyc[m].ceiling) \ archived IN
    /\ At(m, "experience")
    /\ ArchivePostings(gone)
    /\ Blame(gone, "years")
    /\ Goto(m, "restore")
    /\ UNCHANGED <<now, companyVars, runVars, lastStatus, worldVars, appeared, late, backlog>>

\* ... second transaction: restore, with the retention window of that moment
RestoreExperience(m) ==
    /\ At(m, "restore")
    /\ RestorePostings(WithinExperience(cyc[m].ceiling, setting.window))
    /\ Finish(m)
    /\ Blame({}, "none")
    /\ UNCHANGED <<now, companyVars, runVars, lastStatus, worldVars, appeared, late, backlog>>

\* A sweep's call that failed without effect is logged and passed over.
SweepFails(m) ==
    /\ \/ At(m, "retention") /\ AfterRetention(m)
       \/ (At(m, "experience") \/ At(m, "restore")) /\ Finish(m)
    /\ UNCHANGED <<storeVars, lastStatus, worldVars, historyVars>>

\* list_companies failed, or the agent process died.
Abort(m) ==
    /\ ~At(m, "idle")
    /\ Finish(m)
    /\ UNCHANGED <<storeVars, lastStatus, worldVars, historyVars>>

CycleStep(m) ==
    \/ Start(m) \/ ListCompanies(m) \/ ReadCeiling(m) \/ ReadCountries(m)
    \/ Fetch(m) \/ FetchFails(m) \/ UpsertChunk(m) \/ ArchiveMissing(m)
    \/ StampCompany(m) \/ CallFails(m) \/ RecordFailure(m)
    \/ ReadRetention(m) \/ SweepRetention(m) \/ SweepExperience(m)
    \/ RestoreExperience(m) \/ SweepFails(m)

-----------------------------------------------------------------------------
(* The boards and the user.  One settings request at a time.               *)

Publish(p) ==
    /\ p \notin board
    /\ PostedAt[p] # Undated => PostedAt[p] <= now
    /\ board' = board \cup {p}
    /\ appeared' = appeared \cup {p}
    /\ late' = IF p \notin appeared /\ BoardOf[p] \in seeded THEN late \cup {p} ELSE late
    /\ UNCHANGED <<storeVars, cycleVars, active, setting, ui, backlog, cause>>

Withdraw(p) ==
    /\ p \in board
    /\ board' = board \ {p}
    /\ UNCHANGED <<storeVars, cycleVars, active, setting, ui, historyVars>>

\* setMaxYears: the setting, then an archive pass unless the limit is lifted,
\* then a restore pass, each a statement of its own.
SetMaxYears ==
    /\ ui = "idle"
    /\ \E v \in Ceilings \ {setting.maxYears} :
          /\ setting' = [setting EXCEPT !.maxYears = v]
          /\ ui' = IF v = 0 THEN "withinYears" ELSE "overYears"
    /\ UNCHANGED <<storeVars, cycleVars, board, active, historyVars>>

HideOverYears ==
    LET gone == OverExperience(setting.maxYears) \ archived IN
    /\ ui = "overYears"
    /\ ArchivePostings(gone)
    /\ Blame(gone, "years")
    /\ ui' = "withinYears"
    /\ UNCHANGED <<now, companyVars, runVars, cycleVars, board, active, setting,
                   appeared, late, backlog>>

Recent(p) == AgeBase(p) > now - setting.window

ShowWithinYears ==
    /\ ui = "withinYears"
    /\ RestorePostings({p \in archived :
          /\ Years[p] # Unstated /\ Recent(p)
          /\ setting.maxYears # 0 => Years[p] <= setting.maxYears})
    /\ Blame({}, "none")
    /\ ui' = "idle"
    /\ UNCHANGED <<now, companyVars, runVars, cycleVars, board, active, setting,
                   appeared, late, backlog>>

\* setGlobalCountries, in the same three parts
SetCountries ==
    /\ ui = "idle"
    /\ \E list \in CountryLists \ {setting.countries} :
          /\ setting' = [setting EXCEPT !.countries = list]
          /\ ui' = IF list = {} THEN "insideCountries" ELSE "outsideCountries"
    /\ UNCHANGED <<storeVars, cycleVars, board, active, historyVars>>

HideOutsideCountries ==
    LET gone == {p \in (stored \ tracked) \ archived :
                    Country[p] # Unknown /\ Country[p] \notin setting.countries} IN
    /\ ui = "outsideCountries"
    /\ ArchivePostings(gone)
    /\ Blame(gone, "country")
    /\ ui' = "insideCountries"
    /\ UNCHANGED <<now, companyVars, runVars, cycleVars, board, active, setting,
                   appeared, late, backlog>>

ShowInsideCountries ==
    /\ ui = "insideCountries"
    /\ RestorePostings({p \in archived :
          /\ Country[p] # Unknown /\ Recent(p)
          /\ setting.countries # {} => Country[p] \in setting.countries})
    /\ Blame({}, "none")
    /\ ui' = "idle"
    /\ UNCHANGED <<now, companyVars, runVars, cycleVars, board, active, setting,
                   appeared, late, backlog>>

\* setRetentionWeeks and updateScrapeConfig only write the setting.
SetRetentionOrRoles ==
    /\ ui = "idle"
    /\ \/ \E w \in Windows \ {setting.window} : setting' = [setting EXCEPT !.window = w]
       \/ \E r \in RoleSets \ {setting.wanted} : setting' = [setting EXCEPT !.wanted = r]
    /\ UNCHANGED <<storeVars, cycleVars, board, active, ui, historyVars>>

\* toggleWatchedCompany
Toggle(c) ==
    /\ c \in watched
    /\ active' = IF c \in active THEN active \ {c} ELSE active \cup {c}
    /\ UNCHANGED <<storeVars, cycleVars, board, setting, ui, historyVars>>

\* deleteWatchedCompany
Delete(c) ==
    /\ DeleteCompany(c)
    /\ active' = active \ {c}
    /\ UNCHANGED <<now, runVars, cycleVars, board, setting, ui, historyVars>>

\* trackPosting's write to the posting
Track(p) ==
    /\ p \notin tracked
    /\ LinkPosting(p)
    /\ UNCHANGED <<now, companyVars, runVars, cycleVars, worldVars, historyVars>>

\* The user deletes the application the posting was tracked as.
Untrack(p) ==
    /\ UnlinkPosting(p)
    /\ UNCHANGED <<now, companyVars, runVars, cycleVars, worldVars, historyVars>>

Clock == Tick /\ UNCHANGED <<cycleVars, worldVars, historyVars>>

Settings ==
    \/ SetMaxYears \/ HideOverYears \/ ShowWithinYears
    \/ SetCountries \/ HideOutsideCountries \/ ShowInsideCountries
    \/ SetRetentionOrRoles

World ==
    \/ \E p \in Postings : Publish(p) \/ Withdraw(p) \/ Track(p) \/ Untrack(p)
    \/ \E c \in Companies : Toggle(c) \/ Delete(c)
    \/ Settings \/ Clock

Next == (\E m \in Cycles : CycleStep(m) \/ Abort(m)) \/ World

Spec == Init /\ [][Next]_vars

\* A started cycle is not left alone: the thread pool runs its next step.
\* Nothing is assumed of the calls' outcomes, the boards or the user.
LiveSpec == Spec /\ \A m \in Cycles : WF_vars(CycleStep(m))

-----------------------------------------------------------------------------
\* A posting counts as news only once its company has been seeded, whatever
\* the number of cycles at work and wherever one of them stopped.
NewsOnlyAfterSeeding == \A p \in isNew : BoardOf[p] \in seeded

\* The matched board a company was seeded with is never news: not after a
\* seeding pass that broke off half way and was repeated, nor with another
\* cycle at work on the same company (monitor.py:12-15).
BacklogIsNeverNews == backlog \cap isNew = {}

\* A posting that first appeared after its company was seeded is news as
\* soon as it is stored.  It takes one cycle at a time.
LateIsNews == late \cap stored \subseteq isNew

\* A board pass archives only after it stored everything it matched, and
\* nothing of that: a page that came back empty, a failed chunk or a refused
\* call leaves the board's live postings live.
PassNeverWipes ==
    [][\A m \in Cycles : ArchiveMissing(m) =>
          LET gone == archived' \ archived IN
          gone # {} => /\ {} # cyc[m].payload
                       /\ cyc[m].payload \cap gone = {}
                       /\ cyc[m].company \in watched => cyc[m].payload \subseteq stored]_vars

\* The sweeps, of a cycle or of the user's settings, leave alone what the
\* user tracks; only a board pass that no longer sees it retires it.
TrackedSurvivesSweeps ==
    [][\A p \in tracked : p \in archived' \ archived => cause'[p] = "board"]_vars

\* FAILURE ISOLATION (monitor.py:17-19): a cycle that started ends, however
\* many boards and calls fail, are deleted or come back meanwhile.
CycleEnds == \A m \in Cycles : At(m, "list") ~> At(m, "idle")

=============================================================================
