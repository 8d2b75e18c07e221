------------------------ MODULE MonitorCycle_proofs ------------------------
(***************************************************************************)
(* MonitorCycle for any number of cycles, companies and postings, any      *)
(* settings and any bounds.                                                *)
(***************************************************************************)
EXTENDS JobBoard, FiniteSetTheorems, TLAPS

\* The steps of a pass at which a cycle still relies on its snapshot.
Relying == {"ceiling", "countries", "next", "upsert", "stamp", "failed"}

\* What a cycle believes is seeded is seeded, unless it is gone; the payload
\* in hand is of its company, and what has left its hands is stored.
CycleFits(m) ==
    /\ cyc[m].at \in Relying => \A c \in watched \ cyc[m].unseeded : c \in seeded
    /\ cyc[m].at \in {"upsert", "stamp"} =>
          /\ cyc[m].company \in Companies
          /\ \A p \in cyc[m].payload : BoardOf[p] = cyc[m].company
          /\ cyc[m].left \subseteq cyc[m].payload
          /\ cyc[m].company \in watched => cyc[m].payload \ cyc[m].left \subseteq stored
    /\ cyc[m].at = "stamp" => cyc[m].left = {}

\* The backlog stays in the table as long as its company does.
BacklogLasts == \A p \in backlog : p \in stored \/ BoardOf[p] \notin watched

Inv ==
    /\ TypeOK
    /\ \A m \in Cycles : CycleFits(m)
    /\ BacklogLasts
    /\ NewsOnlyAfterSeeding
    /\ BacklogIsNeverNews

\* What every step does to the tables: a company goes only with its rows.
StoreLasts ==
    /\ watched' \subseteq watched
    /\ \A c \in watched' \cap seeded : c \in seeded'
    /\ \A p \in stored : BoardOf[p] \in watched' => p \in stored'

-----------------------------------------------------------------------------
LEMMA AsleepIsLocal == Asleep \in Local
BY StoreAssumption, CycleAssumption DEF Asleep, Local, Steps, Time

LEMMA InitInv == Init => Inv
<1>1. SUFFICES ASSUME Init PROVE Inv
  OBVIOUS
<1>2. StoreTypeOK /\ stored = {} /\ isNew = {} /\ archived = {} /\ watched = Companies
  BY <1>1, StoreAssumption DEF Init, StoreInit, StoreTypeOK, Time, RunStatus
<1>3. cyc \in [Cycles -> Local] /\ \A m \in Cycles : cyc[m].at = "idle"
  BY <1>1, AsleepIsLocal DEF Init, Asleep
<1>4. TypeOK
  BY <1>1, <1>2, <1>3 DEF Init, TypeOK, Causes
<1>5. \A m \in Cycles : CycleFits(m)
  BY <1>3 DEF CycleFits, Relying
<1>6. BacklogLasts /\ NewsOnlyAfterSeeding /\ BacklogIsNeverNews
  BY <1>1, <1>2 DEF Init, BacklogLasts, NewsOnlyAfterSeeding, BacklogIsNeverNews
<1>7. QED  BY <1>4, <1>5, <1>6 DEF Inv

-----------------------------------------------------------------------------
(* The local state of a cycle keeps its type.                              *)

LEMMA DroppedIsLocal ==
  ASSUME TypeOK, NEW m \in Cycles, NEW step \in Steps
  PROVE  Dropped(m, step) \in Local
<1>1. cyc[m] \in Local
  BY DEF TypeOK
<1>2. QED  BY <1>1 DEF Dropped, Local

LEMMA BecomeType ==
  ASSUME TypeOK, NEW m \in Cycles, NEW local \in Local, Become(m, local)
  PROVE  /\ cyc' \in [Cycles -> Local]
         /\ cyc'[m] = local
         /\ \A n \in Cycles \ {m} : cyc'[n] = cyc[n]
BY DEF TypeOK, Become

LEMMA GotoType ==
  ASSUME TypeOK, NEW m \in Cycles, NEW step \in Steps, Goto(m, step)
  PROVE  /\ cyc' \in [Cycles -> Local]
         /\ cyc'[m] = [cyc[m] EXCEPT !.at = step]
         /\ \A n \in Cycles \ {m} : cyc'[n] = cyc[n]
<1>1. cyc \in [Cycles -> Local] /\ cyc[m] \in Local
  BY DEF TypeOK
<1>2. [cyc[m] EXCEPT !.at = step] \in Local
  BY <1>1 DEF Local
<1>3. QED  BY <1>1, <1>2 DEF Goto

LEMMA FinishType ==
  ASSUME TypeOK, NEW m \in Cycles, Finish(m)
  PROVE  /\ cyc' \in [Cycles -> Local]
         /\ cyc'[m] = Asleep
         /\ \A n \in Cycles \ {m} : cyc'[n] = cyc[n]
BY AsleepIsLocal, BecomeType DEF Finish

LEMMA FailsType ==
  ASSUME TypeOK, NEW m \in Cycles, Fails(m)
  PROVE  /\ cyc' \in [Cycles -> Local]
         /\ cyc'[m] = Dropped(m, "failed")
         /\ \A n \in Cycles \ {m} : cyc'[n] = cyc[n]
<1>1. Dropped(m, "failed") \in Local
  BY DroppedIsLocal DEF Steps
<1>2. QED  BY <1>1, BecomeType DEF Fails

LEMMA NextCompanyType ==
  ASSUME TypeOK, NEW m \in Cycles, NextCompany(m)
  PROVE  /\ cyc' \in [Cycles -> Local]
         /\ cyc'[m] = [Dropped(m, "next") EXCEPT !.company = NoCompany]
         /\ \A n \in Cycles \ {m} : cyc'[n] = cyc[n]
<1>1. Dropped(m, "next") \in Local
  BY DroppedIsLocal DEF Steps
<1>2. [Dropped(m, "next") EXCEPT !.company = NoCompany] \in Local
  BY <1>1 DEF Local
<1>3. QED  BY <1>2, BecomeType DEF NextCompany

-----------------------------------------------------------------------------
(* What carries over from state to state.                                  *)

LEMMA OtherFits ==
  ASSUME StoreLasts, NEW n \in Cycles, CycleFits(n), cyc'[n] = cyc[n]
  PROVE  CycleFits(n)'
BY DEF CycleFits, StoreLasts

\* A cycle's step that at most archives or restores.
LEMMA LocalStep ==
  ASSUME Inv, NEW m \in Cycles,
         cyc' \in [Cycles -> Local], \A n \in Cycles \ {m} : cyc'[n] = cyc[n],
         CycleFits(m)',
         archived' \subseteq stored, cause' \in [Postings -> Causes],
         lastStatus' \in [Companies -> {"none", "ok", "error"}],
         UNCHANGED <<now, companyVars, stored, isNew, tracked, firstSeen, stamp, runVars,
                     worldVars, appeared, late, backlog>>
  PROVE  Inv'
<1>1. TypeOK'
  BY DEF Inv, TypeOK, StoreTypeOK, companyVars, runVars, worldVars
<1>2. StoreLasts
  BY DEF StoreLasts, companyVars
<1>3. \A n \in Cycles : CycleFits(n)'
  BY <1>2, OtherFits DEF Inv
<1>4. (BacklogLasts /\ NewsOnlyAfterSeeding /\ BacklogIsNeverNews)'
  BY DEF Inv, BacklogLasts, NewsOnlyAfterSeeding, BacklogIsNeverNews, companyVars
<1>5. QED  BY <1>1, <1>3, <1>4 DEF Inv

\* ... and one that leaves the tables alone.
LEMMA QuietStep ==
  ASSUME Inv, NEW m \in Cycles,
         cyc' \in [Cycles -> Local], \A n \in Cycles \ {m} : cyc'[n] = cyc[n],
         CycleFits(m)',
         lastStatus' \in [Companies -> {"none", "ok", "error"}],
         UNCHANGED <<storeVars, worldVars, historyVars>>
  PROVE  Inv'
<1>1. archived' \subseteq stored /\ cause' \in [Postings -> Causes]
  BY DEF Inv, TypeOK, StoreTypeOK, storeVars, postingVars, historyVars
<1>2. UNCHANGED <<now, companyVars, stored, isNew, tracked, firstSeen, stamp, runVars,
                  worldVars, appeared, late, backlog>>
  BY DEF storeVars, postingVars, historyVars
<1>3. QED  BY <1>1, <1>2, LocalStep

LEMMA BlameType ==
  ASSUME TypeOK, NEW ps, NEW what \in Causes, Blame(ps, what)
  PROVE  cause' \in [Postings -> Causes]
BY DEF TypeOK, Blame, Causes

-----------------------------------------------------------------------------
(* The steps of a cycle, one lemma each.                                   *)

LEMMA ReadingSteps ==
  ASSUME Inv, NEW m \in Cycles,
         \/ Start(m) \/ ListCompanies(m) \/ ReadCeiling(m) \/ ReadCountries(m)
         \/ Fetch(m) \/ FetchFails(m) \/ ReadRetention(m)
  PROVE  Inv'
<1>1. TypeOK /\ cyc[m] \in Local /\ CycleFits(m)
  BY DEF Inv, TypeOK
<1>2. CASE Start(m)
  <2>1. /\ cyc' \in [Cycles -> Local] /\ cyc'[m] = [cyc[m] EXCEPT !.at = "list"]
        /\ \A n \in Cycles \ {m} : cyc'[n] = cyc[n]
    <3>1. Goto(m, "list")
      BY <1>2 DEF Start
    <3>2. "list" \in Steps
      BY DEF Steps
    <3>3. QED  BY <1>1, <3>1, <3>2, GotoType
  <2>2. CycleFits(m)'
    <3>1. cyc'[m].at = "list"
      BY <1>1, <2>1 DEF Local
    <3>2. QED  BY <3>1 DEF CycleFits, Relying
  <2>3. QED  BY <1>1, <1>2, <2>1, <2>2, QuietStep DEF Start, TypeOK
<1>3. CASE ListCompanies(m)
  <2>1. CASE active = {}
    <3>1. Finish(m)
      BY <1>3, <2>1 DEF ListCompanies
    <3>2. cyc' \in [Cycles -> Local] /\ cyc'[m].at = "idle"
          /\ \A n \in Cycles \ {m} : cyc'[n] = cyc[n]
      BY <1>1, <3>1, FinishType DEF Asleep
    <3>3. CycleFits(m)'
      BY <3>2 DEF CycleFits, Relying
    <3>4. QED  BY <1>1, <1>3, <3>2, <3>3, QuietStep DEF ListCompanies, TypeOK
  <2>2. CASE active # {}
    <3> DEFINE local == [cyc[m] EXCEPT !.at = "ceiling", !.todo = active, !.began = now,
                              !.unseeded = Companies \ seeded, !.wanted = setting.wanted]
    <3>1. setting.wanted \in SUBSET Postings /\ active \subseteq Companies /\ now \in Time
      BY <1>1, CycleAssumption DEF TypeOK, StoreTypeOK, Time
    <3>2. local \in Local
      BY <1>1, <3>1 DEF Local, Steps
    <3>3. local.at = "ceiling" /\ local.unseeded = Companies \ seeded
      BY <1>1 DEF Local
    <3> HIDE DEF local
    <3>4. Become(m, local)
      BY <1>3, <2>2 DEF ListCompanies, local
    <3>5. cyc' \in [Cycles -> Local] /\ cyc'[m] = local
          /\ \A n \in Cycles \ {m} : cyc'[n] = cyc[n]
      BY <1>1, <3>2, <3>4, BecomeType
    <3>6. CycleFits(m)'
      BY <1>1, <1>3, <3>3, <3>5
         DEF CycleFits, ListCompanies, storeVars, companyVars, TypeOK, StoreTypeOK
    <3>7. QED  BY <1>1, <1>3, <3>5, <3>6, QuietStep DEF ListCompanies, TypeOK
  <2>3. QED  BY <2>1, <2>2
<1>4. CASE ReadCeiling(m)
  <2>1. PICK value \in {setting.maxYears, 0} :
           Become(m, [cyc[m] EXCEPT !.at = "countries", !.ceiling = value])
    BY <1>4 DEF ReadCeiling
  <2> DEFINE local == [cyc[m] EXCEPT !.at = "countries", !.ceiling = value]
  <2>2. local \in Local
    BY <1>1 DEF TypeOK, Local, Steps
  <2>3. cyc' \in [Cycles -> Local] /\ cyc'[m] = local
        /\ \A n \in Cycles \ {m} : cyc'[n] = cyc[n]
    BY <1>1, <2>1, <2>2, BecomeType
  <2>4. CycleFits(m)'
    BY <1>1, <1>4, <2>3 DEF ReadCeiling, CycleFits, Relying, At, storeVars, companyVars, Local
  <2>5. QED  BY <1>1, <1>4, <2>3, <2>4, QuietStep DEF ReadCeiling, TypeOK
<1>5. CASE ReadCountries(m)
  <2>1. PICK value \in {setting.countries, {}} :
           Become(m, [cyc[m] EXCEPT !.at = "next", !.allowed = value])
    BY <1>5 DEF ReadCountries
  <2> DEFINE local == [cyc[m] EXCEPT !.at = "next", !.allowed = value]
  <2>2. local \in Local
    BY <1>1 DEF TypeOK, Local, Steps
  <2>3. cyc' \in [Cycles -> Local] /\ cyc'[m] = local
        /\ \A n \in Cycles \ {m} : cyc'[n] = cyc[n]
    BY <1>1, <2>1, <2>2, BecomeType
  <2>4. CycleFits(m)'
    BY <1>1, <1>5, <2>3 DEF ReadCountries, CycleFits, Relying, At, storeVars, companyVars, Local
  <2>5. QED  BY <1>1, <1>5, <2>3, <2>4, QuietStep DEF ReadCountries, TypeOK
<1>6. CASE Fetch(m)
  <2>1. PICK c \in cyc[m].todo : \E fetched \in {OnBoard(c), {}} :
           Become(m, [cyc[m] EXCEPT !.at = "upsert", !.todo = @ \ {c}, !.company = c,
                          !.fetched = fetched, !.payload = Matched(m, fetched),
                          !.left = Matched(m, fetched)])
    BY <1>6 DEF Fetch
  <2>0. PICK fetched \in {OnBoard(c), {}} :
           Become(m, [cyc[m] EXCEPT !.at = "upsert", !.todo = @ \ {c}, !.company = c,
                          !.fetched = fetched, !.payload = Matched(m, fetched),
                          !.left = Matched(m, fetched)])
    BY <2>1
  <2> DEFINE local == [cyc[m] EXCEPT !.at = "upsert", !.todo = @ \ {c}, !.company = c,
                           !.fetched = fetched, !.payload = Matched(m, fetched),
                           !.left = Matched(m, fetched)]
  <2>2. c \in Companies /\ fetched \subseteq Postings /\ Matched(m, fetched) \subseteq fetched
        /\ \A p \in fetched : BoardOf[p] = c
    BY <1>1 DEF OnBoard, Matched, Local, TypeOK
  <2>3. local \in Local
    BY <1>1, <2>2 DEF Local, Steps
  <2>4. local.at = "upsert" /\ local.company = c /\ local.payload = Matched(m, fetched)
        /\ local.left = local.payload /\ local.unseeded = cyc[m].unseeded
    BY <1>1 DEF Local
  <2> HIDE DEF local
  <2>5. cyc' \in [Cycles -> Local] /\ cyc'[m] = local
        /\ \A n \in Cycles \ {m} : cyc'[n] = cyc[n]
    BY <1>1, <2>0, <2>3, BecomeType DEF local
  <2>6. CycleFits(m)'
    BY <1>1, <1>6, <2>2, <2>4, <2>5 DEF Fetch, CycleFits, Relying, At, storeVars, companyVars
  <2>7. QED  BY <1>1, <1>6, <2>5, <2>6, QuietStep DEF Fetch, TypeOK
<1>7. CASE FetchFails(m)
  <2>1. PICK c \in cyc[m].todo :
           Become(m, [cyc[m] EXCEPT !.at = "failed", !.todo = @ \ {c}, !.company = c])
    BY <1>7 DEF FetchFails
  <2> DEFINE local == [cyc[m] EXCEPT !.at = "failed", !.todo = @ \ {c}, !.company = c]
  <2>2. local \in Local
    BY <1>1 DEF Local, Steps
  <2>3. cyc' \in [Cycles -> Local] /\ cyc'[m] = local
        /\ \A n \in Cycles \ {m} : cyc'[n] = cyc[n]
    BY <1>1, <2>1, <2>2, BecomeType
  <2>4. CycleFits(m)'
    BY <1>1, <1>7, <2>3 DEF FetchFails, CycleFits, Relying, At, storeVars, companyVars, Local
  <2>5. QED  BY <1>1, <1>7, <2>3, <2>4, QuietStep DEF FetchFails, TypeOK
<1>8. CASE ReadRetention(m)
  <2>1. PICK value \in {setting.window, DefaultWindow} :
           Become(m, [cyc[m] EXCEPT !.at = "retention", !.window = value,
                          !.unseeded = {}, !.wanted = {}, !.allowed = {}, !.began = 0])
    BY <1>8 DEF ReadRetention
  <2> DEFINE local == [cyc[m] EXCEPT !.at = "retention", !.window = value,
                           !.unseeded = {}, !.wanted = {}, !.allowed = {}, !.began = 0]
  <2>0. value \in Windows \cup {DefaultWindow} /\ 0 \in Time
    BY <1>1, StoreAssumption DEF TypeOK, Time
  <2>2. local \in Local /\ local.at = "retention"
    BY <1>1, <2>0 DEF Local, Steps
  <2> HIDE DEF local
  <2>3. cyc' \in [Cycles -> Local] /\ cyc'[m] = local
        /\ \A n \in Cycles \ {m} : cyc'[n] = cyc[n]
    BY <1>1, <2>1, <2>2, BecomeType DEF local
  <2>4. CycleFits(m)'
    BY <2>2, <2>3 DEF CycleFits, Relying
  <2>5. QED  BY <1>1, <1>8, <2>3, <2>4, QuietStep DEF ReadRetention, TypeOK
<1>9. QED  BY <1>2, <1>3, <1>4, <1>5, <1>6, <1>7, <1>8

LEMMA DroppedFits ==
  ASSUME Inv, StoreLasts, NEW m \in Cycles, cyc[m].at \in Relying,
         cyc'[m].at \in {"failed", "next"}, cyc'[m].unseeded = cyc[m].unseeded
  PROVE  CycleFits(m)'
BY DEF Inv, CycleFits, StoreLasts

LEMMA RestingFits ==
  ASSUME NEW m \in Cycles, cyc'[m].at \notin Relying
  PROVE  CycleFits(m)'
BY DEF CycleFits, Relying

LEMMA AfterRetentionType ==
  ASSUME TypeOK, NEW m \in Cycles, AfterRetention(m)
  PROVE  /\ cyc' \in [Cycles -> Local]
         /\ \A n \in Cycles \ {m} : cyc'[n] = cyc[n]
         /\ cyc'[m].at \notin Relying
<1>1. CASE Finish(m)
  BY <1>1, FinishType DEF Asleep, Relying
<1>2. CASE Goto(m, "experience")
  <2>1. cyc[m] \in Local /\ "experience" \in Steps
    BY DEF TypeOK, Steps
  <2>2. /\ cyc' \in [Cycles -> Local]
        /\ cyc'[m] = [cyc[m] EXCEPT !.at = "experience"]
        /\ \A n \in Cycles \ {m} : cyc'[n] = cyc[n]
    BY <1>2, <2>1, GotoType
  <2>3. QED  BY <2>1, <2>2 DEF Local, Relying
<1>3. QED  BY <1>1, <1>2 DEF AfterRetention

LEMMA FailingSteps ==
  ASSUME Inv, NEW m \in Cycles,
         CallFails(m) \/ RecordFailure(m) \/ SweepFails(m) \/ Abort(m)
  PROVE  Inv'
<1>1. TypeOK /\ cyc[m] \in Local
  BY DEF Inv, TypeOK
<1>2. StoreLasts
  BY DEF StoreLasts, CallFails, RecordFailure, SweepFails, Abort, storeVars, companyVars,
         postingVars
<1>3. CASE CallFails(m)
  <2>1. cyc' \in [Cycles -> Local] /\ cyc'[m] = Dropped(m, "failed")
        /\ \A n \in Cycles \ {m} : cyc'[n] = cyc[n]
    BY <1>1, <1>3, FailsType DEF CallFails
  <2>2. CycleFits(m)'
    <3>1. cyc'[m].at = "failed" /\ cyc'[m].unseeded = cyc[m].unseeded
      BY <1>1, <2>1 DEF Dropped, Local
    <3>2. QED  BY <1>2, <1>3, <3>1, DroppedFits DEF CallFails, At, Relying
  <2>3. QED  BY <1>1, <1>3, <2>1, <2>2, QuietStep DEF CallFails, TypeOK
<1>4. CASE RecordFailure(m)
  <2>1. /\ cyc' \in [Cycles -> Local]
        /\ cyc'[m] = [Dropped(m, "next") EXCEPT !.company = NoCompany]
        /\ \A n \in Cycles \ {m} : cyc'[n] = cyc[n]
    BY <1>1, <1>4, NextCompanyType DEF RecordFailure
  <2>2. CycleFits(m)'
    <3>1. cyc'[m].at = "next" /\ cyc'[m].unseeded = cyc[m].unseeded
      BY <1>1, <2>1 DEF Dropped, Local
    <3>2. QED  BY <1>2, <1>4, <3>1, DroppedFits DEF RecordFailure, At, Relying
  <2>3. lastStatus' \in [Companies -> {"none", "ok", "error"}]
    BY <1>1, <1>4 DEF RecordFailure, TypeOK
  <2>4. QED  BY <1>4, <2>1, <2>2, <2>3, QuietStep DEF RecordFailure
<1>5. CASE SweepFails(m)
  <2>1. cyc' \in [Cycles -> Local] /\ cyc'[m].at \notin Relying
        /\ \A n \in Cycles \ {m} : cyc'[n] = cyc[n]
    BY <1>1, <1>5, FinishType, AfterRetentionType DEF SweepFails, Asleep, Relying
  <2>2. QED  BY <1>1, <1>5, <2>1, RestingFits, QuietStep DEF SweepFails, TypeOK
<1>6. CASE Abort(m)
  <2>1. cyc' \in [Cycles -> Local] /\ cyc'[m].at \notin Relying
        /\ \A n \in Cycles \ {m} : cyc'[n] = cyc[n]
    BY <1>1, <1>6, FinishType DEF Abort, Asleep, Relying
  <2>2. QED  BY <1>1, <1>6, <2>1, RestingFits, QuietStep DEF Abort, TypeOK
<1>7. QED  BY <1>3, <1>4, <1>5, <1>6

LEMMA ArchiveMissingStep ==
  ASSUME Inv, NEW m \in Cycles, ArchiveMissing(m)
  PROVE  Inv'
<1> DEFINE gone == Missing(cyc[m].company, cyc[m].payload) \ archived
<1>1. TypeOK /\ cyc[m] \in Local /\ CycleFits(m)
  BY DEF Inv, TypeOK
<1>2. ArchivePostings(gone) /\ Blame(gone, "board") /\ gone \subseteq stored
  BY DEF ArchiveMissing, Missing, RowsOf
<1>3. archived' \subseteq stored /\ cause' \in [Postings -> Causes]
  BY <1>1, <1>2, BlameType DEF ArchivePostings, TypeOK, StoreTypeOK, Causes
<1>4. UNCHANGED <<now, companyVars, stored, isNew, tracked, firstSeen, stamp, runVars,
                  worldVars, appeared, late, backlog, lastStatus>>
  BY <1>2 DEF ArchiveMissing, ArchivePostings
<1>5. /\ cyc' \in [Cycles -> Local]
      /\ \A n \in Cycles \ {m} : cyc'[n] = cyc[n]
      /\ CycleFits(m)'
  <2>1. CASE Goto(m, "stamp")
    <3>1. /\ cyc' \in [Cycles -> Local]
          /\ cyc'[m] = [cyc[m] EXCEPT !.at = "stamp"]
          /\ \A n \in Cycles \ {m} : cyc'[n] = cyc[n]
      BY <1>1, <2>1, GotoType DEF Steps
    <3>2. CycleFits(m)'
      BY <1>1, <1>4, <3>1 DEF CycleFits, Relying, ArchiveMissing, At, companyVars, Local
    <3>3. QED  BY <3>1, <3>2
  <2>2. CASE Fails(m)
    <3>1. cyc' \in [Cycles -> Local] /\ cyc'[m] = Dropped(m, "failed")
          /\ \A n \in Cycles \ {m} : cyc'[n] = cyc[n]
      BY <1>1, <2>2, FailsType
    <3>2. cyc'[m].at = "failed" /\ cyc'[m].unseeded = cyc[m].unseeded
      BY <1>1, <3>1 DEF Dropped, Local
    <3>3. StoreLasts
      BY <1>4 DEF StoreLasts, companyVars
    <3>4. QED  BY <3>1, <3>2, <3>3, DroppedFits DEF ArchiveMissing, At, Relying
  <2>3. QED  BY <2>1, <2>2 DEF ArchiveMissing
<1>6. lastStatus' \in [Companies -> {"none", "ok", "error"}]
  BY <1>1, <1>4 DEF TypeOK
<1>7. QED  BY <1>3, <1>4, <1>5, <1>6, LocalStep

LEMMA SweepSteps ==
  ASSUME Inv, NEW m \in Cycles,
         SweepRetention(m) \/ SweepExperience(m) \/ RestoreExperience(m)
  PROVE  Inv'
<1>1. TypeOK /\ cyc[m] \in Local
  BY DEF Inv, TypeOK
<1>2. archived' \subseteq stored /\ cause' \in [Postings -> Causes]
      /\ UNCHANGED <<stored, isNew, tracked, firstSeen, stamp>>
  <2>1. CASE SweepRetention(m)
    BY <1>1, <2>1, BlameType
       DEF SweepRetention, ArchivePostings, Stale, TypeOK, StoreTypeOK, Causes
  <2>2. CASE SweepExperience(m)
    BY <1>1, <2>2, BlameType
       DEF SweepExperience, ArchivePostings, OverExperience, TypeOK, StoreTypeOK, Causes
  <2>3. CASE RestoreExperience(m)
    BY <1>1, <2>3, BlameType
       DEF RestoreExperience, RestorePostings, TypeOK, StoreTypeOK, Causes
  <2>4. QED  BY <2>1, <2>2, <2>3
<1>3. UNCHANGED <<now, companyVars, runVars, lastStatus, worldVars, appeared, late, backlog>>
  BY DEF SweepRetention, SweepExperience, RestoreExperience
<1>4. cyc' \in [Cycles -> Local] /\ cyc'[m].at \notin Relying
      /\ \A n \in Cycles \ {m} : cyc'[n] = cyc[n]
  <2>1. CASE SweepRetention(m)
    BY <1>1, <2>1, AfterRetentionType DEF SweepRetention
  <2>2. CASE SweepExperience(m)
    BY <1>1, <2>2, GotoType DEF SweepExperience, Steps, Local, Relying
  <2>3. CASE RestoreExperience(m)
    BY <1>1, <2>3, FinishType DEF RestoreExperience, Asleep, Relying
  <2>4. QED  BY <2>1, <2>2, <2>3
<1>5. CycleFits(m)' /\ lastStatus' \in [Companies -> {"none", "ok", "error"}]
  BY <1>1, <1>3, <1>4, RestingFits DEF TypeOK
<1>6. QED  BY <1>2, <1>3, <1>4, <1>5, LocalStep

LEMMA UpsertStep ==
  ASSUME Inv, NEW m \in Cycles, UpsertChunk(m)
  PROVE  Inv'
<1> DEFINE me == cyc[m]
           new == me.company \notin me.unseeded
<1>1. TypeOK /\ me \in Local /\ CycleFits(m) /\ me.at = "upsert" /\ me.company \in watched
  BY DEF Inv, TypeOK, UpsertChunk, At
<1>2. PICK part \in SUBSET me.left :
         /\ UpsertPostings(part, new, now)
         /\ Become(m, [me EXCEPT !.left = @ \ part]) \/ Fails(m)
  BY DEF UpsertChunk
<1>3. /\ UNCHANGED <<now, companyVars, runVars, lastStatus, worldVars, appeared, late, backlog>>
      /\ cause' \in [Postings -> Causes]
  BY <1>1, BlameType DEF UpsertChunk, Causes
<1>4. part \subseteq Postings /\ \A p \in part : BoardOf[p] = me.company
  BY <1>1 DEF CycleFits, Local
<1>5. /\ stored' = stored \cup part
      /\ isNew \subseteq isNew'
      /\ \A p \in isNew' \ isNew : p \in part \ stored /\ new
      /\ archived' \subseteq archived
      /\ tracked' = tracked
      /\ firstSeen' \in [Postings -> Time]
      /\ stamp' \in [Postings -> Runs \cup {NoRun}]
  BY <1>1, <1>2 DEF UpsertPostings, TypeOK, StoreTypeOK, Time
<1>6. TypeOK' \/ cyc' \notin [Cycles -> Local]
  BY <1>1, <1>3, <1>4, <1>5 DEF TypeOK, StoreTypeOK, companyVars, runVars, worldVars
<1>7. StoreLasts
  BY <1>3, <1>5 DEF StoreLasts, companyVars
<1>8. /\ cyc' \in [Cycles -> Local]
      /\ \A n \in Cycles \ {m} : cyc'[n] = cyc[n]
      /\ CycleFits(m)'
  <2>1. CASE Become(m, [me EXCEPT !.left = @ \ part])
    <3>1. [me EXCEPT !.left = @ \ part] \in Local
      BY <1>1 DEF Local
    <3>2. /\ cyc' \in [Cycles -> Local]
          /\ cyc'[m] = [me EXCEPT !.left = @ \ part]
          /\ \A n \in Cycles \ {m} : cyc'[n] = cyc[n]
      BY <1>1, <2>1, <3>1, BecomeType
    <3>3. /\ cyc'[m].at = "upsert" /\ cyc'[m].company = me.company
          /\ cyc'[m].unseeded = me.unseeded /\ cyc'[m].payload = me.payload
          /\ cyc'[m].left = me.left \ part
      BY <1>1, <3>2 DEF Local
    <3>4. CycleFits(m)'
      BY <1>1, <1>3, <1>5, <3>3 DEF CycleFits, Relying, companyVars
    <3>5. QED  BY <3>2, <3>4
  <2>2. CASE Fails(m)
    <3>1. cyc' \in [Cycles -> Local] /\ cyc'[m] = Dropped(m, "failed")
          /\ \A n \in Cycles \ {m} : cyc'[n] = cyc[n]
      BY <1>1, <2>2, FailsType
    <3>2. cyc'[m].at = "failed" /\ cyc'[m].unseeded = cyc[m].unseeded
      BY <1>1, <3>1 DEF Dropped, Local
    <3>3. QED  BY <1>1, <1>7, <3>1, <3>2, DroppedFits DEF Relying
  <2>3. QED  BY <1>2, <2>1, <2>2
<1>9. \A n \in Cycles : CycleFits(n)'
  BY <1>7, <1>8, OtherFits DEF Inv
<1>10. BacklogLasts'
  BY <1>3, <1>5 DEF Inv, BacklogLasts, companyVars
<1>11. NewsOnlyAfterSeeding'
  <2>1. new => me.company \in seeded
    BY <1>1 DEF CycleFits, Relying
  <2>2. QED  BY <1>3, <1>4, <1>5, <2>1 DEF Inv, NewsOnlyAfterSeeding, companyVars
<1>12. BacklogIsNeverNews'
  BY <1>1, <1>3, <1>4, <1>5 DEF Inv, BacklogLasts, BacklogIsNeverNews
<1>13. QED  BY <1>6, <1>8, <1>9, <1>10, <1>11, <1>12 DEF Inv

LEMMA StampStep ==
  ASSUME Inv, NEW m \in Cycles, StampCompany(m)
  PROVE  Inv'
<1> DEFINE me == cyc[m]
           seeding == {me.company} \cap me.unseeded
<1>1. /\ TypeOK /\ me \in Local /\ CycleFits(m) /\ me.at = "stamp" /\ me.company \in watched
      /\ NewsOnlyAfterSeeding /\ BacklogIsNeverNews /\ BacklogLasts
  BY DEF Inv, TypeOK, StampCompany, At
<1>2. /\ seeded' = seeded \cup seeding
      /\ backlog' = IF seeding \ seeded # {} THEN backlog \cup me.payload ELSE backlog
      /\ lastStatus' = [lastStatus EXCEPT ![me.company] = "ok"]
      /\ NextCompany(m) \/ Fails(m)
      /\ UNCHANGED <<now, watched, postingVars, runVars, worldVars, appeared, late, cause>>
  BY DEF StampCompany
<1>3. me.payload \subseteq stored /\ me.payload \subseteq Postings
      /\ \A p \in me.payload : BoardOf[p] = me.company
  BY <1>1 DEF CycleFits, Local
<1>4. StoreLasts
  BY <1>2 DEF StoreLasts, postingVars
<1>5. /\ cyc' \in [Cycles -> Local]
      /\ \A n \in Cycles \ {m} : cyc'[n] = cyc[n]
      /\ cyc'[m].at \in {"failed", "next"} /\ cyc'[m].unseeded = me.unseeded
  <2>1. CASE NextCompany(m)
    <3>1. /\ cyc' \in [Cycles -> Local]
          /\ cyc'[m] = [Dropped(m, "next") EXCEPT !.company = NoCompany]
          /\ \A n \in Cycles \ {m} : cyc'[n] = cyc[n]
      BY <1>1, <2>1, NextCompanyType
    <3>2. QED  BY <1>1, <3>1 DEF Dropped, Local
  <2>2. CASE Fails(m)
    <3>1. cyc' \in [Cycles -> Local] /\ cyc'[m] = Dropped(m, "failed")
          /\ \A n \in Cycles \ {m} : cyc'[n] = cyc[n]
      BY <1>1, <2>2, FailsType
    <3>2. QED  BY <1>1, <3>1 DEF Dropped, Local
  <2>3. QED  BY <1>2, <2>1, <2>2
<1>6. TypeOK'
  BY <1>1, <1>2, <1>3, <1>5 DEF TypeOK, StoreTypeOK, postingVars, runVars, worldVars
<1>7. \A n \in Cycles : CycleFits(n)'
  BY <1>1, <1>4, <1>5, OtherFits, DroppedFits DEF Inv, Relying
<1>8. BacklogLasts'
  BY <1>1, <1>2, <1>3 DEF BacklogLasts, postingVars
<1>9. NewsOnlyAfterSeeding'
  BY <1>1, <1>2 DEF NewsOnlyAfterSeeding, postingVars
<1>10. BacklogIsNeverNews'
  BY <1>1, <1>2, <1>3 DEF NewsOnlyAfterSeeding, BacklogIsNeverNews, postingVars
<1>11. QED  BY <1>6, <1>7, <1>8, <1>9, <1>10 DEF Inv

-----------------------------------------------------------------------------
(* The boards and the user.                                                *)

\* A step of the world leaves the cycles alone.
LEMMA WorldFrame ==
  ASSUME Inv, TypeOK', StoreLasts, NewsOnlyAfterSeeding', isNew' \subseteq isNew,
         UNCHANGED <<cyc, backlog>>
  PROVE  Inv'
<1>1. \A n \in Cycles : CycleFits(n)'
  BY OtherFits DEF Inv
<1>2. BacklogLasts' /\ BacklogIsNeverNews'
  BY StoreAssumption DEF Inv, BacklogLasts, BacklogIsNeverNews, StoreLasts, TypeOK
<1>3. QED  BY <1>1, <1>2 DEF Inv

\* ... and most of them leave the rows and the companies, too.
LEMMA RowsStayFrame ==
  ASSUME Inv, TypeOK', UNCHANGED <<cyc, backlog, companyVars, stored, isNew>>
  PROVE  Inv'
<1>1. StoreLasts /\ NewsOnlyAfterSeeding'
  BY DEF Inv, StoreLasts, NewsOnlyAfterSeeding, companyVars
<1>2. QED  BY <1>1, WorldFrame

LEMMA SettingsStep ==
  ASSUME Inv, Settings
  PROVE  Inv'
<1> USE DEF companyVars, runVars, cycleVars, worldVars, historyVars, storeVars, postingVars
<1>1. TypeOK
  BY DEF Inv
<1>2. UNCHANGED <<cyc, backlog, companyVars, stored, isNew>>
  BY DEF Settings, SetMaxYears, HideOverYears, ShowWithinYears, SetCountries,
         HideOutsideCountries, ShowInsideCountries, SetRetentionOrRoles,
         ArchivePostings, RestorePostings
<1>3. CASE SetMaxYears
  <2>1. PICK v \in Ceilings \ {setting.maxYears} :
           /\ setting' = [setting EXCEPT !.maxYears = v]
           /\ ui' = IF v = 0 THEN "withinYears" ELSE "overYears"
    BY <1>3 DEF SetMaxYears
  <2>2. TypeOK'
    BY <1>1, <1>3, <2>1 DEF SetMaxYears, TypeOK, StoreTypeOK
  <2>3. QED  BY <1>2, <2>2, RowsStayFrame
<1>4. CASE HideOverYears
  <2>1. TypeOK'
    BY <1>1, <1>4, BlameType
       DEF HideOverYears, ArchivePostings, OverExperience, TypeOK, StoreTypeOK, Causes
  <2>2. QED  BY <1>2, <2>1, RowsStayFrame
<1>5. CASE ShowWithinYears
  <2>1. TypeOK'
    BY <1>1, <1>5, BlameType DEF ShowWithinYears, RestorePostings, TypeOK, StoreTypeOK, Causes
  <2>2. QED  BY <1>2, <2>1, RowsStayFrame
<1>6. CASE SetCountries
  <2>1. PICK list \in CountryLists \ {setting.countries} :
           /\ setting' = [setting EXCEPT !.countries = list]
           /\ ui' = IF list = {} THEN "insideCountries" ELSE "outsideCountries"
    BY <1>6 DEF SetCountries
  <2>2. TypeOK'
    BY <1>1, <1>6, <2>1 DEF SetCountries, TypeOK, StoreTypeOK
  <2>3. QED  BY <1>2, <2>2, RowsStayFrame
<1>7. CASE HideOutsideCountries
  <2>1. TypeOK'
    BY <1>1, <1>7, BlameType
       DEF HideOutsideCountries, ArchivePostings, TypeOK, StoreTypeOK, Causes
  <2>2. QED  BY <1>2, <2>1, RowsStayFrame
<1>8. CASE ShowInsideCountries
  <2>1. TypeOK'
    BY <1>1, <1>8, BlameType
       DEF ShowInsideCountries, RestorePostings, TypeOK, StoreTypeOK, Causes
  <2>2. QED  BY <1>2, <2>1, RowsStayFrame
<1>9. CASE SetRetentionOrRoles
  <2>1. setting' \in [maxYears : Ceilings, countries : CountryLists, window : Windows,
                      wanted : RoleSets]
    BY <1>1, <1>9 DEF SetRetentionOrRoles, TypeOK
  <2>2. TypeOK'
    BY <1>1, <1>9, <2>1 DEF SetRetentionOrRoles, TypeOK, StoreTypeOK
  <2>3. QED  BY <1>2, <2>2, RowsStayFrame
<1>10. QED  BY <1>3, <1>4, <1>5, <1>6, <1>7, <1>8, <1>9 DEF Settings

LEMMA WorldStep ==
  ASSUME Inv, World
  PROVE  Inv'
<1> USE DEF companyVars, runVars, cycleVars, worldVars, historyVars, storeVars, postingVars
<1>1. TypeOK /\ NewsOnlyAfterSeeding
  BY DEF Inv
<1>2. ASSUME NEW p \in Postings, Publish(p) \/ Withdraw(p) \/ Track(p) \/ Untrack(p)
      PROVE  Inv'
  <2>1. TypeOK' /\ UNCHANGED <<cyc, backlog, companyVars, stored, isNew>>
    BY <1>1, <1>2 DEF Publish, Withdraw, Track, Untrack, LinkPosting, UnlinkPosting,
                      TypeOK, StoreTypeOK
  <2>2. QED  BY <2>1, RowsStayFrame
<1>3. ASSUME NEW c \in Companies, Toggle(c)
      PROVE  Inv'
  <2>1. TypeOK' /\ UNCHANGED <<cyc, backlog, companyVars, stored, isNew>>
    BY <1>1, <1>3 DEF Toggle, TypeOK, StoreTypeOK
  <2>2. QED  BY <2>1, RowsStayFrame
<1>4. ASSUME NEW c \in Companies, Delete(c)
      PROVE  Inv'
  <2>1. TypeOK'
    BY <1>1, <1>4 DEF Delete, DeleteCompany, RowsOf, TypeOK, StoreTypeOK
  <2>2. StoreLasts /\ isNew' \subseteq isNew /\ UNCHANGED <<cyc, backlog>>
    BY <1>1, <1>4 DEF Delete, DeleteCompany, RowsOf, StoreLasts
  <2>3. NewsOnlyAfterSeeding'
    BY <1>1, <1>4 DEF Delete, DeleteCompany, RowsOf, NewsOnlyAfterSeeding, TypeOK, StoreTypeOK
  <2>4. QED  BY <2>1, <2>2, <2>3, WorldFrame
<1>5. CASE Clock
  <2>1. TypeOK' /\ UNCHANGED <<cyc, backlog, companyVars, stored, isNew>>
    BY <1>1, <1>5, StoreAssumption DEF Clock, Tick, TypeOK, StoreTypeOK
  <2>2. QED  BY <2>1, RowsStayFrame
<1>6. QED  BY <1>2, <1>3, <1>4, <1>5, SettingsStep DEF World

-----------------------------------------------------------------------------
LEMMA StepInv == Inv /\ [Next]_vars => Inv'
<1>1. SUFFICES ASSUME Inv, [Next]_vars PROVE Inv'
  OBVIOUS
<1>2. CASE UNCHANGED vars
  BY <1>1, <1>2 DEF vars, storeVars, companyVars, postingVars, runVars, cycleVars, worldVars,
     historyVars, Inv, TypeOK, StoreTypeOK, CycleFits, BacklogLasts, NewsOnlyAfterSeeding,
     BacklogIsNeverNews
<1>3. ASSUME NEW m \in Cycles, CycleStep(m) \/ Abort(m)
      PROVE  Inv'
  BY <1>1, <1>3, ReadingSteps, FailingSteps, UpsertStep, ArchiveMissingStep, StampStep,
     SweepSteps DEF CycleStep
<1>4. CASE World
  BY <1>1, <1>4, WorldStep
<1>5. QED  BY <1>1, <1>2, <1>3, <1>4 DEF Next

\* The cycles' inductive invariant.
THEOREM Invariance == Spec => []Inv
BY InitInv, StepInv, PTL DEF Spec

\* Every table, every cycle's locals and every setting keeps its type.
THEOREM TypeCorrect == Spec => []TypeOK
<1>1. Inv => TypeOK
  BY DEF Inv
<1>2. QED  BY <1>1, Invariance, PTL

\* However many cycles run and wherever they stop, only a seeded company has
\* news (monitor.py:12-15).
THEOREM NewsAfterSeeding == Spec => []NewsOnlyAfterSeeding
<1>1. Inv => NewsOnlyAfterSeeding
  BY DEF Inv
<1>2. QED  BY <1>1, Invariance, PTL

\* The board a company was seeded with never becomes news (monitor.py:12-15).
THEOREM BacklogStaysOld == Spec => []BacklogIsNeverNews
<1>1. Inv => BacklogIsNeverNews
  BY DEF Inv
<1>2. QED  BY <1>1, Invariance, PTL

-----------------------------------------------------------------------------
(* One cycle at a time: what appears after the seeding is news.            *)

OneCycle == \A m, n \in Cycles : m = n

\* A cycle alone is right about what is not seeded, for what it has still to do.
SnapshotExact(m) ==
    /\ cyc[m].at \in Relying => cyc[m].todo \cap cyc[m].unseeded \cap seeded = {}
    /\ cyc[m].at \in {"upsert", "stamp"} =>
          /\ cyc[m].company \notin cyc[m].todo
          /\ cyc[m].company \notin cyc[m].unseeded \cap seeded
          /\ cyc[m].payload \subseteq appeared

RowsAppeared == stored \subseteq appeared /\ board \subseteq appeared

LateAfterSeeding == \A p \in late : BoardOf[p] \in seeded \/ BoardOf[p] \notin watched

LateInv ==
    /\ Inv
    /\ \A m \in Cycles : SnapshotExact(m)
    /\ RowsAppeared
    /\ LateAfterSeeding
    /\ LateIsNews

LEMMA InitLate == Init => LateInv
<1>1. SUFFICES ASSUME Init PROVE LateInv
  OBVIOUS
<1>2. \A m \in Cycles : cyc[m].at = "idle"
  BY <1>1 DEF Init, Asleep
<1>3. \A m \in Cycles : SnapshotExact(m)
  BY <1>2 DEF SnapshotExact, Relying
<1>4. QED  BY <1>1, <1>3, InitInv
     DEF Init, StoreInit, LateInv, RowsAppeared, LateAfterSeeding, LateIsNews

\* A step that leaves rows and companies alone has only its cycle to answer for.
LEMMA QuietLate ==
  ASSUME LateInv, Inv', \A n \in Cycles : SnapshotExact(n)',
         UNCHANGED <<companyVars, stored, isNew, board, appeared, late>>
  PROVE  LateInv'
BY DEF LateInv, RowsAppeared, LateAfterSeeding, LateIsNews, companyVars

\* Steps of a cycle that go on with the companies it has not yet visited.
LEMMA OnwardExact ==
  ASSUME LateInv, NEW m \in Cycles, cyc[m].at \in Relying, seeded' = seeded,
         cyc'[m].at \notin {"upsert", "stamp"},
         cyc'[m].todo \subseteq cyc[m].todo, cyc'[m].unseeded = cyc[m].unseeded
  PROVE  SnapshotExact(m)'
BY DEF LateInv, SnapshotExact

LEMMA RestingExact ==
  ASSUME NEW m \in Cycles, cyc'[m].at \notin Relying
  PROVE  SnapshotExact(m)'
BY DEF SnapshotExact, Relying

LEMMA QuietLateSteps ==
  ASSUME OneCycle, LateInv, Inv', NEW m \in Cycles,
         \/ Start(m) \/ ListCompanies(m) \/ ReadCeiling(m) \/ ReadCountries(m)
         \/ Fetch(m) \/ FetchFails(m) \/ ReadRetention(m)
         \/ CallFails(m) \/ RecordFailure(m) \/ SweepFails(m) \/ Abort(m)
         \/ ArchiveMissing(m)
         \/ SweepRetention(m) \/ SweepExperience(m) \/ RestoreExperience(m)
  PROVE  LateInv'
<1>1. Inv /\ TypeOK /\ cyc[m] \in Local /\ SnapshotExact(m) /\ RowsAppeared
  BY DEF LateInv, Inv, TypeOK
<1>2. UNCHANGED <<companyVars, stored, isNew, board, appeared, late>>
  BY DEF Start, ListCompanies, ReadCeiling, ReadCountries, Fetch, FetchFails, ReadRetention,
         CallFails, RecordFailure, SweepFails, Abort, ArchiveMissing, SweepRetention,
         SweepExperience, RestoreExperience, storeVars, companyVars, postingVars, worldVars,
         historyVars, ArchivePostings, RestorePostings
<1>3. SUFFICES SnapshotExact(m)'
  BY <1>2, QuietLate DEF OneCycle
<1>4. seeded' = seeded /\ appeared' = appeared
  BY <1>2 DEF companyVars
<1>5. CASE Start(m)
  <2>1. cyc'[m] = [cyc[m] EXCEPT !.at = "list"]
    BY <1>1, <1>5 DEF Start, Goto, TypeOK
  <2>2. cyc'[m].at = "list"
    BY <1>1, <2>1 DEF Local
  <2>3. QED  BY <2>2, RestingExact DEF Relying
<1>6. CASE ListCompanies(m)
  <2>1. CASE active = {}
    BY <1>1, <1>6, <2>1, FinishType, RestingExact DEF ListCompanies, Asleep, Relying
  <2>2. CASE active # {}
    <3>1. cyc'[m] = [cyc[m] EXCEPT !.at = "ceiling", !.todo = active, !.began = now,
                            !.unseeded = Companies \ seeded, !.wanted = setting.wanted]
      BY <1>1, <1>6, <2>2 DEF ListCompanies, Become, TypeOK
    <3>2. cyc'[m].at = "ceiling" /\ cyc'[m].unseeded = Companies \ seeded
      BY <1>1, <3>1 DEF Local
    <3>3. QED  BY <1>4, <3>2 DEF SnapshotExact
  <2>3. QED  BY <2>1, <2>2
<1>7. CASE ReadCeiling(m) \/ ReadCountries(m) \/ FetchFails(m)
  <2> DEFINE Onward == /\ cyc'[m].at \notin {"upsert", "stamp"}
                       /\ cyc'[m].todo \subseteq cyc[m].todo
                       /\ cyc'[m].unseeded = cyc[m].unseeded
  <2>1. CASE ReadCeiling(m)
    <3>1. PICK value : cyc'[m] = [cyc[m] EXCEPT !.at = "countries", !.ceiling = value]
      BY <1>1, <2>1 DEF ReadCeiling, Become, TypeOK
    <3>2. Onward
      BY <1>1, <3>1 DEF Local
    <3>3. QED  BY <1>4, <2>1, <3>2, OnwardExact DEF ReadCeiling, At, Relying
  <2>2. CASE ReadCountries(m)
    <3>1. PICK value : cyc'[m] = [cyc[m] EXCEPT !.at = "next", !.allowed = value]
      BY <1>1, <2>2 DEF ReadCountries, Become, TypeOK
    <3>2. Onward
      BY <1>1, <3>1 DEF Local
    <3>3. QED  BY <1>4, <2>2, <3>2, OnwardExact DEF ReadCountries, At, Relying
  <2>3. CASE FetchFails(m)
    <3>1. PICK c : cyc'[m] = [cyc[m] EXCEPT !.at = "failed", !.todo = @ \ {c},
                                            !.company = c]
      BY <1>1, <2>3 DEF FetchFails, Become, TypeOK
    <3>2. Onward
      BY <1>1, <3>1 DEF Local
    <3>3. QED  BY <1>4, <2>3, <3>2, OnwardExact DEF FetchFails, At, Relying
  <2>4. QED  BY <1>7, <2>1, <2>2, <2>3
<1>8. CASE Fetch(m)
  <2>1. PICK c \in cyc[m].todo : \E fetched \in {OnBoard(c), {}} :
           Become(m, [cyc[m] EXCEPT !.at = "upsert", !.todo = @ \ {c}, !.company = c,
                          !.fetched = fetched, !.payload = Matched(m, fetched),
                          !.left = Matched(m, fetched)])
    BY <1>8 DEF Fetch
  <2>2. PICK fetched \in {OnBoard(c), {}} :
           Become(m, [cyc[m] EXCEPT !.at = "upsert", !.todo = @ \ {c}, !.company = c,
                          !.fetched = fetched, !.payload = Matched(m, fetched),
                          !.left = Matched(m, fetched)])
    BY <2>1
  <2>3. Matched(m, fetched) \subseteq appeared
    BY <1>1 DEF Matched, OnBoard, RowsAppeared
  <2>4. cyc'[m] = [cyc[m] EXCEPT !.at = "upsert", !.todo = @ \ {c}, !.company = c,
                          !.fetched = fetched, !.payload = Matched(m, fetched),
                          !.left = Matched(m, fetched)]
    BY <1>1, <2>2 DEF Become, TypeOK
  <2>5. /\ cyc'[m].company = c /\ cyc'[m].todo = cyc[m].todo \ {c}
        /\ cyc'[m].unseeded = cyc[m].unseeded /\ cyc'[m].payload = Matched(m, fetched)
    BY <1>1, <2>4 DEF Local
  <2>6. QED  BY <1>1, <1>4, <1>8, <2>3, <2>5 DEF Fetch, At, SnapshotExact, Relying
<1>9. CASE ReadRetention(m)
  <2>1. cyc'[m].at = "retention"
    BY <1>1, <1>9 DEF ReadRetention, Become, TypeOK, Local
  <2>2. QED  BY <2>1, RestingExact DEF Relying
<1>10. CASE CallFails(m)
  <2>1. cyc[m].at \in Relying /\ cyc'[m] = Dropped(m, "failed")
    BY <1>1, <1>10, FailsType DEF CallFails, At, Relying
  <2>2. cyc'[m].at = "failed" /\ cyc'[m].todo = cyc[m].todo /\ cyc'[m].unseeded = cyc[m].unseeded
    BY <1>1, <2>1 DEF Dropped, Local
  <2>3. QED  BY <1>4, <2>1, <2>2, OnwardExact
<1>11. CASE RecordFailure(m)
  <2>1. cyc[m].at \in Relying /\ cyc'[m] = [Dropped(m, "next") EXCEPT !.company = NoCompany]
    BY <1>1, <1>11, NextCompanyType DEF RecordFailure, At, Relying
  <2>2. cyc'[m].at = "next" /\ cyc'[m].todo = cyc[m].todo /\ cyc'[m].unseeded = cyc[m].unseeded
    BY <1>1, <2>1 DEF Dropped, Local
  <2>3. QED  BY <1>4, <2>1, <2>2, OnwardExact
<1>12. CASE SweepFails(m) \/ Abort(m) \/ SweepRetention(m) \/ RestoreExperience(m)
  <2>1. cyc'[m].at \notin Relying
    BY <1>1, <1>12, FinishType, AfterRetentionType
       DEF SweepFails, Abort, SweepRetention, RestoreExperience, Asleep, Relying
  <2>2. QED  BY <2>1, RestingExact
<1>13. CASE SweepExperience(m)
  <2>1. cyc'[m] = [cyc[m] EXCEPT !.at = "restore"]
    BY <1>1, <1>13 DEF SweepExperience, Goto, TypeOK
  <2>2. cyc'[m].at = "restore"
    BY <1>1, <2>1 DEF Local
  <2>3. QED  BY <2>2, RestingExact DEF Relying
<1>14. CASE ArchiveMissing(m)
  <2>1. CASE Goto(m, "stamp")
    <3>1. cyc'[m] = [cyc[m] EXCEPT !.at = "stamp"]
      BY <1>1, <2>1, GotoType DEF Steps
    <3>2. QED  BY <1>1, <1>4, <1>14, <3>1
          DEF ArchiveMissing, At, SnapshotExact, Relying, Local
  <2>2. CASE Fails(m)
    <3>1. cyc'[m] = Dropped(m, "failed")
      BY <1>1, <2>2, FailsType
    <3>2. cyc'[m].at = "failed" /\ cyc'[m].todo = cyc[m].todo
          /\ cyc'[m].unseeded = cyc[m].unseeded
      BY <1>1, <3>1 DEF Dropped, Local
    <3>3. QED  BY <1>4, <1>14, <3>2, OnwardExact DEF ArchiveMissing, At, Relying
  <2>3. QED  BY <1>14, <2>1, <2>2 DEF ArchiveMissing
<1>15. QED  BY <1>5, <1>6, <1>7, <1>8, <1>9, <1>10, <1>11, <1>12, <1>13, <1>14

LEMMA UpsertLate ==
  ASSUME OneCycle, LateInv, Inv', NEW m \in Cycles, UpsertChunk(m)
  PROVE  LateInv'
<1> DEFINE me == cyc[m]
           new == me.company \notin me.unseeded
<1>1. /\ Inv /\ TypeOK /\ me \in Local /\ CycleFits(m) /\ SnapshotExact(m)
      /\ RowsAppeared /\ LateAfterSeeding /\ LateIsNews
      /\ me.at = "upsert" /\ me.company \in watched
  BY DEF LateInv, Inv, TypeOK, UpsertChunk, At
<1>2. PICK part \in SUBSET me.left :
         /\ UpsertPostings(part, new, now)
         /\ Become(m, [me EXCEPT !.left = @ \ part]) \/ Fails(m)
  BY DEF UpsertChunk
<1>3. UNCHANGED <<companyVars, board, appeared, late>>
  BY DEF UpsertChunk, worldVars
<1>4. /\ stored' = stored \cup part
      /\ isNew' = IF new THEN isNew \cup (part \ stored) ELSE isNew
  BY <1>2 DEF UpsertPostings
<1>5. part \subseteq appeared /\ \A p \in part : BoardOf[p] = me.company
  BY <1>1 DEF CycleFits, SnapshotExact
<1>6. SnapshotExact(m)'
  <2>1. CASE Become(m, [me EXCEPT !.left = @ \ part])
    <3>1. cyc'[m] = [me EXCEPT !.left = @ \ part]
      BY <1>1, <2>1 DEF Become, TypeOK
    <3>2. /\ cyc'[m].at = me.at /\ cyc'[m].company = me.company /\ cyc'[m].todo = me.todo
          /\ cyc'[m].unseeded = me.unseeded /\ cyc'[m].payload = me.payload
      BY <1>1, <3>1 DEF Local
    <3>3. QED  BY <1>1, <1>3, <3>2 DEF SnapshotExact, companyVars
  <2>2. CASE Fails(m)
    <3>1. cyc'[m] = Dropped(m, "failed")
      BY <1>1, <2>2, FailsType
    <3>2. cyc'[m].at = "failed" /\ cyc'[m].todo = me.todo /\ cyc'[m].unseeded = me.unseeded
      BY <1>1, <3>1 DEF Dropped, Local
    <3>3. QED  BY <1>1, <1>3, <3>2, OnwardExact DEF Relying, companyVars
  <2>3. QED  BY <1>2, <2>1, <2>2
<1>7. LateIsNews'
  <2>1. SUFFICES ASSUME NEW p \in late, p \in part \ stored PROVE new
    BY <1>1, <1>3, <1>4 DEF LateIsNews
  <2>2. BoardOf[p] = me.company /\ me.company \in seeded
    BY <1>1, <1>5, <2>1 DEF LateAfterSeeding
  <2>3. QED  BY <1>1, <2>2 DEF SnapshotExact
<1>8. RowsAppeared' /\ LateAfterSeeding'
  BY <1>1, <1>3, <1>4, <1>5 DEF RowsAppeared, LateAfterSeeding, companyVars
<1>9. QED  BY <1>6, <1>7, <1>8 DEF LateInv, OneCycle

LEMMA StampLate ==
  ASSUME OneCycle, LateInv, Inv', NEW m \in Cycles, StampCompany(m)
  PROVE  LateInv'
<1> DEFINE me == cyc[m]
<1>1. /\ Inv /\ TypeOK /\ me \in Local /\ SnapshotExact(m)
      /\ RowsAppeared /\ LateAfterSeeding /\ LateIsNews /\ me.at = "stamp"
  BY DEF LateInv, Inv, TypeOK, StampCompany, At
<1>2. /\ seeded' = seeded \cup ({me.company} \cap me.unseeded)
      /\ NextCompany(m) \/ Fails(m)
      /\ UNCHANGED <<watched, stored, isNew, board, appeared, late>>
  BY DEF StampCompany, postingVars, worldVars
<1>3. cyc'[m].at \in {"failed", "next"} /\ cyc'[m].todo = me.todo
      /\ cyc'[m].unseeded = me.unseeded
  <2>1. CASE NextCompany(m)
    <3>1. cyc'[m] = [Dropped(m, "next") EXCEPT !.company = NoCompany]
      BY <1>1, <2>1, NextCompanyType
    <3>2. QED  BY <1>1, <3>1 DEF Dropped, Local
  <2>2. CASE Fails(m)
    <3>1. cyc'[m] = Dropped(m, "failed")
      BY <1>1, <2>2, FailsType
    <3>2. QED  BY <1>1, <3>1 DEF Dropped, Local
  <2>3. QED  BY <1>2, <2>1, <2>2
<1>4. SnapshotExact(m)'
  BY <1>1, <1>2, <1>3 DEF SnapshotExact, Relying
<1>5. RowsAppeared' /\ LateAfterSeeding' /\ LateIsNews'
  BY <1>1, <1>2 DEF RowsAppeared, LateAfterSeeding, LateIsNews
<1>6. QED  BY <1>4, <1>5 DEF LateInv, OneCycle

LEMMA WorldLate ==
  ASSUME LateInv, Inv', World
  PROVE  LateInv'
<1> USE DEF companyVars, cycleVars, worldVars, historyVars, storeVars, postingVars
<1>1. /\ Inv /\ TypeOK /\ RowsAppeared /\ LateAfterSeeding /\ LateIsNews
      /\ \A n \in Cycles : SnapshotExact(n)
  BY DEF LateInv, Inv
<1>2. ASSUME UNCHANGED <<cyc, companyVars, stored, isNew, board, appeared, late>>
      PROVE  LateInv'
  <2>1. \A n \in Cycles : SnapshotExact(n)'
    BY <1>1, <1>2 DEF SnapshotExact
  <2>2. QED  BY <1>2, <2>1, QuietLate
<1>3. ASSUME NEW p \in Postings, Publish(p)
      PROVE  LateInv'
  <2>1. \A n \in Cycles : SnapshotExact(n)'
    BY <1>1, <1>3 DEF Publish, SnapshotExact
  <2>2. RowsAppeared' /\ LateAfterSeeding' /\ LateIsNews'
    BY <1>1, <1>3 DEF Publish, RowsAppeared, LateAfterSeeding, LateIsNews
  <2>3. QED  BY <2>1, <2>2 DEF LateInv
<1>4. ASSUME NEW p \in Postings, Withdraw(p)
      PROVE  LateInv'
  <2>1. \A n \in Cycles : SnapshotExact(n)'
    BY <1>1, <1>4 DEF Withdraw, SnapshotExact
  <2>2. RowsAppeared' /\ LateAfterSeeding' /\ LateIsNews'
    BY <1>1, <1>4 DEF Withdraw, RowsAppeared, LateAfterSeeding, LateIsNews
  <2>3. QED  BY <2>1, <2>2 DEF LateInv
<1>5. ASSUME NEW c \in Companies, Delete(c)
      PROVE  LateInv'
  <2>1. \A n \in Cycles : SnapshotExact(n)'
    BY <1>1, <1>5 DEF Delete, DeleteCompany, SnapshotExact
  <2>2. RowsAppeared' /\ LateAfterSeeding' /\ LateIsNews'
    BY <1>1, <1>5 DEF Delete, DeleteCompany, RowsAppeared, LateAfterSeeding, LateIsNews
  <2>3. QED  BY <2>1, <2>2 DEF LateInv
<1>6. ASSUME \/ \E p \in Postings : Track(p) \/ Untrack(p)
             \/ \E c \in Companies : Toggle(c)
             \/ Settings \/ Clock
      PROVE  LateInv'
  <2>1. UNCHANGED <<cyc, companyVars, stored, isNew, board, appeared, late>>
    BY <1>6 DEF Track, Untrack, LinkPosting, UnlinkPosting, Toggle, Clock, Tick, Settings,
       SetMaxYears, HideOverYears, ShowWithinYears, SetCountries, HideOutsideCountries,
       ShowInsideCountries, SetRetentionOrRoles, ArchivePostings, RestorePostings
  <2>2. QED  BY <1>2, <2>1
<1>7. QED  BY <1>3, <1>4, <1>5, <1>6 DEF World

LEMMA StepLate == OneCycle /\ LateInv /\ Inv' /\ [Next]_vars => LateInv'
<1>1. SUFFICES ASSUME OneCycle, LateInv, Inv', [Next]_vars PROVE LateInv'
  OBVIOUS
<1>2. CASE UNCHANGED vars
  BY <1>1, <1>2 DEF vars, storeVars, companyVars, postingVars, cycleVars, worldVars,
     historyVars, LateInv, SnapshotExact, RowsAppeared, LateAfterSeeding, LateIsNews
<1>3. ASSUME NEW m \in Cycles, CycleStep(m) \/ Abort(m)
      PROVE  LateInv'
  BY <1>1, <1>3, QuietLateSteps, UpsertLate, StampLate DEF CycleStep
<1>4. CASE World
  BY <1>1, <1>4, WorldLate
<1>5. QED  BY <1>1, <1>2, <1>3, <1>4 DEF Next

\* With one cycle, a posting that first appears after its company's seeding is
\* news from the moment it is stored (monitor.py:12-15).
THEOREM LateComersAreNews == ASSUME OneCycle PROVE Spec => []LateIsNews
<1>1. Inv /\ [Next]_vars => Inv'
  BY StepInv
<1>2. LateInv => LateIsNews /\ Inv
  BY DEF LateInv
<1>3. LateInv /\ [Next]_vars => LateInv'
  BY <1>1, <1>2, StepLate
<1>4. QED  BY InitLate, <1>2, <1>3, PTL DEF Spec

-----------------------------------------------------------------------------
(* Action properties.                                                      *)

\* A board pass stores everything it matched before it archives, and archives
\* nothing of that (monitor.py:226-235).
THEOREM PassesNeverWipe == Spec => PassNeverWipes
<1> DEFINE Safe == \A m \in Cycles : ArchiveMissing(m) =>
              LET gone == archived' \ archived IN
              gone # {} => /\ {} # cyc[m].payload
                           /\ cyc[m].payload \cap gone = {}
                           /\ cyc[m].company \in watched => cyc[m].payload \subseteq stored
<1>1. Inv /\ [Next]_vars => [Safe]_vars
  <2>1. SUFFICES ASSUME Inv, NEW m \in Cycles, ArchiveMissing(m), archived' \ archived # {}
                 PROVE  /\ {} # cyc[m].payload
                        /\ cyc[m].payload \cap (archived' \ archived) = {}
                        /\ cyc[m].company \in watched => cyc[m].payload \subseteq stored
    OBVIOUS
  <2>2. archived' = archived \cup (Missing(cyc[m].company, cyc[m].payload) \ archived)
    BY <2>1 DEF ArchiveMissing, ArchivePostings
  <2>3. {} # cyc[m].payload /\ cyc[m].payload \cap (archived' \ archived) = {}
    BY <2>1, <2>2 DEF Missing
  <2>4. cyc[m].at = "upsert" /\ cyc[m].left = {}
    BY <2>1 DEF ArchiveMissing, At
  <2>5. cyc[m].company \in watched => cyc[m].payload \subseteq stored
    BY <2>1, <2>4 DEF Inv, CycleFits
  <2>6. QED  BY <2>3, <2>5
<1>2. QED  BY <1>1, Invariance, PTL DEF Spec, PassNeverWipes

\* What a step newly archives is of the set it archives, and is blamed on it.
LEMMA SweepsSpare ==
  ASSUME Inv, NEW p \in tracked, NEW what, NEW gone,
         ArchivePostings(gone), Blame(gone, what), p \in archived' \ archived
  PROVE  p \in gone /\ cause'[p] = what
<1>1. p \in Postings
  BY DEF Inv, TypeOK, StoreTypeOK
<1>2. p \in gone
  BY DEF ArchivePostings
<1>3. QED  BY <1>1, <1>2 DEF Blame

LEMMA CycleSpares ==
  ASSUME Inv, NEW p \in tracked, NEW m \in Cycles, CycleStep(m) \/ Abort(m),
         p \in archived' \ archived
  PROVE  cause'[p] = "board"
<1>1. CASE ArchiveMissing(m)
  BY <1>1, SweepsSpare DEF ArchiveMissing
<1>2. CASE SweepRetention(m)
  BY <1>2, SweepsSpare DEF SweepRetention, Stale
<1>3. CASE SweepExperience(m)
  BY <1>3, SweepsSpare DEF SweepExperience, OverExperience
<1>4. CASE UpsertChunk(m) \/ RestoreExperience(m)
  BY <1>4 DEF UpsertChunk, RestoreExperience, UpsertPostings, RestorePostings
<1>5. CASE \/ Start(m) \/ ListCompanies(m) \/ ReadCeiling(m) \/ ReadCountries(m)
           \/ Fetch(m) \/ FetchFails(m) \/ StampCompany(m) \/ CallFails(m)
           \/ RecordFailure(m) \/ ReadRetention(m) \/ SweepFails(m) \/ Abort(m)
  <2>1. archived' = archived
    BY <1>5 DEF Start, ListCompanies, ReadCeiling, ReadCountries, Fetch, FetchFails,
           StampCompany, CallFails, RecordFailure, ReadRetention, SweepFails, Abort,
           storeVars, postingVars
  <2>2. QED  BY <2>1
<1>6. QED  BY <1>1, <1>2, <1>3, <1>4, <1>5 DEF CycleStep

LEMMA WorldSpares ==
  ASSUME Inv, NEW p \in tracked, World, p \in archived' \ archived
  PROVE  cause'[p] = "board"
<1>1. CASE HideOverYears
  BY <1>1, SweepsSpare DEF HideOverYears, OverExperience
<1>2. CASE HideOutsideCountries
  BY <1>2, SweepsSpare DEF HideOutsideCountries
<1>3. CASE ShowWithinYears \/ ShowInsideCountries
  BY <1>3 DEF ShowWithinYears, ShowInsideCountries, RestorePostings
<1>4. CASE SetMaxYears \/ SetCountries \/ SetRetentionOrRoles \/ Clock
  BY <1>4 DEF SetMaxYears, SetCountries, SetRetentionOrRoles, Clock, Tick, storeVars,
        postingVars
<1>5. CASE \E q \in Postings : Publish(q) \/ Withdraw(q) \/ Track(q) \/ Untrack(q)
  BY <1>5 DEF Publish, Withdraw, Track, Untrack, LinkPosting, UnlinkPosting, storeVars,
        postingVars
<1>6. CASE \E c \in Companies : Toggle(c) \/ Delete(c)
  BY <1>6 DEF Toggle, Delete, DeleteCompany, storeVars, postingVars
<1>7. QED  BY <1>1, <1>2, <1>3, <1>4, <1>5, <1>6 DEF World, Settings

\* No sweep, of a cycle or of the user's settings, hides a tracked posting:
\* only a board pass that no longer sees it does (archive_stale_postings and
\* archive_over_experience exempt tracked rows, archive_missing_postings not).
THEOREM SweepsSpareTheTracked == Spec => TrackedSurvivesSweeps
<1> DEFINE Spared == \A p \in tracked : p \in archived' \ archived => cause'[p] = "board"
<1>1. Inv /\ [Next]_vars => [Spared]_vars
  BY CycleSpares, WorldSpares DEF Next
<1>2. QED  BY <1>1, Invariance, PTL DEF Spec, TrackedSurvivesSweeps

-----------------------------------------------------------------------------
(* The whole job board: cycles, the user and any number of alerts.         *)

\* What an alert sees of a step of the cycles or of the user.
Untouched == UNCHANGED <<pc, mark, batch, run, mailed, blind>>
Seen == Alert!Environment \/ UNCHANGED Alert!vars

\* The alert's view of the tables stays as it is.
LEMMA OutOfSight ==
  ASSUME UNCHANGED <<now, watched, stored, isNew, archived, firstSeen, stamp, runVars>>,
         gap' = gap \cup Overtaken, Untouched
  PROVE  Seen
<1>1. Overtaken = {}
  BY DEF Overtaken
<1>2. gap' = gap
  BY <1>1
<1>3. QED
  BY <1>2 DEF Seen, Untouched, runVars, Alert!vars, Alert!storeVars, Alert!companyVars,
     Alert!postingVars, Alert!runVars, Alert!senderVars, Alert!historyVars

\* Rows are archived, all of them live before, or restored.
LEMMA ArchivingIsSeen ==
  ASSUME NEW ps \in SUBSET (stored \ archived), ArchivePostings(ps),
         UNCHANGED <<now, companyVars, runVars>>, gap' = gap \cup Overtaken, Untouched
  PROVE  Seen
<1>1. Overtaken = {} /\ stored' = stored
  BY DEF Overtaken, ArchivePostings
<1>2. gap' = gap
  BY <1>1
<1>3. CASE ps = {}
  <2>1. archived' = archived
    BY <1>3 DEF ArchivePostings
  <2>2. QED
    BY <2>1, OutOfSight DEF ArchivePostings, companyVars
<1>4. CASE ps # {}
  <2>1. Alert!ArchivePostings(ps)
    BY DEF ArchivePostings, Alert!ArchivePostings
  <2>2. Alert!ArchiveSome
    BY <1>2, <1>4, <2>1 DEF Alert!ArchiveSome, Untouched, companyVars, runVars, Alert!companyVars,
       Alert!runVars, Alert!senderVars, Alert!historyVars
  <2>3. QED
    BY <2>2 DEF Seen, Alert!Environment
<1>5. QED
  BY <1>3, <1>4

LEMMA RestoringIsSeen ==
  ASSUME NEW ps \in SUBSET archived, RestorePostings(ps),
         UNCHANGED <<now, companyVars, runVars>>, gap' = gap \cup Overtaken, Untouched
  PROVE  Seen
<1>1. Overtaken = {} /\ stored' = stored
  BY DEF Overtaken, RestorePostings
<1>2. gap' = gap
  BY <1>1
<1>3. CASE ps = {}
  <2>1. archived' = archived
    BY <1>3 DEF RestorePostings
  <2>2. QED
    BY <2>1, OutOfSight DEF RestorePostings, companyVars
<1>4. CASE ps # {}
  <2>1. Alert!RestorePostings(ps)
    BY DEF RestorePostings, Alert!RestorePostings
  <2>2. Alert!RestoreSome
    BY <1>2, <1>4, <2>1 DEF Alert!RestoreSome, Untouched, companyVars, runVars, Alert!companyVars,
       Alert!runVars, Alert!senderVars, Alert!historyVars
  <2>3. QED
    BY <2>2 DEF Seen, Alert!Environment
<1>5. QED
  BY <1>3, <1>4

\* A committed chunk is the upsert of a transaction that began at once.
LEMMA UpsertIsSeen ==
  ASSUME Inv, TxLag \in Nat, NEW m \in Cycles, UpsertChunk(m),
         gap' = gap \cup Overtaken, Untouched
  PROVE  Seen
<1> DEFINE c == cyc[m].company
           new == c \notin cyc[m].unseeded
<1>1. PICK part \in SUBSET cyc[m].left :
         /\ Cardinality(part) = Chunk \/ (part = cyc[m].left /\ Cardinality(part) < Chunk)
         /\ UpsertPostings(part, new, now)
  BY DEF UpsertChunk
<1>2. /\ cyc[m].at = "upsert" /\ cyc[m].left # {} /\ c \in watched /\ new \in BOOLEAN
      /\ UNCHANGED <<now, companyVars, runVars>>
  BY DEF UpsertChunk, At
<1>3. part # {}
  BY <1>1, <1>2, FS_EmptySet, CycleAssumption
<1>4. part \in SUBSET {p \in Postings : BoardOf[p] = c}
  BY <1>1, <1>2 DEF Inv, TypeOK, Local, CycleFits
<1>5. now \in Time \ {0} /\ now - TxLag <= now /\ now <= now
  BY StoreAssumption DEF Inv, TypeOK, StoreTypeOK, Time
<1>6. Alert!UpsertPostings(part, new, now)
  BY <1>1 DEF UpsertPostings, Alert!UpsertPostings
<1>7. Overtaken = IF \E r \in Runs : runStatus[r] = "sent" /\ finishedAt[r] >= now
                  THEN part \ stored ELSE {}
  <2>1. stored' \ stored = part \ stored
    BY <1>1 DEF UpsertPostings
  <2>2. \A p \in part \ stored : firstSeen'[p] = now
    BY <1>1, <1>4 DEF UpsertPostings
  <2>3. QED
    BY <2>1, <2>2 DEF Overtaken
<1>8. gap' = IF \E r \in Runs : runStatus[r] = "sent" /\ finishedAt[r] >= now
             THEN gap \cup (part \ stored) ELSE gap
  BY <1>7
<1> HIDE DEF c, new
<1>9. Alert!Upsert
  <2>1. UNCHANGED <<now, Alert!companyVars, Alert!runVars, Alert!senderVars, mailed, blind>>
    BY <1>2 DEF Untouched, companyVars, runVars, Alert!companyVars, Alert!runVars, Alert!senderVars
  <2>2. now \in Alert!Time \ {0}
    BY <1>5 DEF Time, Alert!Time
  <2>3. QED
    BY <1>2, <1>3, <1>4, <1>5, <1>6, <1>8, <2>1, <2>2 DEF Alert!Upsert
<1>10. QED
  BY <1>9 DEF Seen, Alert!Environment

LEMMA DeleteIsSeen ==
  ASSUME NEW c \in Companies, Delete(c), gap' = gap \cup Overtaken, Untouched
  PROVE  Seen
<1>1. Overtaken = {}
  BY DEF Overtaken, Delete, DeleteCompany
<1>2. gap' = gap
  BY <1>1
<1>3. Alert!DeleteCompany(c)
  BY DEF Delete, DeleteCompany, RowsOf, Alert!DeleteCompany, Alert!RowsOf
<1>4. c \in watched /\ UNCHANGED <<now, runVars>>
  BY DEF Delete, DeleteCompany
<1>5. Alert!RemoveCompany
  BY <1>2, <1>3, <1>4 DEF Alert!RemoveCompany, Untouched, runVars, Alert!runVars,
     Alert!senderVars, Alert!historyVars
<1>6. QED
  BY <1>5 DEF Seen, Alert!Environment

LEMMA ClockIsSeen ==
  ASSUME Clock, gap' = gap \cup Overtaken, Untouched
  PROVE  Seen
<1>1. Overtaken = {}
  BY DEF Overtaken, Clock, Tick, postingVars
<1>2. gap' = gap
  BY <1>1
<1>3. Alert!Clock
  BY <1>2 DEF Clock, Tick, Untouched, companyVars, postingVars, runVars, Alert!Clock, Alert!Tick,
     Alert!companyVars, Alert!postingVars, Alert!runVars, Alert!senderVars, Alert!historyVars
<1>4. QED
  BY <1>3 DEF Seen, Alert!Environment

\* The steps of a cycle that read, fail or stamp a company.
LEMMA QuietCycleIsSeen ==
  ASSUME NEW m \in Cycles,
         \/ Start(m) \/ ListCompanies(m) \/ ReadCeiling(m) \/ ReadCountries(m)
         \/ Fetch(m) \/ FetchFails(m) \/ StampCompany(m) \/ CallFails(m) \/ RecordFailure(m)
         \/ ReadRetention(m) \/ SweepFails(m) \/ Abort(m),
         gap' = gap \cup Overtaken, Untouched
  PROVE  Seen
<1>1. UNCHANGED <<now, watched, stored, isNew, archived, firstSeen, stamp, runVars>>
  BY DEF Start, ListCompanies, ReadCeiling, ReadCountries, Fetch, FetchFails, StampCompany,
     CallFails, RecordFailure, ReadRetention, SweepFails, Abort, storeVars, companyVars, postingVars
<1>2. QED
  BY <1>1, OutOfSight

LEMMA SweepIsSeen ==
  ASSUME Inv, NEW m \in Cycles,
         ArchiveMissing(m) \/ SweepRetention(m) \/ SweepExperience(m) \/ RestoreExperience(m),
         gap' = gap \cup Overtaken, Untouched
  PROVE  Seen
<1>1. UNCHANGED <<now, companyVars, runVars>>
  BY DEF ArchiveMissing, SweepRetention, SweepExperience, RestoreExperience
<1>2. CASE ArchiveMissing(m)
  <2> DEFINE gone == Missing(cyc[m].company, cyc[m].payload) \ archived
  <2>1. ArchivePostings(gone)
    BY <1>2 DEF ArchiveMissing
  <2>2. gone \in SUBSET (stored \ archived)
    BY DEF Missing, RowsOf
  <2> HIDE DEF gone
  <2>3. QED  BY <1>1, <2>1, <2>2, ArchivingIsSeen
<1>3. CASE SweepRetention(m)
  <2> DEFINE gone == Stale(cyc[m].window) \ archived
  <2>1. ArchivePostings(gone)
    BY <1>3 DEF SweepRetention
  <2>2. gone \in SUBSET (stored \ archived)
    BY DEF Stale
  <2> HIDE DEF gone
  <2>3. QED  BY <1>1, <2>1, <2>2, ArchivingIsSeen
<1>4. CASE SweepExperience(m)
  <2> DEFINE gone == OverExperience(cyc[m].ceiling) \ archived
  <2>1. ArchivePostings(gone)
    BY <1>4 DEF SweepExperience
  <2>2. gone \in SUBSET (stored \ archived)
    BY DEF OverExperience
  <2> HIDE DEF gone
  <2>3. QED  BY <1>1, <2>1, <2>2, ArchivingIsSeen
<1>5. CASE RestoreExperience(m)
  <2> DEFINE back == WithinExperience(cyc[m].ceiling, setting.window)
  <2>1. RestorePostings(back)
    BY <1>5 DEF RestoreExperience
  <2>2. back \in SUBSET archived
    BY DEF WithinExperience
  <2> HIDE DEF back
  <2>3. QED  BY <1>1, <2>1, <2>2, RestoringIsSeen
<1>6. QED
  BY <1>2, <1>3, <1>4, <1>5

LEMMA SettingsAreSeen ==
  ASSUME Settings, gap' = gap \cup Overtaken, Untouched
  PROVE  Seen
<1>1. CASE SetMaxYears \/ SetCountries \/ SetRetentionOrRoles
  <2>1. UNCHANGED <<now, watched, stored, isNew, archived, firstSeen, stamp, runVars>>
    BY <1>1 DEF SetMaxYears, SetCountries, SetRetentionOrRoles, storeVars, companyVars, postingVars
  <2>2. QED  BY <2>1, OutOfSight
<1>2. CASE HideOverYears
  <2> DEFINE gone == OverExperience(setting.maxYears) \ archived
  <2>1. ArchivePostings(gone) /\ UNCHANGED <<now, companyVars, runVars>>
    BY <1>2 DEF HideOverYears
  <2>2. gone \in SUBSET (stored \ archived)
    BY DEF OverExperience
  <2> HIDE DEF gone
  <2>3. QED  BY <2>1, <2>2, ArchivingIsSeen
<1>3. CASE HideOutsideCountries
  <2> DEFINE gone == {p \in (stored \ tracked) \ archived :
                         Country[p] # Unknown /\ Country[p] \notin setting.countries}
  <2>1. ArchivePostings(gone) /\ UNCHANGED <<now, companyVars, runVars>>
    BY <1>3 DEF HideOutsideCountries
  <2>2. gone \in SUBSET (stored \ archived)
    OBVIOUS
  <2> HIDE DEF gone
  <2>3. QED  BY <2>1, <2>2, ArchivingIsSeen
<1>4. CASE ShowWithinYears
  <2>1. \E ps \in SUBSET archived : RestorePostings(ps)
    BY <1>4 DEF ShowWithinYears
  <2>2. UNCHANGED <<now, companyVars, runVars>>
    BY <1>4 DEF ShowWithinYears
  <2>3. QED  BY <2>1, <2>2, RestoringIsSeen
<1>5. CASE ShowInsideCountries
  <2>1. \E ps \in SUBSET archived : RestorePostings(ps)
    BY <1>5 DEF ShowInsideCountries
  <2>2. UNCHANGED <<now, companyVars, runVars>>
    BY <1>5 DEF ShowInsideCountries
  <2>3. QED  BY <2>1, <2>2, RestoringIsSeen
<1>6. QED
  BY <1>1, <1>2, <1>3, <1>4, <1>5 DEF Settings

\* Publish, Withdraw, Track, Untrack and Toggle write nothing an alert reads.
LEMMA WorldIsSeen ==
  ASSUME World, gap' = gap \cup Overtaken, Untouched
  PROVE  Seen
<1>1. ASSUME NEW p \in Postings, Publish(p) \/ Withdraw(p) \/ Track(p) \/ Untrack(p)
      PROVE  Seen
  <2>1. UNCHANGED <<now, watched, stored, isNew, archived, firstSeen, stamp, runVars>>
    BY <1>1 DEF Publish, Withdraw, Track, Untrack, LinkPosting, UnlinkPosting,
       storeVars, companyVars, postingVars
  <2>2. QED  BY <2>1, OutOfSight
<1>2. ASSUME NEW c \in Companies, Toggle(c)
      PROVE  Seen
  <2>1. UNCHANGED <<now, watched, stored, isNew, archived, firstSeen, stamp, runVars>>
    BY <1>2 DEF Toggle, storeVars, companyVars, postingVars
  <2>2. QED  BY <2>1, OutOfSight
<1>3. QED
  BY <1>1, <1>2, DeleteIsSeen, SettingsAreSeen, ClockIsSeen DEF World

\* Every step of the cycles and of the user is one AlertSend allows for.
LEMMA CycleOrUserIsSeen ==
  ASSUME Inv, TxLag \in Nat, CycleOrUserStep
  PROVE  Seen
<1>1. Next /\ gap' = gap \cup Overtaken /\ Untouched
  BY DEF CycleOrUserStep, Untouched
<1>2. ASSUME NEW m \in Cycles, CycleStep(m) \/ Abort(m)
      PROVE  Seen
  BY <1>1, <1>2, QuietCycleIsSeen, UpsertIsSeen, SweepIsSeen DEF CycleStep
<1>3. QED
  BY <1>1, <1>2, WorldIsSeen DEF Next

-----------------------------------------------------------------------------
\* A run in an alert's hands is a run or none.
BoardInv == Inv /\ run \in [Senders -> Runs \cup {NoRun}]

\* An alert changes the stamps and the runs, which the cycles never read.
LEMMA AlertStepFrame ==
  ASSUME BoardInv, AlertStep
  PROVE  BoardInv'
<1>1. PICK s \in Senders : Alert!SenderStep(s)
  BY DEF AlertStep
<1>2. TypeOK /\ run \in [Senders -> Runs \cup {NoRun}]
  BY DEF BoardInv, Inv
<1>3. UNCHANGED <<now, watched, seeded, stored, isNew, archived, tracked, firstSeen,
                  cycleVars, worldVars, historyVars>>
  <2>1. UNCHANGED <<seeded, tracked, cycleVars, worldVars, historyVars>>
    BY DEF AlertStep
  <2>2. UNCHANGED <<now, watched, stored, isNew, archived, firstSeen>>
    BY <1>1 DEF Alert!SenderStep, Alert!ReadWatermark, Alert!ReadPostings, Alert!OpenRun,
       Alert!OpenRunUnanswered, Alert!CloseSkipped, Alert!MailGoesOut, Alert!MailFails,
       Alert!CloseSent, Alert!CloseFailed, Alert!Abandon, Alert!CreateAlertRun,
       Alert!CloseAlertRun, Alert!storeVars, Alert!companyVars, Alert!postingVars
  <2>3. QED  BY <2>1, <2>2
<1>4. /\ stamp' \in [Postings -> Runs \cup {NoRun}]
      /\ runStatus' \in [Runs -> RunStatus] /\ finishedAt' \in [Runs -> Time]
      /\ run' \in [Senders -> Runs \cup {NoRun}]
  <2> USE <1>2 DEF TypeOK, StoreTypeOK, RunStatus
  <2>1. CASE Alert!ReadWatermark(s) \/ Alert!ReadPostings(s) \/ Alert!MailGoesOut(s)
             \/ Alert!MailFails(s)
    BY <2>1 DEF Alert!ReadWatermark, Alert!ReadPostings, Alert!MailGoesOut, Alert!MailFails,
       Alert!storeVars, Alert!postingVars, Alert!runVars
  <2>2. CASE Alert!OpenRun(s) \/ Alert!OpenRunUnanswered(s)
    BY <2>2 DEF Alert!OpenRun, Alert!OpenRunUnanswered, Alert!CreateAlertRun, Alert!Rest,
       Alert!postingVars
  <2>3. CASE Alert!CloseSkipped(s) \/ Alert!CloseSent(s) \/ Alert!CloseFailed(s)
    <3>1. PICK status \in {"skipped", "sent", "failed"}, ids \in {{}, batch[s]} :
             Alert!CloseAlertRun(run[s], status, ids) /\ Alert!Rest(s)
      BY <2>3 DEF Alert!CloseSkipped, Alert!CloseSent, Alert!CloseFailed
    <3>2. now \in Time
      BY DEF Time
    <3>3. QED
      BY <3>1, <3>2 DEF Alert!CloseAlertRun, Alert!Rest
  <2>4. CASE Alert!Abandon(s)
    BY <2>4 DEF Alert!Abandon, Alert!Rest, Alert!storeVars, Alert!postingVars, Alert!runVars
  <2>5. QED
    BY <1>1, <2>1, <2>2, <2>3, <2>4 DEF Alert!SenderStep
<1>5. TypeOK'
  BY <1>2, <1>3, <1>4 DEF TypeOK, StoreTypeOK, cycleVars, worldVars, historyVars
<1>6. /\ \A m \in Cycles : CycleFits(m)'
      /\ BacklogLasts' /\ NewsOnlyAfterSeeding' /\ BacklogIsNeverNews'
  BY <1>3 DEF BoardInv, Inv, CycleFits, BacklogLasts, NewsOnlyAfterSeeding, BacklogIsNeverNews,
     cycleVars, worldVars, historyVars
<1>7. QED
  BY <1>4, <1>5, <1>6 DEF BoardInv, Inv

LEMMA BoardInvStarts == BoardInit => BoardInv
BY InitInv DEF BoardInit, BoardInv, Alert!Init

LEMMA BoardInvStays == BoardInv /\ [CycleOrUserStep \/ AlertStep]_boardVars => BoardInv'
<1>1. CASE BoardInv /\ CycleOrUserStep
  BY <1>1, StepInv DEF BoardInv, CycleOrUserStep
<1>2. CASE BoardInv /\ AlertStep
  BY <1>2, AlertStepFrame
<1>3. CASE BoardInv /\ UNCHANGED boardVars
  BY <1>3, StepInv DEF BoardInv, boardVars
<1>4. QED
  BY <1>1, <1>2, <1>3

\* The cycles keep what is proved of them beside any number of alerts.
THEOREM CyclesKeepBesideAlerts ==
  BoardSpec => [](TypeOK /\ NewsOnlyAfterSeeding /\ BacklogIsNeverNews)
<1>1. BoardInv => TypeOK /\ NewsOnlyAfterSeeding /\ BacklogIsNeverNews
  BY DEF BoardInv, Inv
<1>2. QED
  BY <1>1, BoardInvStarts, BoardInvStays, PTL DEF BoardSpec

\* To the alerts, the cycles and the user are the writers that AlertSend puts
\* around them: the job board implements AlertSend.
THEOREM AlertsMeetTheirEnvironment ==
  ASSUME TxLag \in Nat
  PROVE  BoardSpec => BoardImplementsAlert
<1>1. BoardInit => Alert!Init
  BY DEF BoardInit
<1>2. BoardInv /\ [CycleOrUserStep \/ AlertStep]_boardVars => [Alert!Next]_Alert!vars
  <2>1. ASSUME BoardInv, CycleOrUserStep
        PROVE  [Alert!Next]_Alert!vars
    BY <2>1, CycleOrUserIsSeen DEF BoardInv, Seen, Alert!Next
  <2>2. ASSUME AlertStep
        PROVE  [Alert!Next]_Alert!vars
    BY <2>2 DEF AlertStep, Alert!Next
  <2>3. ASSUME UNCHANGED boardVars
        PROVE  UNCHANGED Alert!vars
    BY <2>3 DEF boardVars, vars, storeVars, companyVars, postingVars, runVars, Alert!vars,
       Alert!storeVars, Alert!companyVars, Alert!postingVars, Alert!runVars, Alert!senderVars,
       Alert!historyVars
  <2>4. QED
    BY <2>1, <2>2, <2>3
<1>3. QED
  BY <1>1, <1>2, BoardInvStarts, BoardInvStays, PTL DEF BoardSpec, BoardImplementsAlert, Alert!Spec
=============================================================================
