# A formal model of apply-tools

apply-tools is a personal job-search system: a platform (FastAPI over Postgres,
`backend/`) with a Next.js front end (`frontend/`), an agent service
(`agent_server/`) that watches career pages and mails alerts (the Job Board)
and that researches companies as leads (the lead pipeline), a generation
service in the platform that writes letters and grades résumés through a chain
of LLM providers, and a browser extension. These TLA+ modules model the parts
of it that several actors write concurrently, that must survive failed calls,
or whose arithmetic is easy to get wrong, and say what is checked by TLC and
what is proved by TLAPS. Paths are relative to `src/`.

## Inventory

### Job Board

| part | state | operations | interacts with |
|---|---|---|---|
| Platform store, `backend/db.py:901-1356`, `frontend/prisma/schema.prisma:284-372` | tables WatchedCompany (active, seededAt, status), JobPosting (isNew, alertRunId, archivedAt, jobApplicationId, firstSeenAt), AlertRun (status, finishedAt) | upsert, archive missing / stale / over experience, restore, list unalerted, open and close an alert run, watermark | everyone; one transaction per function |
| Monitor, `agent_server/jobboard/monitor.py` | the work list, ceiling and country list of the cycle in hand | run_monitor_cycle: per company fetch, filter, upsert, archive missing, stamp; then two sweeps | store through HTTP calls that fail before or after their effect; career pages |
| Alert, `agent_server/jobboard/alert.py`, `mailer.py` | watermark, batch and run id of the attempt | send_alert: read, open run, mail, close run | store through HTTP; SMTP |
| UI actions, `frontend/src/app/job-board/actions.ts` | settings | change a setting (and archive and restore at once), toggle, delete, dismiss, track, set the schedule | store, directly; scheduler, by a reload request |
| Scheduler, `jobboard/scheduler.py`, `api/jobboard.py`, `config.py` | the APScheduler in the module global, its jobs | start, reload, shutdown; cron, startup and manual jobs | starts monitor and alert in threads; settings over HTTP |
| Run bookkeeping, `agent_server/jobboard/db.py` | the agent's run tables | start_run, finish_run, record_company | read by the dashboards |
| Matcher, parsers, ATS adapters | none | text in, postings out | inputs of the monitor |

What makes it correct: a posting is reported as news exactly when it first
appeared after its company was seeded; what an alert does not report is carried
to the next; nothing is marked reported that no mail listed; a page that fails
to render wipes nothing; what the user tracks no sweep retires; what the user
sets as schedule is what fires. What makes it hard: nothing excludes two cycles
or two alerts (`max_instances=1` is per job); every step is a remote call that
can take effect and still report failure; the user edits the same rows; seeding
is decided from a snapshot; one column, `archivedAt`, stands for four reasons to
hide a posting; the watermark and the stamps are two records of the same fact;
a reload takes the scheduler down before it knows that it can start another.

### Lead pipeline

| part | state | operations | interacts with |
|---|---|---|---|
| Orchestrator, `agent_server/orchestrator/loop.py`, `runner.py`, `api/app.py` | the candidates and the counter of the hunt in hand | start_hunt, run_pipeline: discover, deduplicate, then per candidate fit, research, verify, deliver, count | agent database; platform over HTTP; any number of hunts at a time |
| Discovery, `agents/discovery.py`, `agents/sources/` | a conversation with the model | three structured sources, an open-web tool loop, merge by domain | LLM, web search, pages |
| Fit gate, research, verification, `stages/fit_gate.py`, `agents/research.py`, `stages/verify.py` | the facts found so far | one candidate to a lead: gate, tool loop, gap filling, scores; waterfall of e-mail providers | LLM, web, provider APIs, SMTP |
| Delivery, `stages/deliver.py` | none of its own | deliver: outbox row, push, mark, seen entry; retry_pending | outbox; platform; nothing in the code calls retry_pending |
| Agent database, `db/agent_db.py` | outbox, seen_cache, jobs, audit log; checkpoints | one transaction per function | hunts, retries, streams, the user's drop |
| Platform intake, `backend/db.py:631-863`, `server.py` | Lead rows, keyed by domain and by e-mail; person-leads of founders | leads/exists, leads/upsert (two transactions), delete | one worker thread per request, which runs on when its client gives up |
| Event stream, `api/app.py:196-257`, `leads/HuntPanel.tsx` | the last row sent; what the panel shows | polls audit log and job status | races with the writes of hunts |
| Contact agent and roster, `agents/contact.py`, `agents/roster.py`, `api/app.py` | addresses found; futures on a pool | find one person's address; find those of a company's people under a deadline | LLM, web, providers; threads outlive the request |

What makes it correct: a verified lead is never lost after its outbox row and
is marked sent only once the platform has it; a company that was delivered,
skipped or dropped is not pursued again; what a hunt reports as verified is
there; a hunt ends and who watches it sees all of it in order; no failing
source, model or field costs what others found; an address is the right
person's. What makes it hard: the row, the push, the mark, the seen entry and
the counter are five writes in two databases; a push that timed out may still
be running when it is repeated; deduplication reads the cache long before the
delivery writes it; the intake has no unique key for founders; the model may
ask for anything in batches across the cap of its loop; a deadline meets
futures in every state.

### Tracker, generation, extension

| part | state | operations | interacts with |
|---|---|---|---|
| Application tracker, `backend/db.py:227-493`, `server.py:587-800`, `actions.ts:160-202`, `leads/LeadsRow.tsx` | JobApplication, Lead, their links, the posting's jobApplicationId; timers of the page | create, delete, link, unlink, edit, Track, delete with Undo | foreign keys and unique columns of Postgres |
| Provider chain, `backend/generate.py:354-965` | quotas of the providers | one call walks primary and chain until a provider replies | six providers |
| Rubric, `generate.py:1314-1483` | none | clean the model's lists, compose a score with caps | inputs from the model |
| Generation endpoints, `server.py:351-531`, `generate.py`, `resume_ai.py`, `resume_render.py`, `latex_utils.py` | Application rows (a log) | letters, scores, extraction, builder helpers, PDF; score of all résumés on a pool | the popup waits a limited time |
| Chat tab, `extension/popup.js:1870-1983`, `/chat` | the transcript, in memory and in storage | send, receive, clear, close, reopen | Bedrock's Converse API |

What makes it correct: a posting is tracked once; links never dangle; an undone
delete never happens; a generation fails only for a reason; a résumé without a
must-have does not read as a good one; the ranking follows merit; a chat can go
on after a failure. What makes it hard: Track is three statements, linking two;
which error moves the chain on is read off the words of its message; quotas are
shared by parallel calls; ids in a model's reply are repeated, padded or
missing; the popup gives up while the service works on.

### Not modelled

See the end of this file.

## Modules

| module | models |
|---|---|
| `PostingStore` | the three tables, one operator per function of `db.py` (and per UI statement) that writes them; no behaviour of its own |
| `AlertSend` | extends it: alert jobs as processes, one step per platform call, and the other writers as an environment |
| `MonitorCycle` | extends it: monitor jobs as processes, boards that change, the user's settings requests in their several statements |
| `RunBooks` | extends `AlertSend`: the alert's run row in the agent database, every exit of `send_alert` with its `finish_run`; implements `AlertSend` |
| `JobBoard` | extends `MonitorCycle`: cycles, the user and alerts over one set of tables; implements `AlertSend` |
| `JobSchedule` | scheduler and reload requests; the cron expressions of a schedule |
| `LeadDelivery` | abstract: what the outbox promises, at-least-once delivery |
| `LeadIntake` | the platform's leads and the request handlers that write them |
| `LeadPipeline` | extends it: hunts, pushes and retries as processes, the agent database, faults; implements `LeadDelivery` |
| `ToolLoop` | the bounded tool-use conversation and the web search that discovery and research share |
| `LeadSearch` | extends it: discovery |
| `CandidateStudy` | extends that: fit gate, research and verification of a candidate |
| `HuntEvents` | writers of the audit log, event streams, panels |
| `ContactSearch` | contact agents and the endpoint that runs one |
| `CompanyRoster` | extends it: the roster request, its thread pool and deadline |
| `Tracker` | applications, leads, links, Track clicks, link requests, the undoable delete |
| `ProviderChain` | LLM calls that walk the chain over shared providers |
| `Rubric` | the grading arithmetic, as operators |
| `Generation` | extends both: requests, scoring threads, ranking, log |
| `Chat` | popup, service and API of the chat tab |
| `MC...` | constants for TLC |
| `AlertSend_proofs`, `MonitorCycle_proofs`, `JobSchedule_proofs`, `LeadPipeline_proofs`, `CandidateStudy_proofs`, `CompanyRoster_proofs`, `Tracker_proofs`, `Generation_proofs` | theorems |

`PostingStore`. A posting is a (company, dedup key) pair, since that is the unique
index; a column that is only ever NULL or not NULL is a set of postings
(`isNew`, `archived`, `tracked`), one that is read back is a function
(`firstSeen`, `stamp`). The clock is a counter; two events may share a tick.
Timestamps that Postgres takes at the start of a transaction are a parameter
(`t` of `UpsertPostings`).

`AlertSend`. `pc[s]` is the point in `send_alert` before its next call, and
`mark`, `batch`, `run` its local variables `window_start`, `postings`,
`run_id`. A call that fails without effect ends the attempt (`Abandon`); a
call that took effect and whose reply was lost is `OpenRunUnanswered` for the
create, and for a close is the same as the close followed by an end. The
process may die at any step: also `Abandon`. `MailGoesOut` puts the batch in the
history variable `mailed`, then the session either ends well or breaks. The
environment (`Upsert`, `ArchiveSome`, `RestoreSome`, `Dismiss`,
`RemoveCompany`) is wider than the monitor and the UI: any committed upsert, any
archiving. `JobBoard` is where it is shown to contain the cycles of
`MonitorCycle` and its user. `blind` and `gap` record which postings an alert could not see.

`RunBooks`. `row[s]` is the status of the `jobboard_runs` row of the attempt,
`due[s]` what the `finish_run` of the exit that was taken is about to write.
`ReadFails`, `CreateFails`, `Skips`, `Rejected`, `Stamped` and `StampFails` are the
exits of `send_alert` (`alert.py:64-138`), each over the platform calls of
`AlertSend` that lead to it, with and without an effect of the failed call, and
each with the status the code gives there: an alert with nothing to say is a
success even when its AlertRun could not be recorded, one whose mail went out but
whose close failed is not. `FinishRun` is a step of its own, since the row is in
another database; `Dies` is the death of the process, a `finish_run` that fails or
anything else that is raised, after which the row stays 'running' for good.
`found` and `claimed` are history: what the attempt read, and what
attempts with a 'succeeded' row had read.

`MonitorCycle`. `cyc[m]` is a record of the cycle's local state and of the
step it is at. `unseeded` and `wanted` are what `list_companies` returned, so
they are snapshots; `ceiling` and `allowed` are read next and fall open when the
read fails; `Fetch` may return nothing; `UpsertChunk` is one request and
transaction; `Fails` after an effect is the lost reply. `CallFails` covers a
refusal: an over-long key list, a company deleted in between. `Abort` is the
death of the process. `Publish` and `Withdraw` change the boards. `ui` is the
part of a settings request that is still to run. `late`, `backlog`, `appeared`
and `cause` are history. The company's own role filter is the set of
postings it matches (`setting.wanted`), and a change of it is seen by the next
cycle. ATS detection and run counters are left out.

`JobBoard`. A step is one of `MonitorCycle`'s or one of an alert; the two
share the tables and nothing else, as in the code, where they are jobs of one
scheduler that reach the platform over HTTP. `Alert` is `AlertSend` with
`seeded` and `tracked` left out of its view (no call of `send_alert` reads
either). Upserts of `MonitorCycle` commit in the tick they begin in, the case 0
of `TxLag`. The module is proved about and has no run: its parts have theirs.

`JobSchedule`. A plan is a window, a step and alert times; `ScanHours` is
`monitor_hours_expr`, written out as the set of hours it names. `live` holds
every scheduler that runs, with its plan and jobs, `current` the one in the
module global. A reload passes `ReloadEnters`, `ReloadStops`, `ReloadResolves`
and `ReloadStarts`, which other requests' steps may separate: FastAPI runs the
handler in a thread pool and the module takes no lock. `Resolutions` is
`resolve_schedule`: the saved plan, or the environment's if the settings cannot
be read. `Refused` is APScheduler's refusal of a step wider than its field.
`overlapped` and `stale` are history. What a job does when it fires is the
subject of `MonitorCycle` and `RunBooks`, where any number of cycles and alerts
may start at any time; so the job that runs once at startup and the trigger
endpoints add nothing there, and are left out here. Days of the week and time
zones are data.

`LeadIntake`. A handler is a thread of the platform: it stores the company
(`UpsertCompany`), then looks up and inserts the founder (`FindFounder`,
`InsertFounder`; any failure there is swallowed, as in the code), then replies.
`HangUp` is a client that stops waiting, which does not stop the handler. What
a lead says is represented by the outbox row it came from (`lead[d]`), so that
an old payload over a newer one is visible. `EmailTaken` is the unique e-mail.
`founders[d]` counts the person-leads that the look-up would match; a row the user
deletes, or edits so that it no longer matches, leaves the count (`DeleteFounder`).
That research names the same founder each time is assumed: another name is
another founder, and rightly another row.

`LeadPipeline`. `hunt[h]` is the local state of `run_pipeline` and the step it
is at, `push[x]` the local state of `_attempt`, `retry[x]` the rows a
`retry_pending` has yet to push. `CheckSeen` is one cache look-up, which fails
open; `AskPlatform` and `SeedSeen` are the rest of deduplication;
`NextCandidate` stands for fit, research and verification, whose outcome is
arbitrary here (it is `CandidateStudy`'s subject) and which touch nothing
shared; `QueueLead` writes the outbox row, after which a dry run stops;
`Post`, `Answered`, `TimesOut` are one HTTP call, `MarkSent`, `RecordSeen` and
`MarkFailed` the transactions after it. `CandidateFails` is the inner `except`,
`Break` the outer. `AgentDies` ends all hunts at once; a retry is a process of
its own. `faults` counts what goes wrong. `barred` and `missed` are history: the
cache when a hunt was accepted, and the look-ups that failed.

`ToolLoop`, `LeadSearch`, `CandidateStudy`. A conversation is the sequence of
the model's tool-asking turns, each with the number of its tool_use blocks and
of the results they got; the cap counts results and is looked at between turns
only. What a model, a page or a provider says is chosen freely from small sets:
`Lists` for a source, `Says` for a research answer (with `odd` for a field of
the wrong type), `Verdicts` for an e-mail provider. The study is sequential, so
one action is one stage or one request: `FillProfile`, `FillAttributes` and
`ScoreFit` are the passes after the loop, `FinishResearch` builds the record,
which refuses an odd field, and `ResearchFails` is the `except` that falls back
to what came with the candidate. `HunterPick` is the choice among the people
Hunter lists; `SameName` and `BearsName` are those whose record or address holds a
name of the founder. Scores are percent, `Confidence` hundredths of a percent.

`HuntEvents`. An audit row is its position in the log and its hunt; `Page` is
one page of `audit_since`, `Since` the same in order. `stream[p].last` is the
generator's `last_id`; `ReadRows` and `ReadStatus` are its two polls, with a wait
between. A hunt writes rows and then ends in the order of `loop.py`: the done row before the
status, the failed status before the error row, each write able to fail. The
panel may lose the connection, be reloaded, or start another hunt; the agent
may die and start again. `MaxRows` bounds the log. Its specification is called
`EventsSpec`, because `CandidateStudy_proofs` extends it beside `CandidateStudy`.

`ContactSearch`, `CompanyRoster`. Each contact agent is a process with its
tool calls and the addresses found; `Decisions` is `_finalize` over what the
model answers, `BestOf` the fallback over what the tools found. The endpoint
falls through to the waterfall when the agent gives no address or fails. The
roster runs one agent per survivor on `Workers` threads: `future` is the state
of each, `queue` the submitted, `batch` what one `wait` returned and the
request goes through. `Answer` is the deadline or the end; it cancels what is
queued (`CancelQueued`) and lists the rest (`LeftOver`), and threads at work run on.
An agent may stay in a step for ever.

`Tracker`. Rows are functions on the ids drawn so far; an application
remembers the posting it was made from. A Track click is three statements, a
link request two, each a step; a click may be cut off between them
(`TrackDies`). Deleting cascades as the foreign keys say. `rows[l]` is what the
page's row of a lead is doing: hidden with the timer running, kept by an Undo,
the request sent, an Undo that came late. `slipped` is history: postings whose
Tracks overlapped or were cut off.

`ProviderChain`, `Rubric`, `Generation`. A call's `asked` is the list of hops it
took, each with a provider and whether it was given the caller's model. An
outcome is a class of reply or of error message: `busy` holds a trigger
word, `absent` speaks of missing credentials, `garbled` is a reply that does not
parse or lacks a key, `muddled` one whose error quotes a trigger word,
`shapeless` a reply that only the check after the walk refuses, `hard` anything
else. A provider's quota is shared.
`Rubric` translates the two functions exactly, in integers: status values in
half points, percent rounded half to even as Python's `round` does, a tenth of
it rounded half up. The sum over the items is taken tier by tier, as the number
of items there with points, and `Ranking`, the sort of the rows by score, says
of every row how many stand before it. A request names its operation by `Op`: how many calls it
makes, whether the payload is checked after the walk, whether it renders and
logs, how many hops fit into the popup's wait. `Scores(r)` is one thread of
`score_jd_fit_all`.

`Chat`. A message is its role. The transcript is in memory and in storage; the
popup may close at any time, which loses the reply to a request under way.
`Accepts` is what the comment at `generate.py:1246` says Converse requires.

Mutants. Operators marked "Mutant", or that stand just before the operator they
vary, are versions of it with a plausible bug. They are unused; `PROJECT.json`
says which property finds each.

## Runs

| run | shows | instance |
|---|---|---|
| `alert_one` | the properties of the alert for one job | 2 postings, 2 runs, clock to 3, a stamp limit of 1 so that an over-long list occurs; every exit of the attempt with its run row |
| `monitor_one` | the properties of the cycle for one job | 1 board, 2 postings, one above the limit and of an earlier day, with the day filter on |
| `monitor_sweeps` | tracked postings survive all sweeps; a started cycle ends | 1 posting, a clock that runs past the shorter of two windows, a limit and a country list that exclude it |
| `leads_one` | the properties of the lead pipeline | 2 hunts, the second dry, 1 retry in batches of 1, 1 company, 2 worker threads, 1 fault |
| `study_one` | the properties of discovery, research and verification | 2 domains, lists of up to 2, batches of 2 under a cap of 3, 3 people of whom two bear the founder's name, one profile |
| `tracker_one` | the properties of the tracker | 2 applications and 2 leads drawn, 1 posting, 2 clicks, 1 link request, 1 e-mail |
| `schedule_one` | the properties of the scheduler | a window over midnight with two alert times, and one scan a day; 3 reloads, 4 schedulers |
| `schedule_stops` | finding: `AlwaysScheduled` fails | the same |
| `events_one` | the properties of the stream | 2 hunts, 1 panel, 5 rows in pages of 2 |
| `roster_one` | the properties of the roster | 5 listed of whom one is of no relevant role and two share a name, at most 3 people, 2 threads, and one look-up beside them |
| `generate_one` | the properties of calls, grades and requests | 1 request of 3 kinds, 2 résumés on 2 threads, 2 providers with a quota of 1, two possible primaries, one of them a name the code does not know; 7 gradings |
| `chat_stuck` | finding: `RetryIsAConversation` fails | transcripts of up to 8 messages |

Bounds. `MaxClock` bounds time, `Runs` the number of alert attempts that open a
run, `Chunk`, `ArchiveCap` and `StampCap` scale the limits of 500, 2000 and 2000
down to 1 or 2 so that they are reached. Two postings are enough to have one
that is reported and one that is not, one stored and one still in a later chunk,
one live and one vanished. Two runs give a watermark and an alert after it. Two
ticks separate a transaction's start from its commit, the third puts a
watermark between. A cycle can run any number of times; nothing counts cycles.
`TxLag` (1) is how far an upsert's start may lie behind its commit.

In the lead runs `MaxRows` is hunts times companies, so the guard of
`QueueLead` never binds. `MaxFaults` bounds what goes wrong in a behaviour: one
fault can hit any step of any process, and is enough for a row that arrived and
is marked failed, for a dead hunt with its handler still at work, for a refused
look-up. Two worker threads, with a first push that timed out and a second beside
it, let two handlers look the founder up before either inserts it, so that
`FoundersPerThread` is met with equality. No e-mail is taken in this instance (with
two companies and an address in dispute TLC does not end in time); a refused push
is one of the faults, and the theorems cover taken e-mails. The theorems cover any number of faults, hunts, rows and companies for
the safety properties; the bounds limit only what is known of liveness.

In `study_one` a cap of 3 and batches of 2 make the cap fall inside a batch. Two
domains give a merge with and without a repetition; of the three people one is
the founder, one has an address that fits, one neither. In `schedule_one` the two plans are a window that
wraps and does not divide by its step, with two times of different minutes, and
the plan whose step is refused; `MaxSchedulers` allows three reloads after a
start; two are what an overlap needs, and a third meets what it leaves behind. In `events_one` five rows of two hunts in pages
of two make pages that end inside a hunt's rows. In `roster_one` three survivors
on two threads leave one queued when the deadline comes. In `generate_one` a
quota of one makes parallel calls meet refusals that each alone would not; the
gradings hold five must-haves with none, one and two missing, a repeated entry,
padded ids, a dropped sixth and an unusable rubric.

Deadlock is checked except in three runs in which the system really stops: a
study is delivered (`study_one`), a roster is answered and its agents are done or
hung (`roster_one`), all requests are answered (`generate_one`). The lead
pipeline may stop for good, and then only by `Quiet`: everything hunted, nothing
left to retry, no request at work.

Fairness. `monitor_sweeps` assumes weak fairness of a cycle's own steps, which
the thread that runs it gives as long as the process lives (every call has a
timeout, so each returns or fails). Calls, boards and the user are under no
assumption, and a crash is always possible. `leads_one` assumes the same
of hunts, pushes and handlers (`Running`): tasks that await calls with
a timeout, and worker threads. Nothing is assumed of `retry_pending`, which
nothing in the code calls: that a lead whose first push failed arrives at last is
therefore not claimed. A process that is killed is a fault
and has no fairness. `study_one` assumes weak fairness of the study: it runs in
one thread, and every model, search and provider call has a timeout.
`events_one` assumes it of hunts and of streams, threads and tasks of the agent
that go on with what they began, not of the user, the network or the process. `roster_one` assumes it of
the request's own steps only; its deadline makes them possible whatever the
agents do, and an agent may hang. `generate_one` assumes it of each request and
each scoring thread: every provider call has a timeout. A LaTeX compilation has
none (`latex_utils.py`); the model assumes that it exits.

What the passing properties say:

- `StampedWasMailed`, `SentIsStamped`, `StampIsFinal`: the stamp is an exact,
  final record of what went out, over every failure and overlap.
- `GapOnlyInFlight`: the exact extent of the loss behind the watermark: only a
  posting that was not live, or not committed, when a sent alert read.
- `SuccessWasReported`: the run history in the agent database never calls a
  success an alert that lost what it read, although the two databases share no
  transaction and either answer may be lost.
- `SentMailsDisjoint`: with one alert job, nothing is listed in two sent mails.
- `NewsOnlyAfterSeeding`, `BacklogIsNeverNews`: the matched board of a seeding
  pass never enters the news, for broken-off and overlapping passes too.
- `LateIsNews`: with one job, what first appears after the seeding is news.
- `PassNeverWipes`: archiving follows complete storing; an empty page, or a
  failed chunk, archives nothing.
- `TrackedSurvivesSweeps`: only a board pass can hide a tracked posting.
- `CycleEnds`: no failure keeps a cycle going for ever.
- `DeliversAtLeastOnce`: the steps of the pipeline are steps of `LeadDelivery`
  or invisible to it: no row disappears, no mark runs ahead of the platform, and
  what the platform stored is not forgotten when a later transaction fails.
- `VerifiedIsQueued`: the count, written after push and marks, is covered by
  rows and stays within the target.
- `SeenIsNotPursued`: what was in the cache at the start of a hunt is not
  queued by it, although the cache is read per candidate, fails open, and is
  written by everybody.
- `FoundersPerThread`: what is left of "idempotent" in the founder's upsert when
  requests overlap, as they do on a thread pool: handlers that look up at the same time
  each insert a row, and nothing else does, so that a founder never has more than
  one row per worker thread, over repeated pushes, handlers that outlive their
  client and rows the user deletes.
- `HuntEnds`: an accepted hunt ends, with its push.
- `NothingListedIsLost`: whatever part of discovery fails, what the others
  listed is in the result, once per domain, the open web's entry first.
- `RequestsAreAnswered`: no request to a model leaves a tool call unanswered,
  wherever the cap falls.
- `FundingIsCarried`: funding from a structured source survives research that
  fails, contradicts it or returns a field of the wrong type.
- `NoStrangersAddress`: an address Hunter gives for a named founder bears one of his names.
- `StudyEnds`: caps and the waterfall's end bound every study.
- `OneApplicationPerPosting`: Track is idempotent over repetitions and
  deletions, unless two Tracks of the posting overlap or one is cut off.
- `NothingDangles`: the keys and the look-ups together keep links and postings
  pointing at rows that exist.
- `RepliedIsStamped`: the derived reply date follows every sequence of edits.
- `UndoneInTimeIsKept`: cancelling the timer is enough.
- `OnlyOverlapsLeak`, `SavedIsInForce`: the only way to two schedulers is two
  overlapping reloads; the only ways to a schedule other than the saved one
  are an unread setting, a lost or overlapped reload, or a refused plan.
- `FiresAsSet`: the union of a schedule's cron jobs is exactly its alert times,
  and its scans lie in the window and leave no hole wider than the step.
- `ShownIsAPrefix`, `StreamEnds`: streams lose, repeat and reorder nothing, and
  end unless the hunt's end was never recorded.
- `EveryoneIsListedOnce`, `NoSearchBeginsLate`, `RosterAnswers`: the deadline
  splits the people cleanly, stops paying for them, and holds.
- `FailuresAreEarned`: a walk stops early only on an error that is neither an
  overload nor a missing fallback, and a log that is down costs nothing.
- `MustHavesBind`, `RankedByMerit`: an uncovered must-have caps the score in
  whatever shape the reply comes, and better coverage never ranks lower.
- `RequestsEnd`: requests and the ranking end, whatever providers do.

## Disagreements

Two are runs of kind "violation", with the sentences they contradict in
`PROJECT.json`.

`schedule_stops`: a schedule of one scan a day is saved and reloaded; the
reload stops the old scheduler, the new one is refused by APScheduler, and
nothing is scheduled. The user is told that the schedule was updated or saved;
further reloads return at once, since no scheduler is left to replace, and the
next start of the agent fails.

`chat_stuck`: in TLC's trace the popup is closed and opened again while a turn waits
for its answer; the turn is in the stored transcript, its answer is lost, and the
next chat request holds two user turns in a row, which Bedrock refuses. That turn
failed, and stays in the transcript too; so every request after it is refused, until the
transcript is cleared. A turn that fails for any other reason has the same effect. Once a transcript has more than 50 messages, the service's own limit
refuses it for good.

These were seen while modelling and have no run of their own.

Job Board.
- A posting can lie behind the watermark for good, if it was archived when an
  alert read or was committed between the read and the close (`db.py:1168`;
  `alert.py:5-8` says it is carried on). `GapOnlyInFlight` is the exact extent.
- Two overlapping alerts mail the same posting (`alert.py:62`; `schema.prisma:337`
  says never twice); `SentMailsDisjoint` holds for one job only, and is proved for it.
- `send_alert` "never raises" (`alert.py:50`), but its `start_run` and `finish_run`
  may, outside every `try`; the row then stays 'running', and nothing closes rows
  at start-up (`Dies`). The scheduler and the trigger endpoint log the exception and
  go on (`scheduler.py:85`, `api/jobboard.py:59`).
- A late posting is stored as backlog by an overlapping cycle (`monitor.py:228`);
  `LateIsNews` holds for one job only.
- The experience sweep restores postings that a board pass had archived
  (`db.py:1339`, against its docstring).
- A company seeded from a page that came back empty has its whole board
  reported as news by the next cycle (`monitor.py:242`; the header, lines 12-15).
- With the default day filter, a posting of yesterday that is still on the board
  is archived as vanished (`monitor.py:196`, `232`; `db.py:1118`).
- The patch that persists a detected adapter is refused by the platform's
  schema, so detection runs on every cycle (`monitor.py:183`).

Lead pipeline.
- A re-sent row brings back a deleted lead or old content (`deliver.py:79-80`
  calls it harmless).
- Two overlapping requests insert a founder twice (`db.py:662-664` calls the upsert
  idempotent, and says that it runs in the company's transaction, which it does not,
  `db.py:841`). `FoundersPerThread` is the exact extent.
- A lead whose e-mail is on a hand-entered contact is refused for ever and
  holds up the rows behind it: the retry takes the oldest rows up to a limit
  (`agent_db.py:355`; `db.py:806`; `deliver.py:3`). And nothing calls `retry_pending`.
- retry_pending pushes the pending rows of dry runs (`deliver.py:82`;
  `api/app.py:97` promises "no platform push").
- A hunt whose process dies stays 'running' (`loop.py:325`); its stream polls
  for ever, and a lost stream leaves the panel "active" until it is reloaded.
- `done` may come while the last rows are unread, since the rows are polled
  before the status (`api/app.py:211-245`; lines 206-207 promise the full
  timeline).
- A research record with one mistyped field loses all but the carried funding
  (`research.py:627`, `200`).
- A fit-gate reply that cannot be parsed scores 0.0 and skips the company,
  though the gate is said to fail open (`fit_gate.py:47-61`).
- The contact agent's "could not confirm" is to be respected
  (`contact.py:337-338`), but the endpoint then takes the waterfall's address
  (`api/app.py:315-323`); and among guesses of different quality `_best_of`
  may prefer a personal address if its score is high enough
  (`contact.py:366-368` says never).
- "Find emails" reports a lead as found without looking at the reply to its
  PATCH, and overwrites an address typed meanwhile (`LeadsTable.tsx:88`).
- The page fetcher follows redirects to sites it must not read
  (`web/page_fetch.py`); the Gemini client drops tool_use blocks from the
  conversation and keeps one access token for its life (`gemini_llm.py`).

Tracker.
- Two overlapping Tracks create two applications (`actions.ts:158` says
  idempotent); `OneApplicationPerPosting` names the condition.
- Undo after the 4.5 s timer has fired shows the row again although its delete
  is under way (`LeadsRow.tsx:110-131`).
- Linking a lead that is linked already answers with the requested role, while
  the stored one stays (`server.py:677-684`).
- A PATCH with a null status passes the check and fails in the database
  (`server.py:622`).

Generation.
- A provider name the code does not know is served by the default provider,
  which the chain then asks again; a primary without credentials raises
  although fallbacks have them (`generate.py:952-954`); a missing client library
  ends the walk (`generate.py:754`); a bad reply that quotes a trigger word
  counts as overload.
- Rubric ids with blanks around them find no coverage and count as "no"
  (`generate.py:1349-1408`).
- The popup's wait (60, 180 or 50 s) is shorter than a walk of six hops of 45 or
  15 s, and what it no longer waits for is still generated and logged.
- The check for an empty résumé in `score_profile` cannot be reached; the
  letter's sanitiser escapes the braces of its own `\textbackslash{}`.

## Proofs

`AlertSend_proofs` proves for any companies, postings, runs, alert jobs and
bounds, from `StoreAssumption` and `SenderAssumption` alone, that
`Spec` implies `[]TypeOK` (`TypeCorrect`), `[]StampedWasMailed`
(`ReportedOnlyByMail`), `[]SentIsStamped` (`SentMeansStamped`),
`[]GapOnlyInFlight` (`LossIsBounded`) and `StampIsFinal` (`StampsAreFinal`).

None of the invariants is inductive alone. The invariant `Inv` of that module
adds what the sender's local state means: a run in hand is 'pending' and in the
hands of one sender only (`RunOwned`); between the mail and the close the run's
mail is the sender's batch (`AcceptedMailed`); what was read or mailed stays
stored unless its company goes (`ReadsLast`); a watermark in hand is 0 or the end
of a sent run (`TimesFit`); what a read left out of its batch, though live, was
already behind the watermark (`LeftOutIsBehind`). The last two are why closing
a run loses nothing but `blind` postings. Each action has a step of its own in the proof of
`Invariance`. Under the hypothesis that there is one sender, `OneJobRepeatsNothing`
proves `[]SentMailsDisjoint`, which fails for two: its invariant `Apart` adds that the batch in
the sender's hands has nothing in common with any mail that was sent.

The same module proves of `RunBooks`, for any number of alerts, that it implements
`AlertSend` (`BooksKeepTheAlert`), so that all of this holds of the attempts with
their rows, and `[]SuccessWasReported` (`SuccessIsReported`). Its invariant says
what an attempt with a batch in hand has found, and that an attempt about to
report success found nothing or has it stamped; stamps being final, no later step
can take that back.

`MonitorCycle_proofs` proves from `StoreAssumption` and `CycleAssumption`, for
any number of cycles: `[]TypeOK` (`TypeCorrect`), `[]NewsOnlyAfterSeeding`
(`NewsAfterSeeding`), `[]BacklogIsNeverNews` (`BacklogStaysOld`),
`PassNeverWipes` (`PassesNeverWipe`), `TrackedSurvivesSweeps`
(`SweepsSpareTheTracked`); and, under the hypothesis `OneCycle` (any two cycles
are the same), `[]LateIsNews` (`LateComersAreNews`), which fails without it.

Its invariant `Inv` adds to the two properties `CycleFits`: a company a cycle
takes for seeded is seeded (a snapshot may only err the other way, since
`seededAt` is never cleared), the payload in hand is of the company in hand,
and the part of it that has left the cycle's hands is stored; and
`BacklogLasts`: the backlog is in the table as long as its company is, so that
a later upsert refreshes it instead of creating it as news. `StoreLasts` is the
fact about every step that both rest on: rows go only with their company. For
one cycle `LateInv` adds `SnapshotExact`, the converse of the first part: what
the cycle takes for unseeded, and has yet to do, is unseeded.

The same module proves of `JobBoard` that it implements `AlertSend`
(`AlertsMeetTheirEnvironment`), step by step: a chunk is an `Upsert` whose transaction
began at once, a sweep is `ArchiveSome` or `RestoreSome`, a deletion is
`RemoveCompany`, and seeding, tracking and settings are stutters of the alert's
view. Only the chunk needs `Inv` (that the payload is of the company in hand).
So the theorems of `AlertSend_proofs`, which hold among all such writers, hold
beside the real ones. `CyclesKeepBesideAlerts` is the other half: an alert changes
nothing that the cycles' invariant speaks of.

`LeadPipeline_proofs` proves from `IntakeAssumption` and `PipelineAssumption`,
for any number of hunts, retries, threads, companies and faults: `[]TypeOK`
(`TypeCorrect`), and that the pipeline implements `LeadDelivery`
(`OutboxImplementsDelivery`). Its invariant `Inv` says what the control states
mean: whoever pushes holds a row on record, and after a reply 200 a row the
platform has stored (`CallerFits`); a handler at work carries a row on record,
stored once it is past its first transaction (`HandlerFits`); and a client waits for one
handler at most, with that handler's row (`OneHandlerEach`), which is what
makes a reply an answer to the right row. With it each step is a move of
`LeadDelivery` or a stutter: the first transaction delivers, `MarkSent`
acknowledges, `MarkFailed` withdraws.

The same module proves `[]VerifiedIsQueued` (`VerifiedHaveRows`),
`[]SeenIsNotPursued` (`SeenStaysUnpursued`) and `[]FoundersPerThread`
(`FoundersAreFew`), for any finite set of threads. The last needs that a founder's rows
and the handlers about to insert one are together no more than the threads: a handler
decides to insert only where there is no row.
`Counted` strengthens the first: the count, plus one while a row is on its way to
being counted, is at most the number of rows, and strictly below the target until
a candidate is counted. `Unpursued` strengthens the second: of all a hunt may
still queue, nothing barred has passed its look-up, because the cache only grows.

`Tracker_proofs` proves from `TrackerAssumption`, for any number of rows,
postings, clicks and requests: `[]TypeOK` (`TypeCorrect`), `[]NothingDangles`
(`LinksHold`), `[]OneApplicationPerPosting` (`TrackedOnce`),
`[]RepliedIsStamped` (`ReplyStamped`) and `UndoneInTimeIsKept` (`UndoHolds`).
`IInv` adds `RunningOnes`, what a request that runs holds, and `Unslipped`: on a
posting where nothing slipped one Track runs at a time, it found the posting
unlinked, and every application made from the posting is linked or about to be.
The second half is what makes the next Track's look at `jobApplicationId` say
all there is to know. The last two theorems have invariants of their own.

`JobSchedule_proofs` proves from `ScheduleAssumption`, for any set of schedules
with hours, steps and alert times as the settings form allows them, and any
number of requests: `[]TypeOK` (`TypeIsSafe`), `[]OnlyOverlapsLeak`
(`LeaksAreOverlaps`), `[]SavedIsInForce` (`SavesAreInForce`) and `[]FiresAsSet`
(`SchedulesFireAsSet`).
`IInv` adds what the handler's missing lock leaves true: while no two requests
have overlapped there is one at a time and no scheduler but the current one
(`OneAtATime`), and one that was alone all along has read what is saved
(`AloneMeansInForce`). `JobsOfThePlan` says that the jobs of a scheduler are
those of its schedule. That this schedule fires in the hours it names, and every
`step` hours, is arithmetic on `ScanHours`, with windows that pass midnight as a
case of their own.

`CompanyRoster_proofs` proves from `ContactAssumption` and `RosterAssumption`, for
any people, threads and findings: `[]TypeOK` (`TypeIsSafe`), `[]EveryoneIsListedOnce`
(`EveryoneListedOnce`) and the action property `NoSearchBeginsLate`
(`NoneBeginsLate`). What a `wait` returned and the request has not gone through is
not listed yet, and an answered request has an empty queue (`Phases`): with the
two, neither a late completion nor the deadline can list a person again.

`CandidateStudy_proofs` proves from the assumptions of `ToolLoop`, `LeadSearch`
and `CandidateStudy`, for any caps, batches and lists: `[]TypeOK` (`TypeIsSafe`),
`[]NothingListedIsLost` (`DiscoveryLosesNothing`), `[]RequestsAreAnswered`
(`NoBlockIsUnanswered`), `[]FundingIsCarried` (`FundingReachesTheLead`) and
`[]NoStrangersAddress` (`FounderGetsHisOwn`). `BatchesFit` says where a tool_use block
may still lack its tool_result: in the last turn, while its batch is executed.
The merge of the sources is a filter of a list, and what a filter keeps is a fact
about a recursive function, which would need an induction; `NthPlace` goes round
it by numbering the places that are kept with cardinalities.

The module also extends `HuntEvents`, and proves `[]ShownIsAPrefix` of
`HuntEvents` (`StreamsShowPrefixes`) from `EventsAssumption`, for any number of
panels and hunts and any page size. `EventsInv` adds `StreamFits`: while a stream
is open its panel has shown exactly the rows up to the stream's `last`, and cannot
turn to another hunt. A page leaves out no row before one of its own
(`PageHasNoGap`), and a row written between two polls comes after all that were
shown (`TraceKeeps`).

`Generation_proofs` proves from the assumptions of `ProviderChain`, `Rubric` and
`Generation`, for any providers and fallbacks, requests, résumés and replies of
the model: `[]TypeOK` (`TypeIsSafe`), `[]FailuresAreEarned` (`NoUnearnedFailure`),
`[]MustHavesBind` (`MissingMustHavesCap`) and `[]RankedByMerit` (`RankingIsByMerit`).
`Walked` is what a call's record says of the chain: it was taken from the start,
in order, and a call that raised stopped where the code stops. `RequestInv` and
`LogInv` tie the requests to the replies they render and log. The score is shown to grow
with coverage (`PointsGrow`, `ShareGrows`, `HundredGrows`), rounding included
(`RoundKeepsOrder`), and no cap to be passed (`CapsBind`); the ranking puts every
résumé in one place, higher scores first (`PlacesAreTaken`, `InOrderOnce`).

Theorems about overlapping processes hold for any number of them, so that the
runs with one alert job or one monitor job are instances of what is proved for
several, except where a theorem names its hypothesis.

Left to TLC: the runs that find a violation; and the
liveness properties (`CycleEnds`, `HuntEnds`, `StudyEnds`,
`StreamEnds`, `RosterAnswers`, `RequestsEnd`), which are out of the prover's reach.
So is induction over data: where a proof would need one, the definition counts
(`Cardinality`) instead of folding, or the proof numbers places.

## Not modelled, and plan

Not modelled, because there is no state to get wrong or it is text: prompts,
parsing of pages and postings, the ATS adapters, normalisation of names and
domains, LaTeX, the PDF's looks; the import and migration scripts, which run once
and alone; the form filler of the extension, which works on one page's DOM; the
front end's pages and editors, which save one row per call; the health and list
endpoints, which only read. External, and modelled from their use:
Postgres's keys and transactions, APScheduler, the thread pool, SMTP, the LLM
providers and Converse.

Next, in order of importance:

1. A run of `JobBoard`, on an instance small enough for both at once.
2. ATS detection and its refused patch; the company form.
3. Composition of `CandidateStudy` into `LeadPipeline`, whose `NextCandidate` is
   its abstraction.
