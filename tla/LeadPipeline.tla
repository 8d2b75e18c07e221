---------------------------- MODULE LeadPipeline ----------------------------
(***************************************************************************)
(* The lead pipeline of the agent server: hunts (orchestrator/loop.py) that *)
(* discover, deduplicate, research and deliver companies; the outbox and   *)
(* its retries (stages/deliver.py); the seen-cache and the job rows of the *)
(* agent database (db/agent_db.py).  Hunts run as background tasks, any    *)
(* number at a time; retry_pending has no caller in the code and is run by *)
(* the operator.  Every database call and request is a step; what it reads *)
(* may be stale when the next step uses it.                                *)
(*                                                                         *)
(* faults counts what goes wrong: a lost request or reply, an exception of *)
(* a stage or of the agent database, the death of a process.               *)
(***************************************************************************)
EXTENDS LeadIntake, FiniteSets

CONSTANTS Hunts,      \* job ids
          Retriers,   \* processes that call retry_pending
          Target,     \* [Hunts -> Nat \ {0}]: target_count
          DryRun,     \* hunts started with dry_run
          RetryLimit, \* limit of outbox_retryable
          MaxFaults   \* bound on faults

ASSUME PipelineAssumption ==
    /\ Callers = Hunts \cup Retriers /\ Hunts \cap Retriers = {}
    /\ Target \in [Hunts -> Nat \ {0}]
    /\ DryRun \subseteq Hunts
    /\ RetryLimit \in Nat \ {0}
    /\ IsFiniteSet(Slots)
    /\ MaxFaults \in Nat

VARIABLES seen,       \* domains in seen_cache
          rows,       \* number of outbox rows: the last id
          rowStatus,  \* status of each outbox row, "none" before it exists
          about,      \* its domain
          owner,      \* its job_id
          job,        \* status of each jobs row, "none" before it exists
          verified,   \* its verified_count
          hunt,       \* the local state of run_pipeline
          retry,      \* the rows a retry_pending has yet to push
          push,       \* the local state of _attempt
          dropping,   \* deleted leads whose seen/drop call is under way
          barred,     \* history: the seen-cache when a hunt was accepted
          missed,     \* history: domains whose cache look-up failed
          faults

outboxVars == <<rows, rowStatus, about, owner>>
jobVars == <<job, verified>>
localVars == <<hunt, retry, push>>
historyVars == <<barred, missed>>
vars == <<intakeVars, seen, outboxVars, jobVars, localVars, dropping, historyVars, faults>>

HuntSteps == {"off", "begin", "check", "seed", "loop", "skip", "queue", "push",
              "progress", "over"}
HuntState == [at : HuntSteps, found : SUBSET Domains, novel : SUBSET Domains,
              known : SUBSET Domains, todo : SUBSET Domains,
              domain : Domains \cup {NoDomain}, counts : BOOLEAN]
Off == [at |-> "off", found |-> {}, novel |-> {}, known |-> {}, todo |-> {},
        domain |-> NoDomain, counts |-> FALSE]

PushSteps == {"idle", "post", "wait", "sent", "seen", "failed"}
Push == [at : PushSteps, row : Rows \cup {0}]
Idle == [at |-> "idle", row |-> 0]

TypeOK ==
    /\ IntakeTypeOK
    /\ seen \subseteq Domains
    /\ rows \in 0..MaxRows
    /\ rowStatus \in [Rows -> {"none", "pending", "sent", "failed"}]
    /\ about \in [Rows -> Domains \cup {NoDomain}]
    /\ owner \in [Rows -> Hunts \cup {NoCaller}]
    /\ job \in [Hunts -> {"none", "pending", "running", "succeeded", "failed"}]
    /\ verified \in [Hunts -> Nat]
    /\ hunt \in [Hunts -> HuntState]
    /\ retry \in [Retriers -> SUBSET Rows]
    /\ push \in [Callers -> Push]
    /\ dropping \subseteq Domains
    /\ barred \in [Hunts -> SUBSET Domains] /\ missed \in [Hunts -> SUBSET Domains]
    /\ faults \in 0..MaxFaults

Init ==
    /\ IntakeInit
    /\ seen = {} /\ rows = 0
    /\ rowStatus = [r \in Rows |-> "none"]
    /\ about = [r \in Rows |-> NoDomain]
    /\ owner = [r \in Rows |-> NoCaller]
    /\ job = [h \in Hunts |-> "none"] /\ verified = [h \in Hunts |-> 0]
    /\ hunt = [h \in Hunts |-> Off]
    /\ retry = [x \in Retriers |-> {}]
    /\ push = [x \in Callers |-> Idle]
    /\ dropping = {}
    /\ barred = [h \in Hunts |-> {}] /\ missed = [h \in Hunts |-> {}]
    /\ faults = 0

Fine == UNCHANGED faults
Fault == faults < MaxFaults /\ faults' = faults + 1

-----------------------------------------------------------------------------
(* run_pipeline.                                                           *)

At(h, step) == hunt[h].at = step
Become(h, local) == hunt' = [hunt EXCEPT ![h] = local]
Goto(h, step) == hunt' = [hunt EXCEPT ![h].at = step]

\* Back in the loop after a candidate; counts says whether it was delivered.
Progressing(h, counts) == [hunt[h] EXCEPT !.at = "progress", !.counts = counts]

\* POST /api/v1/hunt: create_job, and the background task.
Accept(h) ==
    /\ At(h, "off")
    /\ job' = [job EXCEPT ![h] = "pending"]
    /\ barred' = [barred EXCEPT ![h] = seen]
    /\ Goto(h, "begin")
    /\ UNCHANGED <<intakeVars, seen, outboxVars, verified, retry, push, dropping, missed, faults>>

\* update_job(running), and discovery: any set of companies
Begin(h) ==
    /\ At(h, "begin")
    /\ job' = [job EXCEPT ![h] = "running"]
    /\ \E found \in SUBSET Domains :
          Become(h, [hunt[h] EXCEPT !.at = "check", !.found = found])
    /\ UNCHANGED <<intakeVars, seen, outboxVars, verified, retry, push, dropping,
                   historyVars, faults>>

\* Mutant: only a company that was delivered counts as seen.
CheckDelivered(h) ==
    /\ At(h, "check")
    /\ \E d \in hunt[h].found :
          Become(h, [hunt[h] EXCEPT !.found = @ \ {d},
                       !.novel = IF lead[d] # 0 THEN @ ELSE @ \cup {d}])
    /\ UNCHANGED <<intakeVars, seen, outboxVars, jobVars, retry, push, dropping,
                   historyVars, faults>>

\* dedup, step 3: one seen_has per domain; a failed look-up keeps the candidate.
CheckSeen(h) ==
    /\ At(h, "check")
    /\ \E d \in hunt[h].found :
          \/ /\ Become(h, [hunt[h] EXCEPT !.found = @ \ {d},
                             !.novel = IF d \in seen THEN @ ELSE @ \cup {d}])
             /\ UNCHANGED missed
             /\ Fine
          \/ /\ Become(h, [hunt[h] EXCEPT !.found = @ \ {d}, !.novel = @ \cup {d}])
             /\ missed' = [missed EXCEPT ![h] = @ \cup {d}]
             /\ Fault
    /\ UNCHANGED <<intakeVars, seen, outboxVars, jobVars, retry, push, dropping, barred>>

Loop(h, todo) == Become(h, [Off EXCEPT !.at = "loop", !.todo = todo])

\* dedup, step 4: leads_exists, which answers [] when the platform does not
AskPlatform(h) ==
    /\ At(h, "check") /\ hunt[h].found = {}
    /\ \E known \in {Known(hunt[h].novel), {}} :
          /\ IF known = Known(hunt[h].novel) THEN Fine ELSE Fault
          /\ IF known = {} THEN Loop(h, hunt[h].novel)
             ELSE Become(h, [hunt[h] EXCEPT !.at = "seed", !.known = known])
    /\ UNCHANGED <<intakeVars, seen, outboxVars, jobVars, retry, push, dropping, historyVars>>

\* ... seen_bulk_add of the known; its failure is logged and passed over
SeedSeen(h) ==
    /\ At(h, "seed")
    /\ \/ seen' = seen \cup hunt[h].known /\ Fine
       \/ UNCHANGED seen /\ Fault
    /\ Loop(h, hunt[h].novel \ hunt[h].known)
    /\ UNCHANGED <<intakeVars, outboxVars, jobVars, retry, push, dropping, historyVars>>

\* The next candidate: the fit gate, then research and verification, which
\* touch nothing shared.  The order of the candidates is not modelled.
NextCandidate(h) ==
    /\ At(h, "loop") /\ verified[h] < Target[h]
    /\ \E d \in hunt[h].todo, step \in {"skip", "queue"} :
          Become(h, [hunt[h] EXCEPT !.at = step, !.domain = d, !.todo = @ \ {d}])
    /\ UNCHANGED <<intakeVars, seen, outboxVars, jobVars, retry, push, dropping,
                   historyVars, faults>>

\* Mutant: the cursor does not move past a skipped candidate.
SkipStays(h) ==
    /\ At(h, "skip")
    /\ seen' = seen \cup {hunt[h].domain}
    /\ Loop(h, hunt[h].todo \cup {hunt[h].domain})
    /\ UNCHANGED <<intakeVars, outboxVars, jobVars, retry, push, dropping, historyVars, faults>>

\* seen_add(domain, "skipped"), audit and update_job; the next candidate
Skip(h) ==
    /\ At(h, "skip")
    /\ seen' = seen \cup {hunt[h].domain}
    /\ \/ Loop(h, hunt[h].todo) /\ Fine
       \/ Become(h, Progressing(h, FALSE)) /\ Fault
    /\ UNCHANGED <<intakeVars, outboxVars, jobVars, retry, push, dropping, historyVars>>

\* deliver: outbox_add, then the push unless the run is dry.  The audit call
\* between the two may fail.
QueueLead(h) ==
    LET r == rows + 1 IN
    /\ At(h, "queue") /\ rows < MaxRows
    /\ rows' = r
    /\ rowStatus' = [rowStatus EXCEPT ![r] = "pending"]
    /\ about' = [about EXCEPT ![r] = hunt[h].domain]
    /\ owner' = [owner EXCEPT ![r] = h]
    /\ \/ /\ h \notin DryRun
          /\ Goto(h, "push")
          /\ push' = [push EXCEPT ![h] = [at |-> "post", row |-> r]]
          /\ Fine
       \/ /\ h \in DryRun
          /\ Become(h, Progressing(h, TRUE))
          /\ UNCHANGED push
          /\ Fine
       \/ /\ Become(h, Progressing(h, FALSE))
          /\ UNCHANGED push
          /\ Fault
    /\ UNCHANGED <<intakeVars, seen, jobVars, retry, dropping, historyVars>>

\* Mutant: a candidate that failed is counted.
CandidateCounted(h) ==
    /\ At(h, "skip") \/ At(h, "queue")
    /\ Become(h, Progressing(h, TRUE))
    /\ Fault
    /\ UNCHANGED <<intakeVars, seen, outboxVars, jobVars, retry, push, dropping, historyVars>>

\* The inner except: a stage or a write of this candidate raised.
CandidateFails(h) ==
    /\ At(h, "skip") \/ At(h, "queue")
    /\ Become(h, Progressing(h, FALSE))
    /\ Fault
    /\ UNCHANGED <<intakeVars, seen, outboxVars, jobVars, retry, push, dropping, historyVars>>

\* update_job and add_checkpoint after a candidate; the sleep
Progress(h) ==
    /\ At(h, "progress")
    /\ verified' = [verified EXCEPT ![h] = @ + IF hunt[h].counts THEN 1 ELSE 0]
    /\ Loop(h, hunt[h].todo)
    /\ UNCHANGED <<intakeVars, seen, outboxVars, job, retry, push, dropping,
                   historyVars, faults>>

\* target reached, or the list exhausted: update_job(succeeded)
Finish(h) ==
    /\ At(h, "loop")
    /\ hunt[h].todo = {} \/ verified[h] >= Target[h]
    /\ job' = [job EXCEPT ![h] = "succeeded"]
    /\ Become(h, [Off EXCEPT !.at = "over"])
    /\ UNCHANGED <<intakeVars, seen, outboxVars, verified, retry, push, dropping,
                   historyVars, faults>>

\* The outer except: a call outside the candidates' try raised.  The write of
\* the failure may fail too.
Break(h) ==
    /\ hunt[h].at \in {"begin", "check", "seed", "loop", "progress"}
    /\ job' \in {[job EXCEPT ![h] = "failed"], job}
    /\ Become(h, [Off EXCEPT !.at = "over"])
    /\ Fault
    /\ UNCHANGED <<intakeVars, seen, outboxVars, verified, retry, push, dropping, historyVars>>

HuntStep(h) ==
    \/ Begin(h) \/ CheckSeen(h) \/ AskPlatform(h) \/ SeedSeen(h) \/ NextCandidate(h)
    \/ Skip(h) \/ QueueLead(h) \/ CandidateFails(h) \/ Progress(h) \/ Finish(h) \/ Break(h)

-----------------------------------------------------------------------------
(* deliver._attempt: one push of an outbox row, by a hunt or by a retry.   *)

Pushing(x, step) == push[x].at = step
PushOn(x, step) == push' = [push EXCEPT ![x].at = step]
RowOf(x) == push[x].row

\* outbox_retryable: the oldest RetryLimit rows that are pending or failed
Retryable == {r \in Rows : rowStatus[r] \in {"pending", "failed"}}
Oldest(rs) == {r \in rs : Cardinality({q \in rs : q < r}) < RetryLimit}

\* A retry pushes the oldest of its rows.
PushFirst(x, rs) ==
    /\ retry' = [retry EXCEPT ![x] = rs]
    /\ \/ rs = {} /\ push' = [push EXCEPT ![x] = Idle]
       \/ \E r \in rs : /\ \A q \in rs : r <= q
                       /\ push' = [push EXCEPT ![x] = [at |-> "post", row |-> r]]

\* _attempt returns: a hunt goes on with its candidate, a retry with its next
\* row.  deliver returns normally whether or not the push arrived.
Return(x) ==
    \/ /\ x \in Hunts
       /\ Become(x, Progressing(x, TRUE))
       /\ push' = [push EXCEPT ![x] = Idle]
       /\ UNCHANGED retry
    \/ /\ x \in Retriers
       /\ PushFirst(x, retry[x] \ {RowOf(x)})
       /\ UNCHANGED hunt

\* _attempt raises: the agent database failed.  A retry ends with it.
Raise(x) ==
    \/ /\ x \in Hunts
       /\ Become(x, Progressing(x, FALSE))
       /\ push' = [push EXCEPT ![x] = Idle]
       /\ UNCHANGED retry
    \/ /\ x \in Retriers
       /\ PushFirst(x, {})
       /\ UNCHANGED hunt

\* retry_pending
BeginRetry(x) ==
    /\ Pushing(x, "idle")
    /\ Retryable # {}
    /\ PushFirst(x, Oldest(Retryable))
    /\ UNCHANGED <<intakeVars, seen, outboxVars, jobVars, hunt, dropping, historyVars, faults>>

\* leads_upsert: the request arrives, or there is no connection.
Post(x) ==
    /\ Pushing(x, "post")
    /\ \/ /\ \E s \in Slots : Receive(s, RowOf(x), about[RowOf(x)], x)
          /\ PushOn(x, "wait")
          /\ Fine
       \/ /\ PushOn(x, "failed")
          /\ Fault
          /\ UNCHANGED intakeVars
    /\ UNCHANGED <<seen, outboxVars, jobVars, hunt, retry, dropping, historyVars>>

\* The reply: 200, or an error status.
Answered(x) ==
    /\ Pushing(x, "wait")
    /\ \E s \in Slots :
          \/ TakeReply(s, x, "ok") /\ PushOn(x, "sent")
          \/ TakeReply(s, x, "refused") /\ PushOn(x, "failed")
    /\ UNCHANGED <<seen, outboxVars, jobVars, hunt, retry, dropping, historyVars, faults>>

\* The read times out, or the connection breaks; the handler may be running on.
TimesOut(x) ==
    /\ Pushing(x, "wait")
    /\ HangUp({x})
    /\ PushOn(x, "failed")
    /\ IF \E s \in Slots : handler[s].client = x THEN Fault ELSE Fine
    /\ UNCHANGED <<seen, outboxVars, jobVars, hunt, retry, dropping, historyVars>>

\* The platform's process or database breaks off a handler; in the former case
\* the client will time out.
PlatformFails(s) ==
    /\ HandlerDies(s) \/ UpsertFails(s)
    /\ Fault
    /\ UNCHANGED <<seen, outboxVars, jobVars, localVars, dropping, historyVars>>

\* outbox_mark_sent, seen_add(domain, "verified"): two transactions
MarkSent(x) ==
    /\ Pushing(x, "sent")
    /\ \/ /\ rowStatus' = [rowStatus EXCEPT ![RowOf(x)] = "sent"]
          /\ PushOn(x, "seen")
          /\ Fine
          /\ UNCHANGED <<hunt, retry>>
       \/ Raise(x) /\ Fault /\ UNCHANGED rowStatus
    /\ UNCHANGED <<intakeVars, seen, rows, about, owner, jobVars, dropping, historyVars>>

RecordSeen(x) ==
    /\ Pushing(x, "seen")
    /\ \/ seen' = seen \cup {about[RowOf(x)]} /\ Return(x) /\ Fine
       \/ seen' \in {seen, seen \cup {about[RowOf(x)]}} /\ Raise(x) /\ Fault
    /\ UNCHANGED <<intakeVars, outboxVars, jobVars, dropping, historyVars>>

\* outbox_mark_failed, whatever the status is by now
MarkFailed(x) ==
    /\ Pushing(x, "failed")
    /\ \/ /\ rowStatus' = [rowStatus EXCEPT ![RowOf(x)] = "failed"]
          /\ Return(x)
          /\ Fine
       \/ /\ rowStatus' \in {rowStatus, [rowStatus EXCEPT ![RowOf(x)] = "failed"]}
          /\ Raise(x)
          /\ Fault
    /\ UNCHANGED <<intakeVars, seen, rows, about, owner, jobVars, dropping, historyVars>>

PushStep(x) ==
    Post(x) \/ Answered(x) \/ TimesOut(x) \/ MarkSent(x) \/ RecordSeen(x) \/ MarkFailed(x)

-----------------------------------------------------------------------------
(* Deaths of processes, and the user.                                      *)

\* The agent server dies, and its hunts with it.  Nothing resumes them.
Alive == {h \in Hunts : hunt[h].at \notin {"off", "over"}}
AgentDies ==
    /\ Alive # {}
    /\ hunt' = [h \in Hunts |-> IF h \in Alive THEN [Off EXCEPT !.at = "over"] ELSE hunt[h]]
    /\ push' = [x \in Callers |-> IF x \in Alive THEN Idle ELSE push[x]]
    /\ HangUp(Alive)
    /\ Fault
    /\ UNCHANGED <<seen, outboxVars, jobVars, retry, dropping, historyVars>>

RetryDies(x) ==
    /\ ~Pushing(x, "idle")
    /\ PushFirst(x, {})
    /\ HangUp({x})
    /\ Fault
    /\ UNCHANGED <<seen, outboxVars, jobVars, hunt, dropping, historyVars>>

\* The user deletes a company; the page then tells the agent to drop it, and
\* does not mind if that call is lost.
DeleteCompany(d) ==
    /\ DeleteLead(d)
    /\ dropping' = dropping \cup {d}
    /\ UNCHANGED <<seen, outboxVars, jobVars, localVars, historyVars, faults>>

\* Nothing follows the deletion of a person-lead.
DeletePerson(d) ==
    /\ DeleteFounder(d)
    /\ UNCHANGED <<seen, outboxVars, jobVars, localVars, dropping, historyVars, faults>>

DropDomain(d) ==
    /\ d \in dropping
    /\ dropping' = dropping \ {d}
    /\ \/ seen' = seen \cup {d} /\ Fine
       \/ UNCHANGED seen /\ Fault
    /\ UNCHANGED <<intakeVars, outboxVars, jobVars, localVars, historyVars>>

Serve(s) ==
    /\ HandlerStep(s)
    /\ UNCHANGED <<seen, outboxVars, jobVars, localVars, dropping, historyVars, faults>>

\* Everything has been hunted and sent, and no request is left.
Quiet ==
    /\ \A h \in Hunts : At(h, "over")
    /\ Retriers = {} \/ Retryable = {}
    /\ dropping = {}
    /\ \A x \in Callers : Pushing(x, "idle")
    /\ \A s \in Slots : Serving(s, "free")
    /\ UNCHANGED vars

Next ==
    \/ \E h \in Hunts : Accept(h) \/ HuntStep(h)
    \/ AgentDies
    \/ \E x \in Retriers : BeginRetry(x) \/ RetryDies(x)
    \/ \E x \in Callers : PushStep(x)
    \/ \E s \in Slots : Serve(s) \/ PlatformFails(s)
    \/ \E d \in Domains : DeleteCompany(d) \/ DeletePerson(d) \/ DropDomain(d)
    \/ Quiet

Spec == Init /\ [][Next]_vars

\* A process that is alive runs on, and a worker thread of the platform too.
Running ==
    /\ \A h \in Hunts : WF_vars(HuntStep(h))
    /\ \A x \in Callers : WF_vars(PushStep(x))
    /\ \A s \in Slots : WF_vars(Serve(s))

LiveSpec == Spec /\ Running

-----------------------------------------------------------------------------
\* deliver.py:3-9: a queued lead stays on record, and is marked sent only once
\* the platform has stored it, over lost replies, deaths and overlapping pushes.
Outbox == INSTANCE LeadDelivery WITH
    Leads <- Rows, queued <- {r \in Rows : rowStatus[r] # "none"},
    delivered <- applied, acknowledged <- {r \in Rows : rowStatus[r] = "sent"}
DeliversAtLeastOnce == Outbox!AtLeastOnce

QueuedBy(h) == {r \in Rows : rowStatus[r] # "none" /\ owner[r] = h}

\* What a hunt reports as verified is in the outbox, and never exceeds the
\* target, whatever was counted, lost or raised in between (loop.py:247-281).
VerifiedIsQueued ==
    \A h \in Hunts : /\ verified[h] <= Target[h]
                     /\ verified[h] <= Cardinality(QueuedBy(h))

\* A hunt never delivers a domain that was in the seen-cache when it was
\* accepted - delivered, skipped or dropped by the user - unless its look-up
\* failed, although dedup runs long before the delivery (app.py:415-417).
SeenIsNotPursued ==
    \A h \in Hunts : \A r \in QueuedBy(h) : about[r] \in barred[h] => about[r] \in missed[h]

\* What "idempotent across hunt re-runs" (db.py:662-664) comes to: a founder has
\* at most one person-lead for every worker thread.  Requests that look up at the
\* same time each insert one; however often a lead is pushed again, none is added
\* to one that is there, and none comes from a handler that was broken off.
FoundersPerThread == \A d \in Domains : founders[d] <= Cardinality(Slots)

\* A hunt that was accepted ends, with its push.
HuntEnds == \A h \in Hunts : At(h, "begin") ~> At(h, "over")
=============================================================================
