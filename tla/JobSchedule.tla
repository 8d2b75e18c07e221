---------------------------- MODULE JobSchedule ----------------------------
(***************************************************************************)
(* The Job Board's scheduler (jobboard/scheduler.py), the schedule the     *)
(* user saves for it (job-board/actions.ts, config.py) and the reload that *)
(* puts it in force (api/jobboard.py).  APScheduler itself is external: a  *)
(* cron trigger refuses a step that is wider than its field.  What the     *)
(* jobs do when they fire is MonitorCycle and RunBooks.  The job that runs *)
(* once at startup and the trigger endpoints, which start the same two at  *)
(* any time, are left out.                                                 *)
(***************************************************************************)
EXTENDS Integers, FiniteSets

CONSTANTS DayHours,      \* hours of a day
          Plans,         \* schedules the user may save
          EnvPlan,       \* the schedule of the environment
          Requests,      \* reload requests
          MaxSchedulers, \* schedulers started in the life of a process, a bound
          None

\* scan every `step` hours from `start` to `end`, alert at `times`
AllPlans == [start : 0 .. (DayHours - 1), end : 0 .. (DayHours - 1), step : 1 .. DayHours,
             times : SUBSET ((0 .. (DayHours - 1)) \X (0 .. 59))]
ASSUME ScheduleAssumption ==
    /\ DayHours \in Nat \ {0} /\ MaxSchedulers \in Nat
    /\ Plans \subseteq AllPlans /\ EnvPlan \in AllPlans
    /\ None \notin Plans \cup Nat

VARIABLES up,            \* the agent process runs
          saved,         \* the schedule setting, or None
          current,       \* the module's _scheduler: a number, or None
          live,          \* schedulers that run: number -> [plan, jobs]
          started,       \* schedulers started in this process
          requests,      \* reload requests under way
          overlapped,    \* two reloads of this process overlapped (history)
          stale          \* a save may not be in force (history)
vars == <<up, saved, current, live, started, requests, overlapped, stale>>

-----------------------------------------------------------------------------
(* The schedule                                                            *)

Windowed(plan) == plan.start # plan.end
WindowLength(plan) == ((plan.end - plan.start + DayHours) % DayHours) + 1
\* every step-th hour of the window, which may span midnight; equal bounds
\* mean no window
ScanHours(plan) ==
    IF Windowed(plan)
      THEN {(plan.start + k * plan.step) % DayHours :
              k \in 0 .. ((WindowLength(plan) - 1) \div plan.step)}
      ELSE {h \in 0 .. (DayHours - 1) : h % plan.step = 0}
\* "*/step" with a step wider than the hour field
Refused(plan) == ~Windowed(plan) /\ plan.step > DayHours - 1

\* a job fires at each of its hours and each of its minutes; the interval job
\* (no hours) on a clock of its own
CronJob(kind, hours, minutes) == [kind |-> kind, hours |-> hours, minutes |-> minutes]
AlertJobsCrossed(plan) ==
    {CronJob("alert", {t[1] : t \in plan.times}, {t[2] : t \in plan.times})}
\* one job per time
AlertJobs(plan) ==
    IF plan.times = {} THEN {CronJob("alert", {}, {})}
    ELSE {CronJob("alert", {t[1]}, {t[2]}) : t \in plan.times}
FiresAt(jobs) == UNION {j.hours \X j.minutes : j \in jobs}
OfKind(jobs, kind) == {j \in jobs : j.kind = kind}

Wanted == IF saved = None THEN EnvPlan ELSE saved
\* resolve_schedule: the setting over the environment, the environment's when
\* the setting cannot be read
ResolutionsOfEnv == {[plan |-> EnvPlan, read |-> b] : b \in BOOLEAN}
Resolutions == {[plan |-> Wanted, read |-> TRUE], [plan |-> EnvPlan, read |-> FALSE]}

NewScheduler(plan) ==
    [plan |-> plan,
     jobs |-> {CronJob("monitor", ScanHours(plan), {0})} \cup AlertJobs(plan)]
With(f, id, v) == [x \in DOMAIN f \cup {id} |-> IF x = id THEN v ELSE f[x]]
Without(f, id) == [x \in DOMAIN f \ {id} |-> f[x]]

Idle == [step |-> "idle", alone |-> TRUE, plan |-> None]

Init ==
    /\ up = FALSE /\ saved = None /\ current = None
    /\ live = [s \in {} |-> None] /\ started = 0
    /\ requests = [r \in Requests |-> Idle]
    /\ overlapped = FALSE /\ stale = FALSE

-----------------------------------------------------------------------------
(* The process and the reload                                              *)

Install(plan) ==
    /\ started < MaxSchedulers
    /\ started' = started + 1
    /\ live' = With(live, started + 1, NewScheduler(plan))
    /\ current' = started + 1

\* a schedule that is refused stops the boot
Boot ==
    /\ ~up
    /\ \E found \in Resolutions :
          /\ ~Refused(found.plan)
          /\ Install(found.plan)
          /\ stale' = ~found.read
    /\ up' = TRUE
    /\ UNCHANGED <<saved, requests, overlapped>>

ProcessDies ==
    /\ up
    /\ up' = FALSE /\ current' = None /\ live' = [s \in {} |-> None] /\ started' = 0
    /\ requests' = [r \in Requests |-> Idle]
    /\ overlapped' = FALSE /\ stale' = FALSE
    /\ UNCHANGED saved

\* setSchedule: the setting is stored, then the service is asked to reload
Active(r) == requests[r].step # "idle"
\* a save meets every reload that is under way
Contested == [q \in Requests |-> IF ~Active(q) THEN requests[q] ELSE
                [step |-> requests[q].step, alone |-> FALSE, plan |-> requests[q].plan]]
Save(r, plan) ==
    /\ up /\ ~Active(r)
    /\ saved' = plan
    /\ LET others == \E q \in Requests : Active(q)
       IN  /\ requests' = [Contested EXCEPT ![r] = [step |-> "asked", alone |-> ~others, plan |-> None]]
           /\ overlapped' = (overlapped \/ others)
    /\ stale' = TRUE
    /\ UNCHANGED <<up, current, live, started>>

\* the service is down, or the request never arrives: stored, and no more
SaveOnly(plan) ==
    /\ saved' = plan
    /\ stale' = up
    /\ requests' = Contested
    /\ UNCHANGED <<up, current, live, started, overlapped>>

AtStep(r, from) == requests[r].step = from
MoveTo(r, to) == requests' = [requests EXCEPT ![r].step = to]
ReloadKeeps == UNCHANGED <<up, saved, overlapped>>

\* reschedule: nothing to do when there is no scheduler
ReloadEnters(r) ==
    /\ AtStep(r, "asked")
    /\ requests' = [requests EXCEPT ![r] =
                      IF current = None THEN Idle ELSE [@ EXCEPT !.step = "stopping"]]
    /\ UNCHANGED <<current, live, started, stale>> /\ ReloadKeeps

StopNothing(r) ==
    /\ AtStep(r, "stopping")
    /\ current' = None
    /\ MoveTo(r, "starting")
    /\ UNCHANGED <<live, started, stale>> /\ ReloadKeeps
\* shutdown_scheduler: whichever scheduler is current
ReloadStops(r) ==
    /\ AtStep(r, "stopping")
    /\ live' = IF current = None THEN live ELSE Without(live, current)
    /\ current' = None
    /\ MoveTo(r, "starting")
    /\ UNCHANGED <<started, stale>> /\ ReloadKeeps

\* start_scheduler: another may have started one meanwhile
ReloadResolves(r) ==
    /\ AtStep(r, "starting")
    /\ IF current # None
         THEN requests' = [requests EXCEPT ![r] = Idle]
         ELSE \E found \in Resolutions :
                requests' = [requests EXCEPT ![r] =
                  [step |-> "resolved", alone |-> @.alone /\ found.read, plan |-> found.plan]]
    /\ UNCHANGED <<current, live, started, stale>> /\ ReloadKeeps

\* a refused schedule leaves no scheduler
ReloadStarts(r) ==
    /\ AtStep(r, "resolved")
    /\ \/ /\ Refused(requests[r].plan)
          /\ UNCHANGED <<current, live, started, stale>>
       \/ /\ ~Refused(requests[r].plan)
          /\ Install(requests[r].plan)
          /\ stale' = ~requests[r].alone
    /\ requests' = [requests EXCEPT ![r] = Idle]
    /\ ReloadKeeps

ReloadStep(r) == ReloadEnters(r) \/ ReloadStops(r) \/ ReloadResolves(r) \/ ReloadStarts(r)
Next ==
    \/ Boot \/ ProcessDies
    \/ \E plan \in Plans : SaveOnly(plan) \/ \E r \in Requests : Save(r, plan)
    \/ \E r \in Requests : ReloadStep(r)
Spec == Init /\ [][Next]_vars

-----------------------------------------------------------------------------
TypeOK ==
    /\ up \in BOOLEAN /\ saved \in Plans \cup {None}
    /\ started \in 0 .. MaxSchedulers /\ DOMAIN live \subseteq 1 .. started
    /\ current \in DOMAIN live \cup {None}
    /\ \A r \in Requests : requests[r].step \in {"idle", "asked", "stopping", "starting", "resolved"}

(* However reloads go, a scheduler is left running beside the current one  *)
(* only when two of them overlapped: then nothing stops it, and both       *)
(* scrape and mail until the process ends.                                 *)
OnlyOverlapsLeak == Cardinality(DOMAIN live) > 1 => overlapped

(* A save that was reloaded alone and whose setting could be read is in    *)
(* force, over boots, failures and earlier reloads that were not.          *)
SavedIsInForce ==
    up /\ ~stale => current # None /\ live[current].plan = Wanted

(* A schedule's alerts fire at its times, all of them, and at no other:    *)
(* 09:00 and 18:30 do not make 09:30 and 18:00.                            *)
AlertsAtItsTimes ==
    \A s \in DOMAIN live : FiresAt(OfKind(live[s].jobs, "alert")) = live[s].plan.times

(* The scans of a schedule stay in its window, also over midnight, and no  *)
(* hour of the window is `step` hours or more after the scan before it.    *)
Window(plan) == {(plan.start + k) % DayHours : k \in 0 .. (WindowLength(plan) - 1)}
ScansCoverTheWindow ==
    \A s \in DOMAIN live :
      LET plan == live[s].plan
          scans == UNION {j.hours : j \in OfKind(live[s].jobs, "monitor")}
      IN  Windowed(plan) =>
            /\ scans \subseteq Window(plan)
            /\ \A h \in Window(plan) : \E d \in 0 .. (plan.step - 1) :
                  (h - d + DayHours) % DayHours \in scans
(* What the user set is what fires, through the two cron expressions it is  *)
(* turned into (scheduler.py:155-246, config.py:28-46).                     *)
FiresAsSet == AlertsAtItsTimes /\ ScansCoverTheWindow

(* platform_client.py:195: a settings outage must never leave the service  *)
(* with NO schedule; config.py:56: a bad knob falls back to the default.   *)
AlwaysScheduled == up /\ (\A r \in Requests : ~Active(r)) => current # None
=============================================================================
