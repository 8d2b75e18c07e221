------------------------- MODULE JobSchedule_proofs -------------------------
(* Proofs of the invariants of JobSchedule. *)
EXTENDS JobSchedule, FiniteSetTheorems, TLAPS

(* The shape of every variable, whatever the schedules and the bounds.     *)
AnyJob == [kind : {"monitor", "alert"}, hours : SUBSET Int, minutes : SUBSET Int]
Steps == {"idle", "asked", "stopping", "starting", "resolved"}
Requested == [step : Steps, alone : BOOLEAN, plan : AllPlans \cup {None}]
ProcessShape ==
    /\ up \in BOOLEAN /\ overlapped \in BOOLEAN /\ stale \in BOOLEAN
    /\ saved \in Plans \cup {None}
LiveShape ==
    /\ started \in 0 .. MaxSchedulers
    /\ live \in [DOMAIN live -> [plan : AllPlans, jobs : SUBSET AnyJob]]
    /\ DOMAIN live \subseteq 1 .. started
    /\ current \in DOMAIN live \cup {None}
RequestShape ==
    /\ requests \in [Requests -> Requested]
    /\ \A r \in Requests : requests[r].step = "resolved" => requests[r].plan \in AllPlans
Shapes == ProcessShape /\ LiveShape /\ RequestShape

(* A process that is down has no scheduler and no request; with no overlap *)
(* there is one request at a time, the current scheduler is the only one,  *)
(* and none is current when a request is about to start the next.          *)
OneAtATime ==
    /\ ~up => current = None /\ DOMAIN live = {} /\ \A r \in Requests : ~Active(r)
    /\ ~overlapped =>
         /\ \A q, r \in Requests : Active(q) /\ Active(r) => q = r
         /\ DOMAIN live \subseteq {current}
         /\ \A r \in Requests : AtStep(r, "resolved") => current = None

(* A request that was alone all along is the only one, and what it read    *)
(* is what is saved; nothing is under way once a save is in force.         *)
AloneMeansInForce ==
    /\ \A q, r \in Requests : Active(q) /\ Active(r) /\ requests[r].alone = TRUE => q = r
    /\ \A r \in Requests : AtStep(r, "resolved") /\ requests[r].alone = TRUE =>
          requests[r].plan = Wanted
    /\ up /\ ~stale => \A r \in Requests : ~Active(r)

(* The jobs of a scheduler are those of its schedule.                      *)
JobsOfThePlan ==
    \A s \in DOMAIN live :
       /\ OfKind(live[s].jobs, "alert") = AlertJobs(live[s].plan)
       /\ OfKind(live[s].jobs, "monitor") = {CronJob("monitor", ScanHours(live[s].plan), {0})}

IInv == /\ Shapes /\ OneAtATime /\ AloneMeansInForce /\ SavedIsInForce /\ JobsOfThePlan

-----------------------------------------------------------------------------
(* What a schedule fires (scheduler.py:155-246)                            *)

(* Arithmetic of the hours: what % and \div give.                          *)
LEMMA ModSmall == ASSUME NEW n \in Nat \ {0}, NEW a \in 0 .. (n - 1) PROVE a % n = a
  BY Z3
LEMMA ModWraps == ASSUME NEW n \in Nat \ {0}, NEW a \in 0 .. (n - 1) PROVE (a + n) % n = a
  BY Z3
LEMMA DivMod ==
    ASSUME NEW n \in Nat \ {0}, NEW k \in Nat
    PROVE  k \div n \in Nat /\ k % n \in 0 .. (n - 1) /\ k = (k \div n) * n + (k % n)
  BY Z3
LEMMA DivMonotonic ==
    ASSUME NEW n \in Nat \ {0}, NEW j \in Nat, NEW k \in Nat, j <= k
    PROVE  j \div n <= k \div n
  BY Z3
LEMMA TimesMonotonic ==
    ASSUME NEW n \in Nat, NEW j \in Nat, NEW k \in Nat, j <= k
    PROVE  j * n <= k * n
  BY Z3

(* The alert jobs of a schedule fire at its times and at no other.         *)
LEMMA AlertsFire == ASSUME NEW plan \in AllPlans PROVE FiresAt(AlertJobs(plan)) = plan.times
  <1>1. plan.times \in SUBSET ((0 .. (DayHours - 1)) \X (0 .. 59))
    BY DEF AllPlans
  <1>2. CASE plan.times = {}
    <2>1. AlertJobs(plan) = {CronJob("alert", {}, {})}
      BY <1>2 DEF AlertJobs
    <2>2. \A j \in AlertJobs(plan) : j.hours \X j.minutes = {}
      BY <2>1 DEF CronJob
    <2> QED
      BY <1>2, <2>2 DEF FiresAt
  <1>3. CASE plan.times # {}
    <2>1. AlertJobs(plan) = {CronJob("alert", {t[1]}, {t[2]}) : t \in plan.times}
      BY <1>3 DEF AlertJobs
    <2>2. \A t \in plan.times : {t[1]} \X {t[2]} = {t}
      BY <1>1
    <2>3. \A j \in AlertJobs(plan) : \E t \in plan.times : j.hours \X j.minutes = {t}
      BY <2>1, <2>2 DEF CronJob
    <2>4. ASSUME NEW t \in plan.times
          PROVE  \E j \in AlertJobs(plan) : j.hours \X j.minutes = {t}
      <3>1. CronJob("alert", {t[1]}, {t[2]}) \in AlertJobs(plan)
        BY <2>1
      <3>2. /\ CronJob("alert", {t[1]}, {t[2]}).hours = {t[1]}
            /\ CronJob("alert", {t[1]}, {t[2]}).minutes = {t[2]}
        BY DEF CronJob
      <3> QED
        BY <2>2, <3>1, <3>2
    <2> QED
      BY <2>3, <2>4 DEF FiresAt
  <1> QED
    BY <1>2, <1>3

(* The scans of a window are hours of it, and none of its hours is a step  *)
(* or more after the scan before it.                                       *)
LEMMA ScansCover ==
    ASSUME NEW plan \in AllPlans, Windowed(plan)
    PROVE  /\ ScanHours(plan) \subseteq Window(plan)
           /\ \A h \in Window(plan) : \E d \in 0 .. (plan.step - 1) :
                 (h - d + DayHours) % DayHours \in ScanHours(plan)
  <1> DEFINE D == DayHours
             a == plan.start
             n == plan.step
             L == WindowLength(plan) - 1
  <1>1. /\ D \in Nat \ {0} /\ a \in 0 .. (D - 1) /\ plan.end \in 0 .. (D - 1) /\ n \in 1 .. D
    BY ScheduleAssumption DEF AllPlans
  <1>2. L \in 0 .. (D - 1)
    <2>1. plan.end - plan.start + D \in Nat
      BY <1>1
    <2>2. (plan.end - plan.start + D) % D \in 0 .. (D - 1)
      BY <1>1, <2>1, DivMod
    <2> QED
      BY <2>2 DEF WindowLength
  <1>3. /\ Window(plan) = {(a + k) % D : k \in 0 .. L}
        /\ ScanHours(plan) = {(a + k * n) % D : k \in 0 .. (L \div n)}
    BY <1>1 DEF Window, ScanHours, Windowed
  <1>4. L \div n \in Nat /\ (L \div n) * n <= L
    <2>1. L \in Nat /\ n \in Nat \ {0}
      BY <1>1, <1>2
    <2>2. L \div n \in Nat /\ L % n \in 0 .. (n - 1) /\ L = (L \div n) * n + (L % n)
      BY <2>1, DivMod, Zenon
    <2>3. (L \div n) * n \in Nat /\ L % n \in Nat
      BY <2>1, <2>2
    <2> HIDE DEF n, L
    <2> QED
      BY <2>1, <2>2, <2>3
  <1> HIDE DEF D, a, n, L
  <1>5. ASSUME NEW k \in 0 .. (L \div n) PROVE k * n \in 0 .. L
    <2>1. k * n <= (L \div n) * n
      BY <1>1, <1>4, <1>5, TimesMonotonic
    <2>2. k * n \in Nat /\ (L \div n) * n \in Nat
      BY <1>1, <1>4, <1>5
    <2> QED
      BY <1>2, <1>4, <2>1, <2>2
  <1>6. ScanHours(plan) \subseteq Window(plan)
    BY <1>3, <1>5
  <1>7. ASSUME NEW k \in 0 .. L
        PROVE  \E d \in 0 .. (n - 1) : (((a + k) % D) - d + D) % D \in ScanHours(plan)
    <2> DEFINE d == k % n
               b == k \div n
    <2>1. b \in Nat /\ d \in 0 .. (n - 1) /\ k = b * n + d
      <3>1. k \in Nat /\ n \in Nat \ {0}
        BY <1>1, <1>2, <1>7
      <3> QED
        BY <3>1, DivMod, Zenon
    <2>2. b \in 0 .. (L \div n)
      <3>1. k \in Nat /\ L \in Nat /\ n \in Nat \ {0} /\ k <= L
        BY <1>1, <1>2, <1>7
      <3>2. b <= L \div n
        BY <3>1, DivMonotonic, Zenon
      <3> HIDE DEF b
      <3> QED
        BY <1>4, <2>1, <3>2
    <2> HIDE DEF d, b
    <2>3. DEFINE m == b * n
    <2>4. m \in Nat /\ k = m + d
      BY <1>1, <2>1
    <2> HIDE DEF m
    <2>5. (((a + k) % D) - d + D) % D = (a + m) % D
      <3>1. CASE a + k <= D - 1
        <4>1. (a + k) % D = a + k
          BY <1>1, <1>2, <1>7, <3>1, ModSmall
        <4>2. a + m \in 0 .. (D - 1)
          BY <1>1, <1>2, <1>7, <2>1, <2>4, <3>1
        <4>3. (a + m + D) % D = a + m /\ (a + m) % D = a + m
          BY <1>1, <4>2, ModSmall, ModWraps
        <4> QED
          BY <1>1, <1>2, <1>7, <2>1, <2>4, <4>1, <4>3
      <3>2. CASE a + k >= D
        <4>1. (a + k) % D = a + k - D
          <5>1. a + k - D \in 0 .. (D - 1)
            BY <1>1, <1>2, <1>7, <3>2
          <5>2. (a + k - D + D) % D = a + k - D
            BY <1>1, <5>1, ModWraps
          <5> QED
            BY <1>1, <1>2, <1>7, <5>2
        <4> QED
          BY <1>1, <1>2, <1>7, <2>1, <2>4, <4>1
      <3> QED
        BY <1>1, <1>2, <1>7, <3>1, <3>2
    <2>6. (a + m) % D \in ScanHours(plan)
      BY <1>3, <2>2 DEF m
    <2> QED
      BY <2>1, <2>5, <2>6
  <1> QED
    BY <1>3, <1>6, <1>7 DEF D, n

(* A new scheduler has the jobs of its schedule.                           *)
LEMMA NewSchedulerFits ==
    ASSUME NEW plan \in AllPlans
    PROVE  /\ NewScheduler(plan) \in [plan : AllPlans, jobs : SUBSET AnyJob]
           /\ NewScheduler(plan).plan = plan
           /\ OfKind(NewScheduler(plan).jobs, "alert") = AlertJobs(plan)
           /\ OfKind(NewScheduler(plan).jobs, "monitor") = {CronJob("monitor", ScanHours(plan), {0})}
  <1>1. ScanHours(plan) \subseteq Int
    <2>1. /\ DayHours \in Nat \ {0} /\ plan.start \in Int /\ plan.step \in Nat \ {0}
      BY ScheduleAssumption DEF AllPlans
    <2>2. \A i \in Int : i % DayHours \in Int
      BY <2>1
    <2>3. \A k \in Int : (plan.start + k * plan.step) % DayHours \in Int
      BY <2>1, <2>2
    <2> QED
      BY <2>1, <2>3 DEF ScanHours
  <1>2. AlertJobs(plan) \subseteq AnyJob /\ \A j \in AlertJobs(plan) : j.kind = "alert"
    <2>1. \A t \in plan.times : t[1] \in Int /\ t[2] \in Int
      BY ScheduleAssumption DEF AllPlans
    <2>2. CASE plan.times = {}
      BY <2>2 DEF AlertJobs, CronJob, AnyJob
    <2>3. CASE plan.times # {}
      <3>1. ASSUME NEW t \in plan.times
            PROVE  CronJob("alert", {t[1]}, {t[2]}) \in AnyJob
        BY <2>1 DEF CronJob, AnyJob
      <3> QED
        BY <2>3, <3>1 DEF AlertJobs, CronJob
    <2> QED
      BY <2>2, <2>3
  <1>3. /\ CronJob("monitor", ScanHours(plan), {0}) \in AnyJob
        /\ CronJob("monitor", ScanHours(plan), {0}).kind = "monitor"
    BY <1>1 DEF CronJob, AnyJob
  <1> HIDE DEF AnyJob, CronJob
  <1> QED
    BY <1>2, <1>3 DEF NewScheduler, OfKind

(* What is saved, or the environment's, is a schedule.                     *)
LEMMA WantedIsAPlan == ASSUME Shapes PROVE Wanted \in AllPlans
  BY ScheduleAssumption DEF Shapes, ProcessShape, Wanted

(* So is whatever a reload resolves; when the setting could be read, it is *)
(* what is wanted.                                                         *)
LEMMA ResolvesToAPlan ==
    ASSUME Shapes, NEW found \in Resolutions
    PROVE  /\ found.plan \in AllPlans
           /\ (found.read = TRUE /\ found.plan = Wanted) \/ found.read = FALSE
  BY ScheduleAssumption, WantedIsAPlan DEF Resolutions

(* Installing a scheduler keeps the shapes of what it changes.             *)
LEMMA InstallFits ==
    ASSUME Shapes, NEW plan \in AllPlans, Install(plan)
    PROVE  /\ live' \in [DOMAIN live' -> [plan : AllPlans, jobs : SUBSET AnyJob]]
           /\ started' \in 0 .. MaxSchedulers
           /\ DOMAIN live' = DOMAIN live \cup {started + 1} /\ DOMAIN live' \subseteq 1 .. started'
           /\ current' = started + 1 /\ current' \in DOMAIN live' \cup {None}
           /\ current' # None
           /\ live'[current'] = NewScheduler(plan)
           /\ \A s \in DOMAIN live : live'[s] = live[s]
  <1>1. /\ started \in Nat /\ started < MaxSchedulers /\ MaxSchedulers \in Nat
        /\ DOMAIN live \subseteq 1 .. started /\ None \notin Nat
    BY ScheduleAssumption DEF Shapes, LiveShape, Install
  <1>2. started + 1 \notin DOMAIN live /\ started' = started + 1
    BY <1>1 DEF Install
  <1>3. live' = [x \in DOMAIN live \cup {started + 1} |->
                   IF x = started + 1 THEN NewScheduler(plan) ELSE live[x]]
    BY DEF Install, With
  <1>4. NewScheduler(plan) \in [plan : AllPlans, jobs : SUBSET AnyJob]
    BY NewSchedulerFits
  <1>5. \A s \in DOMAIN live : live[s] \in [plan : AllPlans, jobs : SUBSET AnyJob]
    BY DEF Shapes, LiveShape
  <1>6. live' \in [DOMAIN live' -> [plan : AllPlans, jobs : SUBSET AnyJob]]
    BY <1>3, <1>4, <1>5
  <1> QED
    BY <1>1, <1>2, <1>3, <1>6 DEF Install
-----------------------------------------------------------------------------
(* The invariant                                                           *)

(* Initially the invariant holds.                                          *)
LEMMA InitIInv == Init => IInv
  <1> SUFFICES ASSUME Init PROVE IInv
    OBVIOUS
  <1> USE ScheduleAssumption DEF Init
  <1>1. Shapes
    <2>1. ProcessShape
      BY DEF ProcessShape
    <2>2. LiveShape
      BY DEF LiveShape
    <2>3. RequestShape
      BY DEF RequestShape, Idle, Requested, Steps
    <2> QED
      BY <2>1, <2>2, <2>3 DEF Shapes
  <1>2. OneAtATime /\ AloneMeansInForce /\ SavedIsInForce
    BY DEF OneAtATime, AloneMeansInForce, SavedIsInForce, Active, AtStep, Idle
  <1>3. JobsOfThePlan
    BY DEF JobsOfThePlan
  <1> QED
    BY <1>1, <1>2, <1>3 DEF IInv

(* A boot keeps the invariant.                                             *)
LEMMA BootKeeps == ASSUME IInv, Boot PROVE IInv'
  <1>1. PICK found \in Resolutions :
          /\ ~Refused(found.plan) /\ Install(found.plan) /\ stale' = ~found.read
    BY DEF Boot
  <1>2. /\ ~up /\ up' = TRUE /\ UNCHANGED <<saved, requests, overlapped>>
    BY DEF Boot
  <1>3. /\ found.plan \in AllPlans
        /\ (found.read = TRUE /\ found.plan = Wanted) \/ found.read = FALSE
    BY ResolvesToAPlan DEF IInv
  <1> DEFINE plan == found.plan
  <1>4. /\ live' \in [DOMAIN live' -> [plan : AllPlans, jobs : SUBSET AnyJob]]
        /\ started' \in 0 .. MaxSchedulers
        /\ DOMAIN live' = DOMAIN live \cup {started + 1} /\ DOMAIN live' \subseteq 1 .. started'
        /\ current' = started + 1 /\ current' \in DOMAIN live' \cup {None}
        /\ current' # None
        /\ live'[current'] = NewScheduler(plan)
        /\ \A s \in DOMAIN live : live'[s] = live[s]
    BY <1>1, <1>3, InstallFits DEF IInv
  <1>5. DOMAIN live = {} /\ \A r \in Requests : ~Active(r)
    BY <1>2 DEF IInv, OneAtATime
  <1>6. Shapes'
    <2>1. ProcessShape'
      BY <1>1, <1>2, <1>3 DEF IInv, Shapes, ProcessShape
    <2>2. LiveShape'
      BY <1>4 DEF LiveShape
    <2>3. RequestShape'
      BY <1>2 DEF IInv, Shapes, RequestShape
    <2> QED
      BY <2>1, <2>2, <2>3 DEF Shapes
  <1>7. OneAtATime'
    BY <1>2, <1>4, <1>5 DEF OneAtATime, Active, AtStep
  <1>8. AloneMeansInForce'
    BY <1>2, <1>5 DEF AloneMeansInForce, Active, AtStep
  <1>9. SavedIsInForce'
    BY <1>1, <1>2, <1>3, <1>4, NewSchedulerFits DEF SavedIsInForce, Wanted
  <1>10. JobsOfThePlan'
    BY <1>3, <1>4, <1>5, NewSchedulerFits DEF JobsOfThePlan
  <1> QED
    BY <1>2, <1>6, <1>7, <1>8, <1>9, <1>10 DEF IInv

(* The end of the process keeps the invariant.                             *)
LEMMA ProcessDiesKeeps == ASSUME IInv, ProcessDies PROVE IInv'
  <1> USE DEF ProcessDies, IInv
  <1>1. Shapes'
    <2>1. ProcessShape'
      BY DEF Shapes, ProcessShape
    <2>2. LiveShape'
      BY ScheduleAssumption DEF LiveShape
    <2>3. RequestShape'
      BY DEF RequestShape, Requested, Idle, Steps
    <2> QED
      BY <2>1, <2>2, <2>3 DEF Shapes
  <1>2. OneAtATime' /\ AloneMeansInForce' /\ SavedIsInForce' /\ JobsOfThePlan'
    BY DEF OneAtATime, AloneMeansInForce, SavedIsInForce, JobsOfThePlan, Active, AtStep, Idle
  <1> QED
    BY <1>1, <1>2

(* Meeting a save changes nothing of a request but whether it is alone.    *)
LEMMA ContestedFits ==
    ASSUME RequestShape, NEW q \in Requests
    PROVE  /\ Contested[q] \in Requested
           /\ Contested[q].step = requests[q].step /\ Contested[q].plan = requests[q].plan
           /\ Active(q) => Contested[q].alone = FALSE
  <1>1. requests[q] \in Requested
    BY DEF RequestShape
  <1>2. CASE Active(q)
    <2>1. Contested[q] = [step |-> requests[q].step, alone |-> FALSE, plan |-> requests[q].plan]
      BY <1>2 DEF Contested
    <2> QED
      BY <1>1, <2>1 DEF Requested
  <1>3. CASE ~Active(q)
    BY <1>1, <1>3 DEF Contested
  <1> QED
    BY <1>2, <1>3

(* A save keeps the invariant, whether or not the reload is asked for.     *)
LEMMA SaveOnlyKeeps == ASSUME IInv, NEW plan \in Plans, SaveOnly(plan) PROVE IInv'
  <1> USE DEF IInv
  <1>1. /\ saved' = plan /\ stale' = up /\ requests' = Contested
        /\ UNCHANGED <<up, current, live, started, overlapped>>
    BY DEF SaveOnly
  <1>2. ASSUME NEW q \in Requests
        PROVE  /\ requests'[q] \in Requested
               /\ requests'[q].step = requests[q].step /\ requests'[q].plan = requests[q].plan
               /\ Active(q) => requests'[q].alone = FALSE
    BY <1>1, ContestedFits DEF Shapes
  <1>3. Shapes'
    <2>1. ProcessShape' /\ LiveShape'
      BY <1>1 DEF Shapes, ProcessShape, LiveShape
    <2>2. requests' \in [Requests -> Requested]
      BY <1>1, <1>2 DEF Contested
    <2>3. RequestShape'
      BY <1>2, <2>2 DEF Shapes, RequestShape
    <2> QED
      BY <2>1, <2>3 DEF Shapes
  <1>4. OneAtATime'
    BY <1>1, <1>2 DEF OneAtATime, Active, AtStep
  <1>5. AloneMeansInForce'
    BY <1>1, <1>2 DEF AloneMeansInForce, OneAtATime, Active, AtStep
  <1>6. SavedIsInForce' /\ JobsOfThePlan'
    BY <1>1 DEF SavedIsInForce, JobsOfThePlan
  <1> QED
    BY <1>1, <1>3, <1>4, <1>5, <1>6

(* The same when the service is asked to reload.                           *)
LEMMA SaveKeeps ==
    ASSUME IInv, NEW r \in Requests, NEW plan \in Plans, Save(r, plan) PROVE IInv'
  <1> USE DEF IInv
  <1> DEFINE others == \E q \in Requests : Active(q)
  <1>1. /\ up /\ ~Active(r) /\ saved' = plan /\ stale' = TRUE
        /\ overlapped' = (overlapped \/ others)
        /\ requests' = [Contested EXCEPT ![r] = [step |-> "asked", alone |-> ~others, plan |-> None]]
        /\ UNCHANGED <<up, current, live, started>>
    BY DEF Save
  <1>2. ASSUME NEW q \in Requests, q # r
        PROVE  /\ requests'[q] \in Requested
               /\ requests'[q].step = requests[q].step
               /\ requests'[q].plan = requests[q].plan
               /\ Active(q) => requests'[q].alone = FALSE
    <2>1. requests'[q] = Contested[q]
      BY <1>1, <1>2 DEF Contested
    <2> QED
      BY <2>1, ContestedFits DEF Shapes
  <1>3. requests'[r] = [step |-> "asked", alone |-> ~others, plan |-> None]
    BY <1>1 DEF Contested
  <1>4. /\ requests'[r] \in Requested
        /\ requests'[r].step = "asked"
        /\ others => requests'[r].alone = FALSE
    <2> HIDE DEF others
    <2>1. CASE others
      <3>1. requests'[r] = [step |-> "asked", alone |-> FALSE, plan |-> None]
        BY <1>3, <2>1
      <3> QED
        BY <3>1 DEF Requested, Steps
    <2>2. CASE ~others
      <3>1. requests'[r] = [step |-> "asked", alone |-> TRUE, plan |-> None]
        BY <1>3, <2>2
      <3> QED
        BY <2>2, <3>1 DEF Requested, Steps
    <2> QED
      BY <2>1, <2>2
  <1>5. Shapes'
    <2>1. ProcessShape' /\ LiveShape'
      BY <1>1 DEF Shapes, ProcessShape, LiveShape
    <2>2. requests' \in [Requests -> Requested]
      BY <1>1, <1>2, <1>4 DEF Contested
    <2>3. RequestShape'
      BY <1>2, <1>4, <2>2 DEF Shapes, RequestShape
    <2> QED
      BY <2>1, <2>3 DEF Shapes
  <1>6. OneAtATime'
    BY <1>1, <1>2, <1>4 DEF OneAtATime, Active, AtStep
  <1>7. AloneMeansInForce'
    BY <1>1, <1>2, <1>4 DEF AloneMeansInForce, Active, AtStep
  <1>8. SavedIsInForce' /\ JobsOfThePlan'
    BY <1>1 DEF SavedIsInForce, JobsOfThePlan
  <1> QED
    BY <1>1, <1>5, <1>6, <1>7, <1>8

(* A reload whose request is the only thing that changes.                  *)
LEMMA RequestShapeKeeps ==
    ASSUME RequestShape, NEW r \in Requests, NEW req \in Requested,
           req.step = "resolved" => req.plan \in AllPlans,
           requests' = [requests EXCEPT ![r] = req]
    PROVE  /\ RequestShape' /\ requests'[r] = req
           /\ \A q \in Requests : q # r => requests'[q] = requests[q]
  BY DEF RequestShape

(* The idle request has the shape of a request.                            *)
LEMMA IdleFits == Idle \in Requested /\ Idle.step = "idle"
  BY DEF Idle, Requested, Steps

(* A request on its next step has the shape of a request.                  *)
LEMMA MovedFits ==
    ASSUME RequestShape, NEW r \in Requests, NEW to \in Steps
    PROVE  LET next == [requests[r] EXCEPT !.step = to]
           IN  /\ next \in Requested /\ next.step = to
               /\ next.alone = requests[r].alone /\ next.plan = requests[r].plan
  BY DEF RequestShape, Requested

(* What a step of a reload leaves alone keeps its shape.                   *)
LEMMA ReloadLeaves ==
    ASSUME Shapes, ReloadKeeps, stale' \in BOOLEAN PROVE ProcessShape'
  BY DEF Shapes, ProcessShape, ReloadKeeps

(* A reload that ends or goes on without touching the scheduler.           *)
LEMMA ReloadEntersKeeps == ASSUME IInv, NEW r \in Requests, ReloadEnters(r) PROVE IInv'
  <1> USE DEF IInv
  <1> DEFINE next == IF current = None THEN Idle ELSE [requests[r] EXCEPT !.step = "stopping"]
  <1>1. /\ requests[r].step = "asked" /\ requests' = [requests EXCEPT ![r] = next]
        /\ UNCHANGED <<current, live, started, stale, up, saved, overlapped>>
        /\ ReloadKeeps
    BY DEF ReloadEnters, AtStep, ReloadKeeps
  <1>2. /\ next \in Requested /\ next.step \in {"idle", "stopping"}
        /\ next.step = "stopping" => next.alone = requests[r].alone
    <2>1. CASE current = None
      BY <2>1, IdleFits
    <2>2. CASE current # None
      BY <2>2, MovedFits DEF Shapes, Steps
    <2> QED
      BY <2>1, <2>2
  <1> HIDE DEF next
  <1>3. /\ RequestShape' /\ requests'[r] = next
        /\ \A q \in Requests : q # r => requests'[q] = requests[q]
    BY <1>1, <1>2, RequestShapeKeeps DEF Shapes
  <1>4. Shapes'
    BY <1>1, <1>3, ReloadLeaves DEF Shapes, LiveShape, ProcessShape
  <1>5. OneAtATime'
    BY <1>1, <1>2, <1>3 DEF OneAtATime, Active, AtStep
  <1>6. AloneMeansInForce'
    BY <1>1, <1>2, <1>3 DEF AloneMeansInForce, Active, AtStep, Wanted
  <1>7. SavedIsInForce' /\ JobsOfThePlan'
    BY <1>1 DEF SavedIsInForce, JobsOfThePlan, Wanted
  <1> QED
    BY <1>1, <1>4, <1>5, <1>6, <1>7

(* A reload that stops the current scheduler.                              *)
LEMMA ReloadStopsKeeps == ASSUME IInv, NEW r \in Requests, ReloadStops(r) PROVE IInv'
  <1> USE DEF IInv
  <1> DEFINE next == [requests[r] EXCEPT !.step = "starting"]
  <1>1. /\ requests[r].step = "stopping" /\ requests' = [requests EXCEPT ![r] = next]
        /\ live' = IF current = None THEN live ELSE Without(live, current)
        /\ current' = None
        /\ UNCHANGED <<started, stale, up, saved, overlapped>>
        /\ ReloadKeeps
    BY DEF ReloadStops, AtStep, MoveTo, ReloadKeeps
  <1>2. /\ next \in Requested /\ next.step = "starting" /\ next.alone = requests[r].alone
    BY MovedFits DEF Shapes, Steps
  <1> HIDE DEF next
  <1>3. /\ RequestShape' /\ requests'[r] = next
        /\ \A q \in Requests : q # r => requests'[q] = requests[q]
    BY <1>1, <1>2, RequestShapeKeeps DEF Shapes
  <1>4. /\ DOMAIN live' = DOMAIN live \ {current}
        /\ \A s \in DOMAIN live' : live'[s] = live[s]
        /\ live' = [s \in DOMAIN live' |-> live'[s]]
    <2>1. CASE current = None
      <3>1. live' = live /\ live = [s \in DOMAIN live |-> live[s]]
        BY <1>1, <2>1 DEF Shapes, LiveShape
      <3>2. current \notin DOMAIN live
        BY <2>1, ScheduleAssumption DEF Shapes, LiveShape
      <3> QED
        BY <3>1, <3>2
    <2>2. CASE current # None
      BY <1>1, <2>2 DEF Without
    <2> QED
      BY <2>1, <2>2
  <1>5. LiveShape'
    BY <1>1, <1>4 DEF Shapes, LiveShape
  <1>6. Shapes'
    BY <1>1, <1>3, <1>5, ReloadLeaves DEF Shapes, ProcessShape
  <1>7. up /\ stale
    BY <1>1 DEF OneAtATime, AloneMeansInForce, Active, Shapes, ProcessShape
  <1>8. OneAtATime'
    BY <1>1, <1>2, <1>3, <1>4, <1>7 DEF OneAtATime, Active, AtStep
  <1>9. AloneMeansInForce'
    BY <1>1, <1>2, <1>3 DEF AloneMeansInForce, Active, AtStep, Wanted
  <1>10. SavedIsInForce' /\ JobsOfThePlan'
    BY <1>1, <1>4, <1>7 DEF SavedIsInForce, JobsOfThePlan
  <1> QED
    BY <1>1, <1>6, <1>8, <1>9, <1>10

(* A reload that finds out what to start.                                  *)
LEMMA ReloadResolvesKeeps == ASSUME IInv, NEW r \in Requests, ReloadResolves(r) PROVE IInv'
  <1> USE DEF IInv
  <1>1. /\ requests[r].step = "starting"
        /\ UNCHANGED <<current, live, started, stale, up, saved, overlapped>>
        /\ ReloadKeeps
    BY DEF ReloadResolves, AtStep, ReloadKeeps
  <1>2. \E next \in Requested :
           /\ requests' = [requests EXCEPT ![r] = next]
           /\ next.step = "idle" \/ next.step = "resolved"
           /\ next.step = "resolved" =>
                 /\ current = None /\ next.plan \in AllPlans
                 /\ next.alone = TRUE => requests[r].alone = TRUE /\ next.plan = Wanted
    <2>1. CASE current # None
      BY <2>1, IdleFits DEF ReloadResolves
    <2>2. CASE current = None
      <3>1. PICK found \in Resolutions :
              requests' = [requests EXCEPT ![r] =
                [step |-> "resolved", alone |-> requests[r].alone /\ found.read, plan |-> found.plan]]
        BY <2>2 DEF ReloadResolves, Shapes, RequestShape
      <3>2. /\ found.plan \in AllPlans
            /\ (found.read = TRUE /\ found.plan = Wanted) \/ found.read = FALSE
        BY ResolvesToAPlan
      <3>3. requests[r].alone \in BOOLEAN
        BY DEF Shapes, RequestShape, Requested
      <3>4. CASE requests[r].alone = TRUE /\ found.read = TRUE
        <4>1. requests' = [requests EXCEPT ![r] =
                 [step |-> "resolved", alone |-> TRUE, plan |-> found.plan]]
          BY <3>1, <3>4
        <4>2. [step |-> "resolved", alone |-> TRUE, plan |-> found.plan] \in Requested
          BY <3>2 DEF Requested, Steps
        <4> QED
          BY <2>2, <3>2, <3>4, <4>1, <4>2
      <3>5. CASE requests[r].alone = FALSE \/ found.read = FALSE
        <4>1. requests' = [requests EXCEPT ![r] =
                 [step |-> "resolved", alone |-> FALSE, plan |-> found.plan]]
          BY <3>1, <3>5
        <4>2. [step |-> "resolved", alone |-> FALSE, plan |-> found.plan] \in Requested
          BY <3>2 DEF Requested, Steps
        <4> QED
          BY <2>2, <3>2, <4>1, <4>2
      <3> QED
        BY <3>2, <3>3, <3>4, <3>5
    <2> QED
      BY <2>1, <2>2
  <1>3. PICK next \in Requested :
           /\ requests' = [requests EXCEPT ![r] = next]
           /\ next.step = "idle" \/ next.step = "resolved"
           /\ next.step = "resolved" =>
                 /\ current = None /\ next.plan \in AllPlans
                 /\ next.alone = TRUE => requests[r].alone = TRUE /\ next.plan = Wanted
    BY <1>2
  <1>4. /\ RequestShape' /\ requests'[r] = next
        /\ \A q \in Requests : q # r => requests'[q] = requests[q]
    BY <1>3, RequestShapeKeeps DEF Shapes
  <1>5. Shapes'
    BY <1>1, <1>4, ReloadLeaves DEF Shapes, LiveShape, ProcessShape
  <1>6. OneAtATime'
    BY <1>1, <1>3, <1>4 DEF OneAtATime, Active, AtStep
  <1>7. AloneMeansInForce'
    <2>1. Wanted' = Wanted
      BY <1>1 DEF Wanted
    <2> QED
      BY <1>1, <1>3, <1>4, <2>1 DEF AloneMeansInForce, Active, AtStep
  <1>8. SavedIsInForce' /\ JobsOfThePlan'
    BY <1>1 DEF SavedIsInForce, JobsOfThePlan, Wanted
  <1> QED
    BY <1>1, <1>5, <1>6, <1>7, <1>8

(* A reload that starts a scheduler, or is refused.                        *)
LEMMA ReloadStartsKeeps == ASSUME IInv, NEW r \in Requests, ReloadStarts(r) PROVE IInv'
  <1> USE DEF IInv
  <1> DEFINE plan == requests[r].plan
  <1>1. /\ requests[r].step = "resolved" /\ requests' = [requests EXCEPT ![r] = Idle]
        /\ UNCHANGED <<up, saved, overlapped>>
        /\ ReloadKeeps
        /\ plan \in AllPlans
    BY DEF ReloadStarts, AtStep, ReloadKeeps, Shapes, RequestShape
  <1>2. /\ RequestShape' /\ requests'[r] = Idle /\ Idle.step = "idle"
        /\ \A q \in Requests : q # r => requests'[q] = requests[q]
    BY <1>1, IdleFits, RequestShapeKeeps DEF Shapes
  <1>3. up /\ stale = TRUE
    BY <1>1 DEF OneAtATime, AloneMeansInForce, Active, Shapes, ProcessShape
  <1>4. CASE UNCHANGED <<current, live, started, stale>>
    <2>1. Shapes'
      BY <1>1, <1>2, <1>4, ReloadLeaves DEF Shapes, LiveShape, ProcessShape
    <2>2. OneAtATime'
      BY <1>1, <1>2, <1>4 DEF OneAtATime, Active, AtStep
    <2>3. AloneMeansInForce'
      BY <1>1, <1>2, <1>3, <1>4 DEF AloneMeansInForce, Active, AtStep, Wanted
    <2>4. SavedIsInForce' /\ JobsOfThePlan'
      BY <1>3, <1>4 DEF SavedIsInForce, JobsOfThePlan
    <2> QED
      BY <1>1, <2>1, <2>2, <2>3, <2>4
  <1>5. CASE Install(plan) /\ stale' = ~requests[r].alone
    <2>1. /\ live' \in [DOMAIN live' -> [plan : AllPlans, jobs : SUBSET AnyJob]]
          /\ started' \in 0 .. MaxSchedulers
          /\ DOMAIN live' = DOMAIN live \cup {started + 1} /\ DOMAIN live' \subseteq 1 .. started'
          /\ current' = started + 1 /\ current' \in DOMAIN live' \cup {None}
          /\ current' # None
          /\ live'[current'] = NewScheduler(plan)
          /\ \A s \in DOMAIN live : live'[s] = live[s]
      BY <1>1, <1>5, InstallFits
    <2>2. \/ requests[r].alone = TRUE /\ stale' = FALSE
          \/ requests[r].alone = FALSE /\ stale' = TRUE
      <3>1. requests[r].alone = TRUE \/ requests[r].alone = FALSE
        <4>1. requests[r].alone \in BOOLEAN
          BY DEF Shapes, RequestShape, Requested
        <4> QED
          BY <4>1
      <3>2. stale' = ~requests[r].alone
        BY <1>5, Zenon
      <3>3. ASSUME requests[r].alone = TRUE PROVE stale' = FALSE
        BY <3>2, <3>3, Zenon
      <3>4. ASSUME requests[r].alone = FALSE PROVE stale' = TRUE
        BY <3>2, <3>4, Zenon
      <3> QED
        BY <3>1, <3>3, <3>4, Zenon
    <2>3. Shapes'
      BY <1>1, <1>2, <2>1, <2>2, ReloadLeaves DEF Shapes, LiveShape
    <2>4. OneAtATime'
      <3>1. ~overlapped => DOMAIN live = {}
        <4>1. ~overlapped => current = None /\ DOMAIN live \subseteq {current}
          BY <1>1 DEF OneAtATime, AtStep
        <4>2. None \notin DOMAIN live
          BY ScheduleAssumption DEF Shapes, LiveShape
        <4> QED
          BY <4>1, <4>2
      <3>2. ~overlapped => \A q \in Requests : requests'[q].step = "idle"
        BY <1>1, <1>2 DEF OneAtATime, Active
      <3> QED
        BY <1>1, <1>3, <2>1, <3>1, <3>2 DEF OneAtATime, Active, AtStep
    <2>5. requests[r].alone = TRUE =>
             plan = Wanted /\ \A q \in Requests : requests'[q].step = "idle"
      BY <1>1, <1>2 DEF AloneMeansInForce, Active, AtStep
    <2>6. Wanted' = Wanted
      BY <1>1 DEF Wanted
    <2>7. AloneMeansInForce'
      BY <1>1, <1>2, <2>2, <2>5, <2>6 DEF AloneMeansInForce, Active, AtStep
    <2>8. SavedIsInForce'
      BY <1>1, <2>1, <2>2, <2>5, <2>6, NewSchedulerFits DEF SavedIsInForce
    <2>9. JobsOfThePlan'
      <3>1. /\ OfKind(live'[current'].jobs, "alert") = AlertJobs(live'[current'].plan)
            /\ OfKind(live'[current'].jobs, "monitor")
                 = {CronJob("monitor", ScanHours(live'[current'].plan), {0})}
        BY <1>1, <2>1, NewSchedulerFits
      <3>2. \A s \in DOMAIN live' : s = current' \/ s \in DOMAIN live
        BY <2>1
      <3> QED
        BY <2>1, <3>1, <3>2 DEF JobsOfThePlan
    <2> QED
      BY <1>1, <2>3, <2>4, <2>7, <2>8, <2>9
  <1> QED
    BY <1>4, <1>5 DEF ReloadStarts
(* The invariant holds in every state, whatever the schedules and the      *)
(* requests.                                                               *)
THEOREM IInvHolds == Spec => []IInv
  <1>1. Init => IInv
    BY InitIInv
  <1>2. IInv /\ [Next]_vars => IInv'
    <2> SUFFICES ASSUME IInv, [Next]_vars PROVE IInv'
      OBVIOUS
    <2>1. CASE Boot \/ ProcessDies
      BY <2>1, BootKeeps, ProcessDiesKeeps
    <2>2. ASSUME NEW plan \in Plans, SaveOnly(plan) \/ \E r \in Requests : Save(r, plan) PROVE IInv'
      BY <2>2, SaveOnlyKeeps, SaveKeeps
    <2>3. ASSUME NEW r \in Requests, ReloadStep(r) PROVE IInv'
      BY <2>3, ReloadEntersKeeps, ReloadStopsKeeps, ReloadResolvesKeeps, ReloadStartsKeeps
      DEF ReloadStep
    <2>4. CASE UNCHANGED vars
      <3>1. Shapes'
        BY <2>4 DEF IInv, Shapes, ProcessShape, LiveShape, RequestShape, vars
      <3>2. OneAtATime' /\ AloneMeansInForce'
        BY <2>4 DEF IInv, OneAtATime, AloneMeansInForce, Active, AtStep, Wanted, vars
      <3>3. SavedIsInForce' /\ JobsOfThePlan'
        BY <2>4 DEF IInv, SavedIsInForce, JobsOfThePlan, Wanted, vars
      <3> QED
        BY <3>1, <3>2, <3>3 DEF IInv
    <2> QED
      BY <2>1, <2>2, <2>3, <2>4 DEF Next
  <1> QED
    BY <1>1, <1>2, PTL DEF Spec
-----------------------------------------------------------------------------
(* What follows                                                            *)

(* Every variable has its type.                                            *)
THEOREM TypeIsSafe == Spec => []TypeOK
  <1>1. IInv => TypeOK
    BY DEF IInv, Shapes, ProcessShape, LiveShape, RequestShape, Requested, Steps, TypeOK
  <1> QED
    BY <1>1, IInvHolds, PTL

(* A scheduler is left beside the current one only when two reloads of     *)
(* scheduler.reschedule overlapped, however many run and however many      *)
(* schedules are saved.                                                    *)
THEOREM LeaksAreOverlaps == Spec => []OnlyOverlapsLeak
  <1>1. ASSUME IInv PROVE OnlyOverlapsLeak
    <2>1. ~overlapped => DOMAIN live \subseteq {current}
      BY <1>1 DEF IInv, OneAtATime
    <2>2. ASSUME DOMAIN live \subseteq {current} PROVE ~(Cardinality(DOMAIN live) > 1)
      <3>1. CASE DOMAIN live = {}
        <4>1. Cardinality(DOMAIN live) = 0
          BY <3>1, FS_EmptySet, Zenon
        <4> QED
          BY <4>1
      <3>2. CASE DOMAIN live = {current}
        <4>1. Cardinality(DOMAIN live) = 1
          BY <3>2, FS_Singleton
        <4> QED
          BY <4>1
      <3> QED
        BY <2>2, <3>1, <3>2
    <2> QED
      BY <2>1, <2>2 DEF OnlyOverlapsLeak
  <1> QED
    BY <1>1, IInvHolds, PTL

(* A save that was reloaded alone and read is the schedule in force        *)
(* (scheduler.reschedule, resolve_schedule), over boots and failures.      *)
THEOREM SavesAreInForce == Spec => []SavedIsInForce
  <1>1. IInv => SavedIsInForce
    BY DEF IInv
  <1> QED
    BY <1>1, IInvHolds, PTL

(* For every schedule and every length of day, the cron expressions it is  *)
(* turned into fire its alerts at its times only, and its scans inside its *)
(* window with no gap of a step.                                           *)
THEOREM SchedulesFireAsSet == Spec => []FiresAsSet
  <1>1. ASSUME IInv PROVE FiresAsSet
    <2>1. ASSUME NEW s \in DOMAIN live
          PROVE  /\ live[s].plan \in AllPlans
                 /\ OfKind(live[s].jobs, "alert") = AlertJobs(live[s].plan)
                 /\ OfKind(live[s].jobs, "monitor") = {CronJob("monitor", ScanHours(live[s].plan), {0})}
      BY <1>1 DEF IInv, Shapes, LiveShape, JobsOfThePlan
    <2>2. AlertsAtItsTimes
      BY <2>1, AlertsFire DEF AlertsAtItsTimes
    <2>3. ASSUME NEW s \in DOMAIN live
          PROVE  UNION {j.hours : j \in OfKind(live[s].jobs, "monitor")} = ScanHours(live[s].plan)
      <3>1. {j.hours : j \in OfKind(live[s].jobs, "monitor")} = {ScanHours(live[s].plan)}
        <4>1. CronJob("monitor", ScanHours(live[s].plan), {0}).hours = ScanHours(live[s].plan)
          BY DEF CronJob
        <4> QED
          BY <2>1, <4>1
      <3> QED
        BY <3>1
    <2>4. ScansCoverTheWindow
      BY <2>1, <2>3, ScansCover DEF ScansCoverTheWindow
    <2> QED
      BY <2>2, <2>4 DEF FiresAsSet
  <1> QED
    BY <1>1, IInvHolds, PTL
=============================================================================
