------------------------ MODULE LeadPipeline_proofs ------------------------
(***************************************************************************)
(* LeadPipeline for any number of hunts, retries, worker threads, domains  *)
(* and faults.                                                             *)
(***************************************************************************)
EXTENDS LeadPipeline, FiniteSetTheorems, TLAPS

Queued == {r \in Rows : rowStatus[r] # "none"}

\* Rows are numbered without reuse, and a row on record is about a company.
RowsFit ==
    \A r \in Queued : r <= rows /\ about[r] \in Domains /\ owner[r] \in Hunts

\* A push is of a row on record; after a reply 200 the platform has it.
CallerFits(x) ==
    /\ push[x].at # "idle" => push[x].row \in Queued
    /\ push[x].at \in {"sent", "seen"} => push[x].row \in applied

RetryFits(x) == retry[x] \subseteq Queued

\* A request at work is about a row on record, stored from the first
\* transaction on; whoever waits for it waits with that row.
HandlerFits(s) ==
    /\ handler[s].at # "free" => handler[s].row \in Queued /\ handler[s].domain \in Domains
    /\ handler[s].at = "free" => handler[s].client = NoCaller
    /\ handler[s].at \in {"find", "insert", "ok"} => handler[s].row \in applied
    /\ handler[s].client \in Callers =>
          /\ push[handler[s].client].at = "wait"
          /\ push[handler[s].client].row = handler[s].row

\* Nobody waits for two handlers.
OneHandlerEach ==
    \A s, t \in Slots :
        handler[s].client = handler[t].client /\ handler[s].client \in Callers => s = t

\* Only what the platform has stored is marked sent.
SentStored == \A r \in Rows : rowStatus[r] = "sent" => r \in applied

HuntFits(h) ==
    /\ hunt[h].at = "off" => hunt[h] = Off
    /\ hunt[h].at \in {"skip", "queue"} => hunt[h].domain \in Domains
    /\ push[h].at # "idle" => hunt[h].at = "push"

Delivery ==
    /\ RowsFit
    /\ \A x \in Callers : CallerFits(x)
    /\ \A x \in Retriers : RetryFits(x)
    /\ \A s \in Slots : HandlerFits(s)
    /\ OneHandlerEach
    /\ SentStored

Inv ==
    /\ TypeOK
    /\ Delivery
    /\ \A h \in Hunts : HuntFits(h)

-----------------------------------------------------------------------------
LEMMA OffIsLocal == Off \in HuntState
BY DEF Off, HuntState, HuntSteps

LEMMA FreeIsHandler == Free \in Handler
BY DEF Free, Handler, HandlerSteps

LEMMA IdleIsPush == Idle \in Push
BY DEF Idle, Push, PushSteps

LEMMA InitInv == Init => Inv
<1>1. SUFFICES ASSUME Init PROVE Inv
  OBVIOUS
<1>2. IntakeTypeOK
  BY <1>1, FreeIsHandler DEF Init, IntakeInit, IntakeTypeOK
<1>3. TypeOK
  BY <1>1, <1>2, OffIsLocal, IdleIsPush, IntakeAssumption, PipelineAssumption DEF Init, TypeOK, Rows
<1>4. Queued = {}
  BY <1>1 DEF Init, Queued
<1>5. Delivery
  <2>1. RowsFit /\ SentStored
    BY <1>1, <1>4 DEF RowsFit, SentStored, Init
  <2>2. \A x \in Callers : CallerFits(x)
    BY <1>1 DEF Init, CallerFits, Idle
  <2>3. \A x \in Retriers : RetryFits(x)
    BY <1>1 DEF Init, RetryFits
  <2>4. \A s \in Slots : HandlerFits(s)
    BY <1>1, IntakeAssumption DEF Init, IntakeInit, HandlerFits, Free
  <2>5. OneHandlerEach
    BY <1>1, IntakeAssumption DEF Init, IntakeInit, OneHandlerEach, Free
  <2>6. QED  BY <2>1, <2>2, <2>3, <2>4, <2>5 DEF Delivery
<1>6. \A h \in Hunts : HuntFits(h)
  BY <1>1, PipelineAssumption DEF Init, HuntFits, Off, Idle
<1>7. QED  BY <1>3, <1>5, <1>6 DEF Inv

-----------------------------------------------------------------------------
(* Steps of a hunt that leave the outbox and the pushes alone.             *)

deliveryState == <<rows, rowStatus, about, owner, retry, push, handler, applied>>

LEMMA DeliveryStays == Delivery /\ UNCHANGED deliveryState => Delivery'
BY DEF Delivery, deliveryState, RowsFit, CallerFits, RetryFits, HandlerFits, OneHandlerEach,
       SentStored, Queued

\* What such a step may change, apart from the hunt's own state.
Aside ==
    /\ UNCHANGED deliveryState
    /\ lead' \in [Domains -> Rows \cup {0}] /\ founders' \in [Domains -> Nat]
    /\ seen' \subseteq Domains /\ dropping' \subseteq Domains
    /\ job' \in [Hunts -> {"none", "pending", "running", "succeeded", "failed"}]
    /\ verified' \in [Hunts -> Nat]
    /\ barred' \in [Hunts -> SUBSET Domains] /\ missed' \in [Hunts -> SUBSET Domains]
    /\ faults' \in 0..MaxFaults

LEMMA AsideKeepsTypes ==
    ASSUME TypeOK, Aside, hunt' \in [Hunts -> HuntState]
    PROVE  TypeOK'
BY DEF TypeOK, Aside, IntakeTypeOK, deliveryState

LEMMA HuntMoves ==
    ASSUME Inv, Aside, NEW h \in Hunts, NEW l \in HuntState, Become(h, l),
           hunt[h].at # "push", l.at \notin {"off", "push"},
           l.at \in {"skip", "queue"} => l.domain \in Domains
    PROVE  Inv'
<1>1. hunt' \in [Hunts -> HuntState] /\ hunt'[h] = l
      /\ \A g \in Hunts \ {h} : hunt'[g] = hunt[g]
  BY DEF Become, Inv, TypeOK
<1>2. \A g \in Hunts : HuntFits(g)'
  BY <1>1 DEF HuntFits, Inv, Aside, deliveryState
<1>3. QED  BY <1>1, <1>2, AsideKeepsTypes, DeliveryStays DEF Inv, Aside

LEMMA FaultCounted ==
    ASSUME TypeOK, Fine \/ Fault
    PROVE  faults' \in 0..MaxFaults
BY PipelineAssumption DEF TypeOK, Fine, Fault

LEMMA LoopIsLocal ==
    ASSUME NEW todo \in SUBSET Domains
    PROVE  /\ [Off EXCEPT !.at = "loop", !.todo = todo] \in HuntState
           /\ [Off EXCEPT !.at = "loop", !.todo = todo].at = "loop"
BY DEF Off, HuntState, HuntSteps

LEMMA ProgressingIsLocal ==
    ASSUME TypeOK, NEW h \in Hunts, NEW b \in BOOLEAN
    PROVE  Progressing(h, b) \in HuntState /\ Progressing(h, b).at = "progress"
BY DEF TypeOK, Progressing, HuntState, HuntSteps

LEMMA OverIsLocal ==
    [Off EXCEPT !.at = "over"] \in HuntState /\ [Off EXCEPT !.at = "over"].at = "over"
BY DEF Off, HuntState, HuntSteps

LEMMA AcceptInv == ASSUME Inv, NEW h \in Hunts, Accept(h) PROVE Inv'
<1> DEFINE l == [hunt[h] EXCEPT !.at = "begin"]
<1>1. hunt[h] \in HuntState
  BY DEF Inv, TypeOK
<1>2. l \in HuntState /\ l.at = "begin"
  BY <1>1 DEF HuntState, HuntSteps
<1>3. Become(h, l)
  BY DEF Accept, Goto, Become
<1>4. Aside
  BY DEF Aside, Accept, Inv, TypeOK, IntakeTypeOK, intakeVars, outboxVars, deliveryState
<1>5. hunt[h].at # "push"
  BY DEF Accept, At
<1> HIDE DEF l
<1>6. QED  BY <1>2, <1>3, <1>4, <1>5, HuntMoves

LEMMA BeginInv == ASSUME Inv, NEW h \in Hunts, Begin(h) PROVE Inv'
<1>1. PICK found \in SUBSET Domains :
         Become(h, [hunt[h] EXCEPT !.at = "check", !.found = found])
  BY DEF Begin
<1> DEFINE l == [hunt[h] EXCEPT !.at = "check", !.found = found]
<1>2. l \in HuntState /\ l.at = "check"
  BY DEF Inv, TypeOK, HuntState, HuntSteps
<1>3. Aside
  BY DEF Aside, Begin, Inv, TypeOK, IntakeTypeOK, intakeVars, outboxVars, deliveryState, historyVars
<1>4. hunt[h].at # "push"
  BY DEF Begin, At
<1> HIDE DEF l
<1>5. QED  BY <1>1, <1>2, <1>3, <1>4, HuntMoves DEF l

LEMMA CheckSeenInv == ASSUME Inv, NEW h \in Hunts, CheckSeen(h) PROVE Inv'
<1>1. PICK d \in hunt[h].found :
         \/ /\ Become(h, [hunt[h] EXCEPT !.found = @ \ {d},
                            !.novel = IF d \in seen THEN @ ELSE @ \cup {d}])
            /\ UNCHANGED missed
            /\ Fine
         \/ /\ Become(h, [hunt[h] EXCEPT !.found = @ \ {d}, !.novel = @ \cup {d}])
            /\ missed' = [missed EXCEPT ![h] = @ \cup {d}]
            /\ Fault
  BY DEF CheckSeen
<1> DEFINE l(novel) == [hunt[h] EXCEPT !.found = @ \ {d}, !.novel = novel]
<1>2. hunt[h] \in HuntState /\ hunt[h].at = "check" /\ d \in Domains
  BY DEF Inv, TypeOK, HuntState, CheckSeen, At
<1>3. ASSUME NEW novel \in {hunt[h].novel, hunt[h].novel \cup {d}}
      PROVE  l(novel) \in HuntState /\ l(novel).at = "check"
  BY <1>2 DEF HuntState
<1>4. missed' \in [Hunts -> SUBSET Domains]
  BY <1>1, <1>2 DEF Inv, TypeOK
<1>5. Aside
  BY <1>1, <1>4, FaultCounted
     DEF Aside, CheckSeen, Inv, TypeOK, IntakeTypeOK, intakeVars, outboxVars, jobVars, deliveryState
<1>6. Become(h, l(hunt[h].novel)) \/ Become(h, l(hunt[h].novel \cup {d}))
  BY <1>1
<1> HIDE DEF l
<1>7. QED  BY <1>2, <1>3, <1>5, <1>6, HuntMoves

LEMMA AskPlatformInv == ASSUME Inv, NEW h \in Hunts, AskPlatform(h) PROVE Inv'
<1>1. PICK known \in {Known(hunt[h].novel), {}} :
         /\ Fine \/ Fault
         /\ \/ Become(h, [Off EXCEPT !.at = "loop", !.todo = hunt[h].novel])
            \/ Become(h, [hunt[h] EXCEPT !.at = "seed", !.known = known])
  BY DEF AskPlatform, Loop
<1>2. hunt[h] \in HuntState /\ hunt[h].at = "check" /\ known \subseteq Domains
  BY DEF Inv, TypeOK, HuntState, AskPlatform, At, Known
<1>3. hunt[h].novel \in SUBSET Domains
  BY <1>2 DEF HuntState
<1>4. Aside
  BY <1>1, FaultCounted
     DEF Aside, AskPlatform, Inv, TypeOK, IntakeTypeOK, intakeVars, outboxVars, jobVars,
         deliveryState, historyVars
<1>5. CASE Become(h, [Off EXCEPT !.at = "loop", !.todo = hunt[h].novel])
  BY <1>2, <1>3, <1>4, <1>5, LoopIsLocal, HuntMoves
<1>6. CASE Become(h, [hunt[h] EXCEPT !.at = "seed", !.known = known])
  <2> DEFINE l == [hunt[h] EXCEPT !.at = "seed", !.known = known]
  <2>1. l \in HuntState /\ l.at = "seed"
    BY <1>2 DEF HuntState, HuntSteps
  <2> HIDE DEF l
  <2>2. QED  BY <1>2, <1>4, <1>6, <2>1, HuntMoves DEF l
<1>7. QED  BY <1>1, <1>5, <1>6

LEMMA SeedSeenInv == ASSUME Inv, NEW h \in Hunts, SeedSeen(h) PROVE Inv'
<1>1. hunt[h] \in HuntState /\ hunt[h].at = "seed"
  BY DEF Inv, TypeOK, SeedSeen, At
<1>2. hunt[h].known \subseteq Domains /\ hunt[h].novel \ hunt[h].known \in SUBSET Domains
  BY <1>1 DEF HuntState
<1>3. Aside
  BY <1>2, FaultCounted
     DEF Aside, SeedSeen, Inv, TypeOK, IntakeTypeOK, intakeVars, outboxVars, jobVars,
         deliveryState, historyVars
<1>4. QED  BY <1>1, <1>2, <1>3, LoopIsLocal, HuntMoves DEF SeedSeen, Loop

LEMMA NextCandidateInv == ASSUME Inv, NEW h \in Hunts, NextCandidate(h) PROVE Inv'
<1>1. PICK d \in hunt[h].todo, step \in {"skip", "queue"} :
         Become(h, [hunt[h] EXCEPT !.at = step, !.domain = d, !.todo = @ \ {d}])
  BY DEF NextCandidate
<1> DEFINE l == [hunt[h] EXCEPT !.at = step, !.domain = d, !.todo = @ \ {d}]
<1>2. hunt[h] \in HuntState /\ hunt[h].at = "loop" /\ d \in Domains
  BY DEF Inv, TypeOK, HuntState, NextCandidate, At
<1>3. l \in HuntState /\ l.at = step /\ l.domain = d
  BY <1>2 DEF HuntState, HuntSteps
<1>4. Aside
  BY DEF Aside, NextCandidate, Inv, TypeOK, IntakeTypeOK, intakeVars, outboxVars, jobVars,
         deliveryState, historyVars
<1> HIDE DEF l
<1>5. QED  BY <1>1, <1>2, <1>3, <1>4, HuntMoves DEF l

LEMMA SkipInv == ASSUME Inv, NEW h \in Hunts, Skip(h) PROVE Inv'
<1>1. hunt[h] \in HuntState /\ hunt[h].at = "skip" /\ hunt[h].domain \in Domains
  BY DEF Inv, TypeOK, Skip, At, HuntFits
<1>2. hunt[h].todo \in SUBSET Domains
  BY <1>1 DEF HuntState
<1>3. Aside
  BY <1>1, FaultCounted
     DEF Aside, Skip, Inv, TypeOK, IntakeTypeOK, intakeVars, outboxVars, jobVars,
         deliveryState, historyVars
<1>4. CASE Loop(h, hunt[h].todo)
  BY <1>1, <1>2, <1>3, <1>4, LoopIsLocal, HuntMoves DEF Loop
<1>5. CASE Become(h, Progressing(h, FALSE))
  BY <1>1, <1>3, <1>5, ProgressingIsLocal, HuntMoves DEF Inv
<1>6. QED  BY <1>4, <1>5 DEF Skip

LEMMA CandidateFailsInv == ASSUME Inv, NEW h \in Hunts, CandidateFails(h) PROVE Inv'
<1>1. hunt[h].at \in {"skip", "queue"}
  BY DEF CandidateFails, At
<1>2. Aside
  BY FaultCounted
     DEF Aside, CandidateFails, Inv, TypeOK, IntakeTypeOK, intakeVars, outboxVars, jobVars,
         deliveryState, historyVars
<1>3. QED  BY <1>1, <1>2, ProgressingIsLocal, HuntMoves DEF Inv, CandidateFails

LEMMA ProgressInv == ASSUME Inv, NEW h \in Hunts, Progress(h) PROVE Inv'
<1>1. hunt[h] \in HuntState /\ hunt[h].at = "progress"
  BY DEF Inv, TypeOK, Progress, At
<1>2. hunt[h].todo \in SUBSET Domains
  BY <1>1 DEF HuntState
<1>3. verified' \in [Hunts -> Nat]
  BY DEF Progress, Inv, TypeOK
<1>4. Aside
  BY <1>3 DEF Aside, Progress, Inv, TypeOK, IntakeTypeOK, intakeVars, outboxVars,
         deliveryState, historyVars
<1>5. QED  BY <1>1, <1>2, <1>4, LoopIsLocal, HuntMoves DEF Progress, Loop

LEMMA FinishInv == ASSUME Inv, NEW h \in Hunts, Finish(h) PROVE Inv'
<1>1. Aside
  BY DEF Aside, Finish, Inv, TypeOK, IntakeTypeOK, intakeVars, outboxVars,
         deliveryState, historyVars
<1>2. QED  BY <1>1, OverIsLocal, HuntMoves DEF Finish, At

LEMMA BreakInv == ASSUME Inv, NEW h \in Hunts, Break(h) PROVE Inv'
<1>1. Aside
  BY FaultCounted
     DEF Aside, Break, Inv, TypeOK, IntakeTypeOK, intakeVars, outboxVars, deliveryState, historyVars
<1>2. QED  BY <1>1, OverIsLocal, HuntMoves DEF Break

-----------------------------------------------------------------------------
(* Steps of a push.                                                        *)

\* Caller x moves on, and no request is sent or answered.
LEMMA PushMoves ==
    ASSUME Inv, NEW x \in Callers, NEW p \in Push, push' = [push EXCEPT ![x] = p],
           push[x].at # "wait", p.at # "wait",
           UNCHANGED <<handler, applied>>, Queued \subseteq Queued',
           p.at # "idle" => p.row \in Queued',
           p.at \in {"sent", "seen"} => p.row \in applied
    PROVE  /\ push' \in [Callers -> Push]
           /\ \A y \in Callers : CallerFits(y)'
           /\ \A s \in Slots : HandlerFits(s)'
           /\ OneHandlerEach'
<1>1. push' \in [Callers -> Push] /\ push'[x] = p /\ \A y \in Callers \ {x} : push'[y] = push[y]
  BY DEF Inv, TypeOK
<1>2. ASSUME NEW y \in Callers PROVE CallerFits(y)'
  BY <1>1 DEF Inv, Delivery, CallerFits
<1>3. ASSUME NEW s \in Slots PROVE HandlerFits(s)'
  BY <1>1 DEF Inv, Delivery, HandlerFits
<1>4. OneHandlerEach'
  BY DEF Inv, Delivery, OneHandlerEach
<1>5. QED  BY <1>1, <1>2, <1>3, <1>4

LEMMA CallersAre == /\ Hunts \subseteq Callers /\ Retriers \subseteq Callers
                    /\ \A x \in Callers : x \in Hunts \/ x \in Retriers
                    /\ Hunts \cap Retriers = {}
BY PipelineAssumption

\* The end of a push: the caller is idle, or a retry goes on with a row of its
\* batch.
LEMMA BatchMoves ==
    ASSUME Inv, NEW x \in Retriers, NEW rs \in SUBSET Queued, PushFirst(x, rs)
    PROVE  /\ \E p \in Push : /\ push' = [push EXCEPT ![x] = p]
                              /\ p.at \in {"idle", "post"}
                              /\ p.at = "post" => p.row \in Queued
           /\ retry' \in [Retriers -> SUBSET Rows]
           /\ \A y \in Retriers : retry'[y] \subseteq Queued
<1>1. CASE push' = [push EXCEPT ![x] = Idle]
  <2>1. Idle.at = "idle"
    BY DEF Idle
  <2>2. retry' \in [Retriers -> SUBSET Rows] /\ \A y \in Retriers : retry'[y] \subseteq Queued
    BY DEF PushFirst, Inv, TypeOK, Queued, Delivery, RetryFits
  <2>3. QED  BY <1>1, <2>1, <2>2, IdleIsPush
<1>2. CASE \E r \in rs : push' = [push EXCEPT ![x] = [at |-> "post", row |-> r]]
  <2>1. PICK r \in rs : push' = [push EXCEPT ![x] = [at |-> "post", row |-> r]]
    BY <1>2
  <2>2. [at |-> "post", row |-> r] \in Push
    BY DEF Push, PushSteps, Queued
  <2>3. retry' \in [Retriers -> SUBSET Rows] /\ \A y \in Retriers : retry'[y] \subseteq Queued
    BY DEF PushFirst, Inv, TypeOK, Queued, Delivery, RetryFits
  <2>4. QED  BY <2>1, <2>2, <2>3
<1>3. QED  BY <1>1, <1>2 DEF PushFirst

LEMMA HandsBack ==
    ASSUME Inv, NEW x \in Callers, Return(x) \/ Raise(x)
    PROVE  /\ \E p \in Push : /\ push' = [push EXCEPT ![x] = p]
                              /\ p.at \in {"idle", "post"}
                              /\ p.at = "post" => p.row \in Queued
           /\ retry' \in [Retriers -> SUBSET Rows]
           /\ \A y \in Retriers : retry'[y] \subseteq Queued
           /\ hunt' \in [Hunts -> HuntState]
           /\ \A h \in Hunts : HuntFits(h)'
<1>1. CASE x \in Hunts
  <2>1. PICK b \in BOOLEAN : Become(x, Progressing(x, b))
    BY <1>1, CallersAre DEF Return, Raise
  <2>2. push' = [push EXCEPT ![x] = Idle] /\ retry' = retry
    BY <1>1, CallersAre DEF Return, Raise
  <2>3. Progressing(x, b) \in HuntState /\ Progressing(x, b).at = "progress"
    BY <1>1, ProgressingIsLocal DEF Inv
  <2>4. /\ hunt' \in [Hunts -> HuntState] /\ hunt'[x].at = "progress"
        /\ \A h \in Hunts \ {x} : hunt'[h] = hunt[h]
    BY <1>1, <2>1, <2>3 DEF Become, Inv, TypeOK
  <2>5. push'[x].at = "idle" /\ \A h \in Hunts \ {x} : push'[h] = push[h]
    BY <2>2, CallersAre DEF Idle, Inv, TypeOK
  <2>6. \A h \in Hunts : HuntFits(h)'
    BY <2>4, <2>5 DEF HuntFits, Inv
  <2>7. Idle.at = "idle"
    BY DEF Idle
  <2>8. QED  BY <2>2, <2>4, <2>6, <2>7, IdleIsPush DEF Inv, TypeOK, Delivery, RetryFits
<1>2. CASE x \in Retriers
  <2>1. PICK rs \in SUBSET Queued : PushFirst(x, rs)
    BY <1>2, CallersAre DEF Return, Raise, Inv, Delivery, RetryFits
  <2>2. hunt' = hunt
    BY <1>2, CallersAre DEF Return, Raise
  <2>3. \A h \in Hunts : push'[h] = push[h]
    BY <1>2, <2>1, CallersAre DEF PushFirst, Inv, TypeOK
  <2>4. \A h \in Hunts : HuntFits(h)'
    BY <2>2, <2>3 DEF HuntFits, Inv
  <2>5. QED  BY <1>2, <2>1, <2>2, <2>4, BatchMoves DEF Inv, TypeOK
<1>3. QED  BY <1>1, <1>2, CallersAre

LEMMA BeginRetryInv == ASSUME Inv, NEW x \in Retriers, BeginRetry(x) PROVE Inv'
<1>1. Oldest(Retryable) \in SUBSET Queued
  BY DEF Oldest, Retryable, Queued
<1>2. PICK p \in Push : /\ push' = [push EXCEPT ![x] = p]
                        /\ p.at \in {"idle", "post"}
                        /\ p.at = "post" => p.row \in Queued
  BY <1>1, BatchMoves DEF BeginRetry
<1>3. /\ retry' \in [Retriers -> SUBSET Rows]
      /\ \A y \in Retriers : retry'[y] \subseteq Queued
  BY <1>1, BatchMoves DEF BeginRetry
<1>4. Queued' = Queued
  BY DEF BeginRetry, Queued, outboxVars
<1>5. /\ push' \in [Callers -> Push] /\ OneHandlerEach'
      /\ \A y \in Callers : CallerFits(y)'
      /\ \A s \in Slots : HandlerFits(s)'
  BY <1>2, <1>4, CallersAre, PushMoves DEF BeginRetry, Pushing, intakeVars
<1>6. TypeOK'
  BY <1>3, <1>5 DEF TypeOK, BeginRetry, Inv, IntakeTypeOK, intakeVars, outboxVars, jobVars, historyVars
<1>7. Delivery'
  BY <1>3, <1>4, <1>5
     DEF Delivery, BeginRetry, Inv, RowsFit, RetryFits, SentStored, intakeVars, outboxVars
<1>8. \A h \in Hunts : push'[h] = push[h]
  BY <1>2, CallersAre DEF Inv, TypeOK
<1>9. \A h \in Hunts : HuntFits(h)'
  BY <1>8 DEF HuntFits, Inv, BeginRetry
<1>10. QED  BY <1>6, <1>7, <1>9 DEF Inv

LEMMA PostInv == ASSUME Inv, NEW x \in Callers, Post(x) PROVE Inv'
<1> DEFINE r == push[x].row
<1>1. /\ r \in Queued /\ r \in Rows /\ about[r] \in Domains /\ push[x].at = "post"
      /\ push[x] \in Push
  BY DEF Post, Pushing, Inv, TypeOK, Delivery, CallerFits, RowsFit, Queued
<1>2. \A s \in Slots : handler[s].client # x
  BY <1>1 DEF Inv, Delivery, HandlerFits
<1>3. Queued' = Queued /\ UNCHANGED <<rows, rowStatus, about, owner, retry, hunt>>
  BY DEF Post, Queued, outboxVars
<1>4. CASE \E s \in Slots : Receive(s, RowOf(x), about[RowOf(x)], x) /\ PushOn(x, "wait")
  <2>1. PICK s \in Slots : Receive(s, r, about[r], x) /\ PushOn(x, "wait")
    BY <1>4 DEF RowOf
  <2> DEFINE k == [at |-> "company", row |-> r, domain |-> about[r], client |-> x]
  <2>2. k \in Handler
    BY <1>1 DEF Handler, HandlerSteps
  <2>3. /\ handler' \in [Slots -> Handler] /\ handler'[s] = k
        /\ \A t \in Slots \ {s} : handler'[t] = handler[t]
    BY <2>1, <2>2 DEF Receive, Inv, TypeOK, IntakeTypeOK
  <2>4. /\ push' \in [Callers -> Push] /\ push'[x].at = "wait" /\ push'[x].row = r
        /\ \A y \in Callers \ {x} : push'[y] = push[y]
    BY <2>1, <1>1 DEF PushOn, Inv, TypeOK, Push, PushSteps
  <2>5. TypeOK'
    BY <1>3, <2>1, <2>3, <2>4, FaultCounted
       DEF TypeOK, Post, Receive, Inv, IntakeTypeOK, outboxVars, jobVars, historyVars
  <2>6. \A y \in Callers : CallerFits(y)'
    BY <1>1, <1>3, <2>1, <2>4 DEF CallerFits, Receive, Inv, Delivery
  <2>7. ASSUME NEW t \in Slots PROVE HandlerFits(t)'
    <3>1. CASE t = s
      BY <3>1, <1>1, <1>3, <2>1, <2>3, <2>4 DEF HandlerFits
    <3>2. CASE t # s
      BY <3>2, <1>2, <1>3, <2>1, <2>3, <2>4 DEF HandlerFits, Receive, Inv, Delivery
    <3>3. QED  BY <3>1, <3>2
  <2>8. OneHandlerEach'
    BY <1>2, <2>3 DEF OneHandlerEach, Inv, Delivery
  <2>9. Delivery'
    BY <1>3, <2>1, <2>6, <2>7, <2>8
       DEF Delivery, Receive, Inv, RowsFit, RetryFits, SentStored
  <2>10. \A h \in Hunts : HuntFits(h)'
    BY <1>1, <1>3, <2>4, CallersAre DEF HuntFits, Inv
  <2>11. QED  BY <2>5, <2>9, <2>10 DEF Inv
<1>5. CASE PushOn(x, "failed") /\ Fault /\ UNCHANGED intakeVars
  <2> DEFINE p == [push[x] EXCEPT !.at = "failed"]
  <2>1. p \in Push /\ p.at = "failed" /\ p.row = r
    BY <1>1 DEF Push, PushSteps
  <2>2. push' = [push EXCEPT ![x] = p]
    BY <1>5 DEF PushOn
  <2> HIDE DEF p
  <2>3. /\ push' \in [Callers -> Push] /\ OneHandlerEach'
        /\ \A y \in Callers : CallerFits(y)'
        /\ \A s \in Slots : HandlerFits(s)'
    BY <1>1, <1>3, <1>5, <2>1, <2>2, PushMoves DEF intakeVars
  <2>4. TypeOK'
    BY <1>3, <1>5, <2>3, FaultCounted
       DEF TypeOK, Post, Inv, IntakeTypeOK, intakeVars, outboxVars, jobVars, historyVars
  <2>5. Delivery'
    BY <1>3, <1>5, <2>3 DEF Delivery, Inv, RowsFit, RetryFits, SentStored, intakeVars
  <2>6. \A h \in Hunts : push'[h].at = "idle" <=> push[h].at = "idle"
    BY <1>1, <2>1, <2>2, CallersAre DEF Inv, TypeOK
  <2>7. \A h \in Hunts : HuntFits(h)'
    BY <1>3, <2>6 DEF HuntFits, Inv
  <2>8. QED  BY <2>4, <2>5, <2>7 DEF Inv
<1>6. QED  BY <1>4, <1>5 DEF Post

\* The caller stops waiting: nobody serves it any more, and its push goes on
\* with the reply it took or with a failure.
LEMMA WaitEnds ==
    ASSUME Inv, NEW x \in Callers, push[x].at = "wait", NEW step \in {"sent", "failed"},
           PushOn(x, step), handler' \in [Slots -> Handler],
           \A s \in Slots :
              \/ handler'[s] = Free
              \/ /\ handler[s].client # x
                 /\ handler'[s] = handler[s]
              \/ /\ handler[s].at # "free" /\ handler[s].client = x
                 /\ handler'[s] = [handler[s] EXCEPT !.client = NoCaller],
           step = "sent" => push[x].row \in applied,
           UNCHANGED <<rows, rowStatus, about, owner, retry, hunt, lead, founders, applied, seen,
                       job, verified, dropping, barred, missed>>,
           Fine \/ Fault
    PROVE  Inv'
<1>1. Queued' = Queued
  BY DEF Queued
<1>2. /\ push' \in [Callers -> Push] /\ push'[x].at = step /\ push'[x].row = push[x].row
      /\ \A y \in Callers \ {x} : push'[y] = push[y]
  BY DEF PushOn, Inv, TypeOK, Push, PushSteps
<1>3. TypeOK'
  BY <1>2, FaultCounted DEF TypeOK, Inv, IntakeTypeOK
<1>4. \A y \in Callers : CallerFits(y)'
  BY <1>1, <1>2 DEF CallerFits, Inv, Delivery
<1>5. \A s \in Slots : handler[s] \in Handler
  BY DEF Inv, TypeOK, IntakeTypeOK
<1>6. \A s \in Slots :
         handler'[s].client \in Callers => handler[s].client = handler'[s].client
                                           /\ handler'[s].client # x
  BY <1>5, IntakeAssumption DEF Free, Handler
<1>7. ASSUME NEW s \in Slots PROVE HandlerFits(s)'
  <2>1. CASE handler'[s] = Free
    BY <2>1, IntakeAssumption DEF HandlerFits, Free
  <2>2. CASE handler[s].client # x /\ handler'[s] = handler[s]
    BY <2>2, <1>1, <1>2 DEF HandlerFits, Inv, Delivery
  <2>3. CASE /\ handler[s].at # "free"
             /\ handler'[s] = [handler[s] EXCEPT !.client = NoCaller]
    <3>1. /\ handler'[s].client = NoCaller /\ handler'[s].at = handler[s].at
          /\ handler'[s].row = handler[s].row /\ handler'[s].domain = handler[s].domain
      BY <2>3, <1>5 DEF Handler
    <3>2. QED  BY <2>3, <3>1, <1>1, IntakeAssumption DEF HandlerFits, Inv, Delivery
  <2>4. QED  BY <2>1, <2>2, <2>3
<1>8. OneHandlerEach'
  BY <1>6 DEF OneHandlerEach, Inv, Delivery
<1>9. Delivery'
  BY <1>1, <1>4, <1>7, <1>8 DEF Delivery, Inv, RowsFit, RetryFits, SentStored
<1>10. \A h \in Hunts : HuntFits(h)'
  BY <1>2, CallersAre DEF HuntFits, Inv
<1>11. QED  BY <1>3, <1>9, <1>10 DEF Inv

LEMMA AnsweredInv == ASSUME Inv, NEW x \in Callers, Answered(x) PROVE Inv'
<1>1. PICK s \in Slots, answer \in {"ok", "refused"}, step \in {"sent", "failed"} :
         /\ TakeReply(s, x, answer) /\ PushOn(x, step)
         /\ step = "sent" => answer = "ok"
  BY DEF Answered
<1>2. /\ handler[s].client = x /\ handler[s].at = answer
      /\ handler' = [handler EXCEPT ![s] = Free]
  BY <1>1 DEF TakeReply, Serving
<1>3. /\ handler' \in [Slots -> Handler] /\ handler'[s] = Free
      /\ \A t \in Slots \ {s} : handler'[t] = handler[t]
  BY <1>2, FreeIsHandler DEF Inv, TypeOK, IntakeTypeOK
<1>4. \A t \in Slots \ {s} : handler[t].client # x
  BY <1>2 DEF Inv, Delivery, OneHandlerEach
<1>5. step = "sent" => push[x].row \in applied
  BY <1>1, <1>2 DEF Inv, Delivery, HandlerFits
<1>6. push[x].at = "wait"
  BY DEF Answered, Pushing
<1>7. QED
  BY <1>1, <1>3, <1>4, <1>5, <1>6, WaitEnds
     DEF Answered, TakeReply, Fine, outboxVars, jobVars, historyVars

LEMMA TimesOutInv == ASSUME Inv, NEW x \in Callers, TimesOut(x) PROVE Inv'
<1>1. push[x].at = "wait" /\ PushOn(x, "failed") /\ (Fine \/ Fault) /\ HangUp({x})
  BY DEF TimesOut, Pushing
<1>2. \A s \in Slots : handler[s] \in Handler /\ HandlerFits(s)
  BY DEF Inv, TypeOK, IntakeTypeOK, Delivery
<1>3. \A s \in Slots : handler'[s] = IF handler[s].client = x
                                      THEN [handler[s] EXCEPT !.client = NoCaller]
                                      ELSE handler[s]
  BY <1>1 DEF HangUp
<1>4. \A s \in Slots : [handler[s] EXCEPT !.client = NoCaller] \in Handler
  BY <1>2 DEF Handler
<1>5. handler' \in [Slots -> Handler]
  BY <1>1, <1>2, <1>4 DEF HangUp
<1>6. \A s \in Slots : handler[s].client = x => handler[s].at # "free"
  BY <1>2, IntakeAssumption DEF HandlerFits
<1>7. QED
  BY <1>1, <1>3, <1>5, <1>6, WaitEnds DEF TimesOut, HangUp, outboxVars, jobVars, historyVars

\* A push is over, whatever was written of its row and of the seen-cache.
LEMMA PushReturns ==
    ASSUME Inv, NEW x \in Callers, push[x].at \notin {"idle", "wait"}, Return(x) \/ Raise(x),
           Queued' = Queued, SentStored',
           rowStatus' \in [Rows -> {"none", "pending", "sent", "failed"}],
           seen' \subseteq Domains, Fine \/ Fault,
           UNCHANGED <<intakeVars, rows, about, owner, jobVars, dropping, historyVars>>
    PROVE  Inv'
<1>1. PICK p \in Push : /\ push' = [push EXCEPT ![x] = p]
                        /\ p.at \in {"idle", "post"}
                        /\ p.at = "post" => p.row \in Queued
  BY HandsBack
<1>2. /\ retry' \in [Retriers -> SUBSET Rows]
      /\ \A y \in Retriers : retry'[y] \subseteq Queued
      /\ hunt' \in [Hunts -> HuntState]
      /\ \A h \in Hunts : HuntFits(h)'
  BY HandsBack
<1>3. /\ push' \in [Callers -> Push] /\ OneHandlerEach'
      /\ \A y \in Callers : CallerFits(y)'
      /\ \A s \in Slots : HandlerFits(s)'
  BY <1>1, PushMoves DEF intakeVars
<1>4. TypeOK'
  BY <1>2, <1>3, FaultCounted DEF TypeOK, Inv, IntakeTypeOK, intakeVars, jobVars, historyVars
<1>5. Delivery'
  BY <1>2, <1>3 DEF Delivery, Inv, RowsFit, RetryFits
<1>6. QED  BY <1>2, <1>4, <1>5 DEF Inv

LEMMA MarkSentInv == ASSUME Inv, NEW x \in Callers, MarkSent(x) PROVE Inv'
<1>1. /\ push[x] \in Push /\ push[x].at = "sent"
      /\ push[x].row \in Queued /\ push[x].row \in applied
  BY DEF MarkSent, Pushing, Inv, TypeOK, Delivery, CallerFits
<1>2. CASE /\ rowStatus' = [rowStatus EXCEPT ![RowOf(x)] = "sent"]
           /\ PushOn(x, "seen") /\ Fine /\ UNCHANGED <<hunt, retry>>
  <2> DEFINE p == [push[x] EXCEPT !.at = "seen"]
  <2>1. p \in Push /\ p.at = "seen" /\ p.row = push[x].row
    BY <1>1 DEF Push, PushSteps
  <2>2. push' = [push EXCEPT ![x] = p]
    BY <1>2 DEF PushOn
  <2>3. /\ rowStatus' \in [Rows -> {"none", "pending", "sent", "failed"}]
        /\ Queued' = Queued
        /\ \A r \in Rows : rowStatus'[r] = "sent" => rowStatus[r] = "sent" \/ r = push[x].row
    BY <1>1, <1>2 DEF RowOf, Queued, Inv, TypeOK
  <2> HIDE DEF p
  <2>4. /\ push' \in [Callers -> Push] /\ OneHandlerEach'
        /\ \A y \in Callers : CallerFits(y)'
        /\ \A s \in Slots : HandlerFits(s)'
    BY <1>1, <2>1, <2>2, <2>3, PushMoves DEF MarkSent, intakeVars
  <2>5. TypeOK'
    BY <1>2, <2>3, <2>4
       DEF TypeOK, MarkSent, Fine, Inv, IntakeTypeOK, intakeVars, jobVars, historyVars
  <2>6. Delivery'
    BY <1>1, <1>2, <2>3, <2>4
       DEF Delivery, MarkSent, Inv, RowsFit, RetryFits, SentStored, intakeVars
  <2>7. \A h \in Hunts : push'[h].at # "idle" => push[h].at # "idle"
    BY <1>1, <2>2, CallersAre DEF Inv, TypeOK
  <2>8. \A h \in Hunts : HuntFits(h)'
    BY <1>2, <2>7 DEF HuntFits, Inv
  <2>9. QED  BY <2>5, <2>6, <2>8 DEF Inv
<1>3. CASE Raise(x) /\ Fault /\ UNCHANGED rowStatus
  <2>1. Queued' = Queued /\ SentStored'
    BY <1>3 DEF Queued, SentStored, Inv, Delivery, MarkSent, intakeVars
  <2>2. QED  BY <1>1, <1>3, <2>1, PushReturns DEF MarkSent, Inv, TypeOK
<1>4. QED  BY <1>2, <1>3 DEF MarkSent

LEMMA RecordSeenInv == ASSUME Inv, NEW x \in Callers, RecordSeen(x) PROVE Inv'
<1>1. push[x].at = "seen" /\ about[push[x].row] \in Domains
  BY DEF RecordSeen, Pushing, Inv, Delivery, CallerFits, RowsFit
<1>2. seen' \subseteq Domains /\ (Return(x) \/ Raise(x)) /\ (Fine \/ Fault)
  BY <1>1 DEF RecordSeen, RowOf, Inv, TypeOK
<1>3. Queued' = Queued /\ SentStored'
  BY DEF RecordSeen, Queued, SentStored, Inv, Delivery, intakeVars, outboxVars
<1>4. QED  BY <1>1, <1>2, <1>3, PushReturns DEF RecordSeen, Inv, TypeOK, outboxVars

LEMMA MarkFailedInv == ASSUME Inv, NEW x \in Callers, MarkFailed(x) PROVE Inv'
<1>1. push[x].at = "failed" /\ push[x].row \in Queued
  BY DEF MarkFailed, Pushing, Inv, Delivery, CallerFits
<1>2. /\ rowStatus' \in {rowStatus, [rowStatus EXCEPT ![push[x].row] = "failed"]}
      /\ Return(x) \/ Raise(x)
      /\ Fine \/ Fault
  BY DEF MarkFailed, RowOf
<1>3. /\ rowStatus' \in [Rows -> {"none", "pending", "sent", "failed"}]
      /\ Queued' = Queued
      /\ \A r \in Rows : rowStatus'[r] = "sent" => rowStatus[r] = "sent"
  BY <1>1, <1>2 DEF Queued, Inv, TypeOK
<1>4. SentStored'
  BY <1>3 DEF SentStored, MarkFailed, Inv, Delivery, intakeVars
<1>5. QED  BY <1>1, <1>2, <1>3, <1>4, PushReturns DEF MarkFailed, Inv, TypeOK

LEMMA QueueLeadInv == ASSUME Inv, NEW h \in Hunts, QueueLead(h) PROVE Inv'
<1> DEFINE r == rows + 1
<1>1. /\ r \in Rows /\ hunt[h] \in HuntState /\ hunt[h].at = "queue" /\ hunt[h].domain \in Domains
      /\ push[h].at = "idle"
  BY IntakeAssumption DEF QueueLead, At, Inv, TypeOK, HuntFits, Rows
<1>2. /\ rows' = r /\ rows' \in 0..MaxRows
      /\ rowStatus' \in [Rows -> {"none", "pending", "sent", "failed"}]
      /\ about' \in [Rows -> Domains \cup {NoDomain}] /\ owner' \in [Rows -> Hunts \cup {NoCaller}]
  BY <1>1, IntakeAssumption DEF QueueLead, Inv, TypeOK, Rows
<1>3. /\ Queued' = Queued \cup {r} /\ r \notin Queued
      /\ rowStatus'[r] = "pending" /\ about'[r] = hunt[h].domain /\ owner'[r] = h
      /\ \A q \in Rows \ {r} : /\ rowStatus'[q] = rowStatus[q] /\ about'[q] = about[q]
                               /\ owner'[q] = owner[q]
  <2>1. \A q \in Queued : q <= rows
    BY DEF Inv, Delivery, RowsFit
  <2>2. r \notin Queued
    BY <2>1 DEF Inv, TypeOK
  <2>3. QED  BY <1>1, <2>2 DEF QueueLead, Inv, TypeOK, Queued
<1>4. RowsFit' /\ SentStored'
  <2>1. \A q \in Queued : q <= rows
    BY DEF Inv, Delivery, RowsFit
  <2>2. \A q \in Queued' : q <= rows'
    BY <1>2, <1>3, <2>1 DEF Queued, Rows, Inv, TypeOK
  <2>3. \A q \in Queued' : about'[q] \in Domains /\ owner'[q] \in Hunts
    BY <1>1, <1>3 DEF Inv, Delivery, RowsFit, Queued
  <2>4. SentStored'
    BY <1>3 DEF SentStored, QueueLead, Inv, Delivery, intakeVars
  <2>5. QED  BY <2>2, <2>3, <2>4 DEF RowsFit
<1>5. PICK p \in Push, l \in HuntState :
         /\ push' = [push EXCEPT ![h] = p] /\ Become(h, l)
         /\ \/ p.at = "idle" /\ l.at = "progress"
            \/ p.at = "post" /\ p.row = r /\ l.at = "push"
  <2>1. CASE Goto(h, "push") /\ push' = [push EXCEPT ![h] = [at |-> "post", row |-> r]]
    <3>1. [at |-> "post", row |-> r] \in Push
      BY <1>1 DEF Push, PushSteps
    <3>2. /\ [hunt[h] EXCEPT !.at = "push"] \in HuntState
          /\ [hunt[h] EXCEPT !.at = "push"].at = "push"
      BY <1>1 DEF HuntState, HuntSteps
    <3>3. Become(h, [hunt[h] EXCEPT !.at = "push"])
      BY <2>1 DEF Goto, Become
    <3>4. QED  BY <2>1, <3>1, <3>2, <3>3
  <2>2. ASSUME NEW b \in BOOLEAN, Become(h, Progressing(h, b)), UNCHANGED push
        PROVE  \E p \in Push, l \in HuntState :
                  /\ push' = [push EXCEPT ![h] = p] /\ Become(h, l)
                  /\ p.at = "idle" /\ l.at = "progress"
    <3>1. push[h] \in Push /\ push' = [push EXCEPT ![h] = push[h]]
      BY <2>2, CallersAre DEF Inv, TypeOK
    <3>2. QED  BY <1>1, <2>2, <3>1, ProgressingIsLocal DEF Inv
  <2>3. QED  BY <2>1, <2>2 DEF QueueLead
<1>6. /\ push' \in [Callers -> Push] /\ OneHandlerEach'
      /\ \A y \in Callers : CallerFits(y)'
      /\ \A s \in Slots : HandlerFits(s)'
  BY <1>1, <1>3, <1>5, CallersAre, PushMoves DEF QueueLead, intakeVars
<1>7. /\ hunt' \in [Hunts -> HuntState] /\ hunt'[h] = l
      /\ \A g \in Hunts \ {h} : hunt'[g] = hunt[g]
      /\ push'[h] = p /\ \A g \in Hunts \ {h} : push'[g] = push[g]
  BY <1>5, CallersAre DEF Become, Inv, TypeOK
<1>8. \A g \in Hunts : HuntFits(g)'
  BY <1>5, <1>7 DEF HuntFits, Inv
<1>9. TypeOK'
  <2>1. Fine \/ Fault
    BY DEF QueueLead
  <2>2. QED
    BY <1>2, <1>6, <1>7, <2>1, FaultCounted
       DEF TypeOK, QueueLead, Inv, IntakeTypeOK, intakeVars, jobVars, historyVars
<1>10. Delivery'
  BY <1>3, <1>4, <1>6 DEF Delivery, QueueLead, Inv, RetryFits
<1>11. QED  BY <1>8, <1>9, <1>10 DEF Inv

-----------------------------------------------------------------------------
(* Steps of the platform.                                                  *)

\* A worker thread goes on, or is done, and may have stored its row.
LEMMA HandlerMoves ==
    ASSUME Inv, NEW s \in Slots, handler[s].at # "free", NEW k \in Handler,
           handler' = [handler EXCEPT ![s] = k],
           \/ k = Free
           \/ /\ k.at # "free" /\ k.row = handler[s].row /\ k.domain = handler[s].domain
              /\ k.client = handler[s].client
              /\ k.at \in {"find", "insert", "ok"} => k.row \in applied',
           applied \subseteq applied', applied' \subseteq Rows,
           lead' \in [Domains -> Rows \cup {0}], founders' \in [Domains -> Nat],
           UNCHANGED <<seen, outboxVars, jobVars, localVars, dropping, historyVars>>,
           Fine \/ Fault
    PROVE  Inv'
<1>1. Queued' = Queued /\ UNCHANGED <<rows, rowStatus, about, owner, retry, push, hunt>>
  BY DEF Queued, outboxVars, localVars
<1>2. /\ handler' \in [Slots -> Handler] /\ handler'[s] = k
      /\ \A t \in Slots \ {s} : handler'[t] = handler[t]
  BY DEF Inv, TypeOK, IntakeTypeOK
<1>3. TypeOK'
  BY <1>1, <1>2, FaultCounted DEF TypeOK, Inv, IntakeTypeOK, jobVars, historyVars
<1>4. ASSUME NEW t \in Slots PROVE HandlerFits(t)'
  <2>1. CASE t # s
    BY <2>1, <1>1, <1>2 DEF HandlerFits, Inv, Delivery
  <2>2. CASE t = s /\ k = Free
    BY <2>2, <1>2, IntakeAssumption DEF HandlerFits, Free
  <2>3. CASE t = s /\ k # Free
    BY <2>3, <1>1, <1>2 DEF HandlerFits, Inv, Delivery
  <2>4. QED  BY <2>1, <2>2, <2>3
<1>5. OneHandlerEach'
  <2>1. \A t \in Slots : handler'[t].client \in Callers => handler'[t].client = handler[t].client
    BY <1>2, IntakeAssumption DEF Free
  <2>2. QED  BY <2>1 DEF OneHandlerEach, Inv, Delivery
<1>6. Delivery'
  BY <1>1, <1>4, <1>5 DEF Delivery, Inv, RowsFit, CallerFits, RetryFits, SentStored
<1>7. \A h \in Hunts : HuntFits(h)'
  BY <1>1 DEF HuntFits, Inv
<1>8. QED  BY <1>3, <1>6, <1>7 DEF Inv

LEMMA StepIsHandler ==
    ASSUME NEW k \in Handler, NEW step \in HandlerSteps
    PROVE  /\ [k EXCEPT !.at = step] \in Handler /\ [k EXCEPT !.at = step].at = step
           /\ [k EXCEPT !.at = step].row = k.row /\ [k EXCEPT !.at = step].domain = k.domain
           /\ [k EXCEPT !.at = step].client = k.client
BY DEF Handler

\* The state at a worker thread that is at work.
LEMMA AtWork ==
    ASSUME Inv, NEW s \in Slots, handler[s].at # "free"
    PROVE  /\ handler[s] \in Handler /\ handler[s].row \in Rows /\ handler[s].domain \in Domains
           /\ handler[s].at \in {"find", "insert", "ok"} => handler[s].row \in applied
BY DEF Inv, TypeOK, IntakeTypeOK, Delivery, HandlerFits, Queued

LEMMA ServeInv == ASSUME Inv, NEW s \in Slots, Serve(s) PROVE Inv'
<1> DEFINE to(step) == [handler[s] EXCEPT !.at = step]
<1>1. /\ Fine \/ Fault
      /\ UNCHANGED <<seen, outboxVars, jobVars, localVars, dropping, historyVars>>
  BY DEF Serve, Fine
<1>2. /\ lead \in [Domains -> Rows \cup {0}] /\ founders \in [Domains -> Nat] /\ applied \subseteq Rows
  BY DEF Inv, TypeOK, IntakeTypeOK
<1>3. CASE UpsertCompany(s)
  <2>1. handler[s].at = "company"
    BY <1>3 DEF UpsertCompany, Serving
  <2>2. CASE GoOn(s, "refused") /\ UNCHANGED <<lead, applied>>
    <3>1. "refused" \in HandlerSteps
      BY DEF HandlerSteps
    <3>2. handler' = [handler EXCEPT ![s] = to("refused")] /\ founders' = founders
      BY <1>3, <2>2 DEF GoOn, UpsertCompany
    <3>3. /\ to("refused") \in Handler /\ to("refused").at = "refused"
          /\ to("refused").row = handler[s].row /\ to("refused").domain = handler[s].domain
          /\ to("refused").client = handler[s].client
      BY <2>1, <3>1, AtWork, StepIsHandler
    <3> HIDE DEF to
    <3>4. QED  BY <1>1, <1>2, <2>1, <2>2, <3>2, <3>3, HandlerMoves
  <2>3. ASSUME NEW step \in {"find", "ok"}, GoOn(s, step),
               lead' = [lead EXCEPT ![handler[s].domain] = handler[s].row],
               applied' = applied \cup {handler[s].row}
        PROVE  Inv'
    <3>1. step \in HandlerSteps
      BY DEF HandlerSteps
    <3>2. handler' = [handler EXCEPT ![s] = to(step)] /\ founders' = founders
      BY <1>3, <2>3 DEF GoOn, UpsertCompany
    <3>3. /\ to(step) \in Handler /\ to(step).at = step
          /\ to(step).row = handler[s].row /\ to(step).domain = handler[s].domain
          /\ to(step).client = handler[s].client
      BY <2>1, <3>1, AtWork, StepIsHandler
    <3>4. /\ lead' \in [Domains -> Rows \cup {0}]
          /\ applied \subseteq applied' /\ applied' \subseteq Rows /\ handler[s].row \in applied'
      BY <1>2, <2>1, <2>3, AtWork
    <3> HIDE DEF to
    <3>5. QED  BY <1>1, <1>2, <2>1, <3>2, <3>3, <3>4, HandlerMoves
  <2>4. QED  BY <1>3, <2>2, <2>3 DEF UpsertCompany
<1>4. ASSUME handler[s].at \in {"find", "insert"}, NEW step \in {"insert", "ok"}, GoOn(s, step),
             founders' \in [Domains -> Nat], UNCHANGED <<lead, applied>>
      PROVE  Inv'
  <2>1. step \in HandlerSteps
    BY DEF HandlerSteps
  <2>2. handler' = [handler EXCEPT ![s] = to(step)]
    BY <1>4 DEF GoOn
  <2>3. /\ to(step) \in Handler /\ to(step).at = step
        /\ to(step).row = handler[s].row /\ to(step).domain = handler[s].domain
        /\ to(step).client = handler[s].client
    BY <1>4, <2>1, AtWork, StepIsHandler
  <2>4. handler[s].row \in applied'
    BY <1>4, AtWork
  <2> HIDE DEF to
  <2>5. QED  BY <1>1, <1>2, <1>4, <2>2, <2>3, <2>4, HandlerMoves
<1>5. CASE FindFounder(s)
  BY <1>2, <1>4, <1>5 DEF FindFounder, Serving
<1>6. CASE InsertFounder(s)
  <2>1. founders' \in [Domains -> Nat]
    BY <1>2, <1>6 DEF InsertFounder
  <2>2. QED  BY <1>4, <1>6, <2>1 DEF InsertFounder, Serving
<1>7. CASE ReplyToNobody(s)
  BY <1>1, <1>2, <1>7, FreeIsHandler, HandlerMoves DEF ReplyToNobody, Serving
<1>8. QED  BY <1>3, <1>5, <1>6, <1>7 DEF Serve, HandlerStep

LEMMA PlatformFailsInv == ASSUME Inv, NEW s \in Slots, PlatformFails(s) PROVE Inv'
<1>1. /\ Fine \/ Fault
      /\ UNCHANGED <<seen, outboxVars, jobVars, localVars, dropping, historyVars>>
  BY DEF PlatformFails
<1>2. /\ lead \in [Domains -> Rows \cup {0}] /\ founders \in [Domains -> Nat] /\ applied \subseteq Rows
  BY DEF Inv, TypeOK, IntakeTypeOK
<1>3. CASE HandlerDies(s)
  BY <1>1, <1>2, <1>3, FreeIsHandler, HandlerMoves DEF HandlerDies, Serving
<1>4. CASE UpsertFails(s)
  <2> DEFINE k == [handler[s] EXCEPT !.at = "refused"]
  <2>1. handler[s].at = "company" /\ "refused" \in HandlerSteps
    BY <1>4 DEF UpsertFails, Serving, HandlerSteps
  <2>2. handler' = [handler EXCEPT ![s] = k] /\ UNCHANGED <<lead, founders, applied>>
    BY <1>4 DEF UpsertFails, GoOn
  <2>3. /\ k \in Handler /\ k.at = "refused" /\ k.row = handler[s].row
        /\ k.domain = handler[s].domain /\ k.client = handler[s].client
    BY <2>1, AtWork, StepIsHandler
  <2> HIDE DEF k
  <2>4. QED  BY <1>1, <1>2, <2>1, <2>2, <2>3, HandlerMoves
<1>5. QED  BY <1>3, <1>4 DEF PlatformFails

-----------------------------------------------------------------------------
(* Deaths, and the user.                                                   *)

LEMMA CallersDie ==
    ASSUME Inv, NEW xs \in SUBSET Callers, HangUp(xs), push' \in [Callers -> Push],
           \A x \in xs : push'[x] = Idle, \A x \in Callers \ xs : push'[x] = push[x],
           retry' \in [Retriers -> SUBSET Rows], \A x \in Retriers : retry'[x] \subseteq retry[x],
           hunt' \in [Hunts -> HuntState], \A h \in Hunts : HuntFits(h)',
           UNCHANGED <<seen, outboxVars, jobVars, dropping, historyVars>>,
           Fine \/ Fault
    PROVE  Inv'
<1>1. Queued' = Queued /\ UNCHANGED <<rows, rowStatus, about, owner, applied>>
  BY DEF Queued, outboxVars, HangUp
<1>2. \A s \in Slots : handler[s] \in Handler
  BY DEF Inv, TypeOK, IntakeTypeOK
<1>3. ASSUME NEW s \in Slots
      PROVE  /\ handler'[s] \in Handler /\ handler'[s].at = handler[s].at
             /\ handler'[s].row = handler[s].row /\ handler'[s].domain = handler[s].domain
             /\ handler'[s].client = IF handler[s].client \in xs THEN NoCaller ELSE handler[s].client
  <2>1. handler'[s] = IF handler[s].client \in xs
                      THEN [handler[s] EXCEPT !.client = NoCaller] ELSE handler[s]
    BY DEF HangUp
  <2>2. QED  BY <1>2, <2>1 DEF Handler
<1>4. handler' \in [Slots -> Handler]
  <2>1. handler' = [s \in Slots |-> handler'[s]]
    BY DEF HangUp
  <2>2. QED  BY <1>3, <2>1
<1>5. TypeOK'
  BY <1>1, <1>4, FaultCounted
     DEF TypeOK, Inv, IntakeTypeOK, HangUp, jobVars, historyVars
<1>6. \A x \in Callers : CallerFits(x)'
  <2>1. Idle.at = "idle"
    BY DEF Idle
  <2>2. QED  BY <1>1, <2>1 DEF CallerFits, Inv, Delivery
<1>7. \A s \in Slots : HandlerFits(s)'
  BY <1>1, <1>3, IntakeAssumption DEF HandlerFits, Inv, Delivery
<1>8. OneHandlerEach'
  BY <1>3, IntakeAssumption DEF OneHandlerEach, Inv, Delivery
<1>9. Delivery'
  BY <1>1, <1>6, <1>7, <1>8 DEF Delivery, Inv, RowsFit, RetryFits, SentStored
<1>10. QED  BY <1>5, <1>9 DEF Inv

LEMMA AgentDiesInv == ASSUME Inv, AgentDies PROVE Inv'
<1>1. Alive \in SUBSET Callers /\ Alive \subseteq Hunts
  BY CallersAre DEF Alive
<1>2. /\ push' \in [Callers -> Push] /\ \A x \in Alive : push'[x] = Idle
      /\ \A x \in Callers \ Alive : push'[x] = push[x]
  BY <1>1, IdleIsPush DEF AgentDies, Inv, TypeOK
<1>3. /\ \A h \in Hunts : hunt'[h] \in HuntState
      /\ \A h \in Alive : hunt'[h].at = "over"
      /\ \A h \in Hunts \ Alive : hunt'[h] = hunt[h]
  BY <1>1, OverIsLocal DEF AgentDies, Inv, TypeOK
<1>4. hunt' \in [Hunts -> HuntState]
  BY <1>3 DEF AgentDies
<1>5. \A h \in Hunts : HuntFits(h)'
  <2>1. Idle.at = "idle"
    BY DEF Idle
  <2>2. QED  BY <1>2, <1>3, <2>1, CallersAre DEF HuntFits, Inv
<1>6. HangUp(Alive) /\ (Fine \/ Fault)
      /\ UNCHANGED <<seen, outboxVars, jobVars, retry, dropping, historyVars>>
  BY DEF AgentDies
<1>7. retry' \in [Retriers -> SUBSET Rows] /\ \A x \in Retriers : retry'[x] \subseteq retry[x]
  BY <1>6 DEF Inv, TypeOK
<1> HIDE DEF Alive
<1>8. QED  BY <1>1, <1>2, <1>4, <1>5, <1>6, <1>7, CallersDie

LEMMA RetryDiesInv == ASSUME Inv, NEW x \in Retriers, RetryDies(x) PROVE Inv'
<1>1. push' = [push EXCEPT ![x] = Idle] /\ retry' = [retry EXCEPT ![x] = {}]
  BY DEF RetryDies, PushFirst
<1>2. /\ push' \in [Callers -> Push] /\ push'[x] = Idle
      /\ \A y \in Callers \ {x} : push'[y] = push[y]
  BY <1>1, IdleIsPush, CallersAre DEF Inv, TypeOK
<1>3. retry' \in [Retriers -> SUBSET Rows] /\ \A y \in Retriers : retry'[y] \subseteq retry[y]
  BY <1>1 DEF Inv, TypeOK
<1>4. \A h \in Hunts : HuntFits(h)'
  BY <1>2, CallersAre DEF HuntFits, Inv, RetryDies
<1>5. {x} \in SUBSET Callers
  BY CallersAre
<1>6. QED  BY <1>2, <1>3, <1>4, <1>5, CallersDie DEF RetryDies, Inv, TypeOK

LEMMA AsideInv == ASSUME Inv, Aside, UNCHANGED hunt PROVE Inv'
<1>1. \A h \in Hunts : HuntFits(h)'
  BY DEF HuntFits, Inv, Aside, deliveryState
<1>2. QED  BY <1>1, AsideKeepsTypes, DeliveryStays DEF Inv, Aside, TypeOK

LEMMA DeleteCompanyInv == ASSUME Inv, NEW d \in Domains, DeleteCompany(d) PROVE Inv'
<1>1. Aside
  BY DEF Aside, DeleteCompany, DeleteLead, Inv, TypeOK, IntakeTypeOK, outboxVars, jobVars,
         localVars, deliveryState, historyVars
<1>2. QED  BY <1>1, AsideInv DEF DeleteCompany, localVars

LEMMA DeletePersonInv == ASSUME Inv, NEW d \in Domains, DeletePerson(d) PROVE Inv'
<1>1. founders[d] \in Nat /\ founders[d] > 0 /\ founders[d] - 1 \in Nat
  BY DEF DeletePerson, DeleteFounder, Inv, TypeOK, IntakeTypeOK
<1>2. Aside
  BY <1>1 DEF Aside, DeletePerson, DeleteFounder, Inv, TypeOK, IntakeTypeOK, outboxVars, jobVars,
              localVars, deliveryState, historyVars
<1>3. QED  BY <1>2, AsideInv DEF DeletePerson, localVars

LEMMA DropDomainInv == ASSUME Inv, NEW d \in Domains, DropDomain(d) PROVE Inv'
<1>1. Aside
  BY FaultCounted
     DEF Aside, DropDomain, Inv, TypeOK, IntakeTypeOK, intakeVars, outboxVars, jobVars,
         localVars, deliveryState, historyVars
<1>2. QED  BY <1>1, AsideInv DEF DropDomain, localVars

LEMMA StutterInv == ASSUME Inv, UNCHANGED vars PROVE Inv'
<1>1. Aside
  BY DEF Aside, Inv, TypeOK, IntakeTypeOK, vars, intakeVars, outboxVars, jobVars, localVars,
         deliveryState, historyVars
<1>2. QED  BY <1>1, AsideInv DEF vars, localVars

LEMMA NextInv == Inv /\ [Next]_vars => Inv'
<1> SUFFICES ASSUME Inv, [Next]_vars PROVE Inv'
  OBVIOUS
<1>1. ASSUME NEW h \in Hunts, HuntStep(h) PROVE Inv'
  BY <1>1, BeginInv, CheckSeenInv, AskPlatformInv, SeedSeenInv, NextCandidateInv, SkipInv,
     QueueLeadInv, CandidateFailsInv, ProgressInv, FinishInv, BreakInv DEF HuntStep
<1>2. ASSUME NEW x \in Callers, PushStep(x) PROVE Inv'
  BY <1>2, PostInv, AnsweredInv, TimesOutInv, MarkSentInv, RecordSeenInv, MarkFailedInv
     DEF PushStep
<1>3. CASE UNCHANGED vars
  BY <1>3, StutterInv
<1>4. CASE Next
  BY <1>1, <1>2, <1>3, <1>4, AcceptInv, AgentDiesInv, BeginRetryInv, RetryDiesInv, ServeInv,
     PlatformFailsInv, DeleteCompanyInv, DeletePersonInv, DropDomainInv DEF Next, Quiet
<1>5. QED  BY <1>3, <1>4

LEMMA Invariance == Spec => []Inv
BY InitInv, NextInv, PTL DEF Spec

\* Types hold in every state, for every value of the constants.
THEOREM TypeCorrect == Spec => []TypeOK
BY Invariance, PTL DEF Inv

-----------------------------------------------------------------------------
(* The outbox implements at-least-once delivery: queueing, storing, marking *)
(* sent and marking failed are the moves of LeadDelivery, the rest stutter. *)

Acknowledged == {r \in Rows : rowStatus[r] = "sent"}

LEMMA Stutters ==
    UNCHANGED <<rowStatus, applied>> => UNCHANGED Outbox!deliveryVars
BY DEF Outbox!deliveryVars

LEMMA QueueLeadMoves == ASSUME Inv, NEW h \in Hunts, QueueLead(h) PROVE Outbox!Move
<1>0. rows + 1 \in Rows /\ \A q \in Queued : q <= rows
  BY IntakeAssumption DEF QueueLead, Inv, TypeOK, Delivery, RowsFit, Rows
<1>1. PICK r \in Rows : r = rows + 1 /\ r > rows
  BY <1>0 DEF Inv, TypeOK
<1>2. rowStatus[r] = "none"
  BY <1>0, <1>1 DEF Queued, Rows, Inv, TypeOK
<1>3. rowStatus' = [rowStatus EXCEPT ![r] = "pending"] /\ applied' = applied
  BY <1>1 DEF QueueLead, intakeVars
<1>4. Queued' = Queued \cup {r} /\ Acknowledged' = Acknowledged /\ r \notin Queued
  BY <1>1, <1>2, <1>3 DEF Queued, Acknowledged, Inv, TypeOK
<1>5. Outbox!Queue(r)
  BY <1>3, <1>4 DEF Outbox!Queue, Queued, Acknowledged
<1>6. QED  BY <1>5 DEF Outbox!Move

LEMMA UpsertMoves ==
    ASSUME Inv, NEW s \in Slots, Serve(s)
    PROVE  Outbox!Move \/ UNCHANGED <<rowStatus, applied>>
<1>1. rowStatus' = rowStatus
  BY DEF Serve, outboxVars
<1>2. CASE handler[s].at = "company" /\ applied' = applied \cup {handler[s].row}
  <2> DEFINE r == handler[s].row
  <2>1. r \in Queued
    BY <1>2 DEF Inv, Delivery, HandlerFits
  <2>2. Outbox!Deliver(r)
    BY <1>1, <1>2, <2>1 DEF Outbox!Deliver, Queued
  <2>3. QED  BY <2>1, <2>2 DEF Outbox!Move, Queued
<1>3. CASE applied' = applied
  BY <1>1, <1>3
<1>4. QED
  BY <1>2, <1>3 DEF Serve, HandlerStep, UpsertCompany, FindFounder, InsertFounder, ReplyToNobody,
                    Serving

LEMMA MarkSentMoves ==
    ASSUME Inv, NEW x \in Callers, MarkSent(x)
    PROVE  Outbox!Move \/ UNCHANGED <<rowStatus, applied>>
<1>1. PICK r \in Queued : r = push[x].row /\ r \in applied /\ applied' = applied
  BY DEF MarkSent, Pushing, Inv, Delivery, CallerFits, intakeVars
<1>2. CASE rowStatus' = [rowStatus EXCEPT ![r] = "sent"]
  <2>1. Queued' = Queued /\ Acknowledged' = Acknowledged \cup {r} /\ r \in Rows
    BY <1>1, <1>2 DEF Queued, Acknowledged, Inv, TypeOK
  <2>2. Outbox!Acknowledge(r)
    BY <1>1, <2>1 DEF Outbox!Acknowledge, Queued, Acknowledged
  <2>3. QED  BY <2>2 DEF Outbox!Move, Queued
<1>3. QED  BY <1>1, <1>2 DEF MarkSent, RowOf

LEMMA MarkFailedMoves ==
    ASSUME Inv, NEW x \in Callers, MarkFailed(x)
    PROVE  Outbox!Move \/ UNCHANGED <<rowStatus, applied>>
<1>1. PICK r \in Queued : r = push[x].row /\ applied' = applied
  BY DEF MarkFailed, Pushing, Inv, Delivery, CallerFits, intakeVars
<1>2. CASE rowStatus' = [rowStatus EXCEPT ![r] = "failed"]
  <2>1. Queued' = Queued /\ Acknowledged' = Acknowledged \ {r} /\ r \in Rows
    BY <1>1, <1>2 DEF Queued, Acknowledged, Inv, TypeOK
  <2>2. Outbox!Withdraw(r)
    BY <1>1, <2>1 DEF Outbox!Withdraw, Queued, Acknowledged
  <2>3. QED  BY <2>2 DEF Outbox!Move, Queued
<1>3. QED  BY <1>1, <1>2 DEF MarkFailed, RowOf

LEMMA StepMoves == Inv /\ [Next]_vars => [Outbox!Move]_(Outbox!deliveryVars)
<1> SUFFICES ASSUME Inv, [Next]_vars
             PROVE  Outbox!Move \/ UNCHANGED <<rowStatus, applied>>
  BY Stutters
<1>1. ASSUME NEW h \in Hunts, HuntStep(h) \/ Accept(h)
      PROVE  Outbox!Move \/ UNCHANGED <<rowStatus, applied>>
  <2>1. CASE QueueLead(h)
    BY <2>1, QueueLeadMoves
  <2>2. CASE ~QueueLead(h)
    BY <1>1, <2>2
       DEF HuntStep, Accept, Begin, CheckSeen, AskPlatform, SeedSeen, NextCandidate, Skip,
           CandidateFails, Progress, Finish, Break, intakeVars, outboxVars
  <2>3. QED  BY <2>1, <2>2
<1>2. ASSUME NEW x \in Callers, PushStep(x)
      PROVE  Outbox!Move \/ UNCHANGED <<rowStatus, applied>>
  <2>1. CASE MarkSent(x) \/ MarkFailed(x)
    BY <2>1, MarkSentMoves, MarkFailedMoves
  <2>2. CASE Post(x) \/ Answered(x) \/ TimesOut(x) \/ RecordSeen(x)
    BY <2>2 DEF Post, Answered, TimesOut, RecordSeen, Receive, TakeReply, HangUp, intakeVars, outboxVars
  <2>3. QED  BY <1>2, <2>1, <2>2 DEF PushStep
<1>3. ASSUME NEW x \in Retriers, BeginRetry(x) \/ RetryDies(x)
      PROVE  UNCHANGED <<rowStatus, applied>>
  BY <1>3 DEF BeginRetry, RetryDies, HangUp, intakeVars, outboxVars
<1>4. ASSUME NEW s \in Slots, PlatformFails(s) PROVE UNCHANGED <<rowStatus, applied>>
  BY <1>4 DEF PlatformFails, HandlerDies, UpsertFails, outboxVars
<1>5. ASSUME NEW d \in Domains, DeleteCompany(d) \/ DeletePerson(d) \/ DropDomain(d)
      PROVE  UNCHANGED <<rowStatus, applied>>
  BY <1>5 DEF DeleteCompany, DeletePerson, DropDomain, DeleteLead, DeleteFounder, intakeVars,
              outboxVars
<1>6. CASE AgentDies
  BY <1>6 DEF AgentDies, HangUp, outboxVars
<1>7. CASE UNCHANGED vars
  BY <1>7 DEF vars, intakeVars, outboxVars
<1>8. CASE Next
  BY <1>1, <1>2, <1>3, <1>4, <1>5, <1>6, <1>7, <1>8, UpsertMoves DEF Next, Quiet
<1>9. QED  BY <1>7, <1>8

LEMMA InitStarts == Init => Outbox!Start
BY DEF Init, IntakeInit, Outbox!Start

\* Whatever is lost, repeated, refused or killed, and however many hunts and
\* retries overlap: the outbox, the platform's table and the marks of
\* deliver.py implement at-least-once delivery.
THEOREM OutboxImplementsDelivery == Spec => DeliversAtLeastOnce
<1>1. Init /\ []Inv /\ [][Next]_vars => Outbox!AtLeastOnce
  BY InitStarts, StepMoves, PTL DEF Outbox!AtLeastOnce
<1>2. QED  BY <1>1, Invariance, PTL DEF Spec, DeliversAtLeastOnce

-----------------------------------------------------------------------------
(* What a hunt leaves in the outbox, and what the platform's intake leaves *)
(* of a founder.                                                           *)

\* The domains a hunt may still put into the outbox.
Pursued(l) == l.novel \cup l.todo \cup IF l.at \in {"skip", "queue"} THEN {l.domain} ELSE {}

\* A row that is on record and not yet in the count, but will be.
Ahead(l) == IF l.at = "push" \/ (l.at = "progress" /\ l.counts) THEN 1 ELSE 0

\* A row is on record for each verified lead, the one on its way included.
Counted(h) ==
    /\ verified[h] + Ahead(hunt[h]) <= Cardinality(QueuedBy(h))
    /\ verified[h] <= Target[h]
    /\ hunt[h].at \in {"skip", "queue", "push", "progress"} => verified[h] < Target[h]

\* The cache only grows, so a look-up that answers tells what was barred.
Unpursued(h) ==
    /\ barred[h] \subseteq seen
    /\ Pursued(hunt[h]) \cap barred[h] \subseteq missed[h]
    /\ \A r \in QueuedBy(h) : about[r] \in barred[h] => about[r] \in missed[h]
    /\ hunt[h].at = "off" => QueuedBy(h) = {}

HuntInv(h) == Counted(h) /\ Unpursued(h)

LEMMA RowsCount == ASSUME NEW h \in Hunts PROVE /\ IsFiniteSet(QueuedBy(h))
                                                /\ Cardinality(QueuedBy(h)) \in Nat
<1>1. IsFiniteSet(Rows)
  BY FS_Interval, IntakeAssumption DEF Rows
<1>2. QueuedBy(h) \subseteq Rows
  BY DEF QueuedBy
<1>3. QED  BY <1>1, <1>2, FS_Subset, FS_CardinalityType

LEMMA RowsBegin == Init => \A h \in Hunts : HuntInv(h)
<1> SUFFICES ASSUME Init, NEW h \in Hunts PROVE HuntInv(h)
  OBVIOUS
<1>1. QueuedBy(h) = {}
  BY DEF Init, QueuedBy
<1>2. Cardinality(QueuedBy(h)) = 0
  BY <1>1, FS_EmptySet
<1>3. hunt[h] = Off /\ verified[h] = 0 /\ barred[h] = {} /\ Target[h] \in Nat
  BY PipelineAssumption DEF Init
<1>4. Counted(h)
  BY <1>2, <1>3 DEF Counted, Ahead, Off
<1>5. Unpursued(h)
  BY <1>1, <1>3 DEF Unpursued
<1>6. QED  BY <1>4, <1>5 DEF HuntInv

-----------------------------------------------------------------------------
(* Steps that add no row.                                                  *)

\* What they may do to the outbox, to the cache and to the history.
NoRow ==
    /\ Queued' = Queued /\ about' = about /\ owner' = owner
    /\ seen \subseteq seen'

LEMMA NoRowKeeps ==
    ASSUME NoRow, NEW h \in Hunts
    PROVE  QueuedBy(h)' = QueuedBy(h)
BY DEF NoRow, QueuedBy, Queued

LEMMA HuntRests ==
    ASSUME NoRow, NEW h \in Hunts, HuntInv(h), hunt'[h] = hunt[h],
           verified'[h] = verified[h], barred'[h] = barred[h], missed'[h] = missed[h]
    PROVE  HuntInv(h)'
<1>1. QueuedBy(h)' = QueuedBy(h)
  BY NoRowKeeps
<1>2. Counted(h)'
  BY <1>1 DEF HuntInv, Counted
<1>3. Unpursued(h)'
  BY <1>1 DEF HuntInv, Unpursued, NoRow
<1>4. QED  BY <1>2, <1>3 DEF HuntInv

\* A hunt goes on from its local state to l, and counts n more leads.
LEMMA HuntGoesOn ==
    ASSUME Inv, NoRow, NEW h \in Hunts, HuntInv(h), NEW l \in HuntState, hunt'[h] = l,
           NEW n \in {0, 1}, verified'[h] = verified[h] + n,
           n + Ahead(l) <= Ahead(hunt[h]),
           n = 1 => hunt[h].at = "progress",
           barred'[h] = barred[h], missed[h] \subseteq missed'[h],
           Pursued(l) \cap barred[h] \subseteq missed'[h],
           l.at # "off",
           l.at \in {"skip", "queue", "push", "progress"} => n = 0 /\ verified[h] < Target[h]
    PROVE  HuntInv(h)'
<1>1. QueuedBy(h)' = QueuedBy(h)
  BY NoRowKeeps
<1>2. verified[h] \in Nat /\ Target[h] \in Nat /\ Cardinality(QueuedBy(h)) \in Nat
      /\ Ahead(hunt[h]) \in {0, 1} /\ Ahead(l) \in {0, 1}
  BY RowsCount, PipelineAssumption DEF Inv, TypeOK, Ahead
<1>3. Counted(h)'
  <2>1. verified[h] + Ahead(hunt[h]) <= Cardinality(QueuedBy(h)) /\ verified[h] <= Target[h]
    BY DEF HuntInv, Counted
  <2>2. n = 1 => verified[h] < Target[h]
    BY DEF HuntInv, Counted
  <2>3. Cardinality(QueuedBy(h))' = Cardinality(QueuedBy(h))
    BY <1>1
  <2>4. verified'[h] + Ahead(l) <= Cardinality(QueuedBy(h)) /\ verified'[h] <= Target[h]
    BY <1>2, <2>1, <2>2
  <2>5. l.at \in {"skip", "queue", "push", "progress"} => verified'[h] < Target[h]
    BY <1>2
  <2>6. QED  BY <2>3, <2>4, <2>5 DEF Counted
<1>4. Unpursued(h)'
  BY <1>1 DEF HuntInv, Unpursued, NoRow
<1>5. QED  BY <1>3, <1>4 DEF HuntInv

\* A step of hunt h alone: the other hunts rest.
LEMMA OneHuntGoesOn ==
    ASSUME Inv, NoRow, \A g \in Hunts : HuntInv(g), NEW h \in Hunts, HuntInv(h)',
           \A g \in Hunts \ {h} :
               /\ hunt'[g] = hunt[g] /\ verified'[g] = verified[g]
               /\ barred'[g] = barred[g] /\ missed'[g] = missed[g]
    PROVE  \A g \in Hunts : HuntInv(g)'
BY HuntRests

\* Hunt h becomes l without counting: what that asks of l.
LEMMA HuntBecomes ==
    ASSUME Inv, NoRow, \A g \in Hunts : HuntInv(g), NEW h \in Hunts,
           NEW l \in HuntState, Become(h, l),
           Ahead(l) <= Ahead(hunt[h]), verified' = verified, barred' = barred,
           missed[h] \subseteq missed'[h], \A g \in Hunts \ {h} : missed'[g] = missed[g],
           Pursued(l) \cap barred[h] \subseteq missed'[h],
           l.at # "off",
           l.at \in {"skip", "queue", "push", "progress"} => verified[h] < Target[h]
    PROVE  \A g \in Hunts : HuntInv(g)'
<1>1. hunt'[h] = l /\ \A g \in Hunts \ {h} : hunt'[g] = hunt[g]
  BY DEF Become, Inv, TypeOK
<1> DEFINE n == 0
<1>2. n \in {0, 1} /\ n # 1 /\ n = 0 /\ verified'[h] = verified[h] + n /\ n + Ahead(l) <= Ahead(hunt[h])
  BY DEF Inv, TypeOK, Ahead
<1>. HIDE DEF n
<1>3. HuntInv(h)'
  BY <1>1, <1>2, HuntGoesOn
<1>4. QED  BY <1>1, <1>3, OneHuntGoesOn

\* ... and without pursuing anything new.
LEMMA HuntCarriesOn ==
    ASSUME Inv, NoRow, \A g \in Hunts : HuntInv(g), NEW h \in Hunts,
           NEW l \in HuntState, Become(h, l), UNCHANGED <<verified, barred, missed>>,
           Ahead(l) = 0, Pursued(l) \subseteq Pursued(hunt[h]), l.at # "off",
           l.at \in {"skip", "queue", "push", "progress"} => verified[h] < Target[h]
    PROVE  \A g \in Hunts : HuntInv(g)'
<1>1. Ahead(l) <= Ahead(hunt[h])
  BY DEF Ahead
<1>2. Pursued(l) \cap barred[h] \subseteq missed'[h]
  BY DEF HuntInv, Unpursued
<1>3. missed[h] \subseteq missed'[h] /\ \A g \in Hunts \ {h} : missed'[g] = missed[g]
  OBVIOUS
<1>4. QED  BY <1>1, <1>2, <1>3, HuntBecomes

LEMMA LoopPursues ==
    ASSUME NEW todo \in SUBSET Domains
    PROVE  LET l == [Off EXCEPT !.at = "loop", !.todo = todo]
           IN  Pursued(l) = todo /\ Ahead(l) = 0 /\ l.at = "loop" /\ l \in HuntState
BY LoopIsLocal DEF Pursued, Ahead, Off

LEMMA OverPursues ==
    LET l == [Off EXCEPT !.at = "over"] IN Pursued(l) = {} /\ Ahead(l) = 0 /\ l.at = "over" /\ l \in HuntState
BY OverIsLocal DEF Pursued, Ahead, Off

LEMMA ProgressingPursues ==
    ASSUME TypeOK, NEW h \in Hunts, NEW b \in BOOLEAN
    PROVE  LET l == Progressing(h, b)
           IN  /\ Pursued(l) \subseteq Pursued(hunt[h])
               /\ l.at = "progress" /\ Ahead(l) = IF b THEN 1 ELSE 0
               /\ l \in HuntState
<1>1. hunt[h] \in HuntState
  BY DEF TypeOK
<1>2. QED  BY <1>1, ProgressingIsLocal DEF Progressing, Pursued, Ahead, HuntState

LEMMA AheadIs == \A l : Ahead(l) \in {0, 1}
BY DEF Ahead

LEMMA HuntStepKeeps ==
    ASSUME Inv, \A g \in Hunts : HuntInv(g), NEW h \in Hunts, HuntStep(h), ~QueueLead(h)
    PROVE  \A g \in Hunts : HuntInv(g)'
<1> USE DEF outboxVars, jobVars, localVars, historyVars, intakeVars
<1>1. /\ hunt[h] \in HuntState /\ Counted(h) /\ Unpursued(h)
      /\ Ahead(hunt[h]) \in {0, 1} /\ Pursued(hunt[h]) \cap barred[h] \subseteq missed[h]
      /\ barred[h] \subseteq seen
  BY AheadIs DEF Inv, TypeOK, HuntInv, Unpursued
<1>2. NoRow
  BY <1>1 DEF HuntStep, NoRow, Queued, Begin, CheckSeen, AskPlatform, SeedSeen, NextCandidate, Skip,
         CandidateFails, Progress, Finish, Break
<1>3. CASE Begin(h)
  <2>1. PICK found \in SUBSET Domains :
           Become(h, [hunt[h] EXCEPT !.at = "check", !.found = found])
    BY <1>3 DEF Begin
  <2> DEFINE l == [hunt[h] EXCEPT !.at = "check", !.found = found]
  <2>2. l.at = "check" /\ Ahead(l) = 0 /\ Pursued(l) \subseteq Pursued(hunt[h])
        /\ l \in HuntState
    BY <1>1 DEF HuntState, HuntSteps, Ahead, Pursued
  <2> HIDE DEF l
  <2>3. QED  BY <1>1, <1>2, <1>3, <2>1, <2>2, HuntCarriesOn DEF Begin, l
<1>4. CASE CheckSeen(h)
  <2>1. PICK d \in hunt[h].found :
           \/ /\ Become(h, [hunt[h] EXCEPT !.found = @ \ {d},
                              !.novel = IF d \in seen THEN @ ELSE @ \cup {d}])
              /\ UNCHANGED missed
           \/ /\ Become(h, [hunt[h] EXCEPT !.found = @ \ {d}, !.novel = @ \cup {d}])
              /\ missed' = [missed EXCEPT ![h] = @ \cup {d}]
    BY <1>4 DEF CheckSeen
  <2>2. hunt[h].at = "check" /\ barred' = barred /\ verified' = verified
    BY <1>4 DEF CheckSeen, At
  <2> DEFINE l(novel) == [hunt[h] EXCEPT !.found = @ \ {d}, !.novel = novel]
  <2>3. ASSUME NEW novel \in SUBSET Domains
        PROVE  /\ l(novel).at = "check" /\ Ahead(l(novel)) = 0
               /\ Pursued(l(novel)) = novel \cup hunt[h].todo
               /\ l(novel) \in HuntState
    BY <1>1, <2>2 DEF HuntState, Ahead, Pursued
  <2>4. hunt[h].novel \cup hunt[h].todo \subseteq Pursued(hunt[h])
        /\ hunt[h].novel \in SUBSET Domains /\ hunt[h].novel \cup {d} \in SUBSET Domains
    BY <1>1 DEF Pursued, HuntState
  <2>5. CASE Become(h, l(hunt[h].novel)) /\ UNCHANGED missed
    <3> DEFINE k == l(hunt[h].novel)
    <3>1. k.at = "check" /\ Ahead(k) = 0 /\ Pursued(k) \subseteq Pursued(hunt[h])
          /\ k \in HuntState
      BY <2>3, <2>4
    <3>2. Become(h, k)
      BY <2>5
    <3> HIDE DEF k
    <3>3. QED  BY <1>1, <1>2, <2>2, <2>5, <3>1, <3>2, HuntCarriesOn
  <2>6. CASE /\ Become(h, l(hunt[h].novel \cup {d}))
             /\ \/ d \notin seen /\ UNCHANGED missed
                \/ missed' = [missed EXCEPT ![h] = @ \cup {d}]
    <3> DEFINE k == l(hunt[h].novel \cup {d})
    <3>1. k.at = "check" /\ Ahead(k) = 0 /\ Pursued(k) \subseteq Pursued(hunt[h]) \cup {d}
          /\ k \in HuntState
      BY <2>3, <2>4
    <3>2. Become(h, k)
      BY <2>6
    <3>3. /\ missed[h] \subseteq missed'[h]
          /\ \A g \in Hunts \ {h} : missed'[g] = missed[g]
          /\ d \in barred[h] => d \in missed'[h]
      BY <1>1, <2>6 DEF Inv, TypeOK
    <3> HIDE DEF k
    <3>4. Pursued(k) \cap barred[h] \subseteq missed'[h] /\ Ahead(k) <= Ahead(hunt[h])
      BY <1>1, <3>1, <3>3
    <3>5. QED  BY <1>2, <2>2, <3>1, <3>2, <3>3, <3>4, HuntBecomes
  <2>7. QED  BY <2>1, <2>5, <2>6
<1>5. CASE AskPlatform(h)
  <2>1. PICK known \in SUBSET Domains :
                     \/ Become(h, [Off EXCEPT !.at = "loop", !.todo = hunt[h].novel])
                     \/ Become(h, [hunt[h] EXCEPT !.at = "seed", !.known = known])
    BY <1>1, <1>5 DEF AskPlatform, Loop, Known, HuntState
  <2>2. verified' = verified /\ UNCHANGED <<barred, missed>> /\ hunt[h].at = "check"
    BY <1>5 DEF AskPlatform, At
  <2>3. CASE Become(h, [Off EXCEPT !.at = "loop", !.todo = hunt[h].novel])
    <3>1. hunt[h].novel \subseteq Pursued(hunt[h]) /\ hunt[h].novel \in SUBSET Domains
      BY <1>1 DEF Pursued, HuntState
    <3>2. QED  BY <1>1, <1>2, <2>2, <2>3, <3>1, LoopPursues, HuntCarriesOn
  <2>4. CASE Become(h, [hunt[h] EXCEPT !.at = "seed", !.known = known])
    <3> DEFINE l == [hunt[h] EXCEPT !.at = "seed", !.known = known]
    <3>1. l.at = "seed" /\ Ahead(l) = 0 /\ Pursued(l) \subseteq Pursued(hunt[h])
          /\ l \in HuntState
      BY <1>1 DEF HuntState, HuntSteps, Ahead, Pursued
    <3> HIDE DEF l
    <3>2. QED  BY <1>1, <1>2, <2>2, <2>4, <3>1, HuntCarriesOn DEF l
  <2>5. QED  BY <2>1, <2>3, <2>4
<1>6. CASE SeedSeen(h)
  <2>1. hunt[h].novel \ hunt[h].known \subseteq Pursued(hunt[h])
        /\ hunt[h].novel \ hunt[h].known \in SUBSET Domains
    BY <1>1 DEF Pursued, HuntState
  <2>2. QED  BY <1>1, <1>2, <1>6, <2>1, LoopPursues, HuntCarriesOn DEF SeedSeen, Loop
<1>7. CASE NextCandidate(h)
  <2>1. PICK d \in hunt[h].todo, step \in {"skip", "queue"} :
           Become(h, [hunt[h] EXCEPT !.at = step, !.domain = d, !.todo = @ \ {d}])
    BY <1>7 DEF NextCandidate
  <2> DEFINE l == [hunt[h] EXCEPT !.at = step, !.domain = d, !.todo = @ \ {d}]
  <2>2. l.at = step /\ Ahead(l) = 0 /\ Pursued(l) \subseteq Pursued(hunt[h])
        /\ l \in HuntState
    BY <1>1 DEF HuntState, HuntSteps, Ahead, Pursued
  <2> HIDE DEF l
  <2>3. QED  BY <1>1, <1>2, <1>7, <2>1, <2>2, HuntCarriesOn DEF NextCandidate, l
<1>8. CASE Skip(h)
  <2>1. hunt[h].todo \subseteq Pursued(hunt[h]) /\ verified[h] < Target[h]
        /\ verified' = verified /\ UNCHANGED <<barred, missed>> /\ hunt[h].todo \in SUBSET Domains
    BY <1>1, <1>8 DEF Pursued, Skip, At, Counted, HuntState
  <2>2. CASE Loop(h, hunt[h].todo)
    BY <1>1, <1>2, <2>1, <2>2, LoopPursues, HuntCarriesOn DEF Loop
  <2>3. CASE Become(h, Progressing(h, FALSE))
    BY <1>1, <1>2, <2>1, <2>3, ProgressingPursues, HuntCarriesOn DEF Inv
  <2>4. QED  BY <1>8, <2>2, <2>3 DEF Skip
<1>9. CASE CandidateFails(h)
  <2>1. verified[h] < Target[h] /\ verified' = verified /\ UNCHANGED <<barred, missed>>
    BY <1>1, <1>9 DEF CandidateFails, At, Counted
  <2>2. Become(h, Progressing(h, FALSE))
    BY <1>9 DEF CandidateFails
  <2>3. QED  BY <1>1, <1>2, <2>1, <2>2, ProgressingPursues, HuntCarriesOn DEF Inv
<1>10. CASE Progress(h)
  <2> DEFINE l == [Off EXCEPT !.at = "loop", !.todo = hunt[h].todo]
             n == IF hunt[h].counts THEN 1 ELSE 0
  <2>1. /\ hunt[h].at = "progress" /\ UNCHANGED <<barred, missed>>
        /\ verified'[h] = verified[h] + n /\ \A g \in Hunts \ {h} : verified'[g] = verified[g]
    BY <1>10 DEF Progress, At, Inv, TypeOK
  <2>2. hunt'[h] = l /\ \A g \in Hunts \ {h} : hunt'[g] = hunt[g]
    BY <1>10 DEF Progress, Loop, Become, Inv, TypeOK
  <2>3. hunt[h].todo \subseteq Pursued(hunt[h]) /\ hunt[h].todo \in SUBSET Domains
    BY <1>1 DEF Pursued, HuntState
  <2>4. Pursued(l) = hunt[h].todo /\ Ahead(l) = 0 /\ l.at = "loop" /\ l \in HuntState
    BY <2>3, LoopPursues
  <2>5. n \in {0, 1} /\ n + Ahead(l) <= Ahead(hunt[h])
    BY <2>1, <2>4 DEF Ahead
  <2> HIDE DEF l, n
  <2>6. HuntInv(h)'
    BY <1>1, <1>2, <2>1, <2>2, <2>3, <2>4, <2>5, HuntGoesOn
  <2>7. QED  BY <1>2, <2>1, <2>2, <2>6, OneHuntGoesOn
<1>11. CASE Finish(h) \/ Break(h)
  BY <1>1, <1>2, <1>11, OverPursues, HuntCarriesOn DEF Finish, Break
<1>12. QED
  BY <1>3, <1>4, <1>5, <1>6, <1>7, <1>8, <1>9, <1>10, <1>11 DEF HuntStep

LEMMA AcceptKeeps ==
    ASSUME Inv, \A g \in Hunts : HuntInv(g), NEW h \in Hunts, Accept(h)
    PROVE  \A g \in Hunts : HuntInv(g)'
<1> DEFINE l == [Off EXCEPT !.at = "begin"]
<1>1. hunt[h] = Off /\ hunt[h].at = "off" /\ QueuedBy(h) = {}
  BY DEF Accept, At, Inv, HuntFits, HuntInv, Unpursued
<1>2. NoRow
  BY DEF Accept, NoRow, Queued, outboxVars
<1>3. hunt'[h] = l /\ \A g \in Hunts \ {h} : hunt'[g] = hunt[g]
  BY <1>1 DEF Accept, Goto, Inv, TypeOK
<1>4. /\ barred'[h] = seen /\ \A g \in Hunts \ {h} : barred'[g] = barred[g]
      /\ missed' = missed /\ verified' = verified /\ seen' = seen
  BY DEF Accept, Inv, TypeOK
<1>5. l.at = "begin" /\ Ahead(l) = 0 /\ Pursued(l) = {} /\ Ahead(hunt[h]) = 0
  BY <1>1 DEF Off, Ahead, Pursued
<1> HIDE DEF l
<1>6. QueuedBy(h)' = QueuedBy(h)
  BY <1>2, NoRowKeeps
<1>7. Counted(h)'
  BY <1>3, <1>4, <1>5, <1>6 DEF HuntInv, Counted
<1>8. Unpursued(h)'
  BY <1>1, <1>3, <1>4, <1>5, <1>6 DEF Unpursued
<1>9. HuntInv(h)'
  BY <1>7, <1>8 DEF HuntInv
<1>10. QED  BY <1>2, <1>3, <1>4, <1>9, OneHuntGoesOn

LEMMA PushKeeps ==
    ASSUME Inv, \A g \in Hunts : HuntInv(g), NEW x \in Callers, PushStep(x)
    PROVE  \A g \in Hunts : HuntInv(g)'
<1>1. NoRow
  <2>1. /\ rowStatus' \in {rowStatus, [rowStatus EXCEPT ![push[x].row] = "sent"],
                                      [rowStatus EXCEPT ![push[x].row] = "failed"]}
        /\ about' = about /\ owner' = owner /\ seen \subseteq seen'
    BY DEF PushStep, Post, Answered, TimesOut, MarkSent, RecordSeen, MarkFailed, RowOf, outboxVars
  <2>2. push[x].row \in Queued
    BY DEF PushStep, Post, Answered, TimesOut, MarkSent, RecordSeen, MarkFailed, Pushing, Inv,
           Delivery, CallerFits
  <2>3. QED  BY <2>1, <2>2 DEF NoRow, Queued, Inv, TypeOK
<1>2. UNCHANGED <<verified, barred, missed>>
  BY DEF PushStep, Post, Answered, TimesOut, MarkSent, RecordSeen, MarkFailed, jobVars, historyVars
<1>3. CASE hunt' = hunt
  BY <1>1, <1>2, <1>3, HuntRests
<1>4. CASE x \in Hunts /\ \E b \in BOOLEAN : Become(x, Progressing(x, b))
  <2>1. PICK b \in BOOLEAN : Become(x, Progressing(x, b))
    BY <1>4
  <2> DEFINE l == Progressing(x, b)
  <2>2. hunt[x].at = "push"
    BY <1>4 DEF PushStep, Post, Answered, TimesOut, MarkSent, RecordSeen, MarkFailed, Pushing, Inv,
                HuntFits
  <2>3. l \in HuntState /\ Pursued(l) \subseteq Pursued(hunt[x]) /\ l.at = "progress"
    BY <1>4, ProgressingPursues DEF Inv
  <2>4. Ahead(l) <= Ahead(hunt[x])
    BY <2>2 DEF Ahead
  <2>5. verified[x] < Target[x] /\ Pursued(hunt[x]) \cap barred[x] \subseteq missed[x]
    BY <1>4, <2>2 DEF HuntInv, Counted, Unpursued
  <2> HIDE DEF l
  <2>6. Pursued(l) \cap barred[x] \subseteq missed'[x]
    BY <1>2, <2>3, <2>5
  <2>7. missed[x] \subseteq missed'[x] /\ \A g \in Hunts \ {x} : missed'[g] = missed[g]
    BY <1>2
  <2>8. QED  BY <1>1, <1>2, <1>4, <2>1, <2>3, <2>4, <2>5, <2>6, <2>7, HuntBecomes DEF l
<1>5. QED
  BY <1>3, <1>4 DEF PushStep, Post, Answered, TimesOut, MarkSent, RecordSeen, MarkFailed, Return, Raise

LEMMA AgentDiesKeeps ==
    ASSUME Inv, \A g \in Hunts : HuntInv(g), AgentDies
    PROVE  \A g \in Hunts : HuntInv(g)'
<1>1. NoRow /\ UNCHANGED <<verified, barred, missed>>
  BY DEF AgentDies, NoRow, Queued, outboxVars, jobVars, historyVars
<1>2. ASSUME NEW h \in Hunts PROVE HuntInv(h)'
  <2>1. CASE h \notin Alive
    <3>1. hunt'[h] = hunt[h]
      BY <2>1 DEF AgentDies
    <3>2. QED  BY <1>1, <3>1, HuntRests
  <2>2. CASE h \in Alive
    <3> DEFINE l == [Off EXCEPT !.at = "over"]
               n == 0
    <3>1. hunt'[h] = l
      BY <2>2 DEF AgentDies
    <3>2. Pursued(l) = {} /\ Ahead(l) = 0 /\ l.at = "over" /\ l \in HuntState
      BY OverPursues
    <3>3. n \in {0, 1} /\ n # 1 /\ n = 0 /\ verified'[h] = verified[h] + n /\ n + Ahead(l) <= Ahead(hunt[h])
      BY <1>1, <3>2, AheadIs DEF Inv, TypeOK
    <3> HIDE DEF l, n
    <3>4. Pursued(l) \cap barred[h] \subseteq missed'[h]
          /\ missed[h] \subseteq missed'[h] /\ barred'[h] = barred[h]
      BY <1>1, <3>2
    <3>5. QED  BY <1>1, <3>1, <3>2, <3>3, <3>4, HuntGoesOn
  <2>3. QED  BY <2>1, <2>2
<1>3. QED  BY <1>2

-----------------------------------------------------------------------------
(* The step that adds one.                                                 *)

LEMMA QueueLeadKeeps ==
    ASSUME Inv, \A g \in Hunts : HuntInv(g), NEW h \in Hunts, QueueLead(h)
    PROVE  \A g \in Hunts : HuntInv(g)'
<1>0. rows + 1 \in Rows /\ \A q \in Queued : q <= rows
  BY IntakeAssumption DEF QueueLead, Inv, TypeOK, Delivery, RowsFit, Rows
<1>1. PICK r \in Rows : r = rows + 1 /\ r > rows
  BY <1>0 DEF Inv, TypeOK
<1>2. r \notin Queued
  BY <1>0, <1>1 DEF Queued, Rows, Inv, TypeOK
<1>3. /\ rowStatus' = [rowStatus EXCEPT ![r] = "pending"]
      /\ about' = [about EXCEPT ![r] = hunt[h].domain]
      /\ owner' = [owner EXCEPT ![r] = h]
      /\ UNCHANGED <<seen, verified, barred, missed>>
      /\ hunt[h].at = "queue"
  BY <1>1 DEF QueueLead, At, jobVars, historyVars
<1>4. /\ Queued' = Queued \cup {r}
      /\ about'[r] = hunt[h].domain /\ owner'[r] = h
      /\ \A q \in Queued : about'[q] = about[q] /\ owner'[q] = owner[q]
  BY <1>2, <1>3 DEF Queued, Inv, TypeOK
<1>5. QueuedBy(h)' = QueuedBy(h) \cup {r} /\ r \notin QueuedBy(h)
  BY <1>2, <1>4 DEF QueuedBy, Queued
<1>6. \A g \in Hunts \ {h} : QueuedBy(g)' = QueuedBy(g)
  BY <1>2, <1>4 DEF QueuedBy, Queued
<1>7. PICK l : /\ hunt'[h] = l /\ l.at \in {"push", "progress"}
               /\ Pursued(l) \subseteq Pursued(hunt[h]) /\ Ahead(l) \in {0, 1}
  <2>1. CASE Goto(h, "push")
    <3> DEFINE l == [hunt[h] EXCEPT !.at = "push"]
    <3>1. hunt'[h] = l /\ l.at = "push" /\ Pursued(l) \subseteq Pursued(hunt[h])
      BY <2>1 DEF Goto, Pursued, Inv, TypeOK, HuntState
    <3>2. QED  BY <3>1, AheadIs
  <2>2. CASE \E b \in BOOLEAN : Become(h, Progressing(h, b))
    BY <2>2, ProgressingPursues, AheadIs DEF Become, Inv, TypeOK
  <2>3. QED  BY <2>1, <2>2 DEF QueueLead
<1>8. \A g \in Hunts \ {h} : hunt'[g] = hunt[g]
  BY DEF QueueLead, Goto, Become, Inv, TypeOK
<1>9. Counted(h)'
  <2>1. Cardinality(QueuedBy(h))' = Cardinality(QueuedBy(h)) + 1
    BY <1>5, RowsCount, FS_AddElement
  <2>2. verified[h] <= Cardinality(QueuedBy(h)) /\ verified[h] < Target[h]
    BY <1>3, RowsCount DEF HuntInv, Counted, Ahead, Inv, TypeOK
  <2>3. verified[h] \in Nat /\ Target[h] \in Nat /\ Cardinality(QueuedBy(h)) \in Nat
    BY RowsCount, PipelineAssumption DEF Inv, TypeOK
  <2>4. verified[h] + Ahead(l) <= Cardinality(QueuedBy(h)) + 1
    BY <1>7, <2>2, <2>3
  <2>5. QED  BY <1>3, <1>7, <2>1, <2>2, <2>3, <2>4 DEF Counted
<1>10. Unpursued(h)'
  <2>1. hunt[h].domain \in Pursued(hunt[h])
    BY <1>3 DEF Pursued
  <2>2. hunt[h].domain \in barred[h] => hunt[h].domain \in missed[h]
    BY <2>1 DEF HuntInv, Unpursued
  <2>3. \A q \in QueuedBy(h) : q \in Queued
    BY DEF QueuedBy, Queued
  <2>4. \A q \in QueuedBy(h)' : about'[q] \in barred'[h] => about'[q] \in missed'[h]
    BY <1>3, <1>4, <1>5, <2>2, <2>3 DEF HuntInv, Unpursued
  <2>5. barred'[h] \subseteq seen' /\ hunt'[h].at # "off"
        /\ Pursued(hunt'[h]) \cap barred'[h] \subseteq missed'[h]
    BY <1>3, <1>7 DEF HuntInv, Unpursued
  <2>6. QED  BY <2>4, <2>5 DEF Unpursued
<1>11. ASSUME NEW g \in Hunts \ {h} PROVE HuntInv(g)'
  <2>1. \A q \in QueuedBy(g) : about'[q] = about[q]
    BY <1>4 DEF QueuedBy, Queued
  <2>2. Counted(g)'
    BY <1>3, <1>6, <1>8 DEF HuntInv, Counted
  <2>3. Unpursued(g)'
    BY <1>3, <1>6, <1>8, <2>1 DEF HuntInv, Unpursued
  <2>4. QED  BY <2>2, <2>3 DEF HuntInv
<1>12. QED  BY <1>9, <1>10, <1>11 DEF HuntInv

LEMMA NextKeeps ==
    Inv /\ (\A g \in Hunts : HuntInv(g)) /\ [Next]_vars => (\A g \in Hunts : HuntInv(g))'
<1> SUFFICES ASSUME Inv, \A g \in Hunts : HuntInv(g), [Next]_vars
             PROVE  \A g \in Hunts : HuntInv(g)'
  OBVIOUS
<1>1. ASSUME NoRow, UNCHANGED <<hunt, verified, barred, missed>>
      PROVE  \A g \in Hunts : HuntInv(g)'
  BY <1>1, HuntRests
<1>2. ASSUME NEW x \in Retriers, BeginRetry(x) \/ RetryDies(x)
      PROVE  \A g \in Hunts : HuntInv(g)'
  BY <1>1, <1>2 DEF BeginRetry, RetryDies, NoRow, Queued, outboxVars, jobVars, historyVars
<1>3. ASSUME NEW s \in Slots, Serve(s) \/ PlatformFails(s)
      PROVE  \A g \in Hunts : HuntInv(g)'
  BY <1>1, <1>3 DEF Serve, PlatformFails, NoRow, Queued, outboxVars, jobVars, localVars, historyVars
<1>4. ASSUME NEW d \in Domains, DeleteCompany(d) \/ DeletePerson(d) \/ DropDomain(d)
      PROVE  \A g \in Hunts : HuntInv(g)'
  BY <1>1, <1>4 DEF DeleteCompany, DeletePerson, DropDomain, NoRow, Queued, outboxVars, jobVars, localVars, historyVars
<1>5. CASE UNCHANGED vars
  BY <1>1, <1>5 DEF vars, NoRow, Queued, outboxVars, jobVars, localVars, historyVars
<1>6. ASSUME NEW h \in Hunts, Accept(h) \/ HuntStep(h)
      PROVE  \A g \in Hunts : HuntInv(g)'
  BY <1>6, AcceptKeeps, HuntStepKeeps, QueueLeadKeeps
<1>7. ASSUME NEW x \in Callers, PushStep(x)
      PROVE  \A g \in Hunts : HuntInv(g)'
  BY <1>7, PushKeeps
<1>8. CASE Next
  BY <1>2, <1>3, <1>4, <1>5, <1>6, <1>7, <1>8, AgentDiesKeeps DEF Next, Quiet
<1>9. QED  BY <1>5, <1>8

AllHuntsFit == \A h \in Hunts : HuntInv(h)

LEMMA HuntsFit == Spec => []AllHuntsFit
<1>1. Init => AllHuntsFit
  BY RowsBegin DEF AllHuntsFit
<1>2. Inv /\ AllHuntsFit /\ [Next]_vars => AllHuntsFit'
  BY NextKeeps DEF AllHuntsFit
<1>3. QED  BY <1>1, <1>2, Invariance, PTL DEF Spec

\* Whatever fails or dies in between and however many hunts run: what a hunt
\* reports as verified is in the outbox, and it is never more than was asked.
THEOREM VerifiedHaveRows == Spec => []VerifiedIsQueued
<1>1. Inv /\ AllHuntsFit => VerifiedIsQueued
  <2> SUFFICES ASSUME Inv, NEW h \in Hunts, HuntInv(h)
               PROVE  verified[h] <= Target[h] /\ verified[h] <= Cardinality(QueuedBy(h))
    BY DEF VerifiedIsQueued, AllHuntsFit
  <2>1. /\ verified[h] \in Nat /\ Cardinality(QueuedBy(h)) \in Nat
        /\ verified[h] + Ahead(hunt[h]) <= Cardinality(QueuedBy(h)) /\ verified[h] <= Target[h]
    BY RowsCount DEF Inv, TypeOK, HuntInv, Counted
  <2>2. QED  BY <2>1, AheadIs
<1>2. QED  BY <1>1, HuntsFit, Invariance, PTL

\* No hunt delivers a company that was in the seen-cache when the hunt was
\* accepted, except where its look-up failed.
THEOREM SeenStaysUnpursued == Spec => []SeenIsNotPursued
<1>1. AllHuntsFit => SeenIsNotPursued
  BY DEF AllHuntsFit, SeenIsNotPursued, HuntInv, Unpursued
<1>2. QED  BY <1>1, HuntsFit, PTL

-----------------------------------------------------------------------------
(* The founder's row is looked up in the transaction that inserts it, and  *)
(* nothing keeps two requests from looking up before either has inserted.  *)
(* What is there and what is about to be inserted never come to more than  *)
(* the worker threads: a look-up that goes on to insert found no row.      *)

Inserting(d) == {s \in Slots : handler[s].at = "insert" /\ handler[s].domain = d}

FounderFits ==
    \A d \in Domains : founders[d] + Cardinality(Inserting(d)) <= Cardinality(Slots)

LEMMA InsertingCount ==
    \A d : /\ IsFiniteSet(Inserting(d)) /\ Cardinality(Inserting(d)) \in Nat
           /\ Cardinality(Inserting(d)) <= Cardinality(Slots) /\ Cardinality(Slots) \in Nat
<1> SUFFICES ASSUME NEW d
             PROVE  /\ IsFiniteSet(Inserting(d)) /\ Cardinality(Inserting(d)) \in Nat
                    /\ Cardinality(Inserting(d)) <= Cardinality(Slots) /\ Cardinality(Slots) \in Nat
  OBVIOUS
<1>1. IsFiniteSet(Slots) /\ Inserting(d) \in SUBSET Slots
  BY PipelineAssumption DEF Inserting
<1>2. IsFiniteSet(Inserting(d)) /\ Cardinality(Inserting(d)) <= Cardinality(Slots)
  BY <1>1, FS_Subset
<1>3. QED  BY <1>1, <1>2, FS_CardinalityType

\* A step that adds no row, and after which a request is about to insert only
\* if it was before or there is no row.
LEMMA FounderStays ==
    ASSUME Inv, FounderFits, founders' \in [Domains -> Nat],
           \A d \in Domains : founders'[d] <= founders[d],
           \A s \in Slots : handler'[s].at = "insert" =>
                \/ handler[s].at = "insert" /\ handler'[s].domain = handler[s].domain
                \/ founders'[handler'[s].domain] = 0
    PROVE  FounderFits'
<1> SUFFICES ASSUME NEW d \in Domains
             PROVE  founders'[d] + Cardinality(Inserting(d)') <= Cardinality(Slots)
  BY DEF FounderFits
<1>1. Inserting(d)' \in SUBSET Slots /\ IsFiniteSet(Slots)
  BY PipelineAssumption DEF Inserting
<1>2. /\ Cardinality(Inserting(d)') \in Nat /\ Cardinality(Slots) \in Nat
      /\ Cardinality(Inserting(d)') <= Cardinality(Slots)
  <2>1. IsFiniteSet(Inserting(d)') /\ Cardinality(Inserting(d)') <= Cardinality(Slots)
    BY <1>1, FS_Subset
  <2>2. QED  BY <1>1, <2>1, FS_CardinalityType
<1>3. founders[d] \in Nat /\ founders'[d] \in Nat /\ founders'[d] <= founders[d]
  BY DEF Inv, TypeOK, IntakeTypeOK
<1>4. CASE founders'[d] = 0
  BY <1>2, <1>4
<1>5. CASE founders'[d] # 0
  <2>1. Inserting(d)' \in SUBSET Inserting(d)
    BY <1>5 DEF Inserting
  <2>2. Cardinality(Inserting(d)') <= Cardinality(Inserting(d))
    BY <2>1, InsertingCount, FS_Subset
  <2>3. founders[d] + Cardinality(Inserting(d)) <= Cardinality(Slots)
    BY DEF FounderFits
  <2>4. Cardinality(Inserting(d)) \in Nat
    BY InsertingCount
  <2>5. QED  BY <1>2, <1>3, <2>2, <2>3, <2>4
<1>6. QED  BY <1>4, <1>5

\* ... in particular one that leaves the person-leads and the requests alone.
LEMMA FounderRests ==
    ASSUME Inv, FounderFits, founders' = founders,
           \A s \in Slots : handler'[s].at = "insert" =>
                \/ handler[s].at = "insert" /\ handler'[s].domain = handler[s].domain
                \/ founders[handler'[s].domain] = 0
    PROVE  FounderFits'
<1>1. founders \in [Domains -> Nat] /\ \A d \in Domains : founders'[d] <= founders[d]
  BY DEF Inv, TypeOK, IntakeTypeOK
<1>2. QED  BY <1>1, FounderStays

LEMMA HangUpStays ==
    ASSUME Inv, FounderFits, NEW xs, HangUp(xs)
    PROVE  FounderFits'
<1>1. ASSUME NEW s \in Slots
      PROVE  handler'[s].at = handler[s].at /\ handler'[s].domain = handler[s].domain
  <2>1. handler[s] \in Handler
    BY DEF Inv, TypeOK, IntakeTypeOK
  <2>2. QED  BY <2>1 DEF HangUp, Handler
<1>2. QED  BY <1>1, FounderRests DEF HangUp

\* A request that moves to a step other than the insert.
LEMMA FounderMoves ==
    ASSUME Inv, FounderFits, NEW s \in Slots, NEW k, k.at # "insert",
           handler' = [handler EXCEPT ![s] = k], founders' = founders
    PROVE  FounderFits'
<1>1. handler'[s] = k /\ \A t \in Slots \ {s} : handler'[t] = handler[t]
  BY DEF Inv, TypeOK, IntakeTypeOK
<1>2. \A t \in Slots : handler'[t].at = "insert" => handler[t].at = "insert" /\ handler'[t].domain = handler[t].domain
  BY <1>1
<1>3. QED  BY <1>2, FounderRests

LEMMA FounderGoesOn ==
    ASSUME Inv, FounderFits, NEW s \in Slots, NEW step, step # "insert",
           GoOn(s, step), founders' = founders
    PROVE  FounderFits'
<1> DEFINE k == [handler[s] EXCEPT !.at = step]
<1>1. handler[s] \in Handler
  BY DEF Inv, TypeOK, IntakeTypeOK
<1>2. k.at = step
  BY <1>1 DEF Handler
<1>3. handler' = [handler EXCEPT ![s] = k]
  BY DEF GoOn
<1> HIDE DEF k
<1>4. QED  BY <1>2, <1>3, FounderMoves

\* The insert takes the request's place among the rows.
LEMMA InsertFounderFits ==
    ASSUME Inv, FounderFits, NEW s \in Slots, InsertFounder(s)
    PROVE  FounderFits'
<1>0. PICK d \in Domains : d = handler[s].domain
  BY DEF InsertFounder, Serving, Inv, Delivery, HandlerFits
<1>1. handler[s] \in Handler /\ handler[s].at = "insert" /\ founders \in [Domains -> Nat]
  BY DEF InsertFounder, Serving, Inv, TypeOK, IntakeTypeOK
<1>2. handler'[s].at = "ok" /\ \A t \in Slots \ {s} : handler'[t] = handler[t]
  BY <1>1 DEF InsertFounder, GoOn, Handler, Inv, TypeOK, IntakeTypeOK
<1>3. Inserting(d)' = Inserting(d) \ {s} /\ s \in Inserting(d)
  BY <1>0, <1>1, <1>2 DEF Inserting
<1>4. \A e \in Domains \ {d} : Inserting(e)' = Inserting(e)
  BY <1>0, <1>1, <1>2 DEF Inserting
<1>5. Cardinality(Inserting(d)') = Cardinality(Inserting(d)) - 1
  BY <1>3, InsertingCount, FS_RemoveElement
<1>6. founders'[d] \in {founders[d], founders[d] + 1} /\ \A e \in Domains \ {d} : founders'[e] = founders[e]
  BY <1>0, <1>1 DEF InsertFounder
<1>7. founders[d] + Cardinality(Inserting(d)) <= Cardinality(Slots) /\ founders[d] \in Nat
  BY <1>1 DEF FounderFits
<1>8. Cardinality(Inserting(d)) \in Nat /\ Cardinality(Slots) \in Nat
  BY InsertingCount
<1>9. founders'[d] + Cardinality(Inserting(d)') <= Cardinality(Slots)
  BY <1>5, <1>6, <1>7, <1>8
<1>10. \A e \in Domains \ {d} : founders'[e] + Cardinality(Inserting(e)') <= Cardinality(Slots)
  BY <1>4, <1>6 DEF FounderFits
<1>11. QED  BY <1>9, <1>10 DEF FounderFits

LEMMA ServeKeepsFounder ==
    ASSUME Inv, FounderFits, NEW s \in Slots, Serve(s)
    PROVE  FounderFits'
<1>1. CASE UpsertCompany(s)
  <2>1. \E step \in {"refused", "find", "ok"} : GoOn(s, step)
    BY <1>1 DEF UpsertCompany
  <2>2. QED  BY <1>1, <2>1, FounderGoesOn DEF UpsertCompany
<1>2. CASE FindFounder(s)
  <2> DEFINE d == handler[s].domain
  <2>1. handler[s] \in Handler /\ d \in Domains /\ founders[d] \in Nat /\ founders' = founders
    BY <1>2 DEF FindFounder, Serving, Inv, TypeOK, IntakeTypeOK, Delivery, HandlerFits
  <2>2. CASE founders[d] > 0
    BY <1>2, <2>1, <2>2, FounderGoesOn DEF FindFounder
  <2>3. CASE founders[d] = 0
    <3>1. handler'[s].domain = d /\ \A t \in Slots \ {s} : handler'[t] = handler[t]
      BY <1>2, <2>1 DEF FindFounder, GoOn, Handler, Inv, TypeOK, IntakeTypeOK
    <3>2. \A t \in Slots : handler'[t].at = "insert" =>
              \/ handler[t].at = "insert" /\ handler'[t].domain = handler[t].domain
              \/ founders[handler'[t].domain] = 0
      BY <2>3, <3>1
    <3>3. QED  BY <2>1, <3>2, FounderRests
  <2>4. QED  BY <2>1, <2>2, <2>3
<1>3. CASE InsertFounder(s)
  BY <1>3, InsertFounderFits
<1>4. CASE ReplyToNobody(s)
  BY <1>4, FounderMoves DEF ReplyToNobody, Free
<1>5. QED  BY <1>1, <1>2, <1>3, <1>4 DEF Serve, HandlerStep

LEMMA PushKeepsFounder ==
    ASSUME Inv, FounderFits, NEW x \in Callers, PushStep(x)
    PROVE  FounderFits'
<1>1. CASE UNCHANGED intakeVars
  BY <1>1, FounderRests DEF intakeVars
<1>2. ASSUME NEW s \in Slots, Receive(s, RowOf(x), about[RowOf(x)], x)
      PROVE  FounderFits'
  BY <1>2, FounderMoves DEF Receive
<1>3. ASSUME NEW s \in Slots, TakeReply(s, x, "ok") \/ TakeReply(s, x, "refused")
      PROVE  FounderFits'
  BY <1>3, FounderMoves DEF TakeReply, Free
<1>4. CASE HangUp({x})
  BY <1>4, HangUpStays
<1>5. QED
  BY <1>1, <1>2, <1>3, <1>4 DEF PushStep, Post, Answered, TimesOut, MarkSent, RecordSeen, MarkFailed

LEMMA StepKeepsFounder == Inv /\ FounderFits /\ [Next]_vars => FounderFits'
<1> SUFFICES ASSUME Inv, FounderFits, [Next]_vars PROVE FounderFits'
  OBVIOUS
<1>1. CASE UNCHANGED <<founders, handler>>
  BY <1>1, FounderRests
<1>2. ASSUME NEW h \in Hunts, Accept(h) \/ HuntStep(h) PROVE FounderFits'
  BY <1>1, <1>2
     DEF HuntStep, Accept, Begin, CheckSeen, AskPlatform, SeedSeen, NextCandidate, Skip, QueueLead,
         CandidateFails, Progress, Finish, Break, intakeVars
<1>3. ASSUME NEW s \in Slots, PlatformFails(s) PROVE FounderFits'
  <2>1. CASE HandlerDies(s)
    BY <2>1, FounderMoves DEF HandlerDies, Free
  <2>2. CASE UpsertFails(s)
    BY <2>2, FounderGoesOn DEF UpsertFails
  <2>3. QED  BY <1>3, <2>1, <2>2 DEF PlatformFails
<1>4. ASSUME NEW x \in Retriers, BeginRetry(x) \/ RetryDies(x) PROVE FounderFits'
  BY <1>1, <1>4, HangUpStays DEF BeginRetry, RetryDies, intakeVars
<1>5. ASSUME NEW d \in Domains, DeleteCompany(d) \/ DropDomain(d) PROVE FounderFits'
  BY <1>1, <1>5 DEF DeleteCompany, DropDomain, DeleteLead, intakeVars
<1>6. ASSUME NEW d \in Domains, DeletePerson(d) PROVE FounderFits'
  <2>1. founders \in [Domains -> Nat] /\ founders[d] > 0 /\ founders[d] - 1 \in Nat
    BY <1>6 DEF DeletePerson, DeleteFounder, Inv, TypeOK, IntakeTypeOK
  <2>2. handler' = handler /\ founders' = [founders EXCEPT ![d] = founders[d] - 1]
    BY <1>6 DEF DeletePerson, DeleteFounder
  <2>3. founders' \in [Domains -> Nat] /\ \A e \in Domains : founders'[e] <= founders[e]
    BY <2>1, <2>2
  <2>4. QED  BY <2>2, <2>3, FounderStays
<1>7. CASE AgentDies
  BY <1>7, HangUpStays DEF AgentDies
<1>8. CASE UNCHANGED vars
  BY <1>1, <1>8 DEF vars, intakeVars
<1>9. CASE Next
  BY <1>2, <1>3, <1>4, <1>5, <1>6, <1>7, <1>8, <1>9, ServeKeepsFounder, PushKeepsFounder
     DEF Next, Quiet
<1>10. QED  BY <1>8, <1>9

\* A founder never has more person-leads than the platform has worker threads,
\* over any number of overlapping, repeated and broken-off requests and of
\* deletions by the user.
THEOREM FoundersAreFew == Spec => []FoundersPerThread
<1>1. Init => FounderFits
  <2> SUFFICES ASSUME Init, NEW d \in Domains
               PROVE  founders[d] + Cardinality(Inserting(d)) <= Cardinality(Slots)
    BY DEF FounderFits
  <2>1. founders[d] = 0
    BY DEF Init, IntakeInit
  <2>2. QED  BY <2>1, InsertingCount
<1>2. Inv /\ FounderFits => FoundersPerThread
  <2> SUFFICES ASSUME Inv, FounderFits, NEW d \in Domains PROVE founders[d] <= Cardinality(Slots)
    BY DEF FoundersPerThread
  <2>1. founders[d] \in Nat /\ founders[d] + Cardinality(Inserting(d)) <= Cardinality(Slots)
    BY DEF FounderFits, Inv, TypeOK, IntakeTypeOK
  <2>2. QED  BY <2>1, InsertingCount
<1>3. QED  BY <1>1, <1>2, StepKeepsFounder, Invariance, PTL DEF Spec
=============================================================================
