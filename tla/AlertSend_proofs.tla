-------------------------- MODULE AlertSend_proofs --------------------------
(***************************************************************************)
(* AlertSend, and RunBooks over it, for any number of senders, postings,   *)
(* runs and companies, any clock bound and any transaction lag.            *)
(***************************************************************************)
EXTENDS RunBooks, TLAPS

Behind(p) == \E r \in Runs : Sent(r) /\ finishedAt[r] >= firstSeen[p]

\* p is stored, or its company is gone and it can never be stored again
Lasting(p) == p \in stored \/ BoardOf[p] \notin watched

\* A sender that opened a run owns it, alone, and the run is still pending.
RunOwned ==
    /\ \A s \in Senders : pc[s] \in HasRun => run[s] \in Runs /\ runStatus[run[s]] = "pending"
    /\ \A s1, s2 \in Senders :
          pc[s1] \in HasRun /\ pc[s2] \in HasRun /\ run[s1] = run[s2] => s1 = s2

\* Between the mail and the close, the run's mail is the sender's batch.
AcceptedMailed ==
    \A s \in Senders : pc[s] = "accepted" => mailed[run[s]] = batch[s]

\* What was read or mailed stays in the table as long as its company does.
ReadsLast ==
    /\ \A r \in Runs : \A p \in mailed[r] : Lasting(p)
    /\ \A s \in Senders : \A p \in batch[s] : Lasting(p)
    /\ \A s \in Senders : pc[s] \in HasRead =>
          \A p \in Postings \ blind[s] : Lasting(p)

\* Row times are real times; a watermark is 0 or the end of a sent run.
TimesFit ==
    /\ \A p \in stored : firstSeen[p] # 0
    /\ \A s \in Senders : mark[s] = 0 \/ \E r \in Runs : Sent(r) /\ finishedAt[r] = mark[s]

\* A live new posting that a sender's read left out of its batch was already
\* behind the watermark.
LeftOutIsBehind ==
    \A s \in Senders : pc[s] \in HasRead =>
        \A p \in isNew \ (blind[s] \cup batch[s]) : stamp[p] = NoRun => Behind(p)

Inv ==
    /\ TypeOK
    /\ RunOwned
    /\ AcceptedMailed
    /\ ReadsLast
    /\ TimesFit
    /\ LeftOutIsBehind
    /\ StampedWasMailed
    /\ SentIsStamped
    /\ GapOnlyInFlight

-----------------------------------------------------------------------------
LEMMA InitInv == Init => Inv
BY StoreAssumption
   DEF Init, Inv, StoreInit, TypeOK, StoreTypeOK, RunOwned, AcceptedMailed, ReadsLast,
       TimesFit, LeftOutIsBehind, StampedWasMailed, SentIsStamped, GapOnlyInFlight,
       Step, HasRun, HasRead, Time, RunStatus, Lasting, Sent, RowsOf

-----------------------------------------------------------------------------
(* Type correctness, one lemma per group of actions.                       *)

LEMMA SenderType ==
  ASSUME TypeOK, NEW s \in Senders, SenderStep(s)
  PROVE  TypeOK'
<1> USE StoreAssumption DEF TypeOK, StoreTypeOK, Time, Step, storeVars, companyVars,
        postingVars, runVars, historyVars, Goto
<1>1. CASE ReadWatermark(s)  BY <1>1 DEF ReadWatermark
<1>2. CASE ReadPostings(s)   BY <1>2 DEF ReadPostings, Unalerted, Eligible
<1>3. CASE OpenRun(s)
  <2>1. PICK r \in Runs : CreateAlertRun(r) /\ run' = [run EXCEPT ![s] = r]
    BY <1>3 DEF OpenRun
  <2>2. QED  BY <1>3, <2>1 DEF OpenRun, CreateAlertRun, RunStatus
<1>4. CASE OpenRunUnanswered(s)
  <2>1. PICK r \in Runs : CreateAlertRun(r)
    BY <1>4 DEF OpenRunUnanswered
  <2>2. QED  BY <1>4, <2>1 DEF OpenRunUnanswered, CreateAlertRun, RunStatus, Rest
<1>5. ASSUME NEW status \in RunStatus, NEW ids \in SUBSET Postings,
             CloseAlertRun(run[s], status, ids), Rest(s),
             UNCHANGED <<now, companyVars, mailed>>, gap' \subseteq Postings
      PROVE  TypeOK'
  <2>1. runStatus' \in [Runs -> RunStatus]
    <3>1. runStatus' = [runStatus EXCEPT ![run[s]] = status]
      BY <1>5 DEF CloseAlertRun
    <3>2. QED  BY <1>5, <3>1
  <2>4. finishedAt' \in [Runs -> Time]
    <3>1. finishedAt' = [finishedAt EXCEPT ![run[s]] = now]
      BY <1>5 DEF CloseAlertRun
    <3>2. now \in Time /\ finishedAt \in [Runs -> Time]
      OBVIOUS
    <3>3. ASSUME NEW r \in Runs PROVE finishedAt'[r] \in Time
      BY <3>1, <3>2
    <3>4. QED  BY <3>1, <3>2, <3>3
  <2>2. stamp' \in [Postings -> Runs \cup {NoRun}]
    BY <1>5 DEF CloseAlertRun
  <2>3. QED  BY <1>5, <2>1, <2>4, <2>2 DEF CloseAlertRun, Rest
<1>6. CASE CloseSkipped(s)  BY <1>5, <1>6 DEF CloseSkipped, RunStatus
<1>7. CASE MailGoesOut(s)   BY <1>7 DEF MailGoesOut
<1>8. CASE MailFails(s)     BY <1>8 DEF MailFails
<1>9. CASE CloseSent(s)     BY <1>5, <1>9 DEF CloseSent, RunStatus
<1>10. CASE CloseFailed(s)  BY <1>5, <1>10 DEF CloseFailed, RunStatus
<1>11. CASE Abandon(s)      BY <1>11 DEF Abandon, Rest
<1>12. QED
  BY <1>1, <1>2, <1>3, <1>4, <1>6, <1>7, <1>8, <1>9, <1>10, <1>11 DEF SenderStep

-----------------------------------------------------------------------------
(* The inductive step, one lemma per action.                               *)

\* What closing one's own run does to the runs and to the stamps.
LEMMA CloseFrame ==
  ASSUME Inv, NEW s \in Senders, pc[s] \in HasRun,
         NEW status \in RunStatus, NEW ids \in SUBSET Postings,
         CloseAlertRun(run[s], status, ids)
  PROVE  /\ run[s] \in Runs /\ ~Sent(run[s])
         /\ \A r \in Runs : Sent(r) => Sent(r)' /\ finishedAt'[r] = finishedAt[r]
         /\ \A r \in Runs : r # run[s] /\ Sent(r)' => Sent(r)
         /\ runStatus'[run[s]] = status
         /\ \A p \in Postings : stamp[p] # NoRun => stamp'[p] = stamp[p]
         /\ \A p \in stored \cap ids : stamp'[p] # NoRun
         /\ \A p \in Postings : stamp'[p] # stamp[p] => stamp'[p] = run[s] /\ p \in ids
<1>1. run[s] \in Runs /\ runStatus[run[s]] = "pending"
  BY DEF Inv, RunOwned
<1>0. runStatus \in [Runs -> RunStatus] /\ finishedAt \in [Runs -> Time]
  BY DEF Inv, TypeOK, StoreTypeOK
<1>2. /\ runStatus' = [runStatus EXCEPT ![run[s]] = status]
      /\ finishedAt' = [finishedAt EXCEPT ![run[s]] = now]
  BY DEF CloseAlertRun
<1>3. \A r \in Runs : r # run[s] => runStatus'[r] = runStatus[r] /\ finishedAt'[r] = finishedAt[r]
  BY <1>0, <1>2
<1>4. runStatus'[run[s]] = status
  BY <1>0, <1>1, <1>2
<1>5. \A p \in Postings : stamp'[p] = IF p \in ids \cap stored /\ stamp[p] = NoRun
                                      THEN run[s] ELSE stamp[p]
  BY DEF CloseAlertRun
<1>6. NoRun \notin Runs
  BY StoreAssumption
<1>7. QED  BY <1>1, <1>3, <1>4, <1>5, <1>6 DEF Sent


LEMMA ReadWatermarkInv ==
  ASSUME Inv, NEW s \in Senders, ReadWatermark(s)
  PROVE  Inv'
<1> USE DEF Inv, Goto, Step, HasRead, HasRun, storeVars, companyVars, postingVars, runVars,
            historyVars
<1>1. TypeOK /\ TypeOK'
  BY SenderType DEF SenderStep
<1>2. /\ RunOwned' /\ AcceptedMailed' /\ ReadsLast' /\ TimesFit'
      /\ LeftOutIsBehind' /\ StampedWasMailed' /\ SentIsStamped' /\ GapOnlyInFlight'
  BY <1>1 DEF ReadWatermark, IsWatermark, TypeOK, StoreTypeOK, RunOwned,
         AcceptedMailed, ReadsLast, Lasting, TimesFit, Sent,
         LeftOutIsBehind, Behind, StampedWasMailed, SentIsStamped,
         GapOnlyInFlight
<1>3. QED  BY <1>1, <1>2

LEMMA ReadPostingsInv ==
  ASSUME Inv, NEW s \in Senders, ReadPostings(s)
  PROVE  Inv'
<1> USE DEF Inv, Goto, Step, HasRead, HasRun, storeVars, companyVars, postingVars, runVars,
            historyVars
<1>1. TypeOK /\ TypeOK'
  BY SenderType DEF SenderStep
<1>2. LeftOutIsBehind'
  <2>1. SUFFICES ASSUME NEW q \in Senders, pc'[q] \in HasRead,
                         NEW p \in isNew \ (blind'[q] \cup batch'[q]), stamp[p] = NoRun
                  PROVE  Behind(p)
    BY <1>1 DEF LeftOutIsBehind, ReadPostings, Behind, Sent
  <2>2. CASE q # s
    BY <1>1, <2>1, <2>2 DEF ReadPostings, LeftOutIsBehind, TypeOK
  <2>3. CASE q = s
    <3>1. p \in stored \ archived /\ p \notin Unalerted(mark[s])
      BY <1>1, <2>1, <2>3 DEF ReadPostings, TypeOK, StoreTypeOK
    <3>2. firstSeen[p] <= mark[s] /\ firstSeen[p] # 0
      BY <1>1, <2>1, <3>1 DEF Unalerted, Eligible, TimesFit, TypeOK, StoreTypeOK, Time
    <3>3. PICK r \in Runs : Sent(r) /\ finishedAt[r] = mark[s]
      BY <1>1, <3>2 DEF TimesFit, TypeOK, StoreTypeOK, Time
    <3>4. QED  BY <3>2, <3>3 DEF Behind
  <2>4. QED  BY <2>2, <2>3
<1>3. /\ RunOwned' /\ AcceptedMailed' /\ ReadsLast' /\ TimesFit'
      /\ StampedWasMailed' /\ SentIsStamped' /\ GapOnlyInFlight'
  BY <1>1 DEF ReadPostings, Unalerted, Eligible, TypeOK, StoreTypeOK,
         RunOwned, AcceptedMailed, ReadsLast, Lasting, TimesFit, Sent,
         StampedWasMailed, SentIsStamped, GapOnlyInFlight
<1>4. QED  BY <1>1, <1>2, <1>3

LEMMA OpenRunInv ==
  ASSUME Inv, NEW s \in Senders, OpenRun(s)
  PROVE  Inv'
<1> USE DEF Inv, Goto, Step, HasRead, HasRun, storeVars, companyVars, postingVars, runVars,
            historyVars
<1>1. TypeOK /\ TypeOK'
  BY SenderType DEF SenderStep
<1>2. /\ RunOwned' /\ AcceptedMailed' /\ ReadsLast' /\ TimesFit'
      /\ LeftOutIsBehind' /\ StampedWasMailed' /\ SentIsStamped' /\ GapOnlyInFlight'
  BY <1>1 DEF OpenRun, CreateAlertRun, TypeOK, StoreTypeOK, RunOwned,
         AcceptedMailed, ReadsLast, Lasting, TimesFit, Sent,
         LeftOutIsBehind, Behind, StampedWasMailed, SentIsStamped,
         GapOnlyInFlight
<1>3. QED  BY <1>1, <1>2

LEMMA OpenRunUnansweredInv ==
  ASSUME Inv, NEW s \in Senders, OpenRunUnanswered(s)
  PROVE  Inv'
<1> USE DEF Inv, Goto, Step, HasRead, HasRun, storeVars, companyVars, postingVars, runVars,
            historyVars
<1>1. TypeOK /\ TypeOK'
  BY SenderType DEF SenderStep
<1>2. /\ RunOwned' /\ AcceptedMailed' /\ ReadsLast' /\ TimesFit'
      /\ LeftOutIsBehind' /\ StampedWasMailed' /\ SentIsStamped' /\ GapOnlyInFlight'
  BY <1>1 DEF OpenRunUnanswered, CreateAlertRun, Rest, TypeOK,
         StoreTypeOK, RunOwned, AcceptedMailed, ReadsLast, Lasting,
         TimesFit, Sent, LeftOutIsBehind, Behind, StampedWasMailed,
         SentIsStamped, GapOnlyInFlight
<1>3. QED  BY <1>1, <1>2

LEMMA CloseSkippedInv ==
  ASSUME Inv, NEW s \in Senders, CloseSkipped(s)
  PROVE  Inv'
<1>1. TypeOK /\ TypeOK'
  BY SenderType DEF SenderStep, Inv
<1>2. /\ CloseAlertRun(run[s], "skipped", {})
      /\ pc[s] \in HasRun /\ {} \in SUBSET Postings /\ "skipped" \in RunStatus
  BY <1>1 DEF CloseSkipped, TypeOK, StoreTypeOK, HasRun, RunStatus
<1>3. /\ run[s] \in Runs /\ ~Sent(run[s])
      /\ \A r \in Runs : Sent(r) => Sent(r)' /\ finishedAt'[r] = finishedAt[r]
      /\ \A r \in Runs : r # run[s] /\ Sent(r)' => Sent(r)
      /\ runStatus'[run[s]] = "skipped"
      /\ \A p \in Postings : stamp[p] # NoRun => stamp'[p] = stamp[p]
      /\ \A p \in stored \cap {} : stamp'[p] # NoRun
      /\ \A p \in Postings : stamp'[p] # stamp[p] => stamp'[p] = run[s] /\ p \in {}
  <2>1. PICK none \in SUBSET Postings : none = {} /\ CloseAlertRun(run[s], "skipped", none)
    BY <1>2
  <2>2. QED  BY <1>2, <2>1, CloseFrame
<1> USE DEF Inv, Goto, Step, HasRead, HasRun, storeVars, companyVars, postingVars, runVars,
            historyVars
<1>4. TimesFit'
  <2>1. \A q \in Senders : mark'[q] = IF q = s THEN 0 ELSE mark[q]
    BY <1>1 DEF CloseSkipped, Rest, TypeOK
  <2>2. QED  BY <1>1, <1>3, <2>1 DEF TimesFit, CloseSkipped, CloseAlertRun
<1>5. LeftOutIsBehind'
  <2>1. SUFFICES ASSUME NEW q \in Senders, pc'[q] \in HasRead,
                         NEW p \in isNew \ (blind'[q] \cup batch'[q]), stamp'[p] = NoRun
                  PROVE  Behind(p)'
    BY <1>1 DEF LeftOutIsBehind, CloseSkipped, CloseAlertRun
  <2>2. q # s /\ pc[q] = pc'[q] /\ blind[q] = blind'[q] /\ batch[q] = batch'[q]
    BY <1>1, <2>1 DEF CloseSkipped, Rest, TypeOK
  <2>3. p \in Postings /\ stamp[p] = NoRun
    BY <1>1, <1>3, <2>1 DEF TypeOK, StoreTypeOK
  <2>4. Behind(p)
    BY <2>1, <2>2, <2>3 DEF LeftOutIsBehind
  <2>5. QED  BY <1>3, <2>4 DEF Behind, CloseSkipped, CloseAlertRun
<1>6. StampedWasMailed'
  <2>1. SUFFICES ASSUME NEW p \in stored, stamp'[p] # NoRun
                  PROVE  runStatus'[stamp'[p]] = "sent" /\ p \in mailed[stamp'[p]]
    BY <1>1 DEF StampedWasMailed, CloseSkipped, CloseAlertRun, Sent
  <2>2. CASE stamp'[p] = stamp[p]
    BY <1>1, <1>3, <2>1, <2>2 DEF StampedWasMailed, TypeOK, StoreTypeOK, Sent
  <2>3. CASE stamp'[p] # stamp[p]
    BY <1>1, <1>3, <2>1, <2>3 DEF CloseSkipped, TypeOK, StoreTypeOK, Sent
  <2>4. QED  BY <2>2, <2>3
<1>7. RunOwned' /\ AcceptedMailed' /\ ReadsLast'
  BY <1>1 DEF CloseSkipped, CloseAlertRun, Rest, TypeOK, StoreTypeOK,
         RunOwned, AcceptedMailed, ReadsLast, Lasting
<1>8. SentIsStamped'
  BY <1>1, <1>3 DEF CloseSkipped, CloseAlertRun, SentIsStamped, Sent, TypeOK, StoreTypeOK
<1>9. GapOnlyInFlight'
  BY <1>1, <1>3 DEF CloseSkipped, CloseAlertRun, GapOnlyInFlight, Sent, TypeOK, StoreTypeOK
<1>10. QED  BY <1>1, <1>4, <1>5, <1>6, <1>7, <1>8, <1>9

LEMMA MailGoesOutInv ==
  ASSUME Inv, NEW s \in Senders, MailGoesOut(s)
  PROVE  Inv'
<1> USE DEF Inv, Goto, Step, HasRead, HasRun, storeVars, companyVars, postingVars, runVars,
            historyVars
<1>1. TypeOK /\ TypeOK'
  BY SenderType DEF SenderStep
<1>2. StampedWasMailed'
  <2>1. mailed' = [mailed EXCEPT ![run[s]] = batch[s]] /\ ~Sent(run[s])
    BY <1>1 DEF MailGoesOut, RunOwned, Sent
  <2>2. \A r \in Runs : Sent(r) => mailed'[r] = mailed[r]
    BY <1>1, <2>1 DEF TypeOK
  <2>3. QED  BY <1>1, <2>2 DEF MailGoesOut, StampedWasMailed, Sent, TypeOK, StoreTypeOK
<1>3. SentIsStamped'
  <2>1. mailed' = [mailed EXCEPT ![run[s]] = batch[s]] /\ ~Sent(run[s])
    BY <1>1 DEF MailGoesOut, RunOwned, Sent
  <2>2. \A r \in Runs : Sent(r) => mailed'[r] = mailed[r]
    BY <1>1, <2>1 DEF TypeOK
  <2>3. QED  BY <1>1, <2>2 DEF MailGoesOut, SentIsStamped, Sent, TypeOK, StoreTypeOK
<1>4. /\ RunOwned' /\ AcceptedMailed' /\ ReadsLast'
      /\ TimesFit' /\ LeftOutIsBehind' /\ GapOnlyInFlight'
  BY <1>1 DEF MailGoesOut, TypeOK, StoreTypeOK, RunOwned, AcceptedMailed,
         ReadsLast, Lasting, TimesFit, Sent, LeftOutIsBehind, Behind,
         GapOnlyInFlight
<1>5. QED  BY <1>1, <1>2, <1>3, <1>4

LEMMA MailFailsInv ==
  ASSUME Inv, NEW s \in Senders, MailFails(s)
  PROVE  Inv'
<1> USE DEF Inv, Goto, Step, HasRead, HasRun, storeVars, companyVars, postingVars, runVars,
            historyVars
<1>1. TypeOK /\ TypeOK'
  BY SenderType DEF SenderStep
<1>2. /\ RunOwned' /\ AcceptedMailed' /\ ReadsLast' /\ TimesFit'
      /\ LeftOutIsBehind' /\ StampedWasMailed' /\ SentIsStamped' /\ GapOnlyInFlight'
  BY <1>1 DEF MailFails, TypeOK, StoreTypeOK, RunOwned, AcceptedMailed,
         ReadsLast, Lasting, TimesFit, Sent, LeftOutIsBehind, Behind,
         StampedWasMailed, SentIsStamped, GapOnlyInFlight
<1>3. QED  BY <1>1, <1>2

LEMMA CloseSentInv ==
  ASSUME Inv, NEW s \in Senders, CloseSent(s)
  PROVE  Inv'
<1>1. TypeOK /\ TypeOK'
  BY SenderType DEF SenderStep, Inv
<1>2. /\ CloseAlertRun(run[s], "sent", batch[s])
      /\ pc[s] \in HasRun /\ batch[s] \in SUBSET Postings /\ "sent" \in RunStatus
  BY <1>1 DEF CloseSent, TypeOK, StoreTypeOK, HasRun, RunStatus
<1>3. /\ run[s] \in Runs /\ ~Sent(run[s])
      /\ \A r \in Runs : Sent(r) => Sent(r)' /\ finishedAt'[r] = finishedAt[r]
      /\ \A r \in Runs : r # run[s] /\ Sent(r)' => Sent(r)
      /\ runStatus'[run[s]] = "sent"
      /\ \A p \in Postings : stamp[p] # NoRun => stamp'[p] = stamp[p]
      /\ \A p \in stored \cap batch[s] : stamp'[p] # NoRun
      /\ \A p \in Postings : stamp'[p] # stamp[p] => stamp'[p] = run[s] /\ p \in batch[s]
  BY <1>2, CloseFrame
<1> USE DEF Inv, Goto, Step, HasRead, HasRun, storeVars, companyVars, postingVars, runVars,
            historyVars
<1>4. TimesFit'
  <2>1. \A q \in Senders : mark'[q] = IF q = s THEN 0 ELSE mark[q]
    BY <1>1 DEF CloseSent, Rest, TypeOK
  <2>2. QED  BY <1>1, <1>3, <2>1 DEF TimesFit, CloseSent, CloseAlertRun
<1>5. LeftOutIsBehind'
  <2>1. SUFFICES ASSUME NEW q \in Senders, pc'[q] \in HasRead,
                         NEW p \in isNew \ (blind'[q] \cup batch'[q]), stamp'[p] = NoRun
                  PROVE  Behind(p)'
    BY <1>1 DEF LeftOutIsBehind, CloseSent, CloseAlertRun
  <2>2. q # s /\ pc[q] = pc'[q] /\ blind[q] = blind'[q] /\ batch[q] = batch'[q]
    BY <1>1, <2>1 DEF CloseSent, Rest, TypeOK
  <2>3. p \in Postings /\ stamp[p] = NoRun
    BY <1>1, <1>3, <2>1 DEF TypeOK, StoreTypeOK
  <2>4. Behind(p)
    BY <2>1, <2>2, <2>3 DEF LeftOutIsBehind
  <2>5. QED  BY <1>3, <2>4 DEF Behind, CloseSent, CloseAlertRun
<1>6. StampedWasMailed'
  <2>1. SUFFICES ASSUME NEW p \in stored, stamp'[p] # NoRun
                  PROVE  runStatus'[stamp'[p]] = "sent" /\ p \in mailed[stamp'[p]]
    BY <1>1 DEF StampedWasMailed, CloseSent, CloseAlertRun, Sent
  <2>2. CASE stamp'[p] = stamp[p]
    BY <1>1, <1>3, <2>1, <2>2 DEF StampedWasMailed, TypeOK, StoreTypeOK, Sent
  <2>3. CASE stamp'[p] # stamp[p]
    BY <1>1, <1>3, <2>1, <2>3 DEF AcceptedMailed, CloseSent, TypeOK, StoreTypeOK, Sent
  <2>4. QED  BY <2>2, <2>3
<1>7. SentIsStamped'
  <2>1. SUFFICES ASSUME NEW r \in Runs, Sent(r)', NEW p \in mailed[r] \cap stored
                  PROVE  stamp'[p] # NoRun
    BY <1>1 DEF SentIsStamped, CloseSent, CloseAlertRun
  <2>2. CASE r = run[s]
    BY <1>3, <2>1, <2>2 DEF AcceptedMailed, CloseSent
  <2>3. CASE r # run[s]
    BY <1>1, <1>3, <2>1, <2>3 DEF SentIsStamped, TypeOK, StoreTypeOK
  <2>4. QED  BY <2>2, <2>3
<1>8. GapOnlyInFlight'
  <2>1. SUFFICES ASSUME NEW p \in isNew, stamp'[p] = NoRun,
                         \E r \in Runs : Sent(r)' /\ finishedAt'[r] >= firstSeen[p]
                  PROVE  p \in gap'
    BY <1>1 DEF GapOnlyInFlight, CloseSent, CloseAlertRun
  <2>2. p \in stored /\ p \in Postings /\ stamp[p] = NoRun /\ p \notin batch[s]
    BY <1>1, <1>3, <2>1 DEF TypeOK, StoreTypeOK
  <2>3. CASE p \in blind[s]
    BY <2>2, <2>3 DEF CloseSent
  <2>4. CASE p \notin blind[s]
    BY <2>1, <2>2, <2>4 DEF LeftOutIsBehind, Behind, GapOnlyInFlight, CloseSent
  <2>5. QED  BY <2>3, <2>4
<1>9. RunOwned' /\ AcceptedMailed' /\ ReadsLast'
  BY <1>1 DEF CloseSent, CloseAlertRun, Rest, TypeOK, StoreTypeOK,
         RunOwned, AcceptedMailed, ReadsLast, Lasting
<1>10. QED  BY <1>1, <1>4, <1>5, <1>6, <1>7, <1>8, <1>9

LEMMA CloseFailedInv ==
  ASSUME Inv, NEW s \in Senders, CloseFailed(s)
  PROVE  Inv'
<1>1. TypeOK /\ TypeOK'
  BY SenderType DEF SenderStep, Inv
<1>2. /\ CloseAlertRun(run[s], "failed", {})
      /\ pc[s] \in HasRun /\ {} \in SUBSET Postings /\ "failed" \in RunStatus
  BY <1>1 DEF CloseFailed, TypeOK, StoreTypeOK, HasRun, RunStatus
<1>3. /\ run[s] \in Runs /\ ~Sent(run[s])
      /\ \A r \in Runs : Sent(r) => Sent(r)' /\ finishedAt'[r] = finishedAt[r]
      /\ \A r \in Runs : r # run[s] /\ Sent(r)' => Sent(r)
      /\ runStatus'[run[s]] = "failed"
      /\ \A p \in Postings : stamp[p] # NoRun => stamp'[p] = stamp[p]
      /\ \A p \in stored \cap {} : stamp'[p] # NoRun
      /\ \A p \in Postings : stamp'[p] # stamp[p] => stamp'[p] = run[s] /\ p \in {}
  <2>1. PICK none \in SUBSET Postings : none = {} /\ CloseAlertRun(run[s], "failed", none)
    BY <1>2
  <2>2. QED  BY <1>2, <2>1, CloseFrame
<1> USE DEF Inv, Goto, Step, HasRead, HasRun, storeVars, companyVars, postingVars, runVars,
            historyVars
<1>4. TimesFit'
  <2>1. \A q \in Senders : mark'[q] = IF q = s THEN 0 ELSE mark[q]
    BY <1>1 DEF CloseFailed, Rest, TypeOK
  <2>2. QED  BY <1>1, <1>3, <2>1 DEF TimesFit, CloseFailed, CloseAlertRun
<1>5. LeftOutIsBehind'
  <2>1. SUFFICES ASSUME NEW q \in Senders, pc'[q] \in HasRead,
                         NEW p \in isNew \ (blind'[q] \cup batch'[q]), stamp'[p] = NoRun
                  PROVE  Behind(p)'
    BY <1>1 DEF LeftOutIsBehind, CloseFailed, CloseAlertRun
  <2>2. q # s /\ pc[q] = pc'[q] /\ blind[q] = blind'[q] /\ batch[q] = batch'[q]
    BY <1>1, <2>1 DEF CloseFailed, Rest, TypeOK
  <2>3. p \in Postings /\ stamp[p] = NoRun
    BY <1>1, <1>3, <2>1 DEF TypeOK, StoreTypeOK
  <2>4. Behind(p)
    BY <2>1, <2>2, <2>3 DEF LeftOutIsBehind
  <2>5. QED  BY <1>3, <2>4 DEF Behind, CloseFailed, CloseAlertRun
<1>6. StampedWasMailed'
  <2>1. SUFFICES ASSUME NEW p \in stored, stamp'[p] # NoRun
                  PROVE  runStatus'[stamp'[p]] = "sent" /\ p \in mailed[stamp'[p]]
    BY <1>1 DEF StampedWasMailed, CloseFailed, CloseAlertRun, Sent
  <2>2. CASE stamp'[p] = stamp[p]
    BY <1>1, <1>3, <2>1, <2>2 DEF StampedWasMailed, TypeOK, StoreTypeOK, Sent
  <2>3. CASE stamp'[p] # stamp[p]
    BY <1>1, <1>3, <2>1, <2>3 DEF CloseFailed, TypeOK, StoreTypeOK, Sent
  <2>4. QED  BY <2>2, <2>3
<1>7. RunOwned' /\ AcceptedMailed' /\ ReadsLast'
  BY <1>1 DEF CloseFailed, CloseAlertRun, Rest, TypeOK, StoreTypeOK,
         RunOwned, AcceptedMailed, ReadsLast, Lasting
<1>8. SentIsStamped'
  BY <1>1, <1>3 DEF CloseFailed, CloseAlertRun, SentIsStamped, Sent, TypeOK, StoreTypeOK
<1>9. GapOnlyInFlight'
  BY <1>1, <1>3 DEF CloseFailed, CloseAlertRun, GapOnlyInFlight, Sent, TypeOK, StoreTypeOK
<1>10. QED  BY <1>1, <1>4, <1>5, <1>6, <1>7, <1>8, <1>9

LEMMA AbandonInv ==
  ASSUME Inv, NEW s \in Senders, Abandon(s)
  PROVE  Inv'
<1> USE DEF Inv, Goto, Step, HasRead, HasRun, storeVars, companyVars, postingVars, runVars,
            historyVars
<1>1. TypeOK /\ TypeOK'
  BY SenderType DEF SenderStep
<1>2. /\ RunOwned' /\ AcceptedMailed' /\ ReadsLast' /\ TimesFit'
      /\ LeftOutIsBehind' /\ StampedWasMailed' /\ SentIsStamped' /\ GapOnlyInFlight'
  BY <1>1 DEF Abandon, Rest, TypeOK, StoreTypeOK, RunOwned,
         AcceptedMailed, ReadsLast, Lasting, TimesFit, Sent,
         LeftOutIsBehind, Behind, StampedWasMailed, SentIsStamped,
         GapOnlyInFlight
<1>3. QED  BY <1>1, <1>2

-----------------------------------------------------------------------------
(* The environment's actions.                                              *)

LEMMA UpsertInv ==
  ASSUME Inv, Upsert
  PROVE  Inv'
<1> USE DEF Inv, HasRead, HasRun, companyVars, runVars, senderVars
<1>1. PICK c \in watched, new \in BOOLEAN, t \in Time \ {0} :
        \E ps \in SUBSET {p \in Postings : BoardOf[p] = c} :
            /\ t <= now
            /\ UpsertPostings(ps, new, t)
            /\ gap' = IF \E r \in Runs : runStatus[r] = "sent" /\ finishedAt[r] >= t
                      THEN gap \cup (ps \ stored) ELSE gap
  BY DEF Upsert
<1>2. PICK ps \in SUBSET {p \in Postings : BoardOf[p] = c} :
            /\ UpsertPostings(ps, new, t)
            /\ gap' = IF \E r \in Runs : runStatus[r] = "sent" /\ finishedAt[r] >= t
                      THEN gap \cup (ps \ stored) ELSE gap
  BY <1>1
<1>3. UNCHANGED <<now, companyVars, runVars, senderVars, mailed, blind>>
  BY DEF Upsert
<1>4. /\ stored' = stored \cup (ps \ stored)
      /\ isNew' = IF new THEN isNew \cup (ps \ stored) ELSE isNew
      /\ firstSeen' = [p \in Postings |-> IF p \in ps \ stored THEN t ELSE firstSeen[p]]
      /\ stamp' = [p \in Postings |-> IF p \in ps \ stored THEN NoRun ELSE stamp[p]]
      /\ tracked' = tracked /\ archived' = archived \ ps
  BY <1>2 DEF UpsertPostings
<1>5. TypeOK'
  BY <1>2, <1>3, <1>4, StoreAssumption DEF TypeOK, StoreTypeOK
<1>6. \A p \in ps \ stored : ~Lasting(p)
  BY <1>1, <1>2 DEF Lasting
<1>7. \A p : Lasting(p) => Lasting(p)'
  BY <1>3, <1>4 DEF Lasting
<1>8. \A p \in Postings \ (ps \ stored) :
         firstSeen'[p] = firstSeen[p] /\ stamp'[p] = stamp[p] /\ Behind(p)' = Behind(p)
  BY <1>3, <1>4 DEF Behind, Sent
<1>9. RunOwned' /\ AcceptedMailed'
  BY <1>3 DEF RunOwned, AcceptedMailed
<1>10. ReadsLast'
  BY <1>3, <1>7 DEF ReadsLast
<1>11. TimesFit'
  BY <1>1, <1>3, <1>4 DEF TimesFit, Sent, TypeOK, StoreTypeOK
<1>12. LeftOutIsBehind'
  <2>1. SUFFICES ASSUME NEW q \in Senders, pc[q] \in HasRead,
                        NEW p \in isNew' \ (blind[q] \cup batch[q]), stamp'[p] = NoRun
                 PROVE  Behind(p)'
    BY <1>3 DEF LeftOutIsBehind
  <2>2. p \in Postings
    BY <1>5, <2>1 DEF TypeOK, StoreTypeOK
  <2>3. p \notin ps \ stored
    BY <1>6, <2>1, <2>2 DEF ReadsLast
  <2>4. QED  BY <1>4, <1>8, <2>1, <2>2, <2>3 DEF LeftOutIsBehind
<1>13. StampedWasMailed'
  BY <1>3, <1>4 DEF StampedWasMailed, Sent, TypeOK, StoreTypeOK
<1>14. SentIsStamped'
  BY <1>3, <1>4, <1>6 DEF SentIsStamped, Sent, ReadsLast, TypeOK, StoreTypeOK
<1>15. GapOnlyInFlight'
  <2>1. SUFFICES ASSUME NEW p \in isNew', stamp'[p] = NoRun, Behind(p)'
                 PROVE  p \in gap'
    BY DEF GapOnlyInFlight, Behind
  <2>2. p \in Postings
    BY <1>5, <2>1 DEF TypeOK, StoreTypeOK
  <2>3. CASE p \in ps \ stored
    BY <1>2, <1>3, <1>4, <2>1, <2>2, <2>3 DEF Behind, Sent
  <2>4. CASE p \notin ps \ stored
    BY <1>2, <1>4, <1>8, <2>1, <2>2, <2>4 DEF GapOnlyInFlight, Behind
  <2>5. QED  BY <2>3, <2>4
<1>16. QED
  BY <1>5, <1>9, <1>10, <1>11, <1>12, <1>13, <1>14, <1>15

LEMMA OtherEnvironmentInv ==
  ASSUME Inv, ArchiveSome \/ RestoreSome \/ Dismiss \/ RemoveCompany \/ Clock
  PROVE  Inv'
<1> USE DEF Inv, HasRead, HasRun, companyVars, runVars, postingVars, senderVars, historyVars,
        RunOwned, AcceptedMailed, ReadsLast, Lasting, TimesFit, LeftOutIsBehind, Behind,
        StampedWasMailed, SentIsStamped, GapOnlyInFlight, Sent, TypeOK, StoreTypeOK
<1>1. CASE ArchiveSome    BY <1>1 DEF ArchiveSome, ArchivePostings
<1>2. CASE RestoreSome    BY <1>2 DEF RestoreSome, RestorePostings
<1>3. CASE Dismiss        BY <1>3 DEF Dismiss, DismissPostings
<1>4. CASE RemoveCompany  BY <1>4, StoreAssumption DEF RemoveCompany, DeleteCompany, RowsOf
<1>5. CASE Clock          BY <1>5, StoreAssumption DEF Clock, Tick, Time
<1>6. QED  BY <1>1, <1>2, <1>3, <1>4, <1>5

LEMMA StepInv == Inv /\ [Next]_vars => Inv'
<1> SUFFICES ASSUME Inv, [Next]_vars PROVE Inv'
  OBVIOUS
<1>1. ASSUME NEW s \in Senders, SenderStep(s) PROVE Inv'
  BY <1>1, ReadWatermarkInv, ReadPostingsInv, OpenRunInv, OpenRunUnansweredInv,
     CloseSkippedInv, MailGoesOutInv, MailFailsInv, CloseSentInv, CloseFailedInv,
     AbandonInv DEF SenderStep
<1>2. CASE Environment
  BY <1>2, UpsertInv, OtherEnvironmentInv DEF Environment
<1>3. CASE UNCHANGED vars
  BY <1>3 DEF vars, storeVars, companyVars, postingVars, runVars, senderVars, historyVars,
     Inv, HasRead, HasRun, RunOwned, AcceptedMailed, ReadsLast, Lasting, TimesFit,
     LeftOutIsBehind, Behind, StampedWasMailed, SentIsStamped, GapOnlyInFlight, Sent,
     TypeOK, StoreTypeOK
<1>4. QED  BY <1>1, <1>2, <1>3 DEF Next

-----------------------------------------------------------------------------
\* Inv is invariant: the argument every theorem below rests on.
THEOREM Invariance == Spec => []Inv
BY InitInv, StepInv, PTL DEF Spec

\* Types are kept by every sender and every writer around it.
THEOREM TypeCorrect == Spec => []TypeOK
<1>1. Inv => TypeOK  BY DEF Inv
<1>2. QED  BY <1>1, Invariance, PTL

\* A posting leaves the list of news only through a mail that listed it.
THEOREM ReportedOnlyByMail == Spec => []StampedWasMailed
<1>1. Inv => StampedWasMailed  BY DEF Inv
<1>2. QED  BY <1>1, Invariance, PTL

\* A sent run and the stamps of all it mailed are one event.
THEOREM SentMeansStamped == Spec => []SentIsStamped
<1>1. Inv => SentIsStamped  BY DEF Inv
<1>2. QED  BY <1>1, Invariance, PTL

\* The watermark loses what was out of a sent alert's sight, and no more.
THEOREM LossIsBounded == Spec => []GapOnlyInFlight
<1>1. Inv => GapOnlyInFlight  BY DEF Inv
<1>2. QED  BY <1>1, Invariance, PTL

-----------------------------------------------------------------------------
LEMMA StampFinalStep ==
  ASSUME Inv, [Next]_vars, NEW p \in stored \cap stored', stamp[p] # NoRun
  PROVE  stamp'[p] = stamp[p]
<1> USE DEF Inv, TypeOK, StoreTypeOK
<1>1. p \in Postings
  OBVIOUS
<1>2. CASE UNCHANGED stamp
  BY <1>2
<1>3. ASSUME NEW r, NEW status, NEW ids, CloseAlertRun(r, status, ids)
      PROVE  stamp'[p] = stamp[p]
  BY <1>1, <1>3 DEF CloseAlertRun
<1>4. ASSUME NEW s \in Senders, SenderStep(s)
      PROVE  UNCHANGED stamp \/ \E r, status, ids : CloseAlertRun(r, status, ids)
  BY <1>4 DEF SenderStep, ReadWatermark, ReadPostings, OpenRun, OpenRunUnanswered,
     CreateAlertRun, CloseSkipped, MailGoesOut, MailFails, CloseSent, CloseFailed,
     Abandon, storeVars, postingVars
<1>5. CASE Upsert
  <2>1. PICK ps, new, t : UpsertPostings(ps, new, t)
    BY <1>5 DEF Upsert
  <2>2. QED  BY <1>1, <2>1 DEF UpsertPostings
<1>6. ASSUME ArchiveSome \/ RestoreSome \/ Dismiss \/ RemoveCompany \/ Clock
      PROVE  UNCHANGED stamp
  BY <1>6 DEF ArchiveSome, ArchivePostings, RestoreSome, RestorePostings, Dismiss,
     DismissPostings, RemoveCompany, DeleteCompany, Clock, Tick, postingVars
<1>7. CASE UNCHANGED vars
  BY <1>7 DEF vars, storeVars, postingVars
<1>8. QED
  BY <1>2, <1>3, <1>4, <1>5, <1>6, <1>7 DEF Next, Environment

\* Once reported, a posting keeps the run that reported it.
THEOREM StampsAreFinal == Spec => StampIsFinal
<1>1. Inv /\ [Next]_vars =>
        [\A p \in stored \cap stored' : stamp[p] # NoRun => stamp'[p] = stamp[p]]_vars
  BY StampFinalStep
<1>2. QED  BY <1>1, Invariance, PTL DEF Spec, StampIsFinal

-----------------------------------------------------------------------------
(* One alert job.                                                          *)

\* A mail that may still be reported as sent lists nothing a sent one listed.
Apart ==
    /\ SentMailsDisjoint
    /\ \A s \in Senders, r \in Runs : Sent(r) => batch[s] \cap mailed[r] = {}

\* A step that sends nothing and reads nothing anew leaves the mails apart.
LEMMA NothingSent ==
  ASSUME Inv, Apart,
         \A r \in Runs : Sent(r)' => Sent(r),
         \A r \in Runs : Sent(r) => mailed'[r] = mailed[r],
         \A s \in Senders : batch'[s] \subseteq batch[s]
  PROVE  Apart'
BY DEF Apart, SentMailsDisjoint

\* With one job, a run is closed as sent while no other mail is under way.
LEMMA ApartStep ==
  ASSUME \A s1, s2 \in Senders : s1 = s2, Inv, Apart, [Next]_vars
  PROVE  Apart'
<1>1. /\ batch \in [Senders -> SUBSET Postings] /\ runStatus \in [Runs -> RunStatus]
      /\ mailed \in [Runs -> SUBSET Postings] /\ run \in [Senders -> Runs \cup {NoRun}]
      /\ stored \subseteq Postings /\ isNew \subseteq stored
  BY DEF Inv, TypeOK, StoreTypeOK
<1>2. ASSUME NEW s \in Senders, SenderStep(s) PROVE Apart'
  <2>1. CASE ReadWatermark(s) \/ MailFails(s) \/ Abandon(s)
    BY <1>1, <2>1, NothingSent
    DEF ReadWatermark, MailFails, Abandon, Rest, storeVars, runVars, historyVars, Sent
  <2>2. CASE ReadPostings(s)
    <3>1. /\ UNCHANGED <<runStatus, mailed>>
          /\ \A q \in Senders : batch'[q] = IF q = s THEN Unalerted(mark[s]) ELSE batch[q]
      BY <1>1, <2>2 DEF ReadPostings, storeVars, runVars
    <3>2. \A r \in Runs : Sent(r) => Unalerted(mark[s]) \cap mailed[r] = {}
      BY <1>1 DEF Inv, SentIsStamped, Unalerted, Eligible
    <3>3. QED  BY <3>1, <3>2 DEF Apart, SentMailsDisjoint, Sent
  <2>3. CASE OpenRun(s) \/ OpenRunUnanswered(s)
    <3>1. PICK r \in Runs : runStatus' = [runStatus EXCEPT ![r] = "pending"]
      BY <2>3 DEF OpenRun, OpenRunUnanswered, CreateAlertRun
    <3>2. \A q \in Runs : Sent(q)' => Sent(q)
      BY <1>1, <3>1 DEF Sent
    <3>3. UNCHANGED mailed /\ \A q \in Senders : batch'[q] \subseteq batch[q]
      BY <1>1, <2>3 DEF OpenRun, OpenRunUnanswered, Rest, historyVars
    <3>4. QED  BY <3>2, <3>3, NothingSent
  <2>4. CASE MailGoesOut(s)
    <3>1. mailed' = [mailed EXCEPT ![run[s]] = batch[s]] /\ UNCHANGED <<runStatus, batch>>
      BY <2>4 DEF MailGoesOut, storeVars, runVars
    <3>2. ~Sent(run[s])
      BY <2>4 DEF MailGoesOut, Inv, RunOwned, HasRead, HasRun, Step, Sent
    <3>3. \A r \in Runs : Sent(r) => mailed'[r] = mailed[r]
      BY <1>1, <3>1, <3>2
    <3>4. \A r \in Runs : Sent(r)' => Sent(r)
      BY <3>1 DEF Sent
    <3>5. QED  BY <3>1, <3>3, <3>4, NothingSent
  <2>5. ASSUME NEW status \in RunStatus \ {"sent"}, CloseAlertRun(run[s], status, {}), Rest(s),
               UNCHANGED mailed
        PROVE  Apart'
    <3>1. \A r \in Runs : Sent(r)' => Sent(r)
      BY <1>1, <2>5 DEF CloseAlertRun, Sent
    <3>2. \A q \in Senders : batch'[q] \subseteq batch[q]
      BY <1>1, <2>5 DEF Rest
    <3>3. QED  BY <2>5, <3>1, <3>2, NothingSent
  <2>6. CASE CloseSkipped(s) \/ CloseFailed(s)
    BY <2>5, <2>6 DEF CloseSkipped, CloseFailed, RunStatus
  <2>7. CASE CloseSent(s)
    <3>1. /\ run[s] \in Runs /\ mailed[run[s]] = batch[s] /\ UNCHANGED mailed
          /\ runStatus' = [runStatus EXCEPT ![run[s]] = "sent"] /\ batch'[s] = {}
      BY <1>1, <2>7
      DEF CloseSent, CloseAlertRun, Rest, Inv, RunOwned, AcceptedMailed, HasRead, HasRun, Step
    <3>2. \A r \in Runs : Sent(r)' => r = run[s] \/ Sent(r)
      BY <1>1, <3>1 DEF Sent
    <3>3. SentMailsDisjoint'
      BY <3>1, <3>2 DEF Apart, SentMailsDisjoint
    <3>4. \A q \in Senders : batch'[q] = {}
      BY <3>1, \A s1, s2 \in Senders : s1 = s2
    <3>5. QED  BY <3>3, <3>4 DEF Apart
  <2>8. QED
    BY <1>2, <2>1, <2>2, <2>3, <2>4, <2>6, <2>7 DEF SenderStep
<1>3. CASE Environment
  <2>1. UNCHANGED <<runStatus, mailed, batch>>
    BY <1>3 DEF Environment, Upsert, ArchiveSome, RestoreSome, Dismiss, RemoveCompany, Clock,
       Tick, runVars, senderVars, historyVars
  <2>2. QED  BY <2>1, NothingSent DEF Sent
<1>4. CASE UNCHANGED vars
  <2>1. UNCHANGED <<runStatus, mailed, batch>>
    BY <1>4 DEF vars, storeVars, runVars, senderVars, historyVars
  <2>2. QED  BY <2>1, NothingSent DEF Sent
<1>5. QED  BY <1>2, <1>3, <1>4 DEF Next

\* If one job alone sends alerts, no posting is in the mails of two sent runs:
\* what schema.prisma:337 promises, under the condition it leaves out.
THEOREM OneJobRepeatsNothing ==
  ASSUME \A s1, s2 \in Senders : s1 = s2
  PROVE  Spec => []SentMailsDisjoint
<1>1. Init => Apart
  BY DEF Init, StoreInit, Apart, SentMailsDisjoint, Sent
<1>2. Inv /\ Apart /\ [Next]_vars => Apart'
  BY ApartStep
<1>3. Apart => SentMailsDisjoint
  BY DEF Apart
<1>4. QED  BY <1>1, <1>2, <1>3, Invariance, PTL DEF Spec

-----------------------------------------------------------------------------
(* The books.  Each of their steps is a step of AlertSend or none, so all  *)
(* that is proved of Spec holds of BooksSpec.                              *)

LEMMA AttemptIsSender ==
  ASSUME NEW s \in Senders, AttemptStep(s)
  PROVE  SenderStep(s) \/ UNCHANGED vars
BY DEF AttemptStep, StartRun, Reads, Collects, ReadFails, Opens, CreateFails, Skips, Mails,
       Rejected, Stamped, StampFails, FinishRun, Dies, CallFails, SenderStep

LEMMA BooksStep == [BooksNext]_<<vars, bookVars>> => [Next]_vars
BY AttemptIsSender DEF BooksNext, Next

\* The books take nothing from the alert and add nothing to it: every theorem
\* about Spec is one about BooksSpec.
THEOREM BooksKeepTheAlert == BooksSpec => Spec
<1>1. BooksInit => Init
  BY DEF BooksInit
<1>2. QED  BY <1>1, BooksStep, PTL DEF BooksSpec, Spec

\* A mail of a sent run listed p.
Reported(p) == \E r \in Runs : Sent(r) /\ p \in mailed[r]

\* Once reported, always reported.
LEMMA ReportedStays ==
  ASSUME Inv, [Next]_vars
  PROVE  \A p : Reported(p) => Reported(p)'
<1> SUFFICES ASSUME NEW r \in Runs, Sent(r)
             PROVE  Sent(r)' /\ mailed'[r] = mailed[r]
  BY DEF Reported
<1>1. /\ runStatus \in [Runs -> RunStatus] /\ mailed \in [Runs -> SUBSET Postings]
  BY DEF Inv, TypeOK, StoreTypeOK
<1>2. CASE UNCHANGED <<runStatus, mailed>>
  BY <1>2 DEF Sent
<1>3. ASSUME NEW s \in Senders, SenderStep(s) PROVE Sent(r)' /\ mailed'[r] = mailed[r]
  <2>1. CASE ReadWatermark(s) \/ ReadPostings(s) \/ MailFails(s) \/ Abandon(s)
    BY <1>2, <2>1
    DEF ReadWatermark, ReadPostings, MailFails, Abandon, Rest, storeVars, runVars, historyVars
  <2>2. CASE OpenRun(s) \/ OpenRunUnanswered(s)
    <3>1. PICK q \in Runs : runStatus[q] = "none" /\ runStatus' = [runStatus EXCEPT ![q] = "pending"]
      BY <2>2 DEF OpenRun, OpenRunUnanswered, CreateAlertRun
    <3>2. UNCHANGED mailed
      BY <2>2 DEF OpenRun, OpenRunUnanswered, historyVars
    <3>3. q # r
      BY <3>1 DEF Sent
    <3>4. QED  BY <1>1, <3>1, <3>2, <3>3 DEF Sent
  <2>3. ASSUME NEW status \in RunStatus, NEW ids \in SUBSET Postings, pc[s] \in HasRun,
               CloseAlertRun(run[s], status, ids), UNCHANGED mailed
        PROVE  Sent(r)' /\ mailed'[r] = mailed[r]
    BY <2>3, CloseFrame
  <2>4. CASE CloseSkipped(s) \/ CloseFailed(s) \/ CloseSent(s)
    <3>1. batch[s] \in SUBSET Postings
      BY DEF Inv, TypeOK
    <3>2. QED  BY <2>3, <2>4, <3>1 DEF CloseSkipped, CloseFailed, CloseSent, RunStatus, HasRun
  <2>5. CASE MailGoesOut(s)
    <3>1. mailed' = [mailed EXCEPT ![run[s]] = batch[s]] /\ UNCHANGED runStatus
      BY <2>5 DEF MailGoesOut, storeVars, runVars
    <3>2. run[s] # r
      BY <2>5 DEF MailGoesOut, Inv, RunOwned, HasRun, Sent
    <3>3. QED  BY <1>1, <3>1, <3>2 DEF Sent
  <2>6. QED  BY <1>3, <2>1, <2>2, <2>4, <2>5 DEF SenderStep
<1>4. CASE Environment
  BY <1>2, <1>4 DEF Environment, Upsert, ArchiveSome, RestoreSome, Dismiss, RemoveCompany, Clock,
     Tick, runVars, senderVars, historyVars
<1>5. CASE UNCHANGED vars
  BY <1>2, <1>5 DEF vars, storeVars, runVars, historyVars
<1>6. QED  BY <1>3, <1>4, <1>5 DEF Next

\* An attempt that is to be called a success found nothing, or what it found
\* has been reported.
AttemptFits(s) ==
    /\ due[s] # "begun" => pc[s] = "idle"
    /\ pc[s] \in {"empty", "skip"} => batch[s] = {}
    /\ pc[s] \in HasRead => found[s] = batch[s]
    /\ due[s] = "succeeded" => \A p \in found[s] : Reported(p)

BooksFit ==
    /\ due \in [Senders -> {"over", "begun", "succeeded", "failed"}]
    /\ found \in [Senders -> SUBSET Postings]
    /\ \A s \in Senders : AttemptFits(s)
    /\ \A p \in claimed : Reported(p)

\* What a step leaves alone in the attempts other than its own.
OthersRest(s) ==
    \A q \in Senders \ {s} :
        /\ pc'[q] = pc[q] /\ batch'[q] = batch[q]
        /\ due'[q] = due[q] /\ found'[q] = found[q]

LEMMA AttemptRests ==
  ASSUME Inv, BooksFit, NEW s \in Senders, AttemptStep(s)
  PROVE  /\ OthersRest(s)
         /\ due' \in [Senders -> {"over", "begun", "succeeded", "failed"}]
         /\ found' \in [Senders -> SUBSET Postings]
<1>1. /\ pc \in [Senders -> Step] /\ batch \in [Senders -> SUBSET Postings]
      /\ due \in [Senders -> {"over", "begun", "succeeded", "failed"}]
      /\ found \in [Senders -> SUBSET Postings] /\ isNew \subseteq Postings
  BY DEF Inv, TypeOK, StoreTypeOK, BooksFit
<1>2. \A q \in Senders \ {s} : pc'[q] = pc[q] /\ batch'[q] = batch[q]
  <2>1. CASE UNCHANGED vars
    BY <2>1 DEF vars, senderVars
  <2>2. CASE SenderStep(s)
    <3>1. CASE Rest(s)
      BY <1>1, <3>1 DEF Rest, Goto
    <3>2. CASE UNCHANGED batch /\ \E step : Goto(s, step)
      BY <1>1, <3>2 DEF Goto
    <3>3. CASE ReadPostings(s)
      BY <1>1, <3>3 DEF ReadPostings, Goto
    <3>4. QED
      BY <2>2, <3>1, <3>2, <3>3
      DEF SenderStep, ReadWatermark, OpenRun, OpenRunUnanswered, CloseSkipped, MailGoesOut,
          MailFails, CloseSent, CloseFailed, Abandon
  <2>3. QED  BY <2>1, <2>2, AttemptIsSender
<1>3. \E to \in {"over", "begun", "succeeded", "failed"} :
          due' = [due EXCEPT ![s] = to] \/ due' = due
  BY DEF AttemptStep, StartRun, Reads, Collects, ReadFails, Opens, CreateFails, Skips, Mails,
         Rejected, Stamped, StampFails, FinishRun, Dies, GoesOn, Exits, Over, bookVars
<1>4. \E ps \in SUBSET Postings : found' = [found EXCEPT ![s] = ps] \/ found' = found
  <2>1. Unalerted(mark[s]) \in SUBSET Postings /\ {} \in SUBSET Postings
    BY <1>1 DEF Unalerted, Eligible
  <2>2. QED
    BY <2>1
    DEF AttemptStep, StartRun, Reads, Collects, ReadFails, Opens, CreateFails, Skips, Mails,
        Rejected, Stamped, StampFails, FinishRun, Dies, GoesOn, Exits, Over, bookVars
<1>5. due' \in [Senders -> {"over", "begun", "succeeded", "failed"}] /\ \A q \in Senders \ {s} : due'[q] = due[q]
  BY <1>1, <1>3
<1>6. found' \in [Senders -> SUBSET Postings] /\ \A q \in Senders \ {s} : found'[q] = found[q]
  BY <1>1, <1>4
<1>7. QED  BY <1>2, <1>5, <1>6 DEF OthersRest

\* An exit other than a success, and the end of an attempt.
LEMMA AttemptIdles ==
  ASSUME NEW s \in Senders, pc'[s] = "idle", due'[s] # "succeeded"
  PROVE  AttemptFits(s)'
BY DEF AttemptFits, HasRead, Step

LEMMA AttemptStays ==
  ASSUME Inv, BooksFit, NEW s \in Senders, AttemptStep(s)
  PROVE  AttemptFits(s)'
<1>1. /\ pc \in [Senders -> Step] /\ batch \in [Senders -> SUBSET Postings]
      /\ due \in [Senders -> {"over", "begun", "succeeded", "failed"}]
      /\ found \in [Senders -> SUBSET Postings] /\ AttemptFits(s)
  BY DEF Inv, TypeOK, BooksFit
<1>2. ASSUME CallFails(s) PROVE pc'[s] = "idle"
  BY <1>1, <1>2 DEF CallFails, Abandon, Rest, Goto, vars, senderVars
<1>3. CASE StartRun(s)
  <2>1. pc'[s] = "idle" /\ due'[s] = "begun"
    BY <1>1, <1>3 DEF StartRun, AttemptFits, vars, senderVars
  <2>2. QED  BY <2>1, AttemptIdles
<1>4. CASE Reads(s)
  <2>1. pc'[s] = "marked" /\ due'[s] = "begun"
    BY <1>1, <1>4 DEF Reads, ReadWatermark, Goto, GoesOn, bookVars
  <2>2. QED  BY <2>1 DEF AttemptFits, HasRead
<1>5. CASE Collects(s)
  <2>1. /\ batch'[s] = Unalerted(mark[s]) /\ found'[s] = Unalerted(mark[s]) /\ due'[s] = "begun"
        /\ pc'[s] = "empty" => Unalerted(mark[s]) = {}
        /\ pc'[s] \in {"empty", "full"}
    BY <1>1, <1>5 DEF Collects, ReadPostings, Goto
  <2>2. QED  BY <2>1 DEF AttemptFits
<1>6. CASE ReadFails(s)
  <2>1. due'[s] = "failed"
    BY <1>1, <1>6 DEF ReadFails, Exits
  <2>2. QED  BY <1>2, <1>6, <2>1, AttemptIdles DEF ReadFails
<1>7. CASE Opens(s)
  <2>1. /\ batch' = batch /\ found' = found /\ due'[s] = "begun"
        /\ pc[s] \in {"empty", "full"}
        /\ pc'[s] = IF pc[s] = "empty" THEN "skip" ELSE "open"
    BY <1>1, <1>7 DEF Opens, OpenRun, Goto, GoesOn, bookVars
  <2>2. QED  BY <1>1, <2>1 DEF AttemptFits, HasRead, Step
<1>8. ASSUME pc[s] \in {"empty", "skip"}, pc'[s] = "idle", found' = found
      PROVE  AttemptFits(s)'
  <2>1. found'[s] = {}
    BY <1>1, <1>8 DEF AttemptFits, HasRead, Step
  <2>2. QED  BY <1>8, <2>1 DEF AttemptFits, HasRead, Step
<1>9. CASE CreateFails(s)
  <2>1. pc'[s] = "idle" /\ found' = found
    BY <1>1, <1>2, <1>9 DEF CreateFails, OpenRunUnanswered, Rest, Goto, Exits
  <2>2. CASE pc[s] = "empty"
    BY <1>8, <2>1, <2>2
  <2>3. CASE pc[s] # "empty"
    <3>1. due'[s] = "failed"
      BY <1>1, <1>9, <2>3 DEF CreateFails, Exits
    <3>2. QED  BY <2>1, <3>1, AttemptIdles
  <2>4. QED  BY <2>2, <2>3
<1>10. CASE Skips(s)
  <2>1. pc'[s] = "idle" /\ found' = found /\ pc[s] = "skip"
    BY <1>1, <1>2, <1>10 DEF Skips, CloseSkipped, Rest, Goto, Exits
  <2>2. QED  BY <1>8, <2>1
<1>11. CASE Mails(s)
  <2>1. /\ batch' = batch /\ found' = found /\ due'[s] = "begun"
        /\ pc[s] = "open" /\ pc'[s] \in {"accepted", "rejected"}
    BY <1>1, <1>11 DEF Mails, MailGoesOut, MailFails, Goto, GoesOn, bookVars
  <2>2. QED  BY <1>1, <2>1 DEF AttemptFits, HasRead, Step
<1>12. CASE Rejected(s)
  <2>1. pc'[s] = "idle" /\ due'[s] = "failed"
    BY <1>1, <1>2, <1>12 DEF Rejected, CloseFailed, Rest, Goto, Exits
  <2>2. QED  BY <2>1, AttemptIdles
<1>13. CASE Stamped(s)
  <2>1. /\ run[s] \in Runs /\ mailed[run[s]] = batch[s] /\ mailed' = mailed
        /\ found[s] = batch[s] /\ found' = found /\ pc'[s] = "idle"
    BY <1>1, <1>13
    DEF Stamped, CloseSent, Rest, Goto, Exits, AttemptFits, HasRead, HasRun, Step, Inv, RunOwned,
        AcceptedMailed
  <2>2. runStatus'[run[s]] = "sent"
    BY <1>13, <2>1 DEF Stamped, CloseSent, CloseAlertRun, Inv, TypeOK, StoreTypeOK
  <2>3. \A p \in found'[s] : Reported(p)'
    BY <2>1, <2>2 DEF Reported, Sent
  <2>4. QED  BY <2>1, <2>3 DEF AttemptFits, HasRead, Step
<1>14. CASE StampFails(s)
  <2>1. pc'[s] = "idle" /\ due'[s] = "failed"
    BY <1>1, <1>2, <1>14 DEF StampFails, CloseSent, Rest, Goto, Exits
  <2>2. QED  BY <2>1, AttemptIdles
<1>15. CASE FinishRun(s) \/ Dies(s)
  <2>1. due'[s] = "over" /\ pc'[s] = "idle"
    BY <1>1, <1>2, <1>15 DEF FinishRun, Dies, Over, AttemptFits, vars, senderVars
  <2>2. QED  BY <2>1, AttemptIdles
<1>16. QED
  BY <1>3, <1>4, <1>5, <1>6, <1>7, <1>9, <1>10, <1>11, <1>12, <1>13, <1>14, <1>15 DEF AttemptStep

LEMMA BooksFitStep == Inv /\ BooksFit /\ [BooksNext]_<<vars, bookVars>> => BooksFit'
<1> SUFFICES ASSUME Inv, BooksFit, [BooksNext]_<<vars, bookVars>> PROVE BooksFit'
  OBVIOUS
<1>1. \A p : Reported(p) => Reported(p)'
  BY BooksStep, ReportedStays
<1>2. ASSUME NEW s \in Senders, AttemptStep(s) PROVE BooksFit'
  <2>1. ASSUME NEW q \in Senders \ {s} PROVE AttemptFits(q)'
    <3>1. AttemptFits(q) /\ OthersRest(s)
      BY <1>2, AttemptRests DEF BooksFit
    <3>2. QED  BY <1>1, <3>1 DEF AttemptFits, OthersRest
  <2>2. \A p \in claimed' : p \in claimed \/ (due[s] = "succeeded" /\ p \in found[s])
    BY <1>2
    DEF AttemptStep, StartRun, Reads, Collects, ReadFails, Opens, CreateFails, Skips, Mails,
        Rejected, Stamped, StampFails, FinishRun, Dies, GoesOn, Exits, bookVars
  <2>3. \A p \in claimed' : Reported(p)'
    BY <1>1, <2>2 DEF BooksFit, AttemptFits
  <2>4. QED  BY <1>2, <2>1, <2>3, AttemptRests, AttemptStays DEF BooksFit
<1>3. CASE UNCHANGED <<senderVars, bookVars>>
  <2>1. UNCHANGED <<pc, batch, due, found, claimed>>
    BY <1>3 DEF senderVars, bookVars
  <2>2. QED  BY <1>1, <2>1 DEF BooksFit, AttemptFits
<1>4. CASE Environment /\ UNCHANGED bookVars
  <2>1. UNCHANGED senderVars
    BY <1>4 DEF Environment, Upsert, ArchiveSome, RestoreSome, Dismiss, RemoveCompany, Clock
  <2>2. QED  BY <1>3, <1>4, <2>1
<1>5. CASE UNCHANGED <<vars, bookVars>>
  BY <1>3, <1>5 DEF vars
<1>6. QED  BY <1>2, <1>4, <1>5 DEF BooksNext

\* No alert that the run history calls a success lost news: what it found is
\* stamped by a sent run whose mail listed it, or its posting is gone.
THEOREM SuccessIsReported == BooksSpec => []SuccessWasReported
<1>1. BooksInit => Inv /\ BooksFit
  BY InitInv DEF BooksInit, BooksFit, AttemptFits, Init, HasRead, Step
<1>2. Inv /\ BooksFit /\ [BooksNext]_<<vars, bookVars>> => Inv' /\ BooksFit'
  BY BooksStep, StepInv, BooksFitStep
<1>3. Inv /\ BooksFit => SuccessWasReported
  BY DEF BooksFit, Reported, Inv, SentIsStamped, SuccessWasReported
<1>4. QED  BY <1>1, <1>2, <1>3, PTL DEF BooksSpec
=============================================================================
