------------------------------ MODULE AlertSend ------------------------------
(***************************************************************************)
(* The alert (agent_server/jobboard/alert.py): send_alert as a process     *)
(* that reads the watermark and the unreported postings, opens an          *)
(* AlertRun, hands the mail to SMTP and closes the run, one platform call  *)
(* per step.  Senders are the jobs that may run it: one scheduler job per  *)
(* configured time, and the manual trigger, none of which excludes         *)
(* another.  The rest of the system (monitor cycles and the UI) writes the *)
(* postings between any two steps.                                         *)
(*                                                                         *)
(* Every platform call can fail, and a call that was executed can still    *)
(* report a failure (the reply times out).  For a call that ends the       *)
(* attempt the second case leaves the tables as a success does and the     *)
(* sender idle as a failure does, so only the first needs an action.       *)
(***************************************************************************)
EXTENDS PostingStore, FiniteSets

CONSTANTS Senders,   \* jobs that run send_alert
          Forces,    \* values of `force or CONFIG.jobboard_alert_heartbeat`
          TxLag,     \* how long an upsert transaction may stay open
          StampCap   \* max_length of AlertRunCloseRequest.posting_ids

ASSUME SenderAssumption ==
    /\ Forces \subseteq BOOLEAN /\ Forces # {}
    /\ TxLag \in Nat
    /\ StampCap \in Nat

VARIABLES pc,      \* where each sender is in send_alert
          mark,    \* window_start it read
          batch,   \* postings it read
          run,     \* AlertRun it opened
          mailed,  \* history: the postings each run's mail listed, if it went out
          blind,   \* history: postings not live in the table when it read
          gap      \* history: postings an alert window passed over unseen

senderVars == <<pc, mark, batch, run>>
historyVars == <<mailed, blind, gap>>
vars == <<storeVars, senderVars, historyVars>>

Step == {"idle", "marked", "empty", "full", "skip", "open", "accepted", "rejected"}
HasRead == Step \ {"idle", "marked"}
HasRun == {"skip", "open", "accepted", "rejected"}

TypeOK ==
    /\ StoreTypeOK
    /\ pc \in [Senders -> Step]
    /\ mark \in [Senders -> Time]
    /\ batch \in [Senders -> SUBSET Postings]
    /\ run \in [Senders -> Runs \cup {NoRun}]
    /\ mailed \in [Runs -> SUBSET Postings]
    /\ blind \in [Senders -> SUBSET Postings]
    /\ gap \subseteq Postings

Init ==
    /\ StoreInit
    /\ pc = [s \in Senders |-> "idle"]
    /\ mark = [s \in Senders |-> 0]
    /\ batch = [s \in Senders |-> {}]
    /\ run = [s \in Senders |-> NoRun]
    /\ mailed = [r \in Runs |-> {}]
    /\ blind = [s \in Senders |-> {}]
    /\ gap = {}

-----------------------------------------------------------------------------
(* send_alert.                                                             *)

Goto(s, step) == pc' = [pc EXCEPT ![s] = step]

\* send_alert returns: its local variables go with it.
Rest(s) ==
    /\ Goto(s, "idle")
    /\ mark' = [mark EXCEPT ![s] = 0]
    /\ batch' = [batch EXCEPT ![s] = {}]
    /\ run' = [run EXCEPT ![s] = NoRun]
    /\ blind' = [blind EXCEPT ![s] = {}]

\* start_run, then window_start = pc.alert_watermark()
ReadWatermark(s) ==
    /\ pc[s] = "idle"
    /\ \E t \in Time : IsWatermark(t) /\ mark' = [mark EXCEPT ![s] = t]
    /\ Goto(s, "marked")
    /\ UNCHANGED <<storeVars, batch, run, historyVars>>

\* postings = pc.unalerted_postings(since=window_start), and the test that
\* separates an alert with nothing to say from one to mail.
ReadPostings(s) ==
    /\ pc[s] = "marked"
    /\ batch' = [batch EXCEPT ![s] = Unalerted(mark[s])]
    /\ blind' = [blind EXCEPT ![s] = Postings \ (stored \ archived)]
    /\ \E force \in Forces :
          Goto(s, IF Unalerted(mark[s]) = {} /\ ~force THEN "empty" ELSE "full")
    /\ UNCHANGED <<storeVars, mark, run, mailed, gap>>

\* run_id = pc.create_alert_run(...), on either path
OpenRun(s) ==
    /\ pc[s] \in {"empty", "full"}
    /\ \E r \in Runs : CreateAlertRun(r) /\ run' = [run EXCEPT ![s] = r]
    /\ Goto(s, IF pc[s] = "empty" THEN "skip" ELSE "open")
    /\ UNCHANGED <<now, companyVars, mark, batch, historyVars>>

\* The row was created but the reply was lost: a run that stays 'pending'.
OpenRunUnanswered(s) ==
    /\ pc[s] \in {"empty", "full"}
    /\ \E r \in Runs : CreateAlertRun(r)
    /\ Rest(s)
    /\ UNCHANGED <<now, companyVars, mailed, gap>>

\* pc.close_alert_run(run_id, status="skipped")
CloseSkipped(s) ==
    /\ pc[s] = "skip"
    /\ CloseAlertRun(run[s], "skipped", {})
    /\ Rest(s)
    /\ UNCHANGED <<now, companyVars, mailed, gap>>

\* mailer.send_mail: the server takes the message.  The session can still
\* break after that, which send_mail reports as MailSendError.
MailGoesOut(s) ==
    /\ pc[s] = "open"
    /\ mailed' = [mailed EXCEPT ![run[s]] = batch[s]]
    /\ Goto(s, "accepted") \/ Goto(s, "rejected")
    /\ UNCHANGED <<storeVars, mark, batch, run, blind, gap>>

\* MailNotConfigured or MailSendError
MailFails(s) ==
    /\ pc[s] = "open"
    /\ Goto(s, "rejected")
    /\ UNCHANGED <<storeVars, mark, batch, run, historyVars>>

\* pc.close_alert_run(run_id, status="sent", posting_ids=...); the platform
\* refuses a list longer than StampCap.
CloseSent(s) ==
    /\ pc[s] = "accepted"
    /\ Cardinality(batch[s]) <= StampCap
    /\ CloseAlertRun(run[s], "sent", batch[s])
    /\ gap' = gap \cup (stored \cap blind[s])
    /\ Rest(s)
    /\ UNCHANGED <<now, companyVars, mailed>>

\* Mutant: a failed run stamps what it tried to mail.
CloseFailedStamps(s) ==
    /\ pc[s] = "rejected"
    /\ CloseAlertRun(run[s], "failed", batch[s])
    /\ Rest(s)
    /\ UNCHANGED <<now, companyVars, mailed, gap>>

\* pc.close_alert_run(run_id, status="failed"), with no posting ids
CloseFailed(s) ==
    /\ pc[s] = "rejected"
    /\ CloseAlertRun(run[s], "failed", {})
    /\ Rest(s)
    /\ UNCHANGED <<now, companyVars, mailed, gap>>

\* The attempt ends without its next platform call taking effect: a read, a
\* create or a close that failed (send_alert returns), or the process died.
Abandon(s) ==
    /\ pc[s] # "idle"
    /\ Rest(s)
    /\ UNCHANGED <<storeVars, mailed, gap>>

SenderStep(s) ==
    \/ ReadWatermark(s) \/ ReadPostings(s)
    \/ OpenRun(s) \/ OpenRunUnanswered(s) \/ CloseSkipped(s)
    \/ MailGoesOut(s) \/ MailFails(s)
    \/ CloseSent(s) \/ CloseFailed(s) \/ Abandon(s)

-----------------------------------------------------------------------------
(* The writers around it: any monitor cycle, any UI action.                *)

\* A committed upsert.  firstSeenAt is the start of its transaction, so it
\* may already lie behind a watermark set while the transaction was open.
Upsert ==
    \E c \in watched, new \in BOOLEAN, t \in Time \ {0} :
        \E ps \in SUBSET {p \in Postings : BoardOf[p] = c} :
            /\ now - TxLag <= t /\ t <= now
            /\ ps # {}
            /\ UpsertPostings(ps, new, t)
            /\ gap' = IF \E r \in Runs : runStatus[r] = "sent" /\ finishedAt[r] >= t
                      THEN gap \cup (ps \ stored) ELSE gap
    /\ UNCHANGED <<now, companyVars, runVars, senderVars, mailed, blind>>

\* archive_missing, archive_stale, archive_over_experience, and the UI's own
ArchiveSome ==
    /\ \E ps \in SUBSET (stored \ archived) : ps # {} /\ ArchivePostings(ps)
    /\ UNCHANGED <<now, companyVars, runVars, senderVars, historyVars>>

\* restore_within_experience and the UI's own
RestoreSome ==
    /\ \E ps \in SUBSET archived : ps # {} /\ RestorePostings(ps)
    /\ UNCHANGED <<now, companyVars, runVars, senderVars, historyVars>>

Dismiss ==
    /\ \E ps \in SUBSET isNew : ps # {} /\ DismissPostings(ps)
    /\ UNCHANGED <<now, companyVars, runVars, senderVars, historyVars>>

RemoveCompany ==
    /\ \E c \in watched : DeleteCompany(c)
    /\ UNCHANGED <<now, runVars, senderVars, historyVars>>

Clock == Tick /\ UNCHANGED <<senderVars, historyVars>>

Environment ==
    Upsert \/ ArchiveSome \/ RestoreSome \/ Dismiss \/ RemoveCompany \/ Clock

Next == (\E s \in Senders : SenderStep(s)) \/ Environment

Spec == Init /\ [][Next]_vars

-----------------------------------------------------------------------------
Sent(r) == runStatus[r] = "sent"

\* A posting is marked as reported only by a run that is 'sent' and whose
\* mail, already accepted by the server, listed it: nothing is taken off the
\* list of news without having reached the inbox (alert.py:18-21).
StampedWasMailed ==
    \A p \in stored : stamp[p] # NoRun => Sent(stamp[p]) /\ p \in mailed[stamp[p]]

\* A run is 'sent' only together with the stamps of all it mailed: no crash,
\* lost reply or other alert leaves a sent run with a listed posting that a
\* later alert would list again (close_alert_run, db.py:1199-1207).
SentIsStamped ==
    \A r \in Runs : Sent(r) => \A p \in mailed[r] \cap stored : stamp[p] # NoRun

\* The report of a posting is final: a later run, an overlapping one, a
\* re-listing of the role or a dismissal never moves it to another run.
StampIsFinal ==
    [][\A p \in stored \cap stored' : stamp[p] # NoRun => stamp'[p] = stamp[p]]_vars

\* The exact extent of what the watermark loses.  An unreported new posting
\* lies behind the watermark only if it was not live in the table when a
\* sent alert read, or its transaction began before a sent alert closed and
\* committed after.  Failed, skipped, forced, abandoned and overlapping
\* attempts lose nothing else.
GapOnlyInFlight ==
    \A p \in isNew :
        (stamp[p] = NoRun /\ \E r \in Runs : Sent(r) /\ finishedAt[r] >= firstSeen[p])
            => p \in gap

\* No posting is listed in the mails of two sent runs.  It takes one sender
\* at a time: schema.prisma:337 promises it without that condition.
SentMailsDisjoint ==
    \A r1, r2 \in Runs : Sent(r1) /\ Sent(r2) /\ r1 # r2 => mailed[r1] \cap mailed[r2] = {}

=============================================================================
