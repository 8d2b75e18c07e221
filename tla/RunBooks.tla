------------------------------ MODULE RunBooks ------------------------------
(***************************************************************************)
(* The books of the alert: the jobboard_runs row that send_alert opens in  *)
(* the agent database (jobboard/db.py, start_run and finish_run) and every *)
(* way out of send_alert with the finish_run of its own, over the platform *)
(* calls of AlertSend.  The two databases have no transaction in common:   *)
(* the platform's answer, the finish_run it leads to and the death of the  *)
(* process between the two are steps of their own.                         *)
(*                                                                         *)
(* A start_run that fails raises out of send_alert and leaves nothing; a   *)
(* finish_run that fails raises too, and is a case of Dies.                *)
(***************************************************************************)
EXTENDS AlertSend

VARIABLES row,     \* status of the row of each sender's last attempt
          due,     \* what its finish_run will say; "begun" before, "over" after
          found,   \* history: the postings the attempt has read
          claimed  \* history: postings found by an attempt whose row says succeeded

bookVars == <<row, due, found, claimed>>

BooksTypeOK ==
    /\ TypeOK
    /\ row \in [Senders -> {"none", "running", "succeeded", "failed"}]
    /\ due \in [Senders -> {"over", "begun", "succeeded", "failed"}]
    /\ found \in [Senders -> SUBSET Postings]
    /\ claimed \subseteq Postings

BooksInit ==
    /\ Init
    /\ row = [s \in Senders |-> "none"]
    /\ due = [s \in Senders |-> "over"]
    /\ found = [s \in Senders |-> {}]
    /\ claimed = {}

\* start_run: a row of status 'running'
StartRun(s) ==
    /\ due[s] = "over"
    /\ row' = [row EXCEPT ![s] = "running"]
    /\ due' = [due EXCEPT ![s] = "begun"]
    /\ UNCHANGED <<vars, found, claimed>>

-----------------------------------------------------------------------------
(* The calls of send_alert, and the exits they lead to.                    *)

GoesOn(s) == due[s] = "begun" /\ UNCHANGED bookVars
Exits(s, status) ==
    /\ due[s] = "begun"
    /\ due' = [due EXCEPT ![s] = status]
    /\ UNCHANGED <<row, found, claimed>>

\* The next platform call fails without an effect.
CallFails(s) == Abandon(s) \/ (pc[s] = "idle" /\ UNCHANGED vars)

Reads(s) == ReadWatermark(s) /\ GoesOn(s)

Collects(s) ==
    /\ ReadPostings(s)
    /\ due[s] = "begun"
    /\ found' = [found EXCEPT ![s] = Unalerted(mark[s])]
    /\ UNCHANGED <<row, due, claimed>>

\* the watermark or the postings cannot be read
ReadFails(s) ==
    /\ pc[s] \in {"idle", "marked"}
    /\ CallFails(s)
    /\ Exits(s, "failed")

Opens(s) == OpenRun(s) /\ GoesOn(s)

\* create_alert_run fails, or its reply is lost: an alert with nothing to say
\* passes over it.
CreateFails(s) ==
    /\ pc[s] \in {"empty", "full"}
    /\ CallFails(s) \/ OpenRunUnanswered(s)
    /\ Exits(s, IF pc[s] = "empty" THEN "succeeded" ELSE "failed")

\* nothing new: whether or not the AlertRun could be closed
Skips(s) ==
    /\ pc[s] = "skip"
    /\ CloseSkipped(s) \/ CallFails(s)
    /\ Exits(s, "succeeded")

Mails(s) == (MailGoesOut(s) \/ MailFails(s)) /\ GoesOn(s)

\* the mail was refused: whether or not the AlertRun could be closed
Rejected(s) ==
    /\ pc[s] = "rejected"
    /\ CloseFailed(s) \/ CallFails(s)
    /\ Exits(s, "failed")

Stamped(s) == CloseSent(s) /\ Exits(s, "succeeded")

\* Mutant: the mail went out, so the run is a success.
StampFailsQuietly(s) ==
    /\ pc[s] = "accepted"
    /\ CloseSent(s) \/ CallFails(s)
    /\ Exits(s, "succeeded")

\* "sent but not stamped": the close fails, or only its reply is lost
StampFails(s) ==
    /\ pc[s] = "accepted"
    /\ CloseSent(s) \/ CallFails(s)
    /\ Exits(s, "failed")

-----------------------------------------------------------------------------
Over(s) ==
    /\ due' = [due EXCEPT ![s] = "over"]
    /\ found' = [found EXCEPT ![s] = {}]

\* finish_run
FinishRun(s) ==
    /\ due[s] \in {"succeeded", "failed"}
    /\ row' = [row EXCEPT ![s] = due[s]]
    /\ claimed' = IF due[s] = "succeeded" THEN claimed \cup found[s] ELSE claimed
    /\ Over(s)
    /\ UNCHANGED vars

\* The process dies, finish_run fails, or something else is raised (the caller
\* swallows it): the row stays 'running', and nothing ever closes it.
Dies(s) ==
    /\ due[s] # "over"
    /\ CallFails(s)
    /\ Over(s)
    /\ UNCHANGED <<row, claimed>>

AttemptStep(s) ==
    \/ StartRun(s) \/ Reads(s) \/ Collects(s) \/ ReadFails(s) \/ Opens(s) \/ CreateFails(s)
    \/ Skips(s) \/ Mails(s) \/ Rejected(s) \/ Stamped(s) \/ StampFails(s)
    \/ FinishRun(s) \/ Dies(s)

BooksNext ==
    \/ \E s \in Senders : AttemptStep(s)
    \/ Environment /\ UNCHANGED bookVars

BooksSpec == BooksInit /\ [][BooksNext]_<<vars, bookVars>>

-----------------------------------------------------------------------------
\* The run history does not call an alert a success that lost news: each posting
\* that an attempt with a 'succeeded' row found is stamped, as long as it exists,
\* whatever was archived, restored, dismissed or stored since, and however the
\* answers of the two databases were lost (alert.py:60-138, db.py:30-70).
SuccessWasReported == \A p \in claimed \cap stored : stamp[p] # NoRun
=============================================================================
