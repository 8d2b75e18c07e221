----------------------------- MODULE HuntEvents -----------------------------
(***************************************************************************)
(* How a hunt is watched: the request that starts it and the event stream  *)
(* over its audit rows (api/app.py), the two queries the stream polls      *)
(* (db/agent_db.py), the writes of run_pipeline they race with             *)
(* (orchestrator/loop.py), and the panel that reads the stream             *)
(* (leads/HuntPanel.tsx).  What a hunt does is LeadPipeline's subject; here *)
(* it is a writer of audit rows that ends one way or another.              *)
(***************************************************************************)
EXTENDS Naturals, Sequences, FiniteSets, SequencesExt

CONSTANTS Hunts,     \* job ids
          Panels,    \* browser tabs with a HuntPanel
          PageLimit, \* limit of audit_since
          MaxRows,   \* audit rows, a bound
          None

ASSUME EventsAssumption ==
    PageLimit \in Nat \ {0} /\ MaxRows \in Nat /\ None \notin Hunts

VARIABLES up,      \* the agent process runs
          audit,   \* audit_traces: the hunt of each row, by id
          status,  \* jobs.status, "none" before the row exists
          runner,  \* where run_pipeline stands
          stream,  \* the event stream of each panel
          panel    \* what each panel knows: its hunt, the status and the rows shown
eventsVars == <<up, audit, status, runner, stream, panel>>

Terminal == {"succeeded", "failed", "stopped"}
Statuses == Terminal \cup {"none", "pending", "running"}
Closed == [at |-> "closed", last |-> 0]
Blank == [hunt |-> None, status |-> "none", shown |-> <<>>]

EventsInit ==
    /\ up = TRUE /\ audit = <<>>
    /\ status = [h \in Hunts |-> "none"] /\ runner = [h \in Hunts |-> "off"]
    /\ stream = [p \in Panels |-> Closed] /\ panel = [p \in Panels |-> Blank]

RowsOf(h) == {i \in DOMAIN audit : audit[i] = h}
NewestPage(h, last) ==
    {i \in RowsOf(h) : i > last /\ Cardinality({j \in RowsOf(h) : j >= i}) <= PageLimit}
\* the rows of the hunt after the last one seen, a page of them
Page(h, last) ==
    {i \in RowsOf(h) : i > last /\ Cardinality({j \in RowsOf(h) : last < j /\ j <= i}) <= PageLimit}
\* audit_since: the page, oldest first
Since(h, last) ==
    {rows \in SetToSeqs(Page(h, last)) : \A k, l \in DOMAIN rows : k < l => rows[k] < rows[l]}

-----------------------------------------------------------------------------
(* The hunt                                                                *)

Moves(h, from, to) == /\ up /\ runner[h] = from
                      /\ runner' = [runner EXCEPT ![h] = to]
Mark(h, value) == status' = [status EXCEPT ![h] = value]
Trace(h) == Len(audit) < MaxRows /\ audit' = Append(audit, h)

Begin(h) == Moves(h, "queued", "running") /\ Mark(h, "running") /\ UNCHANGED audit
Work(h) == Moves(h, "running", "running") /\ Trace(h) /\ UNCHANGED status
\* the pipeline_done row, then the status
Conclude(h) == Moves(h, "running", "concluding") /\ Trace(h) /\ UNCHANGED status
Succeed(h) == Moves(h, "concluding", "over") /\ Mark(h, "succeeded") /\ UNCHANGED audit
\* the status, then the pipeline_error row
Raise(h) ==
    /\ \E from \in {"queued", "running", "concluding"} : Moves(h, from, "raised")
    /\ UNCHANGED <<audit, status>>
MarkFailed(h) == Moves(h, "raised", "reporting") /\ Mark(h, "failed") /\ UNCHANGED audit
ReportError(h) == Moves(h, "reporting", "over") /\ Trace(h) /\ UNCHANGED status
\* a write that fails here is only logged
GiveUp(h) ==
    /\ \E from \in {"raised", "reporting"} : Moves(h, from, "over")
    /\ UNCHANGED <<audit, status>>

HuntStep(h) ==
    /\ \/ Begin(h) \/ Work(h) \/ Conclude(h) \/ Succeed(h)
       \/ Raise(h) \/ MarkFailed(h) \/ ReportError(h) \/ GiveUp(h)
    /\ UNCHANGED <<up, stream, panel>>

-----------------------------------------------------------------------------
(* The panel and its stream                                                *)

Active(p) == panel[p].hunt # None /\ panel[p].status \notin Terminal
Opened == [at |-> "rows", last |-> 0]

\* startHunt: the job row and the background task; an answer that is lost
\* leaves a hunt that runs and a panel that does not know it
StartHunt(p, h) ==
    /\ up /\ ~Active(p) /\ status[h] = "none"
    /\ Mark(h, "pending") /\ runner' = [runner EXCEPT ![h] = "queued"]
    /\ \/ /\ panel' = [panel EXCEPT ![p] = [Blank EXCEPT !.hunt = h, !.status = "pending"]]
          /\ stream' = [stream EXCEPT ![p] = Opened]
       \/ /\ panel' = [panel EXCEPT ![p].shown = <<>>]
          /\ UNCHANGED stream
    /\ UNCHANGED <<up, audit>>

\* another client opens the stream of any hunt, a job id that does not exist
\* included
Watch(p, h) ==
    /\ up /\ ~Active(p)
    /\ panel' = [panel EXCEPT ![p] = [Blank EXCEPT !.hunt = h]]
    /\ stream' = [stream EXCEPT ![p] = Opened]
    /\ UNCHANGED <<up, audit, status, runner>>

ReadRows(p) ==
    /\ stream[p].at = "rows"
    /\ \E rows \in Since(panel[p].hunt, stream[p].last) :
       /\ panel' = [panel EXCEPT ![p].shown = @ \o rows]
       /\ stream' = [stream EXCEPT ![p] =
             [at |-> "status", last |-> IF rows = <<>> THEN @.last ELSE Last(rows)]]
    /\ UNCHANGED <<up, audit, status, runner>>

EndsStreamOnSuccess(s) == s \in {"none", "succeeded", "stopped"}
EndsStream(s) == s = "none" \/ s \in Terminal

\* an `error` event when the job is unknown, else a `status` event, and `done`
\* when it is terminal
ReadStatus(p) ==
    LET s == status[panel[p].hunt] IN
    /\ stream[p].at = "status"
    /\ panel' = [panel EXCEPT ![p].status = s]
    /\ stream' = [stream EXCEPT ![p] = IF EndsStream(s) THEN Closed ELSE [@ EXCEPT !.at = "rows"]]
    /\ UNCHANGED <<up, audit, status, runner>>

\* onerror: the panel closes the stream and does not come back to it
LoseStream(p) ==
    /\ stream[p].at # "closed"
    /\ stream' = [stream EXCEPT ![p] = Closed]
    /\ UNCHANGED <<up, audit, status, runner, panel>>

ReloadPage(p) ==
    /\ panel[p] # Blank
    /\ panel' = [panel EXCEPT ![p] = Blank] /\ stream' = [stream EXCEPT ![p] = Closed]
    /\ UNCHANGED <<up, audit, status, runner>>

-----------------------------------------------------------------------------
(* The process.  Nothing resumes or closes a hunt at start-up.             *)

AgentDies ==
    /\ up /\ up' = FALSE
    /\ runner' = [h \in Hunts |-> IF runner[h] = "off" THEN "off" ELSE "over"]
    /\ stream' = [p \in Panels |-> Closed]
    /\ UNCHANGED <<audit, status, panel>>
AgentStarts == ~up /\ up' = TRUE /\ UNCHANGED <<audit, status, runner, stream, panel>>

StreamStep(p) == ReadRows(p) \/ ReadStatus(p)
EventsNext ==
    \/ \E h \in Hunts : HuntStep(h)
    \/ \E p \in Panels : StreamStep(p) \/ LoseStream(p) \/ ReloadPage(p)
    \/ \E p \in Panels, h \in Hunts : StartHunt(p, h) \/ Watch(p, h)
    \/ AgentDies \/ AgentStarts

\* threads and the event loop go on with what they began; nothing is assumed
\* of the user, the network or the life of the process
EventsSpec ==
    /\ EventsInit /\ [][EventsNext]_eventsVars
    /\ \A h \in Hunts : WF_eventsVars(HuntStep(h))
    /\ \A p \in Panels : WF_eventsVars(StreamStep(p))

-----------------------------------------------------------------------------
EventsTypeOK ==
    /\ up \in BOOLEAN /\ audit \in Seq(Hunts) /\ Len(audit) <= MaxRows
    /\ status \in [Hunts -> Statuses]
    /\ runner \in [Hunts -> {"off", "queued", "running", "concluding", "raised", "reporting", "over"}]
    /\ stream \in [Panels -> [at : {"closed", "rows", "status"}, last : 0 .. MaxRows]]
    /\ panel \in [Panels -> [hunt : Hunts \cup {None}, status : Statuses,
                             shown : Seq(1 .. MaxRows)]]

\* agent_db.py:425-426: a panel shows the rows of its hunt in order, each once
\* and with no gap, however the polls fall between the writes of several hunts
\* and wherever a page of them ends.
ShownIsAPrefix ==
    \A p \in Panels : panel[p].hunt # None =>
        LET shown == panel[p].shown IN
        /\ \A k, l \in DOMAIN shown : k < l => shown[k] < shown[l]
        /\ ToSet(shown) \subseteq RowsOf(panel[p].hunt)
        /\ \A i \in RowsOf(panel[p].hunt), k \in DOMAIN shown :
              i <= shown[k] => i \in ToSet(shown)

Orphaned(h) == runner[h] = "over" /\ status[h] \notin Terminal

\* A stream that was opened ends, with `done` or with the connection, unless
\* the hunt's process or its last write was lost: then the row says "running"
\* for ever and the stream polls for ever.
StreamEnds ==
    \A p \in Panels :
        stream[p].at # "closed" ~>
            (stream[p].at = "closed" \/ Orphaned(panel[p].hunt))
=============================================================================
