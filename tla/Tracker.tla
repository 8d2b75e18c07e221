------------------------------ MODULE Tracker ------------------------------
(***************************************************************************)
(* The application tracker: JobApplication and Lead rows, the links        *)
(* between them and from postings to applications (backend/db.py,          *)
(* backend/server.py), the Track button of the job board (job-board/       *)
(* actions.ts) and the lead row with its delayed, undoable delete          *)
(* (leads/LeadsRow.tsx).  A step is one database transaction or one event  *)
(* of the page; foreign keys and unique columns are Postgres's.            *)
(***************************************************************************)
CONSTANTS Apps, LeadIds,    \* row ids; an id is drawn once
          Postings,         \* rows of the job board that can be tracked
          Mails, NoMail,    \* e-mail addresses
          Clicks,           \* Track requests under way
          Requests,         \* link requests under way
          None

ASSUME TrackerAssumption ==
    NoMail \notin Mails /\ None \notin Apps \cup LeadIds \cup Postings

VARIABLES apps,       \* id -> the posting it was made from, or None
          leads,      \* id -> row
          used,       \* ids drawn so far
          links,      \* JobApplicationLead
          tracked,    \* posting -> its jobApplicationId
          clicks,     \* Track requests
          requests,   \* link requests
          rows,       \* lead id -> what its row on the page is doing
          slipped     \* postings with overlapping or interrupted Tracks (history)
vars == <<apps, leads, used, links, tracked, clicks, requests, rows, slipped>>

Rows == [mail : Mails \cup {NoMail}, replied : BOOLEAN, stamped : BOOLEAN]
IdleClick == [step |-> "idle", posting |-> None, app |-> None]
IdleRequest == [step |-> "idle", app |-> None, lead |-> None]
Without(f, id) == [x \in DOMAIN f \ {id} |-> f[x]]
With(f, id, row) == [x \in DOMAIN f \cup {id} |-> IF x = id THEN row ELSE f[x]]

Init ==
    /\ apps = [a \in {} |-> None] /\ leads = [l \in {} |-> None]
    /\ used = {} /\ links = {} /\ tracked = [p \in Postings |-> None]
    /\ clicks = [c \in Clicks |-> IdleClick]
    /\ requests = [q \in Requests |-> IdleRequest]
    /\ rows = [l \in LeadIds |-> "shown"] /\ slipped = {}

-----------------------------------------------------------------------------
(* Applications                                                            *)

NewApp(id, posting) ==
    /\ id \notin used
    /\ apps' = With(apps, id, posting)
    /\ used' = used \cup {id}

\* POST /track: by hand or from the extension, not from a posting
InsertApplication(id) ==
    /\ NewApp(id, None)
    /\ UNCHANGED <<leads, links, tracked, clicks, requests, rows, slipped>>

\* links to leads go with the row, postings forget it
DeleteApplicationOnly(id) ==
    /\ id \in DOMAIN apps
    /\ apps' = Without(apps, id)
    /\ UNCHANGED <<leads, used, links, tracked, clicks, requests, rows, slipped>>
DeleteApplication(id) ==
    /\ id \in DOMAIN apps
    /\ apps' = Without(apps, id)
    /\ links' = {k \in links : k[1] # id}
    /\ tracked' = [p \in Postings |-> IF tracked[p] = id THEN None ELSE tracked[p]]
    /\ UNCHANGED <<leads, used, clicks, requests, rows, slipped>>

-----------------------------------------------------------------------------
(* trackPosting: three statements, no transaction around them              *)

Busy(p) == \E c \in Clicks : clicks[c].posting = p
ReadPosting(c, p) ==
    /\ clicks[c] = IdleClick
    /\ tracked[p] = None     \* else "Already in your applications."
    /\ slipped' = IF Busy(p) THEN slipped \cup {p} ELSE slipped
    /\ clicks' = [clicks EXCEPT ![c] = [step |-> "read", posting |-> p, app |-> None]]
    /\ UNCHANGED <<apps, leads, used, links, tracked, requests, rows>>

CreateFromPosting(c, id) ==
    /\ clicks[c].step = "read"
    /\ NewApp(id, clicks[c].posting)
    /\ clicks' = [clicks EXCEPT ![c] = [step |-> "created", posting |-> @.posting, app |-> id]]
    /\ UNCHANGED <<leads, links, tracked, requests, rows, slipped>>

StampPostingNever(c) ==
    /\ clicks[c].step = "created"
    /\ clicks' = [clicks EXCEPT ![c] = IdleClick]
    /\ UNCHANGED <<apps, leads, used, links, tracked, requests, rows, slipped>>
\* the foreign key refuses an application deleted meanwhile
StampPosting(c) ==
    /\ clicks[c].step = "created"
    /\ tracked' = IF clicks[c].app \in DOMAIN apps
                    THEN [tracked EXCEPT ![clicks[c].posting] = clicks[c].app]
                    ELSE tracked
    /\ clicks' = [clicks EXCEPT ![c] = IdleClick]
    /\ UNCHANGED <<apps, leads, used, links, requests, rows, slipped>>

\* the page server dies, or a statement fails
TrackDies(c) ==
    /\ clicks[c] # IdleClick
    /\ slipped' = slipped \cup {clicks[c].posting}
    /\ clicks' = [clicks EXCEPT ![c] = IdleClick]
    /\ UNCHANGED <<apps, leads, used, links, tracked, requests, rows>>

-----------------------------------------------------------------------------
(* Leads                                                                   *)

LeadKeeps == UNCHANGED <<apps, links, tracked, clicks, requests, rows, slipped>>
Taken(mail, but) == mail # NoMail /\ \E l \in DOMAIN leads \ {but} : leads[l].mail = mail

\* a mail that is taken is a 409; a reply is stamped
InsertLead(id, mail, replied) ==
    /\ id \notin used /\ ~Taken(mail, id)
    /\ leads' = With(leads, id, [mail |-> mail, replied |-> replied, stamped |-> replied])
    /\ used' = used \cup {id}
    /\ LeadKeeps

PatchMail(id, mail) ==
    /\ id \in DOMAIN leads /\ ~Taken(mail, id)
    /\ leads' = [leads EXCEPT ![id].mail = mail]
    /\ UNCHANGED used /\ LeadKeeps

PatchRepliedKeepsStamp(id, replied) ==
    /\ id \in DOMAIN leads
    /\ leads' = [leads EXCEPT ![id].replied = replied, ![id].stamped = @ \/ replied]
    /\ UNCHANGED used /\ LeadKeeps
\* the page never sends repliedAt with it
PatchReplied(id, replied) ==
    /\ id \in DOMAIN leads
    /\ leads' = [leads EXCEPT ![id] = [mail |-> @.mail, replied |-> replied, stamped |-> replied]]
    /\ UNCHANGED used /\ LeadKeeps

\* links to applications go with the row
DropLead(id) ==
    /\ leads' = Without(leads, id)
    /\ links' = {k \in links : k[2] # id}
    /\ UNCHANGED <<apps, used, tracked, clicks, requests, slipped>>

\* the row of the page: hidden at once, deleted when the grace time is over
ClickDelete(id) ==
    /\ id \in DOMAIN leads /\ rows[id] \in {"shown", "kept"}
    /\ rows' = [rows EXCEPT ![id] = "hidden"]
    /\ UNCHANGED <<apps, leads, used, links, tracked, clicks, requests, slipped>>

GraceEndsAnyway(id) ==
    /\ rows[id] \in {"hidden", "kept"}
    /\ rows' = [rows EXCEPT ![id] = IF @ = "kept" THEN "late" ELSE "sent"]
    /\ UNCHANGED <<apps, leads, used, links, tracked, clicks, requests, slipped>>
GraceEnds(id) ==
    /\ rows[id] = "hidden"
    /\ rows' = [rows EXCEPT ![id] = "sent"]
    /\ UNCHANGED <<apps, leads, used, links, tracked, clicks, requests, slipped>>

\* the toast lasts as long as the grace time: Undo may come after the request
Undo(id) ==
    /\ rows[id] \in {"hidden", "sent"}
    /\ rows' = [rows EXCEPT ![id] = IF @ = "hidden" THEN "kept" ELSE "late"]
    /\ UNCHANGED <<apps, leads, used, links, tracked, clicks, requests, slipped>>

DeleteLead(id) ==
    /\ rows[id] \in {"sent", "late"}
    /\ DropLead(id)
    /\ rows' = [rows EXCEPT ![id] = "gone"]

\* the request fails and the row is shown again
DeleteFails(id) ==
    /\ rows[id] \in {"sent", "late"}
    /\ rows' = [rows EXCEPT ![id] = "shown"]
    /\ UNCHANGED <<apps, leads, used, links, tracked, clicks, requests, slipped>>

-----------------------------------------------------------------------------
(* POST and DELETE /track/{app}/leads: the lead is looked up, then linked  *)

LookUpLead(q, a, l) ==
    /\ requests[q] = IdleRequest
    /\ a \in used /\ l \in DOMAIN leads     \* else 404
    /\ requests' = [requests EXCEPT ![q] = [step |-> "found", app |-> a, lead |-> l]]
    /\ UNCHANGED <<apps, leads, used, links, tracked, clicks, rows, slipped>>

\* on a pair that is there nothing is done; a row deleted meanwhile is an error
LinkLead(q) ==
    /\ requests[q].step = "found"
    /\ links' = IF requests[q].app \in DOMAIN apps /\ requests[q].lead \in DOMAIN leads
                  THEN links \cup {<<requests[q].app, requests[q].lead>>} ELSE links
    /\ requests' = [requests EXCEPT ![q] = IdleRequest]
    /\ UNCHANGED <<apps, leads, used, tracked, clicks, rows, slipped>>

UnlinkLead(k) ==
    /\ k \in links
    /\ links' = links \ {k}
    /\ UNCHANGED <<apps, leads, used, tracked, clicks, requests, rows, slipped>>

AppStep == \E id \in Apps : InsertApplication(id) \/ DeleteApplication(id)
TrackStep == \E c \in Clicks : \/ \E p \in Postings : ReadPosting(c, p)
                               \/ \E id \in Apps : CreateFromPosting(c, id)
                               \/ StampPosting(c)
                               \/ TrackDies(c)
LeadStep == \E id \in LeadIds :
    \/ \E m \in Mails \cup {NoMail} : PatchMail(id, m) \/ InsertLead(id, m, FALSE)
    \/ \E b \in BOOLEAN : PatchReplied(id, b)
    \/ ClickDelete(id) \/ GraceEnds(id) \/ Undo(id) \/ DeleteLead(id) \/ DeleteFails(id)
LinkStep == \/ \E q \in Requests : LinkLead(q) \/ \E a \in Apps, l \in LeadIds : LookUpLead(q, a, l)
            \/ \E k \in links : UnlinkLead(k)
Next == AppStep \/ TrackStep \/ LeadStep \/ LinkStep
Spec == Init /\ [][Next]_vars

-----------------------------------------------------------------------------
MadeFrom(p) == {a \in DOMAIN apps : apps[a] = p}

TypeOK ==
    /\ DOMAIN apps \subseteq used \cap Apps /\ DOMAIN leads \subseteq used \cap LeadIds
    /\ apps \in [DOMAIN apps -> Postings \cup {None}] /\ leads \in [DOMAIN leads -> Rows]
    /\ used \subseteq Apps \cup LeadIds /\ slipped \subseteq Postings
    /\ tracked \in [Postings -> Apps \cup {None}] /\ links \subseteq Apps \X LeadIds
    /\ clicks \in [Clicks -> [step : {"idle", "read", "created"},
                             posting : Postings \cup {None}, app : Apps \cup {None}]]
    /\ requests \in [Requests -> [step : {"idle", "found"}, app : Apps \cup {None},
                                 lead : LeadIds \cup {None}]]
    /\ rows \in [LeadIds -> {"shown", "hidden", "kept", "sent", "late", "gone"}]

(* actions.ts calls trackPosting idempotent.  It is as long as no second   *)
(* Track of the posting starts while one runs and none is cut off: a       *)
(* posting then never has two applications, whatever is deleted between.   *)
OneApplicationPerPosting ==
    \A p \in Postings \ slipped : \A a, b \in MadeFrom(p) : a = b

(* No link outlives its application or its lead, and no posting points at  *)
(* an application that is gone, also when a row is deleted between the two *)
(* statements of a Track or of a link request.                             *)
NothingDangles ==
    /\ \A k \in links : k[1] \in DOMAIN apps /\ k[2] \in DOMAIN leads
    /\ \A p \in Postings : tracked[p] \in DOMAIN apps \cup {None}

(* The reply date the page shows belongs to a lead that replied: ticking   *)
(* stamps it, unticking clears it, in whatever order they come.            *)
RepliedIsStamped == \A l \in DOMAIN leads : leads[l].replied = leads[l].stamped

(* A delete that was undone before its grace time was over never reaches   *)
(* the row again.  (An Undo after that comes too late, LeadsRow.tsx:113.)  *)
UndoneInTimeIsKept ==
    [][\A l \in LeadIds : rows[l] = "kept" =>
          rows'[l] \in {"kept", "hidden"} /\ l \in DOMAIN leads']_vars
=============================================================================
