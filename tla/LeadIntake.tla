----------------------------- MODULE LeadIntake -----------------------------
(***************************************************************************)
(* The platform's lead intake: the domain-keyed rows of the Lead table,    *)
(* the person-leads of founders, and the handlers of POST leads/upsert     *)
(* (backend/server.py, backend/db.py: platform_upsert_lead).  A handler    *)
(* runs in a worker thread of its own, in two transactions, and does not   *)
(* stop when its client stops waiting.                                     *)
(*                                                                         *)
(* What a lead says is represented by the outbox row it came from: rows    *)
(* are numbered in the order in which they were researched.                *)
(***************************************************************************)
EXTENDS Integers

CONSTANTS Domains,   \* normalised root domains
          MaxRows,   \* bound on the outbox rows
          EmailOf,   \* [Domains -> Emails \cup {NoEmail}]: founder_email of the research
          NoEmail,   \* founder_email is None
          Contacts,  \* e-mail addresses of leads the user entered by hand
          Led,       \* domains whose research names a founder
          Slots,     \* worker threads: handlers at work at the same time
          Callers,   \* processes of the agent server that push leads
          NoCaller,  \* the client has stopped waiting
          NoDomain   \* no request in the slot

ASSUME IntakeAssumption ==
    /\ MaxRows \in Nat
    /\ NoEmail \notin Contacts
    /\ Led \subseteq Domains
    /\ NoCaller \notin Callers
    /\ NoDomain \notin Domains

VARIABLES lead,      \* the row a domain's lead last took its content from, 0 without a lead
          founders,  \* person-leads that the look-up of a domain's founder matches
          handler,   \* what each worker thread is doing
          applied    \* history: rows the platform has stored at some time

intakeVars == <<lead, founders, handler, applied>>

Rows == 1..MaxRows

HandlerSteps == {"free", "company", "find", "insert", "ok", "refused"}
Handler == [at : HandlerSteps, row : Rows \cup {0}, domain : Domains \cup {NoDomain},
            client : Callers \cup {NoCaller}]
Free == [at |-> "free", row |-> 0, domain |-> NoDomain, client |-> NoCaller]

IntakeTypeOK ==
    /\ lead \in [Domains -> Rows \cup {0}]
    /\ founders \in [Domains -> Nat]
    /\ handler \in [Slots -> Handler]
    /\ applied \subseteq Rows

IntakeInit ==
    /\ lead = [d \in Domains |-> 0]
    /\ founders = [d \in Domains |-> 0]
    /\ handler = [s \in Slots |-> Free]
    /\ applied = {}

Serving(s, step) == handler[s].at = step
GoOn(s, step) == handler' = [handler EXCEPT ![s].at = step]

\* The request of client x for outbox row r about domain d arrives.
Receive(s, r, d, x) ==
    /\ Serving(s, "free")
    /\ handler' = [handler EXCEPT ![s] = [at |-> "company", row |-> r, domain |-> d,
                                         client |-> x]]
    /\ UNCHANGED <<lead, founders, applied>>

\* UNIQUE (email): the address is on another lead.
EmailTaken(d) ==
    /\ EmailOf[d] # NoEmail
    /\ \/ EmailOf[d] \in Contacts
       \/ \E other \in Domains \ {d} : lead[other] # 0 /\ EmailOf[other] = EmailOf[d]

\* First transaction: INSERT ... ON CONFLICT (domain) DO UPDATE.  Only the
\* conflict on the domain is absorbed; one on the e-mail is a 500.
UpsertCompany(s) ==
    LET me == handler[s] IN
    /\ Serving(s, "company")
    /\ IF EmailTaken(me.domain)
       THEN GoOn(s, "refused") /\ UNCHANGED <<lead, applied>>
       ELSE /\ lead' = [lead EXCEPT ![me.domain] = me.row]
            /\ applied' = applied \cup {me.row}
            /\ GoOn(s, IF me.domain \in Led THEN "find" ELSE "ok")
    /\ UNCHANGED founders

\* Mutant: the look-up of an existing founder row is left out.
InsertBlindly(s) ==
    /\ Serving(s, "find")
    /\ GoOn(s, "insert")
    /\ UNCHANGED <<lead, founders, applied>>

\* Second transaction: SELECT the founder's row; when there is one it is
\* refreshed, and the request is done.
FindFounder(s) ==
    /\ Serving(s, "find")
    /\ GoOn(s, IF founders[handler[s].domain] > 0 THEN "ok" ELSE "insert")
    /\ UNCHANGED <<lead, founders, applied>>

\* Mutant: one transaction for both; a founder that fails to insert undoes the
\* company's row, and the reply is sent all the same.
InsertAborts(s) ==
    LET me == handler[s] IN
    /\ Serving(s, "insert")
    /\ \/ /\ founders' = [founders EXCEPT ![me.domain] = @ + 1]
          /\ UNCHANGED <<lead, applied>>
       \/ /\ lead' = [lead EXCEPT ![me.domain] = 0]
          /\ applied' = applied \ {me.row}
          /\ UNCHANGED founders
    /\ GoOn(s, "ok")

\* ... or INSERT one.  A failure of this transaction is logged and dropped.
InsertFounder(s) ==
    /\ Serving(s, "insert")
    /\ \/ founders' = [founders EXCEPT ![handler[s].domain] = @ + 1]
       \/ UNCHANGED founders
    /\ GoOn(s, "ok")
    /\ UNCHANGED <<lead, applied>>

\* Nobody waits for the reply any more.
ReplyToNobody(s) ==
    /\ Serving(s, "ok") \/ Serving(s, "refused")
    /\ handler[s].client = NoCaller
    /\ handler' = [handler EXCEPT ![s] = Free]
    /\ UNCHANGED <<lead, founders, applied>>

HandlerStep(s) ==
    UpsertCompany(s) \/ FindFounder(s) \/ InsertFounder(s) \/ ReplyToNobody(s)

\* The platform's process is restarted, or its database goes away, between
\* two transactions.
HandlerDies(s) ==
    /\ ~Serving(s, "free")
    /\ handler' = [handler EXCEPT ![s] = Free]
    /\ UNCHANGED <<lead, founders, applied>>

\* A 500 from the first transaction.
UpsertFails(s) ==
    /\ Serving(s, "company")
    /\ GoOn(s, "refused")
    /\ UNCHANGED <<lead, founders, applied>>

\* The client reads the reply / clients give up on it.
TakeReply(s, x, answer) ==
    /\ handler[s].client = x
    /\ Serving(s, answer)
    /\ handler' = [handler EXCEPT ![s] = Free]
    /\ UNCHANGED <<lead, founders, applied>>

HangUp(xs) ==
    /\ handler' = [s \in Slots |-> IF handler[s].client \in xs
                                   THEN [handler[s] EXCEPT !.client = NoCaller]
                                   ELSE handler[s]]
    /\ UNCHANGED <<lead, founders, applied>>

\* DELETE leads/{id}
DeleteLead(d) ==
    /\ lead[d] # 0
    /\ lead' = [lead EXCEPT ![d] = 0]
    /\ UNCHANGED <<founders, handler, applied>>

\* ... of a person-lead, from the Outreach tab; an edit after which the look-up
\* no longer matches the row (its name, LinkedIn URL and company) is the same here
DeleteFounder(d) ==
    /\ founders[d] > 0
    /\ founders' = [founders EXCEPT ![d] = @ - 1]
    /\ UNCHANGED <<lead, handler, applied>>

\* platform_leads_known_domains
Known(ds) == {d \in ds : lead[d] # 0}
=============================================================================
