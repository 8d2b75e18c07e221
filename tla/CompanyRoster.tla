--------------------------- MODULE CompanyRoster ---------------------------
(***************************************************************************)
(* The roster of a company (agents/roster.py): the people Hunter lists,    *)
(* filtered by role and by name, each given to the contact agent on a      *)
(* small thread pool under a deadline.  The request that asked for it      *)
(* waits; threads that are still at work when it is answered run on.       *)
(***************************************************************************)
EXTENDS ContactSearch, Sequences, SequencesExt

CONSTANTS Listings,  \* what Hunter may list: sequences of people
          Relevant,  \* people whose position holds a role keyword
          NameKey,   \* [people -> their _dedup_key, or None]
          MaxPeople, \* max_people
          Workers    \* ROSTER_CONCURRENCY

People == Seekers \ Direct
ASSUME RosterAssumption ==
    /\ Listings \subseteq Seq(People) /\ Relevant \subseteq People
    /\ DOMAIN NameKey = People
    /\ MaxPeople \in Nat /\ Workers \in Nat \ {0}

VARIABLES main,     \* the step of find_roster
          future,   \* the future of each survivor
          queue,    \* submitted and not started
          batch,    \* completed futures the request is going through
          listed    \* result.people: [who, bare]
rosterVars == <<main, future, queue, batch, listed>>
vars == <<contactVars, rosterVars>>

Init ==
    /\ ContactInit
    /\ main = "enumerate" /\ future = [p \in {} |-> "none"]
    /\ queue = <<>> /\ batch = {} /\ listed = <<>>

-----------------------------------------------------------------------------
(* The list                                                                *)

\* role first, then the first of each name
Kept(listing) ==
    LET named == {i \in DOMAIN listing : listing[i] \in Relevant /\ NameKey[listing[i]] # None}
    IN  {i \in named : \A j \in named : NameKey[listing[j]] = NameKey[listing[i]] => i <= j}
InOrder(places) ==
    {at \in SetToSeqs(places) : \A k, l \in DOMAIN at : k < l => at[k] < at[l]}
\* in the order of the list, up to the cost guard
Survivors(listing) ==
    {[k \in 1 .. (IF Len(at) < MaxPeople THEN Len(at) ELSE MaxPeople) |-> listing[at[k]]] :
       at \in InOrder(Kept(listing))}

Bare(p) == [who |-> p, bare |-> TRUE]
AllBare(people) == [i \in DOMAIN people |-> Bare(people[i])]

\* an empty list and an error answer alike; without an LLM client nobody is
\* looked up
Enumerate ==
    /\ main = "enumerate"
    /\ \E listing \in Listings \cup {<<>>} : \E people \in Survivors(listing) :
          \/ /\ people # <<>> /\ main' = "wait"
             /\ future' = [p \in ToSet(people) |-> "pending"]
             /\ queue' = people /\ UNCHANGED listed
          \/ /\ main' = "answered" /\ listed' = AllBare(people)
             /\ future' = [p \in ToSet(people) |-> "dropped"] /\ UNCHANGED queue
    /\ UNCHANGED <<contactVars, batch>>

-----------------------------------------------------------------------------
(* The pool                                                                *)

Running == {p \in DOMAIN future : future[p] = "running"}
SetFuture(p, v) == future' = [future EXCEPT ![p] = v]

StartNext ==
    /\ queue # <<>> /\ Cardinality(Running) < Workers
    /\ SetFuture(Head(queue), "running") /\ queue' = Tail(queue)
    /\ Begins(Head(queue))
    /\ UNCHANGED <<answer, reply, main, batch, listed>>
Search(p) == p \in Running /\ ContactStep(p) /\ UNCHANGED rosterVars
Complete(p) ==
    /\ p \in Running /\ agent[p].at = "done"
    /\ SetFuture(p, "completed")
    /\ UNCHANGED <<contactVars, main, queue, batch, listed>>
\* an entry the lookup cannot work with
Raise(p) ==
    /\ p \in Running /\ agent[p].at = "asks" /\ agent[p].calls = 0
    /\ SetFuture(p, "raised")
    /\ agent' = [agent EXCEPT ![p] = Off]
    /\ UNCHANGED <<answer, reply, main, queue, batch, listed>>

-----------------------------------------------------------------------------
(* The request                                                             *)

Resolved == {p \in DOMAIN future : future[p] \in {"completed", "raised"}}
Unlisted == {p \in DOMAIN future : \A i \in DOMAIN listed : listed[i].who # p}

\* wait() returns what is done; it is listed to the end before time is looked at
Collect ==
    /\ main = "wait" /\ batch = {} /\ Unlisted \cap Resolved # {}
    /\ batch' = Unlisted \cap Resolved
    /\ UNCHANGED <<contactVars, main, future, queue, listed>>
ListOne ==
    /\ main = "wait"
    /\ \E p \in batch :
          /\ listed' = Append(listed, [who |-> p, bare |-> future[p] = "raised"])
          /\ batch' = batch \ {p}
    /\ UNCHANGED <<contactVars, main, future, queue>>

CancelNothing == UNCHANGED <<future, queue>>
CancelAndJoin ==
    /\ Running = {} /\ queue' = <<>>
    /\ future' = [p \in DOMAIN future |-> IF p \in ToSet(queue) THEN "dropped" ELSE future[p]]
\* shutdown(wait=False, cancel_futures=True)
CancelQueued ==
    /\ future' = [p \in DOMAIN future |-> IF p \in ToSet(queue) THEN "dropped" ELSE future[p]]
    /\ queue' = <<>>
OnlyResolved == Unlisted \cap Resolved
LeftOver == Unlisted
\* everyone is listed, or the time is over: whoever is left is listed without
\* an address, a result that has just come in included
Answer ==
    /\ main = "wait" /\ batch = {}
    /\ main' = "answered"
    /\ CancelQueued
    /\ \E rest \in SetToSeqs(LeftOver) : listed' = listed \o AllBare(rest)
    /\ UNCHANGED <<contactVars, batch>>

RequestStep == Enumerate \/ Collect \/ ListOne \/ Answer
PoolStep == StartNext \/ \E p \in People : Search(p) \/ Complete(p) \/ Raise(p)
DirectCall == \E s \in Direct : (DirectStep(s) \/ ContactStep(s)) /\ UNCHANGED rosterVars
Next == RequestStep \/ PoolStep \/ DirectCall

\* the request goes on and its deadline comes; an agent may hang
Spec == Init /\ [][Next]_vars /\ WF_vars(RequestStep)

-----------------------------------------------------------------------------
TypeOK ==
    /\ ContactTypeOK
    /\ main \in {"enumerate", "wait", "answered"}
    /\ DOMAIN future \subseteq People /\ batch \subseteq DOMAIN future
    /\ \A p \in DOMAIN future :
          future[p] \in {"pending", "running", "completed", "raised", "dropped"}
    /\ queue \in Seq(DOMAIN future)
    /\ listed \in Seq([who : DOMAIN future, bare : BOOLEAN])

\* roster.py:21-22: the answer lists everyone who passed the filters, once,
\* whoever failed, was late, or came in while the time ran out.
EveryoneIsListedOnce ==
    /\ \A i, j \in DOMAIN listed : listed[i].who = listed[j].who => i = j
    /\ main = "answered" => Unlisted = {}

\* The cost guard outlives the request: nobody who was still waiting for a
\* thread is looked up once the roster was answered.
NoSearchBeginsLate ==
    [][main = "answered" => \A p \in People : agent[p].at = "off" => agent'[p].at = "off"]_vars

\* A roster is answered though an agent never returns.
RosterAnswers == main = "wait" ~> main = "answered"
=============================================================================
