------------------------ MODULE CompanyRoster_proofs ------------------------
(* Proofs of the properties of CompanyRoster. *)
EXTENDS CompanyRoster, FiniteSetTheorems, TLAPS

Row(S) == [who : S, bare : BOOLEAN]
FutureStates == {"pending", "running", "completed", "raised", "dropped"}

(* What TypeOK says of the request and the pool.                           *)
RosterTypeOK ==
    /\ main \in {"enumerate", "wait", "answered"}
    /\ DOMAIN future \subseteq People /\ batch \subseteq DOMAIN future
    /\ \A p \in DOMAIN future : future[p] \in FutureStates
    /\ queue \in Seq(DOMAIN future)
    /\ listed \in Seq(Row(DOMAIN future))

(* Nobody is listed twice over: what the request is about to list is not   *)
(* listed.  Before it has a list there is nobody, and once it is answered  *)
(* nobody waits for a thread.                                              *)
Phases ==
    /\ batch \subseteq Unlisted /\ IsFiniteSet(DOMAIN future)
    /\ main = "enumerate" => DOMAIN future = {} /\ listed = <<>> /\ batch = {}
    /\ main = "answered" => queue = <<>> /\ batch = {}

IInv == ContactTypeOK /\ RosterTypeOK /\ Phases /\ EveryoneIsListedOnce

-----------------------------------------------------------------------------
(* The contact agent                                                       *)

Local == [at : {"off", "asks", "done", "replied"}, calls : 0 .. (ToolCap + MaxBatch),
          found : SUBSET Findings]

(* Whatever an agent decides is an answer.                                 *)
LEMMA DecisionsAreAnswers ==
    ASSUME NEW found \in SUBSET Findings
    PROVE  BestOf(found) \subseteq Answers /\ Decisions(found) \subseteq Answers
  <1>1. Nobody \in Answers /\ Refusal \in Answers
    BY DEF Nobody, Refusal, Answers
  <1>2. BestOf(found) \subseteq Answers
    <2>1. \A c \in found : [email |-> c.email, score |-> c.score, by |-> "tools"] \in Answers
      BY DEF Findings, Answers
    <2> HIDE DEF Answers
    <2> QED
      BY <1>1, <2>1 DEF BestOf
  <1>3. \A a \in Addresses, s \in Scores : [email |-> a, score |-> s, by |-> "model"] \in Answers
    BY DEF Answers
  <1> QED
    BY <1>1, <1>2, <1>3 DEF Decisions

(* What turns up in a turn of tool calls has the shape of a finding.       *)
LEMMA TurnupsAreFindings == ASSUME NEW X \in Turnups PROVE X \subseteq Findings
  BY DEF Turnups, Snippets, Probes, Lookups, Findings

(* A step of an agent keeps the types, and no other agent's is changed.    *)
LEMMA ContactStepKeeps ==
    ASSUME ContactTypeOK, NEW s \in Seekers, ContactStep(s)
    PROVE  /\ ContactTypeOK' /\ agent[s].at = "asks"
           /\ \A q \in Seekers : q # s => agent'[q] = agent[q]
  <1> USE ContactAssumption DEF ContactTypeOK
  <1>1. agent[s] \in Local /\ agent \in [Seekers -> Local]
    BY DEF Local
  <1>2. ASSUME AsksTools(s)
        PROVE  agent' \in [Seekers -> Local] /\ \A q \in Seekers : q # s => agent'[q] = agent[q]
    <2>1. PICK k \in 1 .. MaxBatch, X \in Turnups :
            agent' = [agent EXCEPT ![s].calls = @ + k, ![s].found = @ \cup X]
      BY <1>2 DEF AsksTools
    <2> DEFINE local == [agent[s] EXCEPT !.calls = @ + k, !.found = @ \cup X]
    <2>2. agent' = [agent EXCEPT ![s] = local]
      BY <1>1, <2>1
    <2>3. agent[s].calls + k \in 0 .. (ToolCap + MaxBatch)
      BY <1>1, <1>2 DEF AsksTools, Local
    <2>4. agent[s].found \cup X \subseteq Findings
      BY <1>1, TurnupsAreFindings DEF Local
    <2>5. local \in Local
      BY <1>1, <2>3, <2>4 DEF Local
    <2> HIDE DEF local
    <2> QED
      BY <1>1, <2>2, <2>5
  <1>3. ASSUME NEW a \in Answers, Returns(s, a)
        PROVE  ContactTypeOK' /\ \A q \in Seekers : q # s => agent'[q] = agent[q]
    <2> DEFINE done == [Off EXCEPT !.at = "done"]
    <2>1. done \in Local
      BY DEF Off, Local
    <2> HIDE DEF done
    <2>2. agent' \in [Seekers -> Local] /\ \A q \in Seekers : q # s => agent'[q] = agent[q]
      BY <1>1, <1>3, <2>1 DEF Returns, done
    <2>3. answer' \in [Seekers -> Answers] /\ reply' \in [Direct -> Answers]
      BY <1>3 DEF Returns
    <2> QED
      BY <2>2, <2>3 DEF Local
  <1>4. CASE AsksTools(s)
    BY <1>2, <1>4 DEF AsksTools, Local
  <1>5. CASE Decides(s) \/ FallsBack(s)
    BY <1>1, <1>3, <1>5, DecisionsAreAnswers DEF Decides, FallsBack, Local
  <1> QED
    BY <1>4, <1>5 DEF ContactStep

(* So does a step of verify_email.                                         *)
LEMMA DirectStepKeeps ==
    ASSUME ContactTypeOK, NEW s \in Direct, DirectStep(s)
    PROVE  ContactTypeOK' /\ \A q \in Seekers : q # s => agent'[q] = agent[q]
  <1> USE ContactAssumption DEF ContactTypeOK
  <1>1. s \in Seekers /\ agent[s] \in Local /\ agent \in [Seekers -> Local]
    BY DEF Local
  <1>2. CASE AskDirectly(s)
    <2>1. [Off EXCEPT !.at = "asks"] \in Local
      BY DEF Off, Local
    <2> QED
      BY <1>1, <1>2, <2>1 DEF AskDirectly, Begins, Local
  <1>3. ASSUME agent' = [agent EXCEPT ![s].at = "replied"]
        PROVE  agent' \in [Seekers -> Local] /\ \A q \in Seekers : q # s => agent'[q] = agent[q]
    <2>1. [agent[s] EXCEPT !.at = "replied"] \in Local
      BY <1>1 DEF Local
    <2> QED
      BY <1>1, <1>3, <2>1
  <1>4. CASE ReplyWithAnswer(s)
    BY <1>1, <1>3, <1>4 DEF ReplyWithAnswer, Local
  <1>5. CASE ReplyWithWaterfall(s)
    <2>1. Waterfall \subseteq Answers
      BY DEF Waterfall, Answers, Nobody
    <2>2. reply' \in [Direct -> Answers]
      BY <1>5, <2>1 DEF ReplyWithWaterfall
    <2> QED
      BY <1>1, <1>3, <1>5, <2>2 DEF ReplyWithWaterfall, Local
  <1> QED
    BY <1>2, <1>4, <1>5 DEF DirectStep
-----------------------------------------------------------------------------
(* Sequences of people                                                     *)

(* A sequence of a finite set lists each of its members, once.             *)
LEMMA OnceEach ==
    ASSUME NEW S, IsFiniteSet(S), NEW s \in SetToSeqs(S)
    PROVE  /\ s \in Seq(S)
           /\ \A i, j \in DOMAIN s : s[i] = s[j] => i = j
           /\ \A x \in S : \E i \in DOMAIN s : s[i] = x
  <1> DEFINE n == Cardinality(S)
  <1>1. n \in Nat /\ s \in [1 .. n -> S] /\ \A i, j \in 1 .. n : i # j => s[i] # s[j]
    BY FS_CardinalityType DEF SetToSeqs
  <1>2. s \in Injection(1 .. n, S)
    BY <1>1 DEF Injection, IsInjective
  <1>3. Cardinality(1 .. n) = n
    BY <1>1, FS_Interval
  <1>4. s \in Surjection(1 .. n, S)
    BY <1>2, <1>3, FS_Injection
  <1> QED
    BY <1>1, <1>4 DEF Surjection

(* The members of a sequence are finitely many.                            *)
LEMMA MembersAreFinite == ASSUME NEW S, NEW s \in Seq(S) PROVE IsFiniteSet(ToSet(s))
  <1>1. s \in [1 .. Len(s) -> ToSet(s)] /\ Len(s) \in Nat
    BY DEF ToSet
  <1>2. s \in Surjection(1 .. Len(s), ToSet(s))
    BY <1>1 DEF Surjection, ToSet
  <1>3. IsFiniteSet(1 .. Len(s))
    BY <1>1, FS_Interval
  <1> QED
    BY <1>2, <1>3, FS_Surjection

(* Of a list of people the roster keeps some, each of them once: two that  *)
(* are kept differ in their names (_dedup_key).                            *)
LEMMA SurvivorsDiffer ==
    ASSUME NEW listing \in Seq(People), NEW people \in Survivors(listing)
    PROVE  /\ people \in Seq(People)
           /\ \A k, l \in DOMAIN people : people[k] = people[l] => k = l
  <1>1. Kept(listing) \subseteq DOMAIN listing /\ DOMAIN listing \subseteq Nat
    BY DEF Kept
  <1>2. IsFiniteSet(Kept(listing))
    <2>1. DOMAIN listing = 1 .. Len(listing) /\ Len(listing) \in Nat
      OBVIOUS
    <2>2. IsFiniteSet(DOMAIN listing)
      BY <2>1, FS_Interval
    <2> QED
      BY <1>1, <2>2, FS_Subset
  <1>3. PICK at \in InOrder(Kept(listing)) :
          people = [k \in 1 .. (IF Len(at) < MaxPeople THEN Len(at) ELSE MaxPeople) |-> listing[at[k]]]
    BY DEF Survivors
  <1>4. /\ at \in Seq(Kept(listing))
        /\ \A k, l \in DOMAIN at : at[k] = at[l] => k = l
    BY <1>2, <1>3, OnceEach DEF InOrder
  <1>5. PICK m \in Nat : m <= Len(at) /\ people = [k \in 1 .. m |-> listing[at[k]]]
    BY <1>3, <1>4, RosterAssumption
  <1>6. \A k \in 1 .. m : at[k] \in Kept(listing) /\ k \in DOMAIN at
    BY <1>4, <1>5
  <1>7. \A k \in 1 .. m : listing[at[k]] \in People
    BY <1>1, <1>6
  <1>8. \A i, j \in Kept(listing) : listing[i] = listing[j] => i = j
    BY <1>1 DEF Kept
  <1> QED
    BY <1>4, <1>5, <1>6, <1>7, <1>8

-----------------------------------------------------------------------------
(* The invariant                                                           *)

(* Initially the invariant holds.                                          *)
LEMMA InitIInv == Init => IInv
  <1> SUFFICES ASSUME Init PROVE IInv
    OBVIOUS
  <1> USE DEF Init
  <1>1. ContactTypeOK
    BY ContactAssumption DEF ContactInit, ContactTypeOK, Off, Nobody, Answers
  <1>2. RosterTypeOK
    BY DEF RosterTypeOK
  <1>3. Phases
    BY FS_EmptySet DEF Phases
  <1>4. EveryoneIsListedOnce
    BY DEF EveryoneIsListedOnce, Unlisted
  <1> QED
    BY <1>1, <1>2, <1>3, <1>4 DEF IInv

(* A step of an agent is none of the request's.                            *)
LEMMA RosterStays ==
    ASSUME IInv, UNCHANGED rosterVars
    PROVE  RosterTypeOK' /\ Phases' /\ EveryoneIsListedOnce'
  BY DEF IInv, rosterVars, RosterTypeOK, Phases, EveryoneIsListedOnce, Unlisted

(* The list of a company keeps the invariant.                              *)
LEMMA EnumerateKeeps == ASSUME IInv, Enumerate PROVE IInv'
  <1> USE DEF IInv
  <1>0. PICK listing \in Listings \cup {<<>>} : \E people \in Survivors(listing) :
          \/ /\ people # <<>> /\ main' = "wait"
             /\ future' = [p \in ToSet(people) |-> "pending"]
             /\ queue' = people /\ UNCHANGED listed
          \/ /\ main' = "answered" /\ listed' = AllBare(people)
             /\ future' = [p \in ToSet(people) |-> "dropped"] /\ UNCHANGED queue
    BY DEF Enumerate
  <1>1. PICK people \in Survivors(listing) :
          \/ /\ people # <<>> /\ main' = "wait"
             /\ future' = [p \in ToSet(people) |-> "pending"]
             /\ queue' = people /\ UNCHANGED listed
          \/ /\ main' = "answered" /\ listed' = AllBare(people)
             /\ future' = [p \in ToSet(people) |-> "dropped"] /\ UNCHANGED queue
    BY <1>0
  <1>2. main = "enumerate" /\ UNCHANGED <<contactVars, batch>>
    BY DEF Enumerate
  <1>3. ContactTypeOK'
    BY <1>2 DEF contactVars, ContactTypeOK
  <1>4. DOMAIN future = {} /\ listed = <<>> /\ batch = {} /\ queue = <<>>
    BY <1>2 DEF Phases, RosterTypeOK
  <1>5. /\ people \in Seq(People)
        /\ \A k, l \in DOMAIN people : people[k] = people[l] => k = l
    <2>1. <<>> \in Seq(People)
      OBVIOUS
    <2>2. listing \in Seq(People)
      BY <2>1, RosterAssumption
    <2> QED
      BY <1>1, <2>2, SurvivorsDiffer
  <1>6. /\ people \in Seq(ToSet(people)) /\ ToSet(people) \subseteq People
        /\ IsFiniteSet(ToSet(people))
        /\ \A p \in ToSet(people) : \E i \in DOMAIN people : people[i] = p
    BY <1>5, MembersAreFinite DEF ToSet
  <1>7. DOMAIN future' = ToSet(people)
    BY <1>1
  <1>8. CASE /\ main' = "wait" /\ future' = [p \in ToSet(people) |-> "pending"]
             /\ queue' = people /\ UNCHANGED listed
    <2>1. RosterTypeOK'
      BY <1>2, <1>4, <1>6, <1>8 DEF RosterTypeOK, FutureStates
    <2>2. Phases'
      BY <1>2, <1>4, <1>6, <1>8 DEF Phases
    <2>3. EveryoneIsListedOnce'
      BY <1>4, <1>8 DEF EveryoneIsListedOnce
    <2> QED
      BY <1>3, <2>1, <2>2, <2>3
  <1>9. CASE /\ main' = "answered" /\ listed' = AllBare(people)
             /\ future' = [p \in ToSet(people) |-> "dropped"] /\ UNCHANGED queue
    <2>1. /\ listed' \in Seq(Row(ToSet(people))) /\ DOMAIN listed' = DOMAIN people
          /\ \A i \in DOMAIN people : listed'[i].who = people[i]
      <3>1. \A p \in ToSet(people) : Bare(p) \in Row(ToSet(people)) /\ Bare(p).who = p
        BY DEF Bare, Row
      <3> HIDE DEF Bare, Row
      <3> QED
        BY <1>6, <1>9, <3>1 DEF AllBare
    <2>2. RosterTypeOK'
      BY <1>2, <1>4, <1>6, <1>7, <1>9, <2>1 DEF RosterTypeOK, FutureStates
    <2>3. Phases'
      BY <1>2, <1>4, <1>6, <1>9 DEF Phases
    <2>4. EveryoneIsListedOnce'
      BY <1>5, <1>6, <1>7, <2>1 DEF EveryoneIsListedOnce, Unlisted
    <2> QED
      BY <1>3, <2>2, <2>3, <2>4
  <1> QED
    BY <1>1, <1>8, <1>9

(* A step of the pool that only moves one future on.                       *)
LEMMA SetFutureKeeps ==
    ASSUME IInv, NEW p \in DOMAIN future, NEW v \in FutureStates \ {"dropped"}, SetFuture(p, v),
           queue' \in Seq(DOMAIN future), (queue = <<>>) => (queue' = <<>>),
           UNCHANGED <<main, batch, listed>>
    PROVE  RosterTypeOK' /\ Phases' /\ EveryoneIsListedOnce'
  <1> USE DEF IInv, SetFuture
  <1>1. /\ DOMAIN future' = DOMAIN future
        /\ \A q \in DOMAIN future : future'[q] = future[q] \/ future'[q] = v
    OBVIOUS
  <1>2. RosterTypeOK'
    BY <1>1 DEF RosterTypeOK
  <1>3. Phases'
    BY <1>1 DEF Phases, RosterTypeOK, Unlisted
  <1>4. EveryoneIsListedOnce'
    BY <1>1 DEF EveryoneIsListedOnce, Unlisted
  <1> QED
    BY <1>2, <1>3, <1>4

(* A thread that takes the next of the queue keeps the invariant.          *)
LEMMA StartNextKeeps == ASSUME IInv, StartNext PROVE IInv'
  <1> USE DEF IInv
  <1>1. /\ queue # <<>> /\ queue \in Seq(DOMAIN future) /\ queue' = Tail(queue)
        /\ SetFuture(Head(queue), "running") /\ Begins(Head(queue))
        /\ UNCHANGED <<answer, reply, main, batch, listed>>
    BY DEF StartNext, RosterTypeOK
  <1>2. Head(queue) \in DOMAIN future /\ queue' \in Seq(DOMAIN future)
    BY <1>1
  <1>3. RosterTypeOK' /\ Phases' /\ EveryoneIsListedOnce'
    BY <1>1, <1>2, SetFutureKeeps DEF FutureStates
  <1>4. ContactTypeOK'
    <2>1. [Off EXCEPT !.at = "asks"] \in Local
      BY ContactAssumption DEF Off, Local
    <2> QED
      BY <1>1, <1>2, <2>1 DEF Begins, ContactTypeOK, Local
  <1> QED
    BY <1>3, <1>4

(* So does a lookup that is over, or that raised.                          *)
LEMMA CompleteKeeps == ASSUME IInv, NEW p \in People, Complete(p) \/ Raise(p) PROVE IInv'
  <1> USE DEF IInv
  <1>1. /\ p \in DOMAIN future /\ (SetFuture(p, "completed") \/ SetFuture(p, "raised"))
        /\ UNCHANGED <<main, queue, batch, listed>>
    BY DEF Complete, Raise, Running
  <1>2. RosterTypeOK' /\ Phases' /\ EveryoneIsListedOnce'
    BY <1>1, SetFutureKeeps DEF FutureStates, RosterTypeOK
  <1>3. ContactTypeOK'
    <2>1. CASE Complete(p)
      BY <2>1 DEF Complete, contactVars, ContactTypeOK
    <2>2. CASE Raise(p)
      <3>1. Off \in Local
        BY ContactAssumption DEF Off, Local
      <3> QED
        BY <2>2, <3>1 DEF Raise, ContactTypeOK, Local
    <2> QED
      BY <2>1, <2>2
  <1> QED
    BY <1>2, <1>3

(* The agents' own steps keep the invariant.                               *)
LEMMA AgentsKeep ==
    ASSUME IInv, DirectCall \/ \E p \in People : Search(p) PROVE IInv'
  <1>1. UNCHANGED rosterVars
    BY DEF DirectCall, Search
  <1>2. ContactTypeOK'
    BY ContactAssumption, ContactStepKeeps, DirectStepKeeps
    DEF IInv, DirectCall, Search, People
  <1> QED
    BY <1>1, <1>2, RosterStays DEF IInv

(* Taking a batch over keeps the invariant.                                *)
LEMMA CollectKeeps == ASSUME IInv, Collect PROVE IInv'
  <1>1. /\ main = "wait" /\ batch' = Unlisted \cap Resolved
        /\ UNCHANGED <<contactVars, main, future, queue, listed>>
    BY DEF Collect
  <1>2. ContactTypeOK'
    BY <1>1 DEF IInv, contactVars, ContactTypeOK
  <1>3. RosterTypeOK' /\ Phases' /\ EveryoneIsListedOnce'
    BY <1>1 DEF IInv, RosterTypeOK, Phases, EveryoneIsListedOnce, Unlisted
  <1> QED
    BY <1>2, <1>3 DEF IInv

(* Listing one of the batch keeps the invariant: who is listed is not in   *)
(* it any more.                                                            *)
LEMMA ListOneKeeps == ASSUME IInv, ListOne PROVE IInv'
  <1> USE DEF IInv
  <1>1. PICK p \in batch :
          /\ listed' = Append(listed, [who |-> p, bare |-> future[p] = "raised"])
          /\ batch' = batch \ {p}
    BY DEF ListOne
  <1>2. main = "wait" /\ UNCHANGED <<contactVars, main, future, queue>>
    BY DEF ListOne
  <1> DEFINE row == [who |-> p, bare |-> future[p] = "raised"]
  <1>3. p \in Unlisted /\ p \in DOMAIN future
    BY DEF Phases, RosterTypeOK
  <1>4. row \in Row(DOMAIN future) /\ row.who = p
    <2>1. CASE future[p] = "raised"
      <3>1. row = [who |-> p, bare |-> TRUE]
        BY <2>1
      <3> QED
        BY <1>3, <3>1 DEF Row
    <2>2. CASE future[p] # "raised"
      <3>1. row = [who |-> p, bare |-> FALSE]
        BY <2>2
      <3> QED
        BY <1>3, <3>1 DEF Row
    <2> QED
      BY <2>1, <2>2
  <1> HIDE DEF row
  <1>5. /\ listed \in Seq(Row(DOMAIN future)) /\ listed' = Append(listed, row)
    BY <1>1 DEF row, RosterTypeOK
  <1>6. /\ listed' \in Seq(Row(DOMAIN future)) /\ Len(listed) \in Nat
        /\ DOMAIN listed' = DOMAIN listed \cup {Len(listed) + 1}
        /\ Len(listed) + 1 \notin DOMAIN listed
        /\ listed'[Len(listed) + 1] = row /\ \A i \in DOMAIN listed : listed'[i] = listed[i]
    BY <1>4, <1>5
  <1>7. ContactTypeOK'
    BY <1>2 DEF contactVars, ContactTypeOK
  <1>8. RosterTypeOK'
    BY <1>1, <1>2, <1>6 DEF RosterTypeOK
  <1>9. Unlisted' = Unlisted \ {p}
    BY <1>2, <1>4, <1>6 DEF Unlisted
  <1>10. Phases'
    BY <1>1, <1>2, <1>9 DEF Phases
  <1>11. EveryoneIsListedOnce'
    BY <1>2, <1>3, <1>4, <1>6 DEF EveryoneIsListedOnce, Unlisted
  <1> QED
    BY <1>7, <1>8, <1>10, <1>11

(* The answer lists whoever is left, so that nobody is missing.            *)
LEMMA AnswerKeeps == ASSUME IInv, Answer PROVE IInv'
  <1> USE DEF IInv
  <1>1. PICK rest \in SetToSeqs(Unlisted) : listed' = listed \o AllBare(rest)
    BY DEF Answer, LeftOver
  <1>2. /\ main = "wait" /\ main' = "answered" /\ batch = {} /\ queue' = <<>>
        /\ future' = [p \in DOMAIN future |-> IF p \in ToSet(queue) THEN "dropped" ELSE future[p]]
        /\ UNCHANGED <<contactVars, batch>>
    BY DEF Answer, CancelQueued
  <1>3. Unlisted \subseteq DOMAIN future /\ IsFiniteSet(Unlisted)
    BY FS_Subset DEF Unlisted, Phases
  <1>4. /\ rest \in Seq(Unlisted)
        /\ \A i, j \in DOMAIN rest : rest[i] = rest[j] => i = j
        /\ \A x \in Unlisted : \E i \in DOMAIN rest : rest[i] = x
    BY <1>1, <1>3, OnceEach
  <1> DEFINE tail == AllBare(rest)
             m == Len(listed)
             n == Len(rest)
  <1>5. /\ tail \in Seq(Row(DOMAIN future)) /\ Len(tail) = n /\ DOMAIN tail = 1 .. n
        /\ \A i \in 1 .. n : tail[i].who = rest[i]
    <2>1. \A p \in DOMAIN future : Bare(p) \in Row(DOMAIN future) /\ Bare(p).who = p
      BY DEF Bare, Row
    <2> HIDE DEF Bare, Row
    <2>2. \A i \in 1 .. n : rest[i] \in DOMAIN future
      BY <1>3, <1>4
    <2> QED
      BY <1>4, <2>1, <2>2 DEF AllBare
  <1>6. listed \in Seq(Row(DOMAIN future)) /\ m \in Nat /\ n \in Nat /\ DOMAIN listed = 1 .. m
    BY <1>4 DEF RosterTypeOK
  <1> HIDE DEF tail
  <1>7. /\ listed' \in Seq(Row(DOMAIN future)) /\ DOMAIN listed' = 1 .. (m + n)
        /\ \A i \in 1 .. m : listed'[i] = listed[i]
        /\ \A i \in 1 .. n : listed'[m + i] = tail[i]
    <2>1. /\ listed \o tail \in Seq(Row(DOMAIN future)) /\ DOMAIN (listed \o tail) = 1 .. (m + n)
          /\ \A i \in 1 .. m : (listed \o tail)[i] = listed[i]
          /\ \A i \in 1 .. n : (listed \o tail)[m + i] = tail[i]
      <3>1. tail \in Seq(Row(DOMAIN future)) /\ Len(tail) = Len(rest)
        BY <1>5
      <3>2. listed \in Seq(Row(DOMAIN future))
        BY <1>6
      <3>3. /\ listed \o tail \in Seq(Row(DOMAIN future)) /\ DOMAIN (listed \o tail) = 1 .. (Len(listed) + Len(tail))
            /\ \A i \in 1 .. Len(listed) : (listed \o tail)[i] = listed[i]
            /\ \A i \in 1 .. Len(tail) : (listed \o tail)[Len(listed) + i] = tail[i]
        BY <3>1, <3>2
      <3> QED
        BY <3>1, <3>3, Zenon
    <2>2. listed' = listed \o tail
      BY <1>1 DEF tail
    <2> HIDE DEF m, n
    <2> QED
      BY <2>1, <2>2
  <1>8. ContactTypeOK'
    BY <1>2 DEF contactVars, ContactTypeOK
  <1>9. RosterTypeOK'
    BY <1>2, <1>7 DEF RosterTypeOK, FutureStates
  <1>10. Phases'
    BY <1>2 DEF Phases
  <1>11. ASSUME NEW i \in DOMAIN listed', NEW j \in DOMAIN listed', listed'[i].who = listed'[j].who
         PROVE  i = j
    <2>1. \A k \in 1 .. m : listed'[k].who \notin Unlisted
      BY <1>6, <1>7 DEF Unlisted
    <2>2. \A k \in 1 .. n : listed'[m + k].who = rest[k] /\ rest[k] \in Unlisted
      BY <1>4, <1>5, <1>7
    <2>3. \A k \in DOMAIN listed' : k \in 1 .. m \/ \E l \in 1 .. n : k = m + l
      <3> HIDE DEF m, n
      <3>1. ASSUME NEW k \in 1 .. (m + n), k \notin 1 .. m PROVE k - m \in 1 .. n /\ k = m + (k - m)
        BY <1>6, <3>1
      <3> QED
        BY <1>7, <3>1
    <2>4. CASE i \in 1 .. m /\ j \in 1 .. m
      BY <1>6, <1>7, <1>11, <2>4 DEF EveryoneIsListedOnce
    <2>5. CASE \E k, l \in 1 .. n : i = m + k /\ j = m + l
      <3>1. PICK k, l \in 1 .. n : i = m + k /\ j = m + l
        BY <2>5
      <3>2. rest[k] = rest[l] /\ k \in DOMAIN rest /\ l \in DOMAIN rest
        BY <1>4, <1>11, <2>2, <3>1
      <3> QED
        BY <1>4, <3>1, <3>2
    <2> QED
      BY <1>11, <2>1, <2>2, <2>3, <2>4, <2>5
  <1>12. ASSUME NEW p \in DOMAIN future PROVE \E i \in DOMAIN listed' : listed'[i].who = p
    <2>1. CASE p \in Unlisted
      <3>1. PICK k \in DOMAIN rest : rest[k] = p
        BY <1>4, <2>1
      <3>2. k \in 1 .. n
        BY <1>4, <3>1
      <3>3. m + k \in DOMAIN listed'
        <4> HIDE DEF m, n
        <4> QED
          BY <1>6, <1>7, <3>2
      <3> QED
        BY <1>5, <1>7, <3>1, <3>2, <3>3
    <2>2. CASE p \notin Unlisted
      <3>1. PICK i \in DOMAIN listed : listed[i].who = p
        BY <2>2 DEF Unlisted
      <3>2. i \in DOMAIN listed'
        <4> HIDE DEF m, n
        <4> QED
          BY <1>6, <1>7, <3>1
      <3> QED
        BY <1>6, <1>7, <3>1, <3>2
    <2> QED
      BY <2>1, <2>2
  <1>13. EveryoneIsListedOnce'
    BY <1>2, <1>11, <1>12 DEF EveryoneIsListedOnce, Unlisted
  <1> QED
    BY <1>8, <1>9, <1>10, <1>13

(* The invariant holds in every state, whoever is listed, however many     *)
(* threads there are and whatever the agents find.                         *)
THEOREM IInvHolds == Spec => []IInv
  <1>1. Init => IInv
    BY InitIInv
  <1>2. IInv /\ [Next]_vars => IInv'
    <2> SUFFICES ASSUME IInv, [Next]_vars PROVE IInv'
      OBVIOUS
    <2>1. CASE RequestStep
      BY <2>1, EnumerateKeeps, CollectKeeps, ListOneKeeps, AnswerKeeps DEF RequestStep
    <2>2. CASE PoolStep
      BY <2>2, StartNextKeeps, AgentsKeep, CompleteKeeps DEF PoolStep
    <2>3. CASE DirectCall
      BY <2>3, AgentsKeep
    <2>4. CASE UNCHANGED vars
      BY <2>4, RosterStays DEF vars, contactVars, IInv, ContactTypeOK
    <2> QED
      BY <2>1, <2>2, <2>3, <2>4 DEF Next
  <1> QED
    BY <1>1, <1>2, PTL DEF Spec
-----------------------------------------------------------------------------
(* What follows                                                            *)

(* Every variable has its type.                                            *)
THEOREM TypeIsSafe == Spec => []TypeOK
  <1>1. IInv => TypeOK
    BY DEF IInv, TypeOK, RosterTypeOK, Row, FutureStates
  <1> QED
    BY <1>1, IInvHolds, PTL

(* The answer of find_roster lists everyone who passed its filters, once:  *)
(* who failed, was late, or came in while the time ran out as well.        *)
THEOREM EveryoneListedOnce == Spec => []EveryoneIsListedOnce
  <1>1. IInv => EveryoneIsListedOnce
    BY DEF IInv
  <1> QED
    BY <1>1, IInvHolds, PTL

(* No lookup begins once the roster is answered: the queue of the pool is  *)
(* empty, and the threads that are still at work go on with what they had. *)
THEOREM NoneBeginsLate == Spec => NoSearchBeginsLate
  <1> DEFINE Late == main = "answered" =>
                       \A p \in People : agent[p].at = "off" => agent'[p].at = "off"
  <1>1. ASSUME IInv, [Next]_vars PROVE [Late]_vars
    <2> USE <1>1 DEF IInv
    <2> SUFFICES ASSUME main = "answered", NEW p \in People, agent[p].at = "off", Next
                 PROVE  agent'[p].at = "off"
      OBVIOUS
    <2>1. p \in Seekers /\ p \notin Direct /\ agent \in [Seekers -> Local] /\ ContactTypeOK
      BY DEF People, ContactTypeOK, Local
    <2>2. CASE RequestStep
      BY <2>2 DEF RequestStep, Enumerate, Collect, ListOne, Answer, contactVars
    <2>3. CASE StartNext
      BY <2>3 DEF StartNext, Phases
    <2>4. ASSUME NEW q \in People, Search(q) PROVE agent'[p].at = "off"
      BY <2>1, <2>4, ContactStepKeeps DEF Search, People
    <2>5. ASSUME NEW q \in People, Complete(q) \/ Raise(q) PROVE agent'[p].at = "off"
      BY <2>1, <2>5 DEF Complete, Raise, contactVars, Off
    <2>6. ASSUME NEW s \in Direct, DirectStep(s) \/ ContactStep(s) PROVE agent'[p].at = "off"
      BY <2>1, <2>6, ContactAssumption, ContactStepKeeps, DirectStepKeeps
    <2> QED
      BY <2>2, <2>3, <2>4, <2>5, <2>6 DEF Next, PoolStep, DirectCall
  <1> QED
    BY <1>1, IInvHolds, PTL DEF Spec, NoSearchBeginsLate
=============================================================================
