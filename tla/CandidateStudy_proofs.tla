----------------------- MODULE CandidateStudy_proofs -----------------------
(***************************************************************************)
(* CandidateStudy for any caps, batches, lists of candidates, providers    *)
(* and people; and HuntEvents, for any number of panels.                   *)
(***************************************************************************)
EXTENDS CandidateStudy, HuntEvents, FiniteSetTheorems, TLAPS

Sources == {"yc_oss", "product_hunt", "rss"}

(* What the sources and the open web gave; who is listed by the open web   *)
(* says so.                                                                *)
ListsFit ==
    /\ floor \in [Sources -> Seq(Candidates)]
    /\ openWeb \in Seq(Candidates)
    /\ \A i \in DOMAIN openWeb : openWeb[i].source = "open_web"

(* The last turn has a tool_use block without its tool_result, no turn     *)
(* before it has.                                                          *)
Halfway(talk) ==
    /\ Executing(talk)
    /\ \A i \in DOMAIN talk : i < Len(talk) => talk[i].results = talk[i].uses

(* Between batches every block is answered; within one, all but the last.  *)
BatchesFit ==
    IF pc \in {"searchTools", "tools"} THEN Halfway(convo) ELSE Answered(convo)

FundingFits == cand.funded => facts.funding = "given"

IInv ==
    /\ TypeOK
    /\ ListsFit
    /\ BatchesFit
    /\ FundingFits
    /\ NoStrangersAddress
    /\ NothingListedIsLost

-----------------------------------------------------------------------------
(* Places in a list                                                        *)

Upto(places, i) == {j \in places : j <= i}
Nth(places, k) == CHOOSE i \in places : Cardinality(Upto(places, i)) = k

(* The places of a finite set are numbered from 1 on, in their order.      *)
LEMMA PlacesAreNumbered ==
    ASSUME NEW F \in SUBSET Nat, IsFiniteSet(F)
    PROVE  /\ Cardinality(F) \in Nat
           /\ \A i \in F : Cardinality(Upto(F, i)) \in 1 .. Cardinality(F)
           /\ \A i, j \in F : i < j => Cardinality(Upto(F, i)) < Cardinality(Upto(F, j))
           /\ \A k \in 1 .. Cardinality(F) : \E i \in F : Cardinality(Upto(F, i)) = k
  <1> DEFINE n == Cardinality(F)
             rank == [i \in F |-> Cardinality(Upto(F, i))]
  <1>1. n \in Nat
    BY FS_CardinalityType
  <1>2. ASSUME NEW i \in F
        PROVE  IsFiniteSet(Upto(F, i)) /\ Cardinality(Upto(F, i)) \in 1 .. n
    <2>1. Upto(F, i) \in SUBSET F /\ i \in Upto(F, i)
      BY DEF Upto
    <2>2. IsFiniteSet(Upto(F, i)) /\ Cardinality(Upto(F, i)) <= n /\ Cardinality(Upto(F, i)) \in Nat
      BY <2>1, FS_Subset, FS_CardinalityType
    <2>3. Cardinality(Upto(F, i)) # 0
      BY <2>1, <2>2, FS_EmptySet
    <2> QED
      BY <1>1, <2>2, <2>3
  <1>3. ASSUME NEW i \in F, NEW j \in F, i < j
        PROVE  Cardinality(Upto(F, i)) < Cardinality(Upto(F, j))
    <2>1. Upto(F, i) \in SUBSET Upto(F, j) /\ j \in Upto(F, j) /\ j \notin Upto(F, i)
      <3>1. \A k \in F : k <= i => k <= j
        BY <1>3
      <3>2. j <= j /\ ~(j <= i)
        BY <1>3
      <3> QED
        BY <3>1, <3>2 DEF Upto
    <2>2. /\ Cardinality(Upto(F, i)) <= Cardinality(Upto(F, j))
          /\ Cardinality(Upto(F, i)) # Cardinality(Upto(F, j))
      BY <1>2, <2>1, FS_Subset
    <2>3. Cardinality(Upto(F, i)) \in Nat /\ Cardinality(Upto(F, j)) \in Nat
      BY <1>2
    <2> QED
      BY <2>2, <2>3
  <1>4. rank \in Injection(F, 1 .. n)
    <2>1. rank \in [F -> 1 .. n]
      BY <1>2
    <2>2. ASSUME NEW i \in F, NEW j \in F, rank[i] = rank[j] PROVE i = j
      <3>1. ~(i < j) /\ ~(j < i)
        BY <1>2, <1>3, <2>2
      <3> QED
        BY <3>1
    <2> HIDE DEF rank
    <2> QED
      BY <2>1, <2>2 DEF Injection, IsInjective
  <1>5. IsFiniteSet(1 .. n) /\ Cardinality(1 .. n) = n
    BY <1>1, FS_Interval
  <1>6. rank \in Surjection(F, 1 .. n)
    BY <1>4, <1>5, FS_Injection
  <1>7. \A k \in 1 .. n : \E i \in F : rank[i] = k
    BY <1>6 DEF Surjection
  <1> QED
    BY <1>1, <1>2, <1>3, <1>7

(* So there is an Nth of them, and each is the one of its number.          *)
LEMMA NthPlace ==
    ASSUME NEW F \in SUBSET Nat, IsFiniteSet(F)
    PROVE  /\ Cardinality(F) \in Nat
           /\ \A k \in 1 .. Cardinality(F) : Nth(F, k) \in F
           /\ \A k, l \in 1 .. Cardinality(F) : Nth(F, k) = Nth(F, l) => k = l
           /\ \A i \in F : \E k \in 1 .. Cardinality(F) : Nth(F, k) = i
  <1>1. ASSUME NEW k \in 1 .. Cardinality(F)
        PROVE  Nth(F, k) \in F /\ Cardinality(Upto(F, Nth(F, k))) = k
    <2>1. \E i \in F : Cardinality(Upto(F, i)) = k
      BY PlacesAreNumbered
    <2> QED
      BY <2>1 DEF Nth
  <1>2. ASSUME NEW i \in F, NEW j \in F, Cardinality(Upto(F, i)) = Cardinality(Upto(F, j))
        PROVE  i = j
    <2>1. ~(i < j) /\ ~(j < i)
      BY <1>2, PlacesAreNumbered
    <2> QED
      BY <2>1
  <1>3. ASSUME NEW i \in F PROVE \E k \in 1 .. Cardinality(F) : Nth(F, k) = i
    <2> DEFINE k == Cardinality(Upto(F, i))
    <2>1. k \in 1 .. Cardinality(F)
      BY PlacesAreNumbered
    <2>2. Nth(F, k) = i
      BY <1>1, <1>2, <2>1
    <2> QED
      BY <2>1, <2>2
  <1> QED
    BY <1>1, <1>3, PlacesAreNumbered

(* A set of numbers that is not empty has a least one.                     *)
LEMMA LeastPlace ==
    ASSUME NEW T \in SUBSET Nat, T # {}
    PROVE  \E i \in T : \A j \in T : i <= j
  <1>1. PICK i \in T : \A j \in T : <<j, i>> \notin OpToRel(<, Nat)
    BY NatLessThanWellFounded, WFMin, Zenon
  <1>2. \A j \in T : ~(j < i)
    BY <1>1, Zenon DEF OpToRel
  <1> QED
    BY <1>2

-----------------------------------------------------------------------------
(* The merge by domain                                                     *)

(* The places at which a domain shows up for the first time.               *)
Firsts(list) ==
    {i \in DOMAIN list : list[i].domain \notin {list[j].domain : j \in 1 .. (i - 1)}}

LEMMA MergeByPlaces ==
    ASSUME NEW list
    PROVE  FirstPerDomain(list) =
             [k \in 1 .. Cardinality(Firsts(list)) |-> list[Nth(Firsts(list), k)]]
  BY DEF FirstPerDomain, Firsts, Nth, Upto

(* Of each domain the merge keeps the first candidate, and no other.       *)
LEMMA MergeKeepsFirsts ==
    ASSUME NEW list \in Seq(Candidates), NEW out, out = FirstPerDomain(list)
    PROVE  /\ out \in Seq(Candidates)
           /\ \A k \in DOMAIN out : \E i \in Firsts(list) : out[k] = list[i]
           /\ \A k, l \in DOMAIN out : out[k].domain = out[l].domain => k = l
           /\ Listed(out) = Listed(list)
  <1> DEFINE F == Firsts(list)
             n == Cardinality(F)
  <1>1. F \in SUBSET Nat /\ F \subseteq DOMAIN list /\ IsFiniteSet(F)
    <2>1. DOMAIN list = 1 .. Len(list) /\ Len(list) \in Nat
      OBVIOUS
    <2>2. IsFiniteSet(DOMAIN list)
      BY <2>1, FS_Interval
    <2>3. F \in SUBSET (DOMAIN list)
      BY DEF Firsts
    <2>4. IsFiniteSet(F)
      BY <2>2, <2>3, FS_Subset
    <2> QED
      BY <2>1, <2>3, <2>4
  <1>2. \A i, j \in F : list[i].domain = list[j].domain => i = j
    <2> SUFFICES ASSUME NEW i \in F, NEW j \in F, list[i].domain = list[j].domain, i < j
                 PROVE  FALSE
      BY <1>1
    <2>1. i \in 1 .. (j - 1)
      BY <1>1
    <2> QED
      BY <2>1 DEF Firsts
  <1>3. ASSUME NEW i \in DOMAIN list PROVE \E j \in F : list[j].domain = list[i].domain
    <2> DEFINE T == {j \in DOMAIN list : list[j].domain = list[i].domain}
    <2>1. T \in SUBSET Nat /\ T # {}
      OBVIOUS
    <2>2. PICK j \in T : \A l \in T : j <= l
      BY <2>1, LeastPlace
    <2>3. \A l \in 1 .. (j - 1) : list[l].domain # list[j].domain
      BY <2>2
    <2>4. j \in F
      BY <2>2, <2>3 DEF Firsts
    <2> QED
      BY <2>2, <2>4
  <1> HIDE DEF F
  <1>4. /\ n \in Nat
        /\ \A k \in 1 .. n : Nth(F, k) \in F
        /\ \A k, l \in 1 .. n : Nth(F, k) = Nth(F, l) => k = l
        /\ \A i \in F : \E k \in 1 .. n : Nth(F, k) = i
    BY <1>1, NthPlace
  <1> HIDE DEF n
  <1>5. out = [k \in 1 .. n |-> list[Nth(F, k)]]
    BY MergeByPlaces DEF F, n
  <1>6. out \in Seq(Candidates) /\ DOMAIN out = 1 .. n
        /\ \A k \in 1 .. n : out[k] = list[Nth(F, k)]
    <2>1. \A k \in 1 .. n : list[Nth(F, k)] \in Candidates
      <3>1. \A i \in DOMAIN list : list[i] \in Candidates
        OBVIOUS
      <3> QED
        BY <1>1, <1>4, <3>1, Zenon
    <2>2. out \in [1 .. n -> Candidates]
      BY <1>5, <2>1
    <2> HIDE DEF Candidates
    <2> QED
      BY <1>4, <1>5, <2>2
  <1>7. \A k \in DOMAIN out : \E i \in F : out[k] = list[i]
    BY <1>4, <1>6
  <1>8. \A k, l \in DOMAIN out : out[k].domain = out[l].domain => k = l
    BY <1>2, <1>4, <1>6
  <1>9. Listed(out) \subseteq Listed(list)
    BY <1>1, <1>7 DEF Listed
  <1>10. Listed(list) \subseteq Listed(out)
    <2> SUFFICES ASSUME NEW i \in DOMAIN list
                 PROVE  \E k \in DOMAIN out : out[k].domain = list[i].domain
      BY DEF Listed
    <2>1. PICK j \in F : list[j].domain = list[i].domain
      BY <1>3
    <2>2. PICK k \in 1 .. n : Nth(F, k) = j
      BY <1>4
    <2> QED
      BY <1>6, <2>1, <2>2
  <1> QED
    BY <1>6, <1>7, <1>8, <1>9, <1>10 DEF F

(* One list after another lists what both list, the first one as it was.   *)
LEMMA OneAfterAnother ==
    ASSUME NEW s \in Seq(Candidates), NEW t \in Seq(Candidates), NEW u, u = s \o t
    PROVE  /\ u \in Seq(Candidates) /\ Len(s) <= Len(u)
           /\ \A i \in DOMAIN s : i \in DOMAIN u /\ u[i] = s[i]
           /\ Listed(u) = Listed(s) \cup Listed(t)
  <1>1. /\ u \in Seq(Candidates) /\ Len(u) = Len(s) + Len(t)
        /\ \A i \in 1 .. Len(s) : u[i] = s[i]
        /\ \A i \in 1 .. Len(t) : u[Len(s) + i] = t[i]
    OBVIOUS
  <1>2. /\ DOMAIN u = 1 .. Len(u) /\ DOMAIN s = 1 .. Len(s) /\ DOMAIN t = 1 .. Len(t)
        /\ Len(s) \in Nat /\ Len(t) \in Nat
    BY <1>1
  <1>3. \A i \in DOMAIN s : i \in DOMAIN u /\ u[i] = s[i]
    BY <1>1, <1>2
  <1>4. \A i \in DOMAIN t : Len(s) + i \in DOMAIN u /\ u[Len(s) + i] = t[i]
    BY <1>1, <1>2
  <1>5. ASSUME NEW i \in DOMAIN u PROVE u[i].domain \in Listed(s) \cup Listed(t)
    <2>1. CASE i \in DOMAIN s
      BY <1>3, <2>1 DEF Listed
    <2>2. CASE i \notin DOMAIN s
      <3>1. i - Len(s) \in DOMAIN t /\ i = Len(s) + (i - Len(s))
        BY <1>1, <1>2, <2>2
      <3>2. u[i] = t[i - Len(s)]
        BY <1>4, <3>1
      <3> QED
        BY <3>1, <3>2 DEF Listed
    <2> QED
      BY <2>1, <2>2
  <1>6. Listed(u) \subseteq Listed(s) \cup Listed(t)
    BY <1>5 DEF Listed
  <1>7. Listed(s) \subseteq Listed(u) /\ Listed(t) \subseteq Listed(u)
    BY <1>3, <1>4 DEF Listed
  <1> QED
    BY <1>1, <1>2, <1>3, <1>6, <1>7

(* What Merge makes of the open web and the floor.                         *)
LEMMA MergeLosesNothing ==
    ASSUME ListsFit, Merge
    PROVE  merged' \in Seq(Candidates) /\ NothingListedIsLost'
  <1> DEFINE yc == floor["yc_oss"]
             ph == floor["product_hunt"]
             rss == floor["rss"]
             u == openWeb \o yc
             v == u \o ph
             w == v \o rss
  <1>1. /\ openWeb \in Seq(Candidates) /\ yc \in Seq(Candidates)
        /\ ph \in Seq(Candidates) /\ rss \in Seq(Candidates) /\ DOMAIN floor = Sources
    BY DEF ListsFit, Sources
  <1>2. /\ merged' = FirstPerDomain(w) /\ floor' = floor /\ openWeb' = openWeb
    BY DEF Merge
  <1> HIDE DEF yc, ph, rss, w, v, u
  <1>3. /\ u \in Seq(Candidates) /\ Listed(u) = Listed(openWeb) \cup Listed(yc)
        /\ \A i \in DOMAIN openWeb : i \in DOMAIN u /\ u[i] = openWeb[i]
    BY <1>1, OneAfterAnother, Zenon DEF u
  <1>4. /\ v \in Seq(Candidates) /\ Listed(v) = Listed(u) \cup Listed(ph)
        /\ \A i \in DOMAIN u : i \in DOMAIN v /\ v[i] = u[i]
    BY <1>1, <1>3, OneAfterAnother, Zenon DEF v
  <1>5. /\ w \in Seq(Candidates) /\ Listed(w) = Listed(v) \cup Listed(rss)
        /\ \A i \in DOMAIN v : i \in DOMAIN w /\ w[i] = v[i]
    BY <1>1, <1>4, OneAfterAnother, Zenon DEF w
  <1>6. \A i \in DOMAIN openWeb : i \in DOMAIN w /\ w[i] = openWeb[i]
    BY <1>3, <1>4, <1>5
  <1>7. /\ merged' \in Seq(Candidates)
        /\ \A k \in DOMAIN merged' : \E i \in Firsts(w) : merged'[k] = w[i]
        /\ \A k, l \in DOMAIN merged' : merged'[k].domain = merged'[l].domain => k = l
        /\ Listed(merged') = Listed(w)
    BY <1>2, <1>5, MergeKeepsFirsts, Zenon
  <1>8. UNION {Listed(floor[s]) : s \in DOMAIN floor} = Listed(yc) \cup Listed(ph) \cup Listed(rss)
    BY <1>1 DEF Sources, yc, ph, rss
  <1>9. Listed(merged') = Listed(openWeb) \cup UNION {Listed(floor[s]) : s \in DOMAIN floor}
    BY <1>3, <1>4, <1>5, <1>7, <1>8
  <1>10. ASSUME NEW k \in DOMAIN merged', merged'[k].domain \in Listed(openWeb)
         PROVE  merged'[k].source = "open_web"
    <2>1. PICK i \in Firsts(w) : merged'[k] = w[i]
      BY <1>7
    <2>2. PICK j \in DOMAIN openWeb : openWeb[j].domain = w[i].domain
      BY <1>10, <2>1 DEF Listed
    <2>3. i \in DOMAIN w /\ \A l \in 1 .. (i - 1) : w[l].domain # w[i].domain
      BY DEF Firsts
    <2>4. j \in DOMAIN w /\ w[j].domain = w[i].domain
      BY <1>6, <2>2
    <2>5. i \in Nat \ {0} /\ j \in Nat \ {0}
      BY <1>5, <2>3, <2>4
    <2>6. i <= j
      BY <2>3, <2>4, <2>5
    <2>7. i \in DOMAIN openWeb
      BY <1>1, <2>2, <2>5, <2>6
    <2> QED
      BY <1>6, <2>1, <2>7 DEF ListsFit
  <1> QED
    BY <1>2, <1>7, <1>9, <1>10 DEF NothingListedIsLost

-----------------------------------------------------------------------------
(* The tool-use loop                                                       *)

LEMMA NoTurns == <<>> \in Seq(Turns) /\ Answered(<<>>)
  BY DEF Answered

(* A turn that asks for tools begins a batch.                              *)
LEMMA TurnBegins ==
    ASSUME NEW talk \in Seq(Turns), Answered(talk), NEW k \in 1 .. MaxBatch,
           NEW next, next = WithTurn(talk, k)
    PROVE  next \in Seq(Turns) /\ Halfway(next)
  <1> DEFINE turn0 == [uses |-> k, results |-> 0]
  <1>1. turn0 \in Turns /\ turn0.uses = k /\ turn0.results = 0
    BY LoopAssumption DEF Turns
  <1>2. next = Append(talk, turn0)
    BY DEF WithTurn
  <1> HIDE DEF turn0
  <1>3. /\ next \in Seq(Turns) /\ Len(next) = Len(talk) + 1 /\ Len(talk) \in Nat
        /\ next[Len(next)] = turn0 /\ \A i \in 1 .. Len(talk) : next[i] = talk[i]
        /\ DOMAIN talk = 1 .. Len(talk) /\ DOMAIN next = 1 .. Len(next)
    BY <1>1, <1>2
  <1>4. Executing(next)
    BY <1>1, <1>3 DEF Executing, Last
  <1>5. \A i \in DOMAIN next : i < Len(next) => next[i].results = next[i].uses
    BY <1>3 DEF Answered
  <1> QED
    BY <1>3, <1>4, <1>5 DEF Halfway

(* A result goes on with the batch, or answers the last of its blocks.     *)
LEMMA ResultGoesOn ==
    ASSUME NEW talk \in Seq(Turns), Halfway(talk), NEW next, next = WithResult(talk)
    PROVE  /\ next \in Seq(Turns)
           /\ Executing(next) => Halfway(next)
           /\ ~Executing(next) => Answered(next)
  <1> DEFINE m == Len(talk)
             last == talk[m]
             more == [uses |-> last.uses, results |-> last.results + 1]
  <1>1. m \in Nat \ {0} /\ DOMAIN talk = 1 .. m /\ last \in Turns /\ last.results < last.uses
    BY DEF Halfway, Executing, Last
  <1> HIDE DEF m, last
  <1>2. more \in Turns /\ more.uses = last.uses /\ more.results = last.results + 1
    BY <1>1, LoopAssumption DEF Turns
  <1>3. next = [talk EXCEPT ![m] = more]
    <2>1. [last EXCEPT !.results = last.results + 1] = more
      BY <1>1 DEF Turns
    <2>2. next = [talk EXCEPT ![m] = [last EXCEPT !.results = last.results + 1]]
      BY DEF WithResult, m, last
    <2> QED
      BY <2>1, <2>2
  <1> HIDE DEF more
  <1>4. /\ next \in Seq(Turns) /\ Len(next) = m /\ DOMAIN next = 1 .. m
        /\ next[m] = more /\ \A i \in 1 .. m : i # m => next[i] = talk[i]
    BY <1>1, <1>2, <1>3 DEF m
  <1>5. \A i \in 1 .. m : i < m => next[i].results = next[i].uses
    <2>1. \A i \in 1 .. m : i < m => talk[i].results = talk[i].uses
      BY <1>1 DEF Halfway, m
    <2>2. \A i \in 1 .. m : i < m => i # m
      BY <1>1
    <2> QED
      BY <1>4, <2>1, <2>2, Zenon
  <1>6. Executing(next) => Halfway(next)
    BY <1>4, <1>5 DEF Halfway
  <1>7. ASSUME ~Executing(next) PROVE Answered(next)
    <2>1. more.results >= more.uses
      BY <1>1, <1>2, <1>4, <1>7 DEF Executing, Last, Turns
    <2>2. more.results = more.uses
      BY <1>1, <1>2, <2>1 DEF Turns
    <2>3. \A i \in 1 .. m : i < m \/ i = m
      BY <1>1
    <2> QED
      BY <1>4, <1>5, <2>2, <2>3 DEF Answered
  <1> QED
    BY <1>4, <1>6, <1>7

-----------------------------------------------------------------------------
(* Discovery                                                               *)

(* What a source lists, with its name on it.                               *)
LEMMA ListsAreCandidates ==
    ASSUME NEW from \in {"open_web", "yc_oss", "product_hunt", "rss"},
           NEW funded \in SUBSET BOOLEAN, NEW list \in Lists(from, funded)
    PROVE  list \in Seq(Candidates) /\ \A i \in DOMAIN list : list[i].source = from
  <1>1. PICK n \in 0 .. FloorLimit :
          list \in [1 .. n -> [domain : Domains, source : {from}, funded : funded]]
    BY DEF Lists
  <1>2. \A c \in [domain : Domains, source : {from}, funded : funded] :
          c \in Candidates /\ c.source = from
    BY DEF Candidates
  <1>3. n \in Nat
    BY SearchAssumption
  <1> QED
    BY <1>1, <1>2, <1>3

StudyTyped ==
    /\ cand \in Candidates /\ spotted \subseteq Profiles /\ facts \in Facts
    /\ turn \in 0 .. Len(Providers) /\ lead \in Leads

(* The steps of discovery keep the invariant.                              *)
LEMMA SearchKeeps == ASSUME IInv, SearchStep, UNCHANGED studyVars PROVE IInv'
  <1> USE DEF IInv, TypeOK, SearchTypeOK, SearchSteps, StudySteps
  <1>1. /\ StudyTyped' /\ FundingFits'
    BY DEF studyVars, StudyTyped, FundingFits
  <1>2. ASSUME pc' \notin {"found", "delivered"}
        PROVE  NothingListedIsLost' /\ NoStrangersAddress'
    BY <1>2 DEF NothingListedIsLost, NoStrangersAddress
  <1>3. CASE FetchFloor
    <2>1. PICK yc \in FetchYc, ph \in FetchProductHunt, rss \in FetchRss :
            floor' = [yc_oss |-> yc, product_hunt |-> ph, rss |-> rss]
      BY <1>3 DEF FetchFloor
    <2>2. yc \in Seq(Candidates) /\ ph \in Seq(Candidates) /\ rss \in Seq(Candidates)
      BY ListsAreCandidates DEF FetchYc, FetchProductHunt, FetchRss
    <2>3. pc' = "search" /\ pc = "floor" /\ UNCHANGED <<convo, openWeb, merged>>
      BY <1>3 DEF FetchFloor, Goto
    <2>4. ListsFit'
      BY <2>1, <2>2, <2>3 DEF ListsFit, Sources
    <2>5. BatchesFit'
      BY <2>3 DEF BatchesFit
    <2>6. TypeOK'
      BY <1>1, <2>1, <2>2, <2>3 DEF StudyTyped
    <2> QED
      BY <1>1, <1>2, <2>3, <2>4, <2>5, <2>6
  <1>4. CASE AskSearcher
    <2>1. pc = "search" /\ pc' \in {"searching", "searchCap"} /\ UNCHANGED <<convo, floor, openWeb, merged>>
      BY <1>4 DEF AskSearcher, Goto
    <2>2. ListsFit' /\ BatchesFit'
      BY <2>1 DEF ListsFit, BatchesFit
    <2>3. TypeOK'
      BY <1>1, <2>1 DEF StudyTyped
    <2> QED
      BY <1>1, <1>2, <2>1, <2>2, <2>3
  <1>5. CASE SearcherAsksTools
    <2>1. PICK k \in 1 .. MaxBatch : convo' = WithTurn(convo, k)
      BY <1>5 DEF SearcherAsksTools
    <2>2. pc = "searching" /\ pc' = "searchTools" /\ UNCHANGED <<floor, openWeb, merged>>
      BY <1>5 DEF SearcherAsksTools, Goto
    <2>3. convo' \in Seq(Turns) /\ Halfway(convo')
      BY <2>1, <2>2, TurnBegins DEF BatchesFit
    <2>4. ListsFit' /\ BatchesFit'
      BY <2>2, <2>3 DEF ListsFit, BatchesFit, Halfway
    <2>5. TypeOK'
      BY <1>1, <2>2, <2>3 DEF StudyTyped
    <2> QED
      BY <1>1, <1>2, <2>2, <2>4, <2>5
  <1>6. CASE RunSearchTool
    <2>1. /\ pc = "searchTools" /\ convo' = WithResult(convo) /\ UNCHANGED <<floor, openWeb, merged>>
          /\ pc' = IF Executing(convo') THEN "searchTools" ELSE "search"
      BY <1>6 DEF RunSearchTool, Goto, BatchGoesOn
    <2>2. /\ convo' \in Seq(Turns)
          /\ Executing(convo') => Halfway(convo')
          /\ ~Executing(convo') => Answered(convo')
      BY <2>1, ResultGoesOn DEF BatchesFit
    <2>3. ListsFit' /\ BatchesFit'
      BY <2>1, <2>2 DEF ListsFit, BatchesFit, Halfway
    <2>4. TypeOK'
      BY <1>1, <2>1, <2>2 DEF StudyTyped
    <2> QED
      BY <1>1, <1>2, <2>1, <2>3, <2>4
  <1>7. CASE SearcherAnswers
    <2>1. /\ pc' = "merge" /\ convo' = <<>> /\ UNCHANGED <<floor, merged>>
      BY <1>7 DEF SearcherAnswers, Goto
    <2>2. openWeb' \in Lists("open_web", BOOLEAN)
      BY <1>7 DEF SearcherAnswers
    <2>3. openWeb' \in Seq(Candidates) /\ \A i \in DOMAIN openWeb' : openWeb'[i].source = "open_web"
      BY <2>2, ListsAreCandidates
    <2>4. ListsFit' /\ BatchesFit'
      BY <2>1, <2>3, NoTurns DEF ListsFit, BatchesFit
    <2>5. TypeOK'
      BY <1>1, <2>1, <2>3, NoTurns DEF StudyTyped
    <2> QED
      BY <1>1, <1>2, <2>1, <2>4, <2>5
  <1>8. CASE SearchFails
    <2>1. /\ pc' = "merge" /\ convo' = <<>> /\ UNCHANGED <<floor, openWeb, merged>>
      BY <1>8 DEF SearchFails, Goto
    <2>2. ListsFit' /\ BatchesFit'
      BY <2>1, NoTurns DEF ListsFit, BatchesFit
    <2>3. TypeOK'
      BY <1>1, <2>1, NoTurns DEF StudyTyped
    <2> QED
      BY <1>1, <1>2, <2>1, <2>2, <2>3
  <1>9. CASE Merge
    <2>1. pc = "merge" /\ pc' = "found" /\ UNCHANGED <<convo, floor, openWeb>>
      BY <1>9 DEF Merge, Goto
    <2>2. merged' \in Seq(Candidates) /\ NothingListedIsLost'
      BY <1>9, MergeLosesNothing
    <2>3. ListsFit' /\ BatchesFit' /\ NoStrangersAddress'
      BY <2>1 DEF ListsFit, BatchesFit, NoStrangersAddress
    <2>4. TypeOK'
      BY <1>1, <2>1, <2>2 DEF StudyTyped
    <2> QED
      BY <1>1, <2>2, <2>3, <2>4
  <1> QED
    BY <1>3, <1>4, <1>5, <1>6, <1>7, <1>8, <1>9 DEF SearchStep

-----------------------------------------------------------------------------
(* The study of one candidate                                              *)

(* What a later step of the study changes leaves the lists alone, and the  *)
(* result of discovery is not looked at any more.                          *)
LEMMA StudyGoesOn ==
    ASSUME IInv, UNCHANGED <<floor, openWeb, merged>>, pc' \in StudySteps,
           convo' \in Seq(Turns), BatchesFit', StudyTyped', FundingFits', NoStrangersAddress'
    PROVE  IInv'
  <1>1. ListsFit' /\ NothingListedIsLost'
    BY DEF IInv, ListsFit, StudySteps, NothingListedIsLost
  <1>2. TypeOK'
    BY DEF IInv, TypeOK, SearchTypeOK, StudyTyped
  <1> QED
    BY <1>1, <1>2 DEF IInv

(* What a candidate carries of its own is all that is known of it.         *)
LEMMA CarriedIsTyped ==
    ASSUME NEW c \in Candidates
    PROVE  Carried(c) \in Facts /\ (c.funded => Carried(c).funding = "given")
  <1>1. CASE c.funded
    <2>1. Carried(c) = [founder |-> FALSE, profile |-> NoProfile, funding |-> "given",
                        full |-> FALSE, odd |-> FALSE]
      BY <1>1 DEF Carried
    <2> QED
      BY <2>1 DEF Facts
  <1>2. CASE ~c.funded
    <2>1. Carried(c) = [founder |-> FALSE, profile |-> NoProfile, funding |-> "none",
                        full |-> FALSE, odd |-> FALSE]
      BY <1>2 DEF Carried
    <2> QED
      BY <1>2, <2>1 DEF Facts
  <1> QED
    BY <1>1, <1>2

(* What the model says is taken, the funding that was known excepted.      *)
LEMMA TakenIsTyped ==
    ASSUME cand \in Candidates, NEW says \in Says
    PROVE  Taken(says) \in Facts /\ (cand.funded => Taken(says).funding = "given")
  <1> DEFINE how == IF cand.funded THEN "given" ELSE IF says.funding THEN "found" ELSE "none"
  <1>1. how \in {"none", "given", "found"} /\ (cand.funded => how = "given")
    OBVIOUS
  <1>2. Taken(says) = [founder |-> says.founder, profile |-> says.profile, funding |-> how,
                       full |-> says.full, odd |-> says.odd]
    BY DEF Taken
  <1> HIDE DEF how
  <1>3. [founder |-> says.founder, profile |-> says.profile, funding |-> how,
         full |-> says.full, odd |-> says.odd] \in Facts
    BY <1>1 DEF Says, Facts
  <1>4. [founder |-> says.founder, profile |-> says.profile, funding |-> how,
         full |-> says.full, odd |-> says.odd].funding = how
    BY Zenon
  <1> QED
    BY <1>1, <1>2, <1>3, <1>4, Zenon

(* Filling a gap leaves the rest of what is known.                         *)
LEMMA ProfileIsFilled ==
    ASSUME NEW f \in Facts, NEW p \in Profiles
    PROVE  [f EXCEPT !.profile = p] \in Facts /\ [f EXCEPT !.profile = p].funding = f.funding
  BY DEF Facts

LEMMA RestIsFilled ==
    ASSUME NEW f \in Facts, NEW full \in BOOLEAN, NEW odd \in BOOLEAN
    PROVE  /\ [f EXCEPT !.full = full, !.odd = odd] \in Facts
           /\ [f EXCEPT !.full = full, !.odd = odd].funding = f.funding
  BY DEF Facts

LEMMA TypeMayBeOdd ==
    ASSUME NEW f \in Facts, NEW odd \in BOOLEAN
    PROVE  [f EXCEPT !.odd = odd] \in Facts /\ [f EXCEPT !.odd = odd].funding = f.funding
  BY DEF Facts

(* Picking a candidate and the fit gate keep the invariant.                *)
LEMMA PickKeeps == ASSUME IInv, Pick PROVE IInv'
  <1>1. PICK i \in DOMAIN merged : cand' = merged[i]
    BY DEF Pick
  <1>2. /\ pc = "found" /\ pc' = "gate" /\ facts' = Carried(cand') /\ floor' = NoFloor
        /\ openWeb' = <<>> /\ merged' = <<>> /\ UNCHANGED <<convo, spotted, turn, lead>>
    BY DEF Pick, Goto
  <1>3. merged \in Seq(Candidates) /\ convo \in Seq(Turns) /\ StudyTyped /\ Answered(convo)
    BY <1>2 DEF IInv, TypeOK, SearchTypeOK, StudyTyped, BatchesFit
  <1>4. cand' \in Candidates
    BY <1>1, <1>3
  <1>5. facts' \in Facts /\ FundingFits'
    BY <1>2, <1>4, CarriedIsTyped DEF FundingFits
  <1>6. ListsFit' /\ BatchesFit' /\ NothingListedIsLost' /\ NoStrangersAddress'
    BY <1>2, <1>3 DEF ListsFit, NoFloor, Sources, BatchesFit, NothingListedIsLost, NoStrangersAddress
  <1>7. TypeOK'
    BY <1>2, <1>3, <1>4, <1>5 DEF TypeOK, SearchTypeOK, StudyTyped, NoFloor, StudySteps
  <1> QED
    BY <1>5, <1>6, <1>7 DEF IInv

LEMMA GateKeeps == ASSUME IInv, Gate PROVE IInv'
  <1>1. /\ pc = "gate" /\ pc' \in {"research", "skipped"}
        /\ UNCHANGED <<convo, floor, openWeb, merged, studyVars>>
    BY DEF Gate, Goto
  <1>2. BatchesFit' /\ NoStrangersAddress' /\ FundingFits' /\ StudyTyped' /\ convo' \in Seq(Turns)
    BY <1>1 DEF IInv, TypeOK, SearchTypeOK, studyVars, BatchesFit, NoStrangersAddress,
                FundingFits, StudyTyped
  <1> QED
    BY <1>1, <1>2, StudyGoesOn DEF StudySteps

(* The research keeps it: what turns up fills gaps, what fails costs what  *)
(* was found, and neither touches what the candidate came with.            *)
LEMMA ResearchKeepsIt == ASSUME IInv, ResearchStep PROVE IInv'
  <1>1. /\ cand \in Candidates /\ spotted \subseteq Profiles /\ facts \in Facts
        /\ turn \in 0 .. Len(Providers) /\ lead \in Leads /\ convo \in Seq(Turns)
        /\ FundingFits /\ BatchesFit
    BY DEF IInv, TypeOK, SearchTypeOK
  <1>2. ASSUME ResearchKeeps, pc' \in StudySteps \ {"delivered", "tools"},
               convo' \in Seq(Turns), Answered(convo'),
               spotted' \subseteq Profiles, facts' \in Facts, facts.funding = "given" => facts'.funding = "given"
        PROVE  IInv'
    <2>1. UNCHANGED <<floor, openWeb, merged, cand, turn, lead>>
      BY <1>2 DEF ResearchKeeps
    <2>2. StudyTyped' /\ FundingFits' /\ NoStrangersAddress' /\ BatchesFit'
      BY <1>1, <1>2, <2>1 DEF StudyTyped, FundingFits, NoStrangersAddress, BatchesFit, StudySteps
    <2> QED
      BY <1>2, <2>1, <2>2, StudyGoesOn
  <1>3. ASSUME ResearchKeeps, pc' = "tools", UNCHANGED facts,
               convo' \in Seq(Turns), Halfway(convo'), spotted' \subseteq Profiles
        PROVE  IInv'
    <2>1. UNCHANGED <<floor, openWeb, merged, cand, turn, lead>>
      BY <1>3 DEF ResearchKeeps
    <2>2. StudyTyped' /\ FundingFits' /\ NoStrangersAddress' /\ BatchesFit'
      BY <1>1, <1>3, <2>1 DEF StudyTyped, FundingFits, NoStrangersAddress, BatchesFit
    <2> QED
      BY <1>3, <2>1, <2>2, StudyGoesOn DEF StudySteps
  <1>4. \A hits \in SUBSET Profiles : \A seen \in SearchResults(hits) : seen \subseteq Profiles
    BY DEF SearchResults, Search
  <1> DEFINE Plain == pc \notin {"searchTools", "tools"}
  <1>5. Plain => Answered(convo)
    BY <1>1 DEF BatchesFit
  <1> HIDE DEF Plain
  <1>6. CASE AskResearcher
    <2>1. /\ pc = "research" /\ pc' \in {"asking", "cap"} /\ UNCHANGED <<convo, spotted, facts>>
          /\ ResearchKeeps
      BY <1>6 DEF AskResearcher, Goto
    <2> QED
      BY <1>1, <1>2, <1>5, <2>1 DEF Plain, StudySteps
  <1>7. CASE ResearcherAsksTools
    <2>1. PICK k \in 1 .. MaxBatch : convo' = WithTurn(convo, k)
      BY <1>7 DEF ResearcherAsksTools
    <2>2. pc = "asking" /\ pc' = "tools" /\ UNCHANGED <<spotted, facts>> /\ ResearchKeeps
      BY <1>7 DEF ResearcherAsksTools, Goto
    <2>3. convo' \in Seq(Turns) /\ Halfway(convo')
      BY <1>1, <1>5, <2>1, <2>2, TurnBegins DEF Plain
    <2> QED
      BY <1>1, <1>3, <2>2, <2>3
  <1>8. CASE RunTool
    <2>1. /\ pc = "tools" /\ convo' = WithResult(convo) /\ UNCHANGED facts /\ ResearchKeeps
          /\ pc' = IF Executing(convo') THEN "tools" ELSE "research"
      BY <1>8 DEF RunTool, Goto, BatchGoesOn
    <2>2. spotted' \subseteq Profiles
      BY <1>1, <1>4, <1>8 DEF RunTool
    <2>3. /\ convo' \in Seq(Turns)
          /\ Executing(convo') => Halfway(convo')
          /\ ~Executing(convo') => Answered(convo')
      BY <1>1, <2>1, ResultGoesOn DEF BatchesFit
    <2>4. CASE Executing(convo')
      BY <1>3, <2>1, <2>2, <2>3, <2>4
    <2>5. CASE ~Executing(convo')
      BY <1>1, <1>2, <2>1, <2>2, <2>3, <2>5 DEF StudySteps
    <2> QED
      BY <2>4, <2>5
  <1>9. CASE ResearcherAnswers
    <2>1. PICK says \in Says : facts' = Taken(says) /\ pc' = "fill"
      BY <1>9 DEF ResearcherAnswers, Become, Goto
    <2>2. convo' = <<>> /\ UNCHANGED spotted /\ ResearchKeeps
      BY <1>9 DEF ResearcherAnswers
    <2>3. /\ Taken(says) \in Facts
          /\ cand.funded => Taken(says).funding = "given"
      BY <1>1, TakenIsTyped
    <2>4. UNCHANGED <<floor, openWeb, merged, cand, turn, lead>> /\ pc' \in StudySteps
      BY <2>1, <2>2 DEF ResearchKeeps, StudySteps
    <2>5. BatchesFit' /\ StudyTyped' /\ FundingFits' /\ NoStrangersAddress' /\ convo' \in Seq(Turns)
      BY <1>1, <2>1, <2>2, <2>3, <2>4, NoTurns
      DEF BatchesFit, StudyTyped, FundingFits, NoStrangersAddress
    <2> QED
      BY <2>4, <2>5, StudyGoesOn
  <1>10. CASE CapFails
    BY <1>1, <1>2, <1>10, NoTurns DEF CapFails, Goto, StudySteps
  <1>11. CASE FillProfile
    <2>1. UNCHANGED convo /\ ResearchKeeps /\ pc = "fill" /\ pc' = "attrs"
      BY <1>11 DEF FillProfile, Become, Goto
    <2>2. facts' = facts \/ \E p \in Profiles : facts' = [facts EXCEPT !.profile = p]
      BY <1>1, <1>4, <1>11 DEF FillProfile, Become
    <2>3. facts' \in Facts /\ facts'.funding = facts.funding
      BY <1>1, <2>2, ProfileIsFilled
    <2>4. spotted' \subseteq Profiles
      BY <1>1, <1>4, <1>11 DEF FillProfile
    <2> QED
      BY <1>1, <1>2, <1>5, <2>1, <2>3, <2>4 DEF Plain, StudySteps
  <1>12. CASE FillAttributes
    <2>1. UNCHANGED <<convo, spotted>> /\ ResearchKeeps /\ pc = "attrs" /\ pc' = "score"
      BY <1>12 DEF FillAttributes, Become, Goto
    <2>2. \/ facts' = facts
          \/ \E full, odd \in BOOLEAN : facts' = [facts EXCEPT !.full = full, !.odd = odd]
      BY <1>1, <1>12 DEF FillAttributes, Become, Facts
    <2>3. facts' \in Facts /\ facts'.funding = facts.funding
      BY <1>1, <2>2, RestIsFilled, Zenon
    <2> QED
      BY <1>1, <1>2, <1>5, <2>1, <2>3 DEF Plain, StudySteps
  <1>13. CASE ScoreFit
    <2>1. UNCHANGED <<convo, spotted>> /\ ResearchKeeps /\ pc = "score" /\ pc' = "finish"
      BY <1>13 DEF ScoreFit, Become, Goto
    <2>2. \E odd \in BOOLEAN : facts' = [facts EXCEPT !.odd = odd]
      BY <1>1, <1>13 DEF ScoreFit, Become, Facts
    <2>3. facts' \in Facts /\ facts'.funding = facts.funding
      BY <1>1, <2>2, TypeMayBeOdd, Zenon
    <2> QED
      BY <1>1, <1>2, <1>5, <2>1, <2>3 DEF Plain, StudySteps
  <1>14. CASE FinishResearch
    BY <1>1, <1>2, <1>5, <1>14 DEF FinishResearch, Goto, Plain, StudySteps
  <1>15. CASE ResearchFails
    <2>1. /\ facts' = Carried(cand) /\ pc' = "verify" /\ convo' = <<>> /\ UNCHANGED spotted
          /\ ResearchKeeps
      BY <1>15 DEF ResearchFails, Become, Goto
    <2>2. UNCHANGED <<floor, openWeb, merged, cand, turn, lead>> /\ pc' \in StudySteps
      BY <2>1 DEF ResearchKeeps, StudySteps
    <2>3. BatchesFit' /\ StudyTyped' /\ FundingFits' /\ NoStrangersAddress' /\ convo' \in Seq(Turns)
      BY <1>1, <2>1, <2>2, CarriedIsTyped, NoTurns
      DEF BatchesFit, StudyTyped, FundingFits, NoStrangersAddress
    <2> QED
      BY <2>2, <2>3, StudyGoesOn
  <1> QED
    BY <1>6, <1>7, <1>8, <1>9, <1>10, <1>11, <1>12, <1>13, <1>14, <1>15 DEF ResearchStep

-----------------------------------------------------------------------------
(* The verification                                                        *)

Methods == {"hunter", "abstract", "apollo", "smtp", "none"}

(* A named founder is given no stranger's address by Hunter.               *)
LEMMA HunterPicksStaff ==
    ASSUME NEW listed \in SUBSET Staff
    PROVE  /\ HunterPick(listed) \subseteq Staff
           /\ facts.founder => HunterPick(listed) \subseteq SameName \cup BearsName
  BY StudyAssumption DEF HunterPick

(* A verdict is of somebody at the company, or of a guessed address.       *)
LEMMA VerdictsAreTyped ==
    ASSUME NEW provider \in {"hunter", "abstract", "apollo"}, NEW v \in Verdicts(provider)
    PROVE  /\ v.email \in Staff \cup {Guess, NoEmail} /\ v.score \in 0 .. 100
           /\ v.method \in Methods
           /\ v.method = "hunter" /\ facts.founder => v.email \in SameName \cup BearsName
  <1>1. CASE provider = "hunter"
    <2>1. PICK p \in UNION {HunterPick(l) : l \in SUBSET Staff}, s \in Scores, u \in BOOLEAN :
            v = [email |-> p, score |-> HunterScore(s, u), method |-> "hunter"]
      BY <1>1 DEF Verdicts
    <2>2. p \in Staff /\ (facts.founder => p \in SameName \cup BearsName)
      BY HunterPicksStaff
    <2>3. HunterScore(s, u) \in 0 .. 100
      BY StudyAssumption DEF HunterScore
    <2> QED
      BY <2>1, <2>2, <2>3 DEF Methods
  <1>2. CASE provider = "abstract"
    <2>1. PICK s \in Scores : v = [email |-> Guess, score |-> s, method |-> "abstract"]
      BY <1>2 DEF Verdicts
    <2> QED
      BY <2>1, StudyAssumption DEF Methods
  <1>3. CASE provider = "apollo"
    <2>1. PICK s \in {95, 70, 45, 50} : v = [email |-> Founder, score |-> s, method |-> "apollo"]
      BY <1>3 DEF Verdicts
    <2> QED
      BY <2>1, StudyAssumption DEF Methods
  <1> QED
    BY <1>1, <1>2, <1>3

LEMMA SmtpVerdictsAreTyped ==
    ASSUME NEW v \in SmtpVerdicts
    PROVE  /\ v.email \in Staff \cup {Guess, NoEmail} /\ v.score \in 0 .. 100
           /\ v.method \in Methods \ {"hunter"}
  BY DEF SmtpVerdicts, Methods

(* Confidence is in hundredths of a percent.                               *)
LEMMA ConfidenceIsBounded ==
    ASSUME NEW score \in 0 .. 100, NEW profile \in Profiles \cup {NoProfile}
    PROVE  Confidence(score, profile) \in Nat /\ Confidence(score, profile) <= 10000
  <1> DEFINE w == Weight(profile # NoProfile, 2000)
             x == Weight(facts.founder, 1500)
             y == Weight(facts.funding # "none", 1000)
  <1>1. w \in 0 .. 2000 /\ x \in 0 .. 1500 /\ y \in 0 .. 1000
    BY DEF Weight
  <1>2. Confidence(score, profile) = 55 * score + w + x + y
    BY DEF Confidence
  <1> HIDE DEF w, x, y
  <1>3. 55 * score + w + x + y \in Nat /\ 55 * score + w + x + y <= 10000
    BY <1>1
  <1> QED
    BY <1>2, <1>3

LEMMA VerifyKeepsIt == ASSUME IInv, VerifyStep PROVE IInv'
  <1>1. /\ StudyTyped /\ facts \in Facts /\ convo \in Seq(Turns) /\ FundingFits /\ BatchesFit
        /\ turn \in 0 .. Len(Providers) /\ NoStrangersAddress
    BY DEF IInv, TypeOK, SearchTypeOK, StudyTyped
  <1>2. UNCHANGED <<convo, floor, openWeb, merged, cand, spotted, facts>> /\ pc = "verify"
    BY DEF VerifyStep, ProviderFinds, ProviderPasses, SmtpFallback, Deliver, VerifyKeeps
  <1>3. ASSUME NEW v, Deliver(v), v.email \in Staff \cup {Guess, NoEmail}, v.score \in 0 .. 100,
               v.method \in Methods,
               v.method = "hunter" /\ facts.founder => v.email \in SameName \cup BearsName
        PROVE  IInv'
    <2>1. PICK plausible \in {NoProfile, facts.profile} :
            lead' = [email |-> v.email, score |-> v.score, method |-> v.method,
                     confidence |-> Confidence(v.score, plausible)]
      BY <1>3 DEF Deliver
    <2>2. pc' = "delivered" /\ turn' = turn
      BY <1>3 DEF Deliver, Goto
    <2> DEFINE c == Confidence(v.score, plausible)
    <2>3. lead' \in Leads /\ lead'.method = v.method /\ lead'.email = v.email
      <3>1. c \in 0 .. 10000
        <4>1. v.score \in 0 .. 100 /\ plausible \in Profiles \cup {NoProfile}
          BY <1>1, <1>3 DEF Facts
        <4>2. c \in Nat /\ c <= 10000
          BY <4>1, ConfidenceIsBounded
        <4> HIDE DEF c
        <4> QED
          BY <4>2
      <3> HIDE DEF c
      <3>2. lead' = [email |-> v.email, score |-> v.score, method |-> v.method, confidence |-> c]
        BY <2>1 DEF c
      <3> QED
        BY <1>3, <3>1, <3>2 DEF Leads, Methods
    <2>4. StudyTyped' /\ FundingFits' /\ BatchesFit' /\ NoStrangersAddress'
      BY <1>1, <1>2, <1>3, <2>2, <2>3
      DEF StudyTyped, FundingFits, BatchesFit, NoStrangersAddress
    <2> QED
      BY <1>1, <1>2, <2>2, <2>4, StudyGoesOn DEF StudySteps
  <1>4. CASE ProviderFinds
    <2>1. PICK v \in Verdicts(Providers[turn + 1]) : Deliver(v)
      BY <1>4 DEF ProviderFinds
    <2>2. Providers[turn + 1] \in {"hunter", "abstract", "apollo"}
      BY <1>1, <1>4, StudyAssumption DEF ProviderFinds
    <2>3. /\ v.email \in Staff \cup {Guess, NoEmail} /\ v.score \in 0 .. 100
          /\ v.method \in Methods
          /\ v.method = "hunter" /\ facts.founder => v.email \in SameName \cup BearsName
      BY <2>2, VerdictsAreTyped
    <2> QED
      BY <1>3, <2>1, <2>3
  <1>5. CASE ProviderPasses
    <2>1. turn' \in 0 .. Len(Providers) /\ UNCHANGED <<pc, lead>>
      BY <1>1, <1>5, StudyAssumption DEF ProviderPasses
    <2>2. StudyTyped' /\ FundingFits' /\ BatchesFit' /\ NoStrangersAddress'
      BY <1>1, <1>2, <2>1 DEF StudyTyped, FundingFits, BatchesFit, NoStrangersAddress
    <2> QED
      BY <1>1, <1>2, <2>1, <2>2, StudyGoesOn DEF StudySteps
  <1>6. CASE SmtpFallback
    <2>1. PICK v \in SmtpVerdicts : Deliver(v)
      BY <1>6 DEF SmtpFallback
    <2> QED
      BY <1>3, <2>1, SmtpVerdictsAreTyped
  <1> QED
    BY <1>4, <1>5, <1>6 DEF VerifyStep

-----------------------------------------------------------------------------
(* What follows                                                            *)

LEMMA InitIInv == Init => IInv
  <1> SUFFICES ASSUME Init PROVE IInv
    OBVIOUS
  <1>1. NoCandidate \in Candidates /\ ~NoCandidate.funded
    BY SearchAssumption DEF NoCandidate, Candidates
  <1>2. Carried(NoCandidate) \in Facts
    BY <1>1, CarriedIsTyped
  <1>3. NoLead \in Leads
    BY DEF NoLead, Leads
  <1>4. Len(Providers) \in Nat
    BY StudyAssumption
  <1>5. TypeOK /\ ListsFit
    BY <1>1, <1>2, <1>3, <1>4
    DEF Init, SearchInit, TypeOK, SearchTypeOK, SearchSteps, NoFloor, ListsFit, Sources
  <1>6. BatchesFit /\ FundingFits /\ NoStrangersAddress /\ NothingListedIsLost
    BY <1>1, NoTurns
    DEF Init, SearchInit, BatchesFit, FundingFits, NoStrangersAddress, NothingListedIsLost
  <1> QED
    BY <1>5, <1>6 DEF IInv

(* The invariant holds in every state, whatever models, searches, sources  *)
(* and providers answer.                                                   *)
THEOREM IInvHolds == Spec => []IInv
  <1>1. Init => IInv
    BY InitIInv
  <1>2. IInv /\ [Next]_vars => IInv'
    <2> SUFFICES ASSUME IInv, [Next]_vars PROVE IInv'
      OBVIOUS
    <2>1. CASE SearchStep /\ UNCHANGED studyVars
      BY <2>1, SearchKeeps
    <2>2. CASE Pick
      BY <2>2, PickKeeps
    <2>3. CASE Gate
      BY <2>3, GateKeeps
    <2>4. CASE ResearchStep
      BY <2>4, ResearchKeepsIt
    <2>5. CASE VerifyStep
      BY <2>5, VerifyKeepsIt
    <2>6. CASE UNCHANGED vars
      BY <2>6 DEF vars, IInv, TypeOK, SearchTypeOK, ListsFit, BatchesFit, FundingFits,
                  NoStrangersAddress, NothingListedIsLost
    <2> QED
      BY <2>1, <2>2, <2>3, <2>4, <2>5, <2>6 DEF Next
  <1> QED
    BY <1>1, <1>2, PTL DEF Spec

(* Every variable has its type; the confidence of a lead stays within 100. *)
THEOREM TypeIsSafe == Spec => []TypeOK
  <1>1. IInv => TypeOK
    BY DEF IInv
  <1> QED
    BY <1>1, IInvHolds, PTL

(* discovery.py merges by domain: a company that a source or the open web  *)
(* listed is in the result, once, and in the open web's words if it has    *)
(* any, also when the open web broke down.                                 *)
THEOREM DiscoveryLosesNothing == Spec => []NothingListedIsLost
  <1>1. IInv => NothingListedIsLost
    BY DEF IInv
  <1> QED
    BY <1>1, IInvHolds, PTL

(* No request of discovery or of the research leaves while a tool_use      *)
(* block has no tool_result, whatever the caps and the size of a batch.    *)
THEOREM NoBlockIsUnanswered == Spec => []RequestsAreAnswered
  <1>1. IInv => RequestsAreAnswered
    BY DEF IInv, BatchesFit, RequestsAreAnswered
  <1> QED
    BY <1>1, IInvHolds, PTL

(* The funding a source gave with a candidate reaches the verification and *)
(* the lead as it was given.                                               *)
THEOREM FundingReachesTheLead == Spec => []FundingIsCarried
  <1>1. IInv => FundingIsCarried
    BY DEF IInv, FundingFits, FundingIsCarried
  <1> QED
    BY <1>1, IInvHolds, PTL

(* For a named founder, Hunter's address bears one of his names.           *)
THEOREM FounderGetsHisOwn == Spec => []NoStrangersAddress
  <1>1. IInv => NoStrangersAddress
    BY DEF IInv
  <1> QED
    BY <1>1, IInvHolds, PTL

-----------------------------------------------------------------------------
(* The event streams that watch the hunts of such candidates, HuntEvents,  *)
(* for any number of panels, hunts and rows and any page size              *)

PanelShape ==
    /\ audit \in Seq(Hunts) /\ status \in [Hunts -> Statuses]
    /\ stream \in [Panels -> [at : {"closed", "rows", "status"}, last : Nat]]
    /\ panel \in [Panels -> [hunt : Hunts \cup {None}, status : Statuses, shown : Seq(Nat)]]

\* An open stream has told its panel the rows up to the last one it read, and
\* the panel does not turn to another hunt before it ends.
Told(p) == {i \in RowsOf(panel[p].hunt) : i <= stream[p].last}
StreamFits(p) ==
    stream[p].at # "closed" =>
       /\ Active(p) /\ stream[p].last <= Len(audit)
       /\ ToSet(panel[p].shown) = Told(p)

EventsInv == PanelShape /\ ShownIsAPrefix /\ \A p \in Panels : StreamFits(p)

\* A function on 1 .. n is a sequence.
LEMMA NumberedIsSeq == \A S, n, f : n \in Nat /\ f \in [1 .. n -> S] => f \in Seq(S)
  OBVIOUS

\* A page is a finite set of rows, each after the last one seen.
LEMMA PageFits ==
  ASSUME audit \in Seq(Hunts), NEW h, NEW last \in Nat
  PROVE  IsFiniteSet(Page(h, last)) /\ \A i \in Page(h, last) : i \in RowsOf(h) /\ i > last
<1>1. RowsOf(h) \subseteq 1 .. Len(audit) /\ Len(audit) \in Nat
  BY DEF RowsOf
<1>2. IsFiniteSet(1 .. Len(audit))
  BY <1>1, FS_Interval
<1>3. Page(h, last) \subseteq 1 .. Len(audit) /\ \A i \in Page(h, last) : i \in RowsOf(h) /\ i > last
  BY <1>1 DEF Page
<1>4. QED
  BY <1>2, <1>3, FS_Subset

\* It leaves out no row before one of its own.
LEMMA PageHasNoGap ==
  ASSUME audit \in Seq(Hunts), NEW h, NEW last \in Nat,
         NEW i \in Page(h, last), NEW j \in RowsOf(h), last < j, j <= i
  PROVE  j \in Page(h, last)
<1> DEFINE upto(k) == {e \in RowsOf(h) : last < e /\ e <= k}
<1>1. RowsOf(h) \subseteq 1 .. Len(audit) /\ Len(audit) \in Nat
  BY DEF RowsOf
<1>2. i \in RowsOf(h) /\ Cardinality(upto(i)) <= PageLimit
  BY DEF Page
<1>3. upto(j) \subseteq upto(i)
  <2>1. \A e \in RowsOf(h) : e <= j => e <= i
    BY <1>1, <1>2
  <2>2. QED
    BY <2>1
<1>4. IsFiniteSet(upto(i))
  <2>1. IsFiniteSet(1 .. Len(audit)) /\ upto(i) \subseteq 1 .. Len(audit)
    BY <1>1, FS_Interval
  <2>2. QED
    BY <2>1, FS_Subset
<1>5. Cardinality(upto(j)) <= Cardinality(upto(i)) /\ Cardinality(upto(j)) \in Nat
      /\ Cardinality(upto(i)) \in Nat
  <2> HIDE DEF upto
  <2>1. QED
    BY <1>3, <1>4, FS_Subset, FS_CardinalityType
<1>6. Cardinality(upto(j)) <= PageLimit
  <2> HIDE DEF upto
  <2>1. QED
    BY <1>2, <1>5, EventsAssumption
<1>7. QED
  BY <1>6 DEF Page

\* The rows read are those of the page, in their order.
LEMMA SinceFits ==
  ASSUME audit \in Seq(Hunts), NEW h, NEW last \in Nat, NEW rows \in Since(h, last)
  PROVE  /\ rows \in Seq(Nat) /\ ToSet(rows) = Page(h, last)
         /\ \A k, l \in DOMAIN rows : k < l => rows[k] < rows[l]
         /\ rows # <<>> => Last(rows) \in Page(h, last)
                           /\ \A i \in Page(h, last) : i <= Last(rows)
<1> DEFINE S == Page(h, last)
           n == Cardinality(S)
<1>1. IsFiniteSet(S) /\ S \subseteq Nat
  BY PageFits DEF RowsOf
<1>2. n \in Nat /\ rows \in [1 .. n -> S] /\ \A k, l \in 1 .. n : k # l => rows[k] # rows[l]
  BY <1>1, FS_CardinalityType DEF Since, SetToSeqs
<1>3. \A k, l \in DOMAIN rows : k < l => rows[k] < rows[l]
  BY DEF Since
<1> HIDE DEF S, n
<1>4. n = Cardinality(S)
  BY DEF n
<1>5. rows \in Surjection(1 .. n, S)
  <2>1. rows \in Injection(1 .. n, S)
    BY <1>2 DEF Injection, IsInjective
  <2>2. Cardinality(1 .. n) = n
    BY <1>2, FS_Interval
  <2>3. QED
    BY <1>1, <1>4, <2>1, <2>2, FS_Injection
<1>6. rows \in Seq(Nat) /\ Len(rows) = n /\ DOMAIN rows = 1 .. n
  <2>1. rows \in [1 .. n -> Nat]
    BY <1>1, <1>2
  <2>2. rows \in Seq(Nat)
    BY <1>2, <2>1, NumberedIsSeq
  <2>3. QED
    BY <1>2, <2>1, <2>2
<1>7. ToSet(rows) = S
  BY <1>5, <1>6 DEF ToSet, Surjection
<1>8. ASSUME rows # <<>>
      PROVE  Last(rows) \in S /\ \A i \in S : i <= Last(rows)
  <2>1. n \in 1 .. n /\ Last(rows) = rows[n]
    BY <1>2, <1>6, <1>8 DEF Last
  <2>2. \A k \in 1 .. n : rows[k] <= rows[n]
    BY <1>1, <1>2, <1>3, <1>6, <2>1
  <2>3. QED
    BY <1>2, <1>5, <2>1, <2>2 DEF Surjection
<1>9. QED
  BY <1>3, <1>6, <1>7, <1>8 DEF S

\* A sequence and one behind it: their members and their order.
LEMMA Behind ==
  ASSUME NEW s \in Seq(Nat), NEW t \in Seq(Nat),
         \A k, l \in DOMAIN s : k < l => s[k] < s[l],
         \A k, l \in DOMAIN t : k < l => t[k] < t[l],
         \A i \in ToSet(s), j \in ToSet(t) : i < j
  PROVE  /\ s \o t \in Seq(Nat) /\ ToSet(s \o t) = ToSet(s) \cup ToSet(t)
         /\ \A k, l \in DOMAIN (s \o t) : k < l => (s \o t)[k] < (s \o t)[l]
<1> DEFINE u == s \o t
<1>1. /\ u \in Seq(Nat) /\ Len(u) = Len(s) + Len(t) /\ Len(s) \in Nat /\ Len(t) \in Nat
      /\ DOMAIN s = 1 .. Len(s) /\ DOMAIN t = 1 .. Len(t) /\ DOMAIN u = 1 .. Len(u)
      /\ \A k \in 1 .. Len(s) : s[k] \in Nat /\ u[k] = s[k]
      /\ \A k \in 1 .. Len(t) : u[Len(s) + k] = t[k]
  OBVIOUS
<1> HIDE DEF u
<1>2. \A k \in DOMAIN u : k \in DOMAIN s \/ (k > Len(s) /\ k - Len(s) \in DOMAIN t
                                             /\ u[k] = t[k - Len(s)])
  <2>1. ASSUME NEW k \in DOMAIN u, k \notin DOMAIN s
        PROVE  k > Len(s) /\ k - Len(s) \in 1 .. Len(t) /\ k = Len(s) + (k - Len(s))
    BY <1>1, <2>1
  <2>2. QED
    BY <1>1, <2>1
<1>3. ToSet(u) = ToSet(s) \cup ToSet(t)
  <2>1. ToSet(u) \subseteq ToSet(s) \cup ToSet(t)
    BY <1>1, <1>2 DEF ToSet
  <2>2. ToSet(s) \subseteq ToSet(u)
    <3>1. \A k \in 1 .. Len(s) : k \in DOMAIN u
      BY <1>1
    <3>2. QED
      BY <1>1, <3>1 DEF ToSet
  <2>3. ToSet(t) \subseteq ToSet(u)
    <3>1. \A k \in 1 .. Len(t) : Len(s) + k \in DOMAIN u
      BY <1>1
    <3>2. QED
      BY <1>1, <3>1 DEF ToSet
  <2>4. QED
    BY <2>1, <2>2, <2>3
<1>4. ASSUME NEW k \in DOMAIN u, NEW l \in DOMAIN u, k < l
      PROVE  u[k] < u[l]
  <2>1. CASE l \in DOMAIN s
    <3>1. k \in DOMAIN s
      BY <1>1, <1>4, <2>1
    <3>2. QED
      BY <1>1, <1>4, <2>1, <3>1
  <2>2. CASE l \notin DOMAIN s /\ k \in DOMAIN s
    BY <1>1, <1>2, <2>2 DEF ToSet
  <2>3. CASE l \notin DOMAIN s /\ k \notin DOMAIN s
    <3>1. k - Len(s) < l - Len(s)
      BY <1>1, <1>4
    <3>2. QED
      BY <1>2, <2>3, <3>1
  <2>4. QED
    BY <2>1, <2>2, <2>3
<1>5. QED
  BY <1>1, <1>3, <1>4 DEF u

\* At first no panel knows a hunt and no stream is open.
LEMMA EventsInvStarts == EventsInit => EventsInv
<1>1. SUFFICES ASSUME EventsInit PROVE EventsInv
  OBVIOUS
<1>2. \A p \in Panels : panel[p] = Blank /\ stream[p] = Closed
  BY <1>1 DEF EventsInit
<1>3. PanelShape
  <2>1. Closed \in [at : {"closed", "rows", "status"}, last : Nat]
    BY DEF Closed
  <2>2. Blank \in [hunt : Hunts \cup {None}, status : Statuses, shown : Seq(Nat)]
    BY DEF Blank, Statuses
  <2>3. QED
    BY <1>1, <2>1, <2>2 DEF EventsInit, PanelShape, Statuses
<1>4. QED
  BY <1>2, <1>3 DEF EventsInv, ShownIsAPrefix, StreamFits, Blank, Closed

\* A row that is added comes after all that were shown.
LEMMA TraceKeeps ==
  ASSUME EventsInv, NEW h \in Hunts, audit' = Append(audit, h), UNCHANGED <<status, stream, panel>>
  PROVE  EventsInv'
<1>1. audit \in Seq(Hunts) /\ audit' \in Seq(Hunts) /\ Len(audit) \in Nat /\ Len(audit') = Len(audit) + 1
      /\ \A i \in 1 .. Len(audit) : audit'[i] = audit[i]
  BY DEF EventsInv, PanelShape
<1>2. /\ \A e : RowsOf(e) \subseteq 1 .. Len(audit)
      /\ \A e : RowsOf(e) \subseteq RowsOf(e)'
      /\ \A e : \A i \in RowsOf(e)' : i \in Nat /\ (i \in RowsOf(e) \/ i > Len(audit))
  BY <1>1 DEF RowsOf
<1>3. PanelShape'
  BY <1>1 DEF EventsInv, PanelShape
<1>4. ASSUME NEW p \in Panels PROVE StreamFits(p)'
  <2>1. CASE stream[p].at = "closed"
    BY <2>1 DEF StreamFits
  <2>2. CASE stream[p].at # "closed"
    <3>1. StreamFits(p) /\ stream[p].last \in Nat
      BY DEF EventsInv, PanelShape
    <3>2. stream[p].last <= Len(audit)
      BY <2>2, <3>1 DEF StreamFits
    <3>3. Told(p)' = Told(p)
      BY <1>1, <1>2, <3>1, <3>2 DEF Told
    <3>4. QED
      BY <1>1, <2>2, <3>1, <3>2, <3>3 DEF StreamFits, Active
  <2>3. QED
    BY <2>1, <2>2
<1>5. ShownIsAPrefix'
  <2>1. SUFFICES ASSUME NEW p \in Panels, panel[p].hunt # None
                 PROVE  /\ ToSet(panel[p].shown) \subseteq RowsOf(panel[p].hunt)'
                        /\ \A i \in RowsOf(panel[p].hunt)', k \in DOMAIN panel[p].shown :
                              i <= panel[p].shown[k] => i \in ToSet(panel[p].shown)
    BY DEF EventsInv, ShownIsAPrefix
  <2>2. /\ ToSet(panel[p].shown) \subseteq RowsOf(panel[p].hunt)
        /\ \A i \in RowsOf(panel[p].hunt), k \in DOMAIN panel[p].shown :
              i <= panel[p].shown[k] => i \in ToSet(panel[p].shown)
    BY <2>1 DEF EventsInv, ShownIsAPrefix
  <2>3. \A k \in DOMAIN panel[p].shown : panel[p].shown[k] \in 1 .. Len(audit)
    BY <1>2, <2>2 DEF ToSet
  <2>4. QED
    BY <1>1, <1>2, <2>2, <2>3
<1>6. QED
  BY <1>3, <1>4, <1>5 DEF EventsInv

\* Nothing is shown anew, a stream may close, a panel may turn away.
LEMMA PanelKeeps ==
  ASSUME EventsInv, PanelShape', UNCHANGED audit,
         \A p \in Panels :
            /\ \/ UNCHANGED <<panel[p].hunt, panel[p].shown>>
               \/ panel'[p].shown = <<>>
            /\ \/ stream'[p].at = "closed"
               \/ /\ UNCHANGED panel[p]
                  /\ stream[p].at # "closed" /\ stream'[p].last = stream[p].last
               \/ /\ UNCHANGED <<panel[p].hunt, panel[p].shown>> /\ Active(p)'
                  /\ stream[p].at # "closed" /\ stream'[p].last = stream[p].last
               \/ panel'[p].shown = <<>> /\ Active(p)' /\ stream'[p].last = 0
  PROVE  EventsInv'
<1>1. \A e : RowsOf(e)' = RowsOf(e) /\ RowsOf(e) \subseteq Nat \ {0}
  BY DEF RowsOf, EventsInv, PanelShape
<1>2. ShownIsAPrefix'
  <2>1. SUFFICES ASSUME NEW p \in Panels, panel'[p].hunt # None
                 PROVE  /\ \A k, l \in DOMAIN panel'[p].shown : k < l => panel'[p].shown[k] < panel'[p].shown[l]
                        /\ ToSet(panel'[p].shown) \subseteq RowsOf(panel'[p].hunt)
                        /\ \A i \in RowsOf(panel'[p].hunt), k \in DOMAIN panel'[p].shown :
                              i <= panel'[p].shown[k] => i \in ToSet(panel'[p].shown)
    BY <1>1 DEF ShownIsAPrefix
  <2>2. CASE panel'[p].shown = <<>>
    BY <2>2 DEF ToSet
  <2>3. CASE panel'[p].hunt = panel[p].hunt /\ panel'[p].shown = panel[p].shown
    BY <2>1, <2>3 DEF EventsInv, ShownIsAPrefix
  <2>4. QED
    BY <2>2, <2>3
<1>3. ASSUME NEW p \in Panels, stream'[p].at # "closed"
      PROVE  StreamFits(p)'
  <2>1. CASE stream[p].at # "closed" /\ stream'[p].last = stream[p].last
             /\ panel'[p].hunt = panel[p].hunt /\ panel'[p].shown = panel[p].shown /\ Active(p)'
    BY <1>1, <2>1 DEF EventsInv, StreamFits, Told
  <2>2. CASE panel'[p].shown = <<>> /\ Active(p)' /\ stream'[p].last = 0
    <3>1. ToSet(panel'[p].shown) = {}
      BY <2>2 DEF ToSet
    <3>2. Told(p)' = {}
      BY <1>1, <2>2 DEF Told
    <3>3. Len(audit') \in Nat
      BY DEF EventsInv, PanelShape
    <3>4. QED
      BY <2>2, <3>1, <3>2, <3>3 DEF StreamFits
  <2>3. CASE stream[p].at # "closed" /\ stream'[p].last = stream[p].last /\ UNCHANGED panel[p]
    <3>1. Active(p)'
      BY <2>3 DEF EventsInv, StreamFits, Active
    <3>2. QED
      BY <2>1, <2>3, <3>1
  <2>4. QED
    BY <1>3, <2>1, <2>2, <2>3
<1>4. QED
  BY <1>2, <1>3 DEF EventsInv, StreamFits

\* A poll of the rows goes on where the last one ended.
LEMMA ReadRowsKeeps ==
  ASSUME EventsInv, NEW p \in Panels, ReadRows(p)
  PROVE  EventsInv'
<1> DEFINE h == panel[p].hunt
           last == stream[p].last
           shown == panel[p].shown
<1>1. PICK rows \in Since(h, last) :
         /\ panel' = [panel EXCEPT ![p].shown = @ \o rows]
         /\ stream' = [stream EXCEPT ![p] =
               [at |-> "status", last |-> IF rows = <<>> THEN @.last ELSE Last(rows)]]
  BY DEF ReadRows
<1>2. /\ audit \in Seq(Hunts) /\ Len(audit) \in Nat /\ last \in Nat /\ shown \in Seq(Nat)
      /\ stream[p].at = "rows" /\ StreamFits(p) /\ UNCHANGED <<audit, status>>
  BY DEF EventsInv, PanelShape, ReadRows
<1>3. Active(p) /\ last <= Len(audit) /\ ToSet(shown) = Told(p)
  BY <1>2 DEF StreamFits
<1>4. h # None /\ \A k, l \in DOMAIN shown : k < l => shown[k] < shown[l]
  BY <1>3 DEF EventsInv, ShownIsAPrefix, Active
<1>5. Told(p) = {i \in RowsOf(h) : i <= last} /\ RowsOf(h) \subseteq 1 .. Len(audit)
  BY <1>2 DEF Told, RowsOf
<1> HIDE DEF h, last, shown
<1>6. /\ rows \in Seq(Nat) /\ ToSet(rows) = Page(h, last)
      /\ \A k, l \in DOMAIN rows : k < l => rows[k] < rows[l]
      /\ rows # <<>> => Last(rows) \in Page(h, last) /\ \A i \in Page(h, last) : i <= Last(rows)
  BY <1>2, SinceFits
<1>7. \A i \in Page(h, last) : i \in RowsOf(h) /\ i > last
  BY <1>2, PageFits
<1>8. /\ shown \o rows \in Seq(Nat) /\ ToSet(shown \o rows) = ToSet(shown) \cup ToSet(rows)
      /\ \A k, l \in DOMAIN (shown \o rows) : k < l => (shown \o rows)[k] < (shown \o rows)[l]
  <2>1. \A i \in ToSet(shown), j \in ToSet(rows) : i < j
    BY <1>2, <1>3, <1>5, <1>6, <1>7
  <2>2. QED
    BY <1>2, <1>4, <1>6, <2>1, Behind
<1> DEFINE upto == IF rows = <<>> THEN last ELSE Last(rows)
<1>9. /\ upto \in Nat /\ upto <= Len(audit)
      /\ ToSet(shown \o rows) = {i \in RowsOf(h) : i <= upto}
  <2>1. CASE rows = <<>>
    <3>1. ToSet(rows) = {}
      BY <2>1 DEF ToSet
    <3>2. QED
      BY <1>2, <1>3, <1>5, <1>8, <2>1, <3>1
  <2>2. CASE rows # <<>>
    <3>1. upto = Last(rows) /\ upto \in RowsOf(h) /\ upto > last /\ upto \in Page(h, last)
      BY <1>6, <1>7, <2>2
    <3> HIDE DEF upto
    <3>2. upto \in Nat /\ upto <= Len(audit)
      BY <1>2, <1>5, <3>1
    <3>3. ASSUME NEW i \in RowsOf(h), last < i, i <= upto PROVE i \in Page(h, last)
      BY <1>2, <3>1, <3>3, PageHasNoGap
    <3>4. \A i \in RowsOf(h) : i <= upto <=> i <= last \/ i \in Page(h, last)
      BY <1>2, <1>5, <1>6, <1>7, <2>2, <3>1, <3>2, <3>3
    <3>5. QED
      BY <1>3, <1>5, <1>6, <1>7, <1>8, <3>2, <3>4
  <2>3. QED
    BY <2>1, <2>2
<1>10. /\ panel'[p] = [panel[p] EXCEPT !.shown = shown \o rows]
       /\ stream'[p] = [at |-> "status", last |-> upto]
       /\ \A q \in Panels : q # p => panel'[q] = panel[q] /\ stream'[q] = stream[q]
  BY <1>1 DEF EventsInv, PanelShape, last, shown
<1> HIDE DEF upto
<1>11. \A e : RowsOf(e)' = RowsOf(e)
  BY <1>2 DEF RowsOf
<1>12. PanelShape'
  <2>1. panel'[p] \in [hunt : Hunts \cup {None}, status : Statuses, shown : Seq(Nat)]
    BY <1>8, <1>10 DEF EventsInv, PanelShape
  <2>2. stream'[p] \in [at : {"closed", "rows", "status"}, last : Nat]
    BY <1>9, <1>10
  <2>3. /\ panel' = [panel EXCEPT ![p] = panel'[p]]
        /\ stream' = [stream EXCEPT ![p] = stream'[p]]
    BY <1>1 DEF EventsInv, PanelShape
  <2>4. QED
    BY <1>2, <2>1, <2>2, <2>3 DEF EventsInv, PanelShape
<1>13. panel'[p].hunt = h /\ panel'[p].status = panel[p].status /\ panel'[p].shown = shown \o rows
  BY <1>10 DEF EventsInv, PanelShape, h
<1>14. ShownIsAPrefix'
  <2>1. ASSUME NEW q \in Panels, q # p, panel'[q].hunt # None
        PROVE  /\ \A k, l \in DOMAIN panel'[q].shown : k < l => panel'[q].shown[k] < panel'[q].shown[l]
               /\ ToSet(panel'[q].shown) \subseteq RowsOf(panel'[q].hunt)
               /\ \A i \in RowsOf(panel'[q].hunt), k \in DOMAIN panel'[q].shown :
                     i <= panel'[q].shown[k] => i \in ToSet(panel'[q].shown)
    BY <1>10, <2>1 DEF EventsInv, ShownIsAPrefix
  <2>2. /\ ToSet(shown \o rows) \subseteq RowsOf(h)
        /\ \A i \in RowsOf(h), k \in DOMAIN (shown \o rows) :
              i <= (shown \o rows)[k] => i \in ToSet(shown \o rows)
    <3>1. \A k \in DOMAIN (shown \o rows) : (shown \o rows)[k] \in ToSet(shown \o rows)
      BY DEF ToSet
    <3>2. \A k \in DOMAIN (shown \o rows) : (shown \o rows)[k] \in Nat /\ (shown \o rows)[k] <= upto
      BY <1>5, <1>9, <3>1
    <3>3. \A i \in RowsOf(h), k \in DOMAIN (shown \o rows) : i <= (shown \o rows)[k] => i <= upto
      BY <1>5, <1>9, <3>2
    <3>4. QED
      BY <1>9, <3>3
  <2>3. QED
    BY <1>8, <1>11, <1>13, <2>1, <2>2 DEF ShownIsAPrefix
<1>15. ASSUME NEW q \in Panels PROVE StreamFits(q)'
  <2>1. CASE q = p
    <3>1. Active(p)'
      BY <1>3, <1>13 DEF Active, h
    <3>2. Told(p)' = {i \in RowsOf(h) : i <= upto}
      BY <1>10, <1>11, <1>13 DEF Told
    <3>3. stream'[p].last = upto /\ audit' = audit /\ ToSet(panel'[p].shown) = Told(p)'
      BY <1>2, <1>9, <1>10, <1>13, <3>2
    <3>4. QED
      BY <1>9, <2>1, <3>1, <3>3 DEF StreamFits
  <2>2. CASE q # p
    BY <1>2, <1>10, <1>11, <2>2 DEF EventsInv, StreamFits, Active, Told
  <2>3. QED
    BY <2>1, <2>2
<1>16. QED
  BY <1>12, <1>14, <1>15 DEF EventsInv

\* A step of a hunt adds a row or none.
LEMMA AuditStepKeeps ==
  ASSUME EventsInv, NEW h \in Hunts, HuntStep(h)
  PROVE  EventsInv'
<1>1. UNCHANGED <<stream, panel>>
  BY DEF HuntStep
<1>2. CASE Work(h) \/ Conclude(h) \/ ReportError(h)
  <2>1. audit' = Append(audit, h) /\ UNCHANGED status
    BY <1>2 DEF Work, Conclude, ReportError, Trace
  <2>2. QED
    BY <1>1, <2>1, TraceKeeps
<1>3. CASE Begin(h) \/ Succeed(h) \/ Raise(h) \/ MarkFailed(h) \/ GiveUp(h)
  <2>1. UNCHANGED audit /\ status' \in [Hunts -> Statuses]
    BY <1>3 DEF Begin, Succeed, Raise, MarkFailed, GiveUp, Mark, EventsInv, PanelShape, Statuses, Terminal
  <2>2. PanelShape'
    BY <1>1, <2>1 DEF EventsInv, PanelShape
  <2>3. QED
    BY <1>1, <2>1, <2>2, PanelKeeps
<1>4. QED
  BY <1>2, <1>3 DEF HuntStep

\* A status read, a lost connection and a reload show nothing new.
LEMMA PanelStepKeeps ==
  ASSUME EventsInv, NEW p \in Panels, ReadStatus(p) \/ LoseStream(p) \/ ReloadPage(p)
  PROVE  EventsInv'
<1>1. UNCHANGED <<audit, status>> /\ Closed \in [at : {"closed", "rows", "status"}, last : Nat]
      /\ Blank \in [hunt : Hunts \cup {None}, status : Statuses, shown : Seq(Nat)]
  BY DEF ReadStatus, LoseStream, ReloadPage, Closed, Blank, Statuses
<1>2. CASE ReadStatus(p)
  <2> DEFINE s == status[panel[p].hunt]
  <2>1. stream[p].at = "status" /\ Active(p)
    BY <1>2 DEF ReadStatus, EventsInv, StreamFits
  <2>2. s \in Statuses
    BY <2>1 DEF EventsInv, PanelShape, Active
  <2>3. /\ panel' = [panel EXCEPT ![p].status = s]
        /\ stream' = [stream EXCEPT ![p] = IF EndsStream(s) THEN Closed ELSE [@ EXCEPT !.at = "rows"]]
    BY <1>2 DEF ReadStatus
  <2> HIDE DEF s
  <2>4. PanelShape'
    BY <1>1, <2>2, <2>3 DEF EventsInv, PanelShape
  <2>5. /\ panel'[p].hunt = panel[p].hunt /\ panel'[p].shown = panel[p].shown /\ panel'[p].status = s
        /\ \A q \in Panels : q # p => panel'[q] = panel[q] /\ stream'[q] = stream[q]
    BY <2>3 DEF EventsInv, PanelShape
  <2>6. \/ stream'[p].at = "closed"
        \/ stream'[p].last = stream[p].last /\ s \notin Terminal
    BY <2>3 DEF EventsInv, PanelShape, EndsStream, Closed
  <2>7. stream'[p].at = "closed" \/ Active(p)'
    BY <2>1, <2>5, <2>6 DEF Active
  <2>8. QED
    BY <1>1, <2>1, <2>4, <2>5, <2>6, <2>7, PanelKeeps
<1>3. CASE LoseStream(p)
  <2>1. panel' = panel /\ stream' = [stream EXCEPT ![p] = Closed]
    BY <1>3 DEF LoseStream
  <2>2. PanelShape'
    BY <1>1, <2>1 DEF EventsInv, PanelShape
  <2>3. stream'[p].at = "closed" /\ \A q \in Panels : q # p => stream'[q] = stream[q]
    BY <2>1 DEF EventsInv, PanelShape, Closed
  <2>4. QED
    BY <1>1, <2>1, <2>2, <2>3, PanelKeeps
<1>4. CASE ReloadPage(p)
  <2>1. panel' = [panel EXCEPT ![p] = Blank] /\ stream' = [stream EXCEPT ![p] = Closed]
    BY <1>4 DEF ReloadPage
  <2>2. PanelShape'
    BY <1>1, <2>1 DEF EventsInv, PanelShape
  <2>3. /\ stream'[p].at = "closed" /\ panel'[p].shown = <<>>
        /\ \A q \in Panels : q # p => stream'[q] = stream[q] /\ panel'[q] = panel[q]
    BY <2>1 DEF EventsInv, PanelShape, Closed, Blank
  <2>4. QED
    BY <1>1, <2>2, <2>3, PanelKeeps
<1>5. QED
  BY <1>2, <1>3, <1>4

\* A panel opens a stream only when none of its own is open.
LEMMA OpeningKeeps ==
  ASSUME EventsInv, NEW p \in Panels, NEW h \in Hunts, StartHunt(p, h) \/ Watch(p, h)
  PROVE  EventsInv'
<1>1. ~Active(p) /\ stream[p].at = "closed" /\ UNCHANGED audit /\ h # None
  BY EventsAssumption DEF StartHunt, Watch, EventsInv, StreamFits
<1>2. status' \in [Hunts -> Statuses]
  BY DEF StartHunt, Watch, Mark, EventsInv, PanelShape, Statuses
<1>3. CASE /\ stream' = [stream EXCEPT ![p] = Opened]
           /\ \/ panel' = [panel EXCEPT ![p] = [Blank EXCEPT !.hunt = h]]
              \/ panel' = [panel EXCEPT ![p] = [Blank EXCEPT !.hunt = h, !.status = "pending"]]
  <2>1. PICK st \in {"none", "pending"} :
           panel' = [panel EXCEPT ![p] = [hunt |-> h, status |-> st, shown |-> <<>>]]
    BY <1>3 DEF Blank
  <2>2. stream' = [stream EXCEPT ![p] = [at |-> "rows", last |-> 0]]
    BY <1>3 DEF Opened
  <2>3. [hunt |-> h, status |-> st, shown |-> <<>>] \in
           [hunt : Hunts \cup {None}, status : Statuses, shown : Seq(Nat)]
    BY DEF Statuses
  <2>4. PanelShape'
    BY <1>1, <1>2, <2>1, <2>2, <2>3 DEF EventsInv, PanelShape
  <2>5. /\ panel'[p].shown = <<>> /\ panel'[p].hunt = h /\ panel'[p].status \notin Terminal
        /\ stream'[p].last = 0
        /\ \A q \in Panels : q # p => stream'[q] = stream[q] /\ panel'[q] = panel[q]
    BY <2>1, <2>2 DEF EventsInv, PanelShape, Terminal
  <2>6. Active(p)'
    BY <1>1, <2>5 DEF Active
  <2>7. QED
    BY <1>1, <2>4, <2>5, <2>6, PanelKeeps
<1>4. CASE stream' = stream /\ panel' = [panel EXCEPT ![p].shown = <<>>]
  <2>1. PanelShape'
    <3>1. <<>> \in Seq(Nat)
      OBVIOUS
    <3>2. panel' \in [Panels -> [hunt : Hunts \cup {None}, status : Statuses, shown : Seq(Nat)]]
      BY <1>4, <3>1 DEF EventsInv, PanelShape
    <3>3. QED
      BY <1>1, <1>2, <1>4, <3>2 DEF EventsInv, PanelShape
  <2>2. panel'[p].shown = <<>> /\ \A q \in Panels : q # p => panel'[q] = panel[q]
    BY <1>4 DEF EventsInv, PanelShape
  <2>3. QED
    BY <1>1, <1>4, <2>1, <2>2, PanelKeeps
<1>5. CASE StartHunt(p, h)
  BY <1>3, <1>4, <1>5 DEF StartHunt
<1>6. CASE Watch(p, h)
  BY <1>3, <1>6 DEF Watch
<1>7. QED
  BY <1>5, <1>6

\* The death of the agent closes every stream and writes no row.
LEMMA ProcessKeeps ==
  ASSUME EventsInv, AgentDies \/ AgentStarts \/ UNCHANGED eventsVars
  PROVE  EventsInv'
<1>1. UNCHANGED <<audit, status, panel>>
  BY DEF AgentDies, AgentStarts, eventsVars
<1>2. CASE stream' = [p \in Panels |-> Closed]
  <2>1. PanelShape'
    BY <1>1, <1>2 DEF EventsInv, PanelShape, Closed
  <2>2. \A p \in Panels : stream'[p].at = "closed"
    BY <1>2 DEF Closed
  <2>3. QED
    BY <1>1, <2>1, <2>2, PanelKeeps
<1>3. CASE stream' = stream
  <2>1. PanelShape'
    BY <1>1, <1>3 DEF EventsInv, PanelShape
  <2>2. QED
    BY <1>1, <1>3, <2>1, PanelKeeps
<1>4. QED
  BY <1>2, <1>3 DEF AgentDies, AgentStarts, eventsVars

\* Every step of HuntEvents keeps the invariant.
LEMMA EventsInvStays == EventsInv /\ [EventsNext]_eventsVars => EventsInv'
BY AuditStepKeeps, ReadRowsKeeps, PanelStepKeeps, OpeningKeeps, ProcessKeeps DEF EventsNext, StreamStep

\* However polls fall between the writes of several hunts, a panel shows the
\* rows of its hunt in order, each once and with no gap (agent_db.py:425-426).
THEOREM StreamsShowPrefixes == EventsSpec => []ShownIsAPrefix
<1>1. EventsInv => ShownIsAPrefix
  BY DEF EventsInv
<1>2. QED
  BY <1>1, EventsInvStarts, EventsInvStays, PTL DEF EventsSpec
=============================================================================
