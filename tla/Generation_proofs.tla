------------------------- MODULE Generation_proofs -------------------------
(***************************************************************************)
(* The generation service for any number of requests, resumes, providers   *)
(* and replies: how a walk down the chain ends, what the score of a resume *)
(* respects and how the resumes are ranked.                                *)
(***************************************************************************)
EXTENDS Generation, FiniteSetTheorems, WellFoundedInduction, NaturalsInduction, TLAPS

Statuses(items) == [items -> ValidStatuses]

-----------------------------------------------------------------------------
(* Numbers                                                                 *)

LEMMA MinOfTwo ==
    ASSUME NEW a \in Int, NEW b \in Int
    PROVE  /\ Min({a, b}) \in {a, b}
           /\ Min({a, b}) <= a /\ Min({a, b}) <= b
  <1>1. \E x \in {a, b} : \A y \in {a, b} : x =< y
    <2>1. CASE a <= b
      BY <2>1
    <2>2. CASE b <= a
      BY <2>2
    <2> QED
      BY <2>1, <2>2
  <1>2. Min({a, b}) \in {a, b} /\ \A y \in {a, b} : Min({a, b}) =< y
    BY <1>1 DEF Min
  <1> QED
    BY <1>2

(* A set of numbers below a bound that is not empty has a greatest one.    *)
LEMMA GreatestPlace ==
    ASSUME NEW n \in Nat, NEW T \in SUBSET (1 .. n), T # {}
    PROVE  Max(T) \in T
  <1> DEFINE gap == {n - i : i \in T}
  <1>1. gap \in SUBSET Nat /\ gap # {}
    <2>1. \A i \in T : n - i \in Nat
      OBVIOUS
    <2>2. \A e \in gap : e \in Nat
      BY <2>1
    <2>3. gap # {}
      OBVIOUS
    <2> QED
      BY <2>2, <2>3
  <1>2. PICK d \in gap : \A e \in gap : <<e, d>> \notin OpToRel(<, Nat)
    BY <1>1, NatLessThanWellFounded, WFMin, Zenon
  <1>3. \A e \in gap : ~(e < d)
    BY <1>1, <1>2, Zenon DEF OpToRel
  <1>4. PICK i \in T : d = n - i
    OBVIOUS
  <1>5. \A j \in T : i >= j
    <2> TAKE j \in T
    <2>1. n - j \in gap
      OBVIOUS
    <2>2. ~(n - j < n - i)
      BY <1>3, <1>4, <2>1
    <2> QED
      BY <2>2
  <1> HIDE DEF gap
  <1> QED
    BY <1>5 DEF Max

(* Rounding keeps the order.                                               *)
LEMMA RoundKeepsOrder ==
    ASSUME NEW d \in Nat \ {0}, NEW m \in Nat, NEW n \in Nat, m <= n
    PROVE  Round(m, d) \in Nat /\ Round(n, d) \in Nat /\ Round(m, d) <= Round(n, d)
  <1> DEFINE p == m \div d   q == n \div d   r == m % d   s == n % d
  <1>1. p \in Nat /\ q \in Nat /\ r \in 0 .. (d - 1) /\ s \in 0 .. (d - 1)
    OBVIOUS
  <1>2. m = d * p + r /\ n = d * q + s
    OBVIOUS
  <1>3. p <= q
    OBVIOUS
  <1>4. Round(m, d) = IF 2 * r > d \/ (2 * r = d /\ p % 2 = 1) THEN p + 1 ELSE p
    BY DEF Round
  <1>5. Round(n, d) = IF 2 * s > d \/ (2 * s = d /\ q % 2 = 1) THEN q + 1 ELSE q
    BY DEF Round
  <1>6. p = q => r <= s
    BY <1>2
  <1> HIDE DEF p, q, r, s
  <1> QED
    BY <1>1, <1>3, <1>4, <1>5, <1>6

-----------------------------------------------------------------------------
(* The rubric and its coverage                                             *)

LEMMA KeptFits ==
    ASSUME NEW rubric \in Seq(RawItem)
    PROVE  /\ Kept(rubric) \subseteq DOMAIN rubric /\ IsFiniteSet(Kept(rubric))
           /\ \A i \in Kept(rubric) : rubric[i].tier \in Tiers
  <1>1. Kept(rubric) \subseteq DOMAIN rubric
    BY DEF Kept
  <1>2. IsFiniteSet(DOMAIN rubric)
    BY FS_Interval
  <1>3. \A i \in Kept(rubric) : rubric[i].tier \in Tiers
    BY DEF Kept
  <1> QED
    BY <1>1, <1>2, <1>3, FS_Subset

(* Every kept item gets the valid status of an entry under its name, or no. *)
LEMMA CoverageFits ==
    ASSUME NEW rubric \in Seq(RawItem), NEW coverage \in Seq(RawEntry)
    PROVE  /\ Coverage(rubric, coverage) \in Statuses(Kept(rubric))
           /\ \A i \in Kept(rubric) :
                \/ Coverage(rubric, coverage)[i] = "no"
                \/ \E j \in DOMAIN coverage :
                     /\ coverage[j].id.name = rubric[i].id.name
                     /\ Coverage(rubric, coverage)[i] = coverage[j].status
  <1> DEFINE seen == {rubric[i].id : i \in Kept(rubric)}
             named(i) == {j \in DOMAIN coverage : /\ coverage[j].id \in seen
                                                  /\ coverage[j].id = Strip(rubric[i].id)
                                                  /\ coverage[j].status \in ValidStatuses}
             status == Coverage(rubric, coverage)
  <1>1. status = [i \in Kept(rubric) |-> IF named(i) = {} THEN "no"
                                         ELSE coverage[Max(named(i))].status]
    BY DEF Coverage
  <1>2. DOMAIN coverage = 1 .. Len(coverage) /\ Len(coverage) \in Nat
    OBVIOUS
  <1>3. ASSUME NEW i \in Kept(rubric), named(i) # {}
        PROVE  Max(named(i)) \in named(i)
    <2>1. named(i) \in SUBSET (1 .. Len(coverage))
      BY <1>2
    <2> QED
      BY <1>2, <1>3, <2>1, GreatestPlace
  <1>4. "no" \in ValidStatuses
    BY DEF ValidStatuses, StatusValue
  <1>5. ASSUME NEW i \in Kept(rubric)
        PROVE  /\ status[i] \in ValidStatuses
               /\ \/ status[i] = "no"
                  \/ \E j \in DOMAIN coverage : /\ coverage[j].id.name = rubric[i].id.name
                                                /\ status[i] = coverage[j].status
    <2>1. CASE named(i) = {}
      BY <1>1, <1>4, <2>1
    <2>2. CASE named(i) # {}
      <3>1. status[i] = coverage[Max(named(i))].status
        BY <1>1, <2>2
      <3>2. PICK j \in named(i) : status[i] = coverage[j].status
        BY <1>3, <2>2, <3>1
      <3>3. coverage[j].id.name = rubric[i].id.name
        BY DEF Strip
      <3> QED
        BY <3>2, <3>3
    <2> QED
      BY <2>1, <2>2
  <1>6. status \in [Kept(rubric) -> ValidStatuses]
    <2> HIDE DEF named
    <2> QED
      BY <1>1, <1>5
  <1> HIDE DEF status, named, seen
  <1> QED
    BY <1>5, <1>6 DEF status, Statuses
-----------------------------------------------------------------------------
(* The score                                                               *)

LEMMA PartsAreFinite ==
    ASSUME NEW items, IsFiniteSet(items), NEW part \in SUBSET items
    PROVE  /\ IsFiniteSet(part) /\ Cardinality(part) \in Nat
           /\ Cardinality(part) <= Cardinality(items)
  BY FS_Subset, FS_CardinalityType

(* The half points of a set count its items that are at least partly       *)
(* covered and those that are wholly covered.                              *)
LEMMA PointsByLevel ==
    ASSUME NEW items, IsFiniteSet(items), NEW status, \A i \in items : status[i] \in ValidStatuses
    PROVE  /\ Cardinality({i \in items : status[i] = "yes"}) \in Nat
           /\ Cardinality({i \in items : status[i] # "no"}) \in Nat
           /\ Points(status, items) =
                Cardinality({i \in items : status[i] = "yes"})
                  + Cardinality({i \in items : status[i] # "no"})
  <1> DEFINE yes == {i \in items : status[i] = "yes"}
             partial == {i \in items : status[i] = "partial"}
             some == {i \in items : status[i] # "no"}
  <1>1. /\ IsFiniteSet(yes) /\ Cardinality(yes) \in Nat
        /\ IsFiniteSet(partial) /\ Cardinality(partial) \in Nat
        /\ IsFiniteSet(some) /\ Cardinality(some) \in Nat
    <2>1. yes \in SUBSET items /\ partial \in SUBSET items /\ some \in SUBSET items
      OBVIOUS
    <2> HIDE DEF yes, partial, some
    <2> QED
      BY <2>1, PartsAreFinite
  <1>2. some = yes \cup partial /\ yes \cap partial = {}
    BY DEF ValidStatuses, StatusValue
  <1>3. Points(status, items) = 2 * Cardinality(yes) + Cardinality(partial)
    <2>1. Points(status, items) = StatusValue.yes * Cardinality(yes) + StatusValue.partial * Cardinality(partial)
      BY DEF Points
    <2>2. StatusValue.yes = 2 /\ StatusValue.partial = 1
      BY DEF StatusValue
    <2> QED
      BY <1>1, <2>1, <2>2
  <1> HIDE DEF yes, partial, some
  <1>4. Cardinality(some) = Cardinality(yes) + Cardinality(partial)
    <2>1. Cardinality(yes \cup partial) = Cardinality(yes) + Cardinality(partial) - Cardinality(yes \cap partial)
      BY <1>1, FS_Union
    <2>2. Cardinality(yes \cap partial) = 0
      BY <1>2, FS_EmptySet
    <2> QED
      BY <1>1, <1>2, <2>1, <2>2
  <1>5. Points(status, items) = Cardinality(yes) + Cardinality(some)
    BY <1>1, <1>3, <1>4
  <1> QED
    BY <1>1, <1>5 DEF yes, some

(* An item is covered at least as well under one list as under another.    *)
Covers(better, worse, items) ==
    \A i \in items : StatusValue[better[i]] >= StatusValue[worse[i]]

LEMMA CoversByLevel ==
    ASSUME NEW items, NEW better \in Statuses(items), NEW worse \in Statuses(items),
           Covers(better, worse, items), NEW i \in items
    PROVE  /\ better[i] \in ValidStatuses /\ worse[i] \in ValidStatuses
           /\ worse[i] = "yes" => better[i] = "yes"
           /\ worse[i] # "no" => better[i] # "no"
  <1>1. better[i] \in {"yes", "partial", "no"} /\ worse[i] \in {"yes", "partial", "no"}
    BY DEF Statuses, ValidStatuses, StatusValue
  <1>2. StatusValue["yes"] = 2 /\ StatusValue["partial"] = 1 /\ StatusValue["no"] = 0
    BY DEF StatusValue
  <1>3. StatusValue[better[i]] >= StatusValue[worse[i]]
    BY DEF Covers
  <1>4. better[i] \in ValidStatuses /\ worse[i] \in ValidStatuses
    BY DEF Statuses
  <1> QED
    BY <1>1, <1>2, <1>3, <1>4

LEMMA PointsGrow ==
    ASSUME NEW items, IsFiniteSet(items), NEW part \in SUBSET items,
           NEW better \in Statuses(items), NEW worse \in Statuses(items),
           Covers(better, worse, items)
    PROVE  /\ Points(better, part) \in Nat /\ Points(worse, part) \in Nat
           /\ Points(worse, part) <= Points(better, part)
  <1> DEFINE yes(status) == {i \in part : status[i] = "yes"}
             some(status) == {i \in part : status[i] # "no"}
  <1>1. IsFiniteSet(part)
    BY FS_Subset
  <1>2. \A i \in part : /\ better[i] \in ValidStatuses /\ worse[i] \in ValidStatuses
                        /\ worse[i] = "yes" => better[i] = "yes"
                        /\ worse[i] # "no" => better[i] # "no"
    BY CoversByLevel
  <1>3. /\ Points(better, part) = Cardinality(yes(better)) + Cardinality(some(better))
        /\ Cardinality(yes(better)) \in Nat /\ Cardinality(some(better)) \in Nat
    BY <1>1, <1>2, PointsByLevel
  <1>4. /\ Points(worse, part) = Cardinality(yes(worse)) + Cardinality(some(worse))
        /\ Cardinality(yes(worse)) \in Nat /\ Cardinality(some(worse)) \in Nat
    BY <1>1, <1>2, PointsByLevel
  <1>5. /\ yes(worse) \in SUBSET yes(better) /\ some(worse) \in SUBSET some(better)
        /\ yes(better) \in SUBSET part /\ some(better) \in SUBSET part
    BY <1>2
  <1> HIDE DEF yes, some
  <1>6. /\ Cardinality(yes(worse)) <= Cardinality(yes(better))
        /\ Cardinality(some(worse)) <= Cardinality(some(better))
    BY <1>1, <1>5, FS_Subset
  <1> QED
    BY <1>3, <1>4, <1>6

LEMMA ShareGrows ==
    ASSUME NEW rubric, NEW items, IsFiniteSet(items),
           NEW better \in Statuses(items), NEW worse \in Statuses(items),
           Covers(better, worse, items)
    PROVE  /\ Share(rubric, better, items) \in Nat /\ Share(rubric, worse, items) \in Nat
           /\ Share(rubric, worse, items) <= Share(rubric, better, items)
  <1> DEFINE of(tier) == {i \in items : rubric[i].tier = tier}
             earned(status) == Weighed(rubric, items, LAMBDA tier : Points(status, tier))
             total == Weighed(rubric, items, Cardinality)
  <1>1. /\ of("must_have") \in SUBSET items /\ of("important") \in SUBSET items
        /\ of("nice_to_have") \in SUBSET items
    OBVIOUS
  <1>2. TierWeight["must_have"] = 3 /\ TierWeight["important"] = 2 /\ TierWeight["nice_to_have"] = 1
    BY DEF TierWeight
  <1>3. ASSUME NEW status
        PROVE  earned(status) = 3 * Points(status, of("must_have")) + 2 * Points(status, of("important"))
                                  + 1 * Points(status, of("nice_to_have"))
    BY <1>2 DEF Weighed
  <1>4. total = 3 * Cardinality(of("must_have")) + 2 * Cardinality(of("important"))
                  + 1 * Cardinality(of("nice_to_have"))
    BY <1>2 DEF Weighed
  <1>5. \A status : Share(rubric, status, items) =
                      IF total = 0 THEN 0 ELSE Round(50 * earned(status), total)
    BY DEF Share
  <1> HIDE DEF of, earned, total
  <1>6. total \in Nat
    BY <1>1, <1>4, PartsAreFinite
  <1>7. ASSUME NEW part \in {of("must_have"), of("important"), of("nice_to_have")}
        PROVE  /\ Points(better, part) \in Nat /\ Points(worse, part) \in Nat
               /\ Points(worse, part) <= Points(better, part)
    <2>1. part \in SUBSET items
      BY <1>1
    <2> QED
      BY <2>1, PointsGrow
  <1>8. /\ earned(better) \in Nat /\ earned(worse) \in Nat /\ earned(worse) <= earned(better)
    BY <1>3, <1>7
  <1>9. CASE total = 0
    BY <1>5, <1>9
  <1>10. CASE total # 0
    <2>1. total \in Nat \ {0} /\ 50 * earned(worse) \in Nat /\ 50 * earned(better) \in Nat
      BY <1>6, <1>8, <1>10
    <2>2. 50 * earned(worse) <= 50 * earned(better)
      BY <1>8
    <2>3. /\ Share(rubric, better, items) = Round(50 * earned(better), total)
          /\ Share(rubric, worse, items) = Round(50 * earned(worse), total)
      BY <1>5, <1>10
    <2> QED
      BY <2>1, <2>2, <2>3, RoundKeepsOrder
  <1> QED
    BY <1>9, <1>10

LEMMA CapFits ==
    ASSUME NEW n \in Nat
    PROVE  /\ Cap(n) \in {50, 65, 100}
           /\ n >= 1 => Cap(n) <= 65
           /\ n >= 2 => Cap(n) <= 50
           /\ \A m \in 0 .. n : Cap(n) <= Cap(m)
  BY DEF Cap

LEMMA HundredGrows ==
    ASSUME NEW rubric, NEW items, IsFiniteSet(items),
           NEW better \in Statuses(items), NEW worse \in Statuses(items),
           Covers(better, worse, items)
    PROVE  /\ Hundred(rubric, better) \in Nat /\ Hundred(rubric, worse) \in Nat
           /\ Hundred(rubric, worse) <= Hundred(rubric, better)
  <1> DEFINE missing(status) == MissingMustHaves(rubric, status)
             n(status) == Cardinality(missing(status))
  <1>1. DOMAIN better = items /\ DOMAIN worse = items
    BY DEF Statuses
  <1>2. missing(better) \in SUBSET missing(worse) /\ missing(worse) \in SUBSET items
    <2>1. missing(better) \in SUBSET items /\ missing(worse) \in SUBSET items
      BY <1>1 DEF MissingMustHaves
    <2>2. ASSUME NEW i \in missing(better) PROVE i \in missing(worse)
      <3>1. i \in items /\ better[i] = "no" /\ rubric[i].tier = "must_have"
        BY <1>1 DEF MissingMustHaves
      <3>2. worse[i] = "no"
        BY <3>1, CoversByLevel
      <3> QED
        BY <1>1, <3>1, <3>2 DEF MissingMustHaves
    <2> QED
      BY <2>1, <2>2
  <1> HIDE DEF missing
  <1>3. n(better) \in Nat /\ n(worse) \in Nat /\ n(better) <= n(worse)
    <2>1. IsFiniteSet(missing(worse)) /\ Cardinality(missing(worse)) \in Nat
      BY <1>2, PartsAreFinite
    <2> QED
      BY <1>2, <2>1, PartsAreFinite
  <1>4. ASSUME NEW status \in {better, worse}
        PROVE  Hundred(rubric, status) = Min({Share(rubric, status, items), Cap(n(status))})
    BY <1>1, <1>4 DEF Hundred, missing
  <1> HIDE DEF n
  <1>5. Cap(n(better)) \in Nat /\ Cap(n(worse)) \in Nat /\ Cap(n(worse)) <= Cap(n(better))
    BY <1>3, CapFits
  <1>6. /\ Share(rubric, better, items) \in Nat /\ Share(rubric, worse, items) \in Nat
        /\ Share(rubric, worse, items) <= Share(rubric, better, items)
    BY ShareGrows
  <1>7. /\ Hundred(rubric, better) \in {Share(rubric, better, items), Cap(n(better))}
        /\ Hundred(rubric, worse) \in {Share(rubric, worse, items), Cap(n(worse))}
        /\ Hundred(rubric, worse) <= Share(rubric, worse, items)
        /\ Hundred(rubric, worse) <= Cap(n(worse))
    <2>1. ASSUME NEW status \in {better, worse}
          PROVE  /\ Hundred(rubric, status) \in {Share(rubric, status, items), Cap(n(status))}
                 /\ Hundred(rubric, status) <= Share(rubric, status, items)
                 /\ Hundred(rubric, status) <= Cap(n(status))
      <3> DEFINE a == Share(rubric, status, items)   b == Cap(n(status))
      <3>1. a \in Int /\ b \in Int
        BY <1>5, <1>6
      <3>2. Hundred(rubric, status) = Min({a, b})
        BY <1>4
      <3> HIDE DEF a, b
      <3>3. Hundred(rubric, status) \in {a, b} /\ Hundred(rubric, status) <= a /\ Hundred(rubric, status) <= b
        BY <3>1, <3>2, MinOfTwo
      <3> QED
        BY <3>3 DEF a, b
    <2> QED
      BY <2>1
  <1> QED
    BY <1>5, <1>6, <1>7

LEMMA CoversItself ==
    ASSUME NEW items, NEW status \in Statuses(items)
    PROVE  Covers(status, status, items)
  <1>1. ASSUME NEW i \in items PROVE StatusValue[status[i]] \in Nat
    <2>1. status[i] \in {"yes", "partial", "no"}
      BY DEF Statuses, ValidStatuses, StatusValue
    <2> QED
      BY <2>1 DEF StatusValue
  <1> QED
    BY <1>1 DEF Covers

(* The score of ten stays under the caps.                                  *)
LEMMA CapsBind ==
    ASSUME NEW rubric, NEW items, IsFiniteSet(items), NEW status \in Statuses(items),
           NEW missing, missing = MissingMustHaves(rubric, status)
    PROVE  LET score == OutOfTen(Hundred(rubric, status)) IN
           /\ IsFiniteSet(missing)
           /\ missing # {} => score <= 7
           /\ Cardinality(missing) > 1 => score <= 5
  <1> DEFINE h == Hundred(rubric, status)
  <1>1. DOMAIN status = items
    BY DEF Statuses
  <1>2. IsFiniteSet(missing) /\ Cardinality(missing) \in Nat
    <2>1. missing \in SUBSET items
      BY <1>1 DEF MissingMustHaves
    <2> QED
      BY <2>1, PartsAreFinite
  <1>3. missing # {} => Cardinality(missing) >= 1
    BY <1>2, FS_EmptySet
  <1>4. h \in Nat /\ h <= Cap(Cardinality(missing))
    <2>1. Share(rubric, status, items) \in Nat /\ h \in Nat
      BY CoversItself, ShareGrows, HundredGrows
    <2>2. Cap(Cardinality(missing)) \in Int
      BY <1>2, CapFits
    <2>3. h = Min({Share(rubric, status, items), Cap(Cardinality(missing))})
      BY <1>1 DEF Hundred
    <2> QED
      BY <2>1, <2>2, <2>3, MinOfTwo
  <1> HIDE DEF h
  <1>5. OutOfTen(h) <= (h + 5) \div 10
    <2>1. (h + 5) \div 10 \in Int
      BY <1>4
    <2> QED
      BY <2>1, MinOfTwo DEF OutOfTen
  <1>6. OutOfTen(h) \in Int
    <2> DEFINE tenth == (h + 5) \div 10
    <2>1. tenth \in Int
      BY <1>4
    <2>2. OutOfTen(h) = Min({10, tenth})
      BY DEF OutOfTen
    <2> HIDE DEF tenth
    <2>3. OutOfTen(h) \in {10, tenth}
      BY <2>1, <2>2, MinOfTwo
    <2> QED
      BY <2>1, <2>3
  <1>7. h <= 65 => (h + 5) \div 10 <= 7
    BY <1>4
  <1>8. h <= 50 => (h + 5) \div 10 <= 5
    BY <1>4
  <1>9. /\ missing # {} => h <= 65
        /\ Cardinality(missing) > 1 => h <= 50
    BY <1>2, <1>3, <1>4, CapFits
  <1> QED
    BY <1>2, <1>4, <1>5, <1>6, <1>7, <1>8, <1>9 DEF h

-----------------------------------------------------------------------------
(* The walk                                                                *)

LEMMA Joined ==
    ASSUME NEW S, NEW a \in Seq(S), NEW b \in Seq(S)
    PROVE  /\ a \o b \in Seq(S) /\ Len(a \o b) = Len(a) + Len(b)
           /\ \A k \in 1 .. (Len(a) + Len(b)) :
                (a \o b)[k] = IF k <= Len(a) THEN a[k] ELSE b[k - Len(a)]
  OBVIOUS

LEMMA Removed ==
    ASSUME NEW S, NEW s \in Seq(S), NEW i \in 1 .. Len(s)
    PROVE  /\ RemoveAt(s, i) \in Seq(S) /\ Len(RemoveAt(s, i)) = Len(s) - 1
           /\ \A k \in 1 .. (Len(s) - 1) : RemoveAt(s, i)[k] = s[IF k < i THEN k ELSE k + 1]
  <1> DEFINE n == Len(s)
             front == SubSeq(s, 1, i - 1)
             back == SubSeq(s, i + 1, n)
  <1>1. n \in Nat /\ i \in 1 .. n
    OBVIOUS
  <1>2. /\ front \in Seq(S) /\ Len(front) = i - 1
        /\ \A k \in 1 .. (i - 1) : front[k] = s[k]
    <2>1. i - 1 \in 0 .. n
      BY <1>1
    <2> QED
      BY <2>1
  <1>3. /\ back \in Seq(S) /\ Len(back) = n - i
        /\ \A k \in 1 .. (n - i) : back[k] = s[k + i]
    <2>1. n - i \in Nat /\ i + 1 \in 1 .. (n + 1)
      BY <1>1
    <2>2. Len(back) = n - i
      BY <1>1, <2>1
    <2> QED
      BY <1>1, <2>1, <2>2
  <1>4. RemoveAt(s, i) = front \o back
    BY DEF RemoveAt
  <1> HIDE DEF front, back
  <1>5. /\ front \o back \in Seq(S) /\ Len(front \o back) = n - 1
        /\ \A k \in 1 .. (n - 1) :
             (front \o back)[k] = IF k <= i - 1 THEN front[k] ELSE back[k - (i - 1)]
    <2>1. Len(front) + Len(back) = n - 1
      BY <1>1, <1>2, <1>3
    <2>2. /\ front \o back \in Seq(S) /\ Len(front \o back) = n - 1
          /\ \A k \in 1 .. (n - 1) :
               (front \o back)[k] = IF k <= Len(front) THEN front[k] ELSE back[k - Len(front)]
      <3>1. /\ front \o back \in Seq(S) /\ Len(front \o back) = Len(front) + Len(back)
            /\ \A k \in 1 .. (Len(front) + Len(back)) :
                 (front \o back)[k] = IF k <= Len(front) THEN front[k] ELSE back[k - Len(front)]
        BY <1>2, <1>3, Joined, Zenon
      <3> QED
        BY <2>1, <3>1, Zenon
    <2> QED
      BY <1>2, <2>2
  <1>6. ASSUME NEW k \in 1 .. (n - 1)
        PROVE  (front \o back)[k] = s[IF k < i THEN k ELSE k + 1]
    <2>1. CASE k < i
      BY <1>1, <1>2, <1>5, <2>1
    <2>2. CASE ~(k < i)
      <3>1. k - (i - 1) \in 1 .. (n - i) /\ k - (i - 1) + i = k + 1 /\ ~(k <= i - 1)
        BY <1>1, <2>2
      <3>2. (front \o back)[k] = back[k - (i - 1)]
        BY <1>5, <3>1
      <3>3. back[k - (i - 1)] = s[k + 1]
        BY <1>3, <3>1
      <3> QED
        BY <2>2, <3>2, <3>3
    <2> QED
      BY <2>1, <2>2
  <1> QED
    BY <1>4, <1>5, <1>6

(* The walk without the primary: nothing else is missing, nothing is twice. *)
LEMMA RestOfWalk ==
    LET rest == RemoveFirst(Walk, primary) IN
    /\ rest \in Seq(Providers)
    /\ \A a, b \in DOMAIN rest : rest[a] = rest[b] => a = b
    /\ {rest[a] : a \in DOMAIN rest} = ToSet(Walk) \ {primary}
  <1> DEFINE n == Len(Walk)
             rest == RemoveFirst(Walk, primary)
  <1>1. /\ Walk \in Seq(Providers) /\ n \in Nat /\ DOMAIN Walk = 1 .. n
        /\ \A a, b \in 1 .. n : Walk[a] = Walk[b] => a = b
    BY ChainAssumption DEF IsInjective
  <1>2. CASE \E i \in 1 .. n : Walk[i] = primary
    <2>1. PICK i \in 1 .. n : Walk[i] = primary
      BY <1>2
    <2>2. {j \in 1 .. n : Walk[j] = primary} = {i}
      BY <1>1, <2>1
    <2>3. Min({i}) = i
      BY <2>1 DEF Min
    <2>4. rest = RemoveAt(Walk, i)
      BY <1>2, <2>2, <2>3 DEF RemoveFirst, SelectInSeq
    <2>5. /\ rest \in Seq(Providers) /\ Len(rest) = n - 1
          /\ \A k \in 1 .. (n - 1) : rest[k] = Walk[IF k < i THEN k ELSE k + 1]
      <3>1. /\ RemoveAt(Walk, i) \in Seq(Providers) /\ Len(RemoveAt(Walk, i)) = Len(Walk) - 1
            /\ \A k \in 1 .. (Len(Walk) - 1) : RemoveAt(Walk, i)[k] = Walk[IF k < i THEN k ELSE k + 1]
        BY <1>1, Removed, Zenon
      <3> HIDE DEF rest
      <3> QED
        BY <2>4, <3>1
    <2> HIDE DEF rest
    <2>6. DOMAIN rest = 1 .. (n - 1)
      BY <1>1, <2>5
    <2>7. \A a, b \in DOMAIN rest : rest[a] = rest[b] => a = b
      <3> TAKE a, b \in DOMAIN rest
      <3> DEFINE at(k) == IF k < i THEN k ELSE k + 1
      <3>1. at(a) \in 1 .. n /\ at(b) \in 1 .. n /\ (at(a) = at(b) => a = b)
        BY <1>1, <2>6
      <3>2. rest[a] = Walk[at(a)] /\ rest[b] = Walk[at(b)]
        BY <2>5, <2>6
      <3> HIDE DEF at
      <3> QED
        BY <1>1, <3>1, <3>2
    <2>8. \A a \in DOMAIN rest : rest[a] \in ToSet(Walk) \ {primary}
      <3> TAKE a \in DOMAIN rest
      <3> DEFINE at == IF a < i THEN a ELSE a + 1
      <3>1. at \in 1 .. n /\ at # i /\ rest[a] = Walk[at]
        BY <1>1, <2>5, <2>6
      <3> HIDE DEF at
      <3>2. Walk[at] # primary
        BY <1>1, <2>1, <3>1
      <3> QED
        BY <1>1, <3>1, <3>2 DEF ToSet
    <2>9. \A p \in ToSet(Walk) \ {primary} : \E a \in DOMAIN rest : rest[a] = p
      <3> TAKE p \in ToSet(Walk) \ {primary}
      <3>1. PICK j \in 1 .. n : Walk[j] = p
        BY <1>1 DEF ToSet
      <3>2. j # i
        BY <2>1, <3>1
      <3>3. CASE j < i
        BY <1>1, <2>5, <2>6, <3>1, <3>3
      <3>4. CASE j > i
        <4>1. j - 1 \in 1 .. (n - 1) /\ ~(j - 1 < i) /\ (j - 1) + 1 = j
          BY <1>1, <3>4
        <4> QED
          BY <2>5, <2>6, <3>1, <4>1
      <3> QED
        BY <1>1, <3>2, <3>3, <3>4
    <2>10. {rest[a] : a \in DOMAIN rest} = ToSet(Walk) \ {primary}
      BY <2>8, <2>9
    <2> QED
      BY <2>5, <2>7, <2>10 DEF rest
  <1>3. CASE ~ \E i \in 1 .. n : Walk[i] = primary
    <2>1. rest = Walk
      BY <1>3 DEF RemoveFirst
    <2>2. primary \notin ToSet(Walk)
      BY <1>1, <1>3 DEF ToSet
    <2> QED
      BY <1>1, <2>1, <2>2 DEF ToSet
  <1> QED
    BY <1>2, <1>3

LEMMA ChainFits ==
    ASSUME primary \in Primaries
    PROVE  /\ Chain \in Seq(Providers \cup Primaries) /\ Len(Chain) >= 1 /\ Chain[1] = primary
           /\ \A a, b \in DOMAIN Chain : Chain[a] = Chain[b] => a = b
           /\ {Chain[a] : a \in DOMAIN Chain} = ToSet(Walk) \cup {primary}
  <1> DEFINE rest == RemoveFirst(Walk, primary)
             n == Len(rest)
             names == {rest[a] : a \in DOMAIN rest}
  <1>1. /\ rest \in Seq(Providers)
        /\ \A a, b \in DOMAIN rest : rest[a] = rest[b] => a = b
        /\ names = ToSet(Walk) \ {primary}
    BY RestOfWalk
  <1>2. Chain = <<primary>> \o rest
    BY DEF Chain
  <1>3. primary \notin names
    BY <1>1
  <1> HIDE DEF rest
  <1>4. n \in Nat /\ DOMAIN rest = 1 .. n
    BY <1>1
  <1>5. /\ Chain \in Seq(Providers \cup Primaries) /\ Len(Chain) = n + 1
        /\ Chain[1] = primary /\ \A k \in 2 .. (n + 1) : Chain[k] = rest[k - 1]
    <2>1. rest \in Seq(Providers \cup Primaries)
      BY <1>1
    <2>2. <<primary>> \in Seq(Providers \cup Primaries) /\ Len(<<primary>>) = 1
      OBVIOUS
    <2> QED
      BY <1>2, <1>4, <2>1, <2>2
  <1>6. DOMAIN Chain = 1 .. (n + 1)
    BY <1>4, <1>5
  <1>7. \A k \in 2 .. (n + 1) : k - 1 \in DOMAIN rest /\ Chain[k] # primary
    <2> TAKE k \in 2 .. (n + 1)
    <2>1. k - 1 \in DOMAIN rest
      BY <1>4
    <2>2. Chain[k] \in names
      BY <1>5, <2>1
    <2> QED
      BY <1>3, <2>1, <2>2
  <1>8. \A a, b \in DOMAIN Chain : Chain[a] = Chain[b] => a = b
    <2> SUFFICES ASSUME NEW a \in 1 .. (n + 1), NEW b \in 1 .. (n + 1), Chain[a] = Chain[b]
                 PROVE  a = b
      BY <1>6
    <2>1. CASE a = 1 \/ b = 1
      BY <1>4, <1>5, <1>7, <2>1
    <2>2. CASE a # 1 /\ b # 1
      <3>1. a \in 2 .. (n + 1) /\ b \in 2 .. (n + 1)
        BY <1>4, <2>2
      <3>2. rest[a - 1] = rest[b - 1] /\ a - 1 \in DOMAIN rest /\ b - 1 \in DOMAIN rest
        BY <1>5, <1>7, <3>1
      <3>3. a - 1 = b - 1
        BY <1>1, <3>2
      <3> QED
        BY <1>4, <3>1, <3>3
    <2> QED
      BY <2>1, <2>2
  <1>9. {Chain[a] : a \in DOMAIN Chain} = names \cup {primary}
    <2>1. \A a \in 1 .. (n + 1) : Chain[a] \in names \cup {primary}
      <3> TAKE a \in 1 .. (n + 1)
      <3>1. CASE a = 1
        BY <1>5, <3>1
      <3>2. CASE a # 1
        <4>1. a \in 2 .. (n + 1)
          BY <1>4, <3>2
        <4> QED
          BY <1>5, <1>7, <4>1
      <3> QED
        BY <3>1, <3>2
    <2>2. \A p \in names \cup {primary} : \E a \in 1 .. (n + 1) : Chain[a] = p
      <3> TAKE p \in names \cup {primary}
      <3>1. CASE p = primary
        BY <1>4, <1>5, <3>1
      <3>2. CASE p # primary
        <4>1. PICK b \in 1 .. n : rest[b] = p
          BY <1>4, <3>2
        <4>2. b + 1 \in 2 .. (n + 1) /\ (b + 1) - 1 = b
          BY <1>4
        <4>3. Chain[b + 1] = p
          BY <1>5, <4>1, <4>2
        <4>4. b + 1 \in 1 .. (n + 1)
          BY <1>4
        <4> QED
          BY <4>3, <4>4
      <3> QED
        BY <3>1, <3>2
    <2> HIDE DEF names
    <2> QED
      BY <1>6, <2>1, <2>2
  <1>10. names \cup {primary} = ToSet(Walk) \cup {primary}
    BY <1>1
  <1>11. Len(Chain) >= 1
    BY <1>4, <1>5
  <1> QED
    BY <1>5, <1>8, <1>9, <1>10, <1>11

-----------------------------------------------------------------------------
(* The ranking                                                             *)

LEMMA SeqDef == \A S, m, f : m \in Nat /\ f \in [1 .. m -> S] => f \in Seq(S)
  OBVIOUS

LEMMA GradeFits ==
    ASSUME NEW r \in Resumes, row \in [Resumes -> Rows], Scored(r)
    PROVE  \E reply \in Replies :
             /\ Gradable(reply) /\ reply \in RawReply /\ row[r] = ScoredRow(reply)
             /\ row[r].reply = reply /\ row[r].grade = Graded(reply)
             /\ row[r].grade.score_100 \in Nat
  <1>1. PICK reply \in Replies : Gradable(reply) /\ row[r] = ScoredRow(reply)
    <2>1. row[r] \in Rows
      OBVIOUS
    <2>2. row[r] # NoRow /\ row[r] # ErrorRow
      BY DEF Scored, NoRow, ErrorRow
    <2> QED
      BY <2>1, <2>2 DEF Rows
  <1>2. row[r].reply = reply /\ row[r].grade = Graded(reply)
    BY <1>1 DEF ScoredRow
  <1>3. reply \in RawReply
    BY GenerationAssumption
  <1>4. Graded(reply).score_100 \in Nat
    <2> DEFINE rubric == reply.rubric
               status == Coverage(rubric, reply.coverage)
    <2>1. rubric \in Seq(RawItem) /\ reply.coverage \in Seq(RawEntry)
      BY <1>3 DEF RawReply
    <2>2. status \in Statuses(Kept(rubric)) /\ IsFiniteSet(Kept(rubric))
      BY <2>1, CoverageFits, KeptFits
    <2>3. Covers(status, status, Kept(rubric))
      BY <2>2, CoversItself
    <2>4. Graded(reply).score_100 = Hundred(rubric, status)
      BY DEF Graded
    <2> HIDE DEF status, rubric
    <2>5. Hundred(rubric, status) \in Nat
      BY <2>2, <2>3, HundredGrows
    <2> QED
      BY <2>4, <2>5
  <1> QED
    BY <1>1, <1>2, <1>3, <1>4

(* Any two resumes are in order, one way round.                            *)
LEMMA InOrderOnce ==
    ASSUME row \in [Resumes -> Rows]
    PROVE  /\ \A a \in Resumes : ~Before(a, a)
           /\ \A a, b \in Resumes : a = b \/ Before(a, b) \/ Before(b, a)
           /\ \A a, b, c \in Resumes : Before(a, b) /\ Before(b, c) => Before(a, c)
  <1> DEFINE grade(r) == row[r].grade.score_100
  <1>1. \A r \in Resumes : r \in Nat /\ (Scored(r) => grade(r) \in Nat)
    BY GradeFits, GenerationAssumption
  <1>2. \A a, b : Before(a, b) <=>
          IF Scored(a) /\ Scored(b)
          THEN grade(a) > grade(b) \/ (grade(a) = grade(b) /\ a < b)
          ELSE Scored(a) \/ (~Scored(b) /\ a < b)
    BY DEF Before
  <1> HIDE DEF grade
  <1>3. \A a \in Resumes : ~Before(a, a)
    BY <1>1, <1>2
  <1>4. \A a, b \in Resumes : a = b \/ Before(a, b) \/ Before(b, a)
    BY <1>1, <1>2
  <1>5. ASSUME NEW a \in Resumes, NEW b \in Resumes, NEW c \in Resumes,
               Before(a, b), Before(b, c)
        PROVE  Before(a, c)
    <2>1. CASE Scored(a) /\ Scored(b) /\ Scored(c)
      BY <1>1, <1>2, <1>5, <2>1
    <2>2. CASE ~(Scored(a) /\ Scored(b) /\ Scored(c))
      BY <1>1, <1>2, <1>5, <2>2
    <2> QED
      BY <2>1, <2>2
  <1> QED
    BY <1>3, <1>4, <1>5

Ahead(r) == {e \in Resumes : e = r \/ Before(e, r)}

LEMMA PlacesAreTaken ==
    ASSUME row \in [Resumes -> Rows]
    PROVE  LET n == Cardinality(Resumes) IN
           /\ n \in Nat
           /\ \A r \in Resumes : Place(r) \in 1 .. n
           /\ \A a, b \in Resumes : Before(a, b) => Place(a) < Place(b)
           /\ \A k \in 1 .. n : \E r \in Resumes : Place(r) = k
  <1> DEFINE n == Cardinality(Resumes)
             rank == [r \in Resumes |-> Place(r)]
  <1>1. IsFiniteSet(Resumes) /\ n \in Nat
    BY GenerationAssumption, FS_CardinalityType
  <1>2. \A r : Place(r) = Cardinality(Ahead(r))
    BY DEF Place, Ahead
  <1>3. ASSUME NEW r \in Resumes
        PROVE  IsFiniteSet(Ahead(r)) /\ Place(r) \in 1 .. n
    <2>1. Ahead(r) \in SUBSET Resumes /\ r \in Ahead(r)
      BY DEF Ahead
    <2>2. IsFiniteSet(Ahead(r)) /\ Cardinality(Ahead(r)) <= n /\ Cardinality(Ahead(r)) \in Nat
      BY <1>1, <2>1, FS_Subset, FS_CardinalityType
    <2>3. Cardinality(Ahead(r)) # 0
      BY <2>1, <2>2, FS_EmptySet
    <2> QED
      BY <1>1, <1>2, <2>2, <2>3
  <1>4. ASSUME NEW a \in Resumes, NEW b \in Resumes, Before(a, b)
        PROVE  Place(a) < Place(b)
    <2>1. Ahead(a) \in SUBSET Ahead(b)
      BY <1>4, InOrderOnce DEF Ahead
    <2>2. b \in Ahead(b) /\ b \notin Ahead(a)
      <3>1. b # a
        BY <1>4, InOrderOnce
      <3>2. ~Before(b, a)
        BY <1>4, InOrderOnce
      <3> QED
        BY <3>1, <3>2 DEF Ahead
    <2>3. /\ Cardinality(Ahead(a)) <= Cardinality(Ahead(b))
          /\ Cardinality(Ahead(a)) # Cardinality(Ahead(b))
      BY <1>3, <2>1, <2>2, FS_Subset
    <2> QED
      BY <1>1, <1>2, <1>3, <2>3
  <1>5. rank \in Injection(Resumes, 1 .. n)
    <2>1. rank \in [Resumes -> 1 .. n]
      BY <1>3
    <2>2. ASSUME NEW a \in Resumes, NEW b \in Resumes, rank[a] = rank[b] PROVE a = b
      <3>1. ~(Place(a) < Place(b)) /\ ~(Place(b) < Place(a))
        BY <1>1, <1>3, <2>2
      <3> QED
        BY <1>4, <3>1, InOrderOnce
    <2> HIDE DEF rank
    <2> QED
      BY <2>1, <2>2 DEF Injection, IsInjective
  <1>6. IsFiniteSet(1 .. n) /\ Cardinality(1 .. n) = n
    BY <1>1, FS_Interval
  <1>7. rank \in Surjection(Resumes, 1 .. n)
    BY <1>1, <1>5, <1>6, FS_Injection
  <1>8. \A k \in 1 .. n : \E r \in Resumes : rank[r] = k
    BY <1>7 DEF Surjection
  <1> QED
    BY <1>1, <1>3, <1>4, <1>8

(* The ranking has every resume once, in order.                            *)
LEMMA RankingFits ==
    ASSUME row \in [Resumes -> Rows]
    PROVE  /\ Ranking \in Seq(Resumes) /\ DOMAIN Ranking = 1 .. Cardinality(Resumes)
           /\ \A a, b \in DOMAIN Ranking : a < b => Before(Ranking[a], Ranking[b])
           /\ \A a, b \in DOMAIN Ranking : Ranking[a] = Ranking[b] => a = b
           /\ \A r \in Resumes : \E a \in DOMAIN Ranking : Ranking[a] = r
  <1> DEFINE n == Cardinality(Resumes)
  <1>1. n \in Nat /\ Ranking = [k \in 1 .. n |-> CHOOSE r \in Resumes : Place(r) = k]
    BY PlacesAreTaken DEF Ranking
  <1>2. ASSUME NEW k \in 1 .. n PROVE Ranking[k] \in Resumes /\ Place(Ranking[k]) = k
    <2>1. \E r \in Resumes : Place(r) = k
      BY PlacesAreTaken
    <2> QED
      BY <1>1, <2>1
  <1>3. DOMAIN Ranking = 1 .. n
    BY <1>1
  <1>4. Ranking \in Seq(Resumes)
    <2>1. Ranking \in [1 .. n -> Resumes]
      <3>1. Ranking = [k \in 1 .. n |-> Ranking[k]]
        BY <1>1
      <3> QED
        BY <1>2, <3>1
    <2> HIDE DEF n
    <2> QED
      BY <1>1, <2>1, SeqDef
  <1>5. ASSUME NEW a \in 1 .. n, NEW b \in 1 .. n, a < b PROVE Before(Ranking[a], Ranking[b])
    <2>1. Ranking[a] # Ranking[b]
      BY <1>1, <1>2, <1>5
    <2>2. ~Before(Ranking[b], Ranking[a])
      <3>1. ~(Place(Ranking[b]) < Place(Ranking[a]))
        BY <1>1, <1>2, <1>5
      <3> QED
        BY <1>2, <3>1, PlacesAreTaken
    <2> QED
      BY <1>2, <2>1, <2>2, InOrderOnce
  <1>6. ASSUME NEW r \in Resumes PROVE \E a \in 1 .. n : Ranking[a] = r
    <2>1. Place(r) \in 1 .. n
      BY PlacesAreTaken
    <2>2. Ranking[Place(r)] \in Resumes /\ Place(Ranking[Place(r)]) = Place(r)
      BY <1>2, <2>1
    <2>3. \A a, b \in Resumes : Before(a, b) => Place(a) < Place(b)
      BY PlacesAreTaken
    <2>4. Ranking[Place(r)] = r
      BY <1>1, <2>1, <2>2, <2>3, InOrderOnce
    <2> QED
      BY <2>1, <2>4
  <1>7. \A a, b \in 1 .. n : Ranking[a] = Ranking[b] => a = b
    BY <1>2
  <1> HIDE DEF n
  <1> QED
    BY <1>3, <1>4, <1>5, <1>6, <1>7 DEF n

-----------------------------------------------------------------------------
(* The inductive invariant                                                 *)

\* A call has asked the head of the chain, and stands where its last outcome
\* put it.
Walked(c) ==
    /\ \A a \in DOMAIN c.asked :
         /\ a <= Len(Chain)
         /\ c.asked[a] = [provider |-> Chain[a], model |-> IF a = 1 THEN "callers" ELSE "own"]
    /\ c.st = "idle" => c = NotCalled
    /\ c.st = "asking" => Len(c.asked) < Len(Chain)
    /\ c.st = "raised" =>
         /\ c.asked # <<>> /\ c.why \in Outcomes \ {"reply", "shapeless"}
         /\ ~GoesOn(Len(c.asked), c.why)

ChainInv == ChainTypeOK /\ \A j \in Jobs : Walked(call[j])

\* A request that renders or logs has what it renders or logs.
RequestFits(k) ==
    /\ request[k].phase # "idle" => request[k].kind \in Kinds
    /\ request[k].phase = "idle" => call[Click(k)] = NotCalled
    /\ request[k].phase = "rendering" =>
         Op1(k).renders /\ (Op1(k).logs => call[Click(k)].st = "reply")
    /\ request[k].phase = "logging" => call[Click(k)].st = "reply"
    /\ request[k].phase = "failed" /\ call[Click(k)].st = "reply" => Op1(k).renders

RequestInv ==
    /\ request \in [Attempts -> Requests]
    /\ \A k \in Attempts : RequestFits(k)

LogInv ==
    /\ log \in Seq(Attempts)
    /\ \A a, b \in DOMAIN log : log[a] = log[b] => a = b
    /\ \A a \in DOMAIN log : request[log[a]].phase = "answered" /\ call[Click(log[a])].st = "reply"

\* A row is written when its call is over, and the ranking when all are.
ScoreInv ==
    /\ row \in [Resumes -> Rows] /\ results \in Seq(Resumes)
    /\ \A r \in Resumes : row[r] # NoRow => call[Resume(r)] = NotCalled
    /\ results # <<>> => results = Ranking /\ \A r \in Resumes : row[r] # NoRow

IInv == ChainInv /\ RequestInv /\ LogInv /\ ScoreInv

LEMMA JobsApart ==
    /\ \A k \in Attempts : Click(k) \in Jobs
    /\ \A r \in Resumes : Resume(r) \in Jobs
    /\ \A k \in Attempts, r \in Resumes : Click(k) # Resume(r)
    /\ \A k, e \in Attempts : Click(k) = Click(e) => k = e
    /\ \A r, e \in Resumes : Resume(r) = Resume(e) => r = e
  BY GenerationAssumption DEF Click, Resume

LEMMA OpsFit ==
    ASSUME NEW kind \in Kinds
    PROVE  /\ Operation(kind).calls \in 0 .. 2
           /\ Operation(kind).calls = 0 => Operation(kind).renders /\ ~Operation(kind).logs
  <1>1. kind \in OperationNames
    BY KindsAssumption
  <1>2. CASE kind \in DOMAIN LetterOps
    <2>1. Operation(kind) = LetterOps[kind]
      BY <1>2 DEF Operation, LetterOps, ScoreOp, ExtractOp, BuilderOps, ResumePdfOp, ProfileScoreOps
    <2> QED
      BY <1>2, <2>1 DEF LetterOps, Op
  <1>3. CASE kind \in DOMAIN ScoreOp
    <2>1. Operation(kind) = ScoreOp[kind]
      BY <1>3 DEF Operation, LetterOps, ScoreOp, ExtractOp, BuilderOps, ResumePdfOp, ProfileScoreOps
    <2> QED
      BY <1>3, <2>1 DEF ScoreOp, Op
  <1>4. CASE kind \in DOMAIN ExtractOp
    <2>1. Operation(kind) = ExtractOp[kind]
      BY <1>4 DEF Operation, LetterOps, ScoreOp, ExtractOp, BuilderOps, ResumePdfOp, ProfileScoreOps
    <2> QED
      BY <1>4, <2>1 DEF ExtractOp, Op
  <1>5. CASE kind \in DOMAIN BuilderOps
    <2>1. Operation(kind) = BuilderOps[kind]
      BY <1>5 DEF Operation, LetterOps, ScoreOp, ExtractOp, BuilderOps, ResumePdfOp, ProfileScoreOps
    <2> QED
      BY <1>5, <2>1 DEF BuilderOps, Op
  <1>6. CASE kind \in DOMAIN ResumePdfOp
    <2>1. Operation(kind) = ResumePdfOp[kind]
      BY <1>6 DEF Operation, LetterOps, ScoreOp, ExtractOp, BuilderOps, ResumePdfOp, ProfileScoreOps
    <2> QED
      BY <1>6, <2>1 DEF ResumePdfOp, Op
  <1>7. CASE kind \in DOMAIN ProfileScoreOps
    <2>1. Operation(kind) = ProfileScoreOps[kind]
      BY <1>7 DEF Operation, LetterOps, ScoreOp, ExtractOp, BuilderOps, ResumePdfOp, ProfileScoreOps
    <2> QED
      BY <1>7, <2>1 DEF ProfileScoreOps, Op
  <1> QED
    BY <1>1, <1>2, <1>3, <1>4, <1>5, <1>6, <1>7 DEF OperationNames

LEMMA IInvAtFirst == Init => IInv
  <1> SUFFICES ASSUME Init PROVE IInv
    OBVIOUS
  <1>1. NotCalled \in Calls
    BY DEF NotCalled, Calls
  <1>2. ChainTypeOK
    <2>1. Quota \in 0 .. Quota
      BY ChainAssumption
    <2> QED
      BY <1>1, <2>1 DEF Init, ChainInit, ChainTypeOK
  <1>3. \A j \in Jobs : call[j] = NotCalled
    BY DEF Init, ChainInit
  <1>4. Walked(NotCalled)
    BY DEF Walked, NotCalled
  <1>5. RequestInv
    <2>1. \A k \in Attempts : request[k] = NotMade /\ call[Click(k)] = NotCalled
      BY <1>3, JobsApart DEF Init
    <2>2. NotMade \in Requests
      BY DEF NotMade, Requests, Phases
    <2>3. request \in [Attempts -> Requests]
      BY <2>2 DEF Init
    <2>4. \A k \in Attempts : RequestFits(k)
      BY <2>1 DEF RequestFits, NotMade
    <2> QED
      BY <2>3, <2>4 DEF RequestInv
  <1>6. LogInv
    BY DEF Init, LogInv
  <1>7. ScoreInv
    <2>1. row \in [Resumes -> Rows] /\ \A r \in Resumes : row[r] = NoRow
      BY DEF Init, Rows
    <2>2. results = <<>>
      BY DEF Init
    <2> QED
      BY <2>1, <2>2 DEF ScoreInv
  <1> QED
    BY <1>2, <1>3, <1>4, <1>5, <1>6, <1>7 DEF IInv, ChainInv

-----------------------------------------------------------------------------
(* Calls                                                                   *)

Replaced(j, c) == /\ call' = [call EXCEPT ![j] = c]
                  /\ UNCHANGED <<primary, configured, left>>

LEMMA ReplacedKeepsChain ==
    ASSUME ChainInv, NEW j \in Jobs, NEW c \in Calls, Walked(c), Replaced(j, c)
    PROVE  ChainInv'
  <1>1. Chain' = Chain
    BY DEF Replaced, Chain
  <1>2. ChainTypeOK'
    BY DEF ChainInv, ChainTypeOK, Replaced
  <1>3. ASSUME NEW i \in Jobs PROVE Walked(call[i])'
    <2>1. call'[i] = IF i = j THEN c ELSE call[i]
      BY DEF Replaced, ChainInv, ChainTypeOK
    <2>2. Walked(IF i = j THEN c ELSE call[i])
      BY DEF ChainInv
    <2> QED
      BY <1>1, <2>1, <2>2 DEF Walked, GoesOn
  <1> QED
    BY <1>2, <1>3 DEF ChainInv

LEMMA StartsKeepsChain ==
    ASSUME ChainInv, NEW j \in Jobs, Starts(j), UNCHANGED <<primary, configured, left>>
    PROVE  /\ ChainInv' /\ call'[j].st = "asking"
           /\ \A i \in Jobs \ {j} : call'[i] = call[i]
  <1> DEFINE c == [NotCalled EXCEPT !.st = "asking"]
  <1>1. c = [st |-> "asking", asked |-> <<>>, why |-> "none"]
    BY DEF NotCalled
  <1>2. c \in Calls
    <2>1. [st |-> "asking", asked |-> <<>>, why |-> "none"] \in Calls
      BY DEF Calls
    <2> QED
      BY <1>1, <2>1
  <1>3. Walked(c)
    <2>1. Len(Chain) >= 1 /\ Len(Chain) \in Nat
      BY ChainFits DEF ChainInv, ChainTypeOK
    <2> QED
      BY <1>1, <2>1 DEF Walked
  <1>4. call' = [call EXCEPT ![j] = c]
    BY DEF Starts
  <1> HIDE DEF c
  <1>5. ChainInv'
    BY <1>2, <1>3, <1>4, ReplacedKeepsChain DEF Replaced
  <1> QED
    BY <1>1, <1>4, <1>5 DEF ChainInv, ChainTypeOK

LEMMA ForgetsKeepsChain ==
    ASSUME ChainInv, NEW j \in Jobs, call' = [call EXCEPT ![j] = NotCalled],
           UNCHANGED <<primary, configured, left>>
    PROVE  /\ ChainInv' /\ call'[j] = NotCalled
           /\ \A i \in Jobs \ {j} : call'[i] = call[i]
  <1>1. NotCalled \in Calls
    BY DEF Calls, NotCalled
  <1>2. Walked(NotCalled)
    BY DEF Walked, NotCalled
  <1>3. ChainInv'
    BY <1>1, <1>2, ReplacedKeepsChain DEF Replaced
  <1> QED
    BY <1>3 DEF ChainInv, ChainTypeOK

LEMMA AsksKeepsChain ==
    ASSUME ChainInv, NEW j \in Jobs, NEW outcome \in Outcomes, Ask(j, outcome)
    PROVE  /\ ChainInv' /\ call'[j].st # "idle"
           /\ \A i \in Jobs \ {j} : call'[i] = call[i]
  <1> DEFINE old == call[j]
             i == Len(old.asked) + 1
             p == Chain[i]
             hop == [provider |-> p, model |-> IF i = 1 THEN "callers" ELSE "own"]
             st == IF outcome \in {"reply", "shapeless"} THEN outcome
                   ELSE IF GoesOn(i, outcome) THEN "asking" ELSE "raised"
             new == [st |-> st, asked |-> Append(old.asked, hop),
                     why |-> IF st = "raised" THEN outcome ELSE "none"]
  <1>1. /\ old.st = "asking" /\ outcome \in Answers(p)
        /\ call' = [call EXCEPT ![j] = new]
        /\ left' = IF Spends(outcome) THEN [left EXCEPT ![Backend(p)] = @ - 1] ELSE left
        /\ UNCHANGED <<primary, configured>>
    BY DEF Ask, ChainInv, ChainTypeOK
  <1>2. old \in Calls /\ Walked(old)
    BY DEF ChainInv, ChainTypeOK
  <1>3. /\ Chain \in Seq(Providers \cup Primaries) /\ Len(Chain) \in Nat
        /\ old.asked \in Seq(Hop) /\ Len(old.asked) \in Nat /\ Len(old.asked) < Len(Chain)
    <2>1. old.asked \in Seq(Hop)
      BY <1>2 DEF Calls
    <2>2. Chain \in Seq(Providers \cup Primaries)
      BY ChainFits DEF ChainInv, ChainTypeOK
    <2>3. Len(old.asked) < Len(Chain)
      BY <1>1, <1>2 DEF Walked
    <2> HIDE DEF old
    <2> QED
      BY <2>1, <2>2, <2>3
  <1>4. i \in 1 .. Len(Chain) /\ i = Len(old.asked) + 1
    BY <1>3
  <1>5. p \in Providers \cup Primaries
    BY <1>3, <1>4
  <1>6. hop \in Hop
    BY <1>5 DEF Hop
  <1>7. hop = [provider |-> Chain[i], model |-> IF i = 1 THEN "callers" ELSE "own"]
    OBVIOUS
  <1> DEFINE asked == Append(old.asked, hop)
  <1>8. new.st = st /\ new.asked = asked /\ new.why = IF st = "raised" THEN outcome ELSE "none"
    OBVIOUS
  <1>9. /\ asked \in Seq(Hop) /\ Len(asked) = i /\ asked[i] = hop
        /\ \A a \in 1 .. i : a # i => a \in DOMAIN old.asked /\ asked[a] = old.asked[a]
    <2> HIDE DEF hop, old
    <2> QED
      BY <1>3, <1>6
  <1>10. st \in {"asking", "reply", "shapeless", "raised"} /\ st # "idle"
    OBVIOUS
  <1>11. new \in Calls
    <2> DEFINE why == IF st = "raised" THEN outcome ELSE "none"
    <2>1. why \in Outcomes \cup {"none"}
      OBVIOUS
    <2>2. new = [st |-> st, asked |-> asked, why |-> why]
      OBVIOUS
    <2> HIDE DEF st, asked, why, new
    <2>3. [st |-> st, asked |-> asked, why |-> why] \in Calls
      BY <1>9, <1>10, <2>1 DEF Calls
    <2> QED
      BY <2>2, <2>3
  <1>12. Walked(new)
    <2>1. \A a \in DOMAIN asked :
            /\ a <= Len(Chain)
            /\ asked[a] = [provider |-> Chain[a], model |-> IF a = 1 THEN "callers" ELSE "own"]
      <3> TAKE a \in DOMAIN asked
      <3> HIDE DEF asked, hop, old, i
      <3>1. a \in 1 .. i
        BY <1>9
      <3>2. CASE a = i
        BY <1>4, <1>7, <1>9, <3>2
      <3>3. CASE a # i
        <4>1. a \in DOMAIN old.asked /\ asked[a] = old.asked[a]
          BY <1>9, <3>1, <3>3
        <4> QED
          BY <1>2, <4>1 DEF Walked
      <3> QED
        BY <3>2, <3>3
    <2>2. st = "asking" => i < Len(Chain)
      BY DEF GoesOn
    <2>3. st = "raised" => outcome \in Outcomes \ {"reply", "shapeless"} /\ ~GoesOn(i, outcome)
      OBVIOUS
    <2>4. asked # <<>>
      BY <1>4, <1>9
    <2> HIDE DEF st, asked, i, new
    <2> QED
      BY <1>8, <1>9, <1>10, <2>1, <2>2, <2>3, <2>4 DEF Walked
  <1>13. left' \in [Providers -> 0 .. Quota]
    <2>1. left \in [Providers -> 0 .. Quota] /\ Quota \in Nat
      BY ChainAssumption DEF ChainInv, ChainTypeOK
    <2>2. Backend(p) \in Providers
      BY ChainAssumption DEF Backend
    <2>3. Spends(outcome) => left[Backend(p)] # 0
      <3>1. ASSUME Spends(outcome), left[Backend(p)] = 0 PROVE FALSE
        <4>1. outcome # "absent" /\ outcome # "busy"
          BY <3>1 DEF Spends
        <4>2. Answers(p) \in {{"absent"}, {"busy"}}
          BY <3>1 DEF Answers
        <4> QED
          BY <1>1, <4>1, <4>2
      <3> QED
        BY <3>1
    <2> HIDE DEF p
    <2>4. CASE Spends(outcome)
      <3>1. left[Backend(p)] - 1 \in 0 .. Quota
        BY <2>1, <2>2, <2>3, <2>4
      <3> QED
        BY <1>1, <2>1, <2>2, <2>4, <3>1
    <2>5. CASE ~Spends(outcome)
      BY <1>1, <2>1, <2>5
    <2> QED
      BY <2>4, <2>5
  <1> HIDE DEF new
  <1>14. Chain' = Chain
    BY <1>1 DEF Chain
  <1>15. call'[j] = new /\ \A e \in Jobs \ {j} : call'[e] = call[e]
    BY <1>1 DEF ChainInv, ChainTypeOK
  <1>16. ChainTypeOK'
    BY <1>1, <1>11, <1>13 DEF ChainInv, ChainTypeOK
  <1>17. ASSUME NEW e \in Jobs PROVE Walked(call[e])'
    <2>1. Walked(call'[e])
      BY <1>12, <1>15 DEF ChainInv
    <2> QED
      BY <1>14, <2>1 DEF Walked, GoesOn
  <1>18. ChainInv'
    BY <1>16, <1>17 DEF ChainInv
  <1> QED
    BY <1>8, <1>10, <1>15, <1>18

-----------------------------------------------------------------------------
(* Requests                                                                *)

LEMMA RequestKept ==
    ASSUME NEW e \in Attempts, RequestFits(e), request'[e] = request[e],
           call'[Click(e)] = call[Click(e)]
    PROVE  RequestFits(e)'
  BY DEF RequestFits, Op1

(* A step of one request leaves the others, the scores and what is already *)
(* answered alone.                                                         *)
LEMMA ClickStep ==
    ASSUME IInv, NEW k \in Attempts, NEW new \in Requests,
           request' = [request EXCEPT ![k] = new], request[k].phase # "answered",
           \A j \in Jobs \ {Click(k)} : call'[j] = call[j],
           UNCHANGED <<row, results>>, ChainInv', RequestFits(k)'
    PROVE  /\ RequestInv' /\ ScoreInv'
           /\ \A a \in DOMAIN log :
                request'[log[a]].phase = "answered" /\ call'[Click(log[a])].st = "reply"
           /\ \A a \in DOMAIN log : log[a] # k
           /\ log' = log => IInv'
  <1>1. request \in [Attempts -> Requests] /\ \A e \in Attempts : RequestFits(e)
    BY DEF IInv, RequestInv
  <1>2. \A e \in Attempts \ {k} : request'[e] = request[e] /\ call'[Click(e)] = call[Click(e)]
    BY <1>1, JobsApart
  <1>3. RequestInv'
    <2>1. request' \in [Attempts -> Requests]
      BY <1>1
    <2>2. \A e \in Attempts : RequestFits(e)'
      <3> TAKE e \in Attempts
      <3>1. CASE e = k
        BY <3>1
      <3>2. CASE e # k
        BY <1>1, <1>2, <3>2, RequestKept
      <3> QED
        BY <3>1, <3>2
    <2> QED
      BY <2>1, <2>2 DEF RequestInv
  <1>4. ScoreInv'
    <2>1. \A r \in Resumes : call'[Resume(r)] = call[Resume(r)]
      BY JobsApart
    <2>2. Ranking' = Ranking
      BY DEF Ranking, Place, Before, Scored
    <2> QED
      BY <2>1, <2>2 DEF IInv, ScoreInv
  <1>5. /\ \A a \in DOMAIN log : log[a] \in Attempts
        /\ \A a \in DOMAIN log : request[log[a]].phase = "answered" /\ call[Click(log[a])].st = "reply"
    BY DEF IInv, LogInv
  <1>6. \A a \in DOMAIN log : log[a] # k
    BY <1>5
  <1>7. \A a \in DOMAIN log : request'[log[a]].phase = "answered" /\ call'[Click(log[a])].st = "reply"
    BY <1>2, <1>5, <1>6
  <1>8. log' = log => LogInv'
    BY <1>7 DEF IInv, LogInv
  <1> QED
    BY <1>3, <1>4, <1>6, <1>7, <1>8 DEF IInv

LEMMA ChainKept ==
    ASSUME IInv, UNCHANGED chainVars
    PROVE  ChainInv' /\ \A j \in Jobs : call'[j] = call[j]
  <1>1. UNCHANGED <<primary, configured, left, call>>
    BY DEF chainVars
  <1>2. Chain' = Chain
    BY <1>1 DEF Chain
  <1> QED
    BY <1>1, <1>2 DEF IInv, ChainInv, ChainTypeOK, Walked, GoesOn

LEMMA SubmitStep ==
    ASSUME IInv, NEW k \in Attempts, NEW kind \in Kinds, NEW good \in BOOLEAN, Submit(k, kind, good)
    PROVE  IInv'
  <1> DEFINE calls == Operation(kind).calls
             phase == CASE ~good -> "failed" [] good /\ calls = 0 -> "rendering" [] OTHER -> "calling"
             new == [phase |-> phase, kind |-> kind, calls |-> calls, here |-> TRUE]
  <1>1. /\ request[k].phase = "idle" /\ request' = [request EXCEPT ![k] = new]
        /\ IF phase = "calling" THEN Starts(Click(k)) ELSE UNCHANGED call
        /\ UNCHANGED <<primary, configured, left, row, results, log>>
    BY DEF Submit
  <1>2. calls \in 0 .. 2 /\ (calls = 0 => Operation(kind).renders /\ ~Operation(kind).logs)
    BY OpsFit
  <1>3. \/ phase = "failed"
        \/ phase = "rendering" /\ calls = 0
        \/ phase = "calling"
    OBVIOUS
  <1>4. new \in Requests
    <2> HIDE DEF phase, calls
    <2> QED
      BY <1>2, <1>3 DEF Requests, Phases, Ended
  <1>5. call[Click(k)] = NotCalled /\ request[k] \in Requests
    BY <1>1 DEF IInv, RequestInv, RequestFits
  <1>6. request'[k] = new /\ new.phase = phase /\ new.kind = kind
    BY <1>1 DEF IInv, RequestInv
  <1> HIDE DEF new, phase
  <1>7. CASE phase = "calling"
    <2>1. ChainInv' /\ \A j \in Jobs \ {Click(k)} : call'[j] = call[j]
      BY <1>1, <1>7, JobsApart, StartsKeepsChain DEF IInv
    <2>2. RequestFits(k)'
      BY <1>6, <1>7 DEF RequestFits
    <2> QED
      BY <1>1, <1>4, <2>1, <2>2, ClickStep
  <1>8. CASE phase # "calling"
    <2>1. ChainInv' /\ \A j \in Jobs : call'[j] = call[j]
      BY <1>1, <1>8, ChainKept DEF chainVars
    <2>2. RequestFits(k)'
      <3>1. call'[Click(k)].st = "idle"
        BY <1>5, <2>1, JobsApart DEF NotCalled
      <3> QED
        BY <1>2, <1>3, <1>6, <1>8, <3>1 DEF RequestFits, Op1
    <2> QED
      BY <1>1, <1>4, <2>1, <2>2, ClickStep
  <1> QED
    BY <1>7, <1>8

LEMMA AsksClickStep ==
    ASSUME IInv, NEW k \in Attempts, NEW outcome \in Outcomes, AsksClick(k, outcome)
    PROVE  IInv'
  <1>1. /\ request[k].phase = "calling" /\ Ask(Click(k), outcome)
        /\ UNCHANGED <<request, row, results, log>>
    BY DEF AsksClick
  <1>2. ChainInv' /\ \A j \in Jobs \ {Click(k)} : call'[j] = call[j]
    BY <1>1, JobsApart, AsksKeepsChain DEF IInv
  <1>3. /\ request[k] \in Requests /\ request' = [request EXCEPT ![k] = request[k]]
        /\ request'[k] = request[k]
    BY <1>1 DEF IInv, RequestInv
  <1>4. RequestFits(k)'
    BY <1>1, <1>3 DEF IInv, RequestInv, RequestFits
  <1> QED
    BY <1>1, <1>2, <1>3, <1>4, ClickStep

(* What a request becomes when only its phase changes.                     *)
LEMMA PhaseChanges ==
    ASSUME request \in [Attempts -> Requests], NEW k \in Attempts, NEW phase \in Phases, To(k, phase)
    PROVE  LET new == [request[k] EXCEPT !.phase = phase] IN
           /\ new \in Requests /\ request' = [request EXCEPT ![k] = new]
           /\ request'[k].phase = phase /\ request'[k].kind = request[k].kind
  BY DEF To, Requests

LEMMA ReturnsStep ==
    ASSUME IInv, NEW k \in Attempts, Returns(k)
    PROVE  IInv'
  <1>1. /\ request[k].phase = "calling" /\ UNCHANGED <<primary, configured, left, row, results, log>>
        /\ request[k] \in Requests /\ request \in [Attempts -> Requests] /\ request[k].kind \in Kinds
    BY DEF Returns, IInv, RequestInv, RequestFits
  <1>2. CASE call[Click(k)].st # "reply" /\ To(k, "failed") /\ UNCHANGED call
    <2>1. ChainInv' /\ \A j \in Jobs : call'[j] = call[j]
      BY <1>1, <1>2, ChainKept DEF chainVars
    <2> DEFINE new == [request[k] EXCEPT !.phase = "failed"]
    <2>2. /\ new \in Requests /\ request' = [request EXCEPT ![k] = new]
          /\ request'[k].phase = "failed" /\ request'[k].kind = request[k].kind
      BY <1>1, <1>2, PhaseChanges DEF Phases, Ended
    <2> HIDE DEF new
    <2>3. RequestFits(k)'
      BY <1>1, <1>2, <2>2 DEF RequestFits
    <2> QED
      BY <1>1, <2>1, <2>2, <2>3, ClickStep
  <1>3. CASE /\ request[k].calls > 1
             /\ request' = [request EXCEPT ![k].calls = @ - 1] /\ Starts(Click(k))
    <2> DEFINE new == [request[k] EXCEPT !.calls = @ - 1]
    <2>1. ChainInv' /\ \A j \in Jobs \ {Click(k)} : call'[j] = call[j]
      BY <1>1, <1>3, JobsApart, StartsKeepsChain DEF IInv
    <2>2. request[k].calls - 1 \in 0 .. 2
      BY <1>1, <1>3 DEF Requests
    <2>3. /\ new \in Requests /\ request' = [request EXCEPT ![k] = new]
          /\ request'[k].phase = "calling" /\ request'[k].kind = request[k].kind
      BY <1>1, <1>3, <2>2 DEF Requests
    <2> HIDE DEF new
    <2>4. RequestFits(k)'
      BY <1>1, <2>3 DEF RequestFits
    <2> QED
      BY <1>1, <2>1, <2>3, <2>4, ClickStep
  <1>4. CASE call[Click(k)].st = "reply" /\ To(k, AfterCall(k)) /\ UNCHANGED call
    <2> DEFINE phase == AfterCall(k)
               new == [request[k] EXCEPT !.phase = phase]
    <2>1. ChainInv' /\ \A j \in Jobs : call'[j] = call[j]
      BY <1>1, <1>4, ChainKept DEF chainVars
    <2>2. /\ phase \in {"rendering", "logging", "answered"}
          /\ phase = "rendering" => Op1(k).renders
      BY DEF AfterCall
    <2> HIDE DEF phase
    <2>3. /\ new \in Requests /\ request' = [request EXCEPT ![k] = new]
          /\ request'[k].phase = phase /\ request'[k].kind = request[k].kind
      <3>1. phase \in Phases
        BY <2>2 DEF Phases, Ended
      <3>2. To(k, phase)
        BY <1>4 DEF phase
      <3> QED
        BY <1>1, <3>1, <3>2, PhaseChanges
    <2> HIDE DEF new
    <2>4. Op1(k)' = Op1(k)
      BY <2>3 DEF Op1
    <2>5. call'[Click(k)].st = "reply"
      BY <1>4, <2>1, JobsApart
    <2>6. RequestFits(k)'
      BY <1>1, <2>2, <2>3, <2>4, <2>5 DEF RequestFits
    <2> QED
      BY <1>1, <2>1, <2>3, <2>6, ClickStep
  <1> QED
    BY <1>2, <1>3, <1>4 DEF Returns

LEMMA RendersStep ==
    ASSUME IInv, NEW k \in Attempts, NEW works \in BOOLEAN, Renders(k, works)
    PROVE  IInv'
  <1> DEFINE phase == IF ~works THEN "failed" ELSE IF Op1(k).logs THEN "logging" ELSE "answered"
             new == [request[k] EXCEPT !.phase = phase]
  <1>1. /\ request[k].phase = "rendering" /\ To(k, phase)
        /\ UNCHANGED <<chainVars, row, results, log>>
        /\ request[k] \in Requests /\ request \in [Attempts -> Requests] /\ request[k].kind \in Kinds
        /\ Op1(k).renders /\ (Op1(k).logs => call[Click(k)].st = "reply")
    BY DEF Renders, IInv, RequestInv, RequestFits
  <1>2. ChainInv' /\ \A j \in Jobs : call'[j] = call[j]
    BY <1>1, ChainKept
  <1>3. /\ phase \in {"failed", "logging", "answered"}
        /\ phase = "logging" => Op1(k).logs
    OBVIOUS
  <1> HIDE DEF phase
  <1>4. /\ new \in Requests /\ request' = [request EXCEPT ![k] = new]
        /\ request'[k].phase = phase /\ request'[k].kind = request[k].kind
    <2>1. phase \in Phases
      BY <1>3 DEF Phases, Ended
    <2> QED
      BY <1>1, <2>1, PhaseChanges
  <1> HIDE DEF new
  <1>5. Op1(k)' = Op1(k)
    BY <1>4 DEF Op1
  <1>6. RequestFits(k)'
    BY <1>1, <1>2, <1>3, <1>4, <1>5, JobsApart DEF RequestFits
  <1> QED
    BY <1>1, <1>2, <1>4, <1>6, ClickStep

LEMMA LogsStep ==
    ASSUME IInv, NEW k \in Attempts, NEW works \in BOOLEAN, Logs(k, works)
    PROVE  IInv'
  <1> DEFINE new == [request[k] EXCEPT !.phase = "answered"]
  <1>1. /\ request[k].phase = "logging" /\ To(k, "answered")
        /\ UNCHANGED <<chainVars, row, results>>
        /\ log' = IF works THEN Append(log, k) ELSE log
        /\ request[k] \in Requests /\ request \in [Attempts -> Requests] /\ request[k].kind \in Kinds
        /\ call[Click(k)].st = "reply"
    BY DEF Logs, IInv, RequestInv, RequestFits
  <1>2. ChainInv' /\ \A j \in Jobs : call'[j] = call[j]
    BY <1>1, ChainKept
  <1>3. /\ new \in Requests /\ request' = [request EXCEPT ![k] = new]
        /\ request'[k].phase = "answered" /\ request'[k].kind = request[k].kind
    BY <1>1, PhaseChanges DEF Phases, Ended
  <1> HIDE DEF new
  <1>4. call'[Click(k)].st = "reply"
    BY <1>1, <1>2, JobsApart
  <1>5. RequestFits(k)'
    BY <1>1, <1>3 DEF RequestFits
  <1>6. /\ RequestInv' /\ ScoreInv'
        /\ \A a \in DOMAIN log :
             request'[log[a]].phase = "answered" /\ call'[Click(log[a])].st = "reply"
        /\ \A a \in DOMAIN log : log[a] # k
        /\ log' = log => IInv'
    BY <1>1, <1>2, <1>3, <1>5, ClickStep
  <1>7. CASE ~works
    BY <1>1, <1>6, <1>7
  <1>8. CASE works
    <2> DEFINE n == Len(log)
    <2>1. log \in Seq(Attempts) /\ n \in Nat /\ DOMAIN log = 1 .. n
      BY DEF IInv, LogInv
    <2>2. log' = Append(log, k)
      BY <1>1, <1>8
    <2>3. /\ log' \in Seq(Attempts) /\ DOMAIN log' = 1 .. (n + 1) /\ log'[n + 1] = k
          /\ \A a \in 1 .. n : log'[a] = log[a]
      BY <2>1, <2>2
    <2>4. \A a \in DOMAIN log' : a = n + 1 \/ a \in DOMAIN log
      BY <2>1, <2>3
    <2>5. \A a, b \in DOMAIN log : log[a] = log[b] => a = b
      BY DEF IInv, LogInv
    <2>6. \A a, b \in DOMAIN log' : log'[a] = log'[b] => a = b
      BY <1>6, <2>1, <2>3, <2>4, <2>5
    <2>7. \A a \in DOMAIN log' :
            request'[log'[a]].phase = "answered" /\ call'[Click(log'[a])].st = "reply"
      BY <1>3, <1>4, <1>6, <2>1, <2>3, <2>4
    <2>8. LogInv'
      BY <2>3, <2>6, <2>7 DEF LogInv
    <2> QED
      BY <1>2, <1>6, <2>8 DEF IInv
  <1> QED
    BY <1>7, <1>8

LEMMA GivesUpStep ==
    ASSUME IInv, NEW k \in Attempts, GivesUp(k)
    PROVE  IInv'
  <1> DEFINE new == [request[k] EXCEPT !.here = FALSE]
  <1>1. /\ request[k].phase # "answered" /\ request' = [request EXCEPT ![k] = new]
        /\ UNCHANGED <<chainVars, row, results, log>>
        /\ request[k] \in Requests /\ request \in [Attempts -> Requests]
    BY DEF GivesUp, IInv, RequestInv, Ended
  <1>2. ChainInv' /\ \A j \in Jobs : call'[j] = call[j]
    BY <1>1, ChainKept
  <1>3. /\ new \in Requests /\ request'[k] = new
        /\ new.phase = request[k].phase /\ new.kind = request[k].kind
    BY <1>1 DEF Requests
  <1> HIDE DEF new
  <1>4. Op1(k)' = Op1(k)
    BY <1>3 DEF Op1
  <1>5. RequestFits(k)'
    BY <1>2, <1>3, <1>4, JobsApart DEF RequestFits, IInv, RequestInv
  <1> QED
    BY <1>1, <1>2, <1>3, <1>5, ClickStep

-----------------------------------------------------------------------------
(* Scores                                                                  *)

(* A step of one resume that has no row yet.                               *)
LEMMA ResumeStep ==
    ASSUME IInv, NEW r \in Resumes, NEW value \in Rows,
           row[r] = NoRow, row' = [row EXCEPT ![r] = value],
           value # NoRow => call'[Resume(r)] = NotCalled,
           \A j \in Jobs \ {Resume(r)} : call'[j] = call[j],
           UNCHANGED <<request, results, log>>, ChainInv'
    PROVE  IInv'
  <1>1. RequestInv'
    <2>1. ASSUME NEW e \in Attempts PROVE RequestFits(e)'
      <3>1. RequestFits(e)
        BY DEF IInv, RequestInv
      <3>2. call'[Click(e)] = call[Click(e)]
        BY JobsApart
      <3> QED
        BY <3>1, <3>2, RequestKept
    <2> QED
      BY <2>1 DEF IInv, RequestInv
  <1>2. LogInv'
    <2>1. \A a \in DOMAIN log : log[a] \in Attempts
      BY DEF IInv, LogInv
    <2>2. \A a \in DOMAIN log : call'[Click(log[a])] = call[Click(log[a])]
      BY <2>1, JobsApart
    <2> QED
      BY <2>2 DEF IInv, LogInv
  <1>3. ScoreInv'
    <2>1. row' \in [Resumes -> Rows]
      BY DEF IInv, ScoreInv
    <2>2. results' = <<>> /\ results' \in Seq(Resumes)
      BY DEF IInv, ScoreInv
    <2>3. ASSUME NEW e \in Resumes, row'[e] # NoRow PROVE call'[Resume(e)] = NotCalled
      <3>1. CASE e = r
        BY <2>3, <3>1 DEF IInv, ScoreInv
      <3>2. CASE e # r
        <4>1. row'[e] = row[e]
          BY <3>2 DEF IInv, ScoreInv
        <4>2. call'[Resume(e)] = call[Resume(e)]
          BY <3>2, JobsApart
        <4> QED
          BY <2>3, <4>1, <4>2 DEF IInv, ScoreInv
      <3> QED
        BY <3>1, <3>2
    <2> QED
      BY <2>1, <2>2, <2>3 DEF ScoreInv
  <1> QED
    BY <1>1, <1>2, <1>3 DEF IInv

LEMMA RowPending ==
    ASSUME IInv, NEW r \in Resumes, call[Resume(r)].st # "idle"
    PROVE  row[r] = NoRow
  BY DEF IInv, ScoreInv, NotCalled

LEMMA ScoreStartsStep ==
    ASSUME IInv, NEW r \in Resumes, NEW found \in BOOLEAN, ScoreStarts(r, found)
    PROVE  IInv'
  <1>1. /\ row[r] = NoRow /\ UNCHANGED <<primary, configured, left, request, results, log>>
        /\ row \in [Resumes -> Rows] /\ call[Resume(r)].st = "idle"
    BY DEF ScoreStarts, IInv, ScoreInv
  <1>2. CASE found
    <2>1. Starts(Resume(r)) /\ row' = row
      BY <1>2 DEF ScoreStarts
    <2>2. ChainInv' /\ \A j \in Jobs \ {Resume(r)} : call'[j] = call[j]
      BY <1>1, <2>1, JobsApart, StartsKeepsChain DEF IInv
    <2>3. row' = [row EXCEPT ![r] = NoRow] /\ NoRow \in Rows
      BY <1>1, <2>1 DEF Rows
    <2> QED
      BY <1>1, <2>2, <2>3, ResumeStep
  <1>3. CASE ~found
    <2>1. row' = [row EXCEPT ![r] = ErrorRow] /\ UNCHANGED call /\ ErrorRow \in Rows
      BY <1>3 DEF ScoreStarts, Rows
    <2>2. ChainInv' /\ \A j \in Jobs : call'[j] = call[j]
      BY <1>1, <2>1, ChainKept DEF chainVars
    <2>3. call[Resume(r)] = NotCalled
      <3>1. Walked(call[Resume(r)])
        BY JobsApart DEF IInv, ChainInv
      <3> QED
        BY <1>1, <3>1 DEF Walked
    <2> QED
      BY <1>1, <2>1, <2>2, <2>3, JobsApart, ResumeStep
  <1> QED
    BY <1>2, <1>3

LEMMA AsksResumeStep ==
    ASSUME IInv, NEW r \in Resumes, NEW outcome \in Outcomes, AsksResume(r, outcome)
    PROVE  IInv'
  <1>1. Ask(Resume(r), outcome) /\ UNCHANGED <<request, row, results, log>>
    BY DEF AsksResume
  <1>2. ChainInv' /\ \A j \in Jobs \ {Resume(r)} : call'[j] = call[j]
    BY <1>1, JobsApart, AsksKeepsChain DEF IInv
  <1>3. row[r] = NoRow
    <2>1. call[Resume(r)].st # "idle"
      BY <1>1 DEF Ask
    <2> QED
      BY <2>1, RowPending
  <1>4. row' = [row EXCEPT ![r] = NoRow] /\ NoRow \in Rows
    BY <1>1, <1>3 DEF Rows, IInv, ScoreInv
  <1> QED
    BY <1>1, <1>2, <1>3, <1>4, ResumeStep

LEMMA RowIsStep ==
    ASSUME IInv, NEW r \in Resumes, NEW value \in Rows, call[Resume(r)].st # "idle", RowIs(r, value)
    PROVE  IInv'
  <1>1. /\ row' = [row EXCEPT ![r] = value] /\ call' = [call EXCEPT ![Resume(r)] = NotCalled]
        /\ UNCHANGED <<primary, configured, left, request, results, log>>
    BY DEF RowIs
  <1>2. /\ ChainInv' /\ call'[Resume(r)] = NotCalled
        /\ \A j \in Jobs \ {Resume(r)} : call'[j] = call[j]
    BY <1>1, JobsApart, ForgetsKeepsChain DEF IInv
  <1> QED
    BY <1>1, <1>2, RowPending, ResumeStep

LEMMA ScoreEndsStep ==
    ASSUME IInv, NEW r \in Resumes, NEW reply \in Replies, ScoreEnds(r, reply)
    PROVE  IInv'
  <1> DEFINE value == IF Gradable(reply) THEN ScoredRow(reply) ELSE ErrorRow
  <1>1. call[Resume(r)].st # "idle" /\ RowIs(r, value)
    BY DEF ScoreEnds
  <1>2. value \in Rows
    BY DEF Rows
  <1> HIDE DEF value
  <1> QED
    BY <1>1, <1>2, RowIsStep

LEMMA ScoreRaisesStep ==
    ASSUME IInv, NEW r \in Resumes, ScoreRaises(r)
    PROVE  IInv'
  <1>1. call[Resume(r)].st # "idle" /\ RowIs(r, ErrorRow) /\ ErrorRow \in Rows
    BY DEF ScoreRaises, Rows
  <1> QED
    BY <1>1, RowIsStep

LEMMA RanksStep ==
    ASSUME IInv, Ranks
    PROVE  IInv'
  <1>1. /\ \A r \in Resumes : row[r] # NoRow
        /\ results' = Ranking /\ UNCHANGED <<chainVars, request, row, log>>
    BY DEF Ranks
  <1>2. ChainInv' /\ \A j \in Jobs : call'[j] = call[j]
    BY <1>1, ChainKept
  <1>3. call' = call
    BY <1>1 DEF chainVars
  <1>4. RequestInv' /\ LogInv'
    BY <1>1, <1>3 DEF IInv, RequestInv, RequestFits, Op1, LogInv
  <1>5. ScoreInv'
    <2>1. Ranking' = Ranking
      BY <1>1 DEF Ranking, Place, Before, Scored
    <2>2. row \in [Resumes -> Rows]
      BY DEF IInv, ScoreInv
    <2>3. Ranking \in Seq(Resumes)
      BY <2>2, RankingFits
    <2> QED
      BY <1>1, <1>3, <2>1, <2>2, <2>3 DEF IInv, ScoreInv
  <1> QED
    BY <1>2, <1>4, <1>5 DEF IInv

LEMMA IInvStays == IInv /\ [Next]_vars => IInv'
  <1> SUFFICES ASSUME IInv, [Next]_vars PROVE IInv'
    OBVIOUS
  <1>1. CASE UNCHANGED vars
    <2>1. UNCHANGED <<chainVars, request, row, results, log>>
      BY <1>1 DEF vars
    <2>2. ChainInv'
      BY <2>1, ChainKept
    <2>3. UNCHANGED call
      BY <2>1 DEF chainVars
    <2>4. RequestInv' /\ LogInv'
      BY <2>1, <2>3 DEF IInv, RequestInv, RequestFits, Op1, LogInv
    <2>5. ScoreInv'
      <3>1. Ranking' = Ranking
        BY <2>1 DEF Ranking, Place, Before, Scored
      <3> QED
        BY <2>1, <2>3, <3>1 DEF IInv, ScoreInv
    <2> QED
      BY <2>2, <2>4, <2>5 DEF IInv
  <1>2. ASSUME NEW k \in Attempts, NEW kind \in Kinds, NEW good \in BOOLEAN, Submit(k, kind, good)
        PROVE  IInv'
    BY <1>2, SubmitStep
  <1>3. ASSUME NEW k \in Attempts, Works(k)
        PROVE  IInv'
    BY <1>3, AsksClickStep, ReturnsStep, RendersStep, LogsStep DEF Works
  <1>4. ASSUME NEW k \in Attempts, GivesUp(k)
        PROVE  IInv'
    BY <1>4, GivesUpStep
  <1>5. ASSUME NEW r \in Resumes, Scores(r)
        PROVE  IInv'
    BY <1>5, ScoreStartsStep, AsksResumeStep, ScoreEndsStep, ScoreRaisesStep DEF Scores
  <1>6. ASSUME Ranks PROVE IInv'
    BY <1>6, RanksStep
  <1> QED
    BY <1>1, <1>2, <1>3, <1>4, <1>5, <1>6 DEF Next

-----------------------------------------------------------------------------
(* What holds                                                              *)

LEMMA WalksAreShort ==
    ASSUME ChainInv, NEW j \in Jobs
    PROVE  LET asked == call[j].asked IN
           /\ asked \in Seq(Hop) /\ DOMAIN asked = 1 .. Len(asked) /\ Len(asked) <= Len(Chain)
           /\ \A a \in DOMAIN asked :
                /\ a \in DOMAIN Chain /\ asked[a].provider = Chain[a]
                /\ asked[a].model = "callers" => a = 1
  <1> DEFINE asked == call[j].asked
             n == Len(asked)
  <1>1. asked \in Seq(Hop) /\ Walked(call[j])
    BY DEF ChainInv, ChainTypeOK, Calls
  <1>2. Chain \in Seq(Providers \cup Primaries) /\ Len(Chain) >= 1
    BY ChainFits DEF ChainInv, ChainTypeOK
  <1>3. \A a \in DOMAIN asked :
          /\ a <= Len(Chain)
          /\ asked[a] = [provider |-> Chain[a], model |-> IF a = 1 THEN "callers" ELSE "own"]
    BY <1>1 DEF Walked
  <1> HIDE DEF asked
  <1>4. n \in Nat /\ DOMAIN asked = 1 .. n /\ Len(Chain) \in Nat /\ DOMAIN Chain = 1 .. Len(Chain)
    BY <1>1, <1>2
  <1>5. n <= Len(Chain)
    <2>1. n >= 1 => n \in DOMAIN asked
      BY <1>4
    <2> QED
      BY <1>2, <1>3, <1>4, <2>1
  <1>6. \A a \in DOMAIN asked :
          /\ a \in DOMAIN Chain /\ asked[a].provider = Chain[a]
          /\ asked[a].model = "callers" => a = 1
    BY <1>3, <1>4
  <1> QED
    BY <1>1, <1>4, <1>5, <1>6 DEF asked

LEMMA EveryWalkIsOnce == ChainInv => WalksOnce
  <1> SUFFICES ASSUME ChainInv, NEW j \in Jobs
               PROVE  LET asked == call[j].asked IN
                      /\ \A a, b \in DOMAIN asked : a # b => asked[a].provider # asked[b].provider
                      /\ \A a \in DOMAIN asked : asked[a].model = "callers" => asked[a].provider = primary
    BY DEF WalksOnce
  <1> DEFINE asked == call[j].asked
  <1>1. /\ Chain[1] = primary
        /\ \A a, b \in DOMAIN Chain : Chain[a] = Chain[b] => a = b
    BY ChainFits DEF ChainInv, ChainTypeOK
  <1>2. \A a \in DOMAIN asked :
          /\ a \in DOMAIN Chain /\ asked[a].provider = Chain[a]
          /\ asked[a].model = "callers" => a = 1
    BY WalksAreShort
  <1> HIDE DEF asked
  <1>3. \A a, b \in DOMAIN asked : a # b => asked[a].provider # asked[b].provider
    BY <1>1, <1>2
  <1>4. \A a \in DOMAIN asked : asked[a].model = "callers" => asked[a].provider = primary
    BY <1>1, <1>2
  <1> QED
    BY <1>3, <1>4 DEF asked

LEMMA EveryErrorIsLast == ChainInv => GivesUpLast
  <1> SUFFICES ASSUME ChainInv, NEW j \in Jobs, call[j].st = "raised"
               PROVE  \/ {hop.provider : hop \in ToSet(call[j].asked)} = ToSet(Walk) \cup {primary}
                      \/ call[j].why \in {"hard", "garbled"}
                      \/ Len(call[j].asked) = 1 /\ call[j].why = "absent"
    BY DEF GivesUpLast
  <1> DEFINE asked == call[j].asked
             why == call[j].why
             n == Len(asked)
  <1>1. /\ asked # <<>> /\ why \in Outcomes \ {"reply", "shapeless"}
        /\ ~GoesOn(n, why)
    BY DEF ChainInv, Walked
  <1>2. /\ asked \in Seq(Hop) /\ DOMAIN asked = 1 .. n /\ n <= Len(Chain)
        /\ \A a \in DOMAIN asked : a \in DOMAIN Chain /\ asked[a].provider = Chain[a]
    BY WalksAreShort
  <1>3. /\ Chain \in Seq(Providers \cup Primaries)
        /\ {Chain[a] : a \in DOMAIN Chain} = ToSet(Walk) \cup {primary}
    BY ChainFits DEF ChainInv, ChainTypeOK
  <1> HIDE DEF asked
  <1>4. n \in Nat /\ n >= 1 /\ Len(Chain) \in Nat /\ DOMAIN Chain = 1 .. Len(Chain)
    BY <1>1, <1>2, <1>3
  <1>5. CASE n = Len(Chain)
    <2>1. DOMAIN asked = DOMAIN Chain
      BY <1>2, <1>4, <1>5
    <2>2. {hop.provider : hop \in ToSet(asked)} = {asked[a].provider : a \in DOMAIN asked}
      BY DEF ToSet
    <2>3. {asked[a].provider : a \in DOMAIN asked} = {Chain[a] : a \in DOMAIN Chain}
      BY <1>2, <2>1
    <2> QED
      BY <1>3, <2>2, <2>3 DEF asked
  <1>6. CASE n # Len(Chain)
    <2> DEFINE size == Len(Chain)
    <2>1. n < Len(Chain)
      <3>1. n \in Nat /\ size \in Nat /\ n <= size /\ n # size
        BY <1>2, <1>4, <1>6
      <3> HIDE DEF n, size
      <3>2. n < size
        BY <3>1
      <3> QED
        BY <3>2 DEF size
    <2>2. ~ShouldFallback(why) /\ ~(n > 1 /\ Unconfigured(why))
      BY <1>1, <2>1 DEF GoesOn
    <2>3. why \in {"hard", "garbled", "absent"}
      BY <1>1, <2>2 DEF ShouldFallback, Outcomes
    <2>4. why = "absent" => n = 1
      <3>1. n \in Nat /\ n >= 1 /\ ~(n > 1 /\ why = "absent")
        BY <1>4, <2>2 DEF Unconfigured
      <3> HIDE DEF n, why
      <3> QED
        BY <3>1
    <2> QED
      BY <2>3, <2>4 DEF asked
  <1> QED
    BY <1>5, <1>6

LEMMA LogIsLast == IInv => LogNeverDecides
  <1> SUFFICES ASSUME IInv PROVE LogNeverDecides
    OBVIOUS
  <1>1. \A k \in Attempts :
          request[k].phase = "failed" /\ call[Click(k)].st = "reply" => Op1(k).renders
    BY DEF IInv, RequestInv, RequestFits
  <1>2. IsInjective(log)
    BY DEF IInv, LogInv, IsInjective
  <1>3. \A k \in ToSet(log) : request[k].phase = "answered" /\ call[Click(k)].st = "reply"
    BY DEF IInv, LogInv, ToSet
  <1> QED
    BY <1>1, <1>2, <1>3 DEF LogNeverDecides

(* The score of a row, as a walk through its parts.                        *)
LEMMA RowScore ==
    ASSUME ScoreInv, NEW r \in Resumes, Scored(r)
    PROVE  LET rubric == row[r].reply.rubric
               status == Coverage(rubric, row[r].reply.coverage)
           IN /\ rubric \in Seq(RawItem) /\ row[r].reply.coverage \in Seq(RawEntry)
              /\ IsFiniteSet(Kept(rubric)) /\ status \in Statuses(Kept(rubric))
              /\ row[r].grade.score_100 = Hundred(rubric, status)
              /\ row[r].grade.score = OutOfTen(Hundred(rubric, status))
  <1>1. PICK reply \in Replies :
          reply \in RawReply /\ row[r].reply = reply /\ row[r].grade = Graded(reply)
    BY GradeFits DEF ScoreInv
  <1>2. reply.rubric \in Seq(RawItem) /\ reply.coverage \in Seq(RawEntry)
    BY <1>1 DEF RawReply
  <1>3. /\ IsFiniteSet(Kept(reply.rubric))
        /\ Coverage(reply.rubric, reply.coverage) \in Statuses(Kept(reply.rubric))
    BY <1>2, KeptFits, CoverageFits
  <1>4. /\ Graded(reply).score_100 = Hundred(reply.rubric, Coverage(reply.rubric, reply.coverage))
        /\ Graded(reply).score = OutOfTen(Hundred(reply.rubric, Coverage(reply.rubric, reply.coverage)))
    BY DEF Graded
  <1> QED
    BY <1>1, <1>2, <1>3, <1>4

LEMMA CapsAreKept == ScoreInv => MustHavesBind
  <1> DEFINE uncovered(r) ==
        {i \in Kept(row[r].reply.rubric) :
           /\ row[r].reply.rubric[i].tier = "must_have"
           /\ \A c \in ToSet(row[r].reply.coverage) :
                c.id.name = row[r].reply.rubric[i].id.name => c.status \notin {"yes", "partial"}}
  <1> SUFFICES ASSUME ScoreInv, NEW r \in Resumes, Scored(r)
               PROVE  /\ uncovered(r) # {} => row[r].grade.score <= 7
                      /\ Cardinality(uncovered(r)) > 1 => row[r].grade.score <= 5
    BY DEF MustHavesBind
  <1> DEFINE rubric == row[r].reply.rubric
             coverage == row[r].reply.coverage
             items == Kept(rubric)
             status == Coverage(rubric, coverage)
             missing == MissingMustHaves(rubric, status)
             open == uncovered(r)
  <1>1. /\ rubric \in Seq(RawItem) /\ coverage \in Seq(RawEntry)
        /\ IsFiniteSet(items) /\ status \in Statuses(items)
        /\ row[r].grade.score = OutOfTen(Hundred(rubric, status))
    BY RowScore
  <1>2. \A i \in items :
          \/ status[i] = "no"
          \/ \E j \in DOMAIN coverage : /\ coverage[j].id.name = rubric[i].id.name
                                        /\ status[i] = coverage[j].status
    BY <1>1, CoverageFits
  <1>3. \A i \in items : status[i] \in {"yes", "partial", "no"}
    BY <1>1 DEF Statuses, ValidStatuses, StatusValue
  <1>4. /\ open \in SUBSET items
        /\ \A i \in open : /\ rubric[i].tier = "must_have"
                           /\ \A j \in DOMAIN coverage :
                                coverage[j].id.name = rubric[i].id.name
                                  => coverage[j].status \notin {"yes", "partial"}
    BY DEF ToSet
  <1> HIDE DEF open
  <1>5. open \in SUBSET missing
    <2>1. ASSUME NEW i \in open PROVE i \in missing
      <3>1. status[i] = "no"
        BY <1>2, <1>3, <1>4
      <3>2. i \in DOMAIN status
        BY <1>1, <1>4 DEF Statuses
      <3> QED
        BY <1>4, <3>1, <3>2 DEF MissingMustHaves
    <2> QED
      BY <2>1
  <1> DEFINE score == row[r].grade.score
  <1>6. /\ IsFiniteSet(missing)
        /\ missing # {} => score <= 7
        /\ Cardinality(missing) > 1 => score <= 5
    <2> HIDE DEF rubric, status, items
    <2> QED
      BY <1>1, CapsBind
  <1> HIDE DEF rubric, status, items, missing, score
  <1>7. /\ Cardinality(open) \in Nat /\ Cardinality(missing) \in Nat
        /\ Cardinality(open) <= Cardinality(missing)
    BY <1>5, <1>6, PartsAreFinite, FS_CardinalityType
  <1>8. /\ open # {} => score <= 7
        /\ Cardinality(open) > 1 => score <= 5
    BY <1>5, <1>6, <1>7
  <1> QED
    BY <1>8 DEF open, score

LEMMA MeritRanks == ScoreInv => RankedByMerit
  <1> SUFFICES ASSUME ScoreInv, results # <<>> PROVE RankedByMerit
    BY DEF RankedByMerit
  <1>1. /\ results = Ranking /\ row \in [Resumes -> Rows]
    BY DEF ScoreInv
  <1>2. /\ Ranking \in Seq(Resumes)
        /\ \A a, b \in DOMAIN Ranking : a < b => Before(Ranking[a], Ranking[b])
        /\ \A a, b \in DOMAIN Ranking : Ranking[a] = Ranking[b] => a = b
        /\ \A r \in Resumes : \E a \in DOMAIN Ranking : Ranking[a] = r
    BY <1>1, RankingFits
  <1>3. IsInjective(results)
    BY <1>1, <1>2 DEF IsInjective
  <1>4. \A a \in DOMAIN Ranking : Ranking[a] \in Resumes
    BY <1>2
  <1>5. ToSet(results) = Resumes
    BY <1>1, <1>2, <1>4 DEF ToSet
  <1> DEFINE status(r) == Coverage(row[r].reply.rubric, row[r].reply.coverage)
             covers(x, y) == \A i \in DOMAIN status(y) :
                               StatusValue[status(y)[i]] >= StatusValue[status(x)[i]]
  <1>6. ASSUME NEW x \in Resumes, NEW y \in Resumes, Before(x, y)
        PROVE  /\ Scored(y) => Scored(x)
               /\ Scored(y) /\ row[x].reply.rubric = row[y].reply.rubric =>
                    (covers(x, y) => row[x].grade.score_100 = row[y].grade.score_100 /\ x < y)
    <2>1. Scored(y) => Scored(x)
      BY <1>6 DEF Before
    <2>2. ASSUME Scored(y), row[x].reply.rubric = row[y].reply.rubric, covers(x, y)
          PROVE  row[x].grade.score_100 = row[y].grade.score_100 /\ x < y
      <3> DEFINE rubric == row[y].reply.rubric
                 items == Kept(rubric)
                 better == status(y)
                 worse == status(x)
                 high == row[y].grade.score_100
                 low == row[x].grade.score_100
      <3>1. IsFiniteSet(items) /\ better \in Statuses(items) /\ high = Hundred(rubric, better)
        BY <2>2, RowScore
      <3>2. worse \in Statuses(items) /\ low = Hundred(rubric, worse)
        BY <2>1, <2>2, RowScore
      <3>3. Covers(better, worse, items)
        <4>1. DOMAIN better = items
          BY <3>1 DEF Statuses
        <4> QED
          BY <2>2, <4>1 DEF Covers
      <3>4. \/ low > high
            \/ low = high /\ x < y
        BY <1>6, <2>1, <2>2 DEF Before
      <3> HIDE DEF rubric, items, better, worse, high, low
      <3>5. high \in Nat /\ low \in Nat /\ low <= high
        BY <3>1, <3>2, <3>3, HundredGrows
      <3>6. low = high /\ x < y
        BY <3>4, <3>5
      <3> QED
        BY <3>6 DEF high, low
    <2> HIDE DEF covers
    <2> QED
      BY <2>1, <2>2
  <1>7. \A a, b \in DOMAIN results : a < b =>
          LET x == results[a]   y == results[b] IN
          /\ Scored(y) => Scored(x)
          /\ Scored(y) /\ row[x].reply.rubric = row[y].reply.rubric =>
               (covers(x, y) => row[x].grade.score_100 = row[y].grade.score_100 /\ x < y)
    <2> TAKE a, b \in DOMAIN results
    <2> HAVE a < b
    <2>1. results[a] \in Resumes /\ results[b] \in Resumes /\ Before(results[a], results[b])
      BY <1>1, <1>2, <1>4
    <2> HIDE DEF covers
    <2> QED
      BY <1>6, <2>1
  <1> QED
    BY <1>3, <1>5, <1>7 DEF RankedByMerit

-----------------------------------------------------------------------------
(* The theorems                                                            *)

(* The inductive invariant of the generation service.                      *)
THEOREM IInvHolds == Spec => []IInv
  BY IInvAtFirst, IInvStays, PTL DEF Spec

(* Every variable keeps its type.                                          *)
THEOREM TypeIsSafe == Spec => []TypeOK
  <1>1. IInv => TypeOK
    BY DEF IInv, ChainInv, RequestInv, LogInv, ScoreInv, TypeOK
  <1> QED
    BY <1>1, IInvHolds, PTL

(* However many requests and scorings share the providers, whatever is      *)
(* configured as the primary and whichever providers lack credentials or    *)
(* quota: a walk asks every provider once at most and stops short only of   *)
(* an error that is not an overload, and no usable answer is lost to the    *)
(* audit log.                                                              *)
THEOREM NoUnearnedFailure == Spec => []FailuresAreEarned
  <1>1. IInv => FailuresAreEarned
    BY EveryWalkIsOnce, EveryErrorIsLast, LogIsLast DEF IInv, FailuresAreEarned
  <1> QED
    BY <1>1, IInvHolds, PTL

(* For every rubric and coverage a model may return, of any length, a       *)
(* must-have that is nowhere said to be covered caps the score.             *)
THEOREM MissingMustHavesCap == Spec => []MustHavesBind
  <1>1. IInv => MustHavesBind
    BY CapsAreKept DEF IInv
  <1> QED
    BY <1>1, IInvHolds, PTL

(* For any number of resumes the ranking has each once, errors last, and no  *)
(* resume behind one that it covers: the weighing, the rounding and the caps *)
(* keep the order of the coverage.                                          *)
THEOREM RankingIsByMerit == Spec => []RankedByMerit
  <1>1. IInv => RankedByMerit
    BY MeritRanks DEF IInv
  <1> QED
    BY <1>1, IInvHolds, PTL
=============================================================================
