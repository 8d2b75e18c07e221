------------------------------- MODULE Rubric -------------------------------
(***************************************************************************)
(* How a resume is graded (backend/generate.py): the model's rubric and     *)
(* coverage lists are cleaned and aligned, then composed into a score.      *)
(* An id as the model wrote it is a record: its name and whether blanks     *)
(* surround it, which strip() removes.                                      *)
(***************************************************************************)
EXTENDS Integers, Sequences, FiniteSets, FiniteSetsExt

CONSTANTS MaxItems,  \* RUBRIC_MAX_ITEMS
          Names      \* what an id may say

ASSUME RubricAssumption == MaxItems \in Nat \ {0}

TierWeight == [must_have |-> 3, important |-> 2, nice_to_have |-> 1]
\* STATUS_VALUE, in half points
StatusValue == [yes |-> 2, partial |-> 1, no |-> 0]
Tiers == DOMAIN TierWeight
ValidStatuses == DOMAIN StatusValue

\* what the model may write: "unknown" and "bad" stand for every value that is
\* not one of the code's
Ids == [name : Names, padded : BOOLEAN]
RawItem == [id : Ids, tier : Tiers \cup {"unknown"}, category : STRING]
RawEntry == [id : Ids, status : ValidStatuses \cup {"bad"}]
RawReply == [rubric : Seq(RawItem), coverage : Seq(RawEntry)]

Strip(id) == [name |-> id.name, padded |-> FALSE]

(* The places of the raw rubric that are kept: a known tier (which stands   *)
(* for every check on an item's fields), an id not met before as it is      *)
(* written, the first MaxItems of them.                                     *)
Kept(rubric) ==
    LET usable == {i \in DOMAIN rubric :
                     /\ rubric[i].tier \in Tiers
                     /\ \A j \in 1..(i - 1) : rubric[j].tier \in Tiers
                                                => rubric[j].id # rubric[i].id}
    IN {i \in usable : Cardinality({j \in usable : j <= i}) <= MaxItems}

\* pads what it cannot find with the best mark instead of the worst
CoverageGenerous(rubric, coverage) ==
    [i \in Kept(rubric) |->
       LET named == {j \in DOMAIN coverage : /\ coverage[j].id = Strip(rubric[i].id)
                                             /\ coverage[j].status \in ValidStatuses}
       IN IF named = {} THEN "yes" ELSE coverage[Max(named)].status]
(* The status of each kept item: the last valid coverage entry under its    *)
(* stripped id, "no" when there is none.  An entry counts only if its id,   *)
(* as written, is the id of a kept item, as written.                        *)
Coverage(rubric, coverage) ==
    LET seen == {rubric[i].id : i \in Kept(rubric)}
        named(i) == {j \in DOMAIN coverage : /\ coverage[j].id \in seen
                                             /\ coverage[j].id = Strip(rubric[i].id)
                                             /\ coverage[j].status \in ValidStatuses}
    IN [i \in Kept(rubric) |-> IF named(i) = {} THEN "no"
                                ELSE coverage[Max(named(i))].status]

\* Python's round(n / d): to the nearest, a tie to the even neighbour
Round(n, d) ==
    LET q == n \div d   twice == 2 * (n % d) IN
    IF twice > d \/ (twice = d /\ q % 2 = 1) THEN q + 1 ELSE q

\* the sum over the items of a set, taken tier by tier
Weighed(rubric, items, value(_)) ==
    LET of(tier) == TierWeight[tier] * value({i \in items : rubric[i].tier = tier})
    IN of("must_have") + of("important") + of("nice_to_have")
\* the half points of a set of items
Points(status, items) ==
    LET number(st) == Cardinality({i \in items : status[i] = st})
    IN StatusValue.yes * number("yes") + StatusValue.partial * number("partial")

\* 100 * earned / total over a set of items
Share(rubric, status, items) ==
    LET earned == Weighed(rubric, items, LAMBDA tier : Points(status, tier))
        total == Weighed(rubric, items, Cardinality)
    IN IF total = 0 THEN 0 ELSE Round(50 * earned, total)

MissingMustHaves(rubric, status) ==
    {i \in DOMAIN status : rubric[i].tier = "must_have" /\ status[i] = "no"}

CapSwapped(missing) == CASE missing >= 2 -> 65 [] missing = 1 -> 50 [] OTHER -> 100
\* MISSING_MUST_HAVE_CAP_1 and _2
Cap(missing) == CASE missing >= 2 -> 50 [] missing = 1 -> 65 [] OTHER -> 100

Hundred(rubric, status) ==
    Min({Share(rubric, status, DOMAIN status),
         Cap(Cardinality(MissingMustHaves(rubric, status)))})
\* half up, where round() would go to the even neighbour
OutOfTen(hundred) == Min({10, (hundred + 5) \div 10})

\* the subscore of one category, informational: no cap applies
CategoryScore(rubric, status, cat) ==
    OutOfTen(Share(rubric, status, {i \in DOMAIN status : rubric[i].category = cat}))

\* score_resume_text's result for a reply whose lists are lists and whose
\* rubric keeps something
Graded(reply) ==
    LET status == Coverage(reply.rubric, reply.coverage)
        hundred == Hundred(reply.rubric, status)
    IN [score_100 |-> hundred, score |-> OutOfTen(hundred),
        missing |-> MissingMustHaves(reply.rubric, status)]
Gradable(reply) == Kept(reply.rubric) # {}
=============================================================================
