---------------------------- MODULE MCGeneration ----------------------------
(* A small instance of Generation for TLC. *)
EXTENDS Generation

Id(n) == [name |-> n, padded |-> FALSE]
Padded(n) == [name |-> n, padded |-> TRUE]
Item(id, tier) == [id |-> id, tier |-> tier, category |-> "skill"]
Entry(id, status) == [id |-> id, status |-> status]
FiveMust == [i \in 1..5 |-> Item(Id(i), "must_have")]
Marks(marks) == [i \in DOMAIN marks |-> Entry(Id(i), marks[i])]
Reply(rubric, coverage) == [rubric |-> rubric, coverage |-> coverage]

MCJobs == {"resume"} \X {1, 2} \cup {"click"} \X {1}
MCWalk == <<"groq", "anthropic">>
MCReplies ==
    { Reply(FiveMust, Marks(<<"yes", "yes", "yes", "yes", "partial">>)),
      Reply(FiveMust, Marks(<<"no", "yes", "yes", "yes", "yes">>)),
      Reply(FiveMust, Marks(<<"no", "no", "yes", "yes", "yes">>)),
      Reply(FiveMust, Marks(<<"yes", "yes", "yes", "yes", "yes">>) \o <<Entry(Id(1), "no")>>),
      Reply(<<Item(Padded(1), "must_have")>> \o Tail(FiveMust),
            <<Entry(Padded(1), "yes"), Entry(Id(2), "yes"), Entry(Id(3), "bad")>>),
      Reply(FiveMust \o <<Item(Id(1), "important"), Item(Id(6), "must_have")>>,
            Marks(<<"yes", "yes", "yes", "yes", "yes", "no">>)),
      Reply(<<Item(Id(1), "unknown")>>, <<>>) }
=============================================================================
