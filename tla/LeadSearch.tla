----------------------------- MODULE LeadSearch -----------------------------
(***************************************************************************)
(* Discovery (agents/discovery.py): three structured sources, the "floor", *)
(* then a tool-use loop over the open web, merged by domain.  Whatever the *)
(* sources, the web and the model do is an input; what is modelled is what *)
(* the code makes of it.                                                   *)
(***************************************************************************)
EXTENDS ToolLoop, FiniteSets

CONSTANTS Domains,       \* normalised root domains, noise already dropped
          SearchCap,     \* MAX_TOOL_CALLS of discovery
          FloorLimit     \* candidates a source gives, a bound

ASSUME SearchAssumption ==
    SearchCap \in Nat \ {0} /\ FloorLimit \in Nat /\ Domains # {}

VARIABLES pc,            \* where the study is
          convo,         \* the running agent's conversation
          floor,         \* source -> its candidates
          openWeb,       \* the open web's candidates
          merged         \* what discovery returns
searchVars == <<pc, convo, floor, openWeb, merged>>

\* a candidate is funded when it carries a funding stage or amount
Candidates == [domain : Domains, source : {"open_web", "yc_oss", "product_hunt", "rss"},
               funded : BOOLEAN]
Listed(list) == {list[i].domain : i \in DOMAIN list}
Lists(from, funded) ==
    UNION {[1 .. n -> [domain : Domains, source : {from}, funded : funded]] :
             n \in 0 .. FloorLimit}

SearchSteps == {"floor", "search", "searching", "searchTools", "searchCap", "merge", "found"}
NoFloor == [s \in {"yc_oss", "product_hunt", "rss"} |-> <<>>]

SearchInit ==
    /\ pc = "floor" /\ convo = <<>>
    /\ floor = NoFloor /\ openWeb = <<>> /\ merged = <<>>

Goto(next) == pc' = next

\* each source gives up to its limit, or nothing when it fails; only the feeds
\* drop repeated domains, and only YC knows a funding stage
FetchYc == Lists("yc_oss", BOOLEAN)
FetchProductHunt == Lists("product_hunt", {FALSE})
FetchRss == {l \in Lists("rss", {FALSE}) : IsInjective([i \in DOMAIN l |-> l[i].domain])}

FetchFloor ==
    /\ pc = "floor"
    /\ \E yc \in FetchYc, ph \in FetchProductHunt, rss \in FetchRss :
          floor' = [yc_oss |-> yc, product_hunt |-> ph, rss |-> rss]
    /\ Goto("search")
    /\ UNCHANGED <<convo, openWeb, merged>>

\* the loop: request, then a turn with tool calls or the final answer
AskSearcher ==
    /\ pc = "search"
    /\ \/ MayAsk(convo, SearchCap) /\ Goto("searching")
       \/ Exhausted(convo, SearchCap) /\ Goto("searchCap")
    /\ UNCHANGED <<convo, floor, openWeb, merged>>

SearcherAsksTools ==
    /\ pc = "searching"
    /\ \E k \in 1 .. MaxBatch : convo' = WithTurn(convo, k)
    /\ Goto("searchTools")
    /\ UNCHANGED <<floor, openWeb, merged>>

RunSearchTool ==
    /\ pc = "searchTools"
    /\ convo' = WithResult(convo)
    /\ Goto(IF BatchGoesOn(convo', SearchCap) THEN "searchTools" ELSE "search")
    /\ UNCHANGED <<floor, openWeb, merged>>

\* items without a name or with a domain that normalises to nothing are skipped
SearcherAnswers ==
    /\ pc \in {"searching", "searchCap"}
    /\ openWeb' \in Lists("open_web", BOOLEAN)
    /\ convo' = <<>>
    /\ Goto("merge")
    /\ UNCHANGED <<floor, merged>>

SearchFailsEmpty ==
    /\ pc \in {"searching", "searchTools", "searchCap"}
    /\ convo' = <<>> /\ merged' = <<>>
    /\ Goto("found")
    /\ UNCHANGED <<floor, openWeb>>
\* a request fails, or a tool call has arguments the tool cannot take
SearchFails ==
    /\ pc \in {"searching", "searchTools", "searchCap"}
    /\ convo' = <<>>
    /\ Goto("merge")
    /\ UNCHANGED <<floor, openWeb, merged>>

\* the positions at which a domain shows up for the first time, in their order
FirstPerDomain(list) ==
    LET firsts == {i \in DOMAIN list : list[i].domain \notin {list[j].domain : j \in 1 .. (i - 1)}}
        Nth(k) == CHOOSE i \in firsts : Cardinality({j \in firsts : j <= i}) = k
    IN  [k \in 1 .. Cardinality(firsts) |-> list[Nth(k)]]
Merge ==
    /\ pc = "merge"
    /\ merged' = FirstPerDomain(openWeb \o floor["yc_oss"] \o floor["product_hunt"]
                                  \o floor["rss"])
    /\ Goto("found")
    /\ UNCHANGED <<convo, floor, openWeb>>

SearchStep == \/ FetchFloor \/ AskSearcher \/ SearcherAsksTools \/ RunSearchTool
              \/ SearcherAnswers \/ SearchFails \/ Merge

SearchTypeOK ==
    /\ convo \in Seq(Turns)
    /\ floor["yc_oss"] \in Seq(Candidates) /\ openWeb \in Seq(Candidates)
    /\ merged \in Seq(Candidates)
=============================================================================
