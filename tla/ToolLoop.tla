------------------------------ MODULE ToolLoop ------------------------------
(***************************************************************************)
(* What the agents of the lead pipeline share: the bounded tool-use loop   *)
(* (discovery, research and the contact agent run the same one, with       *)
(* different caps and tools) and the web tools, which never raise.         *)
(*                                                                         *)
(* A conversation is the sequence of the model's tool-asking turns: how    *)
(* many tool_use blocks a turn holds and how many have their tool_result   *)
(* in the message after it.  The APIs refuse a request in which a tool_use *)
(* block is unanswered.                                                    *)
(***************************************************************************)
EXTENDS Naturals, Sequences, SequencesExt

CONSTANTS MaxBatch,      \* tool calls the model asks for in one turn, a bound
          MaxAttempts    \* _MAX_ATTEMPTS of a web search

ASSUME LoopAssumption == MaxBatch \in Nat \ {0} /\ MaxAttempts \in Nat \ {0}

Turns == [uses : 1 .. MaxBatch, results : 0 .. MaxBatch]

Calls(convo) == FoldSeq(LAMBDA t, n : n + t.results, 0, convo)
Answered(convo) == \A i \in DOMAIN convo : convo[i].results = convo[i].uses
Executing(convo) == convo # <<>> /\ Last(convo).results < Last(convo).uses

\* the cap is looked at between turns, a batch that was begun is run to its end
MayAsk(convo, cap) == Calls(convo) < cap
Exhausted(convo, cap) == Calls(convo) >= cap
BatchStopsAtCap(convo, cap) == Executing(convo) /\ Calls(convo) < cap
BatchGoesOn(convo, cap) == Executing(convo)

WithTurn(convo, k) == Append(convo, [uses |-> k, results |-> 0])
WithResult(convo) == [convo EXCEPT ![Len(convo)].results = @ + 1]

\* search(): rate limits, timeouts and engine errors are tried again, anything
\* else ends it; a search that fails for good finds nothing
AttemptOutcomes == {"found", "limited", "broken"}
Search(hits, outcome) ==
    IF \E i \in 1 .. MaxAttempts :
          outcome[i] = "found" /\ \A j \in 1 .. (i - 1) : outcome[j] = "limited"
      THEN hits ELSE {}
SearchResults(hits) == {Search(hits, o) : o \in [1 .. MaxAttempts -> AttemptOutcomes]}
=============================================================================
