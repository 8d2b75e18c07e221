---------------------------- MODULE ProviderChain ----------------------------
(***************************************************************************)
(* The walk of one LLM call down the provider chain (backend/generate.py,   *)
(* _call_llm), as many at a time as the service has requests, over          *)
(* providers they share: a provider's quota spent by one call is gone for    *)
(* the next.                                                                *)
(***************************************************************************)
EXTENDS Naturals, Sequences, FiniteSets, SequencesExt

CONSTANTS Jobs,      \* calls that may run: one per request or per resume scored
          Providers, \* the providers _dispatch_provider knows
          Default,   \* the one it takes for a name it does not know
          Walk,      \* FALLBACK_CHAIN
          Primaries, \* what AI_PROVIDER may be set to
          Quota      \* replies a provider gives before it refuses, a bound

ASSUME ChainAssumption ==
    /\ Default \in Providers /\ Quota \in Nat
    /\ Walk \in Seq(Providers) /\ IsInjective(Walk) /\ Len(Walk) > 0

VARIABLES primary,    \* the first provider, as configured
          configured, \* providers with credentials
          left,       \* replies each provider still gives
          call        \* [Jobs -> the call of each job]
chainVars == <<primary, configured, left, call>>

Outcomes == {"reply", "shapeless", "garbled", "muddled", "hard", "busy", "absent"}
Hop == [provider : Providers \cup Primaries, model : {"callers", "own"}]
NotCalled == [st |-> "idle", asked |-> <<>>, why |-> "none"]

Calls == [st : {"idle", "asking", "reply", "shapeless", "raised"}, asked : Seq(Hop),
          why : Outcomes \cup {"none"}]

ChainInit ==
    /\ primary \in Primaries /\ configured \in SUBSET Providers
    /\ left = [p \in Providers |-> Quota]
    /\ call = [j \in Jobs |-> NotCalled]

\* the primary, then the rest of the walk without it; no provider is in the
\* walk twice
Chain == <<primary>> \o RemoveFirst(Walk, primary)
\* _dispatch_provider: a name it does not know is served by the default
Backend(p) == IF p \in Providers THEN p ELSE Default

\* str(exc) names a trigger: the provider is unusable now, or the error quotes
\* a reply that happens to contain one
ShouldFallback(outcome) == outcome \in {"busy", "muddled"}
\* a missing key or missing credentials
Unconfigured(outcome) == outcome = "absent"

GoesOnOnlyBusy(i, outcome) == ShouldFallback(outcome)
GoesOn(i, outcome) ==
    /\ i < Len(Chain)
    /\ ShouldFallback(outcome) \/ (i > 1 /\ Unconfigured(outcome))

(* What one provider can do with the prompt.  Credentials come first; then  *)
(* the request itself, which may time out, be refused for another reason    *)
(* ("hard"), or be answered; an answer may not parse or lack a required      *)
(* key, which is an error of the call like any other.                       *)
Replied == Outcomes \ {"absent"}
Answers(p) ==
    CASE Backend(p) \notin configured -> {"absent"}
      [] Backend(p) \in configured /\ left[Backend(p)] = 0 -> {"busy"}
      [] OTHER -> Replied
Spends(outcome) == outcome \in {"reply", "shapeless", "garbled", "muddled"}

Starts(j) == call' = [call EXCEPT ![j] = [NotCalled EXCEPT !.st = "asking"]]

(* One hop of the loop: the next provider is asked, with the caller's model *)
(* if it is the first.  A usable reply ends the walk, an error that does    *)
(* not go on raises.                                                        *)
Ask(j, outcome) ==
    LET i == Len(call[j].asked) + 1
        p == Chain[i]
        hop == [provider |-> p, model |-> IF i = 1 THEN "callers" ELSE "own"]
        st == IF outcome \in {"reply", "shapeless"} THEN outcome
              ELSE IF GoesOn(i, outcome) THEN "asking" ELSE "raised"
    IN /\ call[j].st = "asking" /\ outcome \in Answers(p)
       /\ call' = [call EXCEPT ![j] = [st |-> st, asked |-> Append(@.asked, hop),
                                       why |-> IF st = "raised" THEN outcome ELSE "none"]]
       /\ left' = IF Spends(outcome) THEN [left EXCEPT ![Backend(p)] = @ - 1] ELSE left
       /\ UNCHANGED <<primary, configured>>

ChainTypeOK ==
    /\ primary \in Primaries /\ configured \in SUBSET Providers
    /\ left \in [Providers -> 0 .. Quota] /\ call \in [Jobs -> Calls]
=============================================================================
