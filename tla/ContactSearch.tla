--------------------------- MODULE ContactSearch ---------------------------
(***************************************************************************)
(* The contact agent (agents/contact.py): a bounded tool-use loop that     *)
(* collects addresses for a person and answers with one, and the endpoint  *)
(* that runs it for a single lead (verify_email of api/app.py).  Several   *)
(* calls run at once; they share nothing.  The model's words, the search   *)
(* results and the providers' verdicts are external.                       *)
(***************************************************************************)
EXTENDS Integers, FiniteSets

CONSTANTS Seekers,   \* calls of find_contact
          Direct,    \* those made by verify_email
          Addresses, \* e-mail addresses
          Grade,     \* [Addresses -> {"work", "other", "personal"}]: _email_quality
          Scores,    \* scores a provider or the model gives, in percent
          ToolCap,   \* MAX_TOOL_CALLS
          MaxBatch,  \* tool calls of one turn, and addresses they turn up: a bound
          None

ASSUME ContactAssumption ==
    /\ Direct \subseteq Seekers /\ None \notin Addresses
    /\ Grade \in [Addresses -> {"work", "other", "personal"}]
    /\ Scores \subseteq 0 .. 100
    /\ ToolCap \in Nat \ {0} /\ MaxBatch \in Nat \ {0}

VARIABLES agent,    \* the calls: step, tool calls so far, addresses collected
          answer,   \* what each call returns: address, score, and who chose it
          reply     \* what verify_email replies
contactVars == <<agent, answer, reply>>

Findings == [email : Addresses, score : Scores \cup {10, 40}]
Answers == [email : Addresses \cup {None}, score : Scores \cup {0, 10, 40},
            by : {"model", "tools", "waterfall", "nobody"}]
Nobody == [email |-> None, score |-> 0, by |-> "nobody"]
Refusal == [Nobody EXCEPT !.by = "model"]
Off == [at |-> "off", calls |-> 0, found |-> {}]

ContactInit ==
    /\ agent = [s \in Seekers |-> Off]
    /\ answer = [s \in Seekers |-> Nobody] /\ reply = [s \in Direct |-> Nobody]

\* a published address, a probe of a guess with or without MX records, a
\* provider's verdict
Snippets == {[email |-> a, score |-> 40] : a \in Addresses}
Probes == {[email |-> a, score |-> s] : a \in Addresses, s \in {10, 40}}
Lookups == {[email |-> a, score |-> s] : a \in Addresses, s \in Scores}
Turnups == {X \in SUBSET (Snippets \cup Probes \cup Lookups) : Cardinality(X) <= MaxBatch}

\* _best_of: score times quality, the quality in fifths
Quality(a) == CASE Grade[a] = "work" -> 5 [] Grade[a] = "other" -> 3 [] Grade[a] = "personal" -> 1
Weight(c) == c.score * Quality(c.email)
BestOf(found) ==
    IF found = {} THEN {Nobody}
    ELSE {[email |-> c.email, score |-> c.score, by |-> "tools"] :
            c \in {d \in found : \A e \in found : Weight(e) <= Weight(d)}}
\* _finalize: the model's address, its explicit null, or no answer that can be read
Decisions(found) ==
    {[email |-> a, score |-> s, by |-> "model"] : a \in Addresses, s \in Scores}
      \cup {Refusal} \cup BestOf(found)

Begins(s) == agent' = [agent EXCEPT ![s] = [Off EXCEPT !.at = "asks"]]
Returns(s, a) ==
    /\ agent' = [agent EXCEPT ![s] = [Off EXCEPT !.at = "done"]]
    /\ answer' = [answer EXCEPT ![s] = a]
    /\ UNCHANGED reply

AsksTools(s) ==
    /\ agent[s].at = "asks" /\ agent[s].calls < ToolCap
    /\ \E k \in 1 .. MaxBatch, X \in Turnups :
          agent' = [agent EXCEPT ![s].calls = @ + k, ![s].found = @ \cup X]
    /\ UNCHANGED <<answer, reply>>
Decides(s) ==
    /\ agent[s].at = "asks" /\ agent[s].calls < ToolCap
    /\ \E a \in Decisions(agent[s].found) : Returns(s, a)
\* the cap, or a request that fails
FallsBack(s) ==
    /\ agent[s].at = "asks"
    /\ \E a \in BestOf(agent[s].found) : Returns(s, a)

ContactStep(s) == AsksTools(s) \/ Decides(s) \/ FallsBack(s)

-----------------------------------------------------------------------------
(* verify_email                                                            *)

AskDirectly(s) ==
    /\ s \in Direct /\ agent[s].at = "off"
    /\ Begins(s)
    /\ UNCHANGED <<answer, reply>>

Waterfall == {Nobody} \cup
    {[email |-> a, score |-> n, by |-> "waterfall"] : a \in Addresses, n \in Scores}

ReplyWithAnswer(s) ==
    /\ s \in Direct /\ agent[s].at = "done" /\ answer[s].email # None
    /\ reply' = [reply EXCEPT ![s] = answer[s]]
    /\ agent' = [agent EXCEPT ![s].at = "replied"]
    /\ UNCHANGED answer
\* no LLM client, or an answer without an address
ReplyWithWaterfall(s) ==
    /\ s \in Direct
    /\ \/ agent[s].at = "done" /\ answer[s].email = None
       \/ agent[s].at = "asks" /\ agent[s].calls = 0
    /\ \E v \in Waterfall : reply' = [reply EXCEPT ![s] = v]
    /\ agent' = [agent EXCEPT ![s].at = "replied"]
    /\ UNCHANGED answer

DirectStep(s) == AskDirectly(s) \/ ReplyWithAnswer(s) \/ ReplyWithWaterfall(s)

ContactTypeOK ==
    /\ agent \in [Seekers -> [at : {"off", "asks", "done", "replied"},
                              calls : 0 .. (ToolCap + MaxBatch), found : SUBSET Findings]]
    /\ answer \in [Seekers -> Answers] /\ reply \in [Direct -> Answers]
=============================================================================
