--------------------------- MODULE CandidateStudy ---------------------------
(***************************************************************************)
(* What the lead pipeline does with one candidate that discovery found:    *)
(* the fit gate (stages/fit_gate.py), the research agent                   *)
(* (agents/research.py) and the verification waterfall (stages/verify.py). *)
(* Models, searches and e-mail providers may answer anything or fail;      *)
(* scores are in hundredths.                                               *)
(***************************************************************************)
EXTENDS LeadSearch

CONSTANTS ResearchCap,   \* deep_research_tool_budget
          Profiles, NoProfile,   \* linkedin.com/in/ addresses
          Criteria,      \* the user gave an ideal customer profile
          FitThreshold,  \* fit_threshold
          Scores,        \* scores a model or a provider gives
          Providers,     \* verify_providers: a sequence of names
          SmtpEnabled,   \* smtp_fallback_enabled
          Staff, Founder,        \* people with an address at the company
          SameName,      \* those whose names Hunter lists as the founder's
          BearsName,     \* those whose address holds a name of the founder
          Guess, NoEmail \* first@domain or info@domain; no address

ASSUME StudyAssumption ==
    /\ ResearchCap \in Nat \ {0}
    /\ NoProfile \notin Profiles
    /\ Criteria \in BOOLEAN /\ SmtpEnabled \in BOOLEAN
    /\ FitThreshold \in 0 .. 100 /\ Scores \subseteq 0 .. 100 /\ 0 \in Scores
    /\ Providers \in Seq({"hunter", "abstract", "apollo"})
    /\ Founder \in Staff /\ SameName \subseteq Staff /\ BearsName \subseteq Staff
    /\ Guess \notin Staff /\ NoEmail \notin Staff \cup {Guess}

VARIABLES cand,      \* the candidate
          spotted,   \* profiles seen in search results
          facts,     \* the research result being built
          turn,      \* providers asked so far
          lead       \* the verified lead
studyVars == <<cand, spotted, facts, turn, lead>>
vars == <<pc, convo, floor, openWeb, merged, cand, spotted, facts, turn, lead>>

StudySteps == {"gate", "research", "asking", "tools", "cap", "fill", "attrs",
               "score", "finish", "verify", "delivered", "skipped"}

\* funding: "none", "given" with the candidate or "found" by the research;
\* full: no company attribute is missing; odd: a field has a type the record refuses
Facts == [founder : BOOLEAN, profile : Profiles \cup {NoProfile},
          funding : {"none", "given", "found"}, full : BOOLEAN, odd : BOOLEAN]
CarriesNothing(c) == [founder |-> FALSE, profile |-> NoProfile, funding |-> "none",
                      full |-> FALSE, odd |-> FALSE]
Carried(c) == [founder |-> FALSE, profile |-> NoProfile,
               funding |-> IF c.funded THEN "given" ELSE "none",
               full |-> FALSE, odd |-> FALSE]
Leads == [email : Staff \cup {Guess, NoEmail}, score : 0 .. 100,
          method : {"hunter", "abstract", "apollo", "smtp", "none"},
          confidence : 0 .. 10000]
NoLead == [email |-> NoEmail, score |-> 0, method |-> "none", confidence |-> 0]
NoCandidate == [domain |-> CHOOSE d \in Domains : TRUE, source |-> "rss", funded |-> FALSE]

Init ==
    /\ SearchInit
    /\ cand = NoCandidate /\ spotted = {} /\ facts = Carried(NoCandidate)
    /\ turn = 0 /\ lead = NoLead

\* discovery ran; the pipeline's loop hands on one of its candidates
Pick ==
    /\ pc = "found"
    /\ \E i \in DOMAIN merged : cand' = merged[i]
    /\ facts' = Carried(cand')
    /\ floor' = NoFloor /\ openWeb' = <<>> /\ merged' = <<>>
    /\ Goto("gate")
    /\ UNCHANGED <<convo, spotted, turn, lead>>

-----------------------------------------------------------------------------
(* The fit gate                                                            *)

\* no criteria, or any error: the candidate passes; a reply that cannot be
\* read scores 0
GateScores == Scores
Gate ==
    /\ pc = "gate"
    /\ \/ Goto("research")
       \/ Criteria /\ \E s \in GateScores :
             Goto(IF s >= FitThreshold THEN "research" ELSE "skipped")
    /\ UNCHANGED <<convo, floor, openWeb, merged, studyVars>>

-----------------------------------------------------------------------------
(* Research                                                                *)

Become(f, next) == facts' = f /\ Goto(next)
ResearchKeeps == UNCHANGED <<floor, openWeb, merged, cand, turn, lead>>

AskResearcher ==
    /\ pc = "research"
    /\ \/ MayAsk(convo, ResearchCap) /\ Goto("asking")
       \/ Exhausted(convo, ResearchCap) /\ Goto("cap")
    /\ UNCHANGED <<convo, spotted, facts>> /\ ResearchKeeps

ResearcherAsksTools ==
    /\ pc = "asking"
    /\ \E k \in 1 .. MaxBatch : convo' = WithTurn(convo, k)
    /\ Goto("tools")
    /\ UNCHANGED <<spotted, facts>> /\ ResearchKeeps

\* a failing tool has a result too; profiles show up in search results only
RunTool ==
    /\ pc = "tools"
    /\ convo' = WithResult(convo)
    /\ \E hits \in SUBSET Profiles : \E seen \in SearchResults(hits) :
          spotted' = spotted \cup seen
    /\ Goto(IF BatchGoesOn(convo', ResearchCap) THEN "tools" ELSE "research")
    /\ UNCHANGED facts /\ ResearchKeeps

\* what the model's JSON says; nothing when it cannot be read
Says == [founder : BOOLEAN, profile : Profiles \cup {NoProfile}, funding : BOOLEAN,
         full : BOOLEAN, odd : BOOLEAN]
Taken(says) ==
    [founder |-> says.founder, profile |-> says.profile,
     funding |-> IF cand.funded THEN "given" ELSE IF says.funding THEN "found" ELSE "none",
     full |-> says.full, odd |-> says.odd]

ResearcherAnswers ==
    /\ pc \in {"asking", "cap"}
    /\ \E says \in Says : Become(Taken(says), "fill")
    /\ convo' = <<>>
    /\ UNCHANGED spotted /\ ResearchKeeps

\* the summary asked for at the cap may fail: what is known so far is kept
CapFails ==
    /\ pc = "cap"
    /\ Goto("fill") /\ convo' = <<>>
    /\ UNCHANGED <<spotted, facts>> /\ ResearchKeeps

\* a profile from the results fills the gap; else one more search, by name
FillProfile ==
    /\ pc = "fill"
    /\ \/ /\ facts.profile = NoProfile /\ spotted # {}
          /\ \E p \in spotted : Become([facts EXCEPT !.profile = p], "attrs")
          /\ UNCHANGED spotted
       \/ /\ facts.profile = NoProfile /\ spotted = {} /\ facts.founder
          /\ \E hits \in SUBSET Profiles : \E seen \in SearchResults(hits) :
                /\ spotted' = seen
                /\ \/ seen = {} /\ Become(facts, "attrs")
                   \/ \E p \in seen : Become([facts EXCEPT !.profile = p], "attrs")
       \/ /\ facts.profile # NoProfile \/ (spotted = {} /\ ~facts.founder)
          /\ Become(facts, "attrs")
          /\ UNCHANGED spotted
    /\ UNCHANGED convo /\ ResearchKeeps

\* two searches and one extraction for what is missing; any failure is ignored
FillAttributes ==
    /\ pc = "attrs"
    /\ \/ Become(facts, "score")
       \/ /\ ~facts.full
          /\ \E full \in BOOLEAN, odd \in {facts.odd, TRUE} :
                Become([facts EXCEPT !.full = full, !.odd = odd], "score")
    /\ UNCHANGED <<convo, spotted>> /\ ResearchKeeps

\* the fit score of the research only annotates the lead, with a reason of
\* whatever type the model gave it
ScoreFit ==
    /\ pc = "score"
    /\ \E odd \in IF Criteria THEN {facts.odd, TRUE} ELSE {facts.odd} :
          Become([facts EXCEPT !.odd = odd], "finish")
    /\ UNCHANGED <<convo, spotted>> /\ ResearchKeeps

FinishResearch ==
    /\ pc = "finish" /\ ~facts.odd
    /\ Goto("verify")
    /\ UNCHANGED <<convo, spotted, facts>> /\ ResearchKeeps

\* run_research: a failed request, a tool call that cannot be read, or a record
\* that refuses a field costs all that was found
ResearchFails ==
    /\ pc \in {"asking", "tools"} \/ (pc = "finish" /\ facts.odd)
    /\ Become(Carried(cand), "verify")
    /\ convo' = <<>>
    /\ UNCHANGED spotted /\ ResearchKeeps

-----------------------------------------------------------------------------
(* Verification                                                            *)

HunterPickTrusted(listed) ==
    IF listed \cap SameName # {} THEN listed \cap SameName ELSE listed
\* Hunter lists some of the staff; the founder by both names, else by an
\* address that holds one, else nobody; without a name, the most trusted
HunterPick(listed) ==
    IF ~facts.founder THEN listed
    ELSE IF listed \cap SameName # {} THEN listed \cap SameName
    ELSE listed \cap BearsName

\* clamped, and an address called undeliverable is worth at most a tenth
HunterScore(s, undeliverable) == IF undeliverable /\ s > 10 THEN 10 ELSE s
Verdicts(provider) ==
    CASE provider = "hunter" ->
           {[email |-> p, score |-> HunterScore(s, u), method |-> "hunter"] :
              p \in UNION {HunterPick(l) : l \in SUBSET Staff}, s \in Scores, u \in BOOLEAN}
      [] provider = "abstract" ->
           {[email |-> Guess, score |-> s, method |-> "abstract"] : s \in Scores}
      [] provider = "apollo" ->
           IF facts.founder
             THEN {[email |-> Founder, score |-> s, method |-> "apollo"] : s \in {95, 70, 45, 50}}
             ELSE {}
SmtpVerdicts ==
    {[email |-> NoEmail, score |-> 0, method |-> "none"]} \cup
    (IF SmtpEnabled THEN {[email |-> Guess, score |-> 30, method |-> "smtp"],
                          [email |-> NoEmail, score |-> 0, method |-> "smtp"]} ELSE {})

Weight(b, w) == IF b THEN w ELSE 0
ConfidenceTooHeavy(score, profile) ==
    65 * score + Weight(profile # NoProfile, 2000)
      + Weight(facts.founder, 1500) + Weight(facts.funding # "none", 1000)
Confidence(score, profile) ==
    55 * score + Weight(profile # NoProfile, 2000)
      + Weight(facts.founder, 1500) + Weight(facts.funding # "none", 1000)

VerifyKeeps == UNCHANGED <<convo, floor, openWeb, merged, cand, spotted, facts>>

\* the lead keeps the first verdict
Deliver(v) ==
    \* an address that is no /in/ profile scores 0 for LinkedIn
    /\ \E plausible \in {NoProfile, facts.profile} :
          lead' = [email |-> v.email, score |-> v.score, method |-> v.method,
                   confidence |-> Confidence(v.score, plausible)]
    /\ Goto("delivered")
    /\ UNCHANGED turn /\ VerifyKeeps

ProviderFinds ==
    /\ pc = "verify" /\ turn < Len(Providers)
    /\ \E v \in Verdicts(Providers[turn + 1]) : Deliver(v)

ProviderPassesRound ==
    /\ pc = "verify" /\ turn < Len(Providers)
    /\ turn' = (turn + 1) % Len(Providers)
    /\ UNCHANGED <<pc, lead>> /\ VerifyKeeps
\* no key, an error or no address: the next provider
ProviderPasses ==
    /\ pc = "verify" /\ turn < Len(Providers)
    /\ turn' = turn + 1
    /\ UNCHANGED <<pc, lead>> /\ VerifyKeeps

SmtpFallback ==
    /\ pc = "verify" /\ turn = Len(Providers)
    /\ \E v \in SmtpVerdicts : Deliver(v)

ResearchStep == \/ AskResearcher \/ ResearcherAsksTools \/ RunTool \/ ResearcherAnswers
                \/ CapFails \/ FillProfile \/ FillAttributes \/ ScoreFit
                \/ FinishResearch \/ ResearchFails
VerifyStep == ProviderFinds \/ ProviderPasses \/ SmtpFallback
Next == \/ SearchStep /\ UNCHANGED studyVars
        \/ Pick \/ Gate \/ ResearchStep \/ VerifyStep
Spec == Init /\ [][Next]_vars
LiveSpec == Spec /\ WF_vars(Next)

-----------------------------------------------------------------------------
TypeOK ==
    /\ SearchTypeOK
    /\ pc \in SearchSteps \cup StudySteps
    /\ cand \in Candidates /\ spotted \subseteq Profiles /\ facts \in Facts
    /\ turn \in 0 .. Len(Providers) /\ lead \in Leads

(* Whatever breaks in the open web, a domain that any source listed is in  *)
(* the merged result, once, with the open web's entry before the floor's.  *)
NothingListedIsLost ==
    pc = "found" =>
      /\ Listed(merged) = Listed(openWeb) \cup UNION {Listed(floor[s]) : s \in DOMAIN floor}
      /\ \A i, j \in DOMAIN merged : merged[i].domain = merged[j].domain => i = j
      /\ \A i \in DOMAIN merged : merged[i].domain \in Listed(openWeb) =>
            merged[i].source = "open_web"

(* No request leaves while a tool_use block of an earlier turn has no      *)
(* tool_result, wherever in a batch the cap falls: the API would refuse    *)
(* it, and the run with it.                                                *)
RequestsAreAnswered ==
    pc \in {"searching", "searchCap", "asking", "cap"} => Answered(convo)

(* Funding that came with the candidate reaches the lead unchanged, also   *)
(* over a research that fails or a model that says otherwise.              *)
FundingIsCarried ==
    pc \in {"verify", "delivered"} /\ cand.funded => facts.funding = "given"

(* An address Hunter gives for a named founder is not a stranger's: his    *)
(* record or his address holds a name of the founder.                      *)
NoStrangersAddress ==
    pc = "delivered" /\ lead.method = "hunter" /\ facts.founder =>
      lead.email \in SameName \cup BearsName

(* Every study ends, whatever models, searches and providers answer.       *)
StudyEnds == <>(pc \in {"skipped", "delivered"} \/ (pc = "found" /\ merged = <<>>))
=============================================================================
