----------------------------- MODULE Generation -----------------------------
(***************************************************************************)
(* The generation service: the endpoints of backend/server.py over the      *)
(* operations of backend/generate.py and backend/resume_ai.py.  A request   *)
(* checks its input, reads a resume, walks the provider chain once (twice   *)
(* to score a profile against a role), checks the payload, renders if it    *)
(* makes a PDF, writes its Application row and answers; /score-all scores    *)
(* every resume on a thread pool and ranks the rows.  The popup waits a      *)
(* limited time and may ask again while the service still works.             *)
(***************************************************************************)
EXTENDS ProviderChain, Rubric

CONSTANTS Resumes,    \* resume ids, numbers in their alphabetical order
          Attempts,   \* 1..n: the clicks of a user on one button, in order
          Kinds,      \* the kinds of request clicked for
          Replies,    \* gradings a model may return
          PoolSize    \* max_workers of score_jd_fit_all

ASSUME GenerationAssumption ==
    /\ Resumes \in SUBSET Nat /\ IsFiniteSet(Resumes) /\ Attempts \in SUBSET Nat
    /\ Jobs = {"resume"} \X Resumes \cup {"click"} \X Attempts
    /\ Replies \subseteq RawReply
    /\ PoolSize \in Nat \ {0}

VARIABLES request,  \* [Attempts -> a request]
          row,      \* [Resumes -> the row of /score-all]
          results,  \* what /score-all returned, <<>> before
          log       \* Application rows, by attempt
vars == <<chainVars, request, row, results, log>>

-----------------------------------------------------------------------------
(* The operations.  calls: LLM walks; checks: the payload is checked after   *)
(* the walk, which then had no required keys; patience: the whole hops that  *)
(* fit into the popup's wait.                                                *)

Forever == Len(Walk) + 1
Op(calls, checks, renders, logs, patience) ==
    [calls |-> calls, checks |-> checks, renders |-> renders, logs |-> logs,
     patience |-> patience]
LetterOps ==
    [cover_letter    |-> Op(1, FALSE, TRUE,  TRUE,  4),
     cover_text      |-> Op(1, FALSE, FALSE, TRUE,  1),
     letter_pdf      |-> Op(0, FALSE, TRUE,  FALSE, 0),
     answer_question |-> Op(1, FALSE, FALSE, TRUE,  1)]
ScoreOp == [score |-> Op(1, TRUE, FALSE, TRUE, 1)]
\* on a chain and a primary of its own, which make no difference here
ExtractOp == [extract_jd |-> Op(1, TRUE, FALSE, FALSE, 3)]
\* one key the walk requires, or a profile or a list checked after it
BuilderOps ==
    [op \in {"rewrite_bullet", "highlight_bullet", "tailor", "draft", "suggest"} |->
       Op(1, op \in {"tailor", "draft", "suggest"}, FALSE, FALSE, Forever)]
ResumePdfOp == [resume_pdf |-> Op(0, FALSE, TRUE, FALSE, Forever)]
\* score_role writes a job description from the role first
ProfileScoreOps ==
    [score_profile   |-> Op(1, TRUE,  FALSE, FALSE, Forever),
     score_role      |-> Op(2, TRUE,  FALSE, FALSE, Forever)]
Operation(kind) ==
    CASE kind \in DOMAIN LetterOps -> LetterOps[kind]
      [] kind \in DOMAIN ScoreOp -> ScoreOp[kind]
      [] kind \in DOMAIN ExtractOp -> ExtractOp[kind]
      [] kind \in DOMAIN BuilderOps -> BuilderOps[kind]
      [] kind \in DOMAIN ResumePdfOp -> ResumePdfOp[kind]
      [] kind \in DOMAIN ProfileScoreOps -> ProfileScoreOps[kind]
OperationNames ==
    UNION {DOMAIN LetterOps, DOMAIN ScoreOp, DOMAIN ExtractOp,
           DOMAIN BuilderOps, DOMAIN ResumePdfOp, DOMAIN ProfileScoreOps}
ASSUME KindsAssumption == Kinds \subseteq OperationNames

NotMade == [phase |-> "idle", kind |-> "none", calls |-> 0, here |-> FALSE]
Ended == {"answered", "failed"}
NoRow == [st |-> "none"]
ErrorRow == [st |-> "error"]
ScoredRow(reply) == [st |-> "scored", reply |-> reply, grade |-> Graded(reply)]
Click(k) == <<"click", k>>
Resume(r) == <<"resume", r>>

Init ==
    /\ ChainInit
    /\ request = [k \in Attempts |-> NotMade]
    /\ row = [r \in Resumes |-> NoRow] /\ results = <<>> /\ log = <<>>

-----------------------------------------------------------------------------
(* One request                                                             *)

To(k, phase) == request' = [request EXCEPT ![k].phase = phase]
Op1(k) == Operation(request[k].kind)
AfterCall(k) == IF Op1(k).renders THEN "rendering"
                ELSE IF Op1(k).logs THEN "logging" ELSE "answered"

\* the button is disabled until the popup has an answer or has given up; an
\* empty field or an unknown resume is refused before any call
Submit(k, kind, good) ==
    /\ request[k].phase = "idle"
    /\ \A e \in Attempts : e < k => /\ request[e].phase # "idle"
                                    /\ request[e].phase \in Ended \/ ~request[e].here
    /\ LET calls == Operation(kind).calls
           phase == CASE ~good -> "failed" [] good /\ calls = 0 -> "rendering"
                      [] OTHER -> "calling"
       IN /\ request' = [request EXCEPT ![k] = [phase |-> phase, kind |-> kind,
                                                calls |-> calls, here |-> TRUE]]
          /\ IF phase = "calling" THEN Starts(Click(k)) ELSE UNCHANGED call
    /\ UNCHANGED <<primary, configured, left, row, results, log>>

\* a walk with required keys takes a reply of the wrong shape for an error; of
\* two walks only the last is checked after it
AsksClick(k, outcome) ==
    /\ request[k].phase = "calling"
    /\ outcome = "shapeless" => Op1(k).checks /\ request[k].calls = 1
    /\ Ask(Click(k), outcome)
    /\ UNCHANGED <<request, row, results, log>>

\* the walk is over: an error surfaces, the wrong shape is a 400, a role's job
\* description is followed by the scoring call
Returns(k) ==
    /\ request[k].phase = "calling" /\ call[Click(k)].st \notin {"idle", "asking"}
    /\ IF call[Click(k)].st # "reply" THEN To(k, "failed") /\ UNCHANGED call
       ELSE IF request[k].calls > 1
            THEN request' = [request EXCEPT ![k].calls = @ - 1] /\ Starts(Click(k))
            ELSE To(k, AfterCall(k)) /\ UNCHANGED call
    /\ UNCHANGED <<primary, configured, left, row, results, log>>

\* tectonic is missing, or refuses the source
Renders(k, works) ==
    /\ request[k].phase = "rendering"
    /\ To(k, IF ~works THEN "failed" ELSE IF Op1(k).logs THEN "logging" ELSE "answered")
    /\ UNCHANGED <<chainVars, row, results, log>>

\* insert_application: a failed insert is logged and forgotten
Logs(k, works) ==
    /\ request[k].phase = "logging"
    /\ log' = IF works THEN Append(log, k) ELSE log
    /\ To(k, "answered")
    /\ UNCHANGED <<chainVars, row, results>>

\* fetchWithTimeout aborts; the service does not notice
GivesUp(k) ==
    /\ request[k].here /\ request[k].phase \notin Ended /\ Op1(k).patience # Forever
    /\ request[k].phase = "calling" => Len(call[Click(k)].asked) >= Op1(k).patience
    /\ request' = [request EXCEPT ![k].here = FALSE]
    /\ UNCHANGED <<chainVars, row, results, log>>

-----------------------------------------------------------------------------
(* /score-all                                                              *)

Busy == {r \in Resumes : call[Resume(r)].st # "idle"}

\* pool.map takes the resumes in order; one deleted since the list was read is
\* an error row
ScoreStarts(r, found) ==
    /\ call[Resume(r)].st = "idle" /\ row[r] = NoRow /\ Cardinality(Busy) < PoolSize
    /\ \A e \in Resumes : e < r => call[Resume(e)].st # "idle" \/ row[e] # NoRow
    /\ IF found THEN Starts(Resume(r)) /\ UNCHANGED row
       ELSE row' = [row EXCEPT ![r] = ErrorRow] /\ UNCHANGED call
    /\ UNCHANGED <<primary, configured, left, request, results, log>>

AsksResume(r, outcome) == Ask(Resume(r), outcome) /\ UNCHANGED <<request, row, results, log>>

RowIs(r, value) ==
    /\ row' = [row EXCEPT ![r] = value]
    /\ call' = [call EXCEPT ![Resume(r)] = NotCalled]
    /\ UNCHANGED <<primary, configured, left, request, results, log>>
\* score_resume_text grades what the walk returned
ScoreEnds(r, reply) ==
    /\ call[Resume(r)].st = "reply"
    /\ RowIs(r, IF Gradable(reply) THEN ScoredRow(reply) ELSE ErrorRow)
RaisesUnlessHard(r) ==
    /\ call[Resume(r)].st = "raised" /\ call[Resume(r)].why # "hard"
    /\ RowIs(r, ErrorRow)
\* any exception is the row's error
ScoreRaises(r) ==
    /\ call[Resume(r)].st \in {"raised", "shapeless"}
    /\ RowIs(r, ErrorRow)

Scored(r) == row[r].st = "scored"
\* successes by score_100 descending then id, errors after them by id
Before(a, b) ==
    IF Scored(a) /\ Scored(b)
    THEN \/ row[a].grade.score_100 > row[b].grade.score_100
         \/ row[a].grade.score_100 = row[b].grade.score_100 /\ a < b
    ELSE Scored(a) \/ (~Scored(b) /\ a < b)

\* sorted: in each place the resume with as many before it
Place(r) == Cardinality({e \in Resumes : e = r \/ Before(e, r)})
Ranking == [n \in 1 .. Cardinality(Resumes) |-> CHOOSE r \in Resumes : Place(r) = n]
Ranks ==
    /\ results = <<>> /\ Resumes # {} /\ \A r \in Resumes : row[r] # NoRow
    /\ results' = Ranking
    /\ UNCHANGED <<chainVars, request, row, log>>

-----------------------------------------------------------------------------
Works(k) == \/ \E o \in Outcomes : AsksClick(k, o)
            \/ Returns(k)
            \/ \E works \in BOOLEAN : Renders(k, works) \/ Logs(k, works)
Scores(r) == \/ \E found \in BOOLEAN : ScoreStarts(r, found)
             \/ \E o \in Outcomes : AsksResume(r, o)
             \/ \E reply \in Replies : ScoreEnds(r, reply)
             \/ ScoreRaises(r)

Next ==
    \/ \E k \in Attempts :
         \/ \E kind \in Kinds, good \in BOOLEAN : Submit(k, kind, good)
         \/ Works(k) \/ GivesUp(k)
    \/ \E r \in Resumes : Scores(r)
    \/ Ranks

\* every hop has a timeout and every thread runs; nobody must click
Spec == Init /\ [][Next]_vars
Fair == /\ \A k \in Attempts : WF_vars(Works(k))
        /\ \A r \in Resumes : WF_vars(Scores(r))
        /\ WF_vars(Ranks)
LiveSpec == Spec /\ Fair

-----------------------------------------------------------------------------
(* Properties                                                              *)

Phases == Ended \cup {"idle", "calling", "rendering", "logging"}
Requests == [phase : Phases, kind : Kinds \cup {"none"}, calls : 0 .. 2, here : BOOLEAN]
Rows == {NoRow, ErrorRow} \cup {ScoredRow(reply) : reply \in {r \in Replies : Gradable(r)}}
TypeOK ==
    /\ ChainTypeOK
    /\ request \in [Attempts -> Requests] /\ row \in [Resumes -> Rows]
    /\ results \in Seq(Resumes) /\ log \in Seq(Attempts)

\* Every call that has raised asked the primary first, no provider twice by
\* name, and no provider after the first with a model meant for another.
WalksOnce ==
    \A j \in Jobs : LET asked == call[j].asked IN
        /\ \A a, b \in DOMAIN asked : a # b => asked[a].provider # asked[b].provider
        /\ \A a \in DOMAIN asked :
             asked[a].model = "callers" => asked[a].provider = primary
\* It stopped before the end of the chain only because of an error that was
\* neither an overload nor a fallback without credentials: a provider with
\* credentials and quota is passed over only behind such an error.
GivesUpLast ==
    \A j \in Jobs : call[j].st = "raised" =>
        \/ {hop.provider : hop \in ToSet(call[j].asked)} = ToSet(Walk) \cup {primary}
        \/ call[j].why \in {"hard", "garbled"}
        \/ Len(call[j].asked) = 1 /\ call[j].why = "absent"
\* What a user paid a call for is not lost to the audit log: a request whose
\* payload was usable fails only if it had a document to render
\* (db.py:614-615: "generations should not fail because the audit log is
\* unavailable"), and no request is logged twice or without an answer.
LogNeverDecides ==
    /\ \A k \in Attempts :
         request[k].phase = "failed" /\ call[Click(k)].st = "reply" => Op1(k).renders
    /\ IsInjective(log)
    /\ \A k \in ToSet(log) : request[k].phase = "answered" /\ call[Click(k)].st = "reply"
\* A request fails for a reason of its own or of the providers, never because
\* the walk stopped short or the log was down (generate.py:931-961).
FailuresAreEarned == WalksOnce /\ GivesUpLast /\ LogNeverDecides

\* A resume for which the model nowhere says that a must-have of its rubric is
\* covered scores at most 7 of 10, and at most 5 if there are two such
\* must-haves, whatever blanks, repetitions or gaps the reply has
\* (generate.py:1320-1321: "missing one must-have should never read as 8/10").
MustHavesBind ==
    \A r \in Resumes : Scored(r) =>
        LET reply == row[r].reply
            uncovered == {i \in Kept(reply.rubric) :
                            /\ reply.rubric[i].tier = "must_have"
                            /\ \A c \in ToSet(reply.coverage) :
                                 c.id.name = reply.rubric[i].id.name => c.status \notin {"yes", "partial"}}
        IN /\ uncovered # {} => row[r].grade.score <= 7
           /\ Cardinality(uncovered) > 1 => row[r].grade.score <= 5

\* /score-all returns every resume once, the errors after the scores, and ranks
\* by merit: a resume that covers the same rubric at least as well as another
\* is listed after it only if they tie and its id comes later
\* (generate.py:1615-1618).
RankedByMerit ==
    results # <<>> =>
        /\ IsInjective(results) /\ ToSet(results) = Resumes
        /\ \A a, b \in DOMAIN results : a < b =>
             LET x == results[a]   y == results[b] IN
             /\ Scored(y) => Scored(x)
             /\ Scored(y) /\ row[x].reply.rubric = row[y].reply.rubric =>
                  LET status(r) == Coverage(row[r].reply.rubric, row[r].reply.coverage)
                      covers == \A i \in DOMAIN status(y) :
                                  StatusValue[status(y)[i]] >= StatusValue[status(x)[i]]
                  IN covers => row[x].grade.score_100 = row[y].grade.score_100 /\ x < y

\* Every request that was submitted ends and /score-all returns, however many
\* providers hang or refuse.
RequestsEnd ==
    /\ \A k \in Attempts : (request[k].phase # "idle") ~> (request[k].phase \in Ended)
    /\ <>(results # <<>>)
=============================================================================
