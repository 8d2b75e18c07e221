SPECIFICATION LiveSpec
CONSTANTS
  Resumes = {1, 2}
  Attempts = {1}
  Jobs <- MCJobs
  Kinds = {"cover_text", "letter_pdf", "score_role"}
  Replies <- MCReplies
  PoolSize = 2
  Providers = {"groq", "anthropic"}
  Default = "anthropic"
  Walk <- MCWalk
  Primaries = {"groq", "claude"}
  Quota = 1
  MaxItems = 5
  Names = {1, 2, 3, 4, 5, 6}
INVARIANTS FailuresAreEarned MustHavesBind RankedByMerit
PROPERTIES RequestsEnd
CHECK_DEADLOCK FALSE
