-------------------------------- MODULE Chat --------------------------------
(***************************************************************************)
(* The popup's chat tab (extension/popup.js) over POST /chat                *)
(* (backend/server.py), chat_reply (backend/generate.py) and Bedrock's       *)
(* Converse API, external.  The popup sends its whole transcript each time; *)
(* the transcript is kept in extension storage and read back when the popup  *)
(* opens again.  A message is its role: neither side adds an empty one.      *)
(***************************************************************************)
EXTENDS Naturals, Sequences, SequencesExt

CONSTANTS MaxMessages, \* max_length of ChatRequest.messages
          MaxHistory,  \* CHAT_MAX_HISTORY_MESSAGES
          MaxTurns     \* messages a transcript grows to, a bound

VARIABLES open,    \* the popup is open
          memory,  \* chatMessages
          stored,  \* the transcript in extension storage
          busy,    \* chatBusy
          request, \* the POST under way: where it stands, what it carries
          reply    \* what the service answered, "none" while it works
vars == <<open, memory, stored, busy, request, reply>>

NoRequest == [at |-> "none", messages |-> <<>>]
Init ==
    /\ open = TRUE /\ memory = <<>> /\ stored = <<>> /\ busy = FALSE
    /\ request = NoRequest /\ reply = "none"

Remember(messages) == memory' = messages /\ stored' = messages

-----------------------------------------------------------------------------
(* The popup                                                               *)

\* sendChat up to the fetch: the user's turn joins the transcript first
Send ==
    /\ open /\ ~busy /\ Len(memory) < MaxTurns
    /\ Remember(Append(memory, "user"))
    /\ busy' = TRUE /\ reply' = "none"
    /\ request' = [at |-> "service", messages |-> Append(memory, "user")]
    /\ UNCHANGED open

\* the reply joins the transcript; after an error the user's turn stays in it
Receive ==
    /\ open /\ busy /\ reply # "none"
    /\ IF reply = "assistant" THEN Remember(Append(memory, "assistant"))
       ELSE UNCHANGED <<memory, stored>>
    /\ busy' = FALSE /\ reply' = "none" /\ request' = NoRequest
    /\ UNCHANGED open

Clear == open /\ memory # <<>> /\ Remember(<<>>) /\ UNCHANGED <<open, busy, request, reply>>

\* the page is gone with the fetch it was waiting for
Close == /\ open /\ open' = FALSE /\ memory' = <<>> /\ busy' = FALSE
         /\ request' = NoRequest /\ reply' = "none" /\ UNCHANGED stored
Reopen == /\ ~open /\ open' = TRUE /\ memory' = stored
          /\ UNCHANGED <<stored, busy, request, reply>>

-----------------------------------------------------------------------------
(* The service                                                             *)

\* the latest messages, without the assistant turns they may begin with
Trimmed(messages) ==
    LET recent == IF Len(messages) <= MaxHistory THEN messages
                  ELSE SubSeq(messages, Len(messages) - MaxHistory + 1, Len(messages))
        turns == {i \in DOMAIN recent : recent[i] = "user"}
    IN IF turns = {} THEN <<>>
       ELSE SubSeq(recent, CHOOSE i \in turns : \A j \in turns : i <= j, Len(recent))

Refuse == reply' = "error" /\ request' = [request EXCEPT !.at = "answered"]

\* more messages than the schema takes are a 422; a transcript must end with
\* the user; otherwise what is left after trimming goes to Bedrock
Chat ==
    /\ request.at = "service"
    /\ LET turns == Trimmed(request.messages) IN
       IF Len(request.messages) > MaxMessages \/ turns = <<>> \/ Last(turns) # "user"
       THEN Refuse
       ELSE request' = [at |-> "bedrock", messages |-> turns] /\ UNCHANGED reply
    /\ UNCHANGED <<open, memory, stored, busy>>

\* the first message must be the user's, and roles must alternate
Accepts(turns) ==
    /\ Head(turns) = "user"
    /\ \A i \in 1..(Len(turns) - 1) : turns[i] # turns[i + 1]

\* Bedrock may also throttle, time out or answer with nothing
Converse ==
    /\ request.at = "bedrock"
    /\ \/ /\ Accepts(request.messages)
          /\ reply' = "assistant" /\ request' = [request EXCEPT !.at = "answered"]
       \/ Refuse
    /\ UNCHANGED <<open, memory, stored, busy>>

Next == Send \/ Receive \/ Clear \/ Close \/ Reopen \/ Chat \/ Converse
Spec == Init /\ [][Next]_vars

-----------------------------------------------------------------------------
(* Properties                                                              *)

\* What reaches Bedrock is a conversation it takes: chat_reply trims because
\* "Bedrock's Converse API requires the first message to be a user turn and
\* roles to alternate" (generate.py:1246-1248).  The popup keeps a failed turn
\* and sends it again with the next, so a retry carries two user turns in a row.
RetryIsAConversation == request.at = "bedrock" => Accepts(request.messages)
=============================================================================
