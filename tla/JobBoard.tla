------------------------------ MODULE JobBoard ------------------------------
(***************************************************************************)
(* The job board as a whole: the cycles and the user of MonitorCycle and   *)
(* the alerts of AlertSend, jobs of one scheduler that share nothing but   *)
(* the tables.  An alert looks neither at what is seeded nor at what is    *)
(* tracked, so its view of the tables leaves both out.                     *)
(***************************************************************************)
EXTENDS MonitorCycle

CONSTANTS Senders, Forces, TxLag, StampCap  \* see AlertSend

VARIABLES pc, mark, batch, run,  \* the local state of each alert
          mailed, blind, gap     \* history, see AlertSend

Alert == INSTANCE AlertSend WITH seeded <- {}, tracked <- {}

boardVars == <<vars, pc, mark, batch, run, mailed, blind, gap>>

\* rows that appear behind the end of an alert that was sent
Overtaken ==
    {p \in stored' \ stored :
        \E r \in Runs : runStatus[r] = "sent" /\ finishedAt[r] >= firstSeen'[p]}

BoardInit == Init /\ Alert!Init

CycleOrUserStep ==
    /\ Next
    /\ gap' = gap \cup Overtaken
    /\ UNCHANGED <<pc, mark, batch, run, mailed, blind>>
AlertStep ==
    /\ \E s \in Senders : Alert!SenderStep(s)
    /\ UNCHANGED <<seeded, tracked, cycleVars, worldVars, historyVars>>

BoardSpec == BoardInit /\ [][CycleOrUserStep \/ AlertStep]_boardVars

-----------------------------------------------------------------------------
\* To an alert, the cycles and the user are the writers that AlertSend puts
\* around it, and no others: what is shown of an alert there holds beside
\* them.
BoardImplementsAlert == Alert!Spec
=============================================================================
