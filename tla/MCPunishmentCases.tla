------------------------- MODULE MCPunishmentCases -------------------------
(***************************************************************************)
(* Two questions to Punishment in one run: handlers that overlap, and one  *)
(* handler alone, with revocations and an end of the process.  With both   *)
(* at once the states would be too many.                                   *)
(***************************************************************************)
EXTENDS MCPunishment

CONSTANT LoneTime    \* how long the one alone is watched

VARIABLE scenario

casesVars == <<scenario, vars>>

Lone == CHOOSE h \in Handlers : TRUE

CasesInit == Init /\ scenario \in {"overlap", "alone"}

Overlap == UNCHANGED <<revoke, crashes>>
Alone == now' <= LoneTime /\ \A h \in Handlers \ {Lone} : UNCHANGED pun[h]

\* Each has an action of its own, with its levels.
Uses(a) == \A h \in Handlers : pun'[h].pc # "idle" => pun'[h].action = a

CasesNext ==
    /\ Next
    /\ UNCHANGED scenario
    /\ \/ scenario = "overlap" /\ Overlap /\ Uses(tag)
       \/ scenario = "alone" /\ Alone /\ Uses(ban)

CasesSpec == CasesInit /\ [][CasesNext]_casesVars /\ Fairness
=============================================================================
