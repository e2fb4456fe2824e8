------------------------------- MODULE Match -------------------------------
(***************************************************************************)
(* The life of one room as its players see it: closed, open, playing a     *)
(* round, or between a won round and the next one.  A game goes through    *)
(* its rounds one by one and only a won round leads to the next.           *)
(***************************************************************************)
EXTENDS Naturals

CONSTANT LastRound      \* rounds a game has

VARIABLES
    stage,              \* "closed", "open", "playing" or "won"
    round               \* the round that is played or was won, 0 without a game

matchVars == <<stage, round>>

MatchInit == stage = "closed" /\ round = 0

Open    == stage = "closed" /\ stage' = "open" /\ UNCHANGED round
Begin   == stage = "open" /\ stage' = "playing" /\ round' = 1
Win     == /\ stage = "playing" /\ round < LastRound
           /\ stage' = "won" /\ UNCHANGED round
Proceed == stage = "won" /\ stage' = "playing" /\ round' = round + 1
Finish  == stage \in {"playing", "won"} /\ stage' = "open" /\ round' = 0
Close   == stage # "closed" /\ stage' = "closed" /\ round' = 0

MatchNext == Open \/ Begin \/ Win \/ Proceed \/ Finish \/ Close

MatchSpec == MatchInit /\ [][MatchNext]_matchVars
=============================================================================
