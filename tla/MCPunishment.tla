---------------------------- MODULE MCPunishment ----------------------------
(* The punishment configurations for TLC. *)
EXTENDS Punishment, TLC

CONSTANTS g1, u1, tag, ban, R, S, V

L(add, rem, timeout, days) ==
    [addRole |-> add, removeRoleID |-> rem, timeout |-> timeout, addRoleDays |-> days]

(* R for a day, then R and S for a day with a ban. *)
Escalating ==
    (0 :> L({R, Zero}, {}, "none", 1)) @@ (1 :> L({R, S}, {Zero}, "ban", 1))

(* The first offence gives R for good, the second gives it for a day. *)
PermanentConfig == [g \in Guilds |-> [a \in Actions |->
    (0 :> L({R}, {}, "none", 0)) @@ (1 :> L({R, S}, {}, "none", 1))]]

(* The first offence warns with R, the second bans and takes V, the role of verified members. *)
Recovering ==
    (0 :> L({R, Zero}, {Zero}, "none", 1)) @@ (1 :> L({R}, {V}, "ban", 1))

BothConfig == [g \in Guilds |-> [a \in Actions |-> IF a = tag THEN Escalating ELSE Recovering]]

HoldsNone == [m \in Guilds \X Users |-> {}]
NoRecover == [g \in Guilds |-> Zero]
RecoverV == [g \in Guilds |-> V]
HoldsV == [m \in Guilds \X Users |-> {V}]
=============================================================================
