------------------------------ MODULE MCHandlers ------------------------------
(***************************************************************************)
(* Handlers that have to come to an end, for one run of TLC.               *)
(* They share no state with each other: a behaviour is one of a component, *)
(* the subject, and the others stay where they began.                      *)
(***************************************************************************)
EXTENDS Presets, PunishGuard, UserDB, RollPanel

VARIABLE subject

Parts == {"presets", "guard", "userDB", "panel"}

vars == <<subject, presetVars, guardVars, userDBVars, panelVars>>

Init ==
    /\ subject \in Parts
    /\ PresetInit
    /\ GuardInit
    /\ UserDBInit
    /\ PanelInit
    \* The others stay at one initial state each.
    /\ (subject # "userDB" => ~schema.preferences)
    /\ (subject # "panel" => panels = {})

\* A step of the part, and of no other.
Step(part, next, others) == subject = part /\ next /\ UNCHANGED others /\ UNCHANGED subject

Next ==
    \/ Step("presets", PresetNext, <<guardVars, userDBVars, panelVars>>)
    \/ Step("guard", GuardNext, <<presetVars, userDBVars, panelVars>>)
    \/ Step("userDB", UserDBNext, <<presetVars, guardVars, panelVars>>)
    \/ Step("panel", PanelNext, <<presetVars, guardVars, userDBVars>>)

\* The handlers of the other parts have nothing to do, so that their fairness asks for nothing.
Spec == Init /\ [][Next]_vars /\ PresetFairness /\ GuardFairness /\ UserDBFairness /\ PanelFairness

TypeOK ==
    /\ subject \in Parts
    /\ PresetTypeOK
    /\ GuardTypeOK
    /\ UserDBTypeOK
    /\ PanelTypeOK
=============================================================================
