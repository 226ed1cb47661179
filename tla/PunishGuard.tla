---------------------------- MODULE PunishGuard ----------------------------
(***************************************************************************)
(* What stands before a punishment (handlers/punish/handler.go,            *)
(* utils/concurrency.go, bot/bot.go): the dialog that the quick punishment *)
(* opens and that one click may take, the lock of five minutes on the      *)
(* target, and the limit on the actions of an administrator in a day.      *)
(* What the punishment then does is the module Punishment.                 *)
(*                                                                         *)
(* One administrator and one action are modelled: limits are per both.     *)
(***************************************************************************)
EXTENDS Naturals, FiniteSets

CONSTANTS
    Dialogs,        \* bound: quick punishments, each with a dialog
    Direct,         \* bound: /punish commands, which have none
    Targets,        \* members that are punished
    Self,           \* the administrator, who may be a target
    Workers,        \* goroutines that run the handlers
    Limit,          \* PeeUserLimit of the action
    LockTicks,      \* ticks of a lock: five minutes; dialogs live as long
    DayTicks,       \* ticks of the window of the limit: a day
    MaxGuardFaults  \* bound: failed calls and ends of the process

ASSUME GuardAssumption ==
    /\ Dialogs \cap Direct = {}
    /\ Limit \in Nat
    /\ LockTicks \in Nat \ {0}
    /\ DayTicks \in Nat \ {0}

ASSUME GuardBoundAssumption == MaxGuardFaults \in Nat

VARIABLES
    begun,          \* punishments that somebody asked for
    dialogs,        \* PendingPunishments
    buttons,        \* dialogs on the administrator's screen
    locks,          \* locks[t]: ticks until t may be punished again
    actions,        \* adminActionRecords: <<punishment, ticks since then>>
    executed,       \* executed[p]: how often p was carried out
    worker,         \* worker[w]: locals of a handler
    guardFaults

guardVars == <<begun, dialogs, buttons, locks, actions, executed, worker, guardFaults>>
-----------------------------------------------------------------------------
Asked == Dialogs \cup Direct
Off == [pc |-> "off"]
Handling == [ pc : {"submit", "config", "take", "defer", "lock", "load", "limit", "member", "apply"},
              id : Asked, target : Targets ]
PendingPunishment == [id : Dialogs, target : Targets, age : 0..LockTicks + 1]

GuardTypeOK ==
    /\ begun \subseteq Asked
    /\ dialogs \subseteq PendingPunishment
    /\ buttons \subseteq Dialogs \X Targets
    /\ locks \in [Targets -> 0..LockTicks]
    /\ actions \subseteq Asked \X (0..DayTicks)
    /\ executed \in [Asked -> 0..2]
    /\ worker \in [Workers -> {Off} \cup Handling]
    /\ guardFaults \in 0..MaxGuardFaults

GuardInit ==
    /\ begun = {}
    /\ dialogs = {}
    /\ buttons = {}
    /\ locks = [t \in Targets |-> 0]
    /\ actions = {}
    /\ executed = [p \in Asked |-> 0]
    /\ worker = [w \in Workers |-> Off]
    /\ guardFaults = 0
-----------------------------------------------------------------------------
Doing(w, pc) == worker[w].pc = pc
Then(w, pc) == worker' = [worker EXCEPT ![w].pc = pc]
Stop(w) == worker' = [worker EXCEPT ![w] = Off]
GuardFault == guardFaults < MaxGuardFaults /\ guardFaults' = guardFaults + 1
NoGuardFault == UNCHANGED guardFaults

\* The next statement succeeds, or the handler tells the administrator and returns.
StepOrReturn(w, pc) ==
    \/ Then(w, pc) /\ NoGuardFault
    \/ Stop(w) /\ GuardFault

DialogOf(p) == {d \in dialogs : d.id = p}

Start(w, p, t, pc) ==
    /\ Doing(w, "off")
    /\ p \notin begun
    /\ begun' = begun \cup {p}
    /\ worker' = [worker EXCEPT ![w] = [pc |-> pc, id |-> p, target |-> t]]
    /\ UNCHANGED <<dialogs, buttons, locks, actions, executed, guardFaults>>

\* /punish needs no dialog.
PunishCommand(w, p, t) == p \in Direct /\ Start(w, p, t, "defer")
SubmitModal(w, p, t) == p \in Dialogs /\ Start(w, p, t, "submit")

StorePending(w) ==
    /\ Doing(w, "submit")
    /\ \/ /\ dialogs' = dialogs \cup {[id |-> worker[w].id, target |-> worker[w].target, age |-> 0]}
          /\ Then(w, "config")
          /\ NoGuardFault
       \/ /\ UNCHANGED dialogs              \* the message is gone
          /\ Stop(w)
          /\ GuardFault
    /\ UNCHANGED <<begun, buttons, locks, actions, executed>>

\* Without the configuration there is no dialog, but the entry stays for the sweep.
ShowDialog(w) ==
    /\ Doing(w, "config")
    /\ \/ /\ buttons' = buttons \cup {<<worker[w].id, worker[w].target>>}
          /\ NoGuardFault
       \/ /\ buttons' \in {buttons, buttons \cup {<<worker[w].id, worker[w].target>>}}
          /\ GuardFault
    /\ Stop(w)
    /\ UNCHANGED <<begun, dialogs, locks, actions, executed>>

ClickAction(w, button) ==
    /\ Doing(w, "off")
    /\ worker' = [worker EXCEPT ![w] = [pc |-> "take", id |-> button[1], target |-> button[2]]]
    /\ UNCHANGED <<begun, dialogs, buttons, locks, actions, executed, guardFaults>>

TakeAndKeepPending(w) ==
    /\ Doing(w, "take")
    /\ IF DialogOf(worker[w].id) = {} THEN Stop(w) ELSE Then(w, "defer")
    /\ UNCHANGED <<begun, dialogs, buttons, locks, actions, executed, guardFaults>>

\* The entry is taken under the mutex, before anything else, so that nothing runs twice.
TakePending(w) ==
    /\ Doing(w, "take")
    /\ dialogs' = dialogs \ DialogOf(worker[w].id)
    /\ IF DialogOf(worker[w].id) = {} THEN Stop(w) ELSE Then(w, "defer")
    /\ UNCHANGED <<begun, buttons, locks, actions, executed, guardFaults>>

DeferAction(w) ==
    /\ Doing(w, "defer")
    /\ StepOrReturn(w, "lock")
    /\ UNCHANGED <<begun, dialogs, buttons, locks, actions, executed>>

\* CheckAndSetPunishLock, but not for who punishes themselves.
CheckAndSetPunishLock(w) ==
    /\ Doing(w, "lock")
    /\ LET t == worker[w].target
       IN  \/ t = Self /\ UNCHANGED locks /\ Then(w, "load")
           \/ t # Self /\ locks[t] > 0 /\ UNCHANGED locks /\ Stop(w)
           \/ t # Self /\ locks[t] = 0 /\ locks' = [locks EXCEPT ![t] = LockTicks] /\ Then(w, "load")
    /\ UNCHANGED <<begun, dialogs, buttons, actions, executed, guardFaults>>

\* A return from here on leaves the lock where it is.
LoadPunishConfig(w) ==
    /\ Doing(w, "load")
    /\ StepOrReturn(w, "limit")
    /\ UNCHANGED <<begun, dialogs, buttons, locks, actions, executed>>

Recent == {r \in actions : r[2] < DayTicks}

CheckAndIncrementAdminAction(w) ==
    /\ Doing(w, "limit")
    /\ \/ /\ worker[w].target = Self
          /\ Then(w, "member")
          /\ UNCHANGED actions
       \/ /\ worker[w].target # Self
          /\ IF Cardinality(Recent) >= Limit
             THEN Stop(w) /\ actions' = Recent
             ELSE Then(w, "member") /\ actions' = Recent \cup {<<worker[w].id, 0>>}
    /\ UNCHANGED <<begun, dialogs, buttons, locks, executed, guardFaults>>

\* The member, the whitelist, the evidence and the database may still refuse; the action
\* stays counted.
CheckMember(w) ==
    /\ Doing(w, "member")
    /\ Then(w, "apply") \/ Stop(w)
    /\ UNCHANGED <<begun, dialogs, buttons, locks, actions, executed, guardFaults>>

\* The answer takes the buttons away, if it arrives.
ExecutePunishment(w) ==
    /\ Doing(w, "apply")
    /\ executed' = [executed EXCEPT ![worker[w].id] = @ + 1]
    /\ Stop(w)
    /\ \/ buttons' = {b \in buttons : b[1] # worker[w].id} /\ NoGuardFault
       \/ UNCHANGED buttons /\ GuardFault
    /\ UNCHANGED <<begun, dialogs, locks, actions>>
-----------------------------------------------------------------------------
GuardTick ==
    /\ dialogs # {} \/ actions # {} \/ \E t \in Targets : locks[t] > 0
    /\ dialogs' = {[d EXCEPT !.age = IF @ > LockTicks THEN @ ELSE @ + 1] : d \in dialogs}
    /\ locks' = [t \in Targets |-> IF locks[t] = 0 THEN 0 ELSE locks[t] - 1]
    /\ actions' = {<<r[1], IF r[2] = DayTicks THEN r[2] ELSE r[2] + 1>> : r \in actions}
    /\ UNCHANGED <<begun, buttons, executed, worker, guardFaults>>

CleanupExpiredPunishments ==
    /\ \E d \in dialogs : d.age > LockTicks
    /\ dialogs' = {d \in dialogs : d.age <= LockTicks}
    /\ UNCHANGED <<begun, buttons, locks, actions, executed, worker, guardFaults>>

CleanupAdminActions ==
    /\ actions # Recent
    /\ actions' = Recent
    /\ UNCHANGED <<begun, dialogs, buttons, locks, executed, worker, guardFaults>>

ResetPunishCooldown ==
    /\ \E t \in Targets : locks[t] > 0
    /\ locks' = [t \in Targets |-> 0]
    /\ UNCHANGED <<begun, dialogs, buttons, actions, executed, worker, guardFaults>>

GuardRestart ==
    /\ GuardFault
    /\ dialogs' = {}
    /\ locks' = [t \in Targets |-> 0]
    /\ actions' = {}
    /\ worker' = [w \in Workers |-> Off]
    /\ UNCHANGED <<begun, buttons, executed>>

WorkerStep(w) ==
    \/ StorePending(w) \/ ShowDialog(w) \/ TakePending(w) \/ DeferAction(w)
    \/ CheckAndSetPunishLock(w) \/ LoadPunishConfig(w) \/ CheckAndIncrementAdminAction(w)
    \/ CheckMember(w) \/ ExecutePunishment(w)

GuardNext ==
    \/ \E w \in Workers :
          \/ WorkerStep(w)
          \/ \E p \in Asked, t \in Targets : PunishCommand(w, p, t) \/ SubmitModal(w, p, t)
          \/ \E b \in buttons : ClickAction(w, b)
    \/ GuardTick \/ CleanupExpiredPunishments \/ CleanupAdminActions
    \/ ResetPunishCooldown \/ GuardRestart

\* Calls return and goroutines run.
GuardFairness == \A w \in Workers : WF_guardVars(WorkerStep(w))

GuardSpec == GuardInit /\ [][GuardNext]_guardVars /\ GuardFairness
-----------------------------------------------------------------------------
(* Properties                                                              *)

Working(p, pcs) == \E w \in Workers : worker[w].pc \in pcs /\ worker[w].id = p

DialogStage == [p \in Dialogs |->
    IF executed[p] > 0                             THEN "posted"
    ELSE IF Working(p, {"defer", "lock", "load", "limit", "member", "apply"}) THEN "taken"
    ELSE IF DialogOf(p) # {}                       THEN "open"
    ELSE IF p \notin begun \/ Working(p, {"submit"}) THEN "none"
    ELSE "dropped"]

D == INSTANCE Prompt WITH
        Prompts <- Dialogs, stage <- DialogStage, posts <- [p \in Dialogs |-> executed[p]]

\* The dialog of a quick punishment is carried out at most once, by one click, however
\* often its buttons are clicked and however old they are, and whatever the lock, the
\* limit and failing calls do to it; a click that took it ends (HandlePunishActionSelection
\* and its comment on double execution).
DialogIsAPrompt == D!Spec
=============================================================================
