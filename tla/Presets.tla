------------------------------ MODULE Presets ------------------------------
(***************************************************************************)
(* The preset commands (handlers/preset/handler.go and the quick, search   *)
(* and reply variants, bot/bot.go): a preset is previewed to a guest,      *)
(* posted at once for a member who asked not to be asked, and otherwise    *)
(* put into PendingPresets under a prompt with three buttons.  Every click *)
(* is a goroutine that holds PendingPresetsMutex while it calls Discord;   *)
(* a goroutine of the bot removes old entries once a minute.  The map and  *)
(* the cooldowns end with the process, the prompts on the screen do not.   *)
(*                                                                         *)
(* The prompts of one preset are modelled: the cooldown is per preset.     *)
(***************************************************************************)
EXTENDS Naturals, FiniteSets

CONSTANTS
    Members,        \* who uses the commands
    Prompts,        \* bound: commands that get past the cooldown
    Handlers,       \* goroutines that run commands and clicks
    Lifetime,       \* ticks an entry may stay: five minutes of the code
    MaxPromptFaults \* bound: failed calls and crashes

ASSUME LifetimeAssumption == Lifetime \in Nat
ASSUME PromptBoundAssumption == MaxPromptFaults \in Nat

VARIABLES
    used,           \* the interactions that were accepted
    pending,        \* PendingPresets: a set of entries
    promptHolder,   \* who holds PendingPresetsMutex
    shown,          \* prompts on a member's screen: <<prompt, member>>
    posted,         \* posted[p]: messages posted for p
    cooling,        \* the preset was used less than a tick (30 seconds) ago
    skip,           \* members whose row has skip_preset_confirmation set
    handler,        \* handler[h]: locals of a goroutine
    promptFaults

presetVars == <<used, pending, promptHolder, shown, posted, cooling, skip, handler, promptFaults>>
-----------------------------------------------------------------------------
Button == {"confirm", "cancel", "disable"}
PendingPreset == [id : Prompts, user : Members, age : 0..Lifetime + 1]

Resting == [pc |-> "rest"]
Command == [pc : {"permission", "preference", "direct", "insert", "ask", "withdraw"}, id : Prompts, user : Members]
Click == [pc : {"enter", "refuse", "respond", "ack", "send", "prefer", "sendLater"},
          id : Prompts, user : Members, button : Button]

PresetTypeOK ==
    /\ used \subseteq Prompts
    /\ pending \subseteq PendingPreset
    /\ promptHolder \in Handlers \cup {"nobody"}
    /\ shown \subseteq Prompts \X Members
    /\ posted \in [Prompts -> 0..2]
    /\ cooling \in BOOLEAN
    /\ skip \subseteq Members
    /\ handler \in [Handlers -> {Resting} \cup Command \cup Click]
    /\ promptFaults \in 0..MaxPromptFaults

PresetInit ==
    /\ used = {}
    /\ pending = {}
    /\ promptHolder = "nobody"
    /\ shown = {}
    /\ posted = [p \in Prompts |-> 0]
    /\ cooling = FALSE
    /\ skip = {}
    /\ handler = [h \in Handlers |-> Resting]
    /\ promptFaults = 0
-----------------------------------------------------------------------------
At(h, pc) == handler[h].pc = pc
Proceed(h, pc) == handler' = [handler EXCEPT ![h].pc = pc]
Return(h) == handler' = [handler EXCEPT ![h] = Resting]

Locked == promptHolder # "nobody"
Entry(p) == {e \in pending : e.id = p}

WithEntry(p) == pending

\* What delete(PendingPresets, id) leaves.
WithoutEntry(p) == pending \ Entry(p)

PromptFault == promptFaults < MaxPromptFaults /\ promptFaults' = promptFaults + 1
NoPromptFault == UNCHANGED promptFaults

\* A call to post the message of p: posted, refused, or posted with the answer lost.
PostMessage(p) ==
    \/ posted' = [posted EXCEPT ![p] = @ + 1] /\ NoPromptFault
    \/ UNCHANGED posted /\ PromptFault
    \/ posted' = [posted EXCEPT ![p] = @ + 1] /\ PromptFault
-----------------------------------------------------------------------------
(* sendPreset                                                              *)

\* The cooldown is looked up and set under its own mutex, before anything else is checked.
PassCooldown(h, p, u) ==
    /\ At(h, "rest")
    /\ p \notin used
    /\ ~cooling
    /\ cooling' = TRUE
    /\ used' = used \cup {p}
    /\ handler' = [handler EXCEPT ![h] = [pc |-> "permission", id |-> p, user |-> u]]
    /\ UNCHANGED <<pending, promptHolder, shown, posted, skip, promptFaults>>

\* A guest gets a private preview and no more.
CheckPresetPermission(h) ==
    /\ At(h, "permission")
    /\ Return(h) \/ Proceed(h, "preference")
    /\ UNCHANGED <<used, pending, promptHolder, shown, posted, cooling, skip, promptFaults>>

\* An error of GetUserPresetConfirmationPreference counts as: ask.
ReadPreference(h) ==
    /\ At(h, "preference")
    /\ \/ /\ NoPromptFault
          /\ Proceed(h, IF handler[h].user \in skip THEN "direct" ELSE "insert")
       \/ PromptFault /\ Proceed(h, "insert")
    /\ UNCHANGED <<used, pending, promptHolder, shown, posted, cooling, skip>>

\* The message that is posted at once is no prompt, so posted does not count it.
SendDirectly(h) ==
    /\ At(h, "direct")
    /\ Return(h)
    /\ UNCHANGED <<used, pending, promptHolder, shown, posted, cooling, skip, promptFaults>>

\* The entry is there before the buttons that refer to it.
InsertPending(h) ==
    /\ At(h, "insert")
    /\ ~Locked
    /\ pending' = pending \cup {[id |-> handler[h].id, user |-> handler[h].user, age |-> 0]}
    /\ Proceed(h, "ask")
    /\ UNCHANGED <<used, promptHolder, shown, posted, cooling, skip, promptFaults>>

\* FollowupMessageCreate; a failed call may have shown the prompt all the same.
AskForConfirmation(h) ==
    /\ At(h, "ask")
    /\ LET prompt == <<handler[h].id, handler[h].user>>
       IN  \/ /\ shown' = shown \cup {prompt}
              /\ Return(h)
              /\ NoPromptFault
           \/ /\ shown' \in {shown, shown \cup {prompt}}
              /\ Proceed(h, "withdraw")
              /\ PromptFault
    /\ UNCHANGED <<used, pending, promptHolder, posted, cooling, skip>>

WithdrawPending(h) ==
    /\ At(h, "withdraw")
    /\ ~Locked
    /\ pending' = WithoutEntry(handler[h].id)
    /\ Return(h)
    /\ UNCHANGED <<used, promptHolder, shown, posted, cooling, skip, promptFaults>>
-----------------------------------------------------------------------------
(* HandlePresetConfirmationInteraction                                     *)

\* The buttons stay on the screen, so a member may click as often as Discord lets them.
ClickButton(h, prompt, button) ==
    /\ At(h, "rest")
    /\ handler' = [handler EXCEPT ![h] =
                      [pc |-> "enter", id |-> prompt[1], user |-> prompt[2], button |-> button]]
    /\ UNCHANGED <<used, pending, promptHolder, shown, posted, cooling, skip, promptFaults>>

Missing(h) == ~\E e \in Entry(handler[h].id) : e.user = handler[h].user

\* The click that finds the entry deletes it; the mutex is kept across the call that follows.
EnterConfirmation(h) ==
    /\ At(h, "enter")
    /\ ~Locked
    /\ promptHolder' = h
    /\ IF Missing(h)
       THEN Proceed(h, "refuse") /\ UNCHANGED pending
       ELSE /\ pending' = WithoutEntry(handler[h].id)
            /\ Proceed(h, CASE handler[h].button = "cancel" -> "respond"
                            [] handler[h].button = "confirm" -> "send"
                            [] handler[h].button = "disable" -> "ack")
    /\ UNCHANGED <<used, shown, posted, cooling, skip, promptFaults>>

RefuseWithoutUnlock(h) ==
    /\ At(h, "refuse")
    /\ Return(h)
    /\ UNCHANGED <<used, pending, promptHolder, shown, posted, cooling, skip, promptFaults>>

\* Somebody else's prompt, or one whose entry is gone: a note, and the buttons stay.
RefuseAndUnlock(h) ==
    /\ At(h, "refuse")
    /\ promptHolder' = "nobody"
    /\ Return(h)
    /\ UNCHANGED <<used, pending, shown, posted, cooling, skip, promptFaults>>

SendConfirmed(h) ==
    /\ At(h, "send")
    /\ PostMessage(handler[h].id)
    /\ Proceed(h, "respond")
    /\ UNCHANGED <<used, pending, promptHolder, shown, cooling, skip>>

\* The answer to the click; then the deferred Unlock.  The prompt loses its buttons if the
\* answer arrives.
RespondAndUnlock(h) ==
    /\ At(h, "respond")
    /\ promptHolder' = "nobody"
    /\ Return(h)
    /\ \/ shown' = {s \in shown : s[1] # handler[h].id} /\ NoPromptFault
       \/ UNCHANGED shown /\ PromptFault
    /\ UNCHANGED <<used, pending, posted, cooling, skip>>

\* Without the acknowledgement nothing is posted and the preference is not saved; with it
\* a goroutine goes on without the mutex.
AcknowledgeAndUnlock(h) ==
    /\ At(h, "ack")
    /\ promptHolder' = "nobody"
    /\ \/ Proceed(h, "prefer") /\ NoPromptFault
       \/ Return(h) /\ PromptFault
    /\ UNCHANGED <<used, pending, shown, posted, cooling, skip>>

SavePreference(h) ==
    /\ At(h, "prefer")
    /\ \/ skip' = skip \cup {handler[h].user} /\ NoPromptFault
       \/ UNCHANGED skip /\ PromptFault
    /\ Proceed(h, "sendLater")
    /\ UNCHANGED <<used, pending, promptHolder, shown, posted, cooling>>

SendAfterDisable(h) ==
    /\ At(h, "sendLater")
    /\ PostMessage(handler[h].id)
    /\ Return(h)
    /\ shown' \in {shown, {s \in shown : s[1] # handler[h].id}}
    /\ UNCHANGED <<used, pending, promptHolder, cooling, skip>>
-----------------------------------------------------------------------------
(* Time, and the end of the process                                        *)

Older(e) == [e EXCEPT !.age = IF @ > Lifetime THEN @ ELSE @ + 1]

PromptTick ==
    /\ cooling \/ \E e \in pending : e.age <= Lifetime
    /\ cooling' = FALSE
    /\ pending' = {Older(e) : e \in pending}
    /\ UNCHANGED <<used, promptHolder, shown, posted, skip, handler, promptFaults>>

\* The sweep waits for the mutex like any other.
CleanupExpiredPresets ==
    /\ ~Locked
    /\ \E e \in pending : e.age > Lifetime
    /\ pending' = {e \in pending : e.age <= Lifetime}
    /\ UNCHANGED <<used, promptHolder, shown, posted, cooling, skip, handler, promptFaults>>

PresetRestart ==
    /\ PromptFault
    /\ pending' = {}
    /\ promptHolder' = "nobody"
    /\ cooling' = FALSE
    /\ handler' = [h \in Handlers |-> Resting]
    /\ UNCHANGED <<used, shown, posted, skip>>

HandlerStep(h) ==
    \/ CheckPresetPermission(h) \/ ReadPreference(h) \/ SendDirectly(h)
    \/ InsertPending(h) \/ AskForConfirmation(h) \/ WithdrawPending(h)
    \/ EnterConfirmation(h) \/ RefuseAndUnlock(h) \/ SendConfirmed(h) \/ RespondAndUnlock(h)
    \/ AcknowledgeAndUnlock(h) \/ SavePreference(h) \/ SendAfterDisable(h)

PresetNext ==
    \/ \E h \in Handlers : HandlerStep(h)
    \/ \E h \in Handlers, p \in Prompts, u \in Members : PassCooldown(h, p, u)
    \/ \E h \in Handlers, s \in shown, b \in Button : ClickButton(h, s, b)
    \/ PromptTick
    \/ CleanupExpiredPresets
    \/ PresetRestart

\* Calls return, with an answer or a timeout, and a goroutine that waits for a mutex of Go
\* gets it in the end: after a millisecond the mutex is handed over in the order of arrival.
PresetFairness == \A h \in Handlers : SF_presetVars(HandlerStep(h))

PresetSpec == PresetInit /\ [][PresetNext]_presetVars /\ PresetFairness
-----------------------------------------------------------------------------
(* Properties                                                              *)

Waiting(p) == \E h \in Handlers :
    handler[h].pc \in {"permission", "preference", "direct", "insert"} /\ handler[h].id = p
Taken(p) == \E h \in Handlers :
    handler[h].pc \in {"ack", "send", "prefer", "sendLater"} /\ handler[h].id = p

\* The stage of a prompt as the state of the process shows it.
PromptStage == [p \in Prompts |->
    IF posted[p] > 0                    THEN "posted"
    ELSE IF Taken(p)                    THEN "taken"
    ELSE IF Entry(p) # {}               THEN "open"
    ELSE IF p \notin used \/ Waiting(p) THEN "none"
    ELSE "dropped"]

P == INSTANCE Prompt WITH stage <- PromptStage, posts <- posted

\* The handlers implement the prompt: however often and by whomever the buttons are
\* clicked, whatever fails and whenever the process ends, the message of a prompt is posted
\* at most once, after one click took the entry, and never after a cancellation or the
\* sweep; and a click that took an entry ends (HandlePresetConfirmationInteraction, the
\* sweep in bot.go).
ConfirmationIsAPrompt == P!Spec

\* Every click is answered or comes to nothing at an end of the process: the mutex, which
\* one handler keeps across its calls to Discord while the others and the sweep wait, is
\* always given back.
EveryClickEnds == \A h \in Handlers : At(h, "enter") ~> At(h, "rest")
=============================================================================
