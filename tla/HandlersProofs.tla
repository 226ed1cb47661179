--------------------------- MODULE HandlersProofs ---------------------------
(***************************************************************************)
(* Safety of the handlers that ask before they act, for any members,       *)
(* prompts, goroutines, faults and bounds of time: the preset commands and *)
(* the quick punishment take the steps of a prompt (module Prompt), and no *)
(* others.                                                                 *)
(***************************************************************************)
EXTENDS MCHandlers, UserDBProofs, TLAPS

-----------------------------------------------------------------------------
(* Presets: the invariant                                                  *)

\* A goroutine decides about the message of p: the command before it asks, or the click that
\* took the entry.
Decides(h, p) ==
    /\ handler[h].pc \in {"permission", "preference", "direct", "insert",
                          "ack", "send", "prefer", "sendLater"}
    /\ handler[h].id = p

\* Nothing is known of a prompt before its command has passed the cooldown.
UnusedIsFresh == \A p \in Prompts \ used :
    Entry(p) = {} /\ posted[p] = 0 /\ \A h \in Handlers : ~ Decides(h, p)

\* One goroutine decides about a prompt, or the entry is there for a click to take, and the
\* message is posted when neither is left.
OneDecides == \A p \in Prompts, h \in Handlers : Decides(h, p) =>
    Entry(p) = {} /\ posted[p] = 0 /\ \A k \in Handlers : Decides(k, p) => k = h
EntryBeforePost == \A p \in Prompts : Entry(p) # {} => posted[p] = 0
PostedOnce == \A p \in Prompts : posted[p] <= 1

PresetIInv == PresetTypeOK /\ UnusedIsFresh /\ OneDecides /\ EntryBeforePost /\ PostedOnce

\* It holds when the bot starts for the first time.
LEMMA InitPresetIInv == PresetInit => PresetIInv
<1> SUFFICES ASSUME PresetInit PROVE PresetIInv
  OBVIOUS
<1>1. PresetTypeOK
  <2>1. promptFaults \in 0..MaxPromptFaults
    BY PromptBoundAssumption DEF PresetInit
  <2>2. posted \in [Prompts -> 0..2] /\ handler \in [Handlers -> {Resting} \cup Command \cup Click]
    BY DEF PresetInit
  <2> QED BY <2>1, <2>2 DEF PresetInit, PresetTypeOK
<1>2. \A h \in Handlers : handler[h].pc = "rest"
  BY DEF PresetInit, Resting
<1>3. \A p \in Prompts : Entry(p) = {} /\ posted[p] = 0
  BY DEF PresetInit, Entry
<1> QED BY <1>1, <1>2, <1>3 DEF PresetIInv, UnusedIsFresh, OneDecides, EntryBeforePost, PostedOnce,
   Decides

\* What a goroutine that is not at rest works on.
LEMMA AtWork ==
    ASSUME PresetTypeOK, NEW h \in Handlers, handler[h].pc # "rest"
    PROVE  handler[h] \in Command \cup Click /\ handler[h].id \in Prompts /\ handler[h].user \in Members
BY DEF PresetTypeOK, Resting, Command, Click

\* The steps of a goroutine keep the record of its locals in one of its types.
LEMMA HandlerTypes ==
    ASSUME PresetTypeOK, NEW h \in Handlers
    PROVE  /\ Return(h) => handler' \in [Handlers -> {Resting} \cup Command \cup Click]
           /\ \A pc \in {"permission", "preference", "direct", "insert", "ask", "withdraw"} :
                 handler[h] \in Command /\ Proceed(h, pc) =>
                    handler' \in [Handlers -> {Resting} \cup Command \cup Click]
           /\ \A pc \in {"enter", "refuse", "respond", "ack", "send", "prefer", "sendLater"} :
                 handler[h] \in Click /\ Proceed(h, pc) =>
                    handler' \in [Handlers -> {Resting} \cup Command \cup Click]
BY DEF PresetTypeOK, Return, Proceed, Command, Click

\* The message of a prompt that has none yet is posted once.
LEMMA PostOnce ==
    ASSUME PresetTypeOK, NEW p \in Prompts, posted[p] = 0, PostMessage(p)
    PROVE  \/ posted' = posted
           \/ posted' = [posted EXCEPT ![p] = 1]
BY DEF PresetTypeOK, PostMessage

\* The faults stay within their bound.
LEMMA PromptFaultTypes ==
    ASSUME PresetTypeOK, PromptFault \/ NoPromptFault
    PROVE  promptFaults' \in 0..MaxPromptFaults
BY PromptBoundAssumption DEF PresetTypeOK, PromptFault, NoPromptFault

\* sendPreset begins with a prompt that nobody has used.
LEMMA PassCooldownIInv ==
    ASSUME PresetIInv, NEW h \in Handlers, NEW p \in Prompts, NEW u \in Members, PassCooldown(h, p, u)
    PROVE  PresetIInv'
<1>0. PresetTypeOK /\ UnusedIsFresh /\ OneDecides /\ EntryBeforePost /\ PostedOnce
  BY DEF PresetIInv
<1>2. PresetTypeOK'
  BY <1>0, HandlerTypes, PromptFaultTypes DEF PassCooldown, At, Command, PresetTypeOK
<1>3. UnusedIsFresh'
  BY <1>0 DEF PassCooldown, At, Command, PresetTypeOK, UnusedIsFresh, Entry, Decides
<1>4. OneDecides'
  BY <1>0 DEF PassCooldown, At, Command, PresetTypeOK, UnusedIsFresh, OneDecides, Entry, Decides
<1>5. EntryBeforePost' /\ PostedOnce'
  BY <1>0 DEF PassCooldown, At, Command, PresetTypeOK, EntryBeforePost, PostedOnce, OneDecides,
     Entry, Decides
<1> QED BY <1>2, <1>3, <1>4, <1>5 DEF PresetIInv

\* A click decides nothing until it has found the entry.
LEMMA ClickIInv ==
    ASSUME PresetIInv, NEW h \in Handlers, NEW s \in shown, NEW b \in Button, ClickButton(h, s, b)
    PROVE  PresetIInv'
<1>0. PresetTypeOK /\ UnusedIsFresh /\ OneDecides /\ EntryBeforePost /\ PostedOnce
  BY DEF PresetIInv
<1>2. PresetTypeOK'
  BY <1>0, HandlerTypes, PromptFaultTypes DEF ClickButton, At, Click, Button, PresetTypeOK
<1>3. UnusedIsFresh'
  BY <1>0 DEF ClickButton, At, Click, Button, PresetTypeOK, UnusedIsFresh, Entry, Decides
<1>4. OneDecides'
  BY <1>0 DEF ClickButton, At, Click, Button, PresetTypeOK, UnusedIsFresh, OneDecides, Entry, Decides
<1>5. EntryBeforePost' /\ PostedOnce'
  BY <1>0 DEF ClickButton, At, Click, Button, PresetTypeOK, EntryBeforePost, PostedOnce, OneDecides,
     Entry, Decides
<1> QED BY <1>2, <1>3, <1>4, <1>5 DEF PresetIInv

\* A guest is shown a preview, and nobody decides any more.
LEMMA CheckPresetPermissionIInv ==
    ASSUME PresetIInv, NEW h \in Handlers, CheckPresetPermission(h)
    PROVE  PresetIInv'
<1>0. PresetTypeOK /\ UnusedIsFresh /\ OneDecides /\ EntryBeforePost /\ PostedOnce
  BY DEF PresetIInv
<1>1. handler[h] \in Command \cup Click /\ handler[h].id \in Prompts /\ handler[h].user \in Members
  BY <1>0, AtWork DEF CheckPresetPermission, At
<1>2. PresetTypeOK'
  BY <1>0, HandlerTypes, PromptFaultTypes, <1>1 DEF CheckPresetPermission, Proceed, Return, At,
     Resting, Command, Click, PresetTypeOK
<1>3. UnusedIsFresh'
  BY <1>0, <1>1 DEF CheckPresetPermission, Proceed, Return, At, Resting, Command, Click,
     PresetTypeOK, UnusedIsFresh, Entry, Decides
<1>4. OneDecides'
  BY <1>0, <1>1 DEF CheckPresetPermission, Proceed, Return, At, Resting, Command, Click,
     PresetTypeOK, UnusedIsFresh, OneDecides, Entry, Decides
<1>5. EntryBeforePost' /\ PostedOnce'
  BY <1>0, <1>1 DEF CheckPresetPermission, Proceed, Return, At, Resting, Command, Click,
     PresetTypeOK, EntryBeforePost, PostedOnce, OneDecides, Entry, Decides
<1> QED BY <1>2, <1>3, <1>4, <1>5 DEF PresetIInv

\* Whoever asked not to be asked is not.
LEMMA ReadPreferenceIInv ==
    ASSUME PresetIInv, NEW h \in Handlers, ReadPreference(h)
    PROVE  PresetIInv'
<1>0. PresetTypeOK /\ UnusedIsFresh /\ OneDecides /\ EntryBeforePost /\ PostedOnce
  BY DEF PresetIInv
<1>1. handler[h] \in Command \cup Click /\ handler[h].id \in Prompts /\ handler[h].user \in Members
  BY <1>0, AtWork DEF ReadPreference, At
<1>2. PresetTypeOK'
  BY <1>0, HandlerTypes, PromptFaultTypes, <1>1 DEF ReadPreference, Proceed, Return, At, Resting,
     Command, Click, PresetTypeOK
<1>3. UnusedIsFresh'
  BY <1>0, <1>1 DEF ReadPreference, Proceed, At, Resting, Command, Click, PresetTypeOK,
     UnusedIsFresh, Entry, Decides
<1>4. OneDecides'
  BY <1>0, <1>1 DEF ReadPreference, Proceed, At, Resting, Command, Click, PresetTypeOK,
     UnusedIsFresh, OneDecides, Entry, Decides
<1>5. EntryBeforePost' /\ PostedOnce'
  BY <1>0, <1>1 DEF ReadPreference, Proceed, At, Resting, Command, Click, PresetTypeOK,
     EntryBeforePost, PostedOnce, OneDecides, Entry, Decides
<1> QED BY <1>2, <1>3, <1>4, <1>5 DEF PresetIInv

\* The message that needs no confirmation is no message of the prompt.
LEMMA SendDirectlyIInv ==
    ASSUME PresetIInv, NEW h \in Handlers, SendDirectly(h)
    PROVE  PresetIInv'
<1>0. PresetTypeOK /\ UnusedIsFresh /\ OneDecides /\ EntryBeforePost /\ PostedOnce
  BY DEF PresetIInv
<1>1. handler[h] \in Command \cup Click /\ handler[h].id \in Prompts /\ handler[h].user \in Members
  BY <1>0, AtWork DEF SendDirectly, At
<1>2. PresetTypeOK'
  BY <1>0, HandlerTypes, PromptFaultTypes, <1>1 DEF SendDirectly, Proceed, Return, At, Resting,
     Command, Click, PresetTypeOK
<1>3. UnusedIsFresh'
  BY <1>0, <1>1 DEF SendDirectly, Return, At, Resting, Command, Click, PresetTypeOK, UnusedIsFresh,
     Entry, Decides
<1>4. OneDecides'
  BY <1>0, <1>1 DEF SendDirectly, Return, At, Resting, Command, Click, PresetTypeOK, UnusedIsFresh,
     OneDecides, Entry, Decides
<1>5. EntryBeforePost' /\ PostedOnce'
  BY <1>0, <1>1 DEF SendDirectly, Return, At, Resting, Command, Click, PresetTypeOK,
     EntryBeforePost, PostedOnce, OneDecides, Entry, Decides
<1> QED BY <1>2, <1>3, <1>4, <1>5 DEF PresetIInv

\* The entry takes over from the command.
LEMMA InsertPendingIInv ==
    ASSUME PresetIInv, NEW h \in Handlers, InsertPending(h)
    PROVE  PresetIInv'
<1>0. PresetTypeOK /\ UnusedIsFresh /\ OneDecides /\ EntryBeforePost /\ PostedOnce
  BY DEF PresetIInv
<1>1. handler[h] \in Command \cup Click /\ handler[h].id \in Prompts /\ handler[h].user \in Members
  BY <1>0, AtWork DEF InsertPending, At
<1>6. [id |-> handler[h].id, user |-> handler[h].user, age |-> 0] \in PendingPreset
  BY <1>1, LifetimeAssumption DEF PendingPreset
<1>2. PresetTypeOK'
  BY <1>0, <1>6, HandlerTypes, PromptFaultTypes, <1>1 DEF InsertPending, Proceed, Return, At,
     Resting, Command, Click, PresetTypeOK
<1>3. UnusedIsFresh'
  BY <1>0, <1>6, <1>1 DEF InsertPending, Proceed, At, Resting, Command, Click, PresetTypeOK,
     UnusedIsFresh, Entry, Decides
<1>4. OneDecides'
  BY <1>0, <1>6, <1>1 DEF InsertPending, Proceed, At, Resting, Command, Click, PresetTypeOK,
     UnusedIsFresh, OneDecides, Entry, Decides
<1>5. EntryBeforePost' /\ PostedOnce'
  BY <1>0, <1>6, <1>1 DEF InsertPending, Proceed, At, Resting, Command, Click, PresetTypeOK,
     EntryBeforePost, PostedOnce, OneDecides, Entry, Decides
<1> QED BY <1>2, <1>3, <1>4, <1>5 DEF PresetIInv

\* The prompt is shown to whom the entry names.
LEMMA AskForConfirmationIInv ==
    ASSUME PresetIInv, NEW h \in Handlers, AskForConfirmation(h)
    PROVE  PresetIInv'
<1>0. PresetTypeOK /\ UnusedIsFresh /\ OneDecides /\ EntryBeforePost /\ PostedOnce
  BY DEF PresetIInv
<1>1. handler[h] \in Command \cup Click /\ handler[h].id \in Prompts /\ handler[h].user \in Members
  BY <1>0, AtWork DEF AskForConfirmation, At
<1>2. PresetTypeOK'
  BY <1>0, HandlerTypes, PromptFaultTypes, <1>1 DEF AskForConfirmation, Proceed, Return, At,
     Resting, Command, Click, PresetTypeOK
<1>3. UnusedIsFresh'
  BY <1>0, <1>1 DEF AskForConfirmation, Proceed, Return, At, Resting, Command, Click, PresetTypeOK,
     UnusedIsFresh, Entry, Decides
<1>4. OneDecides'
  BY <1>0, <1>1 DEF AskForConfirmation, Proceed, Return, At, Resting, Command, Click, PresetTypeOK,
     UnusedIsFresh, OneDecides, Entry, Decides
<1>5. EntryBeforePost' /\ PostedOnce'
  BY <1>0, <1>1 DEF AskForConfirmation, Proceed, Return, At, Resting, Command, Click, PresetTypeOK,
     EntryBeforePost, PostedOnce, OneDecides, Entry, Decides
<1> QED BY <1>2, <1>3, <1>4, <1>5 DEF PresetIInv

\* An entry without a prompt is taken back.
LEMMA WithdrawPendingIInv ==
    ASSUME PresetIInv, NEW h \in Handlers, WithdrawPending(h)
    PROVE  PresetIInv'
<1>0. PresetTypeOK /\ UnusedIsFresh /\ OneDecides /\ EntryBeforePost /\ PostedOnce
  BY DEF PresetIInv
<1>1. handler[h] \in Command \cup Click /\ handler[h].id \in Prompts /\ handler[h].user \in Members
  BY <1>0, AtWork DEF WithdrawPending, WithoutEntry, Entry, At
<1>2. PresetTypeOK'
  BY <1>0, HandlerTypes, PromptFaultTypes, <1>1 DEF WithdrawPending, WithoutEntry, Entry, Proceed,
     Return, At, Resting, Command, Click, PresetTypeOK
<1>3. UnusedIsFresh'
  BY <1>0, <1>1 DEF WithdrawPending, WithoutEntry, Entry, Return, At, Resting, Command, Click,
     PresetTypeOK, UnusedIsFresh, Decides
<1>4. OneDecides'
  BY <1>0, <1>1 DEF WithdrawPending, WithoutEntry, Entry, Return, At, Resting, Command, Click,
     PresetTypeOK, UnusedIsFresh, OneDecides, Decides
<1>5. EntryBeforePost' /\ PostedOnce'
  BY <1>0, <1>1 DEF WithdrawPending, WithoutEntry, Entry, Return, At, Resting, Command, Click,
     PresetTypeOK, EntryBeforePost, PostedOnce, OneDecides, Decides
<1> QED BY <1>2, <1>3, <1>4, <1>5 DEF PresetIInv

\* One click takes the entry over.
LEMMA EnterConfirmationIInv ==
    ASSUME PresetIInv, NEW h \in Handlers, EnterConfirmation(h)
    PROVE  PresetIInv'
<1>0. PresetTypeOK /\ UnusedIsFresh /\ OneDecides /\ EntryBeforePost /\ PostedOnce
  BY DEF PresetIInv
<1>1. handler[h] \in Command \cup Click /\ handler[h].id \in Prompts /\ handler[h].user \in Members
  BY <1>0, AtWork DEF EnterConfirmation, At
<1>6. pending' \subseteq pending /\ posted' = posted /\ used' = used
  BY DEF EnterConfirmation, WithoutEntry
<1>7. \A k \in Handlers \ {h} : handler'[k] = handler[k]
  BY <1>0 DEF EnterConfirmation, Proceed, PresetTypeOK
<1>8. \/ handler'[h].pc \in {"refuse", "respond"}
      \/ /\ handler'[h].pc \in {"send", "ack"} /\ handler'[h].id = handler[h].id
         /\ Entry(handler[h].id) # {} /\ pending' = WithoutEntry(handler[h].id)
  <2>1. handler[h] \in Click
    BY <1>1 DEF EnterConfirmation, At, Command
  <2>2. \A pc : Proceed(h, pc) => handler'[h].pc = pc /\ handler'[h].id = handler[h].id
    BY <1>0, <2>1 DEF Proceed, PresetTypeOK, Click
  <2>3. CASE Missing(h)
    BY <2>2, <2>3 DEF EnterConfirmation
  <2>4. CASE ~ Missing(h)
    <3>1. Entry(handler[h].id) # {}
      BY <2>4 DEF Missing
    <3>2. Proceed(h, "respond") \/ Proceed(h, "send") \/ Proceed(h, "ack")
      BY <2>1, <2>4 DEF EnterConfirmation, Click, Button
    <3> QED BY <2>2, <2>4, <3>1, <3>2 DEF EnterConfirmation
  <2> QED BY <2>3, <2>4
<1>9. handler' \in [Handlers -> {Resting} \cup Command \cup Click]
  <2>1. handler[h] \in Click
    BY <1>1 DEF EnterConfirmation, At, Command
  <2>2. \E pc \in {"refuse", "respond", "send", "ack"} : Proceed(h, pc)
    BY <2>1 DEF EnterConfirmation, Click, Button
  <2> QED BY <1>0, <2>1, <2>2, HandlerTypes
<1>10. ASSUME NEW p \in Prompts, NEW k \in Handlers, Decides(k, p)'
       PROVE  Decides(k, p) \/ (/\ k = h /\ p = handler[h].id
                                /\ Entry(p) # {} /\ Entry(p)' = {})
  BY <1>7, <1>8, <1>10 DEF Decides, Entry, WithoutEntry
<1>11. \A p \in Prompts : Entry(p)' \subseteq Entry(p)
  BY <1>6 DEF Entry
<1>2. PresetTypeOK'
  BY <1>0, <1>6, <1>9 DEF EnterConfirmation, PresetTypeOK
<1>3. UnusedIsFresh'
  BY <1>0, <1>6, <1>10, <1>11 DEF UnusedIsFresh
<1>4. OneDecides'
  BY <1>0, <1>6, <1>10, <1>11 DEF OneDecides, EntryBeforePost
<1>5. EntryBeforePost' /\ PostedOnce'
  BY <1>0, <1>6, <1>11 DEF EntryBeforePost, PostedOnce
<1> QED BY <1>2, <1>3, <1>4, <1>5 DEF PresetIInv

\* A click that found no entry changes nothing.
LEMMA RefuseAndUnlockIInv ==
    ASSUME PresetIInv, NEW h \in Handlers, RefuseAndUnlock(h)
    PROVE  PresetIInv'
<1>0. PresetTypeOK /\ UnusedIsFresh /\ OneDecides /\ EntryBeforePost /\ PostedOnce
  BY DEF PresetIInv
<1>1. handler[h] \in Command \cup Click /\ handler[h].id \in Prompts /\ handler[h].user \in Members
  BY <1>0, AtWork DEF RefuseAndUnlock, At
<1>2. PresetTypeOK'
  BY <1>0, HandlerTypes, PromptFaultTypes, <1>1 DEF RefuseAndUnlock, Proceed, Return, At, Resting,
     Command, Click, PresetTypeOK
<1>3. UnusedIsFresh'
  BY <1>0, <1>1 DEF RefuseAndUnlock, Return, At, Resting, Command, Click, PresetTypeOK,
     UnusedIsFresh, Entry, Decides
<1>4. OneDecides'
  BY <1>0, <1>1 DEF RefuseAndUnlock, Return, At, Resting, Command, Click, PresetTypeOK,
     UnusedIsFresh, OneDecides, Entry, Decides
<1>5. EntryBeforePost' /\ PostedOnce'
  BY <1>0, <1>1 DEF RefuseAndUnlock, Return, At, Resting, Command, Click, PresetTypeOK,
     EntryBeforePost, PostedOnce, OneDecides, Entry, Decides
<1> QED BY <1>2, <1>3, <1>4, <1>5 DEF PresetIInv

\* The click that took the entry posts the message.
LEMMA SendConfirmedIInv ==
    ASSUME PresetIInv, NEW h \in Handlers, SendConfirmed(h)
    PROVE  PresetIInv'
<1>0. PresetTypeOK /\ UnusedIsFresh /\ OneDecides /\ EntryBeforePost /\ PostedOnce
  BY DEF PresetIInv
<1>1. handler[h] \in Command \cup Click /\ handler[h].id \in Prompts /\ handler[h].user \in Members
  BY <1>0, AtWork DEF SendConfirmed, At
<1>6. Decides(h, handler[h].id)
  BY <1>1 DEF SendConfirmed, At, Decides
<1>7. posted[handler[h].id] = 0 /\ PostMessage(handler[h].id)
  BY <1>0, <1>1, <1>6 DEF SendConfirmed, OneDecides
<1>8. posted' = posted \/ posted' = [posted EXCEPT ![handler[h].id] = 1]
  BY <1>0, <1>1, <1>7, PostOnce
<1>9. PromptFault \/ NoPromptFault
  BY <1>7 DEF PostMessage
<1>10. handler[h].id \in used
  BY <1>0, <1>1, <1>6 DEF UnusedIsFresh
<1>11. handler' \in [Handlers -> {Resting} \cup Command \cup Click]
  <2>1. handler[h] \in Click
    BY <1>1 DEF SendConfirmed, At, Command
  <2> QED BY <1>0, <2>1, HandlerTypes DEF SendConfirmed
<1>12. posted' \in [Prompts -> 0..2]
  BY <1>0, <1>1, <1>8 DEF PresetTypeOK
<1>2. PresetTypeOK'
  BY <1>0, <1>9, <1>11, <1>12, PromptFaultTypes DEF SendConfirmed, PresetTypeOK
<1>3. UnusedIsFresh'
  BY <1>0, <1>6, <1>8, <1>9, <1>10, <1>1 DEF SendConfirmed, Proceed, At, Resting, Command, Click,
     PresetTypeOK, UnusedIsFresh, Entry, Decides
<1>4. OneDecides'
  BY <1>0, <1>6, <1>8, <1>9, <1>10, <1>1 DEF SendConfirmed, Proceed, At, Resting, Command, Click,
     PresetTypeOK, UnusedIsFresh, OneDecides, Entry, Decides
<1>5. EntryBeforePost' /\ PostedOnce'
  BY <1>0, <1>6, <1>8, <1>9, <1>10, <1>1 DEF SendConfirmed, Proceed, At, Resting, Command, Click,
     PresetTypeOK, EntryBeforePost, PostedOnce, OneDecides, Entry, Decides
<1> QED BY <1>2, <1>3, <1>4, <1>5 DEF PresetIInv

\* The answer to a click.
LEMMA RespondAndUnlockIInv ==
    ASSUME PresetIInv, NEW h \in Handlers, RespondAndUnlock(h)
    PROVE  PresetIInv'
<1>0. PresetTypeOK /\ UnusedIsFresh /\ OneDecides /\ EntryBeforePost /\ PostedOnce
  BY DEF PresetIInv
<1>1. handler[h] \in Command \cup Click /\ handler[h].id \in Prompts /\ handler[h].user \in Members
  BY <1>0, AtWork DEF RespondAndUnlock, At
<1>2. PresetTypeOK'
  BY <1>0, HandlerTypes, PromptFaultTypes, <1>1 DEF RespondAndUnlock, Proceed, Return, At, Resting,
     Command, Click, PresetTypeOK
<1>3. UnusedIsFresh'
  BY <1>0, <1>1 DEF RespondAndUnlock, Return, At, Resting, Command, Click, PresetTypeOK,
     UnusedIsFresh, Entry, Decides
<1>4. OneDecides'
  BY <1>0, <1>1 DEF RespondAndUnlock, Return, At, Resting, Command, Click, PresetTypeOK,
     UnusedIsFresh, OneDecides, Entry, Decides
<1>5. EntryBeforePost' /\ PostedOnce'
  BY <1>0, <1>1 DEF RespondAndUnlock, Return, At, Resting, Command, Click, PresetTypeOK,
     EntryBeforePost, PostedOnce, OneDecides, Entry, Decides
<1> QED BY <1>2, <1>3, <1>4, <1>5 DEF PresetIInv

\* A click on the third button goes on without the mutex.
LEMMA AcknowledgeAndUnlockIInv ==
    ASSUME PresetIInv, NEW h \in Handlers, AcknowledgeAndUnlock(h)
    PROVE  PresetIInv'
<1>0. PresetTypeOK /\ UnusedIsFresh /\ OneDecides /\ EntryBeforePost /\ PostedOnce
  BY DEF PresetIInv
<1>1. handler[h] \in Command \cup Click /\ handler[h].id \in Prompts /\ handler[h].user \in Members
  BY <1>0, AtWork DEF AcknowledgeAndUnlock, At
<1>2. PresetTypeOK'
  BY <1>0, HandlerTypes, PromptFaultTypes, <1>1 DEF AcknowledgeAndUnlock, Proceed, Return, At,
     Resting, Command, Click, PresetTypeOK
<1>3. UnusedIsFresh'
  BY <1>0, <1>1 DEF AcknowledgeAndUnlock, Proceed, Return, At, Resting, Command, Click,
     PresetTypeOK, UnusedIsFresh, Entry, Decides
<1>4. OneDecides'
  BY <1>0, <1>1 DEF AcknowledgeAndUnlock, Proceed, Return, At, Resting, Command, Click,
     PresetTypeOK, UnusedIsFresh, OneDecides, Entry, Decides
<1>5. EntryBeforePost' /\ PostedOnce'
  BY <1>0, <1>1 DEF AcknowledgeAndUnlock, Proceed, Return, At, Resting, Command, Click,
     PresetTypeOK, EntryBeforePost, PostedOnce, OneDecides, Entry, Decides
<1> QED BY <1>2, <1>3, <1>4, <1>5 DEF PresetIInv

\* The preference is saved, or is not.
LEMMA SavePreferenceIInv ==
    ASSUME PresetIInv, NEW h \in Handlers, SavePreference(h)
    PROVE  PresetIInv'
<1>0. PresetTypeOK /\ UnusedIsFresh /\ OneDecides /\ EntryBeforePost /\ PostedOnce
  BY DEF PresetIInv
<1>1. handler[h] \in Command \cup Click /\ handler[h].id \in Prompts /\ handler[h].user \in Members
  BY <1>0, AtWork DEF SavePreference, At
<1>2. PresetTypeOK'
  BY <1>0, HandlerTypes, PromptFaultTypes, <1>1 DEF SavePreference, Proceed, Return, At, Resting,
     Command, Click, PresetTypeOK
<1>3. UnusedIsFresh'
  BY <1>0, <1>1 DEF SavePreference, Proceed, At, Resting, Command, Click, PresetTypeOK,
     UnusedIsFresh, Entry, Decides
<1>4. OneDecides'
  BY <1>0, <1>1 DEF SavePreference, Proceed, At, Resting, Command, Click, PresetTypeOK,
     UnusedIsFresh, OneDecides, Entry, Decides
<1>5. EntryBeforePost' /\ PostedOnce'
  BY <1>0, <1>1 DEF SavePreference, Proceed, At, Resting, Command, Click, PresetTypeOK,
     EntryBeforePost, PostedOnce, OneDecides, Entry, Decides
<1> QED BY <1>2, <1>3, <1>4, <1>5 DEF PresetIInv

\* The goroutine of the third button posts the message.
LEMMA SendAfterDisableIInv ==
    ASSUME PresetIInv, NEW h \in Handlers, SendAfterDisable(h)
    PROVE  PresetIInv'
<1>0. PresetTypeOK /\ UnusedIsFresh /\ OneDecides /\ EntryBeforePost /\ PostedOnce
  BY DEF PresetIInv
<1>1. handler[h] \in Command \cup Click /\ handler[h].id \in Prompts /\ handler[h].user \in Members
  BY <1>0, AtWork DEF SendAfterDisable, At
<1>6. Decides(h, handler[h].id)
  BY <1>1 DEF SendAfterDisable, At, Decides
<1>7. posted[handler[h].id] = 0 /\ PostMessage(handler[h].id)
  BY <1>0, <1>1, <1>6 DEF SendAfterDisable, OneDecides
<1>8. posted' = posted \/ posted' = [posted EXCEPT ![handler[h].id] = 1]
  BY <1>0, <1>1, <1>7, PostOnce
<1>9. PromptFault \/ NoPromptFault
  BY <1>7 DEF PostMessage
<1>10. handler[h].id \in used
  BY <1>0, <1>1, <1>6 DEF UnusedIsFresh
<1>11. handler' \in [Handlers -> {Resting} \cup Command \cup Click]
  <2>1. handler[h] \in Click
    BY <1>1 DEF SendAfterDisable, At, Command
  <2> QED BY <1>0, <2>1, HandlerTypes DEF SendAfterDisable
<1>12. posted' \in [Prompts -> 0..2]
  BY <1>0, <1>1, <1>8 DEF PresetTypeOK
<1>2. PresetTypeOK'
  BY <1>0, <1>9, <1>11, <1>12, PromptFaultTypes DEF SendAfterDisable, PresetTypeOK
<1>3. UnusedIsFresh'
  BY <1>0, <1>6, <1>8, <1>9, <1>10, <1>1 DEF SendAfterDisable, Return, At, Resting, Command, Click,
     PresetTypeOK, UnusedIsFresh, Entry, Decides
<1>4. OneDecides'
  BY <1>0, <1>6, <1>8, <1>9, <1>10, <1>1 DEF SendAfterDisable, Return, At, Resting, Command, Click,
     PresetTypeOK, UnusedIsFresh, OneDecides, Entry, Decides
<1>5. EntryBeforePost' /\ PostedOnce'
  BY <1>0, <1>6, <1>8, <1>9, <1>10, <1>1 DEF SendAfterDisable, Return, At, Resting, Command, Click,
     PresetTypeOK, EntryBeforePost, PostedOnce, OneDecides, Entry, Decides
<1> QED BY <1>2, <1>3, <1>4, <1>5 DEF PresetIInv

\* Time passes, and old entries go.
LEMMA PresetSweepIInv ==
    ASSUME PresetIInv, PromptTick \/ CleanupExpiredPresets
    PROVE  PresetIInv'
<1>0. PresetTypeOK /\ UnusedIsFresh /\ OneDecides /\ EntryBeforePost /\ PostedOnce
  BY DEF PresetIInv
<1>1. pending' \subseteq PendingPreset
  <2>1. \A e \in PendingPreset : Older(e) \in PendingPreset
    BY LifetimeAssumption DEF Older, PendingPreset
  <2> QED BY <1>0, <2>1 DEF PromptTick, CleanupExpiredPresets, PresetTypeOK
<1>2. PresetTypeOK'
  BY <1>0, <1>1, HandlerTypes, PromptFaultTypes, LifetimeAssumption DEF PromptTick,
     CleanupExpiredPresets, Older, PendingPreset, PresetTypeOK
<1>3. UnusedIsFresh'
  BY <1>0, <1>1, LifetimeAssumption DEF PromptTick, CleanupExpiredPresets, Older, PendingPreset,
     PresetTypeOK, UnusedIsFresh, Entry, Decides
<1>4. OneDecides'
  BY <1>0, <1>1, LifetimeAssumption DEF PromptTick, CleanupExpiredPresets, Older, PendingPreset,
     PresetTypeOK, UnusedIsFresh, OneDecides, Entry, Decides
<1>5. EntryBeforePost' /\ PostedOnce'
  BY <1>0, <1>1, LifetimeAssumption DEF PromptTick, CleanupExpiredPresets, Older, PendingPreset,
     PresetTypeOK, EntryBeforePost, PostedOnce, OneDecides, Entry, Decides
<1> QED BY <1>2, <1>3, <1>4, <1>5 DEF PresetIInv

\* The process ends, and the entries with it.
LEMMA PresetRestartIInv ==
    ASSUME PresetIInv, PresetRestart
    PROVE  PresetIInv'
<1>0. PresetTypeOK /\ UnusedIsFresh /\ OneDecides /\ EntryBeforePost /\ PostedOnce
  BY DEF PresetIInv
<1>2. PresetTypeOK'
  BY <1>0, HandlerTypes, PromptFaultTypes DEF PresetRestart, Resting, PresetTypeOK
<1>3. UnusedIsFresh'
  BY <1>0 DEF PresetRestart, Resting, PresetTypeOK, UnusedIsFresh, Entry, Decides
<1>4. OneDecides'
  BY <1>0 DEF PresetRestart, Resting, PresetTypeOK, UnusedIsFresh, OneDecides, Entry, Decides
<1>5. EntryBeforePost' /\ PostedOnce'
  BY <1>0 DEF PresetRestart, Resting, PresetTypeOK, EntryBeforePost, PostedOnce, OneDecides, Entry,
     Decides
<1> QED BY <1>2, <1>3, <1>4, <1>5 DEF PresetIInv

\* Every step of the presets keeps the invariant.
LEMMA NextPresetIInv == PresetIInv /\ [PresetNext]_presetVars => PresetIInv'
<1> SUFFICES ASSUME PresetIInv, [PresetNext]_presetVars PROVE PresetIInv'
  OBVIOUS
<1>1. ASSUME NEW h \in Handlers, HandlerStep(h) PROVE PresetIInv'
  BY <1>1, CheckPresetPermissionIInv, ReadPreferenceIInv, SendDirectlyIInv, InsertPendingIInv,
     AskForConfirmationIInv, WithdrawPendingIInv, EnterConfirmationIInv, RefuseAndUnlockIInv,
     SendConfirmedIInv, RespondAndUnlockIInv, AcknowledgeAndUnlockIInv, SavePreferenceIInv,
     SendAfterDisableIInv DEF HandlerStep
<1>2. CASE UNCHANGED presetVars
  BY <1>2 DEF presetVars, PresetIInv, PresetTypeOK, UnusedIsFresh, OneDecides, EntryBeforePost,
     PostedOnce, Entry, Decides
<1> QED BY <1>1, <1>2, PassCooldownIInv, ClickIInv, PresetSweepIInv, PresetRestartIInv DEF PresetNext
-----------------------------------------------------------------------------
(* Presets: the steps of the prompts                                       *)

\* The stage of a prompt, now and after a step.
LEMMA StageOf ==
    ASSUME NEW p \in Prompts
    PROVE  PromptStage[p] = IF posted[p] > 0 THEN "posted" ELSE IF Taken(p) THEN "taken"
                            ELSE IF Entry(p) # {} THEN "open"
                            ELSE IF p \notin used \/ Waiting(p) THEN "none" ELSE "dropped"
BY DEF PromptStage

\* And of the state after a step.
LEMMA StageThen ==
    ASSUME NEW p \in Prompts
    PROVE  PromptStage'[p] = IF posted'[p] > 0 THEN "posted" ELSE IF Taken(p)' THEN "taken"
                             ELSE IF Entry(p)' # {} THEN "open"
                             ELSE IF p \notin used' \/ Waiting(p)' THEN "none" ELSE "dropped"
BY DEF PromptStage

\* What the stage of a prompt depends on stays.
SameStage(p) ==
    /\ posted'[p] = posted[p]
    /\ Taken(p)' <=> Taken(p)
    /\ (Entry(p)' = {}) <=> (Entry(p) = {})
    /\ (p \notin used' \/ Waiting(p)') <=> (p \notin used \/ Waiting(p))

\* A step that touches no prompt is none of the prompts' steps.
LEMMA StagesStay ==
    ASSUME posted' = posted, \A p \in Prompts : SameStage(p)
    PROVE  UNCHANGED P!promptVars
<1>1. \A p \in Prompts : PromptStage'[p] = PromptStage[p]
  BY StageOf, StageThen DEF SameStage
<1>2. PromptStage' = PromptStage
  BY <1>1 DEF PromptStage
<1> QED BY <1>2 DEF P!promptVars

\* A step that touches one prompt changes its stage only.
LEMMA OneStage ==
    ASSUME NEW q \in Prompts, \A p \in Prompts \ {q} : SameStage(p)
    PROVE  PromptStage' = [PromptStage EXCEPT ![q] = PromptStage'[q]]
<1>1. \A p \in Prompts \ {q} : PromptStage'[p] = PromptStage[p]
  BY StageOf, StageThen DEF SameStage
<1> QED BY <1>1 DEF PromptStage

\* A step that touches one prompt and leaves its stage changes none.
LEMMA StageStays ==
    ASSUME NEW q \in Prompts, \A p \in Prompts \ {q} : SameStage(p), PromptStage'[q] = PromptStage[q]
    PROVE  PromptStage' = PromptStage
<1>1. \A p \in Prompts : PromptStage'[p] = PromptStage[p]
  BY StageOf, StageThen DEF SameStage
<1> QED BY <1>1 DEF PromptStage

\* One prompt, or several at once, are dropped.
LEMMA DropsOne ==
    ASSUME NEW q \in Prompts, \A p \in Prompts \ {q} : SameStage(p), posted' = posted,
           PromptStage[q] \in {"none", "open", "taken"}, PromptStage'[q] = "dropped"
    PROVE  P!Next
<1>1. PromptStage' = [p \in Prompts |-> IF p \in {q} THEN "dropped" ELSE PromptStage[p]]
  BY OneStage DEF PromptStage
<1>2. P!Drop({q})
  BY <1>1 DEF P!Drop
<1> QED BY <1>2 DEF P!Next

\* So a step that drops some prompts, and changes nothing else, is one of Prompt.
LEMMA DropsSome ==
    ASSUME posted' = posted,
           \A p \in Prompts : \/ PromptStage'[p] = PromptStage[p]
                              \/ /\ PromptStage[p] \in {"none", "open", "taken"}
                                 /\ PromptStage'[p] = "dropped"
    PROVE  P!Next
<1> DEFINE S == {p \in Prompts : PromptStage'[p] # PromptStage[p]}
<1>1. PromptStage' = [p \in Prompts |-> IF p \in S THEN "dropped" ELSE PromptStage[p]]
  BY DEF PromptStage
<1>2. P!Drop(S)
  BY <1>1 DEF P!Drop
<1> QED BY <1>2 DEF P!Next

\* The handler of one prompt does nothing to the others.
LEMMA OthersStay ==
    ASSUME NEW h \in Handlers, NEW q, \A k \in Handlers \ {h} : handler'[k] = handler[k],
           handler[h].pc # "rest" => handler[h].id = q,
           handler'[h].pc # "rest" => handler'[h].id = q
    PROVE  \A p \in Prompts \ {q} : (Taken(p)' <=> Taken(p)) /\ (Waiting(p)' <=> Waiting(p))
BY DEF Taken, Waiting

\* The stage of a prompt that a goroutine decides about, and of one that none does.
StagesByHolder ==
    /\ \A h \in Handlers, p \in Prompts : Decides(h, p) =>
          PromptStage[p] = IF handler[h].pc \in {"ack", "send", "prefer", "sendLater"}
                           THEN "taken" ELSE "none"
    /\ \A p \in used : (\A h \in Handlers : ~ Decides(h, p)) =>
          PromptStage[p] = IF posted[p] > 0 THEN "posted"
                           ELSE IF Entry(p) # {} THEN "open" ELSE "dropped"

\* The invariant fixes those stages,
LEMMA HolderStages == PresetIInv => StagesByHolder
<1> SUFFICES ASSUME PresetIInv PROVE StagesByHolder
  OBVIOUS
<1>1. ASSUME NEW h \in Handlers, NEW p \in Prompts, Decides(h, p)
      PROVE  PromptStage[p] = IF handler[h].pc \in {"ack", "send", "prefer", "sendLater"}
                              THEN "taken" ELSE "none"
  <2>1. /\ Entry(p) = {} /\ posted[p] = 0
        /\ \A k \in Handlers : Decides(k, p) => k = h
    BY <1>1 DEF PresetIInv, OneDecides
  <2>2. CASE handler[h].pc \in {"ack", "send", "prefer", "sendLater"}
    BY <1>1, <2>1, <2>2, StageOf DEF Taken, Decides
  <2>3. CASE handler[h].pc \notin {"ack", "send", "prefer", "sendLater"}
    <3>1. Waiting(p) /\ ~ Taken(p)
      BY <1>1, <2>1, <2>3 DEF Taken, Waiting, Decides
    <3> QED BY <2>1, <2>3, <3>1, StageOf
  <2> QED BY <2>2, <2>3
<1>2. ASSUME NEW p \in used, \A h \in Handlers : ~ Decides(h, p)
      PROVE  PromptStage[p] = IF posted[p] > 0 THEN "posted"
                              ELSE IF Entry(p) # {} THEN "open" ELSE "dropped"
  <2>1. p \in Prompts /\ ~ Taken(p) /\ ~ Waiting(p)
    BY <1>2 DEF PresetIInv, PresetTypeOK, Taken, Waiting, Decides
  <2> QED BY <2>1, StageOf
<1> QED BY <1>1, <1>2 DEF StagesByHolder

\* and those of the state after a step that keeps it.
LEMMA HolderStagesThen == PresetIInv' => StagesByHolder'
BY HolderStages, PTL

\* The start: no prompt has been used.
LEMMA PromptsBegin == PresetInit => P!Init
<1> SUFFICES ASSUME PresetInit PROVE P!Init
  OBVIOUS
<1>1. \A h \in Handlers : handler[h].pc = "rest"
  BY DEF PresetInit, Resting
<1>2. \A p \in Prompts : posted[p] = 0 /\ ~ Taken(p) /\ Entry(p) = {} /\ p \notin used
  BY <1>1 DEF PresetInit, Taken, Entry
<1>3. PromptStage = [p \in Prompts |-> "none"]
  BY <1>2 DEF PromptStage
<1> QED BY <1>3 DEF P!Init, PresetInit

\* The command up to the question: the prompt is opened with its entry, or dropped.
LEMMA CommandSteps ==
    ASSUME PresetIInv, PresetIInv', NEW h \in Handlers,
           CheckPresetPermission(h) \/ ReadPreference(h) \/ SendDirectly(h) \/ InsertPending(h)
    PROVE  [P!Next]_P!promptVars
<1>0. PICK q \in Prompts : q = handler[h].id
  BY AtWork DEF PresetIInv, CheckPresetPermission, ReadPreference, SendDirectly, InsertPending, At
<1>1. /\ handler[h].id = q /\ handler[h] \in Command /\ Decides(h, q)
      /\ handler[h].pc \notin {"ack", "send", "prefer", "sendLater"}
  BY <1>0, AtWork DEF PresetIInv, CheckPresetPermission, ReadPreference, SendDirectly,
     InsertPending, At, Click, Decides
<1>2. q \in used /\ Entry(q) = {} /\ posted[q] = 0 /\ \A k \in Handlers : Decides(k, q) => k = h
  BY <1>1 DEF PresetIInv, UnusedIsFresh, OneDecides
<1>3. PromptStage[q] = "none"
  BY <1>1, HolderStages DEF StagesByHolder
<1>4. UNCHANGED <<used, posted>>
  BY DEF CheckPresetPermission, ReadPreference, SendDirectly, InsertPending
<1>5. ASSUME NEW pc, Proceed(h, pc)
      PROVE  handler'[h].pc = pc /\ handler'[h].id = q
  BY <1>1, <1>5 DEF Proceed, PresetIInv, PresetTypeOK, Command
<1>6. Return(h) => handler'[h].pc = "rest"
  BY DEF Return, PresetIInv, PresetTypeOK, Resting
<1>7. \A k \in Handlers \ {h} : handler'[k] = handler[k]
  BY DEF PresetIInv, PresetTypeOK, CheckPresetPermission, ReadPreference, SendDirectly,
     InsertPending, Return, Proceed
<1>8. \A p \in Prompts \ {q} : Entry(p)' = Entry(p)
  BY <1>1 DEF CheckPresetPermission, ReadPreference, SendDirectly, InsertPending, Entry
<1>9. handler'[h].pc # "rest" => handler'[h].id = q
  BY <1>5, <1>6 DEF CheckPresetPermission, ReadPreference, SendDirectly, InsertPending
<1>10. \A p \in Prompts \ {q} : SameStage(p)
  BY <1>1, <1>4, <1>7, <1>8, <1>9, OthersStay DEF SameStage
<1>11. CASE /\ handler'[h].id = q /\ pending' = pending
            /\ handler'[h].pc \in {"preference", "direct", "insert"}
  <2>1. Decides(h, q)'
    BY <1>11 DEF Decides
  <2>2. PromptStage'[q] = "none"
    BY <1>1, <1>11, <2>1, HolderStagesThen DEF StagesByHolder
  <2>3. PromptStage' = PromptStage
    BY <1>3, <1>10, <2>2, StageStays
  <2> QED BY <1>4, <2>3 DEF P!promptVars
<1>12. CASE Return(h) /\ pending' = pending
  <2>1. \A k \in Handlers : ~ Decides(k, q)'
    BY <1>2, <1>6, <1>7, <1>12 DEF Decides
  <2>2. Entry(q)' = {} /\ q \in used' /\ ~ (posted'[q] > 0)
    BY <1>2, <1>4, <1>12 DEF Entry
  <2>3. PromptStage'[q] = "dropped"
    BY <2>1, <2>2, HolderStagesThen DEF StagesByHolder
  <2> QED BY <1>1, <1>3, <1>4, <1>10, <2>3, DropsOne
<1>13. CASE InsertPending(h)
  <2>1. \A k \in Handlers : ~ Decides(k, q)'
    BY <1>2, <1>5, <1>7, <1>13 DEF Decides, InsertPending
  <2>2. Entry(q)' # {} /\ q \in used' /\ ~ (posted'[q] > 0)
    <3>1. [id |-> q, user |-> handler[h].user, age |-> 0] \in pending'
      BY <1>1, <1>13 DEF InsertPending
    <3>2. [id |-> q, user |-> handler[h].user, age |-> 0] \in Entry(q)'
      BY <3>1 DEF Entry
    <3> QED BY <1>2, <1>4, <3>2
  <2>3. PromptStage'[q] = "open"
    BY <2>1, <2>2, HolderStagesThen DEF StagesByHolder
  <2>4. P!Open(q)
    BY <1>1, <1>3, <1>4, <1>10, <2>3, OneStage DEF P!Open
  <2> QED BY <1>1, <2>4 DEF P!Next
<1> QED BY <1>5, <1>11, <1>12, <1>13 DEF CheckPresetPermission, ReadPreference, SendDirectly

\* The question, and the entry that is taken back: an open prompt may be dropped.
LEMMA QuestionSteps ==
    ASSUME PresetIInv, PresetIInv', NEW h \in Handlers,
           AskForConfirmation(h) \/ WithdrawPending(h)
    PROVE  [P!Next]_P!promptVars
<1>0. PICK q \in Prompts : q = handler[h].id
  BY AtWork DEF PresetIInv, AskForConfirmation, WithdrawPending, At
<1>1. handler[h].id = q /\ handler[h] \in Command /\ handler[h].pc \in {"ask", "withdraw"}
  BY <1>0, AtWork DEF PresetIInv, AskForConfirmation, WithdrawPending, At, Click
<1>2. \A k \in Handlers : (\A p \in Prompts : Decides(k, p)' <=> Decides(k, p)) /\ (k # h => handler'[k] = handler[k])
  <2>1. handler'[h].pc \in {"rest", "withdraw"}
    BY <1>1 DEF AskForConfirmation, WithdrawPending, Proceed, Return, PresetIInv, PresetTypeOK,
       Command, Resting
  <2>2. \A k \in Handlers \ {h} : handler'[k] = handler[k]
    BY DEF AskForConfirmation, WithdrawPending, Proceed, Return, PresetIInv, PresetTypeOK
  <2> QED BY <1>1, <2>1, <2>2 DEF Decides
<1>3. UNCHANGED <<used, posted>>
  BY DEF AskForConfirmation, WithdrawPending
<1>4. \A p \in Prompts : (Taken(p)' <=> Taken(p)) /\ (Waiting(p)' <=> Waiting(p))
  <2>1. handler'[h].pc \in {"rest", "withdraw"}
    BY <1>1 DEF AskForConfirmation, WithdrawPending, Proceed, Return, PresetIInv, PresetTypeOK,
       Command, Resting
  <2> QED BY <1>1, <1>2, <2>1 DEF Taken, Waiting
<1>5. \A p \in Prompts \ {q} : SameStage(p)
  <2>1. \A p \in Prompts \ {q} : Entry(p)' = Entry(p)
    BY <1>1 DEF AskForConfirmation, WithdrawPending, WithoutEntry, Entry
  <2> QED BY <1>3, <1>4, <2>1 DEF SameStage
<1>6. CASE Entry(q)' = {} /\ Entry(q) # {} /\ ~ Taken(q)
  <2>1. q \in used /\ posted[q] = 0 /\ \A k \in Handlers : ~ Decides(k, q)
    BY <1>6 DEF PresetIInv, UnusedIsFresh, EntryBeforePost, OneDecides
  <2>2. PromptStage[q] = "open"
    BY <1>6, <2>1, StageOf
  <2>3. PromptStage'[q] = "dropped"
    <3>1. ~ Waiting(q) /\ ~ (posted'[q] > 0) /\ q \in used'
      BY <1>3, <2>1 DEF Waiting, Decides
    <3> QED BY <1>4, <1>6, <3>1, StageThen
  <2> QED BY <1>3, <1>5, <2>2, <2>3, DropsOne
<1>7. CASE (Entry(q)' = {}) <=> (Entry(q) = {})
  <2>1. SameStage(q)
    BY <1>3, <1>4, <1>7 DEF SameStage
  <2> QED BY <1>3, <1>5, <2>1, StagesStay
<1>8. CASE Taken(q)
  <2>1. Entry(q) = {}
    BY <1>8 DEF PresetIInv, OneDecides, Taken, Decides
  <2>2. Entry(q)' = {}
    BY <2>1 DEF AskForConfirmation, WithdrawPending, WithoutEntry, Entry
  <2> QED BY <1>7, <2>1, <2>2
<1>9. Entry(q)' \subseteq Entry(q)
  BY DEF AskForConfirmation, WithdrawPending, WithoutEntry, Entry
<1> QED BY <1>6, <1>7, <1>8, <1>9

\* A click that finds the entry takes the prompt, or cancels it; one that does not is refused.
LEMMA ClickSteps ==
    ASSUME PresetIInv, PresetIInv', NEW h \in Handlers,
           EnterConfirmation(h) \/ RefuseAndUnlock(h) \/ RespondAndUnlock(h)
    PROVE  [P!Next]_P!promptVars
<1>0. PICK q \in Prompts : q = handler[h].id
  BY AtWork DEF PresetIInv, EnterConfirmation, RefuseAndUnlock, RespondAndUnlock, At
<1>1. handler[h].id = q /\ handler[h] \in Click /\ handler[h].pc \in {"enter", "refuse", "respond"}
  BY <1>0, AtWork DEF PresetIInv, EnterConfirmation, RefuseAndUnlock, RespondAndUnlock, At, Command
<1>2. UNCHANGED <<used, posted>>
  BY DEF EnterConfirmation, RefuseAndUnlock, RespondAndUnlock
<1>3. ASSUME NEW pc, Proceed(h, pc)
      PROVE  handler'[h].pc = pc /\ handler'[h].id = q
  BY <1>1, <1>3 DEF Proceed, PresetIInv, PresetTypeOK, Click
<1>4. Return(h) => handler'[h].pc = "rest"
  BY DEF Return, PresetIInv, PresetTypeOK, Resting
<1>5. \A k \in Handlers \ {h} : handler'[k] = handler[k]
  BY DEF PresetIInv, PresetTypeOK, EnterConfirmation, RefuseAndUnlock, RespondAndUnlock, Return, Proceed
<1>6. CASE handler'[h].pc \in {"rest", "refuse"} /\ pending' = pending
  <2>1. \A p \in Prompts : (Taken(p)' <=> Taken(p)) /\ (Waiting(p)' <=> Waiting(p)) /\ Entry(p)' = Entry(p)
    BY <1>1, <1>5, <1>6 DEF Taken, Waiting, Entry
  <2> QED BY <1>2, <2>1, StagesStay DEF SameStage
<1>7. ASSUME EnterConfirmation(h), ~ Missing(h)
      PROVE  [P!Next]_P!promptVars
  <2>1. Entry(q) # {} /\ pending' = WithoutEntry(q)
    BY <1>1, <1>7 DEF EnterConfirmation, Missing
  <2>2. q \in used /\ posted[q] = 0 /\ \A k \in Handlers : ~ Decides(k, q)
    BY <2>1 DEF PresetIInv, UnusedIsFresh, EntryBeforePost, OneDecides
  <2>3. PromptStage[q] = "open"
    BY <2>1, <2>2, HolderStages DEF StagesByHolder
  <2>4. Entry(q)' = {}
    BY <2>1 DEF WithoutEntry, Entry
  <2>5. handler'[h].id = q /\ handler'[h].pc \in {"respond", "send", "ack"}
    <3>1. Proceed(h, "respond") \/ Proceed(h, "send") \/ Proceed(h, "ack")
      BY <1>1, <1>7 DEF EnterConfirmation, Click, Button
    <3> QED BY <1>3, <3>1
  <2>6. \A p \in Prompts \ {q} : SameStage(p)
    <3>1. \A p \in Prompts \ {q} : Entry(p)' = Entry(p)
      BY <2>1 DEF WithoutEntry, Entry
    <3>2. \A p \in Prompts \ {q} : (Taken(p)' <=> Taken(p)) /\ (Waiting(p)' <=> Waiting(p))
      BY <1>1, <1>5, <2>5, OthersStay
    <3> QED BY <1>2, <3>1, <3>2 DEF SameStage
  <2>7. CASE handler'[h].pc = "respond"
    <3>1. \A k \in Handlers : ~ Decides(k, q)'
      BY <1>5, <2>2, <2>7 DEF Decides
    <3>2. PromptStage'[q] = "dropped"
      BY <1>2, <2>2, <2>4, <3>1, HolderStagesThen DEF StagesByHolder
    <3> QED BY <1>2, <2>3, <2>6, <3>2, DropsOne
  <2>8. CASE handler'[h].pc \in {"send", "ack"}
    <3>1. Decides(h, q)'
      BY <2>5, <2>8 DEF Decides
    <3>2. PromptStage'[q] = "taken"
      BY <2>8, <3>1, HolderStagesThen DEF StagesByHolder
    <3>3. P!Take(q)
      BY <1>2, <2>3, <2>6, <3>2, OneStage DEF P!Take
    <3> QED BY <3>3 DEF P!Next
  <2> QED BY <2>5, <2>7, <2>8
<1> QED BY <1>3, <1>4, <1>6, <1>7 DEF EnterConfirmation, RefuseAndUnlock, RespondAndUnlock

\* Whoever took a prompt posts its message, keeps it, or drops it.
LEMMA TakenSteps ==
    ASSUME PresetIInv, PresetIInv', NEW h \in Handlers,
           SendConfirmed(h) \/ AcknowledgeAndUnlock(h) \/ SavePreference(h) \/ SendAfterDisable(h)
    PROVE  [P!Next]_P!promptVars
<1>0. PICK q \in Prompts : q = handler[h].id
  BY AtWork DEF PresetIInv, SendConfirmed, AcknowledgeAndUnlock, SavePreference, SendAfterDisable, At
<1>1. handler[h].id = q /\ handler[h] \in Click /\ handler[h].pc \in {"ack", "send", "prefer", "sendLater"}
  BY <1>0, AtWork DEF PresetIInv, SendConfirmed, AcknowledgeAndUnlock, SavePreference,
     SendAfterDisable, At, Command
<1>2. UNCHANGED <<used, pending>>
  BY DEF SendConfirmed, AcknowledgeAndUnlock, SavePreference, SendAfterDisable
<1>3. ASSUME NEW pc, Proceed(h, pc)
      PROVE  handler'[h].pc = pc /\ handler'[h].id = q
  BY <1>1, <1>3 DEF Proceed, PresetIInv, PresetTypeOK, Click
<1>4. Return(h) => handler'[h].pc = "rest"
  BY DEF Return, PresetIInv, PresetTypeOK, Resting
<1>5. \A k \in Handlers \ {h} : handler'[k] = handler[k]
  BY DEF PresetIInv, PresetTypeOK, SendConfirmed, AcknowledgeAndUnlock, SavePreference,
     SendAfterDisable, Return, Proceed
<1>6. Decides(h, q)
  BY <1>1 DEF Decides
<1>7. q \in used /\ Entry(q) = {} /\ posted[q] = 0 /\ \A k \in Handlers : Decides(k, q) => k = h
  BY <1>6 DEF PresetIInv, UnusedIsFresh, OneDecides
<1>8. PromptStage[q] = "taken"
  BY <1>1, <1>6, HolderStages DEF StagesByHolder
<1>9. \A p \in Prompts : Entry(p)' = Entry(p)
  BY <1>2 DEF Entry
<1>10. posted' = posted \/ posted' = [posted EXCEPT ![q] = 1]
  BY <1>1, <1>7, PostOnce DEF PresetIInv, SendConfirmed, AcknowledgeAndUnlock, SavePreference,
     SendAfterDisable
<1>11. /\ handler'[h].pc # "rest" => handler'[h].id = q
       /\ handler'[h].pc \in {"rest", "respond", "prefer", "sendLater"}
       /\ handler'[h].pc \in {"prefer", "sendLater"} => posted' = posted
  BY <1>3, <1>4 DEF SendConfirmed, AcknowledgeAndUnlock, SavePreference, SendAfterDisable
<1>12. \A p \in Prompts \ {q} : SameStage(p)
  <2>1. \A p \in Prompts \ {q} : (Taken(p)' <=> Taken(p)) /\ (Waiting(p)' <=> Waiting(p))
    BY <1>1, <1>5, <1>11, OthersStay
  <2>2. \A p \in Prompts \ {q} : posted'[p] = posted[p]
    BY <1>10 DEF PresetIInv, PresetTypeOK
  <2> QED BY <1>2, <1>9, <2>1, <2>2 DEF SameStage
<1>13. CASE handler'[h].pc \in {"prefer", "sendLater"}
  <2>1. Decides(h, q)'
    BY <1>11, <1>13 DEF Decides
  <2>2. PromptStage'[q] = "taken"
    BY <1>13, <2>1, HolderStagesThen DEF StagesByHolder
  <2>3. PromptStage' = PromptStage
    BY <1>8, <1>12, <2>2, StageStays
  <2> QED BY <1>11, <1>13, <2>3 DEF P!promptVars
<1>14. CASE handler'[h].pc \in {"rest", "respond"}
  <2>1. \A k \in Handlers : ~ Decides(k, q)'
    BY <1>5, <1>7, <1>14 DEF Decides
  <2>2. q \in used' /\ Entry(q)' = {}
    BY <1>2, <1>7, <1>9
  <2>3. CASE posted' = posted
    <3>1. PromptStage'[q] = "dropped"
      BY <1>7, <2>1, <2>2, <2>3, HolderStagesThen DEF StagesByHolder
    <3> QED BY <1>8, <1>12, <2>3, <3>1, DropsOne
  <2>4. CASE posted' = [posted EXCEPT ![q] = 1]
    <3>1. posted'[q] > 0
      BY <2>4 DEF PresetIInv, PresetTypeOK
    <3>2. PromptStage'[q] = "posted"
      BY <3>1, StageThen
    <3>3. P!Post(q)
      BY <1>8, <1>12, <2>4, <3>2, OneStage DEF P!Post
    <3> QED BY <3>3 DEF P!Next
  <2> QED BY <1>10, <2>3, <2>4
<1> QED BY <1>11, <1>13, <1>14

\* A new command and a click leave every prompt where it is.
LEMMA BeginSteps ==
    ASSUME PresetIInv, NEW h \in Handlers,
           \/ \E p \in Prompts, u \in Members : PassCooldown(h, p, u)
           \/ \E s \in shown, b \in Button : ClickButton(h, s, b)
    PROVE  UNCHANGED P!promptVars
<1>1. ASSUME NEW p \in Prompts, NEW u \in Members, PassCooldown(h, p, u)
      PROVE  UNCHANGED P!promptVars
  <2>1. /\ handler' = [handler EXCEPT ![h] = [pc |-> "permission", id |-> p, user |-> u]]
        /\ handler[h].pc = "rest" /\ p \notin used /\ used' = used \cup {p}
        /\ UNCHANGED <<pending, posted>>
    BY <1>1 DEF PassCooldown, At
  <2>2. handler'[h].pc = "permission" /\ handler'[h].id = p /\ \A k \in Handlers \ {h} : handler'[k] = handler[k]
    BY <2>1 DEF PresetIInv, PresetTypeOK
  <2>3. \A r \in Prompts : Taken(r)' <=> Taken(r)
    BY <2>1, <2>2 DEF Taken
  <2>4. \A r \in Prompts \ {p} : Waiting(r)' <=> Waiting(r)
    BY <2>1, <2>2 DEF Waiting
  <2>5. Waiting(p)'
    BY <2>2 DEF Waiting
  <2>6. \A r \in Prompts : SameStage(r)
    BY <2>1, <2>3, <2>4, <2>5 DEF SameStage, Entry
  <2> QED BY <2>1, <2>6, StagesStay
<1>2. ASSUME NEW s \in shown, NEW b \in Button, ClickButton(h, s, b)
      PROVE  UNCHANGED P!promptVars
  <2>1. handler[h].pc = "rest" /\ UNCHANGED <<used, pending, posted>>
    BY <1>2 DEF ClickButton, At
  <2>2. handler'[h].pc = "enter" /\ \A k \in Handlers \ {h} : handler'[k] = handler[k]
    BY <1>2 DEF ClickButton, PresetIInv, PresetTypeOK
  <2>3. \A r \in Prompts : (Taken(r)' <=> Taken(r)) /\ (Waiting(r)' <=> Waiting(r))
    BY <2>1, <2>2 DEF Taken, Waiting
  <2>4. \A r \in Prompts : SameStage(r)
    BY <2>1, <2>3 DEF SameStage, Entry
  <2> QED BY <2>1, <2>4, StagesStay
<1> QED BY <1>1, <1>2

\* The sweep drops open prompts; the end of the process drops all that are not posted.
LEMMA SweepSteps ==
    ASSUME PresetIInv, PresetIInv', PromptTick \/ CleanupExpiredPresets \/ PresetRestart
    PROVE  [P!Next]_P!promptVars
<1>1. posted' = posted /\ used' = used
  BY DEF PromptTick, CleanupExpiredPresets, PresetRestart
<1>2. CASE PromptTick
  <2>1. \A p \in Prompts : (Entry(p)' = {}) <=> (Entry(p) = {})
    <3>1. \A e \in pending : Older(e).id = e.id
      BY DEF Older, PresetIInv, PresetTypeOK, PendingPreset
    <3>2. pending' = {Older(e) : e \in pending}
      BY <1>2 DEF PromptTick
    <3> QED BY <3>1, <3>2 DEF Entry
  <2>2. \A p \in Prompts : SameStage(p)
    BY <1>1, <1>2, <2>1 DEF PromptTick, SameStage, Taken, Waiting
  <2> QED BY <1>1, <2>2, StagesStay
<1>3. CASE CleanupExpiredPresets
  <2>1. \A p \in Prompts : (Taken(p)' <=> Taken(p)) /\ (Waiting(p)' <=> Waiting(p)) /\ Entry(p)' \subseteq Entry(p)
    BY <1>3 DEF CleanupExpiredPresets, Taken, Waiting, Entry
  <2>2. \A p \in Prompts : Entry(p) # {} => p \in used /\ posted[p] = 0 /\ ~ Waiting(p) /\ ~ Taken(p)
    BY DEF PresetIInv, UnusedIsFresh, EntryBeforePost, OneDecides, Taken, Waiting, Decides
  <2>3. ASSUME NEW p \in Prompts
        PROVE  \/ PromptStage'[p] = PromptStage[p]
               \/ PromptStage[p] \in {"none", "open", "taken"} /\ PromptStage'[p] = "dropped"
    <3>1. CASE (Entry(p)' = {}) <=> (Entry(p) = {})
      BY <1>1, <2>1, <3>1, StageOf, StageThen
    <3>2. CASE Entry(p)' = {} /\ Entry(p) # {}
      BY <1>1, <2>1, <2>2, <3>2, StageOf, StageThen
    <3> QED BY <2>1, <3>1, <3>2
  <2> QED BY <1>1, <2>3, DropsSome
<1>4. CASE PresetRestart
  <2>1. pending' = {} /\ \A h \in Handlers : handler'[h].pc = "rest"
    BY <1>4 DEF PresetRestart, Resting
  <2>2. \A p \in Prompts : ~ Taken(p)' /\ ~ Waiting(p)' /\ Entry(p)' = {}
    BY <2>1 DEF Taken, Waiting, Entry
  <2>3. ASSUME NEW p \in Prompts
        PROVE  \/ PromptStage'[p] = PromptStage[p]
               \/ PromptStage[p] \in {"none", "open", "taken"} /\ PromptStage'[p] = "dropped"
    <3>1. CASE p \in used
      BY <1>1, <2>2, <3>1, StageOf, StageThen
    <3>2. CASE p \notin used
      <4>1. Entry(p) = {} /\ posted[p] = 0 /\ ~ Taken(p)
        BY <3>2 DEF PresetIInv, UnusedIsFresh, Taken, Decides
      <4> QED BY <1>1, <2>2, <3>2, <4>1, StageOf, StageThen
    <3> QED BY <3>1, <3>2
  <2> QED BY <1>1, <2>3, DropsSome
<1> QED BY <1>2, <1>3, <1>4

\* Every step of the handlers is a step of the prompts, or none.
LEMMA PresetsSimulate == PresetIInv /\ PresetIInv' /\ [PresetNext]_presetVars => [P!Next]_P!promptVars
<1> SUFFICES ASSUME PresetIInv, PresetIInv', [PresetNext]_presetVars PROVE [P!Next]_P!promptVars
  OBVIOUS
<1>1. ASSUME NEW h \in Handlers, HandlerStep(h) PROVE [P!Next]_P!promptVars
  BY <1>1, CommandSteps, QuestionSteps, ClickSteps, TakenSteps DEF HandlerStep
<1>2. CASE UNCHANGED presetVars
  <2>1. \A p \in Prompts : SameStage(p)
    BY <1>2 DEF presetVars, SameStage, Taken, Waiting, Entry
  <2>2. posted' = posted
    BY <1>2 DEF presetVars
  <2> QED BY <2>1, <2>2, StagesStay
<1> QED BY <1>1, <1>2, BeginSteps, SweepSteps DEF PresetNext

\* The invariant of the presets holds throughout.
LEMMA AlwaysPresetIInv == PresetSpec => []PresetIInv
BY InitPresetIInv, NextPresetIInv, PTL DEF PresetSpec

\* The preset handlers take only the steps of a prompt: a message is posted at most once, after one
\* click took the entry, and never after a cancellation, a withdrawal or the sweep.
THEOREM ConfirmationsAreSafe == PresetSpec => P!Safety
<1>1. PresetIInv /\ PresetIInv' /\ [PresetNext]_presetVars => [P!Next]_P!promptVars
  BY PresetsSimulate
<1> QED BY <1>1, PromptsBegin, AlwaysPresetIInv, PTL DEF PresetSpec, P!Safety

\* Every variable of the presets has its type, and no message is counted twice.
THEOREM PresetTypesHold == PresetSpec => []PresetTypeOK
<1>1. PresetIInv => PresetTypeOK
  BY DEF PresetIInv
<1> QED BY <1>1, AlwaysPresetIInv, PTL
-----------------------------------------------------------------------------
(* Quick punishments: the invariant                                        *)

ActPCs == {"defer", "lock", "load", "limit", "member", "apply"}

\* A goroutine acts for p: the modal before its entry is stored, the click that took the
\* entry, or a /punish command.
ActsFor(w, p) == worker[w].pc \in {"submit"} \cup ActPCs /\ worker[w].id = p

\* Only dialogs have a modal and buttons.
DialogWorkers == \A w \in Workers : worker[w].pc \in {"submit", "config", "take"} => worker[w].id \in Dialogs

NotBegunIsFresh == \A p \in Asked \ begun :
    DialogOf(p) = {} /\ executed[p] = 0 /\ \A w \in Workers : ~ ActsFor(w, p)

\* One goroutine acts for a punishment, or its entry is there for a click to take, and it is
\* carried out when neither is left.
OneActs == \A p \in Asked, w \in Workers : ActsFor(w, p) =>
    DialogOf(p) = {} /\ executed[p] = 0 /\ \A v \in Workers : ActsFor(v, p) => v = w
EntryBeforeExecution == \A p \in Asked : DialogOf(p) # {} => executed[p] = 0
ExecutedOnce == \A p \in Asked : executed[p] <= 1

GuardIInv ==
    GuardTypeOK /\ DialogWorkers /\ NotBegunIsFresh /\ OneActs /\ EntryBeforeExecution /\ ExecutedOnce

\* It holds when the bot starts for the first time.
LEMMA InitGuardIInv == GuardInit => GuardIInv
<1> SUFFICES ASSUME GuardInit PROVE GuardIInv
  OBVIOUS
<1>1. GuardTypeOK
  <2>1. guardFaults \in 0..MaxGuardFaults
    BY GuardBoundAssumption DEF GuardInit
  <2>2. executed \in [Asked -> 0..2] /\ worker \in [Workers -> {Off} \cup Handling]
    BY DEF GuardInit
  <2>3. locks \in [Targets -> 0..LockTicks]
    BY GuardAssumption DEF GuardInit
  <2> QED BY <2>1, <2>2, <2>3 DEF GuardInit, GuardTypeOK
<1>2. \A w \in Workers : worker[w].pc = "off"
  BY DEF GuardInit, Off
<1>3. \A p \in Asked : DialogOf(p) = {} /\ executed[p] = 0
  BY DEF GuardInit, DialogOf
<1> QED BY <1>1, <1>2, <1>3 DEF GuardIInv, DialogWorkers, NotBegunIsFresh, OneActs,
   EntryBeforeExecution, ExecutedOnce, ActsFor, ActPCs

\* What a goroutine that is not off works on.
LEMMA WorkerBusy ==
    ASSUME GuardTypeOK, NEW w \in Workers, worker[w].pc # "off"
    PROVE  worker[w] \in Handling /\ worker[w].id \in Asked /\ worker[w].target \in Targets
BY DEF GuardTypeOK, Off, Handling

\* The steps of a goroutine keep the record of its locals in its type.
LEMMA WorkerTypes ==
    ASSUME GuardTypeOK, NEW w \in Workers
    PROVE  /\ Stop(w) => worker' \in [Workers -> {Off} \cup Handling]
           /\ \A pc \in {"submit", "config", "take", "defer", "lock", "load", "limit", "member", "apply"} :
                 worker[w] \in Handling /\ Then(w, pc) => worker' \in [Workers -> {Off} \cup Handling]
BY DEF GuardTypeOK, Stop, Then, Handling

\* The faults stay within their bound.
LEMMA GuardFaultTypes ==
    ASSUME GuardTypeOK, GuardFault \/ NoGuardFault
    PROVE  guardFaults' \in 0..MaxGuardFaults
BY GuardBoundAssumption DEF GuardTypeOK, GuardFault, NoGuardFault

\* A /punish command or a modal begins with a punishment that is new.
LEMMA StartIInv ==
    ASSUME GuardIInv, NEW w \in Workers, NEW p \in Asked, NEW t \in Targets, PunishCommand(w, p, t) \/ SubmitModal(w, p, t)
    PROVE  GuardIInv'
<1>0. /\ GuardTypeOK /\ DialogWorkers /\ NotBegunIsFresh /\ OneActs
      /\ EntryBeforeExecution /\ ExecutedOnce
  BY DEF GuardIInv
<1>2. GuardTypeOK'
  BY <1>0, WorkerTypes, GuardFaultTypes, GuardAssumption DEF PunishCommand, SubmitModal, Start,
     Doing, Handling, GuardTypeOK
<1>3. NotBegunIsFresh' /\ DialogWorkers'
  BY <1>0, GuardAssumption DEF PunishCommand, SubmitModal, Start, Doing, Handling, GuardTypeOK,
     DialogWorkers, NotBegunIsFresh, DialogOf, ActsFor, ActPCs
<1>4. OneActs'
  BY <1>0, GuardAssumption DEF PunishCommand, SubmitModal, Start, Doing, Handling, GuardTypeOK,
     NotBegunIsFresh, OneActs, DialogOf, ActsFor, ActPCs
<1>5. EntryBeforeExecution' /\ ExecutedOnce'
  BY <1>0, GuardAssumption DEF PunishCommand, SubmitModal, Start, Doing, Handling, GuardTypeOK,
     EntryBeforeExecution, ExecutedOnce, OneActs, DialogOf, ActsFor, ActPCs
<1> QED BY <1>2, <1>3, <1>4, <1>5 DEF GuardIInv

\* A click does not act until it has found the entry.
LEMMA ClickActionIInv ==
    ASSUME GuardIInv, NEW w \in Workers, NEW b \in buttons, ClickAction(w, b)
    PROVE  GuardIInv'
<1>0. /\ GuardTypeOK /\ DialogWorkers /\ NotBegunIsFresh /\ OneActs
      /\ EntryBeforeExecution /\ ExecutedOnce
  BY DEF GuardIInv
<1>2. GuardTypeOK'
  BY <1>0, WorkerTypes, GuardFaultTypes DEF ClickAction, Doing, Handling, Asked, GuardTypeOK
<1>3. NotBegunIsFresh' /\ DialogWorkers'
  BY <1>0 DEF ClickAction, Doing, Handling, Asked, GuardTypeOK, DialogWorkers, NotBegunIsFresh,
     DialogOf, ActsFor, ActPCs
<1>4. OneActs'
  BY <1>0 DEF ClickAction, Doing, Handling, Asked, GuardTypeOK, NotBegunIsFresh, OneActs, DialogOf,
     ActsFor, ActPCs
<1>5. EntryBeforeExecution' /\ ExecutedOnce'
  BY <1>0 DEF ClickAction, Doing, Handling, Asked, GuardTypeOK, EntryBeforeExecution, ExecutedOnce,
     OneActs, DialogOf, ActsFor, ActPCs
<1> QED BY <1>2, <1>3, <1>4, <1>5 DEF GuardIInv

\* The entry takes over from the modal.
LEMMA StorePendingIInv ==
    ASSUME GuardIInv, NEW w \in Workers, StorePending(w)
    PROVE  GuardIInv'
<1>0. /\ GuardTypeOK /\ DialogWorkers /\ NotBegunIsFresh /\ OneActs
      /\ EntryBeforeExecution /\ ExecutedOnce
  BY DEF GuardIInv
<1>1. worker[w] \in Handling /\ worker[w].id \in Asked /\ worker[w].target \in Targets
  BY <1>0, WorkerBusy DEF StorePending, Doing
<1>6. [id |-> worker[w].id, target |-> worker[w].target, age |-> 0] \in PendingPunishment
  BY <1>0, <1>1, GuardAssumption DEF StorePending, Doing, DialogWorkers, PendingPunishment
<1>2. GuardTypeOK'
  BY <1>0, WorkerTypes, GuardFaultTypes, <1>1, <1>6 DEF StorePending, Then, Stop, Doing, Off,
     Handling, GuardTypeOK
<1>3. NotBegunIsFresh' /\ DialogWorkers'
  BY <1>0, <1>1, <1>6 DEF StorePending, Then, Stop, Doing, Off, Handling, GuardTypeOK,
     DialogWorkers, NotBegunIsFresh, DialogOf, ActsFor, ActPCs
<1>4. OneActs'
  BY <1>0, <1>1, <1>6 DEF StorePending, Then, Stop, Doing, Off, Handling, GuardTypeOK,
     NotBegunIsFresh, OneActs, DialogOf, ActsFor, ActPCs
<1>5. EntryBeforeExecution' /\ ExecutedOnce'
  BY <1>0, <1>1, <1>6 DEF StorePending, Then, Stop, Doing, Off, Handling, GuardTypeOK,
     EntryBeforeExecution, ExecutedOnce, OneActs, DialogOf, ActsFor, ActPCs
<1> QED BY <1>2, <1>3, <1>4, <1>5 DEF GuardIInv

\* The dialog is shown, or fails.
LEMMA ShowDialogIInv ==
    ASSUME GuardIInv, NEW w \in Workers, ShowDialog(w)
    PROVE  GuardIInv'
<1>0. /\ GuardTypeOK /\ DialogWorkers /\ NotBegunIsFresh /\ OneActs
      /\ EntryBeforeExecution /\ ExecutedOnce
  BY DEF GuardIInv
<1>1. worker[w] \in Handling /\ worker[w].id \in Asked /\ worker[w].target \in Targets
  BY <1>0, WorkerBusy DEF ShowDialog, Doing
<1>10. buttons' \subseteq Dialogs \X Targets
  BY <1>0, <1>1 DEF ShowDialog, Doing, DialogWorkers, GuardTypeOK
<1>11. GuardFault \/ NoGuardFault
  BY DEF ShowDialog
<1>14. worker' \in [Workers -> {Off} \cup Handling]
  BY <1>0, <1>1, WorkerTypes DEF ShowDialog
<1>2. GuardTypeOK'
  BY <1>0, <1>14, <1>10, <1>11, GuardFaultTypes DEF ShowDialog, GuardTypeOK
<1>3. NotBegunIsFresh' /\ DialogWorkers'
  BY <1>0, <1>1 DEF ShowDialog, Stop, Doing, Off, Handling, GuardTypeOK, DialogWorkers,
     NotBegunIsFresh, DialogOf, ActsFor, ActPCs
<1>4. OneActs'
  BY <1>0, <1>1 DEF ShowDialog, Stop, Doing, Off, Handling, GuardTypeOK, NotBegunIsFresh, OneActs,
     DialogOf, ActsFor, ActPCs
<1>5. EntryBeforeExecution' /\ ExecutedOnce'
  BY <1>0, <1>1 DEF ShowDialog, Stop, Doing, Off, Handling, GuardTypeOK, EntryBeforeExecution,
     ExecutedOnce, OneActs, DialogOf, ActsFor, ActPCs
<1> QED BY <1>2, <1>3, <1>4, <1>5 DEF GuardIInv

\* One click takes the entry over.
LEMMA TakePendingIInv ==
    ASSUME GuardIInv, NEW w \in Workers, TakePending(w)
    PROVE  GuardIInv'
<1>0. /\ GuardTypeOK /\ DialogWorkers /\ NotBegunIsFresh /\ OneActs
      /\ EntryBeforeExecution /\ ExecutedOnce
  BY DEF GuardIInv
<1>1. worker[w] \in Handling /\ worker[w].id \in Asked /\ worker[w].target \in Targets
  BY <1>0, WorkerBusy DEF TakePending, Doing
<1>2. GuardTypeOK'
  BY <1>0, WorkerTypes, GuardFaultTypes, <1>1 DEF TakePending, Then, Stop, Doing, Off, Handling,
     GuardTypeOK
<1>3. NotBegunIsFresh' /\ DialogWorkers'
  BY <1>0, <1>1 DEF TakePending, Then, Stop, Doing, Off, Handling, GuardTypeOK, DialogWorkers,
     NotBegunIsFresh, DialogOf, ActsFor, ActPCs
<1>6. executed' = executed /\ \A p \in Asked : DialogOf(p)' \subseteq DialogOf(p)
  BY DEF TakePending, DialogOf
<1>7. ASSUME NEW p \in Asked, NEW v \in Workers, ActsFor(v, p)'
      PROVE  ActsFor(v, p) \/ (v = w /\ DialogOf(p) # {} /\ DialogOf(p)' = {})
  <2>1. CASE v # w
    <3>1. worker'[v] = worker[v]
      BY <1>0, <2>1 DEF TakePending, Then, Stop, GuardTypeOK
    <3> QED BY <1>7, <3>1 DEF ActsFor
  <2>2. CASE v = w
    <3>1. ~ Stop(w)
      BY <1>0, <1>7, <2>2 DEF Stop, GuardTypeOK, ActsFor, ActPCs, Off
    <3>2. DialogOf(worker[w].id) # {} /\ Then(w, "defer")
      BY <3>1 DEF TakePending
    <3>3. p = worker[w].id
      BY <1>0, <1>1, <1>7, <2>2, <3>2 DEF Then, GuardTypeOK, ActsFor, Handling
    <3> QED BY <2>2, <3>2, <3>3 DEF TakePending, DialogOf
  <2> QED BY <2>1, <2>2
<1>4. OneActs'
  BY <1>0, <1>6, <1>7 DEF OneActs, EntryBeforeExecution
<1>5. EntryBeforeExecution' /\ ExecutedOnce'
  BY <1>0, <1>1 DEF TakePending, Then, Stop, Doing, Off, Handling, GuardTypeOK,
     EntryBeforeExecution, ExecutedOnce, OneActs, DialogOf, ActsFor, ActPCs
<1> QED BY <1>2, <1>3, <1>4, <1>5 DEF GuardIInv

\* The answer is deferred.
LEMMA DeferActionIInv ==
    ASSUME GuardIInv, NEW w \in Workers, DeferAction(w)
    PROVE  GuardIInv'
<1>0. /\ GuardTypeOK /\ DialogWorkers /\ NotBegunIsFresh /\ OneActs
      /\ EntryBeforeExecution /\ ExecutedOnce
  BY DEF GuardIInv
<1>1. worker[w] \in Handling /\ worker[w].id \in Asked /\ worker[w].target \in Targets
  BY <1>0, WorkerBusy DEF DeferAction, Doing
<1>2. GuardTypeOK'
  BY <1>0, WorkerTypes, GuardFaultTypes, <1>1 DEF DeferAction, Then, Stop, Doing, Off, StepOrReturn,
     Handling, GuardTypeOK
<1>3. NotBegunIsFresh' /\ DialogWorkers'
  BY <1>0, <1>1 DEF DeferAction, Then, Stop, Doing, Off, StepOrReturn, Handling, GuardTypeOK,
     DialogWorkers, NotBegunIsFresh, DialogOf, ActsFor, ActPCs
<1>4. OneActs'
  BY <1>0, <1>1 DEF DeferAction, Then, Stop, Doing, Off, StepOrReturn, Handling, GuardTypeOK,
     NotBegunIsFresh, OneActs, DialogOf, ActsFor, ActPCs
<1>5. EntryBeforeExecution' /\ ExecutedOnce'
  BY <1>0, <1>1 DEF DeferAction, Then, Stop, Doing, Off, StepOrReturn, Handling, GuardTypeOK,
     EntryBeforeExecution, ExecutedOnce, OneActs, DialogOf, ActsFor, ActPCs
<1> QED BY <1>2, <1>3, <1>4, <1>5 DEF GuardIInv

\* The lock on the target is set, or found set.
LEMMA CheckAndSetPunishLockIInv ==
    ASSUME GuardIInv, NEW w \in Workers, CheckAndSetPunishLock(w)
    PROVE  GuardIInv'
<1>0. /\ GuardTypeOK /\ DialogWorkers /\ NotBegunIsFresh /\ OneActs
      /\ EntryBeforeExecution /\ ExecutedOnce
  BY DEF GuardIInv
<1>1. worker[w] \in Handling /\ worker[w].id \in Asked /\ worker[w].target \in Targets
  BY <1>0, WorkerBusy DEF CheckAndSetPunishLock, Doing
<1>10. locks' \in [Targets -> 0..LockTicks]
  BY <1>0, <1>1, GuardAssumption DEF CheckAndSetPunishLock, GuardTypeOK
<1>14. worker' \in [Workers -> {Off} \cup Handling]
  BY <1>0, <1>1, WorkerTypes DEF CheckAndSetPunishLock
<1>2. GuardTypeOK'
  BY <1>0, <1>14, <1>10 DEF CheckAndSetPunishLock, GuardTypeOK
<1>3. NotBegunIsFresh' /\ DialogWorkers'
  BY <1>0, <1>1 DEF CheckAndSetPunishLock, Then, Stop, Doing, Off, Handling, GuardTypeOK,
     DialogWorkers, NotBegunIsFresh, DialogOf, ActsFor, ActPCs
<1>4. OneActs'
  BY <1>0, <1>1 DEF CheckAndSetPunishLock, Then, Stop, Doing, Off, Handling, GuardTypeOK,
     NotBegunIsFresh, OneActs, DialogOf, ActsFor, ActPCs
<1>5. EntryBeforeExecution' /\ ExecutedOnce'
  BY <1>0, <1>1 DEF CheckAndSetPunishLock, Then, Stop, Doing, Off, Handling, GuardTypeOK,
     EntryBeforeExecution, ExecutedOnce, OneActs, DialogOf, ActsFor, ActPCs
<1> QED BY <1>2, <1>3, <1>4, <1>5 DEF GuardIInv

\* The configuration is read.
LEMMA LoadPunishConfigIInv ==
    ASSUME GuardIInv, NEW w \in Workers, LoadPunishConfig(w)
    PROVE  GuardIInv'
<1>0. /\ GuardTypeOK /\ DialogWorkers /\ NotBegunIsFresh /\ OneActs
      /\ EntryBeforeExecution /\ ExecutedOnce
  BY DEF GuardIInv
<1>1. worker[w] \in Handling /\ worker[w].id \in Asked /\ worker[w].target \in Targets
  BY <1>0, WorkerBusy DEF LoadPunishConfig, Doing
<1>2. GuardTypeOK'
  BY <1>0, WorkerTypes, GuardFaultTypes, <1>1 DEF LoadPunishConfig, Then, Stop, Doing, Off,
     StepOrReturn, Handling, GuardTypeOK
<1>3. NotBegunIsFresh' /\ DialogWorkers'
  BY <1>0, <1>1 DEF LoadPunishConfig, Then, Stop, Doing, Off, StepOrReturn, Handling, GuardTypeOK,
     DialogWorkers, NotBegunIsFresh, DialogOf, ActsFor, ActPCs
<1>4. OneActs'
  BY <1>0, <1>1 DEF LoadPunishConfig, Then, Stop, Doing, Off, StepOrReturn, Handling, GuardTypeOK,
     NotBegunIsFresh, OneActs, DialogOf, ActsFor, ActPCs
<1>5. EntryBeforeExecution' /\ ExecutedOnce'
  BY <1>0, <1>1 DEF LoadPunishConfig, Then, Stop, Doing, Off, StepOrReturn, Handling, GuardTypeOK,
     EntryBeforeExecution, ExecutedOnce, OneActs, DialogOf, ActsFor, ActPCs
<1> QED BY <1>2, <1>3, <1>4, <1>5 DEF GuardIInv

\* The action is counted, or over the limit.
LEMMA CheckAndIncrementAdminActionIInv ==
    ASSUME GuardIInv, NEW w \in Workers, CheckAndIncrementAdminAction(w)
    PROVE  GuardIInv'
<1>0. /\ GuardTypeOK /\ DialogWorkers /\ NotBegunIsFresh /\ OneActs
      /\ EntryBeforeExecution /\ ExecutedOnce
  BY DEF GuardIInv
<1>1. worker[w] \in Handling /\ worker[w].id \in Asked /\ worker[w].target \in Targets
  BY <1>0, WorkerBusy DEF CheckAndIncrementAdminAction, Doing
<1>10. actions' \subseteq Asked \X (0..DayTicks)
  <2>1. <<worker[w].id, 0>> \in Asked \X (0..DayTicks)
    BY <1>1, GuardAssumption
  <2>2. Recent \subseteq Asked \X (0..DayTicks)
    BY <1>0 DEF Recent, GuardTypeOK
  <2> QED BY <1>0, <2>1, <2>2 DEF CheckAndIncrementAdminAction, GuardTypeOK
<1>14. worker' \in [Workers -> {Off} \cup Handling]
  BY <1>0, <1>1, WorkerTypes DEF CheckAndIncrementAdminAction
<1>2. GuardTypeOK'
  BY <1>0, <1>14, <1>10 DEF CheckAndIncrementAdminAction, GuardTypeOK
<1>3. NotBegunIsFresh' /\ DialogWorkers'
  BY <1>0, <1>1 DEF CheckAndIncrementAdminAction, Then, Stop, Doing, Off, Handling, GuardTypeOK,
     DialogWorkers, NotBegunIsFresh, DialogOf, ActsFor, ActPCs
<1>4. OneActs'
  BY <1>0, <1>1 DEF CheckAndIncrementAdminAction, Then, Stop, Doing, Off, Handling, GuardTypeOK,
     NotBegunIsFresh, OneActs, DialogOf, ActsFor, ActPCs
<1>5. EntryBeforeExecution' /\ ExecutedOnce'
  BY <1>0, <1>1 DEF CheckAndIncrementAdminAction, Then, Stop, Doing, Off, Handling, GuardTypeOK,
     EntryBeforeExecution, ExecutedOnce, OneActs, DialogOf, ActsFor, ActPCs
<1> QED BY <1>2, <1>3, <1>4, <1>5 DEF GuardIInv

\* The member, the whitelist, the evidence and the database may refuse.
LEMMA CheckMemberIInv ==
    ASSUME GuardIInv, NEW w \in Workers, CheckMember(w)
    PROVE  GuardIInv'
<1>0. /\ GuardTypeOK /\ DialogWorkers /\ NotBegunIsFresh /\ OneActs
      /\ EntryBeforeExecution /\ ExecutedOnce
  BY DEF GuardIInv
<1>1. worker[w] \in Handling /\ worker[w].id \in Asked /\ worker[w].target \in Targets
  BY <1>0, WorkerBusy DEF CheckMember, Doing
<1>2. GuardTypeOK'
  BY <1>0, WorkerTypes, GuardFaultTypes, <1>1 DEF CheckMember, Then, Stop, Doing, Off, Handling,
     GuardTypeOK
<1>3. NotBegunIsFresh' /\ DialogWorkers'
  BY <1>0, <1>1 DEF CheckMember, Then, Stop, Doing, Off, Handling, GuardTypeOK, DialogWorkers,
     NotBegunIsFresh, DialogOf, ActsFor, ActPCs
<1>4. OneActs'
  BY <1>0, <1>1 DEF CheckMember, Then, Stop, Doing, Off, Handling, GuardTypeOK, NotBegunIsFresh,
     OneActs, DialogOf, ActsFor, ActPCs
<1>5. EntryBeforeExecution' /\ ExecutedOnce'
  BY <1>0, <1>1 DEF CheckMember, Then, Stop, Doing, Off, Handling, GuardTypeOK,
     EntryBeforeExecution, ExecutedOnce, OneActs, DialogOf, ActsFor, ActPCs
<1> QED BY <1>2, <1>3, <1>4, <1>5 DEF GuardIInv

\* The punishment is carried out.
LEMMA ExecutePunishmentIInv ==
    ASSUME GuardIInv, NEW w \in Workers, ExecutePunishment(w)
    PROVE  GuardIInv'
<1>0. /\ GuardTypeOK /\ DialogWorkers /\ NotBegunIsFresh /\ OneActs
      /\ EntryBeforeExecution /\ ExecutedOnce
  BY DEF GuardIInv
<1>1. worker[w] \in Handling /\ worker[w].id \in Asked /\ worker[w].target \in Targets
  BY <1>0, WorkerBusy DEF ExecutePunishment, Doing
<1>6. ActsFor(w, worker[w].id) /\ executed[worker[w].id] = 0 /\ worker[w].id \in begun
  BY <1>0, <1>1 DEF ExecutePunishment, Doing, ActsFor, ActPCs, OneActs, NotBegunIsFresh
<1>7. executed' = [executed EXCEPT ![worker[w].id] = 1]
  BY <1>0, <1>1, <1>6 DEF ExecutePunishment, GuardTypeOK
<1>8. GuardFault \/ NoGuardFault
  BY DEF ExecutePunishment
<1>9. buttons' \subseteq buttons
  BY DEF ExecutePunishment
<1>10. executed' \in [Asked -> 0..2]
  BY <1>0, <1>1, <1>7 DEF GuardTypeOK
<1>14. worker' \in [Workers -> {Off} \cup Handling]
  BY <1>0, <1>1, WorkerTypes DEF ExecutePunishment
<1>2. GuardTypeOK'
  BY <1>0, <1>14, <1>8, <1>9, <1>10, GuardFaultTypes DEF ExecutePunishment, GuardTypeOK
<1>3. NotBegunIsFresh' /\ DialogWorkers'
  BY <1>0, <1>1, <1>6, <1>7, <1>8, <1>9 DEF ExecutePunishment, Stop, Doing, Off, Handling,
     GuardTypeOK, DialogWorkers, NotBegunIsFresh, DialogOf, ActsFor, ActPCs
<1>4. OneActs'
  BY <1>0, <1>1, <1>6, <1>7, <1>8, <1>9 DEF ExecutePunishment, Stop, Doing, Off, Handling,
     GuardTypeOK, NotBegunIsFresh, OneActs, DialogOf, ActsFor, ActPCs
<1>5. EntryBeforeExecution' /\ ExecutedOnce'
  BY <1>0, <1>1, <1>6, <1>7, <1>8, <1>9 DEF ExecutePunishment, Stop, Doing, Off, Handling,
     GuardTypeOK, EntryBeforeExecution, ExecutedOnce, OneActs, DialogOf, ActsFor, ActPCs
<1> QED BY <1>2, <1>3, <1>4, <1>5 DEF GuardIInv

\* Time passes, and old entries, actions and locks go.
LEMMA GuardSweepIInv ==
    ASSUME GuardIInv, GuardTick \/ CleanupExpiredPunishments \/ CleanupAdminActions \/ ResetPunishCooldown
    PROVE  GuardIInv'
<1>0. /\ GuardTypeOK /\ DialogWorkers /\ NotBegunIsFresh /\ OneActs
      /\ EntryBeforeExecution /\ ExecutedOnce
  BY DEF GuardIInv
<1>2. GuardTypeOK'
  BY <1>0, WorkerTypes, GuardFaultTypes, GuardAssumption DEF GuardTick, CleanupExpiredPunishments,
     CleanupAdminActions, ResetPunishCooldown, PendingPunishment, Recent, GuardTypeOK
<1>3. NotBegunIsFresh' /\ DialogWorkers'
  BY <1>0, GuardAssumption DEF GuardTick, CleanupExpiredPunishments, CleanupAdminActions,
     ResetPunishCooldown, PendingPunishment, Recent, GuardTypeOK, DialogWorkers, NotBegunIsFresh,
     DialogOf, ActsFor, ActPCs
<1>4. OneActs'
  BY <1>0, GuardAssumption DEF GuardTick, CleanupExpiredPunishments, CleanupAdminActions,
     ResetPunishCooldown, PendingPunishment, Recent, GuardTypeOK, NotBegunIsFresh, OneActs,
     DialogOf, ActsFor, ActPCs
<1>5. EntryBeforeExecution' /\ ExecutedOnce'
  BY <1>0, GuardAssumption DEF GuardTick, CleanupExpiredPunishments, CleanupAdminActions,
     ResetPunishCooldown, PendingPunishment, Recent, GuardTypeOK, EntryBeforeExecution,
     ExecutedOnce, OneActs, DialogOf, ActsFor, ActPCs
<1> QED BY <1>2, <1>3, <1>4, <1>5 DEF GuardIInv

\* The process ends, and the entries with it.
LEMMA GuardRestartIInv ==
    ASSUME GuardIInv, GuardRestart
    PROVE  GuardIInv'
<1>0. /\ GuardTypeOK /\ DialogWorkers /\ NotBegunIsFresh /\ OneActs
      /\ EntryBeforeExecution /\ ExecutedOnce
  BY DEF GuardIInv
<1>2. GuardTypeOK'
  BY <1>0, WorkerTypes, GuardFaultTypes, GuardAssumption DEF GuardRestart, Off, GuardTypeOK
<1>3. NotBegunIsFresh' /\ DialogWorkers'
  BY <1>0, GuardAssumption DEF GuardRestart, Off, GuardTypeOK, DialogWorkers, NotBegunIsFresh,
     DialogOf, ActsFor, ActPCs
<1>4. OneActs'
  BY <1>0, GuardAssumption DEF GuardRestart, Off, GuardTypeOK, NotBegunIsFresh, OneActs, DialogOf,
     ActsFor, ActPCs
<1>5. EntryBeforeExecution' /\ ExecutedOnce'
  BY <1>0, GuardAssumption DEF GuardRestart, Off, GuardTypeOK, EntryBeforeExecution, ExecutedOnce,
     OneActs, DialogOf, ActsFor, ActPCs
<1> QED BY <1>2, <1>3, <1>4, <1>5 DEF GuardIInv

\* Every step before a punishment keeps the invariant.
LEMMA NextGuardIInv == GuardIInv /\ [GuardNext]_guardVars => GuardIInv'
<1> SUFFICES ASSUME GuardIInv, [GuardNext]_guardVars PROVE GuardIInv'
  OBVIOUS
<1>1. ASSUME NEW w \in Workers, WorkerStep(w) PROVE GuardIInv'
  BY <1>1, StorePendingIInv, ShowDialogIInv, TakePendingIInv, DeferActionIInv,
     CheckAndSetPunishLockIInv, LoadPunishConfigIInv, CheckAndIncrementAdminActionIInv,
     CheckMemberIInv, ExecutePunishmentIInv DEF WorkerStep
<1>2. CASE UNCHANGED guardVars
  BY <1>2 DEF guardVars, GuardIInv, GuardTypeOK, DialogWorkers, NotBegunIsFresh, OneActs,
     EntryBeforeExecution, ExecutedOnce, DialogOf, ActsFor
<1> QED BY <1>1, <1>2, StartIInv, ClickActionIInv, GuardSweepIInv, GuardRestartIInv DEF GuardNext
-----------------------------------------------------------------------------
(* Quick punishments: the steps of the dialogs                             *)

\* The stage of a dialog, now and after a step.
LEMMA DialogStageOf ==
    ASSUME NEW p \in Dialogs
    PROVE  DialogStage[p] = IF executed[p] > 0 THEN "posted" ELSE IF Working(p, ActPCs) THEN "taken"
                            ELSE IF DialogOf(p) # {} THEN "open"
                            ELSE IF p \notin begun \/ Working(p, {"submit"}) THEN "none" ELSE "dropped"
BY DEF DialogStage, ActPCs

\* And of the state after a step.
LEMMA DialogStageThen ==
    ASSUME NEW p \in Dialogs
    PROVE  DialogStage'[p] = IF executed'[p] > 0 THEN "posted" ELSE IF Working(p, ActPCs)' THEN "taken"
                             ELSE IF DialogOf(p)' # {} THEN "open"
                             ELSE IF p \notin begun' \/ Working(p, {"submit"})' THEN "none" ELSE "dropped"
BY DEF DialogStage, ActPCs

\* What the stage of a dialog depends on stays.
SameDialog(p) ==
    /\ executed'[p] = executed[p]
    /\ Working(p, ActPCs)' <=> Working(p, ActPCs)
    /\ (DialogOf(p)' = {}) <=> (DialogOf(p) = {})
    /\ (p \notin begun' \/ Working(p, {"submit"})') <=> (p \notin begun \/ Working(p, {"submit"}))

\* A step that touches no dialog is none of the dialogs' steps, and one that touches one changes
\* the stage of that one only.
LEMMA DialogsStay ==
    ASSUME executed' = executed, \A p \in Dialogs : SameDialog(p)
    PROVE  UNCHANGED D!promptVars
<1>1. \A p \in Dialogs : DialogStage'[p] = DialogStage[p]
  BY DialogStageOf, DialogStageThen DEF SameDialog
<1>2. DialogStage' = DialogStage
  BY <1>1 DEF DialogStage
<1> QED BY <1>2 DEF D!promptVars

\* A step that touches one dialog changes its stage only.
LEMMA OneDialog ==
    ASSUME NEW q \in Dialogs, \A p \in Dialogs \ {q} : SameDialog(p)
    PROVE  DialogStage' = [DialogStage EXCEPT ![q] = DialogStage'[q]]
<1>1. \A p \in Dialogs \ {q} : DialogStage'[p] = DialogStage[p]
  BY DialogStageOf, DialogStageThen DEF SameDialog
<1> QED BY <1>1 DEF DialogStage

\* If its stage stays too, none changes.
LEMMA DialogStays ==
    ASSUME NEW q \in Dialogs, \A p \in Dialogs \ {q} : SameDialog(p), DialogStage'[q] = DialogStage[q]
    PROVE  DialogStage' = DialogStage
<1>1. \A p \in Dialogs : DialogStage'[p] = DialogStage[p]
  BY DialogStageOf, DialogStageThen DEF SameDialog
<1> QED BY <1>1 DEF DialogStage

\* One dialog, or several at once, are dropped.
LEMMA DialogDrops ==
    ASSUME NEW q \in Dialogs, \A p \in Dialogs \ {q} : SameDialog(p), executed' = executed,
           DialogStage[q] \in {"none", "open", "taken"}, DialogStage'[q] = "dropped"
    PROVE  D!Next
<1>1. DialogStage' = [p \in Dialogs |-> IF p \in {q} THEN "dropped" ELSE DialogStage[p]]
  BY OneDialog DEF DialogStage
<1>2. D!Drop({q})
  BY <1>1 DEF D!Drop
<1> QED BY <1>2 DEF D!Next

\* A step that drops some dialogs, and changes nothing else, is one of Prompt.
LEMMA DialogsDrop ==
    ASSUME executed' = executed,
           \A p \in Dialogs : \/ DialogStage'[p] = DialogStage[p]
                              \/ /\ DialogStage[p] \in {"none", "open", "taken"}
                                 /\ DialogStage'[p] = "dropped"
    PROVE  D!Next
<1> DEFINE S == {p \in Dialogs : DialogStage'[p] # DialogStage[p]}
<1>1. DialogStage' = [p \in Dialogs |-> IF p \in S THEN "dropped" ELSE DialogStage[p]]
  BY DEF DialogStage
<1>2. D!Drop(S)
  BY <1>1 DEF D!Drop
<1> QED BY <1>2 DEF D!Next

\* The handler of one punishment does nothing to the others.
LEMMA OtherDialogs ==
    ASSUME NEW w \in Workers, NEW q, \A v \in Workers \ {w} : worker'[v] = worker[v],
           worker[w].pc # "off" => worker[w].id = q,
           worker'[w].pc # "off" => worker'[w].id = q
    PROVE  \A p \in Asked \ {q} : /\ Working(p, ActPCs)' <=> Working(p, ActPCs)
                                  /\ Working(p, {"submit"})' <=> Working(p, {"submit"})
BY DEF Working, ActPCs

\* The stage of a dialog that a goroutine acts for, and of one that none does.
StagesByActor ==
    /\ \A w \in Workers, p \in Dialogs : ActsFor(w, p) =>
          DialogStage[p] = IF worker[w].pc \in ActPCs THEN "taken" ELSE "none"
    /\ \A p \in Dialogs \cap begun : (\A w \in Workers : ~ ActsFor(w, p)) =>
          DialogStage[p] = IF executed[p] > 0 THEN "posted"
                           ELSE IF DialogOf(p) # {} THEN "open" ELSE "dropped"

\* The invariant fixes those stages,
LEMMA ActorStages == GuardIInv => StagesByActor
<1> SUFFICES ASSUME GuardIInv PROVE StagesByActor
  OBVIOUS
<1>1. ASSUME NEW w \in Workers, NEW p \in Dialogs, ActsFor(w, p)
      PROVE  DialogStage[p] = IF worker[w].pc \in ActPCs THEN "taken" ELSE "none"
  <2>1. /\ DialogOf(p) = {} /\ executed[p] = 0
        /\ \A v \in Workers : ActsFor(v, p) => v = w
    BY <1>1 DEF GuardIInv, OneActs, Asked
  <2>2. CASE worker[w].pc \in ActPCs
    BY <1>1, <2>1, <2>2, DialogStageOf DEF Working, ActsFor
  <2>3. CASE worker[w].pc \notin ActPCs
    <3>1. Working(p, {"submit"}) /\ ~ Working(p, ActPCs)
      BY <1>1, <2>1, <2>3 DEF Working, ActsFor
    <3> QED BY <2>1, <2>3, <3>1, DialogStageOf
  <2> QED BY <2>2, <2>3
<1>2. ASSUME NEW p \in Dialogs \cap begun, \A w \in Workers : ~ ActsFor(w, p)
      PROVE  DialogStage[p] = IF executed[p] > 0 THEN "posted"
                              ELSE IF DialogOf(p) # {} THEN "open" ELSE "dropped"
  <2>1. ~ Working(p, ActPCs) /\ ~ Working(p, {"submit"})
    BY <1>2 DEF Working, ActsFor
  <2> QED BY <2>1, DialogStageOf
<1> QED BY <1>1, <1>2 DEF StagesByActor

\* and those of the state after a step that keeps it.
LEMMA ActorStagesThen == GuardIInv' => StagesByActor'
BY ActorStages, PTL

\* The start: nothing has been asked for.
LEMMA DialogsBegin == GuardInit => D!Init
<1> SUFFICES ASSUME GuardInit PROVE D!Init
  OBVIOUS
<1>1. \A w \in Workers : worker[w].pc = "off"
  BY DEF GuardInit, Off
<1>2. \A p \in Dialogs : executed[p] = 0 /\ ~ Working(p, ActPCs) /\ DialogOf(p) = {} /\ p \notin begun
  BY <1>1 DEF GuardInit, Working, DialogOf, Asked, ActPCs
<1>3. DialogStage = [p \in Dialogs |-> "none"]
  <2>1. \A p \in Dialogs : DialogStage[p] = "none"
    BY <1>2, DialogStageOf
  <2> QED BY <2>1 DEF DialogStage
<1>4. [p \in Dialogs |-> executed[p]] = [p \in Dialogs |-> 0]
  BY <1>2
<1> QED BY <1>3, <1>4 DEF D!Init

\* A step that changes neither entries nor what was carried out, of a goroutine whose place stays
\* of its kind.
LEMMA SameKind ==
    ASSUME GuardIInv, NEW w \in Workers, UNCHANGED <<begun, dialogs, executed>>,
           \A v \in Workers \ {w} : worker'[v] = worker[v],
           \/ /\ worker[w].pc \notin {"submit"} \cup ActPCs
              /\ worker'[w].pc \notin {"submit"} \cup ActPCs
           \/ /\ worker[w].pc \in ActPCs /\ worker'[w].pc \in ActPCs
              /\ worker'[w].id = worker[w].id
    PROVE  UNCHANGED D!promptVars
<1>1. \A p \in Dialogs : /\ Working(p, ActPCs)' <=> Working(p, ActPCs)
                         /\ Working(p, {"submit"})' <=> Working(p, {"submit"})
  BY DEF Working, ActPCs
<1>2. \A p \in Dialogs : SameDialog(p)
  BY <1>1 DEF SameDialog, DialogOf
<1> QED BY <1>2, DialogsStay

\* Whoever acts and returns without having carried it out drops the dialog, if there is one.
LEMMA ActorReturns ==
    ASSUME GuardIInv, GuardIInv', NEW w \in Workers, UNCHANGED <<begun, dialogs, executed>>,
           worker[w].pc \in {"submit"} \cup ActPCs, Stop(w)
    PROVE  [D!Next]_D!promptVars
<1>0. PICK q \in Asked : q = worker[w].id
  BY WorkerBusy DEF GuardIInv, ActPCs
<1>1. worker'[w].pc = "off" /\ \A v \in Workers \ {w} : worker'[v] = worker[v]
  BY DEF Stop, GuardIInv, GuardTypeOK, Off
<1>2. \A p \in Asked : DialogOf(p)' = DialogOf(p)
  BY DEF DialogOf
<1>3. \A p \in Asked \ {q} : /\ Working(p, ActPCs)' <=> Working(p, ActPCs)
                             /\ Working(p, {"submit"})' <=> Working(p, {"submit"})
  BY <1>0, <1>1, OtherDialogs
<1>4. \A p \in Dialogs \ {q} : SameDialog(p)
  BY <1>2, <1>3 DEF SameDialog, Asked
<1>5. CASE q \in Dialogs
  <2>1. ActsFor(w, q)
    BY <1>0 DEF ActsFor
  <2>2. q \in begun /\ DialogOf(q) = {} /\ executed[q] = 0 /\ \A v \in Workers : ActsFor(v, q) => v = w
    BY <2>1 DEF GuardIInv, NotBegunIsFresh, OneActs
  <2>3. DialogStage[q] \in {"none", "taken"}
    BY <1>5, <2>1, ActorStages DEF StagesByActor
  <2>4. \A v \in Workers : ~ ActsFor(v, q)'
    BY <1>1, <2>2 DEF ActsFor, ActPCs
  <2>5. DialogStage'[q] = "dropped"
    BY <1>2, <1>5, <2>2, <2>4, ActorStagesThen DEF StagesByActor
  <2> QED BY <1>4, <1>5, <2>3, <2>5, DialogDrops
<1>6. CASE q \notin Dialogs
  BY <1>4, <1>6, DialogsStay
<1> QED BY <1>5, <1>6

\* From the deferred answer to the punishment: the steps that come before it.
LEMMA ActSteps ==
    ASSUME GuardIInv, GuardIInv', NEW w \in Workers,
           DeferAction(w) \/ CheckAndSetPunishLock(w) \/ LoadPunishConfig(w)
             \/ CheckAndIncrementAdminAction(w) \/ CheckMember(w)
    PROVE  [D!Next]_D!promptVars
<1>1. worker[w].pc \in ActPCs /\ UNCHANGED <<begun, dialogs, executed>>
  BY DEF DeferAction, CheckAndSetPunishLock, LoadPunishConfig, CheckAndIncrementAdminAction,
     CheckMember, Doing, ActPCs
<1>2. ASSUME NEW pc \in ActPCs, Then(w, pc)
      PROVE  UNCHANGED D!promptVars
  <2>1. worker[w] \in Handling
    BY <1>1, WorkerBusy DEF GuardIInv, ActPCs
  <2>2. /\ worker'[w].pc = pc /\ worker'[w].id = worker[w].id
        /\ \A v \in Workers \ {w} : worker'[v] = worker[v]
    BY <1>2, <2>1 DEF Then, GuardIInv, GuardTypeOK, Handling
  <2> QED BY <1>1, <2>2, SameKind
<1>3. Stop(w) \/ \E pc \in ActPCs : Then(w, pc)
  BY DEF DeferAction, CheckAndSetPunishLock, LoadPunishConfig, CheckAndIncrementAdminAction,
     CheckMember, StepOrReturn, ActPCs
<1> QED BY <1>1, <1>2, <1>3, ActorReturns

\* The entry is stored: the dialog is open, or dropped.
LEMMA StoreSteps ==
    ASSUME GuardIInv, GuardIInv', NEW w \in Workers, StorePending(w)
    PROVE  [D!Next]_D!promptVars
<1>1. worker[w] \in Handling /\ worker[w].pc = "submit" /\ worker[w].id \in Dialogs
  BY WorkerBusy DEF GuardIInv, DialogWorkers, StorePending, Doing
<1>2. CASE Stop(w) /\ UNCHANGED dialogs
  BY <1>1, <1>2, ActorReturns DEF StorePending
<1>3. CASE /\ dialogs' = dialogs \cup {[id |-> worker[w].id, target |-> worker[w].target, age |-> 0]}
           /\ Then(w, "config")
  <2>0. PICK q \in Dialogs : q = worker[w].id
    BY <1>1
  <2>1. ActsFor(w, q) /\ q \in Asked
    BY <1>1, <2>0 DEF ActsFor, Asked
  <2>2. q \in begun /\ executed[q] = 0 /\ \A v \in Workers : ActsFor(v, q) => v = w
    BY <2>1 DEF GuardIInv, NotBegunIsFresh, OneActs
  <2>3. DialogStage[q] = "none"
    BY <1>1, <2>1, ActorStages DEF StagesByActor, ActPCs
  <2>4. /\ worker'[w].pc = "config" /\ worker'[w].id = q
        /\ \A v \in Workers \ {w} : worker'[v] = worker[v]
    BY <1>1, <1>3, <2>0 DEF Then, GuardIInv, GuardTypeOK, Handling
  <2>5. UNCHANGED <<begun, executed>>
    BY DEF StorePending
  <2>6. \A p \in Dialogs \ {q} : SameDialog(p)
    <3>1. \A p \in Asked \ {q} : /\ Working(p, ActPCs)' <=> Working(p, ActPCs)
                                 /\ Working(p, {"submit"})' <=> Working(p, {"submit"})
      BY <2>0, <2>4, OtherDialogs
    <3>2. \A p \in Dialogs \ {q} : DialogOf(p)' = DialogOf(p)
      BY <1>3, <2>0 DEF DialogOf
    <3> QED BY <2>5, <3>1, <3>2 DEF SameDialog, Asked
  <2>7. \A v \in Workers : ~ ActsFor(v, q)'
    BY <2>2, <2>4 DEF ActsFor, ActPCs
  <2>8. DialogOf(q)' # {}
    <3>1. [id |-> q, target |-> worker[w].target, age |-> 0] \in dialogs'
      BY <1>3, <2>0
    <3>2. [id |-> q, target |-> worker[w].target, age |-> 0] \in DialogOf(q)'
      BY <3>1 DEF DialogOf
    <3> QED BY <3>2
  <2>9. DialogStage'[q] = "open"
    BY <2>2, <2>5, <2>7, <2>8, ActorStagesThen DEF StagesByActor
  <2>10. D!Open(q)
    BY <2>3, <2>5, <2>6, <2>9, OneDialog DEF D!Open
  <2> QED BY <2>10 DEF D!Next
<1> QED BY <1>2, <1>3 DEF StorePending

\* One click takes the dialog; the others find it taken.
LEMMA TakeSteps ==
    ASSUME GuardIInv, GuardIInv', NEW w \in Workers, TakePending(w)
    PROVE  [D!Next]_D!promptVars
<1>0. PICK q \in Dialogs : q = worker[w].id
  BY DEF GuardIInv, DialogWorkers, TakePending, Doing
<1>1. worker[w] \in Handling /\ worker[w].pc = "take" /\ q \in Asked
  BY WorkerBusy DEF GuardIInv, TakePending, Doing, Asked
<1>2. UNCHANGED <<begun, executed>>
  BY DEF TakePending
<1>3. CASE DialogOf(q) = {}
  <2>1. worker'[w].pc = "off" /\ \A v \in Workers \ {w} : worker'[v] = worker[v]
    BY <1>0, <1>3 DEF TakePending, Stop, GuardIInv, GuardTypeOK, Off
  <2>2. dialogs' = dialogs
    BY <1>0, <1>3 DEF TakePending
  <2> QED BY <1>1, <1>2, <2>1, <2>2, SameKind DEF ActPCs
<1>4. CASE DialogOf(q) # {}
  <2>1. q \in begun /\ executed[q] = 0 /\ \A v \in Workers : ~ ActsFor(v, q)
    BY <1>1, <1>4 DEF GuardIInv, NotBegunIsFresh, EntryBeforeExecution, OneActs
  <2>2. DialogStage[q] = "open"
    BY <1>4, <2>1, ActorStages DEF StagesByActor
  <2>3. /\ worker'[w].pc = "defer" /\ worker'[w].id = q
        /\ \A v \in Workers \ {w} : worker'[v] = worker[v]
    BY <1>0, <1>1, <1>4 DEF TakePending, Then, GuardIInv, GuardTypeOK, Handling
  <2>4. \A p \in Dialogs \ {q} : SameDialog(p)
    <3>1. \A p \in Asked \ {q} : /\ Working(p, ActPCs)' <=> Working(p, ActPCs)
                                 /\ Working(p, {"submit"})' <=> Working(p, {"submit"})
      BY <1>0, <2>3, OtherDialogs
    <3>2. \A p \in Dialogs \ {q} : DialogOf(p)' = DialogOf(p)
      BY <1>0 DEF TakePending, DialogOf
    <3> QED BY <1>2, <3>1, <3>2 DEF SameDialog, Asked
  <2>5. ActsFor(w, q)'
    BY <2>3 DEF ActsFor, ActPCs
  <2>6. DialogStage'[q] = "taken"
    BY <2>3, <2>5, ActorStagesThen DEF StagesByActor, ActPCs
  <2>7. D!Take(q)
    BY <1>2, <2>2, <2>4, <2>6, OneDialog DEF D!Take
  <2> QED BY <2>7 DEF D!Next
<1> QED BY <1>3, <1>4

\* The punishment is carried out: of a dialog that was taken, or of a command that had none.
LEMMA ExecuteSteps ==
    ASSUME GuardIInv, GuardIInv', NEW w \in Workers, ExecutePunishment(w)
    PROVE  [D!Next]_D!promptVars
<1>0. PICK q \in Asked : q = worker[w].id
  BY WorkerBusy DEF GuardIInv, ExecutePunishment, Doing
<1>1. worker[w].pc = "apply" /\ ActsFor(w, q)
  BY <1>0 DEF ExecutePunishment, Doing, ActsFor, ActPCs
<1>2. executed[q] = 0
  BY <1>1 DEF GuardIInv, OneActs
<1>3. executed' = [executed EXCEPT ![q] = 1]
  BY <1>0, <1>2 DEF ExecutePunishment, GuardIInv, GuardTypeOK
<1>4. worker'[w].pc = "off" /\ \A v \in Workers \ {w} : worker'[v] = worker[v]
  BY DEF ExecutePunishment, Stop, GuardIInv, GuardTypeOK, Off
<1>5. UNCHANGED <<begun, dialogs>>
  BY DEF ExecutePunishment
<1>6. \A p \in Dialogs \ {q} : SameDialog(p)
  <2>1. \A p \in Asked \ {q} : /\ Working(p, ActPCs)' <=> Working(p, ActPCs)
                               /\ Working(p, {"submit"})' <=> Working(p, {"submit"})
    BY <1>0, <1>4, OtherDialogs
  <2>2. \A p \in Dialogs \ {q} : executed'[p] = executed[p]
    BY <1>3 DEF GuardIInv, GuardTypeOK
  <2> QED BY <1>5, <2>1, <2>2 DEF SameDialog, Asked, DialogOf
<1>7. CASE q \in Dialogs
  <2>1. DialogStage[q] = "taken"
    BY <1>1, <1>7, ActorStages DEF StagesByActor, ActPCs
  <2>2. executed'[q] > 0
    BY <1>3 DEF GuardIInv, GuardTypeOK
  <2>3. DialogStage'[q] = "posted"
    BY <1>7, <2>2, DialogStageThen
  <2>4. [p \in Dialogs |-> executed'[p]] = [[p \in Dialogs |-> executed[p]] EXCEPT ![q] = 1]
    <3>1. \A p \in Dialogs : executed'[p] = IF p = q THEN 1 ELSE executed[p]
      BY <1>3 DEF GuardIInv, GuardTypeOK, Asked
    <3> QED BY <1>7, <3>1
  <2>5. D!Post(q)
    BY <1>6, <1>7, <2>1, <2>3, <2>4, OneDialog DEF D!Post
  <2> QED BY <1>7, <2>5 DEF D!Next
<1>8. CASE q \notin Dialogs
  <2>1. \A p \in Dialogs : SameDialog(p)
    BY <1>6, <1>8
  <2>2. DialogStage' = DialogStage
    <3>1. \A p \in Dialogs : DialogStage'[p] = DialogStage[p]
      BY <2>1, DialogStageOf, DialogStageThen DEF SameDialog
    <3> QED BY <3>1 DEF DialogStage
  <2>3. [p \in Dialogs |-> executed'[p]] = [p \in Dialogs |-> executed[p]]
    BY <2>1 DEF SameDialog
  <2> QED BY <2>2, <2>3 DEF D!promptVars
<1> QED BY <1>7, <1>8

\* A new punishment, a click and a dialog that is shown leave every dialog where it is.
LEMMA AskSteps ==
    ASSUME GuardIInv, NEW w \in Workers,
           \/ ShowDialog(w)
           \/ \E b \in buttons : ClickAction(w, b)
           \/ \E p \in Asked, t \in Targets : PunishCommand(w, p, t) \/ SubmitModal(w, p, t)
    PROVE  UNCHANGED D!promptVars
<1>1. CASE ShowDialog(w)
  <2>1. worker[w].pc = "config" /\ worker'[w].pc = "off" /\ \A v \in Workers \ {w} : worker'[v] = worker[v]
    BY <1>1 DEF ShowDialog, Doing, Stop, GuardIInv, GuardTypeOK, Off
  <2> QED BY <1>1, <2>1, SameKind DEF ShowDialog, ActPCs
<1>2. ASSUME NEW b \in buttons, ClickAction(w, b)
      PROVE  UNCHANGED D!promptVars
  <2>1. worker[w].pc = "off" /\ worker'[w].pc = "take" /\ \A v \in Workers \ {w} : worker'[v] = worker[v]
    BY <1>2 DEF ClickAction, Doing, GuardIInv, GuardTypeOK
  <2> QED BY <1>2, <2>1, SameKind DEF ClickAction, ActPCs
<1>3. ASSUME NEW p \in Asked, NEW t \in Targets, PunishCommand(w, p, t) \/ SubmitModal(w, p, t)
      PROVE  UNCHANGED D!promptVars
  <2>1. /\ worker[w].pc = "off" /\ p \notin begun /\ begun' = begun \cup {p}
        /\ worker'[w].id = p
        /\ worker'[w].pc = IF p \in Dialogs THEN "submit" ELSE "defer"
        /\ \A v \in Workers \ {w} : worker'[v] = worker[v]
        /\ UNCHANGED <<dialogs, executed>>
    BY <1>3, GuardAssumption DEF PunishCommand, SubmitModal, Start, Doing, GuardIInv, GuardTypeOK
  <2>2. \A r \in Dialogs \ {p} : SameDialog(r)
    <3>1. \A r \in Asked \ {p} : /\ Working(r, ActPCs)' <=> Working(r, ActPCs)
                                 /\ Working(r, {"submit"})' <=> Working(r, {"submit"})
      BY <2>1, OtherDialogs
    <3> QED BY <2>1, <3>1 DEF SameDialog, DialogOf, Asked
  <2>3. p \in Dialogs => SameDialog(p)
    <3>1. SUFFICES ASSUME p \in Dialogs PROVE SameDialog(p)
      OBVIOUS
    <3>2. Working(p, {"submit"})'
      BY <2>1, <3>1 DEF Working
    <3>3. Working(p, ActPCs)' <=> Working(p, ActPCs)
      BY <2>1, <3>1 DEF Working, ActPCs
    <3> QED BY <2>1, <3>2, <3>3 DEF SameDialog, DialogOf
  <2> QED BY <2>1, <2>2, <2>3, DialogsStay
<1> QED BY <1>1, <1>2, <1>3

\* The sweep drops open dialogs; the end of the process drops all that are not carried out.
LEMMA GuardSweepSteps ==
    ASSUME GuardIInv, GuardIInv',
           GuardTick \/ CleanupExpiredPunishments \/ CleanupAdminActions \/ ResetPunishCooldown \/ GuardRestart
    PROVE  [D!Next]_D!promptVars
<1>1. executed' = executed /\ begun' = begun
  BY DEF GuardTick, CleanupExpiredPunishments, CleanupAdminActions, ResetPunishCooldown, GuardRestart
<1>2. CASE GuardTick
  <2>1. \A p \in Dialogs : (DialogOf(p)' = {}) <=> (DialogOf(p) = {})
    <3> DEFINE Aged(d) == [d EXCEPT !.age = IF @ > LockTicks THEN @ ELSE @ + 1]
    <3>1. \A d \in dialogs : Aged(d).id = d.id
      BY DEF GuardIInv, GuardTypeOK, PendingPunishment
    <3>2. dialogs' = {Aged(d) : d \in dialogs}
      BY <1>2 DEF GuardTick
    <3> HIDE DEF Aged
    <3> QED BY <3>1, <3>2 DEF DialogOf
  <2>2. \A p \in Dialogs : SameDialog(p)
    BY <1>1, <1>2, <2>1 DEF GuardTick, SameDialog, Working
  <2> QED BY <1>1, <2>2, DialogsStay
<1>3. CASE CleanupAdminActions \/ ResetPunishCooldown
  <2>1. \A p \in Dialogs : SameDialog(p)
    BY <1>1, <1>3 DEF CleanupAdminActions, ResetPunishCooldown, SameDialog, Working, DialogOf
  <2> QED BY <1>1, <2>1, DialogsStay
<1>4. CASE CleanupExpiredPunishments
  <2>1. \A p \in Dialogs : /\ Working(p, ActPCs)' <=> Working(p, ActPCs)
                           /\ Working(p, {"submit"})' <=> Working(p, {"submit"})
                           /\ DialogOf(p)' \subseteq DialogOf(p)
    BY <1>4 DEF CleanupExpiredPunishments, Working, DialogOf
  <2>2. \A p \in Dialogs : DialogOf(p) # {} =>
            /\ p \in begun /\ executed[p] = 0
            /\ ~ Working(p, ActPCs) /\ ~ Working(p, {"submit"})
    BY DEF GuardIInv, NotBegunIsFresh, EntryBeforeExecution, OneActs, Working, ActsFor, Asked
  <2>3. ASSUME NEW p \in Dialogs
        PROVE  \/ DialogStage'[p] = DialogStage[p]
               \/ DialogStage[p] \in {"none", "open", "taken"} /\ DialogStage'[p] = "dropped"
    <3>1. CASE (DialogOf(p)' = {}) <=> (DialogOf(p) = {})
      BY <1>1, <2>1, <3>1, DialogStageOf, DialogStageThen
    <3>2. CASE DialogOf(p)' = {} /\ DialogOf(p) # {}
      BY <1>1, <2>1, <2>2, <3>2, DialogStageOf, DialogStageThen
    <3> QED BY <2>1, <3>1, <3>2
  <2> QED BY <1>1, <2>3, DialogsDrop
<1>5. CASE GuardRestart
  <2>1. dialogs' = {} /\ \A w \in Workers : worker'[w].pc = "off"
    BY <1>5 DEF GuardRestart, Off
  <2>2. \A p \in Dialogs : ~ Working(p, ActPCs)' /\ ~ Working(p, {"submit"})' /\ DialogOf(p)' = {}
    BY <2>1 DEF Working, DialogOf, ActPCs
  <2>3. ASSUME NEW p \in Dialogs
        PROVE  \/ DialogStage'[p] = DialogStage[p]
               \/ DialogStage[p] \in {"none", "open", "taken"} /\ DialogStage'[p] = "dropped"
    <3>1. CASE p \in begun
      BY <1>1, <2>2, <3>1, DialogStageOf, DialogStageThen
    <3>2. CASE p \notin begun
      <4>1. DialogOf(p) = {} /\ executed[p] = 0 /\ ~ Working(p, ActPCs)
        BY <3>2 DEF GuardIInv, NotBegunIsFresh, Working, ActsFor, Asked
      <4> QED BY <1>1, <2>2, <3>2, <4>1, DialogStageOf, DialogStageThen
    <3> QED BY <3>1, <3>2
  <2> QED BY <1>1, <2>3, DialogsDrop
<1> QED BY <1>2, <1>3, <1>4, <1>5

\* Every step before a punishment is a step of the dialogs, or none.
LEMMA GuardSimulates == GuardIInv /\ GuardIInv' /\ [GuardNext]_guardVars => [D!Next]_D!promptVars
<1> SUFFICES ASSUME GuardIInv, GuardIInv', [GuardNext]_guardVars PROVE [D!Next]_D!promptVars
  OBVIOUS
<1>1. ASSUME NEW w \in Workers, WorkerStep(w) PROVE [D!Next]_D!promptVars
  BY <1>1, StoreSteps, AskSteps, TakeSteps, ActSteps, ExecuteSteps DEF WorkerStep
<1>2. CASE UNCHANGED guardVars
  <2>1. \A p \in Dialogs : SameDialog(p)
    BY <1>2 DEF guardVars, SameDialog, Working, DialogOf
  <2>2. executed' = executed
    BY <1>2 DEF guardVars
  <2> QED BY <2>1, <2>2, DialogsStay
<1> QED BY <1>1, <1>2, AskSteps, GuardSweepSteps DEF GuardNext

\* The invariant of the dialogs holds throughout.
LEMMA AlwaysGuardIInv == GuardSpec => []GuardIInv
BY InitGuardIInv, NextGuardIInv, PTL DEF GuardSpec

\* Every variable before a punishment has its type, and none is carried out twice.
THEOREM GuardTypesHold == GuardSpec => []GuardTypeOK
<1>1. GuardIInv => GuardTypeOK
  BY DEF GuardIInv
<1> QED BY <1>1, AlwaysGuardIInv, PTL

\* The handlers of a quick punishment take only the steps of a prompt: it is carried out at most
\* once, after one click took the entry, whatever the lock, the limit and failing calls do.
THEOREM DialogsAreSafe == GuardSpec => D!Safety
<1>1. GuardIInv /\ GuardIInv' /\ [GuardNext]_guardVars => [D!Next]_D!promptVars
  BY GuardSimulates
<1> QED BY <1>1, DialogsBegin, AlwaysGuardIInv, PTL DEF GuardSpec, D!Safety
-----------------------------------------------------------------------------
(* Roll panels: the types                                                  *)

\* A goroutine at work has loaded the panel, and one that has sent a panel knows its ID.
PanelIsLoaded == \A r \in PanelTasks : ~ Idle(r) => panelMemory \in Content
SentPanelHasID ==
    \A r \in PanelTasks : task[r].pc \in {"save", "update"} => task[r].new \in PanelID

PanelTypes == PanelTypeOK /\ PanelIsLoaded /\ SentPanelHasID

\* What a goroutine at work is.
LEMMA PanelWork ==
    ASSUME PanelTypes, NEW r \in PanelTasks, task[r].pc # "none"
    PROVE  task[r] \in Task /\ ~ Idle(r) /\ panelMemory \in Content
BY DEF PanelTypes, PanelTypeOK, PanelIsLoaded, Idle, NoTask, Task

\* The bounds hold after every call that may fail.
LEMMA PanelFaultTypes ==
    ASSUME PanelTypeOK, PanelFault \/ CallFails \/ CallWorks
    PROVE  /\ panelFaults' \in 0..MaxPanelFaults
           /\ CallFails \/ CallWorks => panelMishap' \in BOOLEAN
<1>1. PanelFault \/ UNCHANGED panelFaults
  BY DEF CallFails, CallWorks
<1>2. panelFaults' \in 0..MaxPanelFaults
  BY <1>1, PanelBoundAssumption DEF PanelTypeOK, PanelFault
<1>3. CallFails \/ CallWorks => panelMishap' \in BOOLEAN
  <2>1. CASE CallFails
    BY <2>1 DEF CallFails
  <2>2. CASE CallWorks
    BY <2>2, Zenon DEF CallWorks, PanelTypeOK
  <2> QED BY <2>1, <2>2
<1> QED BY <1>2, <1>3

\* Saving leaves a file that was written, the old one or a broken one.
LEMMA SavesTypes ==
    ASSUME PanelTypeOK, NEW m \in Content, Saves(m)
    PROVE  /\ panelFile' \in Content \cup {Broken}
           /\ panelFaults' \in 0..MaxPanelFaults /\ panelMishap' \in BOOLEAN
BY PanelFaultTypes DEF Saves, PanelTypeOK

\* Taking pointers apart changes no task but its copy of the panel.
LEMMA DetachTypes ==
    ASSUME panelMemory \in Content, NEW tasks \in [PanelTasks -> Task \cup {NoTask}]
    PROVE  /\ Detach(tasks) \in [PanelTasks -> Task \cup {NoTask}]
           /\ \A r \in PanelTasks : /\ Detach(tasks)[r].pc = tasks[r].pc
                                    /\ tasks[r] # NoTask => Detach(tasks)[r].new = tasks[r].new
                                    /\ tasks[r] = NoTask => Detach(tasks)[r] = NoTask
<1>1. \A r \in PanelTasks : tasks[r] # NoTask =>
         [tasks[r] EXCEPT !.info = panelMemory.panel, !.shared = FALSE] \in Task
  BY ZenonT(40) DEF Task, Content
<1> QED BY <1>1 DEF Detach, Task

\* A task begins.
LEMMA BeginTaskTypes ==
    ASSUME PanelTypes, NEW r \in PanelTasks, NEW t \in Task, NEW m \in Content,
           t.pc \in {"delete", "send"}, panelMemory' = m, BeginTask(r, t)
    PROVE  /\ task' \in [PanelTasks -> Task \cup {NoTask}] /\ panelOverlap' \in BOOLEAN
           /\ PanelIsLoaded' /\ SentPanelHasID'
BY DEF PanelTypes, PanelTypeOK, BeginTask, PanelIsLoaded, SentPanelHasID

\* A task ends, and memory is as it was or has another panel.
LEMMA EndTaskTypes ==
    ASSUME PanelTypes, NEW r \in PanelTasks, EndTask(r), panelMemory' \in {panelMemory} \cup Content
    PROVE  /\ task' \in [PanelTasks -> Task \cup {NoTask}]
           /\ PanelIsLoaded' /\ SentPanelHasID'
BY DEF PanelTypes, PanelTypeOK, EndTask, PanelIsLoaded, SentPanelHasID, Idle, NoTask

\* A task ends, and memory has another panel that the others do not point to.
LEMMA DetachedTypes ==
    ASSUME PanelTypes, panelMemory \in Content, NEW r \in PanelTasks, panelMemory' \in Content,
           task' = Detach([task EXCEPT ![r] = NoTask])
    PROVE  /\ task' \in [PanelTasks -> Task \cup {NoTask}]
           /\ PanelIsLoaded' /\ SentPanelHasID'
<1>1. [task EXCEPT ![r] = NoTask] \in [PanelTasks -> Task \cup {NoTask}]
  BY DEF PanelTypes, PanelTypeOK
<1>2. /\ task' \in [PanelTasks -> Task \cup {NoTask}]
      /\ \A s \in PanelTasks \ {r} : task'[s].pc = task[s].pc /\ (task[s] # NoTask => task'[s].new = task[s].new)
      /\ task'[r] = NoTask
  BY <1>1, DetachTypes DEF PanelTypes, PanelTypeOK
<1>3. SentPanelHasID'
  <2> SUFFICES ASSUME NEW s \in PanelTasks, task'[s].pc \in {"save", "update"}
               PROVE  task'[s].new \in PanelID
    BY DEF SentPanelHasID
  <2>1. task'[s] # NoTask /\ s # r
    BY <1>2 DEF NoTask
  <2>2. task'[s].pc = task[s].pc
    BY <1>2, <2>1
  <2>3. task[s] # NoTask
    BY <2>2 DEF NoTask
  <2> QED BY <1>2, <2>1, <2>2, <2>3 DEF PanelTypes, SentPanelHasID
<1> QED BY <1>2, <1>3 DEF PanelIsLoaded

\* The types hold when the process starts,
LEMMA InitPanelTypes == PanelInit => PanelTypes
<1> SUFFICES ASSUME PanelInit PROVE PanelTypes
  OBVIOUS
<1>1. 1 \in PanelID /\ (CHOOSE t \in Titles : TRUE) \in Titles
  BY PanelAssumption DEF PanelID
<1>2. panels \subseteq PanelID \X Titles /\ panelFile \in Content
  <2>1. CASE panels = {} /\ panelFile = [panel |-> NoInfo, other |-> TRUE]
    BY <2>1 DEF Content
  <2>2. PICK title \in Titles : title = (CHOOSE t \in Titles : TRUE)
    BY <1>1
  <2>3. CASE /\ panels = {<<1, title>>}
             /\ panelFile = [panel |-> [id |-> 1, title |-> title], other |-> TRUE]
    BY <1>1, <2>3 DEF Content, Info
  <2> QED BY <2>1, <2>2, <2>3 DEF PanelInit
<1>3. posts \in 0..MaxPosts /\ setups \in 0..MaxSetups /\ panelFaults \in 0..MaxPanelFaults
  BY PanelBoundAssumption DEF PanelInit
<1>4. \A r \in PanelTasks : Idle(r) /\ task[r].pc = "none"
  BY DEF PanelInit, Idle, NoTask
<1> QED BY <1>2, <1>3, <1>4 DEF PanelInit, PanelTypes, PanelTypeOK, PanelIsLoaded, SentPanelHasID

\* and after every step: a command,
LEMMA SetupRollPanelTypes ==
    ASSUME PanelTypes, NEW r \in PanelTasks, NEW title \in Titles, SetupRollPanel(r, title)
    PROVE  PanelTypes'
<1>1. PICK m \in Content :
         /\ Loads(m) /\ panelMemory' = m
         /\ BeginTask(r, [ pc |-> IF m.panel = NoInfo THEN "send" ELSE "delete", setup |-> TRUE,
                           title |-> title, info |-> m.panel, shared |-> TRUE, new |-> 0 ])
  BY DEF SetupRollPanel
<1>2. /\ task' \in [PanelTasks -> Task \cup {NoTask}] /\ panelOverlap' \in BOOLEAN
      /\ PanelIsLoaded' /\ SentPanelHasID'
  BY <1>1, BeginTaskTypes DEF Task, Content
<1>3. panelFaults' \in 0..MaxPanelFaults /\ panelMishap' \in BOOLEAN
  BY <1>1, PanelFaultTypes DEF PanelTypes, Loads
<1>4. setups' \in 0..MaxSetups
  BY PanelBoundAssumption DEF SetupRollPanel, PanelTypes, PanelTypeOK
<1> QED BY <1>1, <1>2, <1>3, <1>4 DEF SetupRollPanel, PanelTypes, PanelTypeOK

\* the deletion of the old panel,
LEMMA DeletePanelTypes ==
    ASSUME PanelTypes, NEW r \in PanelTasks, DeletePanel(r)
    PROVE  PanelTypes'
<1>1. task[r] \in Task /\ ~ Idle(r) /\ panelMemory \in Content
  BY PanelWork DEF DeletePanel
<1>2. panels' \subseteq panels /\ panelFaults' \in 0..MaxPanelFaults /\ panelMishap' \in BOOLEAN
  BY PanelFaultTypes DEF PanelTypes, DeletePanel
<1>3. task' \in [PanelTasks -> Task \cup {NoTask}]
  BY <1>1 DEF DeletePanel, PanelTypes, PanelTypeOK, Task
<1>4. PanelIsLoaded' /\ SentPanelHasID'
  BY <1>1 DEF DeletePanel, PanelTypes, PanelTypeOK, Task, PanelIsLoaded, SentPanelHasID
<1> QED BY <1>2, <1>3, <1>4 DEF DeletePanel, PanelTypes, PanelTypeOK

\* a stop for a guild without roll cards,
LEMMA UnconfiguredTypes ==
    ASSUME PanelTypes, NEW r \in PanelTasks, Unconfigured(r)
    PROVE  PanelTypes'
<1>1. task[r] \in Task /\ ~ Idle(r) /\ panelMemory \in Content
  BY PanelWork DEF Unconfigured
<1>2. CASE task[r].setup
  <2>1. panelMishap' \in BOOLEAN
    BY <1>2 DEF Unconfigured, PanelTypes, PanelTypeOK
  <2> QED BY <1>2, <2>1, EndTaskTypes DEF Unconfigured, PanelTypes, PanelTypeOK
<1>3. CASE ~ task[r].setup
  <2>1. panelMemory' \in Content
    BY <1>1, <1>3 DEF Unconfigured, Content
  <2>2. panelFile' \in Content \cup {Broken} /\ panelFaults' \in 0..MaxPanelFaults /\ panelMishap' \in BOOLEAN
    BY <1>3, <2>1, SavesTypes DEF Unconfigured, PanelTypes
  <2>3. /\ task' \in [PanelTasks -> Task \cup {NoTask}]
        /\ PanelIsLoaded' /\ SentPanelHasID'
    BY <1>1, <1>3, <2>1, DetachedTypes DEF Unconfigured
  <2> QED BY <2>1, <2>2, <2>3 DEF Unconfigured, PanelTypes, PanelTypeOK
<1> QED BY <1>2, <1>3

\* the new panel,
LEMMA SendPanelTypes ==
    ASSUME PanelTypes, NEW r \in PanelTasks, SendPanel(r)
    PROVE  PanelTypes'
<1>1. task[r] \in Task /\ ~ Idle(r) /\ panelMemory \in Content
  BY PanelWork DEF SendPanel
<1>2. PICK id \in PanelID : id = (CHOOSE i \in FreshIDs : TRUE)
  BY DEF SendPanel, FreshIDs
<1>3. CASE /\ panels' = panels \cup {<<id, task[r].title>>}
           /\ arrivals' = arrivals \cup {<<id, task[r].title>>}
           /\ task' = [task EXCEPT ![r].new = id, ![r].pc = IF task[r].setup THEN "save" ELSE "update"]
           /\ CallWorks
  <2>1. task' \in [PanelTasks -> Task \cup {NoTask}]
    BY <1>1, <1>3 DEF PanelTypes, PanelTypeOK, Task
  <2>2. PanelIsLoaded' /\ SentPanelHasID'
    BY <1>1, <1>3 DEF SendPanel, PanelTypes, PanelTypeOK, PanelIsLoaded, SentPanelHasID
  <2>3. panels' \subseteq PanelID \X Titles /\ arrivals' \subseteq PanelID \X Titles
    BY <1>1, <1>3 DEF PanelTypes, PanelTypeOK, Task
  <2> QED BY <1>3, <2>1, <2>2, <2>3 DEF SendPanel, PanelTypes, PanelTypeOK, CallWorks
<1>4. CASE EndTask(r) /\ UNCHANGED <<panels, arrivals>> /\ CallFails
  BY <1>4, EndTaskTypes, PanelFaultTypes DEF SendPanel, PanelTypes, PanelTypeOK
<1> QED BY <1>2, <1>3, <1>4 DEF SendPanel

\* its way to memory and the file,
LEMMA SavePersistentPanelTypes ==
    ASSUME PanelTypes, NEW r \in PanelTasks, SavePersistentPanel(r)
    PROVE  PanelTypes'
<1>1. task[r] \in Task /\ ~ Idle(r) /\ panelMemory \in Content /\ task[r].new \in PanelID
  BY PanelWork DEF SavePersistentPanel, PanelTypes, SentPanelHasID
<1>2. panelMemory' \in Content
  BY <1>1 DEF SavePersistentPanel, Content, Info, Task
<1>3. panelFile' \in Content \cup {Broken} /\ panelFaults' \in 0..MaxPanelFaults /\ panelMishap' \in BOOLEAN
  BY <1>2, SavesTypes DEF SavePersistentPanel, PanelTypes
<1>4. /\ task' \in [PanelTasks -> Task \cup {NoTask}]
      /\ PanelIsLoaded' /\ SentPanelHasID'
  BY <1>1, <1>2, DetachedTypes DEF SavePersistentPanel
<1> QED BY <1>2, <1>3, <1>4 DEF SavePersistentPanel, PanelTypes, PanelTypeOK

\* A message arrives: a refresh begins, or the panel is only loaded.
LEMMA RefreshTypes ==
    ASSUME PanelTypes, NEW r \in PanelTasks, NEW m \in Content, Loads(m), panelMemory' = m,
           UNCHANGED <<task, panelOverlap>> \/ (m.panel # NoInfo /\ BeginTask(r, NewRefresh(m)))
    PROVE  /\ task' \in [PanelTasks -> Task \cup {NoTask}] /\ panelOverlap' \in BOOLEAN
           /\ PanelIsLoaded' /\ SentPanelHasID'
           /\ panelFaults' \in 0..MaxPanelFaults /\ panelMishap' \in BOOLEAN
<1>1. panelFaults' \in 0..MaxPanelFaults /\ panelMishap' \in BOOLEAN
  BY PanelFaultTypes DEF PanelTypes, Loads
<1>2. CASE UNCHANGED <<task, panelOverlap>>
  BY <1>1, <1>2 DEF PanelTypes, PanelTypeOK, PanelIsLoaded, SentPanelHasID
<1>3. CASE m.panel # NoInfo /\ BeginTask(r, NewRefresh(m))
  <2>1. NewRefresh(m) \in Task /\ NewRefresh(m).pc = "delete"
    BY <1>3 DEF NewRefresh, Task, Content, Info
  <2> QED BY <1>1, <1>3, <2>1, BeginTaskTypes
<1> QED BY <1>2, <1>3

\* a message of a member,
LEMMA MemberPostsTypes ==
    ASSUME PanelTypes, NEW r \in PanelTasks, MemberPosts(r)
    PROVE  PanelTypes'
<1>1. PICK m \in Content :
         /\ Loads(m) /\ panelMemory' = m
         /\ UNCHANGED <<task, panelOverlap>> \/ (m.panel # NoInfo /\ BeginTask(r, NewRefresh(m)))
  BY DEF MemberPosts
<1>2. posts' \in 0..MaxPosts
  BY PanelBoundAssumption DEF MemberPosts, PanelTypes, PanelTypeOK
<1> QED BY <1>1, <1>2, RefreshTypes DEF MemberPosts, PanelTypes, PanelTypeOK

\* one of the bot,
LEMMA PanelArrivesTypes ==
    ASSUME PanelTypes, NEW r \in PanelTasks, NEW sent \in arrivals, PanelArrives(r, sent)
    PROVE  PanelTypes'
<1>1. PICK m \in Content :
         /\ Loads(m) /\ panelMemory' = m
         /\ UNCHANGED <<task, panelOverlap>> \/ (m.panel # NoInfo /\ BeginTask(r, NewRefresh(m)))
  BY DEF PanelArrives
<1> QED BY <1>1, RefreshTypes DEF PanelArrives, PanelTypes, PanelTypeOK

\* the new ID of a refreshed panel,
LEMMA UpdatePanelMessageIDTypes ==
    ASSUME PanelTypes, NEW r \in PanelTasks, UpdatePanelMessageID(r)
    PROVE  PanelTypes'
<1>1. task[r] \in Task /\ ~ Idle(r) /\ panelMemory \in Content /\ task[r].new \in PanelID
  BY PanelWork DEF UpdatePanelMessageID, PanelTypes, SentPanelHasID
<1>2. CASE panelMemory.panel = NoInfo
  BY <1>2, EndTaskTypes, PanelFaultTypes DEF UpdatePanelMessageID, PanelTypes, PanelTypeOK, CallWorks
<1>3. CASE panelMemory.panel # NoInfo
  <2>1. panelMemory' \in Content
    BY <1>1, <1>3 DEF UpdatePanelMessageID, Content, Info
  <2>2. panelFile' \in Content \cup {Broken} /\ panelFaults' \in 0..MaxPanelFaults /\ panelMishap' \in BOOLEAN
    BY <1>3, <2>1, SavesTypes DEF UpdatePanelMessageID, PanelTypes
  <2>3. /\ task' \in [PanelTasks -> Task \cup {NoTask}]
        /\ PanelIsLoaded' /\ SentPanelHasID'
    BY <2>1, EndTaskTypes DEF UpdatePanelMessageID
  <2> QED BY <2>1, <2>2, <2>3 DEF UpdatePanelMessageID, PanelTypes, PanelTypeOK
<1> QED BY <1>2, <1>3

\* and the end of the process.
LEMMA PanelRestartTypes ==
    ASSUME PanelTypes, PanelRestart
    PROVE  PanelTypes'
<1>1. panelFaults' \in 0..MaxPanelFaults
  BY PanelFaultTypes DEF PanelTypes, PanelRestart
<1>2. panelFile' \in Content \cup {Broken} /\ panelMishap' \in BOOLEAN
  BY DEF PanelTypes, PanelTypeOK, PanelRestart
<1>3. task' \in [PanelTasks -> Task \cup {NoTask}] /\ \A r \in PanelTasks : Idle(r)' /\ task'[r].pc = "none"
  BY DEF PanelRestart, Idle, NoTask
<1> QED BY <1>1, <1>2, <1>3 DEF PanelRestart, PanelTypes, PanelTypeOK, PanelIsLoaded, SentPanelHasID

\* Every step keeps the types.
LEMMA NextPanelTypes == PanelTypes /\ [PanelNext]_panelVars => PanelTypes'
<1> SUFFICES ASSUME PanelTypes, [PanelNext]_panelVars PROVE PanelTypes'
  OBVIOUS
<1>1. ASSUME NEW r \in PanelTasks, TaskStep(r) PROVE PanelTypes'
  BY <1>1, DeletePanelTypes, UnconfiguredTypes, SendPanelTypes, SavePersistentPanelTypes,
     UpdatePanelMessageIDTypes, PanelArrivesTypes DEF TaskStep
<1>2. ASSUME NEW r \in PanelTasks, MemberPosts(r) \/ \E t \in Titles : SetupRollPanel(r, t)
      PROVE  PanelTypes'
  BY <1>2, MemberPostsTypes, SetupRollPanelTypes
<1>3. CASE Reconfigure
  BY <1>3, PanelFaultTypes DEF Reconfigure, PanelTypes, PanelTypeOK, PanelIsLoaded, SentPanelHasID, Idle
<1>4. CASE PanelRestart
  BY <1>4, PanelRestartTypes
<1>5. CASE UNCHANGED panelVars
  BY <1>5 DEF panelVars, PanelTypes, PanelTypeOK, PanelIsLoaded, SentPanelHasID, Idle
<1> QED BY <1>1, <1>2, <1>3, <1>4, <1>5 DEF PanelNext
-----------------------------------------------------------------------------
(* Roll panels: one panel                                                  *)

\* No two goroutines have worked on the panel at a time, and none has met with a mishap.
Careful == ~ panelOverlap /\ ~ panelMishap

\* The panel that the file knows.
Stands == IF panelFile.panel = NoInfo THEN {}
          ELSE {<<panelFile.panel.id, panelFile.panel.title>>}

\* Memory is the file, and a goroutine at work has loaded it.
FileIsKnown == Careful =>
    /\ panelFile \in Content
    /\ panelFile.other
    /\ panelMemory # Unread \/ (\E r \in PanelTasks : ~ Idle(r)) => panelMemory = panelFile

OneWorks == Careful => \A r, s \in PanelTasks : ~ Idle(r) /\ ~ Idle(s) => r = s

\* A goroutine has not deleted the panel yet, has deleted it, or has sent the next one.
Halfway(r) ==
    /\ task[r].shared
    /\ task[r].setup \/ (panelFile.panel # NoInfo /\ task[r].title = panelFile.panel.title)
    /\ task[r].pc = "delete" => panelFile.panel # NoInfo /\ panels = Stands
    /\ task[r].pc = "send" => panels = {}
    /\ task[r].pc = "save" => task[r].setup /\ panels = {<<task[r].new, task[r].title>>}
    /\ task[r].pc = "update" => ~ task[r].setup /\ panels = {<<task[r].new, task[r].title>>}

PanelsAddUp == Careful =>
    /\ (\A r \in PanelTasks : Idle(r)) => panels = Stands
    /\ \A r \in PanelTasks : ~ Idle(r) => Halfway(r)

PanelIInv == PanelTypes /\ FileIsKnown /\ OneWorks /\ PanelsAddUp

\* The channel begins with the panel that the file knows.
LEMMA InitPanelIInv == PanelInit => PanelIInv
<1> SUFFICES ASSUME PanelInit PROVE PanelIInv
  OBVIOUS
<1>1. PanelTypes
  BY InitPanelTypes
<1>2. \A r \in PanelTasks : Idle(r)
  BY DEF PanelInit, Idle
<1>3. panelFile.other /\ panels = Stands
  <2>1. CASE panels = {} /\ panelFile = [panel |-> NoInfo, other |-> TRUE]
    BY <2>1 DEF Stands
  <2>2. PICK title : title = (CHOOSE t \in Titles : TRUE)
    OBVIOUS
  <2>3. CASE /\ panels = {<<1, title>>}
             /\ panelFile = [panel |-> [id |-> 1, title |-> title], other |-> TRUE]
    <3>1. panelFile.panel.id = 1 /\ panelFile.panel.title = title /\ panelFile.panel # NoInfo
      BY <2>3 DEF NoInfo
    <3> QED BY <2>3, <3>1 DEF Stands
  <2> QED BY <2>1, <2>2, <2>3 DEF PanelInit
<1>4. panelFile \in Content
  BY <1>1 DEF PanelInit, PanelTypes, PanelTypeOK, Broken
<1> QED BY <1>1, <1>2, <1>3, <1>4 DEF PanelIInv, PanelInit, FileIsKnown, OneWorks, PanelsAddUp

\* A care that is still there after a step was there before it, and no call failed in it.
LEMMA CareLasts ==
    ASSUME PanelTypes, [PanelNext]_panelVars, Careful'
    PROVE  Careful /\ ~ CallFails
<1>1. panelMishap => panelMishap'
  BY DEF PanelNext, TaskStep, DeletePanel, Unconfigured, SendPanel, SavePersistentPanel,
     UpdatePanelMessageID, PanelArrives, MemberPosts, SetupRollPanel, Loads, Saves, Reconfigure,
     PanelRestart, CallFails, CallWorks, panelVars
<1>2. panelOverlap => panelOverlap'
  BY DEF PanelNext, TaskStep, DeletePanel, Unconfigured, SendPanel, SavePersistentPanel,
     UpdatePanelMessageID, PanelArrives, MemberPosts, SetupRollPanel, BeginTask, Reconfigure,
     PanelRestart, panelVars
<1> QED BY <1>1, <1>2 DEF Careful, CallFails

\* What the invariant says of a state that care was taken in.
InCare ==
    /\ panelFile \in Content
    /\ panelFile.other
    /\ panelMemory # Unread \/ (\E r \in PanelTasks : ~ Idle(r)) => panelMemory = panelFile
    /\ \A r, s \in PanelTasks : ~ Idle(r) /\ ~ Idle(s) => r = s
    /\ (\A r \in PanelTasks : Idle(r)) => panels = Stands
    /\ \A r \in PanelTasks : ~ Idle(r) => Halfway(r)

\* Without a fault memory is loaded from the file, or was before.
LEMMA CareLoads ==
    ASSUME InCare, ~ CallFails, NEW m \in Content, Loads(m)
    PROVE  m = panelFile
BY DEF InCare, Loads, Broken, Content

\* A task begins where none is at work.
LEMMA CareBegins ==
    ASSUME InCare, PanelTypes, NEW r \in PanelTasks, Idle(r), NEW t \in Task, BeginTask(r, t), ~ panelOverlap',
           panelMemory' = panelFile, UNCHANGED <<panels, panelFile>>,
           t.shared, t.setup \/ t.title = panelFile.panel.title,
           t.pc = IF panelFile.panel = NoInfo THEN "send" ELSE "delete",
           panelFile.panel = NoInfo => t.setup
    PROVE  InCare'
<1>1. \A s \in PanelTasks : Idle(s)
  BY DEF BeginTask
<1>2. \A s \in PanelTasks \ {r} : Idle(s)'
  BY <1>1 DEF BeginTask, Idle, PanelTypes, PanelTypeOK
<1>3. task'[r] = t /\ ~ Idle(r)'
  BY DEF BeginTask, PanelTypes, PanelTypeOK, Idle, NoTask, Task
<1>4. panels = Stands /\ Stands' = Stands
  BY <1>1 DEF InCare, Stands
<1>5. Halfway(r)'
  <2>1. CASE panelFile.panel = NoInfo
    BY <1>3, <1>4, <2>1 DEF Halfway, Stands
  <2>2. CASE panelFile.panel # NoInfo
    BY <1>3, <1>4, <2>2 DEF Halfway
  <2> QED BY <2>1, <2>2
<1> QED BY <1>2, <1>3, <1>5 DEF InCare

\* A message arrives, and no refresh begins.
LEMMA CareRests ==
    ASSUME InCare, panelMemory' = panelFile, UNCHANGED <<panels, panelFile, task>>
    PROVE  InCare'
BY DEF InCare, Stands, Halfway, Idle

\* A command begins.
LEMMA SetupRollPanelCare ==
    ASSUME InCare, PanelTypes, ~ CallFails, ~ panelOverlap', NEW r \in PanelTasks, NEW title \in Titles,
           SetupRollPanel(r, title)
    PROVE  InCare'
<1>1. PICK m \in Content :
         /\ Loads(m) /\ panelMemory' = m
         /\ BeginTask(r, [ pc |-> IF m.panel = NoInfo THEN "send" ELSE "delete", setup |-> TRUE,
                           title |-> title, info |-> m.panel, shared |-> TRUE, new |-> 0 ])
  BY DEF SetupRollPanel
<1>2. m = panelFile
  BY <1>1, CareLoads
<1>3. PICK t : t = [ pc |-> IF m.panel = NoInfo THEN "send" ELSE "delete", setup |-> TRUE,
                     title |-> title, info |-> m.panel, shared |-> TRUE, new |-> 0 ]
  OBVIOUS
<1>4. /\ t \in Task /\ t.shared /\ t.setup
      /\ t.pc = IF panelFile.panel = NoInfo THEN "send" ELSE "delete"
  BY <1>2, <1>3 DEF Task, Content
<1> QED BY <1>1, <1>2, <1>3, <1>4, CareBegins DEF SetupRollPanel

\* A message arrives, and a refresh may begin.
LEMMA RefreshCare ==
    ASSUME InCare, PanelTypes, ~ CallFails, ~ panelOverlap', NEW r \in PanelTasks, Idle(r),
           UNCHANGED <<panels, panelFile>>,
           NEW m \in Content, Loads(m), panelMemory' = m,
           UNCHANGED <<task, panelOverlap>> \/ (m.panel # NoInfo /\ BeginTask(r, NewRefresh(m)))
    PROVE  InCare'
<1>1. m = panelFile
  BY CareLoads
<1>2. CASE UNCHANGED <<task, panelOverlap>>
  BY <1>1, <1>2, CareRests
<1>3. CASE m.panel # NoInfo /\ BeginTask(r, NewRefresh(m))
  <2>1. /\ NewRefresh(m) \in Task /\ NewRefresh(m).pc = "delete" /\ NewRefresh(m).shared
        /\ NewRefresh(m).title = m.panel.title
    BY <1>3 DEF NewRefresh, Task, Content, Info
  <2> QED BY <1>1, <1>3, <2>1, CareBegins
<1> QED BY <1>2, <1>3

\* The only task, and what is at hand for it.
LEMMA TheTask ==
    ASSUME InCare, PanelTypes, NEW r \in PanelTasks, task[r].pc # "none"
    PROVE  /\ task[r] \in Task /\ ~ Idle(r) /\ Halfway(r)
           /\ panelMemory = panelFile /\ panelFile \in Content
           /\ \A s \in PanelTasks \ {r} : Idle(s)
BY PanelWork DEF InCare

\* The only task goes on.
LEMMA CareGoesOn ==
    ASSUME InCare, PanelTypes, NEW r \in PanelTasks, task[r].pc # "none", NEW t \in Task,
           task' = [task EXCEPT ![r] = t], UNCHANGED <<panelMemory, panelFile>>,
           Halfway(r)'
    PROVE  InCare'
<1>1. \A s \in PanelTasks \ {r} : Idle(s)'
  BY TheTask DEF Idle, PanelTypes, PanelTypeOK
<1>2. ~ Idle(r)'
  BY DEF Idle, NoTask, Task, PanelTypes, PanelTypeOK
<1>3. panelMemory = panelFile
  BY TheTask
<1> QED BY <1>1, <1>2, <1>3 DEF InCare

\* The only task ends.
LEMMA CareEnds ==
    ASSUME InCare, PanelTypes, NEW r \in PanelTasks, task[r].pc # "none",
           \A s \in PanelTasks : (s # r => task'[s] = task[s]) /\ task'[r] = NoTask,
           panelMemory' = panelFile', panelFile' \in Content, panelFile'.other,
           panels' = Stands'
    PROVE  InCare'
<1>1. \A s \in PanelTasks : Idle(s)'
  BY TheTask DEF Idle
<1> QED BY <1>1 DEF InCare

\* The old panel is deleted: it is the one that memory and the file know.
LEMMA DeletePanelCare ==
    ASSUME InCare, PanelTypes, ~ CallFails, NEW r \in PanelTasks, DeletePanel(r)
    PROVE  InCare'
<1>1. /\ task[r] \in Task /\ Halfway(r) /\ panelMemory = panelFile
  BY TheTask DEF DeletePanel
<1>2. panels = {<<panelFile.panel.id, panelFile.panel.title>>} /\ View(r) = panelFile.panel
  BY <1>1 DEF DeletePanel, Halfway, Stands, View
<1>3. panels' = {}
  BY <1>2 DEF DeletePanel
<1>4. [task[r] EXCEPT !.pc = "send"] \in Task /\ task' = [task EXCEPT ![r] = [task[r] EXCEPT !.pc = "send"]]
  BY <1>1 DEF Task, DeletePanel
<1>5. task'[r] = [task[r] EXCEPT !.pc = "send"]
  BY <1>4 DEF PanelTypes, PanelTypeOK
<1>6. Halfway(r)'
  BY <1>1, <1>3, <1>5 DEF Halfway, DeletePanel, Task
<1> QED BY <1>4, <1>6, CareGoesOn DEF DeletePanel

\* The new panel is the only one.
LEMMA SendPanelCare ==
    ASSUME InCare, PanelTypes, PanelTypes', ~ CallFails, NEW r \in PanelTasks, SendPanel(r)
    PROVE  InCare'
<1>1. /\ task[r] \in Task /\ Halfway(r)
  BY TheTask DEF SendPanel
<1>2. PICK id \in PanelID : id = (CHOOSE i \in FreshIDs : TRUE)
  BY DEF SendPanel, FreshIDs
<1>3. PICK t : t = [task[r] EXCEPT !.new = id, !.pc = IF task[r].setup THEN "save" ELSE "update"]
  OBVIOUS
<1>4. /\ t \in Task /\ t.new = id /\ t.pc = (IF task[r].setup THEN "save" ELSE "update")
      /\ t.title = task[r].title /\ t.shared = task[r].shared /\ t.setup = task[r].setup
  BY <1>1, <1>3 DEF Task
<1>5. task' = [task EXCEPT ![r] = t] /\ panels' = panels \cup {<<id, task[r].title>>}
  BY <1>1, <1>2, <1>3 DEF SendPanel, PanelTypes, PanelTypeOK
<1>6. panels' = {<<id, task[r].title>>} /\ task'[r] = t
  BY <1>1, <1>5 DEF SendPanel, Halfway, PanelTypes, PanelTypeOK
<1>7. Halfway(r)'
  BY <1>1, <1>4, <1>6 DEF Halfway, SendPanel, Task
<1> QED BY <1>4, <1>5, <1>7, CareGoesOn DEF SendPanel

\* The file gets the new panel,
LEMMA SavePersistentPanelCare ==
    ASSUME InCare, PanelTypes, ~ CallFails, NEW r \in PanelTasks, SavePersistentPanel(r)
    PROVE  InCare'
<1>1. /\ task[r] \in Task /\ Halfway(r) /\ panelMemory = panelFile /\ panelFile \in Content
      /\ task[r].new \in PanelID /\ panelFile.other
  BY TheTask DEF SavePersistentPanel, PanelTypes, SentPanelHasID, InCare
<1>2. /\ panelMemory' \in Content /\ panelMemory'.other
      /\ panelMemory'.panel = [id |-> task[r].new, title |-> task[r].title]
  BY <1>1 DEF SavePersistentPanel, Content, Info, Task
<1>3. panelFile' = panelMemory'
  BY DEF SavePersistentPanel, Saves
<1>4. panelMemory'.panel # NoInfo /\ panels' = {<<task[r].new, task[r].title>>}
  BY <1>1, <1>2 DEF SavePersistentPanel, Halfway, NoInfo, PanelID
<1>5. panels' = Stands'
  BY <1>2, <1>3, <1>4 DEF Stands
<1>6. \A s \in PanelTasks : (s # r => task'[s] = task[s]) /\ task'[r] = NoTask
  BY TheTask DEF SavePersistentPanel, Detach, Idle, PanelTypes, PanelTypeOK
<1> QED BY <1>2, <1>3, <1>5, <1>6, CareEnds DEF SavePersistentPanel

\* or the new ID of a panel that keeps its title.
LEMMA UpdatePanelMessageIDCare ==
    ASSUME InCare, PanelTypes, ~ CallFails, NEW r \in PanelTasks, UpdatePanelMessageID(r)
    PROVE  InCare'
<1>1. /\ task[r] \in Task /\ Halfway(r) /\ panelMemory = panelFile /\ panelFile \in Content
      /\ task[r].new \in PanelID /\ panelFile.other
  BY TheTask DEF UpdatePanelMessageID, PanelTypes, SentPanelHasID, InCare
<1>2. panelFile.panel \in Info /\ panelFile.panel # NoInfo /\ task[r].title = panelFile.panel.title
  BY <1>1 DEF UpdatePanelMessageID, Halfway, Content
<1>3. /\ panelMemory' = [panelMemory EXCEPT !.panel.id = task[r].new]
      /\ panelFile' = panelMemory'
  BY <1>1, <1>2 DEF UpdatePanelMessageID, Saves
<1>4. /\ panelMemory' \in Content /\ panelMemory'.other
      /\ panelMemory'.panel.id = task[r].new /\ panelMemory'.panel.title = task[r].title
  BY <1>1, <1>2, <1>3 DEF Content, Info
<1>5. panelMemory'.panel # NoInfo /\ panels' = {<<task[r].new, task[r].title>>}
  BY <1>1, <1>4 DEF UpdatePanelMessageID, Halfway, NoInfo, PanelID
<1>6. panels' = Stands'
  BY <1>3, <1>4, <1>5 DEF Stands
<1>7. \A s \in PanelTasks : (s # r => task'[s] = task[s]) /\ task'[r] = NoTask
  BY DEF UpdatePanelMessageID, EndTask, PanelTypes, PanelTypeOK
<1> QED BY <1>3, <1>4, <1>6, <1>7, CareEnds DEF UpdatePanelMessageID

\* A refresh of a guild without roll cards forgets the panel it has deleted; a command that has
\* deleted none leaves everything as it was.
LEMMA UnconfiguredCare ==
    ASSUME InCare, PanelTypes, ~ CallFails, ~ panelMishap', NEW r \in PanelTasks, Unconfigured(r)
    PROVE  InCare'
<1>1. /\ task[r] \in Task /\ Halfway(r) /\ panelMemory = panelFile /\ panelFile \in Content
      /\ panelFile.other /\ panels = {} /\ panels' = {}
  BY TheTask DEF Unconfigured, Halfway, InCare
<1>2. CASE task[r].setup
  <2>1. panelFile.panel = NoInfo /\ UNCHANGED <<panelMemory, panelFile>>
    BY <1>1, <1>2 DEF Unconfigured
  <2>2. panels' = Stands'
    BY <1>1, <2>1 DEF Stands
  <2>3. \A s \in PanelTasks : (s # r => task'[s] = task[s]) /\ task'[r] = NoTask
    BY <1>2 DEF Unconfigured, EndTask, PanelTypes, PanelTypeOK
  <2> QED BY <1>1, <2>1, <2>2, <2>3, CareEnds DEF Unconfigured
<1>3. CASE ~ task[r].setup
  <2>1. panelMemory' = [panelMemory EXCEPT !.panel = NoInfo] /\ panelFile' = panelMemory'
    BY <1>3 DEF Unconfigured, Saves
  <2>2. panelMemory' \in Content /\ panelMemory'.other /\ panelMemory'.panel = NoInfo
    BY <1>1, <2>1 DEF Content
  <2>3. panels' = Stands'
    BY <1>1, <2>1, <2>2 DEF Stands
  <2>4. \A s \in PanelTasks : (s # r => task'[s] = task[s]) /\ task'[r] = NoTask
    BY <1>3, TheTask DEF Unconfigured, Detach, Idle, PanelTypes, PanelTypeOK
  <2> QED BY <2>1, <2>2, <2>3, <2>4, CareEnds DEF Unconfigured
<1> QED BY <1>2, <1>3

\* The configuration may change at any time, and the process end while no goroutine is at work.
LEMMA BetweenTasksCare ==
    ASSUME InCare, PanelTypes, ~ panelMishap', Reconfigure \/ PanelRestart
    PROVE  InCare'
<1>1. CASE Reconfigure
  BY <1>1 DEF Reconfigure, InCare, Halfway, Stands, Idle
<1>2. CASE PanelRestart
  <2>1. /\ \A r \in PanelTasks : Idle(r) /\ Idle(r)'
        /\ panelMemory' = Unread /\ UNCHANGED panels
    BY <1>2 DEF PanelRestart, Idle
  <2>2. panelFile' = panelFile
    BY <1>2, <2>1 DEF PanelRestart, Idle, NoTask
  <2> QED BY <2>1, <2>2 DEF InCare, Stands
<1> QED BY <1>1, <1>2

\* Every step keeps the invariant.
LEMMA NextPanelIInv == PanelIInv /\ [PanelNext]_panelVars => PanelIInv'
<1> SUFFICES ASSUME PanelIInv, [PanelNext]_panelVars PROVE PanelIInv'
  OBVIOUS
<1>1. PanelTypes /\ PanelTypes'
  BY NextPanelTypes DEF PanelIInv
<1>2. ASSUME Careful' PROVE InCare'
  <2>1. Careful /\ ~ CallFails
    BY <1>1, <1>2, CareLasts
  <2>2. InCare /\ ~ panelOverlap'
    BY <1>2, <2>1 DEF PanelIInv, FileIsKnown, OneWorks, PanelsAddUp, InCare, Careful
  <2>3. ASSUME NEW r \in PanelTasks, DeletePanel(r) \/ SendPanel(r) \/ SavePersistentPanel(r)
                                     \/ UpdatePanelMessageID(r)
        PROVE  InCare'
    BY <1>1, <2>1, <2>2, <2>3, DeletePanelCare, SendPanelCare, SavePersistentPanelCare,
       UpdatePanelMessageIDCare
  <2>4. ASSUME NEW r \in PanelTasks, Unconfigured(r) PROVE InCare'
    BY <1>1, <1>2, <2>1, <2>2, <2>4, UnconfiguredCare DEF Careful
  <2>5. ASSUME NEW r \in PanelTasks, NEW sent \in arrivals, PanelArrives(r, sent) PROVE InCare'
    <3>1. PICK m \in Content :
             /\ Loads(m) /\ panelMemory' = m
             /\ UNCHANGED <<task, panelOverlap>> \/ (m.panel # NoInfo /\ BeginTask(r, NewRefresh(m)))
      BY <2>5 DEF PanelArrives
    <3> QED BY <1>1, <2>1, <2>2, <2>5, <3>1, RefreshCare DEF PanelArrives
  <2>6. ASSUME NEW r \in PanelTasks, MemberPosts(r) PROVE InCare'
    <3>1. PICK m \in Content :
             /\ Loads(m) /\ panelMemory' = m
             /\ UNCHANGED <<task, panelOverlap>> \/ (m.panel # NoInfo /\ BeginTask(r, NewRefresh(m)))
      BY <2>6 DEF MemberPosts
    <3> QED BY <1>1, <2>1, <2>2, <2>6, <3>1, RefreshCare DEF MemberPosts
  <2>7. ASSUME NEW r \in PanelTasks, NEW t \in Titles, SetupRollPanel(r, t) PROVE InCare'
    BY <1>1, <2>1, <2>2, <2>7, SetupRollPanelCare
  <2>8. CASE Reconfigure \/ PanelRestart
    BY <1>1, <1>2, <2>2, <2>8, BetweenTasksCare DEF Careful
  <2>9. CASE UNCHANGED panelVars
    BY <2>2, <2>9 DEF panelVars, InCare, Halfway, Stands, Idle
  <2> QED BY <2>3, <2>4, <2>5, <2>6, <2>7, <2>8, <2>9 DEF PanelNext, TaskStep
<1> QED BY <1>1, <1>2 DEF PanelIInv, FileIsKnown, OneWorks, PanelsAddUp, InCare

\* Roll panels: every variable has its type.
THEOREM PanelTypesHold == PanelSpec => []PanelTypeOK
<1>1. PanelIInv => PanelTypeOK
  BY DEF PanelIInv, PanelTypes
<1> QED BY <1>1, InitPanelIInv, NextPanelIInv, PTL DEF PanelSpec

\* The channel at rest has exactly the panel that memory and file know, through any number of
\* commands, refreshes, restarts between them and changes of the configuration, as long as no two
\* goroutines have worked on the panel at a time, no call or file access has failed, no goroutine
\* was cut off and no command has met a guild without roll cards after it deleted the panel.
THEOREM OnePanelAtRest == PanelSpec => []OnePanel
<1>1. PanelIInv => OnePanel
  BY DEF PanelIInv, FileIsKnown, PanelsAddUp, OnePanel, AtRest, Careful, Stands
<1> QED BY <1>1, InitPanelIInv, NextPanelIInv, PTL DEF PanelSpec
-----------------------------------------------------------------------------
(* The handlers side by side                                               *)

\* Each part has its invariant, at work or at rest.
HandlersIInv == subject \in Parts /\ PresetIInv /\ GuardIInv /\ UserDBIInv /\ PanelIInv

\* It holds at the start.
LEMMA InitHandlersIInv == Init => HandlersIInv
BY InitPresetIInv, InitGuardIInv, InitUserDBIInv, InitPanelIInv DEF Init, HandlersIInv

\* A step of one part keeps its invariant, and leaves the others alone.
LEMMA NextHandlersIInv == HandlersIInv /\ [Next]_vars => HandlersIInv'
<1> SUFFICES ASSUME HandlersIInv, [Next]_vars PROVE HandlersIInv'
  OBVIOUS
<1>1. subject' \in Parts
  BY DEF HandlersIInv, Next, Step, vars
<1>2. /\ [PresetNext]_presetVars
      /\ [GuardNext]_guardVars
      /\ [UserDBNext]_userDBVars
      /\ [PanelNext]_panelVars
  BY DEF Next, Step, vars
<1> QED BY <1>1, <1>2, NextPresetIInv, NextGuardIInv, NextUserDBIInv, NextPanelIInv DEF HandlersIInv

\* Every variable of every handler has its type.
THEOREM HandlerTypesHold == Spec => []TypeOK
<1>1. HandlersIInv => TypeOK
  BY DEF HandlersIInv, PresetIInv, GuardIInv, UserDBIInv, PanelIInv, PanelTypes, TypeOK
<1> QED BY <1>1, InitHandlersIInv, NextHandlersIInv, PTL DEF Spec
=============================================================================
