----------------------------- MODULE NewCardPush -----------------------------
(***************************************************************************)
(* The push of new cards to a channel (utils/new_card_pusher.go) and the   *)
(* commands that configure it (handlers/admin/new_post_push_admin.go,      *)
(* utils/config_io.go).  Each new post starts a goroutine that sends a     *)
(* message and then deletes the bot's oldest messages beyond Kept; the     *)
(* commands load the guild's file, change it and save it, without a lock.  *)
(***************************************************************************)
EXTENDS Naturals, FiniteSets

CONSTANTS
    Pushes,             \* goroutines of PushNewCard
    PushAdmins,         \* goroutines of the commands
    Kept,               \* maxPushedMessages: 5
    Window,             \* messages a fetch returns: 100
    MaxPushMessages,    \* bound: messages ever sent to the channel
    MaxPushCommands     \* bound: commands

ASSUME KeptAssumption == Kept \in Nat \ {0} /\ Window \in Nat \ {0}
ASSUME PushBoundAssumption == MaxPushMessages \in Nat /\ MaxPushCommands \in Nat

VARIABLES
    pushFile,       \* the guild's file in data/new_card_push_config
    channel,        \* the messages in the channel, numbered in the order they were sent
    lastMessage,
    botMessages,    \* those of all messages that the bot sent
    push,           \* push[p]: locals of a goroutine
    pushAdmin,      \* pushAdmin[a]: locals of a command
    pushCommands,
    disturbed       \* history: a call or a file access failed, a fetch did not return
                    \* everything, or a message lost its place in the whitelist

pushVars == <<pushFile, channel, lastMessage, botMessages, push, pushAdmin, pushCommands, disturbed>>
-----------------------------------------------------------------------------
PushMessage == 1..MaxPushMessages

\* NewCardPushConfig, for one channel.  No file is an empty configuration.  A file that is
\* being written is no JSON; config is then what it held before.
PushConfig == [listed : BOOLEAN, whitelist : SUBSET PushMessage]
EmptyPushConfig == [listed |-> FALSE, whitelist |-> {}]
PushFile == [json : BOOLEAN, config : PushConfig]
Saved(config) == [json |-> TRUE, config |-> config]

NoPush == [pc |-> "none"]
PushLocals == [pc : {"send", "fetch", "delete"}, whitelist : SUBSET PushMessage, old : SUBSET PushMessage]

NoCommand == [pc |-> "none"]
CommandLocals == [pc : {"open", "write"}, config : PushConfig]

PushTypeOK ==
    /\ pushFile \in PushFile
    /\ channel \subseteq PushMessage
    /\ lastMessage \in 0..MaxPushMessages
    /\ botMessages \subseteq PushMessage
    /\ push \in [Pushes -> PushLocals \cup {NoPush}]
    /\ pushAdmin \in [PushAdmins -> CommandLocals \cup {NoCommand}]
    /\ pushCommands \in 0..MaxPushCommands
    /\ disturbed \in BOOLEAN

PushInit ==
    /\ pushFile \in {Saved(EmptyPushConfig), Saved([listed |-> TRUE, whitelist |-> {}])}
    /\ channel = {}
    /\ lastMessage = 0
    /\ botMessages = {}
    /\ push = [p \in Pushes |-> NoPush]
    /\ pushAdmin = [a \in PushAdmins |-> NoCommand]
    /\ pushCommands = 0
    /\ disturbed = FALSE
-----------------------------------------------------------------------------
PushFault == disturbed' = TRUE
NoPushFault == UNCHANGED disturbed

AllButOneMore(n, S) == {m \in S : Cardinality({k \in S : k > m}) > n}

\* The messages of S but the n latest, and the n latest.
AllBut(n, S) == {m \in S : Cardinality({k \in S : k > m}) >= n}
Latest(n, S) == S \ AllBut(n, S)

SendMessage ==
    /\ lastMessage < MaxPushMessages
    /\ lastMessage' = lastMessage + 1
    /\ channel' = channel \cup {lastMessage + 1}

ContinuePush(p, locals) == push' = [push EXCEPT ![p] = locals]
-----------------------------------------------------------------------------
(* PushNewCard, for one channel                                            *)

PushNewCard(p) ==
    /\ push[p] = NoPush
    /\ pushFile.json
    /\ pushFile.config.listed
    /\ ContinuePush(p, [pc |-> "send", whitelist |-> pushFile.config.whitelist, old |-> {}])
    /\ NoPushFault
    /\ UNCHANGED <<pushFile, channel, lastMessage, botMessages, pushAdmin, pushCommands>>

SendCard(p) ==
    /\ push[p].pc = "send"
    /\ \/ /\ SendMessage
          /\ botMessages' = botMessages \cup {lastMessage + 1}
          /\ ContinuePush(p, [push[p] EXCEPT !.pc = "fetch"])
          /\ NoPushFault
       \/ /\ ContinuePush(p, NoPush)
          /\ PushFault
          /\ UNCHANGED <<channel, lastMessage, botMessages>>
    /\ UNCHANGED <<pushFile, pushAdmin, pushCommands>>

FetchMessages(p) ==
    /\ push[p].pc = "fetch"
    /\ \/ LET fetched == Latest(Window, channel)
              own == (fetched \cap botMessages) \ push[p].whitelist
          IN  /\ ContinuePush(p, [push[p] EXCEPT !.pc = "delete", !.old = AllBut(Kept, own)])
              /\ disturbed' = (fetched # channel)
       \/ ContinuePush(p, NoPush) /\ PushFault
    /\ UNCHANGED <<pushFile, channel, lastMessage, botMessages, pushAdmin, pushCommands>>

\* One call for each message, oldest first; a failure is logged.
DeleteOldest(p) ==
    /\ push[p].pc = "delete"
    /\ IF push[p].old = {}
       THEN ContinuePush(p, NoPush) /\ NoPushFault /\ UNCHANGED channel
       ELSE LET m == CHOOSE k \in push[p].old : \A o \in push[p].old : k <= o
            IN  /\ ContinuePush(p, [push[p] EXCEPT !.old = @ \ {m}])
                /\ \/ channel' = channel \ {m} /\ NoPushFault
                   \/ UNCHANGED channel /\ PushFault
    /\ UNCHANGED <<pushFile, lastMessage, botMessages, pushAdmin, pushCommands>>
-----------------------------------------------------------------------------
(* The commands                                                            *)

\* LoadNewCardPushConfig and the change; a change that changes nothing is refused.
ChangePushConfig(a, config) ==
    /\ pushAdmin[a] = NoCommand
    /\ pushFile.json
    /\ config # pushFile.config
    /\ pushCommands < MaxPushCommands
    /\ pushCommands' = pushCommands + 1
    /\ pushAdmin' = [pushAdmin EXCEPT ![a] = [pc |-> "open", config |-> config]]
    /\ NoPushFault
    /\ UNCHANGED <<pushFile, channel, lastMessage, botMessages, push>>

AddChannel(a) == ChangePushConfig(a, [pushFile.config EXCEPT !.listed = TRUE])
RemoveChannel(a) == ChangePushConfig(a, [pushFile.config EXCEPT !.listed = FALSE])
WhitelistAdd(a, m) == ChangePushConfig(a, [pushFile.config EXCEPT !.whitelist = @ \cup {m}])
WhitelistRemove(a, m) == ChangePushConfig(a, [pushFile.config EXCEPT !.whitelist = @ \ {m}])

\* SaveNewCardPushConfig: os.WriteFile empties the file ...
OpenPushFile(a) ==
    /\ pushAdmin[a].pc = "open"
    /\ \/ /\ pushFile' = [pushFile EXCEPT !.json = FALSE]
          /\ pushAdmin' = [pushAdmin EXCEPT ![a].pc = "write"]
          /\ NoPushFault
       \/ /\ UNCHANGED pushFile
          /\ pushAdmin' = [pushAdmin EXCEPT ![a] = NoCommand]
          /\ PushFault
    /\ UNCHANGED <<channel, lastMessage, botMessages, push, pushCommands>>

\* ... and writes it, over what the file held, and over what another wrote since, of which a
\* rest may stay.
WritePushFile(a) ==
    /\ pushAdmin[a].pc = "write"
    /\ LET config == pushAdmin[a].config
       IN  \/ /\ pushFile' = Saved(config)
              /\ disturbed' = ~(pushFile.config.whitelist \subseteq config.whitelist)
           \/ pushFile.json /\ pushFile' = [pushFile EXCEPT !.json = FALSE] /\ NoPushFault
           \/ pushFile' = [pushFile EXCEPT !.json = FALSE] /\ PushFault
    /\ pushAdmin' = [pushAdmin EXCEPT ![a] = NoCommand]
    /\ UNCHANGED <<channel, lastMessage, botMessages, push, pushCommands>>
-----------------------------------------------------------------------------
MemberWrites ==
    /\ SendMessage
    /\ NoPushFault
    /\ UNCHANGED <<pushFile, botMessages, push, pushAdmin, pushCommands>>

\* Bound: a behaviour is followed until it is disturbed.
PushNext ==
    /\ ~disturbed
    /\ \/ \E p \in Pushes : PushNewCard(p) \/ SendCard(p) \/ FetchMessages(p) \/ DeleteOldest(p)
       \/ \E a \in PushAdmins : AddChannel(a) \/ RemoveChannel(a) \/ OpenPushFile(a) \/ WritePushFile(a)
       \/ \E a \in PushAdmins, m \in channel : WhitelistAdd(a, m) \/ WhitelistRemove(a, m)
       \/ MemberWrites

PushSpec == PushInit /\ [][PushNext]_pushVars
-----------------------------------------------------------------------------
(* Properties                                                              *)

\* When no push is under way the channel has at most Kept messages of the bot outside the
\* whitelist, and the Kept latest it sent are there, in whatever order pushes sent, fetched
\* and deleted, and whatever file they had loaded, as long as nothing disturbed that
\* (PushNewCard).
ChannelKeepsLatest ==
    ~disturbed /\ (\A p \in Pushes : push[p] = NoPush) =>
        /\ Cardinality((channel \cap botMessages) \ pushFile.config.whitelist) <= Kept
        /\ Latest(Kept, botMessages) \subseteq channel
=============================================================================
