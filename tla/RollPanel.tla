----------------------------- MODULE RollPanel -----------------------------
(***************************************************************************)
(* The roll panel of a channel (handlers/rollcard/panel_handler.go,        *)
(* utils/panel_storage.go): a message with buttons that is kept at the     *)
(* bottom of the channel.  Every message there, the bot's own included,    *)
(* makes the bot delete the panel and send it again.  Its ID is kept in    *)
(* memory and in persistent_panels.json.  Commands and events run in       *)
(* goroutines; the mutex of panel_storage.go covers single accesses only.  *)
(***************************************************************************)
EXTENDS Naturals

CONSTANTS
    Titles,             \* titles that administrators give a panel
    PanelTasks,         \* goroutines
    MaxPanelID,         \* bound: panels that exist or that something refers to
    MaxPosts,           \* bound: messages of members
    MaxSetups,          \* bound: commands
    MaxPanelFaults      \* bound: failed calls and file accesses, reloads, ends of the process

ASSUME PanelAssumption == Titles # {} /\ MaxPanelID \in Nat \ {0}

ASSUME PanelBoundAssumption ==
    MaxPosts \in Nat /\ MaxSetups \in Nat /\ MaxPanelFaults \in Nat

VARIABLES
    panels,         \* <<ID, title>> of the panels in the channel
    arrivals,       \* their MessageCreate events that are still to be handled
    posts,          \* messages of members
    setups,
    configured,     \* the guild is in RollCardConfigs
    panelMemory,    \* panelData
    panelFile,      \* persistent_panels.json
    task,           \* task[r]: locals of a goroutine
    panelFaults,
    panelOverlap,   \* history: two goroutines have worked on the panel at a time
    panelMishap     \* history: a call or a file access has failed, the process has ended under
                    \* a goroutine, or a command has deleted the panel of a guild without roll cards

panelVars == <<panels, arrivals, posts, setups, configured, panelMemory, panelFile, task,
               panelFaults, panelOverlap, panelMishap>>
-----------------------------------------------------------------------------
PanelID == 1..MaxPanelID
Info == [id : PanelID, title : Titles]      \* PersistentPanelInfo
NoInfo == [id |-> 0]

\* The panel of this channel, and whether the one of another channel is there too.
Content == [panel : Info \cup {NoInfo}, other : BOOLEAN]
Unread == [panel |-> NoInfo, other |-> FALSE, loaded |-> FALSE]
Broken == [broken |-> TRUE]                 \* a file that is not JSON

NoTask == [pc |-> "none"]
Task == [ pc     : {"delete", "send", "save", "update"},
          setup  : BOOLEAN,
          title  : Titles,
          info   : Info \cup {NoInfo},      \* what it read, if memory has another by now
          shared : BOOLEAN,                 \* it holds the pointer that memory holds
          new    : PanelID \cup {0} ]

PanelTypeOK ==
    /\ panels \subseteq PanelID \X Titles
    /\ arrivals \subseteq PanelID \X Titles
    /\ posts \in 0..MaxPosts
    /\ setups \in 0..MaxSetups
    /\ configured \in BOOLEAN
    /\ panelMemory \in Content \cup {Unread}
    /\ panelFile \in Content \cup {Broken}
    /\ task \in [PanelTasks -> Task \cup {NoTask}]
    /\ panelFaults \in 0..MaxPanelFaults
    /\ panelOverlap \in BOOLEAN
    /\ panelMishap \in BOOLEAN

\* A process has started: with no panel here, or one that an earlier process sent.
PanelInit ==
    /\ arrivals = {}
    /\ posts = 0
    /\ setups = 0
    /\ configured = TRUE
    /\ \/ panels = {} /\ panelFile = [panel |-> NoInfo, other |-> TRUE]
       \/ LET title == CHOOSE t \in Titles : TRUE        \* titles are alike
          IN  /\ panels = {<<1, title>>}
              /\ panelFile = [panel |-> [id |-> 1, title |-> title], other |-> TRUE]
    /\ panelMemory = Unread
    /\ task = [r \in PanelTasks |-> NoTask]
    /\ panelFaults = 0
    /\ panelOverlap = FALSE
    /\ panelMishap = FALSE
-----------------------------------------------------------------------------
Idle(r) == task[r] = NoTask
PanelFault == panelFaults < MaxPanelFaults /\ panelFaults' = panelFaults + 1
CallFails == PanelFault /\ panelMishap' = TRUE
CallWorks == UNCHANGED <<panelFaults, panelMishap>>

\* panelInfo as the goroutine sees it through its pointer.
View(r) == IF task[r].shared THEN panelMemory.panel ELSE task[r].info

\* Memory gets another PersistentPanelInfo: pointers to the old one keep its values.
Detach(tasks) == [r \in PanelTasks |->
    IF task[r] # NoTask /\ task[r].shared /\ tasks[r] # NoTask
    THEN [tasks[r] EXCEPT !.info = panelMemory.panel, !.shared = FALSE] ELSE tasks[r]]

Refers == {panelMemory.panel.id} \cup {IF panelFile = Broken THEN 0 ELSE panelFile.panel.id}
          \cup {p[1] : p \in panels \cup arrivals}
          \cup UNION {IF Idle(r) THEN {} ELSE {task[r].info.id, task[r].new} : r \in PanelTasks}
FreshIDs == PanelID \ Refers

\* LoadPanelData as the memory that it leaves: an empty map even when it fails, and it is
\* not tried again in this process.
Loads(m) ==
    IF panelMemory # Unread THEN m = panelMemory /\ CallWorks
    ELSE \/ m = (IF panelFile = Broken THEN [panel |-> NoInfo, other |-> FALSE] ELSE panelFile)
            /\ CallWorks
         \/ m = [panel |-> NoInfo, other |-> FALSE] /\ CallFails

\* savePanelDataInternal: an error may leave the old file or a part of the new one.
Saves(m) ==
    \/ panelFile' = m /\ CallWorks
    \/ panelFile' \in {panelFile, Broken} /\ CallFails

BeginTask(r, t) ==
    /\ task' = [task EXCEPT ![r] = t]
    /\ panelOverlap' = (panelOverlap \/ \E o \in PanelTasks \ {r} : ~Idle(o))

EndTask(r) == task' = [task EXCEPT ![r] = NoTask]
-----------------------------------------------------------------------------
(* HandleSetupRollPanel                                                    *)

SetupRollPanel(r, title) ==
    /\ Idle(r)
    /\ setups < MaxSetups
    /\ setups' = setups + 1
    /\ \E m \in Content :
          /\ Loads(m)
          /\ panelMemory' = m
          /\ BeginTask(r, [ pc |-> IF m.panel = NoInfo THEN "send" ELSE "delete", setup |-> TRUE,
                            title |-> title, info |-> m.panel, shared |-> TRUE, new |-> 0 ])
    /\ UNCHANGED <<panels, arrivals, posts, configured, panelFile>>

\* ChannelMessageDelete; an error is only logged.
DeletePanel(r) ==
    /\ task[r].pc = "delete"
    /\ \/ panels' = {p \in panels : p[1] # View(r).id} /\ CallWorks
       \/ UNCHANGED panels /\ CallFails
    /\ task' = [task EXCEPT ![r].pc = "send"]
    /\ UNCHANGED <<arrivals, posts, setups, configured, panelMemory, panelFile, panelOverlap>>

\* The guild was taken out of the configuration: a command just stops, now that the old
\* panel is gone; a refresh also forgets the panel.
Unconfigured(r) ==
    /\ task[r].pc = "send"
    /\ ~configured
    /\ IF task[r].setup
       THEN /\ EndTask(r)
            /\ panelMishap' = (panelMishap \/ panelMemory.panel # NoInfo)
            /\ UNCHANGED <<panelMemory, panelFile, panelFaults>>
       ELSE /\ panelMemory' = [panelMemory EXCEPT !.panel = NoInfo]
            /\ Saves(panelMemory')
            /\ task' = Detach([task EXCEPT ![r] = NoTask])
    /\ UNCHANGED <<panels, arrivals, posts, setups, configured, panelOverlap>>

\* ChannelMessageSendComplex; the event of the new panel is on its way at once.
SendPanel(r) ==
    /\ task[r].pc = "send"
    /\ configured
    /\ FreshIDs # {}
    /\ LET sent == <<CHOOSE id \in FreshIDs : TRUE, task[r].title>>   \* a new one
       IN  \/ /\ panels' = panels \cup {sent}
              /\ arrivals' = arrivals \cup {sent}
              /\ task' = [task EXCEPT ![r].new = sent[1],
                              ![r].pc = IF task[r].setup THEN "save" ELSE "update"]
              /\ CallWorks
           \/ /\ EndTask(r)
              /\ UNCHANGED <<panels, arrivals>>
              /\ CallFails
    /\ UNCHANGED <<posts, setups, configured, panelMemory, panelFile, panelOverlap>>

SavePersistentPanel(r) ==
    /\ task[r].pc = "save"
    /\ panelMemory' = [panelMemory EXCEPT !.panel = [id |-> task[r].new, title |-> task[r].title]]
    /\ Saves(panelMemory')
    /\ task' = Detach([task EXCEPT ![r] = NoTask])
    /\ UNCHANGED <<panels, arrivals, posts, setups, configured, panelOverlap>>
-----------------------------------------------------------------------------
(* HandlePersistentPanelRefresh                                            *)

\* A refresh takes the pointer to the panel's information out of the lock.
NewRefresh(m) == [ pc |-> "delete", setup |-> FALSE, title |-> m.panel.title, info |-> m.panel,
                   shared |-> TRUE, new |-> 0 ]

MemberPosts(r) ==
    /\ Idle(r)
    /\ posts < MaxPosts
    /\ posts' = posts + 1
    /\ \E m \in Content :
          /\ Loads(m)
          /\ panelMemory' = m
          /\ IF m.panel = NoInfo THEN UNCHANGED <<task, panelOverlap>>
                                 ELSE BeginTask(r, NewRefresh(m))
    /\ UNCHANGED <<panels, arrivals, setups, configured, panelFile>>

IsForeign(sent, info) == FALSE

\* The bot's own message is the panel if it has the title that memory has now.
IsPanel(sent, info) == sent[2] = info.title

PanelArrives(r, sent) ==
    /\ Idle(r)
    /\ arrivals' = arrivals \ {sent}
    /\ \E m \in Content :
          /\ Loads(m)
          /\ panelMemory' = m
          /\ IF m.panel = NoInfo THEN UNCHANGED <<task, panelOverlap>>
             ELSE IF IsPanel(sent, m.panel) THEN UNCHANGED <<task, panelOverlap>>
             ELSE BeginTask(r, NewRefresh(m))
    /\ UNCHANGED <<panels, posts, setups, configured, panelFile>>

UpdateMemoryOnly(r) ==
    /\ task[r].pc = "update"
    /\ panelMemory' = IF panelMemory.panel = NoInfo THEN panelMemory
                      ELSE [panelMemory EXCEPT !.panel.id = task[r].new]
    /\ EndTask(r)
    /\ UNCHANGED <<panels, arrivals, posts, setups, configured, panelFile, panelFaults, panelOverlap,
                   panelMishap>>

\* The ID is assigned through the pointer in memory, which may belong to another panel now.
UpdatePanelMessageID(r) ==
    /\ task[r].pc = "update"
    /\ IF panelMemory.panel = NoInfo
       THEN UNCHANGED <<panelMemory, panelFile>> /\ CallWorks
       ELSE /\ panelMemory' = [panelMemory EXCEPT !.panel.id = task[r].new]
            /\ Saves(panelMemory')
    /\ EndTask(r)
    /\ UNCHANGED <<panels, arrivals, posts, setups, configured, panelOverlap>>
-----------------------------------------------------------------------------
\* /reload-config may take the guild out of RollCardConfigs or put it there.
Reconfigure ==
    /\ PanelFault
    /\ configured' = ~configured
    /\ UNCHANGED <<panels, arrivals, posts, setups, panelMemory, panelFile, task, panelOverlap, panelMishap>>

\* The process ends, perhaps while it writes the file; events while it is down are lost.
PanelRestart ==
    /\ PanelFault
    /\ panelMemory' = Unread
    /\ panelFile' \in {panelFile} \cup {Broken : r \in {o \in PanelTasks : task[o].pc \in {"save", "update"}}}
    /\ task' = [r \in PanelTasks |-> NoTask]
    /\ arrivals' = {}
    /\ panelMishap' = (panelMishap \/ \E r \in PanelTasks : ~Idle(r))
    /\ UNCHANGED <<panels, posts, setups, configured, panelOverlap>>

TaskStep(r) ==
    \/ DeletePanel(r) \/ Unconfigured(r) \/ SendPanel(r) \/ SavePersistentPanel(r)
    \/ UpdatePanelMessageID(r)
    \/ \E sent \in arrivals : PanelArrives(r, sent)

PanelNext ==
    \/ \E r \in PanelTasks : TaskStep(r) \/ MemberPosts(r) \/ \E t \in Titles : SetupRollPanel(r, t)
    \/ Reconfigure
    \/ PanelRestart

\* Calls return, and Discord delivers the events.
PanelFairness == \A r \in PanelTasks : WF_panelVars(TaskStep(r))

PanelSpec == PanelInit /\ [][PanelNext]_panelVars /\ PanelFairness
-----------------------------------------------------------------------------
(* Properties                                                              *)

AtRest == arrivals = {} /\ \A r \in PanelTasks : Idle(r)

\* As long as no two goroutines have worked on the panel at a time, no call or file access
\* has failed, the process has ended between refreshes only, and no command has met a guild
\* without roll cards after it deleted the panel, the channel at rest has exactly the panel
\* that memory and file know, and the panel of another channel is kept with it: through
\* commands, refreshes, reloads of the configuration that take the guild out or put it back,
\* and restarts that lose events.  A deleted panel without a successor, or a second one that
\* nobody deletes, needs one of the exceptions (HandleSetupRollPanel, refreshPersistentPanel).
OnePanel ==
    AtRest /\ ~panelOverlap /\ ~panelMishap =>
        /\ panelMemory # Unread => panelMemory = panelFile
        /\ panelFile.other
        /\ panels = IF panelFile.panel = NoInfo THEN {}
                    ELSE {<<panelFile.panel.id, panelFile.panel.title>>}

\* The bot answers its own panels too, but not for ever: when members and administrators
\* are silent the channel comes to rest, whatever titles the panels have had.
RefreshesEnd == <>[]AtRest
=============================================================================
