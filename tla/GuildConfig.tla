---------------------------- MODULE GuildConfig ----------------------------
(***************************************************************************)
(* The configuration of a guild: the tables of guilds.db (config_db.go),   *)
(* the copy in memory that every handler reads (Bot.GetConfig), and the    *)
(* commands of administrators that change the one, the other or both.      *)
(* ReloadConfig reads the tables one after the other into a new copy and   *)
(* stores it.  Commands run in goroutines without a lock.                  *)
(*                                                                         *)
(* Slices of Go are shared: a command that copied the ServerConfig before  *)
(* it calls Discord still refers to the array of presets in memory, until  *)
(* a reload or an append has put another one there.                        *)
(***************************************************************************)
EXTENDS Naturals, FiniteSets

CONSTANTS
    PresetIDs, Keywords,
    Admins,             \* goroutines of administrators' commands
    MaxAdminCommands,   \* bound
    MaxConfigFaults     \* bound: calls of the database that fail

ASSUME ConfigBoundAssumption == MaxAdminCommands \in Nat /\ MaxConfigFaults \in Nat

VARIABLES
    rows,           \* guilds.db
    memory,         \* the ServerConfig of the stored configuration
    admin,          \* admin[a]: locals of a command
    adminCommands,
    configFaults,
    unsynced        \* history: tables that memory need not agree with, see SyncedTables

configVars == <<rows, memory, admin, adminCommands, configFaults, unsynced>>
-----------------------------------------------------------------------------
Tables == {"guild", "presets", "top", "triggers"}

\* The order in which LoadConfigFromDB reads them.
Reading == <<"guild", "presets", "top", "triggers">>

Absent == 0
PresetValue == 0..2
Binding == PresetIDs \X Keywords

\* guild: a flag and a role; presets: a value for each ID; top: the limit of the top
\* channel; triggers: a preset of a channel with a keyword.
ServerConfig ==
    [ guild    : [enable : BOOLEAN, role : BOOLEAN],
      presets  : [PresetIDs -> PresetValue],
      top      : 0..1,
      triggers : SUBSET Binding ]

Quiet == [pc |-> "quiet"]
Job == [ pc    : {"row", "parse", "write", "insert", "update", "tx", "commit"},
         kind  : {"toggle", "grant", "create", "edit", "bind", "unbind", "overwrite"},
         id    : PresetIDs,
         todo  : SUBSET Keywords,
         copy  : ServerConfig,      \* what the command has read
         shared : BOOLEAN,          \* the copy refers to the array of presets in memory
         alone : BOOLEAN ]          \* history: nothing overlapped the command so far
Loading == [ pc : {"load"}, next : 1..5, config : ServerConfig, alone : BOOLEAN ]

ConfigTypeOK ==
    /\ rows \in ServerConfig
    /\ memory \in ServerConfig
    /\ admin \in [Admins -> {Quiet} \cup Job \cup Loading]
    /\ adminCommands \in 0..MaxAdminCommands
    /\ configFaults \in 0..MaxConfigFaults
    /\ unsynced \subseteq Tables

\* The process has just started and loaded the tables: no preset, or one with a trigger.
ConfigInit ==
    /\ rows \in { [ guild |-> [enable |-> TRUE, role |-> FALSE], presets |-> ps, top |-> 0,
                    triggers |-> {b \in Binding : ps[b[1]] # Absent} ] :
                  ps \in {f \in [PresetIDs -> 0..1] : Cardinality({p \in PresetIDs : f[p] = 1}) <= 1} }
    /\ memory = rows
    /\ admin = [a \in Admins |-> Quiet]
    /\ adminCommands = 0
    /\ configFaults = 0
    /\ unsynced = {}
-----------------------------------------------------------------------------
Busy(a) == admin[a].pc # "quiet"

ConfigFault == configFaults < MaxConfigFaults /\ configFaults' = configFaults + 1
NoConfigFault == UNCHANGED configFaults

\* The presets of c, in which the command of a may see the changes of others.
Known(c) == {p \in PresetIDs : c.presets[p] # Absent}

\* A command begins; every command under way has company from now on.
Turn(a) ==
    /\ ~Busy(a)
    /\ adminCommands < MaxAdminCommands
    /\ adminCommands' = adminCommands + 1

Alone(a) == \A o \in Admins \ {a} : ~Busy(o)

Accompany(a, local) == [o \in Admins |->
    IF o = a THEN local
    ELSE IF Busy(o) THEN [admin[o] EXCEPT !.alone = FALSE]
    ELSE admin[o]]

BeginCommand(a, job) ==
    /\ Turn(a)
    /\ admin' = Accompany(a, job)
    /\ UNCHANGED <<rows, memory, configFaults, unsynced>>

NewJob(a, pc, kind, p, ks, shared) ==
    [ pc |-> pc, kind |-> kind, id |-> p, todo |-> ks, copy |-> memory, shared |-> shared,
      alone |-> Alone(a) ]

NewReload(alone) == [pc |-> "load", next |-> 1, config |-> rows, alone |-> alone]

\* A command ends.  The tables it may have left different from memory are those of
\* tables, or any if commands overlapped.
EndCommand(a, tables) ==
    /\ admin' = [admin EXCEPT ![a] = Quiet]
    /\ unsynced' = IF admin[a].alone THEN unsynced \cup tables ELSE Tables

Go(a, pc) == admin' = [admin EXCEPT ![a].pc = pc] /\ UNCHANGED unsynced
-----------------------------------------------------------------------------
(* ReloadConfig                                                            *)

ReloadCommand(a) == BeginCommand(a, NewReload(Alone(a)))

\* LoadConfigFromDB; a failed query ends the reload, and the stored configuration stays.
LoadTable(a) ==
    /\ admin[a].pc = "load"
    /\ admin[a].next <= 4
    /\ LET table == Reading[admin[a].next]
       IN  \/ /\ admin' = [admin EXCEPT ![a].config[table] = rows[table], ![a].next = @ + 1]
              /\ NoConfigFault
              /\ UNCHANGED unsynced
           \/ /\ ConfigFault
              /\ EndCommand(a, {"top", "triggers"})
    /\ UNCHANGED <<rows, memory, adminCommands>>

\* The new configuration has arrays of its own: the copies of the others are detached.
StoreConfig(a) ==
    /\ admin[a].pc = "load"
    /\ admin[a].next = 5
    /\ memory' = admin[a].config
    /\ admin' = [o \in Admins |->
           IF o = a THEN Quiet
           ELSE IF admin[o].pc \in {"parse", "write"} THEN [admin[o] EXCEPT !.shared = FALSE]
           ELSE admin[o]]
    /\ unsynced' = IF admin[a].alone THEN {} ELSE Tables
    /\ UNCHANGED <<rows, adminCommands, configFaults>>
-----------------------------------------------------------------------------
(* /guilds-admin: GetGuildConfig, a change, UpdateGuildConfig of the whole row *)

GuildCommand(a, kind, p) ==
    /\ kind \in {"toggle", "grant"}
    /\ BeginCommand(a, [NewJob(a, "row", kind, p, {}, FALSE) EXCEPT !.copy = rows])

UpdateGuildConfig(a) ==
    /\ admin[a].pc = "row"
    /\ LET row == admin[a].copy.guild
           new == IF admin[a].kind = "toggle" THEN [row EXCEPT !.enable = ~@]
                                              ELSE [row EXCEPT !.role = ~@]
       IN  \/ rows' = [rows EXCEPT !.guild = new] /\ NoConfigFault
           \/ UNCHANGED rows /\ ConfigFault
    /\ EndCommand(a, {"guild"})
    /\ UNCHANGED <<memory, adminCommands>>
-----------------------------------------------------------------------------
(* Presets: memory first, the table second                                 *)

\* /preset-message_upd and /preset-message_admin copy the ServerConfig, then fetch the
\* linked messages.
PresetCommand(a, kind, p) ==
    /\ \/ /\ kind = "create"               \* under a new ID
          /\ p \notin Known(memory) \cup Known(rows)
          /\ \A o \in Admins : Busy(o) /\ admin[o].pc # "load" => admin[o].id # p
       \/ kind = "edit" /\ p \in Known(memory)
    /\ BeginCommand(a, NewJob(a, "parse", kind, p, {}, TRUE))

ParseMessageLinks(a) ==
    /\ admin[a].pc = "parse"
    /\ \/ Go(a, "write")
       \/ EndCommand(a, {})                 \* no message could be read
    /\ UNCHANGED <<rows, memory, adminCommands, configFaults>>

\* The copy, as its array is now, gets one more preset and replaces the guild's entry in
\* memory with all that was copied.  The append may move the array, which detaches the
\* other copies.
AppendPreset(a) ==
    /\ admin[a].pc = "write"
    /\ admin[a].kind = "create"
    /\ memory' = [admin[a].copy EXCEPT !.presets[admin[a].id] = 1]
    /\ \E moved \in BOOLEAN :
          admin' = [o \in Admins |->
              IF o = a THEN [admin[a] EXCEPT !.pc = "insert"]
              ELSE IF moved /\ admin[o].pc \in {"parse", "write"}
                   THEN [admin[o] EXCEPT !.shared = FALSE]
              ELSE admin[o]]
    /\ UNCHANGED <<rows, adminCommands, configFaults, unsynced>>

AddPreset(a) ==
    /\ admin[a].pc = "insert"
    /\ \/ /\ rows' = [rows EXCEPT !.presets[admin[a].id] = 1]
          /\ NoConfigFault
          /\ EndCommand(a, {})
       \/ /\ UNCHANGED rows
          /\ ConfigFault
          /\ EndCommand(a, {"presets"})
    /\ UNCHANGED <<memory, adminCommands>>

Change(c, p) == [c EXCEPT !.presets[p] = 3 - @]

\* Rename and overwrite assign to the element of the array, so everything that shares the
\* array changes too.
EditPreset(a) ==
    /\ admin[a].pc = "write"
    /\ admin[a].kind = "edit"
    /\ LET p == admin[a].id
           sees(o) == /\ admin[o].pc \in {"parse", "write"}
                      /\ admin[o].shared
                      /\ p \in Known(admin[o].copy)
       IN  /\ memory' = IF admin[a].shared /\ p \in Known(memory) THEN Change(memory, p) ELSE memory
           /\ admin' = [o \in Admins |->
                  IF o = a THEN [admin[a] EXCEPT !.pc = "update", !.copy = Change(@, p)]
                  ELSE IF admin[a].shared /\ sees(o) THEN [admin[o] EXCEPT !.copy = Change(@, p)]
                  ELSE admin[o]]
    /\ UNCHANGED <<rows, adminCommands, configFaults, unsynced>>

\* An update of a row that is gone changes nothing and succeeds.
UpdatePreset(a) ==
    /\ admin[a].pc = "update"
    /\ LET p == admin[a].id
       IN  \/ /\ rows' = IF rows.presets[p] = Absent THEN rows
                         ELSE [rows EXCEPT !.presets[p] = admin[a].copy.presets[p]]
              /\ NoConfigFault
              /\ EndCommand(a, {})
           \/ /\ UNCHANGED rows
              /\ ConfigFault
              /\ EndCommand(a, {"presets"})
    /\ UNCHANGED <<memory, adminCommands>>

\* The confirmed deletion removes the row; memory keeps the preset until a reload.
DeletePreset(a, p) ==
    /\ Turn(a)
    /\ p \in Known(memory)
    /\ \/ rows' = [rows EXCEPT !.presets[p] = Absent] /\ NoConfigFault
       \/ UNCHANGED rows /\ ConfigFault
    /\ admin' = Accompany(a, Quiet)
    /\ unsynced' = IF Alone(a) THEN unsynced \cup {"presets"} ELSE Tables
    /\ UNCHANGED memory
-----------------------------------------------------------------------------
(* Auto triggers: a transaction for each keyword, then a reload            *)

TriggerCommand(a, kind, p, ks) ==
    /\ kind \in {"bind", "unbind", "overwrite"}
    /\ BeginCommand(a, NewJob(a, "tx", kind, p, ks, FALSE))

\* The transaction reads.
ReadTriggers(a) ==
    /\ admin[a].pc = "tx"
    /\ admin' = [admin EXCEPT ![a].pc = "commit", ![a].copy = rows]
    /\ UNCHANGED <<rows, memory, adminCommands, configFaults, unsynced>>

\* The rows as the transaction of the keyword k changes those it has read.
AddAutoTrigger(ts, p, k) == ts \cup {<<p, k>>}
DeleteAutoTrigger(ts, k) == {b \in ts : b[2] # k}
OverwriteAutoTrigger(ts, p, k) ==
    IF \E b \in ts : b[1] = p THEN {b \in ts : b[1] # p} \cup {<<p, k>>} ELSE ts

Changed(kind, ts, p, k) ==
    CASE kind = "bind" -> AddAutoTrigger(ts, p, k)
      [] kind = "unbind" -> DeleteAutoTrigger(ts, k)
      [] kind = "overwrite" -> OverwriteAutoTrigger(ts, p, k)

NeverConflict(a) == FALSE

\* SQLite lets a transaction write only if nobody has written since it read; that of an
\* overwrite reads nothing.
Conflict(a) == admin[a].kind # "overwrite" /\ rows # admin[a].copy

WithoutReload(job, rest) ==
    IF rest = {} THEN Quiet ELSE [job EXCEPT !.pc = "tx", !.todo = rest]

\* After the last keyword comes the reload.
AfterKeyword(job, rest) ==
    IF rest = {} THEN NewReload(job.alone) ELSE [job EXCEPT !.pc = "tx", !.todo = rest]

\* After an error there is no reload, whatever the transactions before it have changed.
CommitTrigger(a, k) ==
    /\ admin[a].pc = "commit"
    /\ k \in admin[a].todo
    /\ LET job == admin[a]
           rest == job.todo \ {k}
           base == IF job.kind = "overwrite" THEN rows.triggers ELSE job.copy.triggers
       IN  \/ /\ ~Conflict(a)
              /\ rows' = [rows EXCEPT !.triggers = Changed(job.kind, base, job.id, k)]
              /\ admin' = [admin EXCEPT ![a] = AfterKeyword(job, rest)]
              /\ NoConfigFault
              /\ UNCHANGED unsynced
           \/ /\ IF Conflict(a) THEN NoConfigFault ELSE ConfigFault
              /\ EndCommand(a, {"triggers"})
              /\ UNCHANGED rows
    /\ UNCHANGED <<memory, adminCommands>>

\* /register_top_channel saves with one statement, then reloads.
SaveTopChannelConfig(a) ==
    /\ Turn(a)
    /\ rows' = [rows EXCEPT !.top = 1 - @]
    /\ admin' = Accompany(a, NewReload(Alone(a)))
    /\ UNCHANGED <<memory, configFaults, unsynced>>

AdminStep(a) ==
    \/ LoadTable(a) \/ StoreConfig(a) \/ UpdateGuildConfig(a)
    \/ ParseMessageLinks(a) \/ AppendPreset(a) \/ AddPreset(a) \/ EditPreset(a) \/ UpdatePreset(a)
    \/ ReadTriggers(a)
    \/ \E k \in Keywords : CommitTrigger(a, k)

ConfigNext ==
    \E a \in Admins :
        \/ AdminStep(a)
        \/ ReloadCommand(a)
        \/ SaveTopChannelConfig(a)
        \/ \E p \in PresetIDs :
              \/ \E kind \in {"toggle", "grant"} : GuildCommand(a, kind, p)
              \/ \E kind \in {"create", "edit"} : PresetCommand(a, kind, p)
              \/ DeletePreset(a, p)
              \/ \E kind \in {"bind", "unbind", "overwrite"}, ks \in SUBSET Keywords \ {{}} :
                    TriggerCommand(a, kind, p, ks)

ConfigSpec == ConfigInit /\ [][ConfigNext]_configVars
-----------------------------------------------------------------------------
(* Properties                                                              *)

\* With no command under way, memory shows a table as it is, unless since the last reload
\* that ran alone commands have overlapped, a command has failed in the middle, a preset
\* was deleted or the guild's row was changed: a single command, however many steps it has,
\* brings memory and tables together, and a reload alone mends every difference.
SyncedTables ==
    (\A a \in Admins : ~Busy(a)) =>
        \A t \in Tables \ unsynced : memory[t] = rows[t]

\* No interleaving of commands loses or invents a binding of a keyword: what appears or goes
\* is what the command that commits at that step was given (AddAutoTrigger and its like read
\* and write within one transaction).
NoBindingLost == [][
    \A b \in Binding, gone \in BOOLEAN :
        b \in (IF gone THEN rows.triggers \ rows.triggers' ELSE rows.triggers' \ rows.triggers) =>
            \E a \in Admins :
                /\ admin[a].pc = "commit"
                /\ admin'[a].pc # "commit"
                /\ \/ ~gone /\ admin[a].kind # "unbind" /\ b[1] = admin[a].id /\ b[2] \in admin[a].todo
                   \/ gone /\ admin[a].kind = "unbind" /\ b[2] \in admin[a].todo
                   \/ gone /\ admin[a].kind = "overwrite" /\ b[1] = admin[a].id ]_configVars
=============================================================================
