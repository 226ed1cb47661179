---------------------------- MODULE FilesProofs ----------------------------
(***************************************************************************)
(* Proofs about commands and tasks on the same file, rows and messages:    *)
(* GuildConfig, Leaderboard, NewCardPush, PunishmentHistory, ScanSchedule  *)
(* and TopChannel, each by an inductive invariant of its own, and about    *)
(* MCFiles, where they stand side by side.                                 *)
(***************************************************************************)
EXTENDS MCFiles, FiniteSetTheorems, WellFoundedInduction, TLAPS
-----------------------------------------------------------------------------
(* The configuration: types                                                *)

\* A command does what its kind is about, and edits a preset that its copy has.
KindsFit == \A a \in Admins :
    /\ admin[a].pc \in {"tx", "commit"} => admin[a].kind \in {"bind", "unbind", "overwrite"}
    /\ admin[a].pc \in {"parse", "write"} /\ admin[a].kind = "edit" => admin[a].id \in Known(admin[a].copy)
    /\ admin[a].pc \in {"parse", "write"} => admin[a].kind \in {"create", "edit"}

ConfigTypes == ConfigTypeOK /\ KindsFit

\* The locals of a command.
Local == {Quiet} \cup Job \cup Loading

\* Which locals they are, one can tell from the program counter.
LEMMA LocalOf ==
    ASSUME ConfigTypeOK, NEW a \in Admins
    PROVE  /\ admin[a].pc = "quiet" <=> admin[a] = Quiet
           /\ admin[a].pc = "load" <=> admin[a] \in Loading
           /\ admin[a].pc \in {"row", "parse", "write", "insert", "update", "tx", "commit"}
                 <=> admin[a] \in Job
           /\ admin[a].pc \in {"quiet", "load", "row", "parse", "write", "insert", "update", "tx", "commit"}
BY DEF ConfigTypeOK, Quiet, Job, Loading

\* The counters stay within their bounds.
LEMMA ConfigCounters ==
    ASSUME ConfigTypeOK
    PROVE  /\ ConfigFault \/ NoConfigFault => configFaults' \in 0..MaxConfigFaults
           /\ \A a \in Admins : Turn(a) => adminCommands' \in 0..MaxAdminCommands
BY ConfigBoundAssumption DEF ConfigTypeOK, ConfigFault, NoConfigFault, Turn

\* A command begins.
LEMMA AccompanyTypes ==
    ASSUME ConfigTypes, NEW a \in Admins, NEW local \in Local, admin' = Accompany(a, local),
           /\ local.pc \in {"tx", "commit"} => local.kind \in {"bind", "unbind", "overwrite"}
           /\ local.pc \in {"parse", "write"} => local.kind \in {"create", "edit"}
           /\ local.pc \in {"parse", "write"} /\ local.kind = "edit" => local.id \in Known(local.copy)
    PROVE  admin' \in [Admins -> Local] /\ KindsFit'
<1>1. \A o \in Admins : Busy(o) =>
         /\ [admin[o] EXCEPT !.alone = FALSE] \in Local
         /\ [admin[o] EXCEPT !.alone = FALSE].pc = admin[o].pc
         /\ admin[o].pc # "load" => [admin[o] EXCEPT !.alone = FALSE].kind = admin[o].kind
                                 /\ [admin[o] EXCEPT !.alone = FALSE].id = admin[o].id
                                 /\ [admin[o] EXCEPT !.alone = FALSE].copy = admin[o].copy
  <2> SUFFICES ASSUME NEW o \in Admins, Busy(o)
               PROVE  /\ [admin[o] EXCEPT !.alone = FALSE] \in Local
                      /\ [admin[o] EXCEPT !.alone = FALSE].pc = admin[o].pc
                      /\ admin[o].pc # "load" => [admin[o] EXCEPT !.alone = FALSE].kind = admin[o].kind
                                              /\ [admin[o] EXCEPT !.alone = FALSE].id = admin[o].id
                                              /\ [admin[o] EXCEPT !.alone = FALSE].copy = admin[o].copy
    OBVIOUS
  <2>1. CASE admin[o] \in Job
    BY <2>1 DEF Local, Job
  <2>2. CASE admin[o] \in Loading
    BY <2>2 DEF Local, Loading
  <2> QED BY <2>1, <2>2, LocalOf DEF ConfigTypes, Busy
<1>2. \A o \in Admins : admin'[o] = IF o = a THEN local
                                   ELSE IF Busy(o) THEN [admin[o] EXCEPT !.alone = FALSE] ELSE admin[o]
  BY DEF Accompany
<1>3. admin' \in [Admins -> Local]
  BY <1>1 DEF Accompany, ConfigTypes, ConfigTypeOK, Local
<1>4. ASSUME NEW o \in Admins
      PROVE  /\ admin'[o].pc \in {"tx", "commit"} => admin'[o].kind \in {"bind", "unbind", "overwrite"}
             /\ admin'[o].pc \in {"parse", "write"} => admin'[o].kind \in {"create", "edit"}
             /\ admin'[o].pc \in {"parse", "write"} /\ admin'[o].kind = "edit"
                   => admin'[o].id \in Known(admin'[o].copy)
  <2>1. CASE o = a
    BY <1>2, <2>1
  <2>2. CASE o # a /\ Busy(o)
    BY <1>1, <1>2, <2>2 DEF ConfigTypes, KindsFit
  <2>3. CASE o # a /\ ~ Busy(o)
    BY <1>2, <2>3 DEF Busy
  <2> QED BY <2>1, <2>2, <2>3
<1>5. KindsFit'
  BY <1>4 DEF KindsFit, Known
<1> QED BY <1>3, <1>5

\* One command goes on.
LEMMA GoOnTypes ==
    ASSUME ConfigTypes, NEW a \in Admins, NEW local \in Local, admin' = [admin EXCEPT ![a] = local],
           /\ local.pc \in {"tx", "commit"} => local.kind \in {"bind", "unbind", "overwrite"}
           /\ local.pc \in {"parse", "write"} => local.kind \in {"create", "edit"}
           /\ local.pc \in {"parse", "write"} /\ local.kind = "edit" => local.id \in Known(local.copy)
    PROVE  admin' \in [Admins -> Local] /\ KindsFit'
<1>1. admin' \in [Admins -> Local]
  BY DEF ConfigTypes, ConfigTypeOK, Local
<1>2. \A o \in Admins : admin'[o] = IF o = a THEN local ELSE admin[o]
  BY DEF ConfigTypes, ConfigTypeOK
<1> QED BY <1>1, <1>2 DEF ConfigTypes, KindsFit, Known

\* It ends.
LEMMA EndTypes ==
    ASSUME ConfigTypes, NEW a \in Admins, NEW tables \in SUBSET Tables, EndCommand(a, tables)
    PROVE  admin' \in [Admins -> Local] /\ KindsFit' /\ unsynced' \subseteq Tables
<1>1. admin' \in [Admins -> Local] /\ KindsFit'
  <2>1. Quiet \in Local /\ Quiet.pc = "quiet"
    BY DEF Local, Quiet
  <2> QED BY <2>1, GoOnTypes DEF EndCommand
<1> QED BY <1>1 DEF EndCommand, ConfigTypes, ConfigTypeOK

\* The process starts with the tables and a copy of them.
LEMMA InitConfigTypes == ConfigInit => ConfigTypes
<1> SUFFICES ASSUME ConfigInit PROVE ConfigTypes
  OBVIOUS
<1>1. rows \in ServerConfig /\ memory \in ServerConfig
  <2>1. PICK ps \in [PresetIDs -> 0..1] :
           rows = [ guild |-> [enable |-> TRUE, role |-> FALSE], presets |-> ps, top |-> 0,
                    triggers |-> {b \in Binding : ps[b[1]] # Absent} ]
    BY DEF ConfigInit
  <2>2. ps \in [PresetIDs -> PresetValue]
    BY DEF PresetValue
  <2>3. {b \in Binding : ps[b[1]] # Absent} \in SUBSET Binding
    OBVIOUS
  <2> QED BY <2>1, <2>2, <2>3 DEF ConfigInit, ServerConfig
<1>2. admin \in [Admins -> Local] /\ \A a \in Admins : admin[a].pc = "quiet"
  BY DEF ConfigInit, Local, Quiet
<1> QED BY <1>1, <1>2, ConfigBoundAssumption DEF ConfigInit, ConfigTypes, ConfigTypeOK, KindsFit, Local

\* A job that begins.
LEMMA NewJobTypes ==
    ASSUME ConfigTypes, NEW a \in Admins, NEW p \in PresetIDs, NEW ks \in SUBSET Keywords,
           NEW shared \in BOOLEAN,
           NEW pc \in {"row", "parse", "write", "insert", "update", "tx", "commit"},
           NEW kind \in {"toggle", "grant", "create", "edit", "bind", "unbind", "overwrite"}
    PROVE  NewJob(a, pc, kind, p, ks, shared) \in Job
BY DEF ConfigTypes, ConfigTypeOK, NewJob, Job, Alone

\* A reload that begins has its locals.
LEMMA NewReloadTypes ==
    ASSUME ConfigTypes, NEW alone \in BOOLEAN
    PROVE  NewReload(alone) \in Loading /\ NewReload(alone).pc = "load"
BY DEF ConfigTypes, ConfigTypeOK, NewReload, Loading

\* A reload begins: types.
LEMMA ReloadCommandTypes ==
    ASSUME ConfigTypes, NEW a \in Admins, ReloadCommand(a)
    PROVE  ConfigTypes'
<1>1. NewReload(Alone(a)) \in Local /\ NewReload(Alone(a)).pc = "load"
  BY NewReloadTypes DEF Local, Alone
<1>2. admin' \in [Admins -> Local] /\ KindsFit'
  BY <1>1, AccompanyTypes DEF ReloadCommand, BeginCommand
<1> QED BY <1>2, ConfigCounters DEF ReloadCommand, BeginCommand, ConfigTypes, ConfigTypeOK, Local

\* A command about the guild begins: types.
LEMMA GuildCommandTypes ==
    ASSUME ConfigTypes, NEW a \in Admins, NEW kind \in {"toggle", "grant"}, NEW p \in PresetIDs,
           GuildCommand(a, kind, p)
    PROVE  ConfigTypes'
<1>1. PICK job : job = [NewJob(a, "row", kind, p, {}, FALSE) EXCEPT !.copy = rows]
  OBVIOUS
<1>2. job \in Job /\ job.pc = "row"
  <2>0. NewJob(a, "row", kind, p, {}, FALSE) \in Job
    BY NewJobTypes
  <2>1. PICK j \in Job : j = NewJob(a, "row", kind, p, {}, FALSE) /\ j.pc = "row"
    BY <2>0 DEF NewJob
  <2> QED BY <1>1, <2>1 DEF ConfigTypes, ConfigTypeOK, Job
<1>3. admin' \in [Admins -> Local] /\ KindsFit'
  BY <1>1, <1>2, AccompanyTypes DEF GuildCommand, BeginCommand, Local
<1> QED BY <1>3, ConfigCounters DEF GuildCommand, BeginCommand, ConfigTypes, ConfigTypeOK, Local

\* A command about presets begins: types.
LEMMA PresetCommandTypes ==
    ASSUME ConfigTypes, NEW a \in Admins, NEW kind \in {"create", "edit"}, NEW p \in PresetIDs,
           PresetCommand(a, kind, p)
    PROVE  ConfigTypes'
<1>1. PICK job : job = NewJob(a, "parse", kind, p, {}, TRUE)
  OBVIOUS
<1>2. job \in Job /\ job.pc = "parse" /\ job.kind = kind /\ job.id = p /\ job.copy = memory
  BY <1>1, NewJobTypes DEF NewJob
<1>3. kind = "edit" => p \in Known(memory)
  BY DEF PresetCommand
<1>4. admin' \in [Admins -> Local] /\ KindsFit'
  BY <1>1, <1>2, <1>3, AccompanyTypes DEF PresetCommand, BeginCommand, Local
<1> QED BY <1>4, ConfigCounters DEF PresetCommand, BeginCommand, ConfigTypes, ConfigTypeOK, Local

\* A command about triggers begins: types.
LEMMA TriggerCommandTypes ==
    ASSUME ConfigTypes, NEW a \in Admins, NEW kind \in {"bind", "unbind", "overwrite"},
           NEW p \in PresetIDs, NEW ks \in SUBSET Keywords, TriggerCommand(a, kind, p, ks)
    PROVE  ConfigTypes'
<1>1. PICK job : job = NewJob(a, "tx", kind, p, ks, FALSE)
  OBVIOUS
<1>2. job \in Job /\ job.pc = "tx" /\ job.kind = kind
  BY <1>1, NewJobTypes DEF NewJob
<1>4. admin' \in [Admins -> Local] /\ KindsFit'
  BY <1>1, <1>2, AccompanyTypes DEF TriggerCommand, BeginCommand, Local
<1> QED BY <1>4, ConfigCounters DEF TriggerCommand, BeginCommand, ConfigTypes, ConfigTypeOK, Local

\* Some copies lose the array that they shared, and one command goes on.
LEMMA DetachTypes ==
    ASSUME ConfigTypes, NEW a \in Admins, NEW local \in Local, NEW D,
           local.pc \notin {"tx", "commit", "parse", "write"},
           admin' = [o \in Admins |-> IF o = a THEN local
                                      ELSE IF D /\ admin[o].pc \in {"parse", "write"}
                                           THEN [admin[o] EXCEPT !.shared = FALSE] ELSE admin[o]]
    PROVE  admin' \in [Admins -> Local] /\ KindsFit'
<1>1. ASSUME NEW o \in Admins \ {a}
      PROVE  \/ admin'[o] = admin[o]
             \/ /\ admin[o] \in Job /\ admin'[o] \in Job /\ admin'[o].pc = admin[o].pc
                /\ admin'[o].kind = admin[o].kind /\ admin'[o].id = admin[o].id
                /\ admin'[o].copy = admin[o].copy
  <2>1. CASE admin'[o] = admin[o]
    BY <2>1
  <2>2. CASE admin[o].pc \in {"parse", "write"} /\ admin'[o] = [admin[o] EXCEPT !.shared = FALSE]
    <3>1. admin[o] \in Job
      BY <2>2, LocalOf DEF ConfigTypes
    <3> QED BY <2>2, <3>1 DEF Job
  <2> QED BY <2>1, <2>2
<1>2. admin'[a] = local
  OBVIOUS
<1>3. \A o \in Admins : admin'[o] \in Local
  BY <1>1, <1>2 DEF Local, ConfigTypes, ConfigTypeOK
<1>4. admin' \in [Admins -> Local]
  BY <1>3
<1>5. KindsFit'
  BY <1>1, <1>2 DEF ConfigTypes, KindsFit, Known
<1> QED BY <1>4, <1>5

\* A configuration with one table replaced.
LEMMA TableTypes ==
    ASSUME NEW c \in ServerConfig, NEW d \in ServerConfig, NEW table \in Tables
    PROVE  [c EXCEPT ![table] = d[table]] \in ServerConfig
<1>1. CASE table = "guild"
  BY <1>1 DEF ServerConfig
<1>2. CASE table = "presets"
  BY <1>2 DEF ServerConfig
<1>3. CASE table = "top"
  BY <1>3 DEF ServerConfig
<1>4. CASE table = "triggers"
  BY <1>4 DEF ServerConfig
<1> QED BY <1>1, <1>2, <1>3, <1>4 DEF Tables

\* The order of reading is one of tables.
LEMMA ReadingTables ==
    ASSUME NEW i \in 1..4
    PROVE  Reading[i] \in Tables /\ \A j \in 1..4 : Reading[i] = Reading[j] => i = j
BY DEF Reading, Tables

\* A reload reads one table: types.
LEMMA LoadTableTypes ==
    ASSUME ConfigTypes, NEW a \in Admins, LoadTable(a)
    PROVE  ConfigTypes'
<1>1. admin[a] \in Loading /\ admin[a].next \in 1..4
  BY LocalOf DEF LoadTable, ConfigTypes, Loading
<1>2. CASE EndCommand(a, {"top", "triggers"}) /\ ConfigFault
  <2>1. admin' \in [Admins -> Local] /\ KindsFit' /\ unsynced' \subseteq Tables
    BY <1>2, EndTypes DEF Tables
  <2> QED BY <1>2, <2>1, ConfigCounters DEF LoadTable, ConfigTypes, ConfigTypeOK, Local
<1>3. CASE /\ admin' = [admin EXCEPT ![a].config[Reading[admin[a].next]] = rows[Reading[admin[a].next]],
                                     ![a].next = @ + 1]
           /\ NoConfigFault /\ UNCHANGED unsynced
  <2>1. PICK local : local = [admin[a] EXCEPT !.config[Reading[admin[a].next]] = rows[Reading[admin[a].next]],
                                             !.next = @ + 1]
    OBVIOUS
  <2>2. admin' = [admin EXCEPT ![a] = local]
    BY <1>3, <2>1 DEF ConfigTypes, ConfigTypeOK
  <2>3. PICK table \in Tables : table = Reading[admin[a].next]
    BY <1>1, ReadingTables
  <2>4. [admin[a].config EXCEPT ![table] = rows[table]] \in ServerConfig
    BY <1>1, TableTypes DEF ConfigTypes, ConfigTypeOK, Loading
  <2>5. local \in Loading /\ local.pc = "load"
    <3>1. local = [admin[a] EXCEPT !.config = [admin[a].config EXCEPT ![table] = rows[table]],
                                   !.next = admin[a].next + 1]
      BY <2>1, <2>3
    <3>2. admin[a].next + 1 \in 1..5
      BY <1>1
    <3> QED BY <1>1, <2>4, <3>1, <3>2 DEF Loading
  <2>6. admin' \in [Admins -> Local] /\ KindsFit'
    BY <2>2, <2>5, GoOnTypes DEF Local
  <2> QED BY <1>3, <2>6, ConfigCounters DEF LoadTable, ConfigTypes, ConfigTypeOK, Local
<1> QED BY <1>2, <1>3 DEF LoadTable

\* A reload puts its copy in place: types.
LEMMA StoreConfigTypes ==
    ASSUME ConfigTypes, NEW a \in Admins, StoreConfig(a)
    PROVE  ConfigTypes'
<1>1. admin[a] \in Loading
  BY LocalOf DEF StoreConfig, ConfigTypes
<1>2. memory' \in ServerConfig
  BY <1>1 DEF StoreConfig, Loading
<1>4. admin' \in [Admins -> Local] /\ KindsFit'
  <2>1. Quiet \in Local /\ Quiet.pc = "quiet"
    BY DEF Local, Quiet
  <2>2. admin' = [o \in Admins |-> IF o = a THEN Quiet
                                   ELSE IF TRUE /\ admin[o].pc \in {"parse", "write"}
                                        THEN [admin[o] EXCEPT !.shared = FALSE] ELSE admin[o]]
    BY DEF StoreConfig
  <2> QED BY <2>1, <2>2, DetachTypes
<1>5. unsynced' \subseteq Tables
  BY DEF StoreConfig, ConfigTypes, ConfigTypeOK
<1> QED BY <1>2, <1>4, <1>5 DEF StoreConfig, ConfigTypes, ConfigTypeOK, Local

\* The row of the guild is written: types.
LEMMA UpdateGuildConfigTypes ==
    ASSUME ConfigTypes, NEW a \in Admins, UpdateGuildConfig(a)
    PROVE  ConfigTypes'
<1>1. admin[a] \in Job
  BY LocalOf DEF UpdateGuildConfig, ConfigTypes
<1>2. PICK row : row = admin[a].copy.guild
  OBVIOUS
<1>3. row \in [enable : BOOLEAN, role : BOOLEAN]
  BY <1>1, <1>2 DEF Job, ServerConfig
<1>4. [row EXCEPT !.enable = ~@] \in [enable : BOOLEAN, role : BOOLEAN]
      /\ [row EXCEPT !.role = ~@] \in [enable : BOOLEAN, role : BOOLEAN]
  BY <1>3
<1>5. PICK new \in [enable : BOOLEAN, role : BOOLEAN] : rows' \in {rows, [rows EXCEPT !.guild = new]}
  BY <1>2, <1>4 DEF UpdateGuildConfig
<1>6. rows' \in ServerConfig
  BY <1>5 DEF ConfigTypes, ConfigTypeOK, ServerConfig
<1>7. admin' \in [Admins -> Local] /\ KindsFit' /\ unsynced' \subseteq Tables
  BY EndTypes DEF UpdateGuildConfig, Tables
<1> QED BY <1>6, <1>7, ConfigCounters DEF UpdateGuildConfig, ConfigTypes, ConfigTypeOK, Local

\* A command about presets takes its copy of the configuration: types.
LEMMA ParseMessageLinksTypes ==
    ASSUME ConfigTypes, NEW a \in Admins, ParseMessageLinks(a)
    PROVE  ConfigTypes'
<1>1. admin[a] \in Job
  BY LocalOf DEF ParseMessageLinks, ConfigTypes
<1>2. CASE Go(a, "write")
  <2>1. PICK local : local = [admin[a] EXCEPT !.pc = "write"]
    OBVIOUS
  <2>2. /\ local \in Job /\ local.pc = "write" /\ local.kind = admin[a].kind
        /\ local.id = admin[a].id /\ local.copy = admin[a].copy
    BY <1>1, <2>1 DEF Job
  <2>3. admin' = [admin EXCEPT ![a] = local]
    BY <1>2, <2>1 DEF Go, ConfigTypes, ConfigTypeOK
  <2>4. local.kind \in {"create", "edit"} /\ (local.kind = "edit" => local.id \in Known(local.copy))
    BY <2>2 DEF ConfigTypes, KindsFit, ParseMessageLinks
  <2>5. admin' \in [Admins -> Local] /\ KindsFit'
    BY <2>2, <2>3, <2>4, GoOnTypes DEF Local
  <2> QED BY <1>2, <2>5 DEF Go, ParseMessageLinks, ConfigTypes, ConfigTypeOK, Local
<1>3. CASE EndCommand(a, {})
  <2>1. admin' \in [Admins -> Local] /\ KindsFit' /\ unsynced' \subseteq Tables
    BY <1>3, EndTypes
  <2> QED BY <2>1 DEF ParseMessageLinks, ConfigTypes, ConfigTypeOK, Local
<1> QED BY <1>2, <1>3 DEF ParseMessageLinks

\* A preset is appended in memory: types.
LEMMA AppendPresetTypes ==
    ASSUME ConfigTypes, NEW a \in Admins, AppendPreset(a)
    PROVE  ConfigTypes'
<1>1. admin[a] \in Job
  BY LocalOf DEF AppendPreset, ConfigTypes
<1>2. memory' \in ServerConfig
  <2>1. admin[a].copy \in ServerConfig /\ admin[a].id \in PresetIDs /\ 1 \in PresetValue
    BY <1>1 DEF Job, PresetValue
  <2> QED BY <2>1 DEF AppendPreset, ServerConfig
<1>3. PICK local : local = [admin[a] EXCEPT !.pc = "insert"]
  OBVIOUS
<1>4. local \in Job /\ local.pc = "insert"
  BY <1>1, <1>3 DEF Job
<1>5. PICK moved \in BOOLEAN : admin' = [o \in Admins |->
              IF o = a THEN local
              ELSE IF moved /\ admin[o].pc \in {"parse", "write"}
                   THEN [admin[o] EXCEPT !.shared = FALSE]
              ELSE admin[o]]
  BY <1>3 DEF AppendPreset
<1>6. admin' \in [Admins -> Local] /\ KindsFit'
  BY <1>4, <1>5, DetachTypes DEF Local
<1> QED BY <1>2, <1>6 DEF AppendPreset, ConfigTypes, ConfigTypeOK, Local

\* The new preset becomes a row: types.
LEMMA AddPresetTypes ==
    ASSUME ConfigTypes, NEW a \in Admins, AddPreset(a)
    PROVE  ConfigTypes'
<1>1. admin[a] \in Job
  BY LocalOf DEF AddPreset, ConfigTypes
<1>2. rows' \in ServerConfig
  <2>1. admin[a].id \in PresetIDs /\ 1 \in PresetValue
    BY <1>1 DEF Job, PresetValue
  <2> QED BY <2>1 DEF AddPreset, ServerConfig, ConfigTypes, ConfigTypeOK
<1>3. admin' \in [Admins -> Local] /\ KindsFit' /\ unsynced' \subseteq Tables
  BY EndTypes DEF AddPreset, Tables
<1> QED BY <1>2, <1>3, ConfigCounters DEF AddPreset, ConfigTypes, ConfigTypeOK, Local

\* An edit of a preset that a configuration has.
LEMMA ChangeTypes ==
    ASSUME NEW c \in ServerConfig, NEW p \in Known(c)
    PROVE  Change(c, p) \in ServerConfig /\ Known(Change(c, p)) = Known(c)
<1>1. p \in PresetIDs /\ c.presets \in [PresetIDs -> PresetValue] /\ c.presets[p] # Absent
  BY DEF Known, ServerConfig
<1>2. 3 - c.presets[p] \in PresetValue /\ 3 - c.presets[p] # Absent
  BY <1>1 DEF PresetValue, Absent
<1>3. PICK ps : ps = [c.presets EXCEPT ![p] = 3 - c.presets[p]]
  OBVIOUS
<1>4. ps \in [PresetIDs -> PresetValue] /\ \A q \in PresetIDs : ps[q] # Absent <=> c.presets[q] # Absent
  BY <1>1, <1>2, <1>3
<1>5. Change(c, p) = [c EXCEPT !.presets = ps]
  BY <1>3 DEF Change
<1>6. Change(c, p) \in ServerConfig /\ Change(c, p).presets = ps
  BY <1>4, <1>5 DEF ServerConfig
<1> QED BY <1>4, <1>6 DEF Known

\* A preset is changed in memory: types.
LEMMA EditPresetTypes ==
    ASSUME ConfigTypes, NEW a \in Admins, EditPreset(a)
    PROVE  ConfigTypes'
<1>1. admin[a] \in Job
  BY LocalOf DEF EditPreset, ConfigTypes
<1>2. PICK p \in PresetIDs : p = admin[a].id
  BY <1>1 DEF Job
<1>3. p \in Known(admin[a].copy)
  BY <1>2 DEF EditPreset, ConfigTypes, KindsFit
<1>4. memory' \in ServerConfig
  BY <1>2, ChangeTypes DEF EditPreset, ConfigTypes, ConfigTypeOK
<1>5. PICK local : local = [admin[a] EXCEPT !.pc = "update", !.copy = Change(@, p)]
  OBVIOUS
<1>6. local \in Job /\ local.pc = "update"
  BY <1>1, <1>3, <1>5, ChangeTypes DEF Job
<1>7. ASSUME NEW o \in Admins \ {a}
      PROVE  \/ admin'[o] = admin[o]
             \/ /\ admin[o].pc \in {"parse", "write"} /\ p \in Known(admin[o].copy)
                /\ admin'[o] = [admin[o] EXCEPT !.copy = Change(@, p)]
  BY <1>2 DEF EditPreset
<1>8. ASSUME NEW o \in Admins \ {a}
      PROVE  \/ admin'[o] = admin[o]
             \/ /\ admin[o] \in Job /\ admin'[o] \in Job /\ admin'[o].pc = admin[o].pc
                /\ admin'[o].kind = admin[o].kind /\ admin'[o].id = admin[o].id
                /\ Known(admin'[o].copy) = Known(admin[o].copy)
  <2>1. CASE admin'[o] = admin[o]
    BY <2>1
  <2>2. CASE /\ admin[o].pc \in {"parse", "write"} /\ p \in Known(admin[o].copy)
             /\ admin'[o] = [admin[o] EXCEPT !.copy = Change(@, p)]
    <3>1. admin[o] \in Job
      BY <2>2, LocalOf DEF ConfigTypes
    <3>2. Change(admin[o].copy, p) \in ServerConfig /\ Known(Change(admin[o].copy, p)) = Known(admin[o].copy)
      BY <2>2, <3>1, ChangeTypes DEF Job
    <3> QED BY <2>2, <3>1, <3>2 DEF Job
  <2> QED BY <1>7, <2>1, <2>2
<1>9. admin'[a] = local
  BY <1>2, <1>5 DEF EditPreset
<1>10. admin' \in [Admins -> Local]
  <2>1. \A o \in Admins : admin'[o] \in Local
    BY <1>6, <1>8, <1>9 DEF Local, ConfigTypes, ConfigTypeOK
  <2>2. admin' = [o \in Admins |-> admin'[o]]
    BY DEF EditPreset
  <2> QED BY <2>1, <2>2
<1>11. KindsFit'
  BY <1>6, <1>8, <1>9 DEF ConfigTypes, KindsFit, Known
<1> QED BY <1>4, <1>10, <1>11 DEF EditPreset, ConfigTypes, ConfigTypeOK, Local

\* The changed preset is written to its row: types.
LEMMA UpdatePresetTypes ==
    ASSUME ConfigTypes, NEW a \in Admins, UpdatePreset(a)
    PROVE  ConfigTypes'
<1>1. admin[a] \in Job
  BY LocalOf DEF UpdatePreset, ConfigTypes
<1>2. rows' \in ServerConfig
  <2>1. admin[a].id \in PresetIDs /\ admin[a].copy.presets[admin[a].id] \in PresetValue
    BY <1>1 DEF Job, ServerConfig
  <2>2. rows' \in {rows, [rows EXCEPT !.presets[admin[a].id] = admin[a].copy.presets[admin[a].id]]}
    BY DEF UpdatePreset
  <2> QED BY <2>1, <2>2 DEF ServerConfig, ConfigTypes, ConfigTypeOK
<1>3. admin' \in [Admins -> Local] /\ KindsFit' /\ unsynced' \subseteq Tables
  BY EndTypes DEF UpdatePreset, Tables
<1> QED BY <1>2, <1>3, ConfigCounters DEF UpdatePreset, ConfigTypes, ConfigTypeOK, Local

\* A preset is deleted: types.
LEMMA DeletePresetTypes ==
    ASSUME ConfigTypes, NEW a \in Admins, NEW p \in PresetIDs, DeletePreset(a, p)
    PROVE  ConfigTypes'
<1>1. rows' \in ServerConfig
  <2>1. Absent \in PresetValue
    BY DEF Absent, PresetValue
  <2> QED BY <2>1 DEF DeletePreset, ServerConfig, ConfigTypes, ConfigTypeOK
<1>2. Quiet \in Local /\ Quiet.pc = "quiet"
  BY DEF Quiet, Local
<1>3. admin' \in [Admins -> Local] /\ KindsFit'
  BY <1>2, AccompanyTypes DEF DeletePreset
<1>4. unsynced' \subseteq Tables
  BY DEF DeletePreset, ConfigTypes, ConfigTypeOK, Tables
<1> QED BY <1>1, <1>3, <1>4, ConfigCounters DEF DeletePreset, ConfigTypes, ConfigTypeOK, Local

\* A transaction reads the bindings: types.
LEMMA ReadTriggersTypes ==
    ASSUME ConfigTypes, NEW a \in Admins, ReadTriggers(a)
    PROVE  ConfigTypes'
<1>1. admin[a] \in Job
  BY LocalOf DEF ReadTriggers, ConfigTypes
<1>2. PICK local : local = [admin[a] EXCEPT !.pc = "commit", !.copy = rows]
  OBVIOUS
<1>3. local \in Job /\ local.pc = "commit" /\ local.kind = admin[a].kind
  BY <1>1, <1>2 DEF Job, ConfigTypes, ConfigTypeOK
<1>4. admin' = [admin EXCEPT ![a] = local]
  BY <1>2 DEF ReadTriggers, ConfigTypes, ConfigTypeOK
<1>5. admin' \in [Admins -> Local] /\ KindsFit'
  BY <1>3, <1>4, GoOnTypes DEF Local, ReadTriggers, ConfigTypes, KindsFit
<1> QED BY <1>5 DEF ReadTriggers, ConfigTypes, ConfigTypeOK, Local

\* The bindings after a transaction.
LEMMA ChangedTypes ==
    ASSUME NEW kind \in {"bind", "unbind", "overwrite"}, NEW ts \in SUBSET Binding,
           NEW p \in PresetIDs, NEW k \in Keywords
    PROVE  Changed(kind, ts, p, k) \in SUBSET Binding
BY DEF Changed, AddAutoTrigger, DeleteAutoTrigger, OverwriteAutoTrigger, Binding

\* A transaction commits: types.
LEMMA CommitTriggerTypes ==
    ASSUME ConfigTypes, NEW a \in Admins, NEW k \in Keywords, CommitTrigger(a, k)
    PROVE  ConfigTypes'
<1>1. admin[a] \in Job /\ admin[a].kind \in {"bind", "unbind", "overwrite"}
  BY LocalOf DEF CommitTrigger, ConfigTypes, KindsFit
<1>2. CASE EndCommand(a, {"triggers"}) /\ UNCHANGED rows
  <2>1. admin' \in [Admins -> Local] /\ KindsFit' /\ unsynced' \subseteq Tables
    BY <1>2, EndTypes DEF Tables
  <2> QED BY <1>2, <2>1, ConfigCounters DEF CommitTrigger, ConfigTypes, ConfigTypeOK, Local
<1>3. CASE /\ \E base \in {rows.triggers, admin[a].copy.triggers} :
                 rows' = [rows EXCEPT !.triggers = Changed(admin[a].kind, base, admin[a].id, k)]
           /\ admin' = [admin EXCEPT ![a] = AfterKeyword(admin[a], admin[a].todo \ {k})]
           /\ NoConfigFault /\ UNCHANGED unsynced
  <2>1. rows' \in ServerConfig
    <3>1. PICK base \in {rows.triggers, admin[a].copy.triggers} :
             rows' = [rows EXCEPT !.triggers = Changed(admin[a].kind, base, admin[a].id, k)]
      BY <1>3
    <3>2. base \in SUBSET Binding
      BY <1>1, <3>1 DEF Job, ServerConfig, ConfigTypes, ConfigTypeOK
    <3>3. Changed(admin[a].kind, base, admin[a].id, k) \in SUBSET Binding
      BY <1>1, <3>2, ChangedTypes DEF Job
    <3> QED BY <3>1, <3>3 DEF ServerConfig, ConfigTypes, ConfigTypeOK
  <2>2. PICK local : local = AfterKeyword(admin[a], admin[a].todo \ {k})
    OBVIOUS
  <2>3. \/ local \in Loading /\ local.pc = "load"
        \/ local \in Job /\ local.pc = "tx" /\ local.kind = admin[a].kind
    <3>1. CASE admin[a].todo \ {k} = {}
      <4>1. local = NewReload(admin[a].alone)
        BY <2>2, <3>1 DEF AfterKeyword
      <4>2. admin[a].alone \in BOOLEAN
        BY <1>1 DEF Job
      <4> QED BY <4>1, <4>2, NewReloadTypes
    <3>2. CASE admin[a].todo \ {k} # {}
      BY <1>1, <2>2, <3>2 DEF AfterKeyword, Job
    <3> QED BY <3>1, <3>2
  <2>4. admin' \in [Admins -> Local] /\ KindsFit'
    BY <1>1, <1>3, <2>2, <2>3, GoOnTypes DEF Local
  <2> QED BY <1>3, <2>1, <2>4, ConfigCounters DEF CommitTrigger, ConfigTypes, ConfigTypeOK, Local
<1> QED BY <1>2, <1>3 DEF CommitTrigger

\* The row of a top channel is saved: types.
LEMMA SaveTopChannelConfigTypes ==
    ASSUME ConfigTypes, NEW a \in Admins, SaveTopChannelConfig(a)
    PROVE  ConfigTypes'
<1>1. NewReload(Alone(a)) \in Local /\ NewReload(Alone(a)).pc = "load"
  BY NewReloadTypes DEF Local, Alone
<1>2. admin' \in [Admins -> Local] /\ KindsFit'
  BY <1>1, AccompanyTypes DEF SaveTopChannelConfig
<1>3. rows' \in ServerConfig
  <2>1. rows.top \in 0..1 /\ 1 - rows.top \in 0..1
    BY DEF ConfigTypes, ConfigTypeOK, ServerConfig
  <2> QED BY <2>1 DEF SaveTopChannelConfig, ConfigTypes, ConfigTypeOK, ServerConfig
<1> QED BY <1>2, <1>3, ConfigCounters DEF SaveTopChannelConfig, ConfigTypes, ConfigTypeOK, Local

\* Every step keeps the types.
LEMMA NextConfigTypes == ConfigTypes /\ [ConfigNext]_configVars => ConfigTypes'
<1> SUFFICES ASSUME ConfigTypes, [ConfigNext]_configVars PROVE ConfigTypes'
  OBVIOUS
<1>1. ASSUME NEW a \in Admins, AdminStep(a) PROVE ConfigTypes'
  BY <1>1, LoadTableTypes, StoreConfigTypes, UpdateGuildConfigTypes, ParseMessageLinksTypes,
     AppendPresetTypes, AddPresetTypes, EditPresetTypes, UpdatePresetTypes, ReadTriggersTypes,
     CommitTriggerTypes DEF AdminStep
<1>2. ASSUME NEW a \in Admins, ReloadCommand(a) \/ SaveTopChannelConfig(a) PROVE ConfigTypes'
  BY <1>2, ReloadCommandTypes, SaveTopChannelConfigTypes
<1>3. ASSUME NEW a \in Admins, NEW p \in PresetIDs,
             \/ \E kind \in {"toggle", "grant"} : GuildCommand(a, kind, p)
             \/ \E kind \in {"create", "edit"} : PresetCommand(a, kind, p)
             \/ DeletePreset(a, p)
             \/ \E kind \in {"bind", "unbind", "overwrite"}, ks \in SUBSET Keywords \ {{}} :
                   TriggerCommand(a, kind, p, ks)
      PROVE  ConfigTypes'
  BY <1>3, GuildCommandTypes, PresetCommandTypes, DeletePresetTypes, TriggerCommandTypes
<1>4. CASE UNCHANGED configVars
  BY <1>4 DEF configVars, ConfigTypes, ConfigTypeOK, KindsFit, Known
<1> QED BY <1>1, <1>2, <1>3, <1>4 DEF ConfigNext
-----------------------------------------------------------------------------
(* The configuration: memory and tables                                    *)

\* A command that nothing has overlapped so far.
Lone(a) == Busy(a) /\ admin[a].alone

\* Memory shows every table as it is, but those excused and ts.
AgreeBut(ts) == \A t \in Tables \ (unsynced \cup ts) : memory[t] = rows[t]

\* How far memory and tables are apart at each step of such a command.
Midway(a) ==
    /\ admin[a].pc = "row" => AgreeBut({})
    /\ admin[a].pc \in {"parse", "write"} =>
          AgreeBut({}) /\ admin[a].copy = memory /\ admin[a].shared
    /\ admin[a].pc = "insert" =>
          /\ AgreeBut({"presets"})
          /\ "presets" \notin unsynced => memory.presets = [rows.presets EXCEPT ![admin[a].id] = 1]
    /\ admin[a].pc = "update" =>
          /\ AgreeBut({"presets"})
          /\ "presets" \notin unsynced =>
                /\ rows.presets[admin[a].id] # Absent
                /\ memory.presets = [rows.presets EXCEPT ![admin[a].id] = admin[a].copy.presets[admin[a].id]]
    /\ admin[a].pc \in {"tx", "commit"} => AgreeBut({"triggers"})
    /\ admin[a].pc = "load" =>
          /\ AgreeBut({"top", "triggers"})
          /\ \A i \in 1..4 : i < admin[a].next => admin[a].config[Reading[i]] = rows[Reading[i]]

LoneIsAlone == \A a \in Admins : Lone(a) => \A o \in Admins \ {a} : ~ Busy(o)
LoneIsMidway == \A a \in Admins : Lone(a) => Midway(a)

ConfigIInv == ConfigTypes /\ LoneIsAlone /\ LoneIsMidway /\ SyncedTables

\* A table that a change does not touch is as it was.
LEMMA OtherTables ==
    ASSUME NEW c \in ServerConfig, NEW x
    PROVE  /\ \A t \in Tables \ {"guild"} : [c EXCEPT !.guild = x][t] = c[t]
           /\ \A t \in Tables \ {"presets"} : [c EXCEPT !.presets = x][t] = c[t]
           /\ \A t \in Tables \ {"top"} : [c EXCEPT !.top = x][t] = c[t]
           /\ \A t \in Tables \ {"triggers"} : [c EXCEPT !.triggers = x][t] = c[t]
           /\ [c EXCEPT !.presets = x].presets = x
BY DEF ServerConfig, Tables

\* A command begins: the others have company, and if there are none memory is in step.
LEMMA BeginLone ==
    ASSUME ConfigIInv, NEW a \in Admins, ~ Busy(a), NEW local \in Local, admin' = Accompany(a, local),
           local.pc # "quiet" => local.alone = Alone(a)
    PROVE  /\ LoneIsAlone'
           /\ \A o \in Admins : Lone(o)' => o = a /\ Alone(a) /\ AgreeBut({})
           /\ admin'[a] = local
           /\ (\A o \in Admins : ~ Busy(o)') => Alone(a) /\ AgreeBut({})
<1>1. admin'[a] = local
  BY DEF Accompany
<1>2. \A o \in Admins \ {a} : /\ Busy(o)' <=> Busy(o)
                              /\ Busy(o) => ~ admin'[o].alone
  <2> SUFFICES ASSUME NEW o \in Admins \ {a}
               PROVE  (Busy(o)' <=> Busy(o)) /\ (Busy(o) => ~ admin'[o].alone)
    OBVIOUS
  <2>1. CASE ~ Busy(o)
    BY <2>1 DEF Accompany, Busy
  <2>2. CASE Busy(o)
    <3>1. admin'[o] = [admin[o] EXCEPT !.alone = FALSE]
      BY <2>2 DEF Accompany
    <3>2. admin[o] \in Job \/ admin[o] \in Loading
      BY <2>2, LocalOf DEF ConfigIInv, ConfigTypes, Busy
    <3>3. admin'[o].pc = admin[o].pc /\ ~ admin'[o].alone
      BY <3>1, <3>2 DEF Job, Loading
    <3> QED BY <2>2, <3>3 DEF Busy
  <2> QED BY <2>1, <2>2
<1>3. Alone(a) => \A o \in Admins : ~ Busy(o)
  BY DEF Alone
<1>4. Alone(a) => AgreeBut({})
  BY <1>3 DEF ConfigIInv, SyncedTables, AgreeBut
<1>5. \A o \in Admins : Lone(o)' => o = a /\ Alone(a)
  BY <1>1, <1>2 DEF Lone, Busy
<1>6. LoneIsAlone'
  BY <1>2, <1>5 DEF LoneIsAlone, Alone
<1>7. (\A o \in Admins : ~ Busy(o)') => Alone(a)
  BY <1>2 DEF Alone
<1> QED BY <1>1, <1>4, <1>5, <1>6, <1>7

\* What a step of a command does to the others, and that it ends with all excused if it had
\* company.
StepShape(a) ==
    /\ Busy(a)
    /\ \A o \in Admins \ {a} : (Busy(o)' <=> Busy(o)) /\ (Busy(o) => (admin'[o].alone <=> admin[o].alone))
    /\ Busy(a)' => (admin'[a].alone <=> admin[a].alone)
    /\ ~ Busy(a)' /\ ~ admin[a].alone => unsynced' = Tables

\* A command that had company keeps all other commands from being alone.
LEMMA CrowdKeeps ==
    ASSUME ConfigIInv, ConfigTypes', NEW a \in Admins, StepShape(a), ~ admin[a].alone
    PROVE  ConfigIInv'
<1>1. \A o \in Admins : ~ Lone(o)
  BY DEF StepShape, ConfigIInv, LoneIsAlone, Lone
<1>2. \A o \in Admins : ~ Lone(o)'
  BY <1>1 DEF StepShape, Lone
<1>3. (\A o \in Admins : ~ Busy(o)') => unsynced' = Tables
  BY DEF StepShape
<1> QED BY <1>2, <1>3 DEF ConfigIInv, LoneIsAlone, LoneIsMidway, SyncedTables, Busy

\* A lone command goes on, or ends with memory in step.
LEMMA LoneKeeps ==
    ASSUME ConfigIInv, ConfigTypes', NEW a \in Admins, StepShape(a), admin[a].alone,
           Midway(a)', ~ Busy(a)' => AgreeBut({})'
    PROVE  ConfigIInv'
<1>1. \A o \in Admins \ {a} : ~ Busy(o)
  BY DEF StepShape, ConfigIInv, LoneIsAlone, Lone
<1>2. \A o \in Admins \ {a} : ~ Busy(o)'
  BY <1>1 DEF StepShape
<1>3. LoneIsAlone' /\ LoneIsMidway'
  BY <1>2 DEF LoneIsAlone, LoneIsMidway, Lone
<1>4. SyncedTables'
  BY DEF SyncedTables, AgreeBut, Busy
<1> QED BY <1>3, <1>4 DEF ConfigIInv

\* At the start memory is what the tables are, and no command runs.
LEMMA InitConfigIInv == ConfigInit => ConfigIInv
<1> SUFFICES ASSUME ConfigInit PROVE ConfigIInv
  OBVIOUS
<1>1. \A a \in Admins : ~ Busy(a)
  BY DEF ConfigInit, Busy, Quiet
<1> QED BY <1>1, InitConfigTypes DEF ConfigInit, ConfigIInv, LoneIsAlone, LoneIsMidway, Lone,
   SyncedTables

\* The shape of the steps of one command.
LEMMA GoOnShape ==
    ASSUME ConfigTypes, NEW a \in Admins, NEW local \in Local, Busy(a),
           admin' = [admin EXCEPT ![a] = local],
           local.pc # "quiet" => local.alone = admin[a].alone,
           local.pc = "quiet" /\ ~ admin[a].alone => unsynced' = Tables
    PROVE  StepShape(a) /\ admin'[a] = local
<1>1. \A o \in Admins : admin'[o] = IF o = a THEN local ELSE admin[o]
  BY DEF ConfigTypes, ConfigTypeOK
<1> QED BY <1>1 DEF StepShape, Busy

\* The shape of the last step of a command.
LEMMA EndShape ==
    ASSUME ConfigTypes, NEW a \in Admins, NEW tables, Busy(a), EndCommand(a, tables)
    PROVE  /\ StepShape(a) /\ ~ Busy(a)' /\ admin'[a].pc = "quiet"
           /\ admin[a].alone => unsynced' = unsynced \cup tables
<1>1. Quiet \in Local /\ Quiet.pc = "quiet"
  BY DEF Local, Quiet
<1>2. StepShape(a) /\ admin'[a] = Quiet
  BY <1>1, GoOnShape DEF EndCommand
<1> QED BY <1>1, <1>2 DEF EndCommand, Busy

\* A lone command ends, and has excused what it left apart.
LEMMA LoneEnds ==
    ASSUME ConfigIInv, ConfigTypes', NEW a \in Admins, NEW tables, Busy(a), EndCommand(a, tables),
           admin[a].alone => \A t \in Tables \ (unsynced \cup tables) : memory'[t] = rows'[t]
    PROVE  ConfigIInv'
<1>1. /\ StepShape(a) /\ ~ Busy(a)' /\ admin'[a].pc = "quiet"
      /\ admin[a].alone => unsynced' = unsynced \cup tables
  BY EndShape DEF ConfigIInv
<1>2. CASE ~ admin[a].alone
  BY <1>1, <1>2, CrowdKeeps
<1>3. CASE admin[a].alone
  <2>1. AgreeBut({})'
    BY <1>1, <1>3 DEF AgreeBut
  <2>2. Midway(a)'
    BY <1>1 DEF Midway
  <2> QED BY <1>1, <1>3, <2>1, <2>2, LoneKeeps
<1> QED BY <1>2, <1>3

\* What is known of a lone command.
LEMMA LoneMidway ==
    ASSUME ConfigIInv, NEW a \in Admins, Busy(a), admin[a].alone
    PROVE  Midway(a)
BY DEF ConfigIInv, LoneIsMidway, Lone

\* A reload that has company or not reads one table: what it has read is what there is, if it is alone.
LEMMA LoadTableSynced ==
    ASSUME ConfigIInv, ConfigTypes', NEW a \in Admins, LoadTable(a)
    PROVE  ConfigIInv'
<1>1. Busy(a) /\ admin[a] \in Loading /\ admin[a].next \in 1..4
  BY LocalOf DEF LoadTable, ConfigIInv, ConfigTypes, Loading, Busy
<1>2. CASE EndCommand(a, {"top", "triggers"})
  <2>1. admin[a].alone => \A t \in Tables \ (unsynced \cup {"top", "triggers"}) : memory'[t] = rows'[t]
    BY <1>1, LoneMidway DEF LoadTable, Midway, AgreeBut
  <2> QED BY <1>1, <1>2, <2>1, LoneEnds
<1>3. CASE /\ admin' = [admin EXCEPT ![a].config[Reading[admin[a].next]] = rows[Reading[admin[a].next]],
                                     ![a].next = @ + 1]
           /\ UNCHANGED unsynced
  <2>1. PICK local : local = [admin[a] EXCEPT !.config[Reading[admin[a].next]] = rows[Reading[admin[a].next]],
                                             !.next = @ + 1]
    OBVIOUS
  <2>2. admin' = [admin EXCEPT ![a] = local]
    BY <1>3, <2>1 DEF ConfigIInv, ConfigTypes, ConfigTypeOK
  <2>3. PICK table \in Tables : table = Reading[admin[a].next]
    BY <1>1, ReadingTables
  <2>4. PICK c : c = [admin[a].config EXCEPT ![table] = rows[table]]
    OBVIOUS
  <2>5. local = [admin[a] EXCEPT !.config = c, !.next = admin[a].next + 1]
    BY <2>1, <2>3, <2>4
  <2>6. c \in ServerConfig /\ admin[a].next + 1 \in 1..5
    BY <1>1, <2>4, TableTypes DEF ConfigIInv, ConfigTypes, ConfigTypeOK, Loading
  <2>7. /\ local \in Loading /\ local.pc = "load" /\ local.alone = admin[a].alone
        /\ local.config = c /\ local.next = admin[a].next + 1
    BY <1>1, <2>5, <2>6 DEF Loading
  <2>8. StepShape(a) /\ admin'[a] = local
    BY <1>1, <2>2, <2>7, GoOnShape DEF ConfigIInv, Local
  <2>9. CASE admin[a].alone
    <3>1. Midway(a)
      BY <1>1, <2>9, LoneMidway
    <3>2. \A i \in 1..4 : i < local.next => c[Reading[i]] = rows[Reading[i]]
      <4> SUFFICES ASSUME NEW i \in 1..4, i < admin[a].next + 1 PROVE c[Reading[i]] = rows[Reading[i]]
        BY <2>7
      <4>0. DOMAIN admin[a].config = Tables
        BY <1>1 DEF Loading, ServerConfig, Tables
      <4>1. CASE i = admin[a].next
        BY <2>3, <2>4, <4>0, <4>1
      <4>2. CASE i < admin[a].next
        <5>1. Reading[i] # table /\ Reading[i] \in Tables
          BY <1>1, <2>3, <4>2, ReadingTables
        <5>2. admin[a].config[Reading[i]] = rows[Reading[i]]
          BY <3>1, <4>2 DEF Midway, LoadTable
        <5> QED BY <2>4, <4>0, <5>1, <5>2
      <4> QED BY <1>1, <4>1, <4>2
    <3>3. Midway(a)'
      BY <1>3, <2>7, <2>8, <3>1, <3>2 DEF Midway, LoadTable, AgreeBut
    <3> QED BY <2>7, <2>8, <2>9, <3>3, LoneKeeps DEF Busy
  <2> QED BY <2>8, <2>9, CrowdKeeps
<1> QED BY <1>2, <1>3 DEF LoadTable

\* A reload alone puts everything in step.
LEMMA StoreConfigSynced ==
    ASSUME ConfigIInv, ConfigTypes', NEW a \in Admins, StoreConfig(a)
    PROVE  ConfigIInv'
<1>1. Busy(a) /\ admin[a] \in Loading
  BY LocalOf DEF StoreConfig, ConfigIInv, ConfigTypes, Busy
<1>2. \A o \in Admins \ {a} : (Busy(o)' <=> Busy(o)) /\ (Busy(o) => (admin'[o].alone <=> admin[o].alone))
  <2> SUFFICES ASSUME NEW o \in Admins \ {a}, admin'[o] # admin[o]
               PROVE  (Busy(o)' <=> Busy(o)) /\ (Busy(o) => (admin'[o].alone <=> admin[o].alone))
    BY DEF Busy
  <2>1. admin[o].pc \in {"parse", "write"} /\ admin'[o] = [admin[o] EXCEPT !.shared = FALSE]
    BY DEF StoreConfig
  <2>2. admin[o] \in Job
    BY <2>1, LocalOf DEF ConfigIInv, ConfigTypes
  <2>3. admin'[o].pc = admin[o].pc /\ admin'[o].alone = admin[o].alone
    BY <2>1, <2>2 DEF Job
  <2> QED BY <2>3 DEF Busy
<1>3. admin'[a].pc = "quiet" /\ ~ Busy(a)'
  BY DEF StoreConfig, Quiet, Busy
<1>4. StepShape(a)
  BY <1>1, <1>2, <1>3 DEF StepShape, StoreConfig
<1>5. CASE admin[a].alone
  <2>0. Midway(a) /\ admin[a].pc = "load" /\ \A i \in 1..4 : i < admin[a].next
    BY <1>1, <1>5, LoneMidway DEF StoreConfig
  <2>1. \A i \in 1..4 : admin[a].config[Reading[i]] = rows[Reading[i]]
    BY <2>0 DEF Midway
  <2>2. \A t \in Tables : \E i \in 1..4 : t = Reading[i]
    BY DEF Tables, Reading
  <2>3. AgreeBut({})'
    BY <2>1, <2>2 DEF StoreConfig, AgreeBut
  <2> QED BY <1>3, <1>4, <1>5, <2>3, LoneKeeps DEF Midway
<1> QED BY <1>4, <1>5, CrowdKeeps

\* A lone command writes the row and then reloads.
LEMMA UpdateGuildConfigSynced ==
    ASSUME ConfigIInv, ConfigTypes', NEW a \in Admins, UpdateGuildConfig(a)
    PROVE  ConfigIInv'
<1>1. Busy(a)
  BY DEF UpdateGuildConfig, Busy
<1>2. PICK new : rows' = rows \/ rows' = [rows EXCEPT !.guild = new]
  BY DEF UpdateGuildConfig
<1>3. \A t \in Tables \ {"guild"} : rows'[t] = rows[t]
  <2>1. rows \in ServerConfig
    BY DEF ConfigIInv, ConfigTypes, ConfigTypeOK
  <2>2. \A t \in Tables \ {"guild"} : [rows EXCEPT !.guild = new][t] = rows[t]
    BY <2>1 DEF ServerConfig, Tables
  <2> QED BY <1>2, <2>2
<1>4. admin[a].alone => \A t \in Tables \ (unsynced \cup {"guild"}) : memory'[t] = rows'[t]
  BY <1>1, <1>3, LoneMidway DEF UpdateGuildConfig, Midway, AgreeBut
<1> QED BY <1>1, <1>4, LoneEnds DEF UpdateGuildConfig

\* A lone command copies what memory and tables agree on.
LEMMA ParseMessageLinksSynced ==
    ASSUME ConfigIInv, ConfigTypes', NEW a \in Admins, ParseMessageLinks(a)
    PROVE  ConfigIInv'
<1>1. Busy(a) /\ admin[a] \in Job
  BY LocalOf DEF ParseMessageLinks, Busy, ConfigIInv, ConfigTypes
<1>2. CASE EndCommand(a, {})
  <2>1. admin[a].alone => \A t \in Tables \ (unsynced \cup {}) : memory'[t] = rows'[t]
    BY <1>1, LoneMidway DEF ParseMessageLinks, Midway, AgreeBut
  <2> QED BY <1>1, <1>2, <2>1, LoneEnds
<1>3. CASE Go(a, "write")
  <2>1. PICK local : local = [admin[a] EXCEPT !.pc = "write"]
    OBVIOUS
  <2>2. /\ local \in Job /\ local.pc = "write" /\ local.alone = admin[a].alone
        /\ local.shared = admin[a].shared /\ local.copy = admin[a].copy
    BY <1>1, <2>1 DEF Job
  <2>3. StepShape(a) /\ admin'[a] = local
    BY <1>1, <1>3, <2>1, <2>2, GoOnShape DEF Go, ConfigIInv, ConfigTypes, ConfigTypeOK, Local
  <2>4. admin[a].alone => Midway(a)'
    BY <1>1, <1>3, <2>2, <2>3, LoneMidway DEF Go, ParseMessageLinks, Midway, AgreeBut
  <2>5. Busy(a)'
    BY <2>2, <2>3 DEF Busy
  <2> QED BY <2>3, <2>4, <2>5, LoneKeeps, CrowdKeeps
<1> QED BY <1>2, <1>3 DEF ParseMessageLinks

\* A lone command is one preset ahead in memory.
LEMMA AppendPresetSynced ==
    ASSUME ConfigIInv, ConfigTypes', NEW a \in Admins, AppendPreset(a)
    PROVE  ConfigIInv'
<1>1. Busy(a) /\ admin[a] \in Job
  BY LocalOf DEF AppendPreset, Busy, ConfigIInv, ConfigTypes
<1>2. PICK moved \in BOOLEAN :
         admin' = [o \in Admins |->
              IF o = a THEN [admin[a] EXCEPT !.pc = "insert"]
              ELSE IF moved /\ admin[o].pc \in {"parse", "write"}
                   THEN [admin[o] EXCEPT !.shared = FALSE]
              ELSE admin[o]]
  BY DEF AppendPreset
<1>3. \A o \in Admins \ {a} : (Busy(o)' <=> Busy(o)) /\ (Busy(o) => (admin'[o].alone <=> admin[o].alone))
  <2> SUFFICES ASSUME NEW o \in Admins \ {a}, admin'[o] # admin[o]
               PROVE  (Busy(o)' <=> Busy(o)) /\ (Busy(o) => (admin'[o].alone <=> admin[o].alone))
    BY DEF Busy
  <2>1. admin[o].pc \in {"parse", "write"} /\ admin'[o] = [admin[o] EXCEPT !.shared = FALSE]
    BY <1>2
  <2>2. admin[o] \in Job
    BY <2>1, LocalOf DEF ConfigIInv, ConfigTypes
  <2>3. admin'[o].pc = admin[o].pc /\ admin'[o].alone = admin[o].alone
    BY <2>1, <2>2 DEF Job
  <2> QED BY <2>3 DEF Busy
<1>4. /\ admin'[a].pc = "insert" /\ admin'[a].alone = admin[a].alone /\ admin'[a].id = admin[a].id
      /\ Busy(a)'
  BY <1>1, <1>2 DEF Job, Busy
<1>5. StepShape(a)
  BY <1>1, <1>3, <1>4 DEF StepShape
<1>6. CASE admin[a].alone
  <2>1. Midway(a) /\ AgreeBut({}) /\ admin[a].copy = memory
    BY <1>1, <1>6, LoneMidway DEF AppendPreset, Midway
  <2>2. memory \in ServerConfig
    BY DEF ConfigIInv, ConfigTypes, ConfigTypeOK
  <2>3. PICK ps : ps = [memory.presets EXCEPT ![admin[a].id] = 1]
    OBVIOUS
  <2>4. memory' = [memory EXCEPT !.presets = ps]
    BY <2>1, <2>2, <2>3 DEF AppendPreset, ServerConfig
  <2>5. memory'.presets = ps /\ \A t \in Tables \ {"presets"} : memory'[t] = memory[t]
    BY <2>2, <2>4 DEF ServerConfig, Tables
  <2>6. AgreeBut({"presets"})'
    BY <2>1, <2>5 DEF AppendPreset, AgreeBut
  <2>7. "presets" \notin unsynced' => memory'.presets = [rows'.presets EXCEPT ![admin'[a].id] = 1]
    BY <1>4, <2>1, <2>3, <2>5 DEF AppendPreset, AgreeBut, Tables
  <2>8. Midway(a)'
    BY <1>4, <2>6, <2>7 DEF Midway
  <2> QED BY <1>4, <1>5, <1>6, <2>8, LoneKeeps
<1> QED BY <1>5, <1>6, CrowdKeeps

\* The row catches up with memory, or the table is excused.
LEMMA AddPresetSynced ==
    ASSUME ConfigIInv, ConfigTypes', NEW a \in Admins, AddPreset(a)
    PROVE  ConfigIInv'
<1>1. Busy(a)
  BY DEF AddPreset, Busy
<1>2. rows \in ServerConfig
  BY DEF ConfigIInv, ConfigTypes, ConfigTypeOK
<1>3. CASE EndCommand(a, {"presets"}) /\ UNCHANGED rows
  <2>1. admin[a].alone => \A t \in Tables \ (unsynced \cup {"presets"}) : memory'[t] = rows'[t]
    BY <1>1, <1>3, LoneMidway DEF AddPreset, Midway, AgreeBut
  <2> QED BY <1>1, <1>3, <2>1, LoneEnds
<1>4. CASE EndCommand(a, {}) /\ rows' = [rows EXCEPT !.presets[admin[a].id] = 1]
  <2>1. PICK ps : ps = [rows.presets EXCEPT ![admin[a].id] = 1]
    OBVIOUS
  <2>2. rows' = [rows EXCEPT !.presets = ps]
    BY <1>2, <1>4, <2>1 DEF ServerConfig
  <2>3. rows'.presets = ps /\ \A t \in Tables \ {"presets"} : rows'[t] = rows[t]
    BY <1>2, <2>2 DEF ServerConfig, Tables
  <2>4. ASSUME admin[a].alone, NEW t \in Tables \ (unsynced \cup {}) PROVE memory'[t] = rows'[t]
    <3>1. Midway(a)
      BY <1>1, <2>4, LoneMidway
    <3>2. CASE t = "presets"
      BY <2>1, <2>3, <2>4, <3>1, <3>2 DEF AddPreset, Midway
    <3>3. CASE t # "presets"
      BY <2>3, <2>4, <3>1, <3>3 DEF AddPreset, Midway, AgreeBut
    <3> QED BY <3>2, <3>3
  <2> QED BY <1>1, <1>4, <2>4, LoneEnds
<1> QED BY <1>3, <1>4 DEF AddPreset

\* A change of a preset, seen from the outside.
LEMMA ChangeIs ==
    ASSUME NEW c \in ServerConfig, NEW p \in PresetIDs
    PROVE  /\ Change(c, p).presets = [c.presets EXCEPT ![p] = 3 - @]
           /\ \A t \in Tables \ {"presets"} : Change(c, p)[t] = c[t]
<1>1. PICK ps : ps = [c.presets EXCEPT ![p] = 3 - @]
  OBVIOUS
<1>2. Change(c, p) = [c EXCEPT !.presets = ps]
  BY <1>1 DEF Change, ServerConfig
<1> QED BY <1>1, <1>2 DEF ServerConfig, Tables

\* A lone command has changed one preset in memory.
LEMMA EditPresetSynced ==
    ASSUME ConfigIInv, ConfigTypes', NEW a \in Admins, EditPreset(a)
    PROVE  ConfigIInv'
<1>1. Busy(a) /\ admin[a] \in Job /\ admin[a].id \in PresetIDs
  BY LocalOf DEF EditPreset, Busy, ConfigIInv, ConfigTypes, Job
<1>2. PICK local : local = [admin[a] EXCEPT !.pc = "update", !.copy = Change(@, admin[a].id)]
  OBVIOUS
<1>3. /\ admin'[a] = local
      /\ \A o \in Admins \ {a} : \/ admin'[o] = admin[o]
                                  \/ /\ admin[o].pc \in {"parse", "write"}
                                     /\ admin'[o] = [admin[o] EXCEPT !.copy = Change(@, admin[a].id)]
  BY <1>2 DEF EditPreset
<1>4. \A o \in Admins \ {a} : (Busy(o)' <=> Busy(o)) /\ (Busy(o) => (admin'[o].alone <=> admin[o].alone))
  <2> SUFFICES ASSUME NEW o \in Admins \ {a}, admin'[o] # admin[o]
               PROVE  (Busy(o)' <=> Busy(o)) /\ (Busy(o) => (admin'[o].alone <=> admin[o].alone))
    BY DEF Busy
  <2>1. /\ admin[o].pc \in {"parse", "write"}
        /\ admin'[o] = [admin[o] EXCEPT !.copy = Change(admin[o].copy, admin[a].id)]
    BY <1>3
  <2>2. admin[o] \in Job
    BY <2>1, LocalOf DEF ConfigIInv, ConfigTypes
  <2>3. admin'[o].pc = admin[o].pc /\ admin'[o].alone = admin[o].alone
    BY <2>1, <2>2 DEF Job
  <2> QED BY <2>3 DEF Busy
<1>5. /\ local.pc = "update" /\ local.alone = admin[a].alone /\ local.id = admin[a].id
      /\ local.copy = Change(admin[a].copy, admin[a].id) /\ Busy(a)'
  BY <1>1, <1>2, <1>3 DEF Job, Busy
<1>6. StepShape(a)
  BY <1>1, <1>3, <1>4, <1>5 DEF StepShape
<1>7. CASE admin[a].alone
  <2>1. AgreeBut({}) /\ admin[a].copy = memory /\ admin[a].shared
    BY <1>1, <1>7, LoneMidway DEF EditPreset, Midway
  <2>2. admin[a].id \in Known(memory)
    BY <2>1 DEF EditPreset, ConfigIInv, ConfigTypes, KindsFit
  <2>3. memory' = Change(memory, admin[a].id) /\ local.copy = memory'
    BY <1>5, <2>1, <2>2 DEF EditPreset
  <2>4. memory \in ServerConfig
    BY DEF ConfigIInv, ConfigTypes, ConfigTypeOK
  <2>5. /\ memory'.presets = [memory.presets EXCEPT ![admin[a].id] = 3 - @]
        /\ \A t \in Tables \ {"presets"} : memory'[t] = memory[t]
    BY <1>1, <2>3, <2>4, ChangeIs
  <2>6. AgreeBut({"presets"})'
    BY <2>1, <2>5 DEF EditPreset, AgreeBut
  <2>7. ASSUME "presets" \notin unsynced
        PROVE  /\ rows.presets[admin[a].id] # Absent
               /\ memory'.presets = [rows.presets EXCEPT ![admin[a].id] = local.copy.presets[admin[a].id]]
    <3>1. memory.presets = rows.presets
      BY <2>1, <2>7 DEF AgreeBut, Tables
    <3>2. memory.presets[admin[a].id] # Absent
      BY <2>2 DEF Known
    <3>3. DOMAIN memory.presets = PresetIDs
      BY <2>4 DEF ServerConfig
    <3> QED BY <1>1, <2>3, <2>5, <3>1, <3>2, <3>3
  <2>8. Midway(a)'
    BY <1>3, <1>5, <2>6, <2>7 DEF Midway, EditPreset
  <2> QED BY <1>5, <1>6, <1>7, <2>8, LoneKeeps
<1> QED BY <1>6, <1>7, CrowdKeeps

\* The row catches up with the change, or the table is excused.
LEMMA UpdatePresetSynced ==
    ASSUME ConfigIInv, ConfigTypes', NEW a \in Admins, UpdatePreset(a)
    PROVE  ConfigIInv'
<1>1. Busy(a)
  BY DEF UpdatePreset, Busy
<1>2. rows \in ServerConfig
  BY DEF ConfigIInv, ConfigTypes, ConfigTypeOK
<1>3. CASE EndCommand(a, {"presets"}) /\ UNCHANGED rows
  <2>1. admin[a].alone => \A t \in Tables \ (unsynced \cup {"presets"}) : memory'[t] = rows'[t]
    BY <1>1, <1>3, LoneMidway DEF UpdatePreset, Midway, AgreeBut
  <2> QED BY <1>1, <1>3, <2>1, LoneEnds
<1>4. CASE /\ EndCommand(a, {})
           /\ rows' = IF rows.presets[admin[a].id] = Absent THEN rows
                      ELSE [rows EXCEPT !.presets[admin[a].id] = admin[a].copy.presets[admin[a].id]]
  <2>1. PICK ps : ps = [rows.presets EXCEPT ![admin[a].id] = admin[a].copy.presets[admin[a].id]]
    OBVIOUS
  <2>2. rows' = IF rows.presets[admin[a].id] = Absent THEN rows ELSE [rows EXCEPT !.presets = ps]
    BY <1>2, <1>4, <2>1 DEF ServerConfig
  <2>3. /\ rows.presets[admin[a].id] # Absent => rows'.presets = ps
        /\ \A t \in Tables \ {"presets"} : rows'[t] = rows[t]
    BY <1>2, <2>2 DEF ServerConfig, Tables
  <2>4. ASSUME admin[a].alone, NEW t \in Tables \ (unsynced \cup {}) PROVE memory'[t] = rows'[t]
    <3>1. Midway(a)
      BY <1>1, <2>4, LoneMidway
    <3>2. CASE t = "presets"
      BY <2>1, <2>3, <2>4, <3>1, <3>2 DEF UpdatePreset, Midway
    <3>3. CASE t # "presets"
      BY <2>3, <2>4, <3>1, <3>3 DEF UpdatePreset, Midway, AgreeBut
    <3> QED BY <3>2, <3>3
  <2> QED BY <1>1, <1>4, <2>4, LoneEnds
<1> QED BY <1>3, <1>4 DEF UpdatePreset

\* A transaction reads, and nothing is apart but the bindings it may change.
LEMMA ReadTriggersSynced ==
    ASSUME ConfigIInv, ConfigTypes', NEW a \in Admins, ReadTriggers(a)
    PROVE  ConfigIInv'
<1>1. Busy(a) /\ admin[a] \in Job
  BY LocalOf DEF ReadTriggers, Busy, ConfigIInv, ConfigTypes
<1>2. PICK local : local = [admin[a] EXCEPT !.pc = "commit", !.copy = rows]
  OBVIOUS
<1>3. local \in Job /\ local.pc = "commit" /\ local.alone = admin[a].alone
  BY <1>1, <1>2 DEF Job, ConfigIInv, ConfigTypes, ConfigTypeOK
<1>4. StepShape(a) /\ admin'[a] = local
  BY <1>1, <1>2, <1>3, GoOnShape DEF ReadTriggers, ConfigIInv, ConfigTypes, ConfigTypeOK, Local
<1>5. admin[a].alone => Midway(a)'
  BY <1>1, <1>3, <1>4, LoneMidway DEF ReadTriggers, Midway, AgreeBut
<1>6. Busy(a)'
  BY <1>3, <1>4 DEF Busy
<1> QED BY <1>4, <1>5, <1>6, LoneKeeps, CrowdKeeps

\* A transaction commits and a reload follows, or it has failed.
LEMMA CommitTriggerSynced ==
    ASSUME ConfigIInv, ConfigTypes', NEW a \in Admins, NEW k \in Keywords, CommitTrigger(a, k)
    PROVE  ConfigIInv'
<1>1. Busy(a) /\ admin[a] \in Job
  BY LocalOf DEF CommitTrigger, Busy, ConfigIInv, ConfigTypes
<1>2. rows \in ServerConfig
  BY DEF ConfigIInv, ConfigTypes, ConfigTypeOK
<1>3. CASE EndCommand(a, {"triggers"}) /\ UNCHANGED rows
  <2>1. admin[a].alone => \A t \in Tables \ (unsynced \cup {"triggers"}) : memory'[t] = rows'[t]
    BY <1>1, <1>3, LoneMidway DEF CommitTrigger, Midway, AgreeBut
  <2> QED BY <1>1, <1>3, <2>1, LoneEnds
<1>4. ASSUME NEW ts, rows' = [rows EXCEPT !.triggers = ts], UNCHANGED unsynced,
             admin' = [admin EXCEPT ![a] = AfterKeyword(admin[a], admin[a].todo \ {k})]
      PROVE  ConfigIInv'
  <2>1. \A t \in Tables \ {"triggers"} : rows'[t] = rows[t]
    BY <1>2, <1>4 DEF ServerConfig, Tables
  <2>2. PICK local : local = AfterKeyword(admin[a], admin[a].todo \ {k})
    OBVIOUS
  <2>3. /\ local.alone = admin[a].alone
        /\ \/ local \in Job /\ local.pc = "tx"
           \/ local \in Loading /\ local.pc = "load" /\ local.next = 1
    <3>1. CASE admin[a].todo \ {k} = {}
      <4>1. local = NewReload(admin[a].alone)
        BY <2>2, <3>1 DEF AfterKeyword
      <4>2. admin[a].alone \in BOOLEAN
        BY <1>1 DEF Job
      <4> QED BY <1>2, <4>1, <4>2 DEF NewReload, Loading
    <3>2. CASE admin[a].todo \ {k} # {}
      BY <1>1, <2>2, <3>2 DEF AfterKeyword, Job
    <3> QED BY <3>1, <3>2
  <2>4. StepShape(a) /\ admin'[a] = local
    BY <1>1, <1>4, <2>2, <2>3, GoOnShape DEF ConfigIInv, Local
  <2>5. CASE admin[a].alone
    <3>1. AgreeBut({"triggers"})
      BY <1>1, <2>5, LoneMidway DEF CommitTrigger, Midway
    <3>2. AgreeBut({"triggers"})'
      BY <1>4, <2>1, <3>1 DEF CommitTrigger, AgreeBut
    <3>3. Midway(a)'
      BY <2>3, <2>4, <3>2 DEF Midway, AgreeBut
    <3> QED BY <2>3, <2>4, <2>5, <3>3, LoneKeeps DEF Busy
  <2> QED BY <2>4, <2>5, CrowdKeeps
<1> QED BY <1>3, <1>4 DEF CommitTrigger

\* A command begins without changing anything.
LEMMA BeginCommandSynced ==
    ASSUME ConfigIInv, ConfigTypes', NEW a \in Admins, NEW local \in Local, BeginCommand(a, local),
           local.alone = Alone(a), local.pc \in {"row", "parse", "tx", "load"},
           local.pc = "parse" => local.copy = memory /\ local.shared,
           local.pc = "load" => local.next = 1
    PROVE  ConfigIInv'
<1>1. /\ LoneIsAlone'
      /\ \A o \in Admins : Lone(o)' => o = a /\ Alone(a) /\ AgreeBut({})
      /\ admin'[a] = local
  BY BeginLone DEF BeginCommand, Turn
<1>2. UNCHANGED <<rows, memory, unsynced>> /\ Busy(a)'
  BY <1>1 DEF BeginCommand, Busy
<1>3. AgreeBut({}) => Midway(a)'
  BY <1>1, <1>2 DEF Midway, AgreeBut
<1>4. LoneIsMidway'
  BY <1>1, <1>3 DEF LoneIsMidway
<1>5. SyncedTables'
  BY <1>2 DEF SyncedTables, Busy
<1> QED BY <1>1, <1>4, <1>5 DEF ConfigIInv

\* Every way a command begins.
LEMMA CommandsBegin ==
    ASSUME ConfigIInv, ConfigTypes', NEW a \in Admins,
           \/ ReloadCommand(a)
           \/ \E p \in PresetIDs :
                 \/ \E kind \in {"toggle", "grant"} : GuildCommand(a, kind, p)
                 \/ \E kind \in {"create", "edit"} : PresetCommand(a, kind, p)
                 \/ \E kind \in {"bind", "unbind", "overwrite"}, ks \in SUBSET Keywords \ {{}} :
                       TriggerCommand(a, kind, p, ks)
    PROVE  ConfigIInv'
<1>0. rows \in ServerConfig /\ memory \in ServerConfig /\ Alone(a) \in BOOLEAN
  BY DEF ConfigIInv, ConfigTypes, ConfigTypeOK, Alone
<1>1. CASE ReloadCommand(a)
  <2>1. PICK local : local = NewReload(Alone(a))
    OBVIOUS
  <2>2. local \in Local /\ local.pc = "load" /\ local.alone = Alone(a) /\ local.next = 1
    BY <1>0, <2>1 DEF NewReload, Local, Loading
  <2> QED BY <1>1, <2>1, <2>2, BeginCommandSynced DEF ReloadCommand
<1>2. ASSUME NEW p \in PresetIDs, NEW kind \in {"toggle", "grant"}, GuildCommand(a, kind, p)
      PROVE  ConfigIInv'
  <2>1. PICK local : local = [NewJob(a, "row", kind, p, {}, FALSE) EXCEPT !.copy = rows]
    OBVIOUS
  <2>2. local \in Local /\ local.pc = "row" /\ local.alone = Alone(a)
    BY <1>0, <2>1 DEF NewJob, Local, Job
  <2> QED BY <1>2, <2>1, <2>2, BeginCommandSynced DEF GuildCommand
<1>3. ASSUME NEW p \in PresetIDs, NEW kind \in {"create", "edit"}, PresetCommand(a, kind, p)
      PROVE  ConfigIInv'
  <2>1. PICK local : local = NewJob(a, "parse", kind, p, {}, TRUE)
    OBVIOUS
  <2>2. /\ local \in Local /\ local.pc = "parse" /\ local.alone = Alone(a) /\ local.copy = memory
        /\ local.shared
    BY <1>0, <2>1 DEF NewJob, Local, Job
  <2> QED BY <1>3, <2>1, <2>2, BeginCommandSynced DEF PresetCommand
<1>4. ASSUME NEW p \in PresetIDs, NEW kind \in {"bind", "unbind", "overwrite"},
             NEW ks \in SUBSET Keywords, TriggerCommand(a, kind, p, ks)
      PROVE  ConfigIInv'
  <2>1. PICK local : local = NewJob(a, "tx", kind, p, ks, FALSE)
    OBVIOUS
  <2>2. local \in Local /\ local.pc = "tx" /\ local.alone = Alone(a)
    BY <1>0, <2>1 DEF NewJob, Local, Job
  <2> QED BY <1>4, <2>1, <2>2, BeginCommandSynced DEF TriggerCommand
<1> QED BY <1>1, <1>2, <1>3, <1>4

\* A lone command saves the row of a top channel.
LEMMA SaveTopChannelConfigSynced ==
    ASSUME ConfigIInv, ConfigTypes', NEW a \in Admins, SaveTopChannelConfig(a)
    PROVE  ConfigIInv'
<1>0. rows \in ServerConfig /\ Alone(a) \in BOOLEAN
  BY DEF ConfigIInv, ConfigTypes, ConfigTypeOK, Alone
<1>1. PICK local : local = NewReload(Alone(a))
  OBVIOUS
<1>2. local \in Local /\ local.pc = "load" /\ local.alone = Alone(a) /\ local.next = 1
  BY <1>0, <1>1 DEF NewReload, Local, Loading
<1>3. /\ LoneIsAlone'
      /\ \A o \in Admins : Lone(o)' => o = a /\ Alone(a) /\ AgreeBut({})
      /\ admin'[a] = local
  BY <1>1, <1>2, BeginLone DEF SaveTopChannelConfig, Turn
<1>4. \A t \in Tables \ {"top"} : rows'[t] = rows[t]
  BY <1>0 DEF SaveTopChannelConfig, ServerConfig, Tables
<1>5. AgreeBut({}) => Midway(a)'
  BY <1>2, <1>3, <1>4 DEF SaveTopChannelConfig, Midway, AgreeBut
<1>6. LoneIsMidway'
  BY <1>3, <1>5 DEF LoneIsMidway
<1>7. SyncedTables'
  BY <1>2, <1>3 DEF SyncedTables, Busy
<1> QED BY <1>3, <1>6, <1>7 DEF ConfigIInv

\* A lone command deletes a preset.
LEMMA DeletePresetSynced ==
    ASSUME ConfigIInv, ConfigTypes', NEW a \in Admins, NEW p \in PresetIDs, DeletePreset(a, p)
    PROVE  ConfigIInv'
<1>0. rows \in ServerConfig /\ Quiet \in Local /\ Quiet.pc = "quiet"
  BY DEF ConfigIInv, ConfigTypes, ConfigTypeOK, Quiet, Local
<1>1. /\ LoneIsAlone'
      /\ \A o \in Admins : Lone(o)' => o = a
      /\ admin'[a] = Quiet
      /\ (\A o \in Admins : ~ Busy(o)') => Alone(a) /\ AgreeBut({})
  BY <1>0, BeginLone DEF DeletePreset, Turn
<1>2. LoneIsMidway'
  BY <1>0, <1>1 DEF LoneIsMidway, Lone, Busy
<1>3. \A t \in Tables \ {"presets"} : rows'[t] = rows[t]
  BY <1>0 DEF DeletePreset, ServerConfig, Tables
<1>4. SyncedTables'
  BY <1>1, <1>3 DEF SyncedTables, Busy, DeletePreset, AgreeBut
<1> QED BY <1>1, <1>2, <1>4 DEF ConfigIInv

\* Every step keeps the invariant.
LEMMA NextConfigIInv == ConfigIInv /\ [ConfigNext]_configVars => ConfigIInv'
<1> SUFFICES ASSUME ConfigIInv, [ConfigNext]_configVars PROVE ConfigIInv'
  OBVIOUS
<1>0. ConfigTypes'
  BY NextConfigTypes DEF ConfigIInv
<1>1. ASSUME NEW a \in Admins, AdminStep(a) PROVE ConfigIInv'
  BY <1>0, <1>1, LoadTableSynced, StoreConfigSynced, UpdateGuildConfigSynced,
     ParseMessageLinksSynced, AppendPresetSynced, AddPresetSynced, EditPresetSynced,
     UpdatePresetSynced, ReadTriggersSynced, CommitTriggerSynced DEF AdminStep
<1>2. ASSUME NEW a \in Admins, SaveTopChannelConfig(a) PROVE ConfigIInv'
  BY <1>0, <1>2, SaveTopChannelConfigSynced
<1>3. ASSUME NEW a \in Admins, NEW p \in PresetIDs, DeletePreset(a, p) PROVE ConfigIInv'
  BY <1>0, <1>3, DeletePresetSynced
<1>4. ASSUME NEW a \in Admins,
             \/ ReloadCommand(a)
             \/ \E p \in PresetIDs :
                   \/ \E kind \in {"toggle", "grant"} : GuildCommand(a, kind, p)
                   \/ \E kind \in {"create", "edit"} : PresetCommand(a, kind, p)
                   \/ \E kind \in {"bind", "unbind", "overwrite"}, ks \in SUBSET Keywords \ {{}} :
                         TriggerCommand(a, kind, p, ks)
      PROVE  ConfigIInv'
  BY <1>0, <1>4, CommandsBegin
<1>5. CASE UNCHANGED configVars
  BY <1>0, <1>5 DEF configVars, ConfigIInv, LoneIsAlone, LoneIsMidway, SyncedTables, Lone, Busy,
     Midway, AgreeBut
<1> QED BY <1>1, <1>2, <1>3, <1>4, <1>5 DEF ConfigNext

\* Whenever no command is under way, memory shows every table as it is, but for the tables that
\* are excused until the next reload that runs alone: the one that a lone deletion of a preset, a
\* lone change of /guilds-admin or a lone command that failed was to write, and all of them when
\* commands have overlapped (Bot.ReloadConfig and the commands that write the tables).
THEOREM TablesInStep == ConfigSpec => []SyncedTables
<1>1. ConfigIInv => SyncedTables
  BY DEF ConfigIInv
<1> QED BY <1>1, InitConfigIInv, NextConfigIInv, PTL DEF ConfigSpec
-----------------------------------------------------------------------------
(* The configuration: bindings                                             *)

\* Only a commit of a command about triggers changes the bindings.
LEMMA TriggersKept ==
    ASSUME ConfigTypes, NEW a \in Admins,
           \/ LoadTable(a) \/ StoreConfig(a) \/ UpdateGuildConfig(a) \/ ParseMessageLinks(a)
           \/ AppendPreset(a) \/ AddPreset(a) \/ EditPreset(a) \/ UpdatePreset(a) \/ ReadTriggers(a)
           \/ ReloadCommand(a) \/ SaveTopChannelConfig(a)
           \/ \E p \in PresetIDs :
                 \/ \E kind \in {"toggle", "grant"} : GuildCommand(a, kind, p)
                 \/ \E kind \in {"create", "edit"} : PresetCommand(a, kind, p)
                 \/ DeletePreset(a, p)
                 \/ \E kind \in {"bind", "unbind", "overwrite"}, ks \in SUBSET Keywords \ {{}} :
                       TriggerCommand(a, kind, p, ks)
    PROVE  rows'.triggers = rows.triggers
<1>1. rows \in ServerConfig
  BY DEF ConfigTypes, ConfigTypeOK
<1>2. CASE UpdateGuildConfig(a)
  BY <1>1, <1>2 DEF UpdateGuildConfig, ServerConfig
<1>3. CASE AddPreset(a)
  BY <1>1, <1>3 DEF AddPreset, ServerConfig
<1>4. CASE UpdatePreset(a)
  BY <1>1, <1>4 DEF UpdatePreset, ServerConfig
<1>5. CASE SaveTopChannelConfig(a)
  BY <1>1, <1>5 DEF SaveTopChannelConfig, ServerConfig
<1>6. ASSUME NEW p \in PresetIDs, DeletePreset(a, p) PROVE rows'.triggers = rows.triggers
  BY <1>1, <1>6 DEF DeletePreset, ServerConfig
<1>7. CASE \/ LoadTable(a) \/ StoreConfig(a) \/ ParseMessageLinks(a) \/ AppendPreset(a)
           \/ EditPreset(a) \/ ReadTriggers(a)
  BY <1>7 DEF LoadTable, StoreConfig, ParseMessageLinks, AppendPreset, EditPreset, ReadTriggers
<1>8. CASE \/ ReloadCommand(a)
           \/ \E p \in PresetIDs :
                 \/ \E kind \in {"toggle", "grant"} : GuildCommand(a, kind, p)
                 \/ \E kind \in {"create", "edit"} : PresetCommand(a, kind, p)
                 \/ \E kind \in {"bind", "unbind", "overwrite"}, ks \in SUBSET Keywords \ {{}} :
                       TriggerCommand(a, kind, p, ks)
  BY <1>8 DEF ReloadCommand, GuildCommand, PresetCommand, TriggerCommand, BeginCommand
<1> QED BY <1>2, <1>3, <1>4, <1>5, <1>6, <1>7, <1>8

\* A commit changes the bindings the command was given and no others: what it has read is
\* what there is.
LEMMA CommitChanges ==
    ASSUME ConfigTypes, NEW a \in Admins, NEW k \in Keywords, CommitTrigger(a, k), NEW b \in Binding
    PROVE  /\ b \in rows'.triggers \ rows.triggers =>
                 /\ admin[a].kind # "unbind" /\ b[1] = admin[a].id /\ b[2] = k
           /\ b \in rows.triggers \ rows'.triggers =>
                 \/ admin[a].kind = "unbind" /\ b[2] = k
                 \/ admin[a].kind = "overwrite" /\ b[1] = admin[a].id
           /\ rows'.triggers # rows.triggers => admin'[a].pc # "commit"
<1>1. admin[a] \in Job /\ admin[a].kind \in {"bind", "unbind", "overwrite"}
  BY LocalOf DEF CommitTrigger, ConfigTypes, KindsFit
<1>2. rows \in ServerConfig
  BY DEF ConfigTypes, ConfigTypeOK
<1>3. CASE UNCHANGED rows
  BY <1>3
<1>4. CASE /\ ~ Conflict(a)
           /\ rows' = [rows EXCEPT !.triggers =
                  Changed(admin[a].kind,
                          IF admin[a].kind = "overwrite" THEN rows.triggers ELSE admin[a].copy.triggers,
                          admin[a].id, k)]
           /\ admin' = [admin EXCEPT ![a] = AfterKeyword(admin[a], admin[a].todo \ {k})]
  <2>1. rows'.triggers = Changed(admin[a].kind, rows.triggers, admin[a].id, k)
    BY <1>2, <1>4 DEF Conflict, ServerConfig
  <2>2. admin'[a].pc \in {"load", "tx"}
    <3>1. admin'[a] = AfterKeyword(admin[a], admin[a].todo \ {k})
      BY <1>4 DEF ConfigTypes, ConfigTypeOK
    <3> QED BY <1>1, <3>1 DEF AfterKeyword, NewReload, Job
  <2>3. CASE admin[a].kind = "bind"
    BY <2>1, <2>2, <2>3 DEF Changed, AddAutoTrigger, Binding
  <2>4. CASE admin[a].kind = "unbind"
    BY <2>1, <2>2, <2>4 DEF Changed, DeleteAutoTrigger, Binding
  <2>5. CASE admin[a].kind = "overwrite"
    BY <2>1, <2>2, <2>5 DEF Changed, OverwriteAutoTrigger, Binding
  <2> QED BY <1>1, <2>3, <2>4, <2>5
<1> QED BY <1>3, <1>4 DEF CommitTrigger

\* Only a commit takes a binding of a trigger away or adds one, and only those the command was
\* given: no transaction loses the binding of another (trigger_repository.go).
THEOREM BindingsKept == ConfigSpec => NoBindingLost
<1>1. ASSUME ConfigTypes, ConfigNext, NEW b \in Binding, NEW gone \in BOOLEAN,
             b \in (IF gone THEN rows.triggers \ rows.triggers' ELSE rows.triggers' \ rows.triggers)
      PROVE  \E a \in Admins :
                /\ admin[a].pc = "commit"
                /\ admin'[a].pc # "commit"
                /\ \/ ~gone /\ admin[a].kind # "unbind" /\ b[1] = admin[a].id /\ b[2] \in admin[a].todo
                   \/ gone /\ admin[a].kind = "unbind" /\ b[2] \in admin[a].todo
                   \/ gone /\ admin[a].kind = "overwrite" /\ b[1] = admin[a].id
  <2>1. rows'.triggers # rows.triggers
    BY <1>1
  <2>2. PICK a \in Admins, k \in Keywords : CommitTrigger(a, k)
    BY <1>1, <2>1, TriggersKept DEF ConfigNext, AdminStep
  <2>3. admin[a].pc = "commit" /\ k \in admin[a].todo
    BY <2>2 DEF CommitTrigger
  <2> QED BY <1>1, <2>1, <2>2, <2>3, CommitChanges
<1>2. ConfigTypes /\ [ConfigNext]_configVars =>
         [\A b \in Binding, gone \in BOOLEAN :
             b \in (IF gone THEN rows.triggers \ rows.triggers' ELSE rows.triggers' \ rows.triggers) =>
                \E a \in Admins :
                    /\ admin[a].pc = "commit"
                    /\ admin'[a].pc # "commit"
                    /\ \/ ~gone /\ admin[a].kind # "unbind" /\ b[1] = admin[a].id /\ b[2] \in admin[a].todo
                       \/ gone /\ admin[a].kind = "unbind" /\ b[2] \in admin[a].todo
                       \/ gone /\ admin[a].kind = "overwrite" /\ b[1] = admin[a].id]_configVars
  BY <1>1
<1> QED BY <1>2, InitConfigTypes, NextConfigTypes, PTL DEF ConfigSpec, NoBindingLost

-----------------------------------------------------------------------------
(* The boards: types, and the order of the pages                           *)

\* What the file and the maps of tasks under way hold of a guild's board.
Stored(g) == {boardFile.states[g]} \cup {boardTask[w].states[g] : w \in {x \in BoardTasks : Running(x)}}

\* A message shows the page of its entry, or the next one.
Near(g, e) == There(g, e.message) => display[g][e.message] \in {e.page, TurnPage(e.page)}

\* A command has turned to the first page what the file does not know of yet.
Excused(g) == \E c \in Shows : boardTask[c].pc \in {"open", "write"} /\ boardTask[c].board = g

TasksFit == \A w \in BoardTasks : Running(w) =>
    /\ w \in Updaters => boardTask[w].board = OwnBoard(w)
    /\ boardTask[w].pc \in {"edit", "open", "write"} => boardTask[w].entry \in BoardEntry

ShowsAlone == \A c \in Shows : Running(c) => \A w \in BoardTasks \ {c} : ~ Running(w)

EntriesSent(g) == \A e \in Stored(g) : e # NoEntry => display[g][e.message] # Unsent
EntriesNear(g) == Excused(g) \/ \A e \in Stored(g) : e # NoEntry => Near(g, e)

WritersNear(g) == \A w \in BoardTasks :
    boardTask[w].pc \in {"open", "write"} /\ boardTask[w].board = g =>
        display[g][boardTask[w].entry.message] # Unsent /\ Near(g, boardTask[w].entry)

TurnsAhead(g) ==
    /\ boardTask[g].pc \in {"load", "edit"} =>
          \A e, o \in Stored(g) : e = o \/ NoEntry \in {e, o}
    /\ boardTask[g].pc = "edit" =>
          /\ boardTask[g].states[g] # NoEntry
          /\ boardTask[g].entry.message = boardTask[g].states[g].message
          /\ boardTask[g].entry.page = TurnPage(boardTask[g].states[g].page)

InOrder(g) == EntriesSent(g) /\ EntriesNear(g) /\ WritersNear(g) /\ TurnsAhead(g)

BoardIInv ==
    /\ BoardTypeOK
    /\ TasksFit
    /\ ~ mixed => ShowsAlone /\ \A g \in Guilds : InOrder(g)
-----------------------------------------------------------------------------
\* The names of tasks and boards are apart.
LEMMA BoardNames ==
    /\ Boards \subseteq Updaters /\ Updaters \subseteq BoardTasks /\ Shows \subseteq BoardTasks
    /\ Global \in Boards /\ Extra \in Updaters /\ Guilds \subseteq Boards
    /\ Extra \notin Boards /\ Global \notin Guilds
    /\ Shows \cap Updaters = {}
BY BoardNamesAssumption DEF Boards, Updaters, BoardTasks, Extra, Global

\* Pages and messages are numbers, apart from what says there is none.
LEMMA BoardNumbers ==
    /\ 0 \in Page /\ Unsent \notin Page /\ Deleted \notin Page /\ Unsent # Deleted
    /\ 1 \in MessageID /\ 0 \notin MessageID
BY PagesAssumption, BoardBoundAssumption DEF Page, Unsent, Deleted, MessageID

\* The counters have room for their start.
LEMMA BoundsReached == 0 \in 0..MaxShows /\ 0 \in 0..MaxBoardFaults
BY BoardBoundAssumption

\* The next page is a page.
LEMMA TurnTypes == ASSUME NEW p \in Page PROVE TurnPage(p) \in Page
<1>1. p + 1 \in Nat /\ Pages \in Nat \ {0}
  BY PagesAssumption DEF Page
<1>2. (p + 1) % Pages \in 0..Pages - 1
  BY <1>1
<1> QED BY <1>2 DEF TurnPage, Page

\* The board of a worker.
LEMMA OwnTypes ==
    \A w \in Updaters : /\ OwnBoard(w) \in Boards /\ w \in BoardTasks
                        /\ \A g \in Guilds : OwnBoard(w) = g <=> w = g
BY BoardNames DEF OwnBoard, Updaters

\* What a file holds.
LEMMA FileTypes ==
    /\ NoStates \in States
    /\ Blank \in {Written(states) : states \in States} /\ Blank.states = NoStates
    /\ Torn.states = NoStates
    /\ \A states \in States : Written(states).states = states
    /\ \A b \in Boards : NoStates[b] = NoEntry
BY DEF NoStates, States, Blank, Written, Torn

\* What is loaded has entries for all boards.
LEMMA LoadedTypes ==
    ASSUME BoardTypeOK
    PROVE  Loaded \in States
BY FileTypes DEF BoardTypeOK, Loaded

\* An entry is there, or not.
LEMMA EntryOf ==
    ASSUME NEW states \in States, NEW b \in Boards
    PROVE  states[b] # NoEntry => states[b] \in BoardEntry
BY DEF States

\* A task that runs has locals.
LEMMA WorkOf ==
    ASSUME BoardTypeOK, NEW w \in BoardTasks
    PROVE  /\ Running(w) <=> boardTask[w] \in Work
           /\ Running(w) <=> boardTask[w].pc # "none"
           /\ boardTask[w].pc \in {"load", "edit", "send", "open", "write"} => boardTask[w] \in Work
BY DEF BoardTypeOK, Running, NoWork, Work

\* A board has one entry in each map.
LEMMA StoredTypes ==
    ASSUME BoardTypeOK, NEW g \in Boards, NEW e \in Stored(g)
    PROVE  e \in BoardEntry \cup {NoEntry}
<1>1. \A states \in States : states[g] \in BoardEntry \cup {NoEntry}
  BY DEF States
<1>2. boardFile.states \in States
  BY LoadedTypes DEF Loaded
<1>3. \A w \in BoardTasks : Running(w) => boardTask[w].states \in States
  BY WorkOf DEF Work
<1> QED BY <1>1, <1>2, <1>3 DEF Stored

\* An entry has a message and a page.
LEMMA EntriesAre ==
    ASSUME NEW e \in BoardEntry
    PROVE  e.message \in MessageID /\ e.page \in Page /\ e # NoEntry
BY BoardNumbers DEF BoardEntry, NoEntry

\* The counter of faults stays within its bound.
LEMMA BoardCounters ==
    ASSUME BoardTypeOK, BoardFault \/ NoBoardFault
    PROVE  boardFaults' \in 0..MaxBoardFaults
BY BoardBoundAssumption DEF BoardTypeOK, BoardFault, NoBoardFault

\* A task goes on, or ends.
LEMMA ContinueWorkTypes ==
    ASSUME BoardIInv, NEW w \in BoardTasks, NEW work \in Work \cup {NoWork}, ContinueWork(w, work),
           work # NoWork => /\ w \in Updaters => work.board = OwnBoard(w)
                            /\ work.pc \in {"edit", "open", "write"} => work.entry \in BoardEntry
    PROVE  /\ boardTask' \in [BoardTasks -> Work \cup {NoWork}]
           /\ boardTask'[w] = work /\ \A o \in BoardTasks \ {w} : boardTask'[o] = boardTask[o]
           /\ TasksFit'
           /\ Running(w)' <=> work # NoWork
           /\ \A o \in BoardTasks \ {w} : Running(o)' <=> Running(o)
           /\ \A g : Stored(g)' \subseteq
                  {boardFile'.states[g]} \cup Stored(g) \cup (IF work = NoWork THEN {} ELSE {work.states[g]})
<1>1. /\ boardTask' \in [BoardTasks -> Work \cup {NoWork}]
      /\ boardTask'[w] = work /\ \A o \in BoardTasks \ {w} : boardTask'[o] = boardTask[o]
  BY DEF ContinueWork, BoardIInv, BoardTypeOK
<1>2. TasksFit'
  BY <1>1 DEF BoardIInv, TasksFit, Running
<1>3. ASSUME NEW g, NEW e \in Stored(g)', e # boardFile'.states[g]
      PROVE  e \in Stored(g) \cup (IF work = NoWork THEN {} ELSE {work.states[g]})
  <2>1. PICK o \in BoardTasks : Running(o)' /\ e = boardTask'[o].states[g]
    BY <1>3 DEF Stored
  <2> QED BY <1>1, <2>1 DEF Stored, Running
<1> QED BY <1>1, <1>2, <1>3 DEF Running

\* A guild's board keeps its order where only the copies of its entry change, and to copies
\* of the same.
LEMMA OrderKept ==
    ASSUME BoardIInv, ~ mixed, NEW g \in Guilds, display'[g] = display[g],
           Stored(g)' \subseteq Stored(g) \cup {NoEntry},
           Excused(g) => Excused(g)',
           boardTask'[g].pc \in {"load", "edit"} => boardTask[g].pc \in {"load", "edit"},
           boardTask'[g].pc = "edit" => boardTask'[g] = boardTask[g],
           \A w \in BoardTasks : boardTask'[w].pc \in {"open", "write"} /\ boardTask'[w].board = g =>
               /\ boardTask[w].pc \in {"open", "write"}
               /\ boardTask'[w].board = boardTask[w].board /\ boardTask'[w].entry = boardTask[w].entry
    PROVE  InOrder(g)'
<1>0. InOrder(g)
  BY DEF BoardIInv
<1>1. \A e : Near(g, e)' <=> Near(g, e)
  BY DEF Near, There
<1>2. EntriesSent(g)'
  BY <1>0 DEF InOrder, EntriesSent
<1>3. EntriesNear(g)'
  BY <1>0, <1>1 DEF InOrder, EntriesNear
<1>4. WritersNear(g)'
  BY <1>0, <1>1 DEF InOrder, WritersNear
<1>5. TurnsAhead(g)'
  BY <1>0 DEF InOrder, TurnsAhead
<1> QED BY <1>2, <1>3, <1>4, <1>5 DEF InOrder

\* At the start nobody works, and each message shows the page of its entry.
LEMMA InitBoardIInv == BoardInit => BoardIInv
<1> SUFFICES ASSUME BoardInit PROVE BoardIInv
  OBVIOUS
<1>1. [message |-> 1, page |-> 0] \in BoardEntry
  BY BoardNumbers DEF BoardEntry
<1>2. [b \in Boards |-> [message |-> 1, page |-> 0]] \in States
  BY <1>1 DEF States
<1>3. boardFile \in {Written(states) : states \in States}
  BY <1>2, FileTypes DEF BoardInit
<1>4. display \in [Boards -> [MessageID -> Page \cup {Unsent, Deleted}]]
  BY BoardNumbers DEF BoardInit
<1>5. boardTask \in [BoardTasks -> Work \cup {NoWork}] /\ \A w \in BoardTasks : boardTask[w] = NoWork
  BY DEF BoardInit
<1>6. BoardTypeOK
  <2>1. shows \in 0..MaxShows /\ boardFaults \in 0..MaxBoardFaults /\ mixed \in BOOLEAN
    <3>1. shows = 0 /\ boardFaults = 0 /\ mixed = FALSE
      BY DEF BoardInit
    <3> HIDE DEF BoardInit
    <3> QED BY <3>1, BoundsReached
  <2> QED BY <1>3, <1>4, <1>5, <2>1 DEF BoardTypeOK
<1>7. \A w \in BoardTasks : ~ Running(w) /\ boardTask[w].pc = "none"
  BY <1>5 DEF Running, NoWork
<1>8. ASSUME NEW g \in Guilds PROVE InOrder(g)
  <2>1. g \in Boards /\ g \in BoardTasks
    BY BoardNames
  <2>2. Stored(g) = {boardFile.states[g]}
    BY <1>7 DEF Stored
  <2>3. boardFile.states[g] \in {NoEntry, [message |-> 1, page |-> 0]}
    BY <1>2, <2>1, FileTypes DEF BoardInit
  <2>4. boardFile.states[g] # NoEntry => boardFile.states[g].message = 1 /\ display[g][1] = 0
                                         /\ boardFile.states[g].page = 0
    BY <2>1, <2>3, BoardNumbers DEF BoardInit
  <2>5. EntriesSent(g) /\ EntriesNear(g)
    BY <2>2, <2>4, BoardNumbers DEF EntriesSent, EntriesNear, Near
  <2>6. WritersNear(g) /\ TurnsAhead(g)
    BY <1>7, <2>1 DEF WritersNear, TurnsAhead
  <2> QED BY <2>5, <2>6 DEF InOrder
<1> QED BY <1>6, <1>7, <1>8 DEF BoardIInv, TasksFit, ShowsAlone

\* An update begins: its workers have read nothing yet.
LEMMA UpdateLeaderboardsIInv ==
    ASSUME BoardIInv, ~ mixed, UpdateLeaderboards
    PROVE  BoardIInv'
<1>0. UNCHANGED <<boardFile, display, shows, boardFaults>> /\ ~ boardFile.torn
  BY DEF UpdateLeaderboards
<1>1. ASSUME NEW b \in Boards
      PROVE  /\ NewWork(b) \in Work /\ NewWork(b) # NoWork /\ NewWork(b).pc = "load"
             /\ NewWork(b).board = b /\ NewWork(b).states = NoStates
  BY <1>1, FileTypes DEF NewWork, Work, NoWork
<1>2. ASSUME NEW w \in BoardTasks
      PROVE  boardTask'[w] = boardTask[w] \/ (w \in Updaters /\ boardTask'[w] = NewWork(OwnBoard(w)))
  BY BoardNames DEF UpdateLeaderboards, Woken
<1>3. \A w \in BoardTasks : boardTask'[w] \in Work \cup {NoWork}
  BY <1>1, <1>2, OwnTypes DEF BoardIInv, BoardTypeOK
<1>4. boardTask' \in [BoardTasks -> Work \cup {NoWork}]
  <2>1. boardTask' = [w \in BoardTasks |-> boardTask'[w]]
    BY DEF UpdateLeaderboards
  <2> QED BY <1>3, <2>1
<1>5. mixed' \in BOOLEAN
  BY DEF UpdateLeaderboards, BoardIInv, BoardTypeOK
<1>6. BoardTypeOK'
  BY <1>0, <1>4, <1>5 DEF BoardIInv, BoardTypeOK
<1>7. TasksFit'
  <2> SUFFICES ASSUME NEW w \in BoardTasks, Running(w)'
               PROVE  /\ w \in Updaters => boardTask'[w].board = OwnBoard(w)
                      /\ boardTask'[w].pc \in {"edit", "open", "write"} => boardTask'[w].entry \in BoardEntry
    BY DEF TasksFit
  <2>1. CASE boardTask'[w] = boardTask[w]
    BY <2>1 DEF BoardIInv, TasksFit, Running
  <2>2. CASE w \in Updaters /\ boardTask'[w] = NewWork(OwnBoard(w))
    BY <2>2, <1>1, OwnTypes
  <2> QED BY <1>2, <2>1, <2>2
<1>8. ASSUME ~ mixed' PROVE \A w \in BoardTasks : ~ Running(w)
  BY <1>8 DEF UpdateLeaderboards, AllUpdated, BoardTasks
<1>9. ASSUME ~ mixed' PROVE ShowsAlone'
  <2>1. \A c \in Shows : boardTask'[c] = boardTask[c]
    BY <1>2, BoardNames
  <2> QED BY <1>8, <1>9, <2>1, BoardNames DEF ShowsAlone, Running
<1>10. ASSUME ~ mixed', NEW g \in Guilds PROVE InOrder(g)'
  <2>1. \A w \in BoardTasks : boardTask'[w] = NoWork \/ (boardTask'[w].pc = "load" /\ boardTask'[w].states = NoStates)
    BY <1>1, <1>2, <1>8, <1>10, OwnTypes DEF Running
  <2>2. g \in Boards /\ g \in BoardTasks
    BY BoardNames
  <2>3. Stored(g) = {boardFile.states[g]} /\ Stored(g)' \subseteq {boardFile.states[g], NoEntry}
    BY <1>0, <1>8, <1>10, <2>1, <2>2, FileTypes DEF Stored, Running
  <2>4. \A w \in BoardTasks : /\ boardTask[w].pc = "none"
                              /\ boardTask'[w].pc \in {"none", "load"}
    BY <1>8, <1>10, <2>1 DEF Running, NoWork
  <2>5. ~ Excused(g)
    BY <2>4, BoardNames DEF Excused
  <2>6. InOrder(g)
    BY DEF BoardIInv
  <2>7. EntriesSent(g)' /\ EntriesNear(g)'
    BY <1>0, <2>3, <2>5, <2>6 DEF InOrder, EntriesSent, EntriesNear, Near, There
  <2>8. WritersNear(g)'
    BY <2>4 DEF WritersNear
  <2>9. TurnsAhead(g)'
    BY <2>2, <2>3, <2>4 DEF TurnsAhead
  <2> QED BY <2>7, <2>8, <2>9 DEF InOrder
<1> QED BY <1>6, <1>7, <1>9, <1>10 DEF BoardIInv

\* An updater works, no command does.
LEMMA UpdaterWorks ==
    ASSUME BoardIInv, ~ mixed, NEW w \in Updaters, Running(w)
    PROVE  /\ \A c \in Shows : ~ Running(c) /\ boardTask[c].pc = "none"
           /\ \A g : ~ Excused(g)
           /\ boardTask[w].board \in Boards
           /\ \A g \in Guilds : boardTask[w].board = g => w = g
<1>1. \A c \in Shows : ~ Running(c) /\ boardTask[c].pc = "none"
  <2>1. \A c \in Shows : ~ Running(c)
    BY BoardNames DEF BoardIInv, ShowsAlone
  <2> QED BY <2>1, BoardNames DEF Running, NoWork
<1>2. w \in BoardTasks /\ boardTask[w].board = OwnBoard(w)
  BY OwnTypes DEF BoardIInv, TasksFit
<1> QED BY <1>1, <1>2, OwnTypes DEF Excused

\* A command works, nothing else does.
LEMMA ShowWorks ==
    ASSUME BoardIInv, ~ mixed, NEW c \in Shows, Running(c)
    PROVE  \A w \in BoardTasks \ {c} : ~ Running(w) /\ boardTask[w].pc = "none"
BY DEF BoardIInv, ShowsAlone, Running, NoWork

\* A worker prepares the page after the one in the file.
LEMMA LoadForUpdateIInv ==
    ASSUME BoardIInv, ~ mixed, NEW w \in BoardTasks, LoadForUpdate(w)
    PROVE  BoardIInv'
<1>0. /\ w \in Updaters /\ boardTask[w].pc = "load"
      /\ UNCHANGED <<boardFile, display, shows, boardFaults, mixed>>
  BY DEF LoadForUpdate
<1>1. boardTask[w] \in Work /\ Running(w) /\ boardTask[w] # NoWork
  BY <1>0, WorkOf DEF BoardIInv, Running
<1>2. PICK b \in Boards : b = boardTask[w].board
  BY <1>1 DEF Work
<1>3. Loaded \in States /\ Loaded[b] \in Stored(b)
  BY LoadedTypes DEF BoardIInv, Loaded, Stored
<1>4. PICK work : work = IF Loaded[b] = NoEntry THEN NoWork
                         ELSE [boardTask[w] EXCEPT !.pc = "edit", !.states = Loaded,
                                     !.entry = [Loaded[b] EXCEPT !.page = TurnPage(@)]]
  OBVIOUS
<1>5. ContinueWork(w, work)
  BY <1>2, <1>4 DEF LoadForUpdate, EndWork
<1>6. Loaded[b] # NoEntry =>
         /\ work \in Work /\ work # NoWork /\ work.pc = "edit" /\ work.board = b /\ work.states = Loaded
         /\ work.entry \in BoardEntry
         /\ work.entry.message = Loaded[b].message /\ work.entry.page = TurnPage(Loaded[b].page)
  <2> SUFFICES ASSUME Loaded[b] # NoEntry
               PROVE  /\ work \in Work /\ work # NoWork /\ work.pc = "edit" /\ work.board = b
                      /\ work.states = Loaded /\ work.entry \in BoardEntry
                      /\ work.entry.message = Loaded[b].message
                      /\ work.entry.page = TurnPage(Loaded[b].page)
    OBVIOUS
  <2>1. Loaded[b] \in BoardEntry
    BY <1>3, EntryOf
  <2>2. PICK e : e = [Loaded[b] EXCEPT !.page = TurnPage(@)]
    OBVIOUS
  <2>3. e \in BoardEntry /\ e.message = Loaded[b].message /\ e.page = TurnPage(Loaded[b].page)
    <3>1. Loaded[b].page \in Page /\ TurnPage(Loaded[b].page) \in Page
      BY <2>1, TurnTypes DEF BoardEntry
    <3> QED BY <2>1, <2>2, <3>1 DEF BoardEntry
  <2>4. work = [boardTask[w] EXCEPT !.pc = "edit", !.states = Loaded, !.entry = e]
    BY <1>4, <2>2
  <2> QED BY <1>1, <1>2, <1>3, <2>3, <2>4 DEF Work, NoWork
<1>7. work \in Work \cup {NoWork}
  BY <1>4, <1>6
<1>8. work # NoWork => /\ w \in Updaters => work.board = OwnBoard(w)
                       /\ work.pc \in {"edit", "open", "write"} => work.entry \in BoardEntry
  BY <1>1, <1>2, <1>4, <1>6 DEF BoardIInv, TasksFit
<1>9. /\ boardTask' \in [BoardTasks -> Work \cup {NoWork}]
      /\ boardTask'[w] = work /\ \A o \in BoardTasks \ {w} : boardTask'[o] = boardTask[o]
      /\ TasksFit'
      /\ Running(w)' <=> work # NoWork
      /\ \A o \in BoardTasks \ {w} : Running(o)' <=> Running(o)
      /\ \A g : Stored(g)' \subseteq
             {boardFile'.states[g]} \cup Stored(g) \cup (IF work = NoWork THEN {} ELSE {work.states[g]})
  BY <1>5, <1>7, <1>8, ContinueWorkTypes
<1>10. BoardTypeOK'
  BY <1>0, <1>9 DEF BoardIInv, BoardTypeOK
<1>11. ShowsAlone'
  BY <1>0, <1>1, <1>9, UpdaterWorks, BoardNames DEF ShowsAlone
<1>12. ASSUME NEW g \in Guilds PROVE InOrder(g)'
  <2>1. Stored(g)' \subseteq Stored(g)
    BY <1>0, <1>4, <1>6, <1>9 DEF Stored, Loaded
  <2>2. ~ Excused(g)
    BY <1>0, <1>1, UpdaterWorks
  <2>3. work.pc \in {"none", "edit"}
    BY <1>4, <1>6 DEF NoWork
  <2>4. CASE w # g
    <3>1. boardTask'[g] = boardTask[g]
      BY <1>9, <2>4, BoardNames
    <3>2. \A o \in BoardTasks : boardTask'[o].pc \in {"open", "write"} => boardTask'[o] = boardTask[o]
      BY <1>9, <2>3
    <3> QED BY <1>0, <2>1, <2>2, <3>1, <3>2, OrderKept
  <2>5. CASE w = g
    <3>1. b = g
      BY <1>0, <1>1, <1>2, <2>5, UpdaterWorks, OwnTypes DEF BoardIInv, TasksFit
    <3>2. InOrder(g)
      BY DEF BoardIInv
    <3>3. EntriesSent(g)'
      BY <1>0, <2>1, <3>2 DEF InOrder, EntriesSent
    <3>4. EntriesNear(g)'
      BY <1>0, <2>1, <2>2, <3>2 DEF InOrder, EntriesNear, Near, There
    <3>5. WritersNear(g)'
      BY <1>0, <1>9, <2>3, <3>2 DEF InOrder, WritersNear, Near, There
    <3>6. TurnsAhead(g)'
      <4>1. boardTask[g].pc = "load" /\ boardTask'[g] = work
        BY <1>0, <1>9, <2>5
      <4>2. \A e, o \in Stored(g)' : e = o \/ NoEntry \in {e, o}
        BY <2>1, <3>2, <4>1 DEF InOrder, TurnsAhead
      <4>3. work.pc = "edit" => /\ work.states[g] # NoEntry
                                /\ work.entry.message = work.states[g].message
                                /\ work.entry.page = TurnPage(work.states[g].page)
        BY <1>4, <1>6, <3>1 DEF NoWork
      <4> QED BY <4>1, <4>2, <4>3 DEF TurnsAhead
    <3> QED BY <3>3, <3>4, <3>5, <3>6 DEF InOrder
  <2> QED BY <2>4, <2>5
<1> QED BY <1>9, <1>10, <1>11, <1>12 DEF BoardIInv

\* The worker of a guild's board turns it: every copy of its entry is one page behind.
LEMMA TurnedInOrder ==
    ASSUME BoardIInv, ~ mixed, NEW g \in Guilds, boardTask[g].pc = "edit",
           NEW e \in BoardEntry, e = boardTask[g].entry,
           display'[g] \in {display[g], [display[g] EXCEPT ![e.message] = e.page]},
           Stored(g)' \subseteq Stored(g),
           boardTask'[g].pc \notin {"load", "edit"},
           boardTask'[g].pc \in {"open", "write"} =>
               display'[g] = [display[g] EXCEPT ![e.message] = e.page] /\ boardTask'[g].entry = e,
           \A w \in BoardTasks \ {g} : boardTask'[w] = boardTask[w]
    PROVE  InOrder(g)'
<1>1. g \in Updaters /\ g \in BoardTasks /\ g \in Boards /\ OwnBoard(g) = g
  BY BoardNames DEF OwnBoard
<1>2. Running(g) /\ boardTask[g] \in Work
  BY <1>1, WorkOf DEF BoardIInv
<1>3. InOrder(g) /\ ~ Excused(g)
  BY <1>1, <1>2, UpdaterWorks DEF BoardIInv
<1>4. boardTask[g].states[g] \in Stored(g)
  BY <1>1, <1>2 DEF Stored
<1>5. PICK was : /\ was = boardTask[g].states[g] /\ was # NoEntry
                 /\ e.message = was.message /\ e.page = TurnPage(was.page)
  BY <1>3 DEF InOrder, TurnsAhead
<1>6. \A o \in Stored(g) : o = was \/ o = NoEntry
  BY <1>3, <1>4, <1>5 DEF InOrder, TurnsAhead
<1>7. was \in BoardEntry /\ was.message \in MessageID
  BY <1>1, <1>4, <1>5, StoredTypes, EntriesAre DEF BoardIInv
<1>8. display[g] \in [MessageID -> Page \cup {Unsent, Deleted}]
  BY <1>1 DEF BoardIInv, BoardTypeOK
<1>9. display[g][was.message] # Unsent /\ Near(g, was)
  BY <1>3, <1>4, <1>5 DEF InOrder, EntriesSent, EntriesNear
<1>10. e.page \in Page /\ e.page # Unsent
  BY EntriesAre, BoardNumbers
<1>11. display'[g][was.message] \in {display[g][was.message], e.page}
  BY <1>5, <1>7, <1>8
<1>12. EntriesSent(g)'
  BY <1>6, <1>9, <1>10, <1>11 DEF EntriesSent
<1>13. Near(g, was)'
  BY <1>5, <1>9, <1>11 DEF Near, There
<1>14. EntriesNear(g)'
  BY <1>6, <1>13 DEF EntriesNear
<1>15. WritersNear(g)'
  <2> SUFFICES ASSUME NEW w \in BoardTasks, boardTask'[w].pc \in {"open", "write"}, boardTask'[w].board = g
               PROVE  display'[g][boardTask'[w].entry.message] # Unsent /\ Near(g, boardTask[w].entry)'
    BY DEF WritersNear
  <2>1. w = g
    <3> SUFFICES ASSUME w # g PROVE FALSE
      OBVIOUS
    <3>1. boardTask'[w] = boardTask[w] /\ Running(w)
      BY WorkOf DEF BoardIInv
    <3>2. w \notin Shows
      BY <1>1, <1>2, <3>1, UpdaterWorks
    <3> QED BY <3>1, <3>2, UpdaterWorks DEF BoardTasks
  <2>2. boardTask'[w].entry = e /\ display'[g][e.message] = e.page
    BY <1>5, <1>7, <1>8, <2>1
  <2> QED BY <1>5, <1>7, <1>10, <2>2 DEF Near
<1>16. TurnsAhead(g)'
  BY DEF TurnsAhead
<1> QED BY <1>12, <1>14, <1>15, <1>16 DEF InOrder

\* A worker turns its board, or ends.
LEMMA TurnBoardIInv ==
    ASSUME BoardIInv, ~ mixed, NEW w \in BoardTasks, TurnBoard(w)
    PROVE  BoardIInv'
<1>0. w \in Updaters /\ boardTask[w].pc = "edit" /\ UNCHANGED <<boardFile, shows, mixed>>
  BY DEF TurnBoard
<1>1. boardTask[w] \in Work /\ Running(w)
  BY <1>0, WorkOf DEF BoardIInv
<1>2. PICK b \in Boards : b = boardTask[w].board /\ b = OwnBoard(w)
  BY <1>0, <1>1 DEF Work, BoardIInv, TasksFit
<1>3. PICK e \in BoardEntry : e = boardTask[w].entry
  BY <1>0, <1>1 DEF BoardIInv, TasksFit
<1>4. PICK turned : turned = [display EXCEPT ![b][e.message] = e.page]
  OBVIOUS
<1>5. PICK opens : opens = [boardTask[w] EXCEPT !.pc = "open"]
  OBVIOUS
<1>6. PICK work \in {NoWork, opens} :
          /\ ContinueWork(w, work) /\ display' \in {display, turned}
          /\ work = opens => display' = turned
          /\ BoardFault \/ NoBoardFault
  <2>1. \/ display' = turned /\ ContinueWork(w, opens) /\ NoBoardFault
        \/ EndWork(w) /\ UNCHANGED <<display, boardFaults>>
        \/ display' \in {display, turned} /\ EndWork(w) /\ BoardFault
    BY <1>2, <1>3, <1>4, <1>5, Zenon DEF TurnBoard
  <2>2. NoWork # opens
    BY <1>5, <1>1 DEF Work, NoWork
  <2>3. UNCHANGED <<display, boardFaults>> => NoBoardFault /\ display' = display
    BY DEF NoBoardFault
  <2> QED BY <2>1, <2>2, <2>3 DEF EndWork
<1>7. /\ opens \in Work /\ opens.pc = "open" /\ opens.board = b /\ opens.entry = e
      /\ opens.states = boardTask[w].states /\ opens # NoWork
  BY <1>1, <1>2, <1>3, <1>5 DEF Work, NoWork
<1>8. /\ boardTask' \in [BoardTasks -> Work \cup {NoWork}]
      /\ boardTask'[w] = work /\ \A o \in BoardTasks \ {w} : boardTask'[o] = boardTask[o]
      /\ TasksFit'
      /\ Running(w)' <=> work # NoWork
      /\ \A o \in BoardTasks \ {w} : Running(o)' <=> Running(o)
      /\ \A g : Stored(g)' \subseteq
             {boardFile'.states[g]} \cup Stored(g) \cup (IF work = NoWork THEN {} ELSE {work.states[g]})
  <2>1. work \in Work \cup {NoWork}
    BY <1>7
  <2>2. work # NoWork => /\ w \in Updaters => work.board = OwnBoard(w)
                         /\ work.pc \in {"edit", "open", "write"} => work.entry \in BoardEntry
    BY <1>2, <1>6, <1>7
  <2> QED BY <1>6, <2>1, <2>2, ContinueWorkTypes
<1>9. e.message \in MessageID /\ e.page \in Page
  BY EntriesAre
<1>10. /\ turned \in [Boards -> [MessageID -> Page \cup {Unsent, Deleted}]]
       /\ turned[b] = [display[b] EXCEPT ![e.message] = e.page]
       /\ \A g \in Boards \ {b} : turned[g] = display[g]
  BY <1>4, <1>9 DEF BoardIInv, BoardTypeOK
<1>11. display' \in [Boards -> [MessageID -> Page \cup {Unsent, Deleted}]]
  BY <1>6, <1>10 DEF BoardIInv, BoardTypeOK
<1>12. BoardTypeOK'
  BY <1>0, <1>6, <1>8, <1>11, BoardCounters DEF BoardIInv, BoardTypeOK
<1>13. ShowsAlone'
  BY <1>0, <1>1, <1>8, UpdaterWorks, BoardNames DEF ShowsAlone
<1>14. ASSUME NEW g \in Guilds PROVE InOrder(g)'
  <2>0. g \in Boards /\ g \in BoardTasks
    BY BoardNames
  <2>1. Stored(g)' \subseteq Stored(g)
    <3>1. boardFile'.states[g] \in Stored(g) /\ boardTask[w].states[g] \in Stored(g)
      BY <1>0, <1>1 DEF Stored
    <3> QED BY <1>6, <1>7, <1>8, <3>1
  <2>2. work.pc \in {"none", "open"}
    BY <1>6, <1>7 DEF NoWork
  <2>3. CASE w # g
    <3>1. b # g
      BY <1>0, <1>2, <2>3, OwnTypes
    <3>2. display'[g] = display[g]
      BY <1>6, <1>10, <2>0, <3>1
    <3>3. boardTask'[g] = boardTask[g]
      BY <1>8, <2>0, <2>3
    <3>4. \A o \in BoardTasks : boardTask'[o].pc \in {"open", "write"} /\ boardTask'[o].board = g =>
              boardTask'[o] = boardTask[o]
      BY <1>6, <1>7, <1>8, <3>1 DEF NoWork
    <3>5. ~ Excused(g)
      BY <1>0, <1>1, UpdaterWorks
    <3> QED BY <2>1, <3>2, <3>3, <3>4, <3>5, OrderKept
  <2>4. CASE w = g
    <3>1. b = g
      BY <1>0, <1>2, <2>4, OwnTypes
    <3>2. display'[g] \in {display[g], [display[g] EXCEPT ![e.message] = e.page]}
      BY <1>6, <1>10, <3>1
    <3>3. boardTask'[g].pc \notin {"load", "edit"}
      BY <1>8, <2>2, <2>4
    <3>4. boardTask'[g].pc \in {"open", "write"} =>
              display'[g] = [display[g] EXCEPT ![e.message] = e.page] /\ boardTask'[g].entry = e
      BY <1>6, <1>7, <1>8, <1>10, <2>4, <3>1 DEF NoWork
    <3> QED BY <1>0, <1>3, <1>8, <2>1, <2>4, <3>2, <3>3, <3>4, TurnedInOrder
  <2> QED BY <2>3, <2>4
<1> QED BY <1>8, <1>12, <1>13, <1>14 DEF BoardIInv

\* A command begins alone, or mixes.
LEMMA ShowLeaderboardIInv ==
    ASSUME BoardIInv, ~ mixed, NEW c \in Shows, NEW b \in Boards, ShowLeaderboard(c, b)
    PROVE  BoardIInv'
<1>0. /\ UNCHANGED <<boardFile, display, boardFaults>> /\ shows < MaxShows /\ shows' = shows + 1
      /\ ContinueWork(c, NewWork(b)) /\ mixed' = (mixed \/ \E w \in BoardTasks : Running(w))
  BY DEF ShowLeaderboard
<1>1. c \in BoardTasks /\ c \notin Updaters
  BY BoardNames
<1>2. PICK work \in Work : /\ work = NewWork(b) /\ work # NoWork /\ work.pc = "load"
                           /\ work.board = b /\ work.states = NoStates
  <2>1. NewWork(b) \in Work /\ NewWork(b) # NoWork
    BY FileTypes DEF NewWork, Work, NoWork
  <2> QED BY <2>1 DEF NewWork
<1>3. /\ boardTask' \in [BoardTasks -> Work \cup {NoWork}]
      /\ boardTask'[c] = work /\ \A o \in BoardTasks \ {c} : boardTask'[o] = boardTask[o]
      /\ TasksFit'
      /\ \A o \in BoardTasks \ {c} : Running(o)' <=> Running(o)
      /\ \A g : Stored(g)' \subseteq
             {boardFile'.states[g]} \cup Stored(g) \cup (IF work = NoWork THEN {} ELSE {work.states[g]})
  BY <1>0, <1>1, <1>2, ContinueWorkTypes
<1>4. shows' \in 0..MaxShows
  BY <1>0, BoardBoundAssumption DEF BoardIInv, BoardTypeOK
<1>5. BoardTypeOK'
  BY <1>0, <1>3, <1>4 DEF BoardIInv, BoardTypeOK
<1>6. ASSUME ~ mixed' PROVE \A w \in BoardTasks : ~ Running(w)
  BY <1>0, <1>6
<1>7. ASSUME ~ mixed' PROVE ShowsAlone'
  BY <1>3, <1>6, <1>7, BoardNames DEF ShowsAlone
<1>8. ASSUME ~ mixed', NEW g \in Guilds PROVE InOrder(g)'
  <2>1. Stored(g)' \subseteq Stored(g) \cup {NoEntry}
    BY <1>0, <1>2, <1>3, BoardNames, FileTypes DEF Stored
  <2>2. ~ Excused(g)
    BY <1>6, <1>8, BoardNames DEF Excused, Running, NoWork
  <2>3. boardTask'[g] = boardTask[g]
    BY <1>1, <1>3, BoardNames
  <2>4. \A w \in BoardTasks : boardTask'[w].pc \in {"open", "write"} => boardTask'[w] = boardTask[w]
    BY <1>2, <1>3
  <2> QED BY <1>0, <2>1, <2>2, <2>3, <2>4, OrderKept
<1> QED BY <1>3, <1>5, <1>7, <1>8 DEF BoardIInv

\* What a command that goes on alone leaves behind.
LEMMA ShowStep ==
    ASSUME BoardIInv, ~ mixed, NEW c \in Shows, Running(c), UNCHANGED <<boardFile, shows, mixed>>,
           NEW work \in Work \cup {NoWork}, ContinueWork(c, work),
           work.pc \in {"edit", "open", "write"} => work.entry \in BoardEntry,
           display' \in [Boards -> [MessageID -> Page \cup {Unsent, Deleted}]],
           boardFaults' \in 0..MaxBoardFaults
    PROVE  /\ BoardTypeOK' /\ TasksFit' /\ ShowsAlone'
           /\ c \in BoardTasks
           /\ boardTask'[c] = work /\ \A o \in BoardTasks \ {c} : boardTask'[o] = boardTask[o]
           /\ \A o \in BoardTasks \ {c} : boardTask'[o] = boardTask[o] /\ boardTask[o].pc = "none"
           /\ \A g \in Guilds : boardTask'[g] = boardTask[g] /\ boardTask[g].pc = "none"
           /\ \A g : Stored(g)' \subseteq
                 {boardFile'.states[g]} \cup Stored(g) \cup (IF work = NoWork THEN {} ELSE {work.states[g]})
<1>1. c \in BoardTasks /\ c \notin Updaters
  BY BoardNames
<1>2. /\ boardTask' \in [BoardTasks -> Work \cup {NoWork}]
      /\ boardTask'[c] = work /\ \A o \in BoardTasks \ {c} : boardTask'[o] = boardTask[o]
      /\ TasksFit'
      /\ \A o \in BoardTasks \ {c} : Running(o)' <=> Running(o)
      /\ \A g : Stored(g)' \subseteq
             {boardFile'.states[g]} \cup Stored(g) \cup (IF work = NoWork THEN {} ELSE {work.states[g]})
  BY <1>1, ContinueWorkTypes
<1>3. BoardTypeOK'
  BY <1>2 DEF BoardIInv, BoardTypeOK
<1>4. \A o \in BoardTasks \ {c} : ~ Running(o) /\ boardTask[o].pc = "none"
  BY ShowWorks
<1>5. ShowsAlone'
  BY <1>2, <1>4, BoardNames DEF ShowsAlone
<1>6. \A g \in Guilds : g \in BoardTasks \ {c}
  BY <1>1, BoardNames
<1> QED BY <1>1, <1>2, <1>3, <1>4, <1>5, <1>6

\* A command reads the file.
LEMMA LoadForShowIInv ==
    ASSUME BoardIInv, ~ mixed, NEW c \in Shows, LoadForShow(c)
    PROVE  BoardIInv'
<1>0. boardTask[c].pc = "load" /\ UNCHANGED <<boardFile, display, shows, boardFaults, mixed>>
  BY DEF LoadForShow
<1>1. boardTask[c] \in Work /\ Running(c)
  BY <1>0, WorkOf, BoardNames DEF BoardIInv
<1>2. PICK b \in Boards : b = boardTask[c].board
  BY <1>1 DEF Work
<1>3. Loaded \in States /\ Loaded[b] \in BoardEntry \cup {NoEntry}
  BY LoadedTypes DEF BoardIInv, States
<1>4. PICK pc \in {"send", "edit"} : pc = IF Loaded[b] = NoEntry THEN "send" ELSE "edit"
  OBVIOUS
<1>5. PICK work : work = [boardTask[c] EXCEPT !.pc = pc, !.states = Loaded, !.entry = Loaded[b]]
  OBVIOUS
<1>6. ContinueWork(c, work)
  BY <1>2, <1>4, <1>5 DEF LoadForShow
<1>7. /\ work \in Work /\ work # NoWork /\ work.pc = pc /\ work.states = Loaded
      /\ work.entry = Loaded[b]
  BY <1>1, <1>3, <1>5 DEF Work, NoWork
<1>8. work.pc \in {"edit", "open", "write"} => work.entry \in BoardEntry
  BY <1>3, <1>4, <1>7
<1>9. /\ display' \in [Boards -> [MessageID -> Page \cup {Unsent, Deleted}]]
      /\ boardFaults' \in 0..MaxBoardFaults
  BY <1>0 DEF BoardIInv, BoardTypeOK
<1>10. /\ BoardTypeOK' /\ TasksFit' /\ ShowsAlone'
       /\ c \in BoardTasks
       /\ boardTask'[c] = work /\ \A o \in BoardTasks \ {c} : boardTask'[o] = boardTask[o]
       /\ \A o \in BoardTasks \ {c} : boardTask'[o] = boardTask[o] /\ boardTask[o].pc = "none"
       /\ \A g \in Guilds : boardTask'[g] = boardTask[g] /\ boardTask[g].pc = "none"
       /\ \A g : Stored(g)' \subseteq
             {boardFile'.states[g]} \cup Stored(g) \cup (IF work = NoWork THEN {} ELSE {work.states[g]})
  BY <1>0, <1>1, <1>6, <1>7, <1>8, <1>9, ShowStep
<1>11. ASSUME NEW g \in Guilds PROVE InOrder(g)'
  <2>1. Stored(g)' \subseteq Stored(g)
    BY <1>0, <1>7, <1>10 DEF Stored, Loaded
  <2>2. ~ Excused(g)
    BY <1>0, <1>10, BoardNames DEF Excused
  <2>3. \A w \in BoardTasks : boardTask'[w].pc \notin {"open", "write"}
    BY <1>4, <1>7, <1>10
  <2> QED BY <1>0, <1>10, <2>1, <2>2, <2>3, OrderKept
<1> QED BY <1>10, <1>11 DEF BoardIInv

\* A command that has just shown the first page of a board, by an edit or a new message.
LEMMA ShownInOrder ==
    ASSUME BoardIInv, ~ mixed, NEW c \in Shows, Running(c), UNCHANGED <<boardFile, shows, mixed>>,
           NEW b \in Boards, NEW m \in MessageID,
           boardTask[c].board = b, boardTask[c].pc \in {"edit", "send"},
           display' = [display EXCEPT ![b][m] = 0],
           NEW work \in Work, ContinueWork(c, work), work # NoWork, NoBoardFault,
           work.pc = "open", work.board = b, work.states = boardTask[c].states,
           work.entry = [message |-> m, page |-> 0]
    PROVE  BoardIInv'
<1>1. work.entry \in BoardEntry
  BY BoardNumbers DEF BoardEntry
<1>2. /\ display' \in [Boards -> [MessageID -> Page \cup {Unsent, Deleted}]]
      /\ display'[b] = [display[b] EXCEPT ![m] = 0]
      /\ \A g \in Boards \ {b} : display'[g] = display[g]
  BY BoardNumbers DEF BoardIInv, BoardTypeOK
<1>3. boardFaults' \in 0..MaxBoardFaults
  BY BoardCounters DEF BoardIInv
<1>4. /\ BoardTypeOK' /\ TasksFit' /\ ShowsAlone'
      /\ c \in BoardTasks
      /\ boardTask'[c] = work /\ \A o \in BoardTasks \ {c} : boardTask'[o] = boardTask[o]
      /\ \A o \in BoardTasks \ {c} : boardTask'[o] = boardTask[o] /\ boardTask[o].pc = "none"
      /\ \A g \in Guilds : boardTask'[g] = boardTask[g] /\ boardTask[g].pc = "none"
      /\ \A g : Stored(g)' \subseteq
            {boardFile'.states[g]} \cup Stored(g) \cup (IF work = NoWork THEN {} ELSE {work.states[g]})
  BY <1>1, <1>2, <1>3, ShowStep
<1>5. ASSUME NEW g \in Guilds PROVE InOrder(g)'
  <2>0. g \in Boards
    BY BoardNames
  <2>1. Stored(g)' \subseteq Stored(g)
    <3>1. boardFile'.states[g] \in Stored(g) /\ boardTask[c].states[g] \in Stored(g)
      BY <1>4 DEF Stored
    <3> QED BY <1>4, <3>1
  <2>2. CASE g # b
    <3>1. ~ Excused(g)
      BY <1>4, BoardNames, <2>2 DEF Excused
    <3>2. \A w \in BoardTasks : ~ (boardTask'[w].pc \in {"open", "write"} /\ boardTask'[w].board = g)
      BY <1>4, <2>2
    <3> QED BY <1>2, <1>4, <2>0, <2>1, <2>2, <3>1, <3>2, OrderKept
  <2>3. CASE g = b
    <3>1. \A k \in MessageID : display[b][k] # Unsent => display'[b][k] # Unsent
      BY <1>2, BoardNumbers DEF BoardIInv, BoardTypeOK
    <3>2. \A e \in Stored(g) : e # NoEntry => e.message \in MessageID
      BY <2>0, StoredTypes, EntriesAre DEF BoardIInv
    <3>3. EntriesSent(g)'
      BY <2>1, <2>3, <3>1, <3>2 DEF BoardIInv, InOrder, EntriesSent
    <3>4. EntriesNear(g)'
      BY <1>4, <2>3 DEF EntriesNear, Excused
    <3>5. WritersNear(g)'
      <4>1. display'[b][m] = 0
        BY <1>2 DEF BoardIInv, BoardTypeOK
      <4>2. \A w \in BoardTasks : boardTask'[w].pc \in {"open", "write"} => w = c
        BY <1>4
      <4> QED BY <1>4, <2>3, <4>1, <4>2, BoardNumbers DEF WritersNear, Near
    <3>6. TurnsAhead(g)'
      BY <1>4 DEF TurnsAhead
    <3> QED BY <3>3, <3>4, <3>5, <3>6 DEF InOrder
  <2> QED BY <2>2, <2>3
<1> QED BY <1>4, <1>5 DEF BoardIInv

\* A command whose edit or message failed.
LEMMA NotShownInOrder ==
    ASSUME BoardIInv, ~ mixed, NEW c \in Shows, Running(c), UNCHANGED <<boardFile, display, shows, mixed>>,
           boardTask[c].pc \in {"edit", "send"}, boardTask[c] \in Work,
           NEW work \in {NoWork, [boardTask[c] EXCEPT !.pc = "send"]},
           ContinueWork(c, work), BoardFault \/ NoBoardFault
    PROVE  BoardIInv'
<1>1. work \in Work \cup {NoWork} /\ work.pc \in {"none", "send"}
      /\ (work # NoWork => work.states = boardTask[c].states)
  BY DEF Work, NoWork
<1>2. /\ display' \in [Boards -> [MessageID -> Page \cup {Unsent, Deleted}]]
      /\ boardFaults' \in 0..MaxBoardFaults
  BY BoardCounters DEF BoardIInv, BoardTypeOK
<1>3. /\ BoardTypeOK' /\ TasksFit' /\ ShowsAlone'
      /\ c \in BoardTasks
      /\ boardTask'[c] = work /\ \A o \in BoardTasks \ {c} : boardTask'[o] = boardTask[o]
      /\ \A o \in BoardTasks \ {c} : boardTask'[o] = boardTask[o] /\ boardTask[o].pc = "none"
      /\ \A g \in Guilds : boardTask'[g] = boardTask[g] /\ boardTask[g].pc = "none"
      /\ \A g : Stored(g)' \subseteq
            {boardFile'.states[g]} \cup Stored(g) \cup (IF work = NoWork THEN {} ELSE {work.states[g]})
  BY <1>1, <1>2, ShowStep
<1>4. ASSUME NEW g \in Guilds PROVE InOrder(g)'
  <2>1. Stored(g)' \subseteq Stored(g)
    <3>1. boardFile'.states[g] \in Stored(g) /\ boardTask[c].states[g] \in Stored(g)
      BY <1>3 DEF Stored
    <3> QED BY <1>1, <1>3, <3>1
  <2>2. ~ Excused(g)
    BY <1>3, BoardNames DEF Excused
  <2>3. \A w \in BoardTasks : boardTask'[w].pc \notin {"open", "write"}
    BY <1>1, <1>3
  <2> QED BY <1>3, <2>1, <2>2, <2>3, OrderKept
<1> QED BY <1>3, <1>4 DEF BoardIInv

\* A command turns a message to the first page, or goes on without it.
LEMMA EditBoardIInv ==
    ASSUME BoardIInv, ~ mixed, NEW c \in Shows, EditBoard(c)
    PROVE  BoardIInv'
<1>0. boardTask[c].pc = "edit" /\ UNCHANGED <<boardFile, shows, mixed>>
  BY DEF EditBoard
<1>1. boardTask[c] \in Work /\ Running(c)
  BY <1>0, WorkOf, BoardNames DEF BoardIInv
<1>2. PICK b \in Boards : b = boardTask[c].board
  BY <1>1 DEF Work
<1>3. boardTask[c].entry \in BoardEntry
  BY <1>0, <1>1, BoardNames DEF BoardIInv, TasksFit
<1>4. PICK m \in MessageID : m = boardTask[c].entry.message
  BY <1>3, EntriesAre
<1>5. PICK work : work = [boardTask[c] EXCEPT !.pc = "open", !.entry.page = 0]
  OBVIOUS
<1>6. PICK entry : entry = [boardTask[c].entry EXCEPT !.page = 0]
  OBVIOUS
<1>7. entry = [message |-> m, page |-> 0] /\ entry \in BoardEntry
  BY <1>3, <1>4, <1>6, BoardNumbers DEF BoardEntry
<1>8. work = [boardTask[c] EXCEPT !.pc = "open", !.entry = entry]
  BY <1>1, <1>5, <1>6 DEF Work
<1>9. /\ work \in Work /\ work # NoWork /\ work.pc = "open" /\ work.board = b
      /\ work.states = boardTask[c].states /\ work.entry = [message |-> m, page |-> 0]
  BY <1>1, <1>2, <1>7, <1>8 DEF Work, NoWork
<1>10. CASE /\ display' = [display EXCEPT ![b][m] = 0]
            /\ ContinueWork(c, work) /\ NoBoardFault
  BY <1>0, <1>1, <1>2, <1>9, <1>10, ShownInOrder
<1>11. CASE /\ UNCHANGED display
            /\ ContinueWork(c, [boardTask[c] EXCEPT !.pc = "send"])
            /\ BoardFault \/ NoBoardFault
  BY <1>0, <1>1, <1>11, NotShownInOrder
<1> QED BY <1>2, <1>4, <1>5, <1>10, <1>11 DEF EditBoard

\* A command sends a new message, or ends.
LEMMA SendBoardIInv ==
    ASSUME BoardIInv, ~ mixed, NEW c \in Shows, SendBoard(c)
    PROVE  BoardIInv'
<1>0. boardTask[c].pc = "send" /\ UNCHANGED <<boardFile, shows, mixed>>
  BY DEF SendBoard
<1>1. boardTask[c] \in Work /\ Running(c)
  BY <1>0, WorkOf, BoardNames DEF BoardIInv
<1>2. PICK b \in Boards : b = boardTask[c].board
  BY <1>1 DEF Work
<1>3. ASSUME NEW new \in MessageID,
             display' = [display EXCEPT ![b][new] = 0],
             ContinueWork(c, [boardTask[c] EXCEPT !.pc = "open", !.entry = [message |-> new, page |-> 0]]),
             NoBoardFault
      PROVE  BoardIInv'
  <2>1. PICK entry \in BoardEntry : entry = [message |-> new, page |-> 0]
    BY BoardNumbers DEF BoardEntry
  <2>2. PICK work : work = [boardTask[c] EXCEPT !.pc = "open", !.entry = entry]
    OBVIOUS
  <2>3. /\ work \in Work /\ work # NoWork /\ work.pc = "open" /\ work.board = b
        /\ work.states = boardTask[c].states /\ work.entry = [message |-> new, page |-> 0]
    BY <1>1, <1>2, <2>1, <2>2 DEF Work, NoWork
  <2> QED BY <1>0, <1>1, <1>2, <1>3, <2>1, <2>2, <2>3, ShownInOrder
<1>4. CASE UNCHANGED display /\ EndWork(c) /\ BoardFault
  BY <1>0, <1>1, <1>4, NotShownInOrder DEF EndWork
<1> QED BY <1>2, <1>3, <1>4 DEF SendBoard

\* The file is emptied: an entry less, but none that is wrong.
LEMMA OpenStatesIInv ==
    ASSUME BoardIInv, ~ mixed, NEW w \in BoardTasks, OpenStates(w)
    PROVE  BoardIInv'
<1>0. boardTask[w].pc = "open" /\ UNCHANGED <<display, shows>>
  BY DEF OpenStates
<1>1. boardTask[w] \in Work /\ Running(w)
  BY <1>0, WorkOf DEF BoardIInv
<1>2. PICK writes : writes = [boardTask[w] EXCEPT !.pc = "write"]
  OBVIOUS
<1>3. /\ writes \in Work /\ writes # NoWork /\ writes.pc = "write" /\ writes.board = boardTask[w].board
      /\ writes.states = boardTask[w].states /\ writes.entry = boardTask[w].entry
  BY <1>1, <1>2 DEF Work, NoWork
<1>4. PICK work \in {NoWork, writes} :
          /\ ContinueWork(w, work) /\ (BoardFault \/ NoBoardFault)
  BY <1>2 DEF OpenStates, EndWork
<1>5. /\ boardFile' \in {boardFile, Blank}
      /\ mixed' \in BOOLEAN
      /\ ~ mixed' => work = writes \/ w \notin Shows
  <2>1. CASE boardFile' = Blank /\ ContinueWork(w, writes) /\ UNCHANGED mixed
    <3>1. boardTask'[w] = work /\ boardTask'[w] = writes
      BY <1>4, <2>1 DEF ContinueWork, BoardIInv, BoardTypeOK
    <3> QED BY <2>1, <3>1 DEF BoardIInv, BoardTypeOK
  <2>2. CASE UNCHANGED boardFile /\ Parting(w)
    BY <2>2 DEF Parting, BoardIInv, BoardTypeOK
  <2> QED BY <1>2, <2>1, <2>2 DEF OpenStates
<1>6. work \in Work \cup {NoWork} /\ work.pc \in {"none", "write"}
  BY <1>3, <1>4 DEF NoWork
<1>7. work # NoWork => /\ w \in Updaters => work.board = OwnBoard(w)
                       /\ work.pc \in {"edit", "open", "write"} => work.entry \in BoardEntry
  BY <1>0, <1>1, <1>3, <1>4 DEF BoardIInv, TasksFit
<1>8. /\ boardTask' \in [BoardTasks -> Work \cup {NoWork}]
      /\ boardTask'[w] = work /\ \A o \in BoardTasks \ {w} : boardTask'[o] = boardTask[o]
      /\ TasksFit'
      /\ Running(w)' <=> work # NoWork
      /\ \A o \in BoardTasks \ {w} : Running(o)' <=> Running(o)
      /\ \A g : Stored(g)' \subseteq
             {boardFile'.states[g]} \cup Stored(g) \cup (IF work = NoWork THEN {} ELSE {work.states[g]})
  BY <1>4, <1>6, <1>7, ContinueWorkTypes
<1>9. boardFile' \in {Written(states) : states \in States} \cup {Torn}
  BY <1>5, FileTypes DEF BoardIInv, BoardTypeOK
<1>10. BoardTypeOK'
  BY <1>0, <1>4, <1>5, <1>8, <1>9, BoardCounters DEF BoardIInv, BoardTypeOK
<1>11. ShowsAlone'
  BY <1>1, <1>8, BoardNames DEF BoardIInv, ShowsAlone
<1>12. ASSUME ~ mixed', NEW g \in Guilds PROVE InOrder(g)'
  <2>0. g \in Boards /\ g \in BoardTasks
    BY BoardNames
  <2>1. Stored(g)' \subseteq Stored(g) \cup {NoEntry}
    <3>1. boardFile.states[g] \in Stored(g) /\ boardTask[w].states[g] \in Stored(g)
      BY <1>1 DEF Stored
    <3>2. boardFile'.states[g] \in Stored(g) \cup {NoEntry}
      BY <1>5, <2>0, <3>1, FileTypes
    <3> QED BY <1>3, <1>4, <1>8, <3>1, <3>2
  <2>2. Excused(g) => Excused(g)'
    <3> SUFFICES ASSUME NEW c \in Shows, boardTask[c].pc \in {"open", "write"}, boardTask[c].board = g
                 PROVE  boardTask'[c].pc \in {"open", "write"} /\ boardTask'[c].board = g
      BY DEF Excused
    <3>1. c \in BoardTasks
      BY BoardNames
    <3>2. CASE c = w
      BY <1>3, <1>5, <1>8, <1>12, <3>2
    <3>3. CASE c # w
      BY <1>8, <3>1, <3>3
    <3> QED BY <3>2, <3>3
  <2>3. \A o \in BoardTasks : boardTask'[o].pc \in {"open", "write"} /\ boardTask'[o].board = g =>
            /\ boardTask[o].pc \in {"open", "write"}
            /\ boardTask'[o].board = boardTask[o].board /\ boardTask'[o].entry = boardTask[o].entry
    <3>1. \A o \in BoardTasks \ {w} : boardTask'[o] = boardTask[o]
      BY <1>8
    <3>2. work.pc \in {"open", "write"} => work = writes
      BY <1>4 DEF NoWork
    <3> QED BY <1>0, <1>3, <1>8, <3>1, <3>2
  <2>4. boardTask'[g].pc \in {"load", "edit"} => boardTask'[g] = boardTask[g]
    BY <1>6, <1>8, <2>0
  <2> QED BY <1>0, <2>0, <2>1, <2>2, <2>3, <2>4, OrderKept
<1> QED BY <1>8, <1>10, <1>11, <1>12 DEF BoardIInv

\* The file is written: its entries are the copies of the writer and the page it has turned to.
LEMMA WriteStatesIInv ==
    ASSUME BoardIInv, ~ mixed, NEW w \in BoardTasks, WriteStates(w)
    PROVE  BoardIInv'
<1>0. boardTask[w].pc = "write" /\ UNCHANGED <<display, shows>> /\ ContinueWork(w, NoWork)
  BY DEF WriteStates, EndWork
<1>1. boardTask[w] \in Work /\ Running(w)
  BY <1>0, WorkOf DEF BoardIInv
<1>2. PICK b \in Boards : b = boardTask[w].board
  BY <1>1 DEF Work
<1>3. PICK e \in BoardEntry : e = boardTask[w].entry
  BY <1>0, <1>1 DEF BoardIInv, TasksFit
<1>4. PICK states \in States :
          /\ states = [boardTask[w].states EXCEPT ![b] = e]
          /\ states[b] = e
          /\ \A g \in Boards \ {b} : states[g] = boardTask[w].states[g]
  <2>1. boardTask[w].states \in States
    BY <1>1 DEF Work
  <2>2. PICK states : states = [boardTask[w].states EXCEPT ![b] = e]
    OBVIOUS
  <2>3. states \in States /\ states[b] = e
        /\ \A g \in Boards \ {b} : states[g] = boardTask[w].states[g]
    BY <2>1, <2>2 DEF States
  <2> QED BY <2>2, <2>3
<1>5. /\ boardFile' \in {Written(states), Torn}
      /\ BoardFault \/ NoBoardFault
      /\ mixed' \in BOOLEAN
  BY <1>2, <1>3, <1>4 DEF WriteStates, Parting, BoardIInv, BoardTypeOK
<1>6. /\ boardTask' \in [BoardTasks -> Work \cup {NoWork}]
      /\ boardTask'[w] = NoWork /\ \A o \in BoardTasks \ {w} : boardTask'[o] = boardTask[o]
      /\ TasksFit'
      /\ ~ Running(w)'
      /\ \A o \in BoardTasks \ {w} : Running(o)' <=> Running(o)
      /\ \A g : Stored(g)' \subseteq {boardFile'.states[g]} \cup Stored(g)
  BY <1>0, ContinueWorkTypes
<1>7. boardFile' \in {Written(s) : s \in States} \cup {Torn}
  BY <1>5
<1>8. BoardTypeOK'
  BY <1>0, <1>5, <1>6, <1>7, BoardCounters DEF BoardIInv, BoardTypeOK
<1>9. ShowsAlone'
  BY <1>6, BoardNames DEF BoardIInv, ShowsAlone
<1>10. ASSUME ~ mixed', NEW g \in Guilds PROVE InOrder(g)'
  <2>0. g \in Boards /\ g \in BoardTasks /\ InOrder(g)
    BY BoardNames DEF BoardIInv
  <2>1. boardTask[w].states[g] \in Stored(g)
    BY <1>1 DEF Stored
  <2>2. boardFile'.states[g] \in {NoEntry, boardTask[w].states[g]} \cup (IF b = g THEN {e} ELSE {})
    BY <1>4, <1>5, <2>0, FileTypes
  <2>3. b = g => display[g][e.message] # Unsent /\ Near(g, e)
    BY <1>0, <1>2, <1>3, <2>0 DEF InOrder, WritersNear
  <2>4. \A o \in BoardTasks : boardTask'[o].pc \in {"open", "write"} => boardTask'[o] = boardTask[o]
    BY <1>6 DEF NoWork
  <2>5. WritersNear(g)'
    BY <1>0, <2>0, <2>4 DEF InOrder, WritersNear, Near, There
  <2>6. EntriesSent(g)'
    BY <1>0, <1>6, <2>0, <2>1, <2>2, <2>3 DEF InOrder, EntriesSent
  <2>7. CASE w \in Updaters
    <3>1. ~ Excused(g)
      BY <1>1, <2>7, UpdaterWorks
    <3>2. EntriesNear(g)'
      BY <1>0, <1>6, <2>0, <2>1, <2>2, <2>3, <3>1 DEF InOrder, EntriesNear, Near, There
    <3>3. CASE w = g
      <4>1. TurnsAhead(g)'
        BY <1>6, <2>0, <3>3 DEF TurnsAhead, NoWork
      <4> QED BY <2>5, <2>6, <3>2, <4>1 DEF InOrder
    <3>4. CASE w # g
      <4>1. b # g
        BY <1>1, <1>2, <2>7, <3>4, UpdaterWorks
      <4>2. Stored(g)' \subseteq Stored(g) \cup {NoEntry} /\ boardTask'[g] = boardTask[g]
        BY <1>6, <2>0, <2>1, <2>2, <3>4, <4>1
      <4>3. TurnsAhead(g)'
        BY <2>0, <4>2 DEF InOrder, TurnsAhead
      <4> QED BY <2>5, <2>6, <3>2, <4>3 DEF InOrder
    <3> QED BY <3>3, <3>4
  <2>8. CASE w \in Shows
    <3>1. \A o \in BoardTasks : boardTask'[o].pc = "none" /\ ~ Running(o)'
      BY <1>1, <1>6, <2>8, ShowWorks DEF NoWork
    <3>2. Stored(g)' = {boardFile'.states[g]}
      BY <3>1 DEF Stored
    <3>3. EntriesNear(g)'
      <4>1. CASE b = g
        <5>1. boardFile'.states[g] \in {NoEntry, e}
          BY <1>4, <1>5, <2>0, <4>1, FileTypes
        <5> QED BY <1>0, <2>3, <3>2, <4>1, <5>1 DEF EntriesNear, Near, There
      <4>2. CASE b # g
        <5>1. ~ Excused(g)
          BY <1>1, <1>2, <2>8, <4>2, ShowWorks, BoardNames DEF Excused
        <5>2. boardFile'.states[g] \in Stored(g) \cup {NoEntry}
          BY <2>1, <2>2, <4>2
        <5> QED BY <1>0, <2>0, <3>2, <5>1, <5>2 DEF InOrder, EntriesNear, Near, There
      <4> QED BY <4>1, <4>2
    <3>4. TurnsAhead(g)'
      BY <2>0, <3>1 DEF TurnsAhead
    <3> QED BY <2>5, <2>6, <3>3, <3>4 DEF InOrder
  <2> QED BY <2>7, <2>8 DEF BoardTasks
<1> QED BY <1>6, <1>8, <1>9, <1>10 DEF BoardIInv

\* A message is deleted: nothing has to be near it any more.
LEMMA MessageDeletedIInv ==
    ASSUME BoardIInv, ~ mixed, MessageDeleted
    PROVE  BoardIInv'
<1>0. UNCHANGED <<boardFile, boardTask, shows, mixed>> /\ BoardFault
  BY DEF MessageDeleted
<1>1. PICK b \in Boards, m \in MessageID : display' = [display EXCEPT ![b][m] = Deleted]
  BY DEF MessageDeleted
<1>2. display' \in [Boards -> [MessageID -> Page \cup {Unsent, Deleted}]]
  BY <1>1 DEF BoardIInv, BoardTypeOK
<1>3. \A g \in Boards, k \in MessageID : display'[g][k] \in {display[g][k], Deleted}
  BY <1>1 DEF BoardIInv, BoardTypeOK
<1>4. BoardTypeOK'
  BY <1>0, <1>2, BoardCounters DEF BoardIInv, BoardTypeOK
<1>5. TasksFit' /\ ShowsAlone'
  BY <1>0 DEF BoardIInv, TasksFit, ShowsAlone, Running
<1>6. ASSUME NEW g \in Guilds PROVE InOrder(g)'
  <2>0. g \in Boards /\ InOrder(g)
    BY BoardNames DEF BoardIInv
  <2>1. Stored(g)' = Stored(g) /\ (Excused(g)' <=> Excused(g))
    BY <1>0 DEF Stored, Excused, Running
  <2>2. \A e \in BoardEntry : /\ display[g][e.message] # Unsent => display'[g][e.message] # Unsent
                              /\ Near(g, e) => Near(g, e)'
    BY <1>3, <2>0, EntriesAre, BoardNumbers DEF Near, There
  <2>3. \A e \in Stored(g) : e # NoEntry => e \in BoardEntry
    BY <2>0, StoredTypes DEF BoardIInv
  <2>4. EntriesSent(g)'
    BY <2>0, <2>1, <2>2, <2>3 DEF InOrder, EntriesSent
  <2>5. EntriesNear(g)'
    BY <2>0, <2>1, <2>2, <2>3 DEF InOrder, EntriesNear
  <2>6. WritersNear(g)'
    <3>1. \A w \in BoardTasks : boardTask[w].pc \in {"open", "write"} => boardTask[w].entry \in BoardEntry
      BY WorkOf DEF BoardIInv, TasksFit
    <3> QED BY <1>0, <2>0, <2>2, <3>1 DEF InOrder, WritersNear
  <2>7. TurnsAhead(g)'
    BY <1>0, <2>0, <2>1 DEF InOrder, TurnsAhead
  <2> QED BY <2>4, <2>5, <2>6, <2>7 DEF InOrder
<1> QED BY <1>0, <1>4, <1>5, <1>6 DEF BoardIInv

\* The process begins again with the file, torn or whole.
LEMMA BoardRestartIInv ==
    ASSUME BoardIInv, ~ mixed, BoardRestart
    PROVE  BoardIInv'
<1>0. /\ UNCHANGED <<display, shows>> /\ BoardFault
      /\ boardTask' = [w \in BoardTasks |-> NoWork]
      /\ mixed' = (mixed \/ \E c \in Shows : Running(c))
      /\ boardFile' \in {boardFile, Torn}
  BY DEF BoardRestart
<1>1. \A w \in BoardTasks : boardTask'[w] = NoWork /\ boardTask'[w].pc = "none" /\ ~ Running(w)'
  BY <1>0 DEF NoWork, Running
<1>2. boardTask' \in [BoardTasks -> Work \cup {NoWork}]
  BY <1>0
<1>3. boardFile' \in {Written(states) : states \in States} \cup {Torn}
  BY <1>0 DEF BoardIInv, BoardTypeOK
<1>4. BoardTypeOK'
  BY <1>0, <1>2, <1>3, BoardCounters DEF BoardIInv, BoardTypeOK
<1>5. TasksFit' /\ ShowsAlone'
  BY <1>1, BoardNames DEF TasksFit, ShowsAlone
<1>6. ASSUME ~ mixed', NEW g \in Guilds PROVE InOrder(g)'
  <2>0. g \in Boards /\ g \in BoardTasks
    BY BoardNames
  <2>1. boardFile'.states[g] \in Stored(g) \cup {NoEntry}
    BY <1>0, <2>0, FileTypes DEF Stored
  <2>2. Stored(g)' \subseteq Stored(g) \cup {NoEntry}
    BY <1>1, <2>1 DEF Stored
  <2>3. ~ Excused(g)
    <3>1. \A c \in Shows : ~ Running(c)
      BY <1>0, <1>6
    <3> QED BY <3>1, BoardNames DEF Excused, Running, NoWork
  <2> QED BY <1>0, <1>1, <2>0, <2>2, <2>3, OrderKept
<1> QED BY <1>4, <1>5, <1>6 DEF BoardIInv

\* Every step keeps the invariant.
LEMMA NextBoardIInv == BoardIInv /\ [BoardNext]_boardVars => BoardIInv'
<1> SUFFICES ASSUME BoardIInv, [BoardNext]_boardVars PROVE BoardIInv'
  OBVIOUS
<1>1. CASE BoardNext
  <2>1. CASE UpdateLeaderboards
    BY <1>1, <2>1, UpdateLeaderboardsIInv DEF BoardNext
  <2>2. ASSUME NEW w \in BoardTasks, LoadForUpdate(w) PROVE BoardIInv'
    BY <1>1, <2>2, LoadForUpdateIInv DEF BoardNext
  <2>3. ASSUME NEW w \in BoardTasks, TurnBoard(w) PROVE BoardIInv'
    BY <1>1, <2>3, TurnBoardIInv DEF BoardNext
  <2>4. ASSUME NEW w \in BoardTasks, OpenStates(w) PROVE BoardIInv'
    BY <1>1, <2>4, OpenStatesIInv DEF BoardNext
  <2>5. ASSUME NEW w \in BoardTasks, WriteStates(w) PROVE BoardIInv'
    BY <1>1, <2>5, WriteStatesIInv DEF BoardNext
  <2>6. ASSUME NEW c \in Shows, LoadForShow(c) PROVE BoardIInv'
    BY <1>1, <2>6, LoadForShowIInv DEF BoardNext
  <2>7. ASSUME NEW c \in Shows, EditBoard(c) PROVE BoardIInv'
    BY <1>1, <2>7, EditBoardIInv DEF BoardNext
  <2>8. ASSUME NEW c \in Shows, SendBoard(c) PROVE BoardIInv'
    BY <1>1, <2>8, SendBoardIInv DEF BoardNext
  <2>9. ASSUME NEW c \in Shows, NEW b \in Boards, ShowLeaderboard(c, b) PROVE BoardIInv'
    BY <1>1, <2>9, ShowLeaderboardIInv DEF BoardNext
  <2>10. CASE MessageDeleted
    BY <1>1, <2>10, MessageDeletedIInv DEF BoardNext
  <2>11. CASE BoardRestart
    BY <1>1, <2>11, BoardRestartIInv DEF BoardNext
  <2> QED BY <1>1, <2>1, <2>2, <2>3, <2>4, <2>5, <2>6, <2>7, <2>8, <2>9, <2>10, <2>11 DEF BoardNext
<1>2. CASE UNCHANGED boardVars
  <2>1. UNCHANGED <<boardFile, display, boardTask, shows, boardFaults, mixed>>
    BY <1>2 DEF boardVars
  <2>2. (BoardTypeOK' <=> BoardTypeOK) /\ (TasksFit' <=> TasksFit) /\ (ShowsAlone' <=> ShowsAlone)
    BY <2>1 DEF BoardTypeOK, TasksFit, ShowsAlone, Running
  <2>3. ASSUME NEW g \in Guilds, InOrder(g) PROVE InOrder(g)'
    <3>1. Stored(g)' = Stored(g) /\ (Excused(g)' <=> Excused(g)) /\ \A e : Near(g, e)' <=> Near(g, e)
      BY <2>1 DEF Stored, Running, Excused, Near, There
    <3>2. EntriesSent(g)' /\ EntriesNear(g)'
      BY <2>1, <2>3, <3>1 DEF InOrder, EntriesSent, EntriesNear
    <3>3. WritersNear(g)' /\ TurnsAhead(g)'
      BY <2>1, <2>3, <3>1 DEF InOrder, WritersNear, TurnsAhead
    <3> QED BY <3>2, <3>3 DEF InOrder
  <2>4. BoardTypeOK /\ TasksFit /\ (~ mixed => ShowsAlone /\ \A g \in Guilds : InOrder(g))
    BY DEF BoardIInv
  <2>5. ~ mixed' => ShowsAlone' /\ \A g \in Guilds : InOrder(g)'
    BY <2>1, <2>2, <2>3, <2>4
  <2> QED BY <2>2, <2>4, <2>5 DEF BoardIInv
<1> QED BY <1>1, <1>2

\* A message of a guild's board shows its pages in order: an update never skips one and never goes
\* back, however old the file that its worker has read (updateLeaderboard, UpdateLeaderboard).
THEOREM PagesAreInOrder == BoardSpec => PagesInOrder
<1> DEFINE OneOn ==
        ~mixed => \A g \in Guilds, m \in MessageID : There(g, m) /\ display'[g][m] # Deleted =>
            \/ display'[g][m] \in {display[g][m], TurnPage(display[g][m])}
            \/ \E c \in Shows : boardTask[c].pc = "edit" /\ boardTask'[c].pc = "open" /\ display'[g][m] = 0
<1>1. BoardIInv /\ [BoardNext]_boardVars => [OneOn]_boardVars
  <2> SUFFICES ASSUME BoardIInv, BoardNext, ~ mixed,
                      NEW g \in Guilds, NEW m \in MessageID, There(g, m), display'[g][m] # Deleted
               PROVE  \/ display'[g][m] \in {display[g][m], TurnPage(display[g][m])}
                      \/ \E c \in Shows : boardTask[c].pc = "edit" /\ boardTask'[c].pc = "open" /\ display'[g][m] = 0
    OBVIOUS
  <2>0. g \in Boards /\ g \in BoardTasks /\ display \in [Boards -> [MessageID -> Page \cup {Unsent, Deleted}]]
    BY BoardNames DEF BoardIInv, BoardTypeOK
  <2>1. ASSUME NEW w \in BoardTasks, TurnBoard(w)
        PROVE  display'[g][m] \in {display[g][m], TurnPage(display[g][m])}
    <3>1. w \in Updaters /\ boardTask[w].pc = "edit"
      BY <2>1 DEF TurnBoard
    <3>2. boardTask[w] \in Work /\ Running(w)
      BY <3>1, WorkOf DEF BoardIInv
    <3>3. PICK b \in Boards : b = boardTask[w].board /\ b = OwnBoard(w)
      BY <3>1, <3>2 DEF Work, BoardIInv, TasksFit
    <3>4. PICK e \in BoardEntry : e = boardTask[w].entry
      BY <3>1, <3>2 DEF BoardIInv, TasksFit
    <3>5. display' \in {display, [display EXCEPT ![b][e.message] = e.page]}
      BY <2>1, <3>3, <3>4 DEF TurnBoard
    <3>6. display'[g][m] # display[g][m] => b = g /\ m = e.message /\ display'[g][m] = e.page
      BY <2>0, <3>5
    <3>7. CASE b = g /\ m = e.message /\ display'[g][m] = e.page
      <4>1. w = g
        BY <3>1, <3>3, <3>7, OwnTypes
      <4>2. InOrder(g) /\ ~ Excused(g)
        BY <3>1, <3>2, UpdaterWorks DEF BoardIInv
      <4>3. PICK was : /\ was = boardTask[g].states[g] /\ was # NoEntry
                       /\ e.message = was.message /\ e.page = TurnPage(was.page)
        BY <3>1, <3>4, <4>1, <4>2 DEF InOrder, TurnsAhead
      <4>4. was \in Stored(g)
        BY <2>0, <3>2, <4>1, <4>3 DEF Stored
      <4>5. display[g][m] \in {was.page, TurnPage(was.page)}
        BY <3>7, <4>2, <4>3, <4>4 DEF InOrder, EntriesNear, Near
      <4> QED BY <3>7, <4>3, <4>5
    <3> QED BY <3>6, <3>7
  <2>2. ASSUME NEW c \in Shows, EditBoard(c)
        PROVE  \/ display'[g][m] \in {display[g][m], TurnPage(display[g][m])}
               \/ \E k \in Shows : boardTask[k].pc = "edit" /\ boardTask'[k].pc = "open" /\ display'[g][m] = 0
    <3>1. boardTask[c].pc = "edit" /\ c \in BoardTasks /\ boardTask[c] \in Work
      BY <2>2, WorkOf, BoardNames DEF EditBoard, BoardIInv
    <3>2. PICK b, n : b = boardTask[c].board /\ n = boardTask[c].entry.message
      OBVIOUS
    <3>3. CASE /\ display' = [display EXCEPT ![b][n] = 0]
               /\ ContinueWork(c, [boardTask[c] EXCEPT !.pc = "open", !.entry.page = 0])
      <4>1. boardTask'[c].pc = "open"
        BY <3>1, <3>3 DEF ContinueWork, BoardIInv, BoardTypeOK, Work
      <4>2. display'[g][m] \in {display[g][m], 0}
        BY <2>0, <3>3
      <4> QED BY <3>1, <4>1, <4>2
    <3>4. CASE UNCHANGED display
      BY <3>4
    <3> QED BY <2>2, <3>2, <3>3, <3>4 DEF EditBoard
  <2>3. ASSUME NEW c \in Shows, SendBoard(c) PROVE display'[g][m] = display[g][m]
    <3>1. PICK b : b = boardTask[c].board
      OBVIOUS
    <3>2. ASSUME NEW new \in MessageID, display[b][new] = Unsent, display' = [display EXCEPT ![b][new] = 0]
          PROVE  display'[g][m] = display[g][m]
      BY <2>0, <3>2, BoardNumbers DEF There
    <3> QED BY <2>3, <3>1, <3>2 DEF SendBoard
  <2>4. CASE MessageDeleted
    <3>1. PICK b \in Boards, k \in MessageID : display' = [display EXCEPT ![b][k] = Deleted]
      BY <2>4 DEF MessageDeleted
    <3> QED BY <2>0, <3>1
  <2>5. CASE UNCHANGED display
    BY <2>5
  <2> QED BY <2>1, <2>2, <2>3, <2>4, <2>5 DEF BoardNext, UpdateLeaderboards, LoadForUpdate,
     OpenStates, WriteStates, LoadForShow, ShowLeaderboard, BoardRestart
<1> QED BY <1>1, InitBoardIInv, NextBoardIInv, PTL DEF BoardSpec, PagesInOrder

-----------------------------------------------------------------------------
(* The push: types, and the messages that are left                         *)

\* Numbers have a least among them.
LEMMA Least ==
    ASSUME NEW S \in SUBSET Nat, S # {}
    PROVE  \E m \in S : \A k \in S : m <= k
<1>1. PICK m \in S : \A k \in S : ~ (<<k, m>> \in OpToRel(<, Nat))
  BY NatLessThanWellFounded, WFMin
<1>2. \A k \in S : ~ (k < m)
  BY <1>1 DEF OpToRel
<1> QED BY <1>2

\* What is behind the n latest of some messages is behind the n latest of more.
LEMMA AllButGrows ==
    ASSUME NEW n \in Nat, NEW S, NEW T, S \subseteq T, T \subseteq PushMessage
    PROVE  AllBut(n, S) \subseteq AllBut(n, T)
<1> SUFFICES ASSUME NEW m \in AllBut(n, S) PROVE m \in AllBut(n, T)
  OBVIOUS
<1>1. IsFiniteSet(PushMessage)
  BY PushBoundAssumption, FS_Interval DEF PushMessage
<1>2. IsFiniteSet({k \in T : k > m})
  BY <1>1, FS_Subset
<1>3. {k \in S : k > m} \in SUBSET {k \in T : k > m}
  OBVIOUS
<1>4. /\ Cardinality({k \in S : k > m}) <= Cardinality({k \in T : k > m})
      /\ Cardinality({k \in S : k > m}) \in Nat /\ Cardinality({k \in T : k > m}) \in Nat
  BY <1>2, <1>3, FS_Subset, FS_CardinalityType
<1> QED BY <1>4 DEF AllBut

\* If nothing is behind the n latest, there are n at most.
LEMMA NoneBehind ==
    ASSUME NEW n \in Nat, NEW S \in SUBSET PushMessage, AllBut(n, S) = {}
    PROVE  Cardinality(S) <= n
<1>1. IsFiniteSet(S)
  <2>1. IsFiniteSet(PushMessage)
    BY PushBoundAssumption, FS_Interval DEF PushMessage
  <2> QED BY <2>1, FS_Subset
<1>2. CASE S = {}
  BY <1>2, FS_EmptySet
<1>3. CASE S # {}
  <2>1. S \in SUBSET Nat
    BY PushBoundAssumption DEF PushMessage
  <2>2. PICK m \in S : \A k \in S : m <= k
    BY <1>3, <2>1, Least
  <2>3. {k \in S : k > m} = S \ {m}
    <3>1. \A k \in S : k > m <=> k # m
      BY <2>1, <2>2
    <3> QED BY <3>1
  <2>4. Cardinality(S \ {m}) = Cardinality(S) - 1 /\ Cardinality(S) \in Nat
    BY <1>1, FS_RemoveElement, FS_CardinalityType
  <2>5. ~ (Cardinality(S \ {m}) >= n)
    BY <2>2, <2>3 DEF AllBut
  <2> QED BY <2>4, <2>5
<1> QED BY <1>2, <1>3

\* The bot's messages in the channel that the file does not protect.
Own == (channel \cap botMessages) \ pushFile.config.whitelist

\* Only what is behind the latest is on a list to be deleted, and gone.
OldAreOld == \A p \in Pushes : push[p].pc = "delete" => push[p].old \subseteq AllBut(Kept, botMessages)
GoneAreOld == botMessages \subseteq 1..lastMessage /\ botMessages \ channel \subseteq AllBut(Kept, botMessages)

\* A push has a whitelist that the file has grown from.
WhitelistsGrow == ~ disturbed =>
    \A p \in Pushes : push[p] # NoPush => push[p].whitelist \subseteq pushFile.config.whitelist

\* Some push under way deletes what is too much.
SomebodyClears == ~ disturbed => \A m \in AllBut(Kept, Own) :
    \E p \in Pushes : push[p].pc = "fetch" \/ (push[p].pc = "delete" /\ m \in push[p].old)

PushIInv == PushTypeOK /\ OldAreOld /\ GoneAreOld /\ WhitelistsGrow /\ SomebodyClears

\* A push is under way, or not.
LEMMA PushOf ==
    ASSUME PushTypeOK, NEW p \in Pushes
    PROVE  /\ push[p] # NoPush <=> push[p] \in PushLocals
           /\ push[p] # NoPush <=> push[p].pc # "none"
           /\ push[p] # NoPush => push[p].pc \in {"send", "fetch", "delete"}
BY DEF PushTypeOK, NoPush, PushLocals

\* At the start there is nothing in the channel.
LEMMA InitPushIInv == PushInit => PushIInv
<1> SUFFICES ASSUME PushInit PROVE PushIInv
  OBVIOUS
<1>1. pushFile \in PushFile
  <2>1. {EmptyPushConfig, [listed |-> TRUE, whitelist |-> {}]} \subseteq PushConfig
    BY DEF PushConfig, EmptyPushConfig
  <2>2. \A config \in PushConfig : Saved(config) \in PushFile
    BY DEF Saved, PushFile
  <2> QED BY <2>1, <2>2 DEF PushInit
<1>2. \A p \in Pushes : push[p].pc = "none" /\ push[p] = NoPush
  BY DEF PushInit, NoPush
<1>3. AllBut(Kept, Own) = {}
  BY DEF PushInit, AllBut, Own
<1>4. PushTypeOK
  <2>1. push \in [Pushes -> PushLocals \cup {NoPush}]
    BY DEF PushInit
  <2>2. pushAdmin \in [PushAdmins -> CommandLocals \cup {NoCommand}]
    BY DEF PushInit
  <2>3. lastMessage \in 0..MaxPushMessages /\ pushCommands \in 0..MaxPushCommands
    BY PushBoundAssumption DEF PushInit
  <2> QED BY <1>1, <2>1, <2>2, <2>3 DEF PushInit, PushTypeOK
<1> QED BY <1>2, <1>3, <1>4 DEF PushInit, PushIInv, OldAreOld, GoneAreOld, WhitelistsGrow, SomebodyClears

\* A message gets the next number.
LEMMA NewMessageTypes ==
    ASSUME PushTypeOK, SendMessage
    PROVE  /\ lastMessage' \in 0..MaxPushMessages /\ lastMessage + 1 \in PushMessage
           /\ channel' \subseteq PushMessage /\ channel' = channel \cup {lastMessage + 1}
BY PushBoundAssumption DEF PushTypeOK, SendMessage, PushMessage

\* A push goes on with locals of its own.
LEMMA ContinueTypes ==
    ASSUME PushTypeOK, NEW p \in Pushes, NEW locals \in PushLocals \cup {NoPush}, ContinuePush(p, locals)
    PROVE  /\ push' \in [Pushes -> PushLocals \cup {NoPush}]
           /\ push'[p] = locals /\ \A o \in Pushes \ {p} : push'[o] = push[o]
BY DEF PushTypeOK, ContinuePush

\* A push begins with the whitelist of the file.
LEMMA PushNewCardIInv ==
    ASSUME PushIInv, ~ disturbed, NEW p \in Pushes, PushNewCard(p)
    PROVE  PushIInv'
<1>1. PICK locals : locals = [pc |-> "send", whitelist |-> pushFile.config.whitelist, old |-> {}]
  OBVIOUS
<1>2. locals \in PushLocals /\ locals.pc = "send" /\ locals.whitelist = pushFile.config.whitelist
  BY <1>1 DEF PushLocals, PushIInv, PushTypeOK, PushFile, PushConfig
<1>3. push' \in [Pushes -> PushLocals \cup {NoPush}] /\ push'[p] = locals
      /\ \A o \in Pushes \ {p} : push'[o] = push[o]
  BY <1>1, <1>2, ContinueTypes DEF PushNewCard, PushIInv
<1>4. UNCHANGED <<pushFile, channel, lastMessage, botMessages, pushAdmin, pushCommands, disturbed>>
      /\ push[p] = NoPush
  BY DEF PushNewCard, NoPushFault
<1>5. push[p].pc = "none"
  BY <1>4 DEF NoPush
<1>6. PushTypeOK'
  BY <1>3, <1>4 DEF PushIInv, PushTypeOK
<1>7. OldAreOld' /\ GoneAreOld'
  BY <1>2, <1>3, <1>4 DEF PushIInv, OldAreOld, GoneAreOld
<1>8. WhitelistsGrow'
  BY <1>2, <1>3, <1>4 DEF PushIInv, WhitelistsGrow
<1>9. SomebodyClears'
  BY <1>3, <1>4, <1>5 DEF PushIInv, SomebodyClears, Own
<1> QED BY <1>6, <1>7, <1>8, <1>9 DEF PushIInv

\* A card is sent and becomes the latest, or the push ends and a disturbance is noted.
LEMMA SendCardIInv ==
    ASSUME PushIInv, ~ disturbed, NEW p \in Pushes, SendCard(p)
    PROVE  PushIInv'
<1>1. push[p] \in PushLocals /\ push[p] # NoPush /\ push[p].pc = "send"
  BY PushOf DEF SendCard, PushIInv, NoPush
<1>2. UNCHANGED <<pushFile, pushAdmin, pushCommands>>
  BY DEF SendCard
<1>3. CASE /\ SendMessage
           /\ botMessages' = botMessages \cup {lastMessage + 1}
           /\ ContinuePush(p, [push[p] EXCEPT !.pc = "fetch"])
           /\ NoPushFault
  <2>1. PICK locals : locals = [push[p] EXCEPT !.pc = "fetch"]
    OBVIOUS
  <2>2. locals \in PushLocals /\ locals.pc = "fetch" /\ locals.whitelist = push[p].whitelist
    BY <1>1, <2>1 DEF PushLocals
  <2>3. push' \in [Pushes -> PushLocals \cup {NoPush}] /\ push'[p] = locals
        /\ \A o \in Pushes \ {p} : push'[o] = push[o]
    BY <1>3, <2>1, <2>2, ContinueTypes DEF PushIInv
  <2>4. /\ lastMessage' \in 0..MaxPushMessages /\ lastMessage + 1 \in PushMessage
        /\ channel' \subseteq PushMessage /\ channel' = channel \cup {lastMessage + 1}
    BY <1>3, NewMessageTypes DEF PushIInv
  <2>5. botMessages' \subseteq PushMessage /\ botMessages \subseteq botMessages'
    BY <1>3, <2>4 DEF PushIInv, PushTypeOK
  <2>6. PushTypeOK'
    BY <1>2, <1>3, <2>3, <2>4, <2>5 DEF PushIInv, PushTypeOK, NoPushFault
  <2>7. AllBut(Kept, botMessages) \subseteq AllBut(Kept, botMessages')
    BY <2>5, AllButGrows, KeptAssumption
  <2>8. OldAreOld'
    BY <2>2, <2>3, <2>7 DEF PushIInv, OldAreOld
  <2>9. GoneAreOld'
    <3>1. lastMessage' = lastMessage + 1 /\ lastMessage \in Nat
      BY <1>3 DEF SendMessage, PushIInv, PushTypeOK
    <3>2. botMessages' \subseteq 1..lastMessage'
      BY <1>3, <3>1 DEF PushIInv, GoneAreOld
    <3> QED BY <1>3, <2>4, <2>7, <3>2 DEF PushIInv, GoneAreOld
  <2>10. WhitelistsGrow'
    BY <1>1, <1>2, <1>3, <2>2, <2>3 DEF PushIInv, WhitelistsGrow, NoPushFault
  <2>11. SomebodyClears'
    BY <2>2, <2>3 DEF SomebodyClears
  <2> QED BY <2>6, <2>8, <2>9, <2>10, <2>11 DEF PushIInv
<1>4. CASE ContinuePush(p, NoPush) /\ PushFault /\ UNCHANGED <<channel, lastMessage, botMessages>>
  <2>1. push' \in [Pushes -> PushLocals \cup {NoPush}] /\ push'[p] = NoPush
        /\ \A o \in Pushes \ {p} : push'[o] = push[o]
    BY <1>4, ContinueTypes DEF PushIInv
  <2>2. disturbed' = TRUE /\ NoPush.pc = "none"
    BY <1>4 DEF PushFault, NoPush
  <2>3. PushTypeOK'
    BY <1>2, <1>4, <2>1, <2>2 DEF PushIInv, PushTypeOK
  <2> QED BY <1>4, <2>1, <2>2, <2>3 DEF PushIInv, OldAreOld, GoneAreOld, WhitelistsGrow, SomebodyClears
<1> QED BY <1>3, <1>4 DEF SendCard

\* What a push lists is behind the latest, and everything that is behind and not protected.
LEMMA FetchMessagesIInv ==
    ASSUME PushIInv, ~ disturbed, NEW p \in Pushes, FetchMessages(p)
    PROVE  PushIInv'
<1>1. push[p] \in PushLocals /\ push[p] # NoPush /\ push[p].pc = "fetch"
  BY PushOf DEF FetchMessages, PushIInv, NoPush
<1>2. UNCHANGED <<pushFile, channel, lastMessage, botMessages, pushAdmin, pushCommands>>
  BY DEF FetchMessages
<1>3. ASSUME NEW fetched, NEW own,
             fetched = Latest(Window, channel), own = (fetched \cap botMessages) \ push[p].whitelist,
             ContinuePush(p, [push[p] EXCEPT !.pc = "delete", !.old = AllBut(Kept, own)]),
             disturbed' = (fetched # channel)
      PROVE  PushIInv'
  <2>1. PICK locals : locals = [push[p] EXCEPT !.pc = "delete", !.old = AllBut(Kept, own)]
    OBVIOUS
  <2>2. own \subseteq botMessages /\ botMessages \subseteq PushMessage /\ own \subseteq PushMessage
    BY <1>3 DEF PushIInv, PushTypeOK
  <2>3. AllBut(Kept, own) \subseteq own
    BY DEF AllBut
  <2>4. /\ locals \in PushLocals /\ locals.pc = "delete" /\ locals.whitelist = push[p].whitelist
        /\ locals.old = AllBut(Kept, own)
    BY <1>1, <2>1, <2>2, <2>3 DEF PushLocals
  <2>5. push' \in [Pushes -> PushLocals \cup {NoPush}] /\ push'[p] = locals
        /\ \A o \in Pushes \ {p} : push'[o] = push[o]
    BY <1>3, <2>1, <2>4, ContinueTypes DEF PushIInv
  <2>6. PushTypeOK'
    BY <1>2, <1>3, <2>5 DEF PushIInv, PushTypeOK
  <2>7. AllBut(Kept, own) \subseteq AllBut(Kept, botMessages)
    BY <2>2, AllButGrows, KeptAssumption
  <2>8. OldAreOld' /\ GoneAreOld'
    BY <1>2, <2>4, <2>5, <2>7 DEF PushIInv, OldAreOld, GoneAreOld
  <2>9. WhitelistsGrow'
    BY <1>1, <1>2, <2>4, <2>5 DEF PushIInv, WhitelistsGrow
  <2>10. SomebodyClears'
    <3> SUFFICES ASSUME ~ disturbed', NEW m \in AllBut(Kept, Own)
                 PROVE  m \in AllBut(Kept, own)
      BY <1>2, <2>4, <2>5 DEF SomebodyClears, Own
    <3>1. fetched = channel
      BY <1>3
    <3>2. push[p].whitelist \subseteq pushFile.config.whitelist
      BY <1>1 DEF PushIInv, WhitelistsGrow
    <3>3. Own \subseteq own
      BY <1>3, <3>1, <3>2 DEF Own
    <3> QED BY <2>2, <3>3, AllButGrows, KeptAssumption
  <2> QED BY <2>6, <2>8, <2>9, <2>10 DEF PushIInv
<1>4. CASE ContinuePush(p, NoPush) /\ PushFault
  <2>1. push' \in [Pushes -> PushLocals \cup {NoPush}] /\ push'[p] = NoPush
        /\ \A o \in Pushes \ {p} : push'[o] = push[o]
    BY <1>4, ContinueTypes DEF PushIInv
  <2>2. disturbed' = TRUE /\ NoPush.pc = "none"
    BY <1>4 DEF PushFault, NoPush
  <2>3. PushTypeOK'
    BY <1>2, <2>1, <2>2 DEF PushIInv, PushTypeOK
  <2> QED BY <1>2, <2>1, <2>2, <2>3 DEF PushIInv, OldAreOld, GoneAreOld, WhitelistsGrow, SomebodyClears
<1> QED BY <1>3, <1>4 DEF FetchMessages

\* A message on the list is deleted, or the push is done.
LEMMA DeleteOldestIInv ==
    ASSUME PushIInv, ~ disturbed, NEW p \in Pushes, DeleteOldest(p)
    PROVE  PushIInv'
<1>1. push[p] \in PushLocals /\ push[p] # NoPush /\ push[p].pc = "delete"
  BY PushOf DEF DeleteOldest, PushIInv, NoPush
<1>2. UNCHANGED <<pushFile, lastMessage, botMessages, pushAdmin, pushCommands>>
  BY DEF DeleteOldest
<1>3. CASE push[p].old = {}
  <2>1. ContinuePush(p, NoPush) /\ NoPushFault /\ UNCHANGED channel
    BY <1>3 DEF DeleteOldest
  <2>2. push' \in [Pushes -> PushLocals \cup {NoPush}] /\ push'[p] = NoPush
        /\ \A o \in Pushes \ {p} : push'[o] = push[o]
    BY <2>1, ContinueTypes DEF PushIInv
  <2>3. NoPush.pc = "none"
    BY DEF NoPush
  <2>4. PushTypeOK'
    BY <1>2, <2>1, <2>2 DEF PushIInv, PushTypeOK, NoPushFault
  <2>5. SomebodyClears'
    BY <1>1, <1>2, <1>3, <2>1, <2>2 DEF PushIInv, SomebodyClears, Own, NoPushFault
  <2> QED BY <1>2, <2>1, <2>2, <2>3, <2>4, <2>5 DEF PushIInv, OldAreOld, GoneAreOld, WhitelistsGrow,
     NoPushFault
<1>4. CASE push[p].old # {}
  <2>1. PICK m : m = CHOOSE k \in push[p].old : \A o \in push[p].old : k <= o
    OBVIOUS
  <2>2. push[p].old \in SUBSET Nat
    BY <1>1, PushBoundAssumption DEF PushLocals, PushMessage
  <2>3. m \in push[p].old
    BY <1>4, <2>1, <2>2, Least
  <2>4. PICK locals : locals = [push[p] EXCEPT !.old = @ \ {m}]
    OBVIOUS
  <2>5. /\ locals \in PushLocals /\ locals.pc = "delete" /\ locals.whitelist = push[p].whitelist
        /\ locals.old = push[p].old \ {m}
    BY <1>1, <2>4 DEF PushLocals
  <2>6. ContinuePush(p, locals) /\ \/ channel' = channel \ {m} /\ NoPushFault
                                   \/ UNCHANGED channel /\ PushFault
    BY <1>4, <2>1, <2>4 DEF DeleteOldest
  <2>7. push' \in [Pushes -> PushLocals \cup {NoPush}] /\ push'[p] = locals
        /\ \A o \in Pushes \ {p} : push'[o] = push[o]
    BY <2>5, <2>6, ContinueTypes DEF PushIInv
  <2>8. PushTypeOK'
    BY <1>2, <2>6, <2>7 DEF PushIInv, PushTypeOK, NoPushFault, PushFault
  <2>9. OldAreOld'
    BY <1>1, <1>2, <2>5, <2>7 DEF PushIInv, OldAreOld
  <2>10. GoneAreOld'
    BY <1>1, <1>2, <2>3, <2>6 DEF PushIInv, GoneAreOld, OldAreOld
  <2>11. WhitelistsGrow'
    BY <1>1, <1>2, <2>5, <2>6, <2>7 DEF PushIInv, WhitelistsGrow
  <2>12. SomebodyClears'
    <3> SUFFICES ASSUME ~ disturbed', NEW k \in AllBut(Kept, Own')
                 PROVE  \E q \in Pushes : push'[q].pc = "fetch" \/ (push'[q].pc = "delete" /\ k \in push'[q].old)
      BY DEF SomebodyClears
    <3>1. channel' = channel \ {m}
      BY <2>6 DEF PushFault
    <3>2. Own' = Own \ {m} /\ Own \subseteq PushMessage
      BY <1>2, <3>1 DEF Own, PushIInv, PushTypeOK
    <3>3. k \in AllBut(Kept, Own) /\ k # m
      <4>1. AllBut(Kept, Own \ {m}) \subseteq AllBut(Kept, Own)
        BY <3>2, AllButGrows, KeptAssumption
      <4>2. k \in Own \ {m}
        BY <3>2 DEF AllBut
      <4> QED BY <3>2, <4>1, <4>2
    <3>4. PICK q \in Pushes : push[q].pc = "fetch" \/ (push[q].pc = "delete" /\ k \in push[q].old)
      BY <3>3 DEF PushIInv, SomebodyClears
    <3>5. CASE q = p
      BY <1>1, <2>5, <2>7, <3>3, <3>4, <3>5
    <3>6. CASE q # p
      BY <2>7, <3>4, <3>6
    <3> QED BY <3>5, <3>6
  <2> QED BY <2>8, <2>9, <2>10, <2>11, <2>12 DEF PushIInv
<1> QED BY <1>3, <1>4

\* A command changes the file, of which whatever stood in the whitelist stays there, or a
\* disturbance is noted.
LEMMA CommandKeeps ==
    ASSUME PushIInv, ~ disturbed, UNCHANGED <<channel, lastMessage, botMessages, push>>,
           pushFile' \in PushFile, pushAdmin' \in [PushAdmins -> CommandLocals \cup {NoCommand}],
           pushCommands' \in 0..MaxPushCommands, disturbed' \in BOOLEAN,
           ~ disturbed' => pushFile.config.whitelist \subseteq pushFile'.config.whitelist
    PROVE  PushIInv'
<1>1. PushTypeOK'
  BY DEF PushIInv, PushTypeOK
<1>2. OldAreOld' /\ GoneAreOld'
  BY DEF PushIInv, OldAreOld, GoneAreOld
<1>3. WhitelistsGrow'
  BY DEF PushIInv, WhitelistsGrow
<1>4. SomebodyClears'
  <2> SUFFICES ASSUME ~ disturbed' PROVE AllBut(Kept, Own') \subseteq AllBut(Kept, Own)
    BY DEF PushIInv, SomebodyClears
  <2>1. Own' \subseteq Own /\ Own \subseteq PushMessage
    BY DEF Own, PushIInv, PushTypeOK
  <2> QED BY <2>1, AllButGrows, KeptAssumption
<1> QED BY <1>1, <1>2, <1>3, <1>4 DEF PushIInv

\* A command reads the file and changes its copy.
LEMMA ChangePushConfigIInv ==
    ASSUME PushIInv, ~ disturbed, NEW a \in PushAdmins, NEW config \in PushConfig,
           ChangePushConfig(a, config)
    PROVE  PushIInv'
<1>1. [pc |-> "open", config |-> config] \in CommandLocals
  BY DEF CommandLocals
<1>2. pushAdmin' \in [PushAdmins -> CommandLocals \cup {NoCommand}]
  BY <1>1 DEF ChangePushConfig, PushIInv, PushTypeOK
<1>3. pushCommands' \in 0..MaxPushCommands
  BY PushBoundAssumption DEF ChangePushConfig, PushIInv, PushTypeOK
<1>4. UNCHANGED <<pushFile, channel, lastMessage, botMessages, push, disturbed>>
  BY DEF ChangePushConfig, NoPushFault
<1> QED BY <1>2, <1>3, <1>4, CommandKeeps DEF PushIInv, PushTypeOK

\* A command empties the file.
LEMMA OpenPushFileIInv ==
    ASSUME PushIInv, ~ disturbed, NEW a \in PushAdmins, OpenPushFile(a)
    PROVE  PushIInv'
<1>1. pushAdmin[a] \in CommandLocals
  BY DEF OpenPushFile, PushIInv, PushTypeOK, NoCommand
<1>2. [pushAdmin[a] EXCEPT !.pc = "write"] \in CommandLocals
  BY <1>1 DEF CommandLocals
<1>3. pushAdmin' \in [PushAdmins -> CommandLocals \cup {NoCommand}]
  <2>1. pushAdmin' \in {[pushAdmin EXCEPT ![a] = [pushAdmin[a] EXCEPT !.pc = "write"]],
                        [pushAdmin EXCEPT ![a] = NoCommand]}
    BY DEF OpenPushFile
  <2> QED BY <1>2, <2>1 DEF PushIInv, PushTypeOK
<1>4. pushFile' \in PushFile /\ pushFile'.config = pushFile.config
  BY DEF OpenPushFile, PushIInv, PushTypeOK, PushFile
<1>5. disturbed' \in BOOLEAN /\ UNCHANGED <<channel, lastMessage, botMessages, push, pushCommands>>
  BY DEF OpenPushFile, PushFault, NoPushFault, PushIInv, PushTypeOK
<1> QED BY <1>3, <1>4, <1>5, CommandKeeps DEF PushIInv, PushTypeOK

\* A command writes the file.
LEMMA WritePushFileIInv ==
    ASSUME PushIInv, ~ disturbed, NEW a \in PushAdmins, WritePushFile(a)
    PROVE  PushIInv'
<1>1. pushAdmin[a] \in CommandLocals /\ pushAdmin[a].config \in PushConfig
  BY DEF WritePushFile, PushIInv, PushTypeOK, NoCommand, CommandLocals
<1>2. pushAdmin' \in [PushAdmins -> CommandLocals \cup {NoCommand}]
  BY DEF WritePushFile, PushIInv, PushTypeOK
<1>3. UNCHANGED <<channel, lastMessage, botMessages, push, pushCommands>>
  BY DEF WritePushFile
<1>4. PICK torn : torn = [pushFile EXCEPT !.json = FALSE]
  OBVIOUS
<1>5. torn \in PushFile /\ torn.config = pushFile.config
  BY <1>4 DEF PushIInv, PushTypeOK, PushFile
<1>6. CASE /\ pushFile' = Saved(pushAdmin[a].config)
           /\ disturbed' = ~(pushFile.config.whitelist \subseteq pushAdmin[a].config.whitelist)
  <2>1. pushFile' \in PushFile /\ pushFile'.config = pushAdmin[a].config /\ disturbed' \in BOOLEAN
    BY <1>1, <1>6 DEF Saved, PushFile
  <2> QED BY <1>2, <1>3, <1>6, <2>1, CommandKeeps DEF PushIInv, PushTypeOK
<1>7. CASE pushFile' = torn /\ (NoPushFault \/ PushFault)
  <2>1. disturbed' \in BOOLEAN
    BY <1>7 DEF PushFault, NoPushFault, PushIInv, PushTypeOK
  <2> QED BY <1>2, <1>3, <1>5, <1>7, <2>1, CommandKeeps DEF PushIInv, PushTypeOK
<1> QED BY <1>4, <1>6, <1>7 DEF WritePushFile

\* A member writes to the channel.
LEMMA MemberWritesIInv ==
    ASSUME PushIInv, ~ disturbed, MemberWrites
    PROVE  PushIInv'
<1>1. /\ lastMessage' \in 0..MaxPushMessages /\ lastMessage + 1 \in PushMessage
      /\ channel' \subseteq PushMessage /\ channel' = channel \cup {lastMessage + 1}
  BY NewMessageTypes DEF MemberWrites, PushIInv
<1>2. UNCHANGED <<pushFile, botMessages, push, pushAdmin, pushCommands, disturbed>>
  BY DEF MemberWrites, NoPushFault
<1>3. PushTypeOK'
  BY <1>1, <1>2 DEF PushIInv, PushTypeOK
<1>4. lastMessage' = lastMessage + 1 /\ lastMessage \in Nat
  BY DEF MemberWrites, SendMessage, PushIInv, PushTypeOK
<1>5. GoneAreOld' /\ lastMessage + 1 \notin botMessages
  BY <1>1, <1>2, <1>4 DEF PushIInv, GoneAreOld
<1>6. OldAreOld' /\ WhitelistsGrow'
  BY <1>2 DEF PushIInv, OldAreOld, WhitelistsGrow
<1>7. Own' = Own
  BY <1>1, <1>2, <1>5 DEF Own
<1>8. SomebodyClears'
  BY <1>2, <1>7 DEF PushIInv, SomebodyClears
<1> QED BY <1>3, <1>5, <1>6, <1>8 DEF PushIInv

\* Every step keeps the invariant.
LEMMA NextPushIInv == PushIInv /\ [PushNext]_pushVars => PushIInv'
<1> SUFFICES ASSUME PushIInv, [PushNext]_pushVars PROVE PushIInv'
  OBVIOUS
<1>1. ASSUME ~ disturbed, NEW p \in Pushes,
             PushNewCard(p) \/ SendCard(p) \/ FetchMessages(p) \/ DeleteOldest(p)
      PROVE  PushIInv'
  BY <1>1, PushNewCardIInv, SendCardIInv, FetchMessagesIInv, DeleteOldestIInv
<1>2. ASSUME ~ disturbed, NEW a \in PushAdmins,
             \/ AddChannel(a) \/ RemoveChannel(a)
             \/ \E m \in channel : WhitelistAdd(a, m) \/ WhitelistRemove(a, m)
      PROVE  PushIInv'
  <2>1. pushFile.config \in PushConfig /\ channel \subseteq PushMessage
    BY DEF PushIInv, PushTypeOK, PushFile
  <2>2. /\ [pushFile.config EXCEPT !.listed = TRUE] \in PushConfig
        /\ [pushFile.config EXCEPT !.listed = FALSE] \in PushConfig
        /\ \A m \in channel : /\ [pushFile.config EXCEPT !.whitelist = @ \cup {m}] \in PushConfig
                              /\ [pushFile.config EXCEPT !.whitelist = @ \ {m}] \in PushConfig
    BY <2>1 DEF PushConfig
  <2> QED BY <1>2, <2>2, ChangePushConfigIInv DEF AddChannel, RemoveChannel, WhitelistAdd,
     WhitelistRemove
<1>3. ASSUME ~ disturbed, NEW a \in PushAdmins, OpenPushFile(a) \/ WritePushFile(a)
      PROVE  PushIInv'
  BY <1>3, OpenPushFileIInv, WritePushFileIInv
<1>4. CASE ~ disturbed /\ MemberWrites
  BY <1>4, MemberWritesIInv
<1>5. CASE UNCHANGED pushVars
  BY <1>5 DEF pushVars, PushIInv, PushTypeOK, OldAreOld, GoneAreOld, WhitelistsGrow, SomebodyClears, Own
<1> QED BY <1>1, <1>2, <1>3, <1>4, <1>5 DEF PushNext

\* However many pushes clean the channel at a time, the latest cards of the bot stay, and when all
\* pushes are done there are no more of them than the file allows (pushNewCard, cleanOldMessages).
THEOREM LatestCardsStay == PushSpec => []ChannelKeepsLatest
<1>1. PushIInv => ChannelKeepsLatest
  <2> SUFFICES ASSUME PushIInv, ~ disturbed, \A p \in Pushes : push[p] = NoPush
               PROVE  Cardinality(Own) <= Kept /\ Latest(Kept, botMessages) \subseteq channel
    BY DEF ChannelKeepsLatest, Own
  <2>1. Own \in SUBSET PushMessage
    BY DEF Own, PushIInv, PushTypeOK
  <2>2. AllBut(Kept, Own) = {}
    BY DEF PushIInv, SomebodyClears, NoPush
  <2>3. Cardinality(Own) <= Kept
    BY <2>1, <2>2, NoneBehind, KeptAssumption
  <2>4. Latest(Kept, botMessages) \subseteq channel
    BY DEF PushIInv, GoneAreOld, Latest
  <2> QED BY <2>3, <2>4
<1> QED BY <1>1, InitPushIInv, NextPushIInv, PTL DEF PushSpec

-----------------------------------------------------------------------------
(* The history: types, and what a reader has still to see                  *)

\* Enough pages are counted, and none too many.
LEMMA PagesHoldAll ==
    ASSUME NEW n \in Nat, NEW size \in Nat \ {0}
    PROVE  /\ (n + size - 1) \div size \in Nat
           /\ n <= ((n + size - 1) \div size) * size
           /\ n > 0 => (n + size - 1) \div size \in 1..n
<1>1. PICK q : q = (n + size - 1) \div size
  OBVIOUS
<1>2. q \in Int /\ q * size <= n + size - 1 /\ n + size - 1 < (q + 1) * size
  BY <1>1, SMTT(30)
<1> QED BY <1>1, <1>2

\* A product grows with its first factor.
LEMMA TimesGrows ==
    ASSUME NEW a \in Nat, NEW b \in Nat, NEW c \in Nat
    PROVE  a * c \in Nat /\ (a <= b => a * c <= b * c)
OBVIOUS

\* A place depends on the keys up to it.
LEMMA SamePlace ==
    ASSUME NEW ids, NEW more, NEW k, \A j : j <= k => (j \in ids <=> j \in more)
    PROVE  Place(k, ids) = Place(k, more)
<1>1. {j \in ids : j <= k} = {j \in more : j <= k}
  OBVIOUS
<1> QED BY <1>1 DEF Place

\* What a reader asks for.
LEMMA AskedTypes ==
    ASSUME HistoryTypeOK, NEW guilds
    PROVE  /\ Asked(guilds) \subseteq 1..lastID /\ Asked(guilds) \subseteq RecordID
           /\ IsFiniteSet(Asked(guilds)) /\ Cardinality(Asked(guilds)) \in 0..MaxRecords
           /\ Cardinality(Asked(guilds)) = 0 <=> Asked(guilds) = {}
<1>1. Asked(guilds) \subseteq 1..lastID /\ lastID \in 0..MaxRecords
  BY DEF Asked, IDs, HistoryTypeOK
<1>2. Asked(guilds) \subseteq RecordID
  BY <1>1, RecordBoundAssumption DEF RecordID
<1>3. IsFiniteSet(RecordID) /\ Cardinality(RecordID) = MaxRecords
  BY RecordBoundAssumption, FS_Interval DEF RecordID
<1>4. /\ IsFiniteSet(Asked(guilds)) /\ Cardinality(Asked(guilds)) <= MaxRecords
      /\ Cardinality(Asked(guilds)) \in Nat
  BY <1>2, <1>3, FS_Subset, FS_CardinalityType
<1> QED BY <1>1, <1>2, <1>4, FS_EmptySet, RecordBoundAssumption

\* A place is a number.
LEMMA PlaceType ==
    ASSUME NEW ids, IsFiniteSet(ids), NEW k
    PROVE  Place(k, ids) \in Nat /\ Place(k, ids) <= Cardinality(ids)
<1>1. {j \in ids : j <= k} \in SUBSET ids
  OBVIOUS
<1> QED BY <1>1, FS_Subset, FS_CardinalityType DEF Place

\* A reader is one who reads, or not.
LEMMA ReaderOf ==
    ASSUME HistoryTypeOK, NEW r \in Readers
    PROVE  /\ reader[r] # NoReader <=> reader[r] \in Reader
           /\ reader[r].pc \in {"history", "search", "done"} => reader[r] \in Reader
           /\ reader[r] \in Reader => reader[r].page \in Nat \ {0} /\ reader[r].size \in Nat \ {0}
<1>1. reader[r] \in Reader \cup {NoReader}
  BY DEF HistoryTypeOK
<1>2. \A x \in Reader : x # NoReader /\ x.page \in Nat \ {0} /\ x.size \in Nat \ {0}
  BY PageSizeAssumption, RecordBoundAssumption DEF Reader, NoReader
<1> QED BY <1>1, <1>2 DEF NoReader

\* What is due and was not seen stands behind the pages that were read; nothing does at the
\* end.
MidPage == \A r \in Readers : reader[r] # NoReader =>
    \A k \in reader[r].due \ reader[r].seen :
        /\ reader[r].pc # "done"
        /\ k \in Found(r)
        /\ (reader[r].page - 1) * reader[r].size < Place(k, Found(r))

HistoryIInv == HistoryTypeOK /\ MidPage

\* At the start nobody reads.
LEMMA InitHistoryIInv == HistoryInit => HistoryIInv
BY RecordBoundAssumption DEF HistoryInit, HistoryIInv, HistoryTypeOK, MidPage, IDs

\* A new punishment has the greatest key, behind all pages that were read.
LEMMA AddPunishmentIInv ==
    ASSUME HistoryIInv, AddPunishment
    PROVE  HistoryIInv'
<1>1. PICK g \in HistoryGuilds : punishments' = punishments \cup {[id |-> lastID + 1, guild |-> g]}
  BY DEF AddPunishment
<1>2. lastID' = lastID + 1 /\ lastID' \in 1..MaxRecords
  BY RecordBoundAssumption DEF AddPunishment, HistoryIInv, HistoryTypeOK
<1>3. HistoryTypeOK'
  <2>1. punishments' \subseteq Row
    BY <1>1, <1>2 DEF HistoryIInv, HistoryTypeOK, Row, RecordID
  <2>2. IDs(punishments)' \subseteq 1..lastID'
    BY <1>1, <1>2 DEF IDs, HistoryIInv, HistoryTypeOK
  <2>3. lastID' \in 0..MaxRecords
    BY <1>2
  <2> QED BY <2>1, <2>2, <2>3 DEF HistoryIInv, HistoryTypeOK, AddPunishment, IDs
<1>4. ASSUME NEW r \in Readers, NEW k \in Found(r)
      PROVE  k \in Found(r)' /\ Place(k, Found(r)') = Place(k, Found(r))
  <2>1. Found(r) \subseteq Found(r)' /\ Found(r)' \subseteq Found(r) \cup {lastID + 1}
    BY <1>1 DEF Found, Asked, IDs, AddPunishment
  <2>2. k \in Nat /\ k <= lastID /\ lastID \in Nat
    BY <1>4, AskedTypes DEF HistoryIInv, HistoryTypeOK, Found
  <2>3. \A j : j <= k => (j \in Found(r) <=> j \in Found(r)')
    BY <2>1, <2>2
  <2> QED BY <2>1, <2>3, SamePlace
<1>5. MidPage'
  BY <1>4 DEF HistoryIInv, MidPage, AddPunishment
<1> QED BY <1>3, <1>5 DEF HistoryIInv

\* A deletion moves records of the guild up: what its readers may miss is no longer due.
LEMMA DeletePunishmentIInv ==
    ASSUME HistoryIInv, DeletePunishment
    PROVE  HistoryIInv'
<1>1. PICK row \in punishments :
         /\ punishments' = punishments \ {row}
         /\ reader' = [r \in Readers |->
                 IF reader[r] = NoReader \/ row.guild \notin reader[r].guilds THEN reader[r]
                 ELSE [reader[r] EXCEPT !.due = {k \in @ : k < row.id}]]
  BY DEF DeletePunishment
<1>2. ASSUME NEW r \in Readers, reader[r] # NoReader
      PROVE  /\ reader'[r] \in Reader /\ reader[r] \in Reader
             /\ reader'[r].pc = reader[r].pc /\ reader'[r].guilds = reader[r].guilds
             /\ reader'[r].page = reader[r].page /\ reader'[r].size = reader[r].size
             /\ reader'[r].seen = reader[r].seen
             /\ reader'[r].due \subseteq reader[r].due
             /\ row.guild \in reader[r].guilds => \A k \in reader'[r].due : k < row.id
  <2>1. reader[r] \in Reader
    BY <1>2, ReaderOf DEF HistoryIInv
  <2>2. CASE row.guild \notin reader[r].guilds
    BY <1>1, <2>1, <2>2
  <2>3. CASE row.guild \in reader[r].guilds
    <3>1. reader'[r] = [reader[r] EXCEPT !.due = {k \in reader[r].due : k < row.id}]
      BY <1>1, <1>2, <2>3
    <3> QED BY <2>1, <3>1 DEF Reader
  <2> QED BY <2>2, <2>3
<1>3. HistoryTypeOK'
  <2>1. reader' \in [Readers -> Reader \cup {NoReader}]
    BY <1>1, <1>2 DEF HistoryIInv, HistoryTypeOK
  <2>2. punishments' \subseteq Row /\ IDs(punishments)' \subseteq 1..lastID
    BY <1>1 DEF IDs, HistoryIInv, HistoryTypeOK
  <2> QED BY <2>1, <2>2 DEF HistoryIInv, HistoryTypeOK, DeletePunishment
<1>4. ASSUME NEW r \in Readers, reader[r] # NoReader, NEW k \in reader'[r].due, k \in Found(r)
      PROVE  k \in Found(r)' /\ Place(k, Found(r)') = Place(k, Found(r))
  <2>1. Found(r)' = IDs({x \in punishments \ {row} : x.guild \in reader[r].guilds})
    BY <1>1, <1>2, <1>4 DEF Found, Asked
  <2>2. CASE row.guild \notin reader[r].guilds
    <3>1. Found(r)' = Found(r)
      BY <2>1, <2>2 DEF Found, Asked, IDs
    <3> QED BY <1>4, <3>1
  <2>3. CASE row.guild \in reader[r].guilds
    <3>1. Found(r)' \subseteq Found(r) /\ Found(r) \ {row.id} \subseteq Found(r)'
      BY <2>1 DEF Found, Asked, IDs
    <3>2. k < row.id /\ k \in Nat /\ row.id \in Nat
      BY <1>1, <1>2, <1>4, <2>3, AskedTypes DEF HistoryIInv, HistoryTypeOK, Found, Row, RecordID
    <3>3. \A j : j <= k => (j \in Found(r) <=> j \in Found(r)')
      BY <3>1, <3>2
    <3> QED BY <1>4, <3>1, <3>2, <3>3, SamePlace
  <2> QED BY <2>2, <2>3
<1>5. MidPage'
  <2> SUFFICES ASSUME NEW r \in Readers, reader'[r] # NoReader, NEW k \in reader'[r].due \ reader'[r].seen
               PROVE  /\ reader'[r].pc # "done" /\ k \in Found(r)'
                      /\ (reader'[r].page - 1) * reader'[r].size < Place(k, Found(r)')
    BY DEF MidPage
  <2>1. reader[r] # NoReader
    BY <1>1
  <2>2. k \in reader[r].due \ reader[r].seen
    BY <1>2, <2>1
  <2>3. /\ reader[r].pc # "done" /\ k \in Found(r)
        /\ (reader[r].page - 1) * reader[r].size < Place(k, Found(r))
    BY <2>1, <2>2 DEF HistoryIInv, MidPage
  <2> QED BY <1>2, <1>4, <2>1, <2>3
<1> QED BY <1>3, <1>5 DEF HistoryIInv

\* One reader changes.
LEMMA OneReads ==
    ASSUME HistoryIInv, NEW r \in Readers, NEW local \in Reader \cup {NoReader},
           reader' = [reader EXCEPT ![r] = local], UNCHANGED <<punishments, lastID>>,
           local # NoReader =>
               \A k \in local.due \ local.seen :
                   /\ local.pc # "done"
                   /\ k \in Asked(local.guilds)
                   /\ (local.page - 1) * local.size < Place(k, Asked(local.guilds))
    PROVE  HistoryIInv'
<1>1. HistoryTypeOK'
  BY DEF HistoryIInv, HistoryTypeOK
<1>2. \A o \in Readers : reader'[o] = IF o = r THEN local ELSE reader[o]
  BY DEF HistoryIInv, HistoryTypeOK
<1>3. ASSUME NEW guilds PROVE Asked(guilds)' = Asked(guilds)
  BY DEF Asked
<1>4. MidPage'
  BY <1>2 DEF HistoryIInv, MidPage, Found, Asked
<1> QED BY <1>1, <1>4 DEF HistoryIInv

\* A reader begins before the first page.
LEMMA StartReadingIInv ==
    ASSUME HistoryIInv, NEW r \in Readers, NEW pc \in {"history", "search"},
           NEW guilds \in SUBSET HistoryGuilds,
           NEW size \in 1..MaxPageSize \cup {DefaultPageSize, SearchPageSize},
           StartReading(r, pc, guilds, size)
    PROVE  HistoryIInv'
<1>1. PICK local : local = [ pc |-> pc, guilds |-> guilds, size |-> size, page |-> 1, seen |-> {},
                             due |-> Asked(guilds) ]
  OBVIOUS
<1>2. 1 \in 1..MaxRecords + 1 /\ size \in Nat
  BY RecordBoundAssumption, PageSizeAssumption
<1>3. local \in Reader
  BY <1>1, <1>2, AskedTypes DEF Reader, HistoryIInv
<1>4. ASSUME NEW k \in Asked(guilds)
      PROVE  0 < Place(k, Asked(guilds))
  <2>1. IsFiniteSet(Asked(guilds)) /\ k \in Nat
    BY <1>4, AskedTypes DEF HistoryIInv, HistoryTypeOK
  <2>2. {j \in Asked(guilds) : j <= k} # {}
    BY <1>4, <2>1
  <2>3. IsFiniteSet({j \in Asked(guilds) : j <= k})
    BY <2>1, FS_Subset
  <2> QED BY <2>2, <2>3, FS_EmptySet, FS_CardinalityType DEF Place
<1>5. (1 - 1) * size = 0
  BY <1>2
<1>6. \A k \in local.due \ local.seen :
         /\ local.pc # "done"
         /\ k \in Asked(local.guilds)
         /\ (local.page - 1) * local.size < Place(k, Asked(local.guilds))
  BY <1>1, <1>4, <1>5
<1>7. reader' = [reader EXCEPT ![r] = local] /\ UNCHANGED <<punishments, lastID>>
  BY <1>1 DEF StartReading
<1> QED BY <1>3, <1>6, <1>7, OneReads

\* A page is shown, and what is behind it is still due.
LEMMA ShowPageIInv ==
    ASSUME HistoryIInv, NEW r \in Readers, reader[r] \in Reader, reader[r].pc # "done",
           NEW page \in 1..MaxRecords, ShowPage(r, page), UNCHANGED <<punishments, lastID>>,
           page < reader[r].page => page = TotalPages(Found(r), reader[r].size),
           page <= reader[r].page
    PROVE  HistoryIInv'
<1>1. PICK local : local = [reader[r] EXCEPT
             !.seen = @ \cup PageOf(Found(r), page, reader[r].size),
             !.page = page + 1,
             !.pc = IF page >= TotalPages(Found(r), reader[r].size) THEN "done" ELSE @]
  OBVIOUS
<1>2. reader' = [reader EXCEPT ![r] = local]
  BY <1>1 DEF ShowPage, HistoryIInv, HistoryTypeOK
<1>3. Found(r) = Asked(reader[r].guilds) /\ Found(r) \subseteq RecordID /\ IsFiniteSet(Found(r))
  BY AskedTypes DEF HistoryIInv, Found
<1>4. PageOf(Found(r), page, reader[r].size) \subseteq RecordID
  BY <1>3 DEF PageOf
<1>5. page + 1 \in 1..MaxRecords + 1 /\ page \in Nat
  BY RecordBoundAssumption
<1>6. /\ local \in Reader /\ local.size = reader[r].size /\ local.page = page + 1
      /\ local.due = reader[r].due /\ local.guilds = reader[r].guilds
      /\ local.seen = reader[r].seen \cup PageOf(Found(r), page, reader[r].size)
      /\ page >= TotalPages(Found(r), reader[r].size) <=> local.pc = "done"
  BY <1>1, <1>4, <1>5 DEF Reader
<1>7. ASSUME NEW k \in local.due \ local.seen
      PROVE  /\ local.pc # "done"
             /\ k \in Found(r)
             /\ page * reader[r].size < Place(k, Found(r))
  <2>1. k \in Found(r) /\ (reader[r].page - 1) * reader[r].size < Place(k, Found(r))
    BY <1>6, <1>7, ReaderOf DEF HistoryIInv, MidPage
  <2>2. Place(k, Found(r)) \in Nat /\ Place(k, Found(r)) <= Cardinality(Found(r))
    BY <1>3, PlaceType
  <2>3. reader[r].page \in Nat \ {0} /\ reader[r].size \in Nat \ {0}
    BY ReaderOf DEF HistoryIInv
  <2>4. (page - 1) * reader[r].size < Place(k, Found(r))
    <3>1. page - 1 \in Nat /\ reader[r].page - 1 \in Nat /\ page - 1 <= reader[r].page - 1
      BY <1>5, <2>3
    <3>2. (page - 1) * reader[r].size <= (reader[r].page - 1) * reader[r].size
      BY <2>3, <3>1, TimesGrows
    <3> QED BY <2>1, <2>2, <2>3, <3>1, <3>2, TimesGrows
  <2>5. page * reader[r].size < Place(k, Found(r))
    <3>1. ~ (Place(k, Found(r)) <= page * reader[r].size)
      BY <1>6, <1>7, <2>1, <2>4 DEF PageOf
    <3>2. page * reader[r].size \in Nat
      BY <1>5, <2>3, TimesGrows
    <3> QED BY <2>2, <3>1, <3>2
  <2>6. local.pc # "done"
    <3> SUFFICES ASSUME page >= TotalPages(Found(r), reader[r].size) PROVE FALSE
      BY <1>6
    <3>1. Cardinality(Found(r)) \in Nat
      BY <1>3, FS_CardinalityType
    <3>2. /\ TotalPages(Found(r), reader[r].size) \in Nat
          /\ Cardinality(Found(r)) <= TotalPages(Found(r), reader[r].size) * reader[r].size
      BY <2>3, <3>1, PagesHoldAll DEF TotalPages
    <3>3. TotalPages(Found(r), reader[r].size) * reader[r].size <= page * reader[r].size
      BY <1>5, <2>3, <3>2, TimesGrows
    <3>4. page * reader[r].size \in Nat /\ TotalPages(Found(r), reader[r].size) * reader[r].size \in Nat
      BY <1>5, <2>3, <3>2, TimesGrows
    <3> QED BY <2>2, <2>5, <3>1, <3>2, <3>3, <3>4
  <2> QED BY <2>1, <2>5, <2>6
<1>8. (page + 1) - 1 = page
  BY <1>5
<1> QED BY <1>2, <1>3, <1>6, <1>7, <1>8, OneReads

\* A reader that finds nothing where it is has seen all that is due.
LEMMA CloseReaderIInv ==
    ASSUME HistoryIInv, NEW r \in Readers, reader[r] \in Reader, CloseReader(r),
           UNCHANGED <<punishments, lastID>>,
           (reader[r].page - 1) * reader[r].size >= Cardinality(Found(r)) \/ Found(r) = {}
    PROVE  HistoryIInv'
<1>1. PICK local : local = [reader[r] EXCEPT !.pc = "done"]
  OBVIOUS
<1>2. reader' = [reader EXCEPT ![r] = local]
  BY <1>1 DEF CloseReader, HistoryIInv, HistoryTypeOK
<1>3. local \in Reader /\ local.due = reader[r].due /\ local.seen = reader[r].seen
  BY <1>1 DEF Reader
<1>4. ASSUME NEW k \in reader[r].due \ reader[r].seen PROVE FALSE
  <2>1. k \in Found(r) /\ (reader[r].page - 1) * reader[r].size < Place(k, Found(r))
    BY <1>4, ReaderOf DEF HistoryIInv, MidPage
  <2>2. IsFiniteSet(Found(r))
    BY AskedTypes DEF HistoryIInv, Found
  <2>3. /\ Place(k, Found(r)) \in Nat /\ Place(k, Found(r)) <= Cardinality(Found(r))
        /\ Cardinality(Found(r)) \in Nat
    BY <2>2, PlaceType, FS_CardinalityType
  <2>4. (reader[r].page - 1) * reader[r].size \in Int
    BY ReaderOf DEF HistoryIInv
  <2> QED BY <2>1, <2>3, <2>4
<1> QED BY <1>2, <1>3, <1>4, OneReads

\* Every step keeps the invariant.
LEMMA NextHistoryIInv == HistoryIInv /\ [HistoryNext]_historyVars => HistoryIInv'
<1> SUFFICES ASSUME HistoryIInv, [HistoryNext]_historyVars PROVE HistoryIInv'
  OBVIOUS
<1>1. CASE AddPunishment \/ DeletePunishment
  BY <1>1, AddPunishmentIInv, DeletePunishmentIInv
<1>2. ASSUME NEW r \in Readers, AskForHistory(r) PROVE HistoryIInv'
  <2>1. PICK g \in HistoryGuilds, asked \in 0..MaxPageSize + 1 : StartReading(r, "history", {g}, Size(asked))
    BY <1>2 DEF AskForHistory
  <2>2. Size(asked) \in 1..MaxPageSize \cup {DefaultPageSize, SearchPageSize}
    BY PageSizeAssumption DEF Size, Smaller
  <2> QED BY <2>1, <2>2, StartReadingIInv
<1>3. ASSUME NEW r \in Readers, HandlePunishSearchCommand(r) PROVE HistoryIInv'
  BY <1>3, StartReadingIInv DEF HandlePunishSearchCommand
<1>4. ASSUME NEW r \in Readers, reader[r].pc \in {"history", "search"}
      PROVE  /\ reader[r] \in Reader
             /\ reader[r].page \in Nat \ {0} /\ reader[r].size \in Nat \ {0}
             /\ Cardinality(Found(r)) \in 0..MaxRecords
             /\ Found(r) # {} => TotalPages(Found(r), reader[r].size) \in 1..MaxRecords
  <2>1. /\ reader[r] \in Reader
        /\ reader[r].page \in Nat \ {0} /\ reader[r].size \in Nat \ {0}
    BY <1>4, ReaderOf DEF HistoryIInv
  <2>2. Cardinality(Found(r)) \in 0..MaxRecords /\ (Found(r) # {} => Cardinality(Found(r)) > 0)
    BY AskedTypes, RecordBoundAssumption DEF Found, HistoryIInv
  <2>3. Found(r) # {} => TotalPages(Found(r), reader[r].size) \in 1..Cardinality(Found(r))
    <3>1. Cardinality(Found(r)) \in Nat
      BY <2>2, RecordBoundAssumption
    <3>2. Cardinality(Found(r)) > 0
             => (Cardinality(Found(r)) + reader[r].size - 1) \div reader[r].size \in 1..Cardinality(Found(r))
      BY <2>1, <3>1, PagesHoldAll
    <3> QED BY <2>2, <3>2 DEF TotalPages
  <2> QED BY <2>1, <2>2, <2>3, RecordBoundAssumption
<1>5. ASSUME NEW r \in Readers, GetPunishHistory(r) PROVE HistoryIInv'
  <2>1. reader[r].pc = "history" /\ UNCHANGED <<punishments, lastID>>
    BY <1>5 DEF GetPunishHistory
  <2>2. CASE (reader[r].page - 1) * reader[r].size >= Cardinality(Found(r))
    BY <1>4, <1>5, <2>1, <2>2, CloseReaderIInv DEF GetPunishHistory
  <2>3. CASE ~ ((reader[r].page - 1) * reader[r].size >= Cardinality(Found(r)))
    <3>1. reader[r].page \in 1..MaxRecords
      <4>1. /\ reader[r].page - 1 \in Nat /\ reader[r].size \in Nat \ {0}
            /\ Cardinality(Found(r)) \in 0..MaxRecords
        BY <1>4, <2>1
      <4>2. reader[r].page - 1 <= (reader[r].page - 1) * reader[r].size
        BY <4>1
      <4>3. (reader[r].page - 1) * reader[r].size < Cardinality(Found(r))
        BY <2>3, <4>1
      <4> QED BY <1>4, <2>1, <4>1, <4>2, <4>3, RecordBoundAssumption
    <3>2. ShowPage(r, reader[r].page)
      BY <1>5, <2>3 DEF GetPunishHistory
    <3>3. reader[r].pc # "done" /\ reader[r].page <= reader[r].page /\ ~ (reader[r].page < reader[r].page)
      BY <2>1, <3>1
    <3> QED BY <1>4, <2>1, <3>1, <3>2, <3>3, ShowPageIInv
  <2> QED BY <2>2, <2>3
<1>6. ASSUME NEW r \in Readers, DisplayPunishments(r) PROVE HistoryIInv'
  <2>1. reader[r].pc = "search" /\ UNCHANGED <<punishments, lastID>>
    BY <1>6 DEF DisplayPunishments
  <2>2. CASE Found(r) = {}
    BY <1>4, <1>6, <2>1, <2>2, CloseReaderIInv DEF DisplayPunishments
  <2>3. CASE Found(r) # {}
    <3>1. PICK page : page = Smaller(reader[r].page, TotalPages(Found(r), reader[r].size))
      OBVIOUS
    <3>2. /\ page \in 1..MaxRecords /\ page <= reader[r].page
          /\ page < reader[r].page => page = TotalPages(Found(r), reader[r].size)
      BY <1>4, <2>1, <2>3, <3>1, RecordBoundAssumption DEF Smaller
    <3>3. ShowPage(r, page)
      BY <1>6, <2>3, <3>1 DEF DisplayPunishments
    <3> QED BY <1>4, <2>1, <3>2, <3>3, ShowPageIInv
  <2> QED BY <2>2, <2>3
<1>7. ASSUME NEW r \in Readers, EndReading(r) PROVE HistoryIInv'
  BY <1>7, OneReads DEF EndReading
<1>8. CASE UNCHANGED historyVars
  BY <1>8 DEF historyVars, HistoryIInv, HistoryTypeOK, MidPage, Found, Asked, IDs
<1> QED BY <1>1, <1>2, <1>3, <1>5, <1>6, <1>7, <1>8 DEF HistoryNext

\* A reader that has turned over all pages has seen every record that was there all the time and that
\* no deletion moved (GetPunishmentHistory, SearchPunishments).
THEOREM WholeHistoryIsRead == HistorySpec => []EveryRecordIsRead
<1>1. HistoryIInv => EveryRecordIsRead
  <2> SUFFICES ASSUME HistoryIInv, NEW r \in Readers, reader[r].pc = "done", NEW k \in reader[r].due \ reader[r].seen
               PROVE  FALSE
    BY DEF EveryRecordIsRead
  <2> QED BY ReaderOf DEF HistoryIInv, MidPage
<1> QED BY <1>1, InitHistoryIInv, NextHistoryIInv, PTL DEF HistorySpec

-----------------------------------------------------------------------------
(* The schedule: types                                                     *)

\* The count is below Target, but while the full scan that it brings is under way; no other
\* count gets into the file.
CountIsBelow ==
    /\ scanLock.count < Target
    /\ \A t \in ScanTasks : scan[t] # NoScan => scan[t].data.count < Target
    /\ activeScanCount < Target \/ (scan["daily"] # NoScan /\ scan["daily"].mode = "full")
    /\ scan["other"] # NoScan => scan["other"].mode # "count"

ScheduleIInv == ScheduleTypeOK /\ CountIsBelow

\* The count has room.
LEMMA TargetIsAhead == 0 < Target /\ 0 \in 0..Target /\ Target \in Nat
BY TargetAssumption

\* A scan begins with nothing read.
LEMMA NewScanTypes ==
    ASSUME NEW pc \in {"load", "config", "scan", "read", "open", "write", "counted"},
           NEW mode \in {"active", "full", "count"}, NEW whole \in BOOLEAN
    PROVE  /\ NewScan(pc, mode, whole) \in ScanLocals /\ NewScan(pc, mode, whole) # NoScan
           /\ NewScan(pc, mode, whole).mode = mode /\ NewScan(pc, mode, whole).data.count = 0
<1>1. NoLock \in LockData /\ NoLock.count = 0
  BY TargetAssumption DEF NoLock, LockData
<1> QED BY <1>1 DEF NewScan, ScanLocals, NoScan

\* A task scans, or not.
LEMMA ScanOf ==
    ASSUME ScheduleTypeOK, NEW t \in ScanTasks
    PROVE  /\ scan[t] # NoScan <=> scan[t] \in ScanLocals
           /\ scan[t] # NoScan <=> scan[t].pc # "none"
BY DEF ScheduleTypeOK, NoScan, ScanLocals

\* A task goes on, or ends.
LEMMA TaskGoesOn ==
    ASSUME ScheduleIInv, NEW t \in ScanTasks, NEW locals \in ScanLocals \cup {NoScan},
           scan' = [scan EXCEPT ![t] = locals], UNCHANGED disabled,
           scanLock' \in LockData, scanLock'.count < Target,
           activeScanCount' \in 0..Target, manualScans' \in 0..MaxManualScans,
           UNCHANGED scheduleFaults \/ ScheduleFault,
           locals # NoScan => /\ locals.data.count < Target
                              /\ t = "other" => locals.mode # "count",
           \/ activeScanCount' < Target
           \/ t = "daily" /\ locals # NoScan /\ locals.mode = "full"
           \/ t = "other" /\ activeScanCount' = activeScanCount
    PROVE  ScheduleIInv'
<1>1. \A o \in ScanTasks : scan'[o] = IF o = t THEN locals ELSE scan[o]
  BY DEF ScheduleIInv, ScheduleTypeOK
<1>2. scan' \in [ScanTasks -> ScanLocals \cup {NoScan}]
  BY DEF ScheduleIInv, ScheduleTypeOK
<1>3. scheduleFaults' \in 0..MaxScheduleFaults
  BY ScheduleBoundAssumption DEF ScheduleFault, ScheduleIInv, ScheduleTypeOK
<1>4. ScheduleTypeOK'
  BY <1>2, <1>3 DEF ScheduleIInv, ScheduleTypeOK
<1>5. "daily" \in ScanTasks /\ "other" \in ScanTasks
  BY DEF ScanTasks
<1>6. CountIsBelow'
  BY <1>1, <1>5 DEF ScheduleIInv, CountIsBelow
<1> QED BY <1>4, <1>6 DEF ScheduleIInv

\* What comes after a scan.
LEMMA EndedTypes ==
    ASSUME ScheduleIInv, NEW t \in ScanTasks, scan[t] # NoScan
    PROVE  /\ Ended(t) \in ScanLocals \cup {NoScan}
           /\ Ended(t) # NoScan => /\ t = "daily" /\ Ended(t).mode = scan[t].mode
                                   /\ Ended(t).data.count < Target
           /\ Ended(t) = NoScan => t = "other" \/ scan[t].mode = "count"
<1>1. scan[t].mode \in {"active", "full", "count"}
  BY ScanOf DEF ScheduleIInv, ScanLocals
<1>2. /\ NewScan("counted", scan[t].mode, TRUE) \in ScanLocals
      /\ NewScan("counted", scan[t].mode, TRUE) # NoScan
      /\ NewScan("counted", scan[t].mode, TRUE).mode = scan[t].mode
      /\ NewScan("counted", scan[t].mode, TRUE).data.count = 0
  BY <1>1, NewScanTypes, ZenonT(40)
<1>3. t \in {"other", "daily"}
  BY DEF ScanTasks
<1>4. CASE t = "daily" /\ scan[t].mode # "count"
  BY <1>2, <1>4, TargetIsAhead DEF Ended
<1>5. CASE ~ (t = "daily" /\ scan[t].mode # "count")
  BY <1>3, <1>5 DEF Ended
<1> QED BY <1>4, <1>5

\* A task that has just started.
LEMMA StartedTypes ==
    ASSUME disabled \in BOOLEAN
    PROVE  /\ Started \in [ScanTasks -> ScanLocals \cup {NoScan}]
           /\ \A t \in ScanTasks : Started[t] # NoScan => Started[t].data.count < Target
           /\ Started["other"] # NoScan => Started["other"].mode # "count"
<1>1. /\ NewScan("load", "full", TRUE) \in ScanLocals /\ NewScan("load", "full", TRUE).mode = "full"
      /\ NewScan("load", "full", TRUE).data.count = 0
  BY NewScanTypes
<1>2. ASSUME NEW t \in ScanTasks
      PROVE  /\ Started[t] \in ScanLocals \cup {NoScan}
             /\ Started[t] # NoScan => Started[t].data.count < Target /\ Started[t].mode = "full"
  <2>1. Started[t] \in {NewScan("load", "full", TRUE), NoScan}
    BY DEF Started
  <2> QED BY <1>1, <2>1, TargetIsAhead
<1>3. Started = [t \in ScanTasks |-> Started[t]] /\ "other" \in ScanTasks
  BY DEF Started, ScanTasks
<1> QED BY <1>2, <1>3

\* At the start no task scans.
LEMMA InitScheduleIInv == ScheduleInit => ScheduleIInv
<1> SUFFICES ASSUME ScheduleInit PROVE ScheduleIInv
  OBVIOUS
<1>1. scanLock \in LockData /\ scanLock.count = 0 /\ disabled \in BOOLEAN
  BY TargetAssumption DEF ScheduleInit, NoLock, LockData
<1>2. ScheduleTypeOK
  BY <1>1, StartedTypes, TargetAssumption, ScheduleBoundAssumption DEF ScheduleInit, ScheduleTypeOK
<1>3. CountIsBelow
  BY <1>1, StartedTypes, TargetAssumption DEF ScheduleInit, CountIsBelow
<1> QED BY <1>2, <1>3 DEF ScheduleIInv

\* The process reads the lock file.
LEMMA LoadScanLockIInv == ASSUME ScheduleIInv, LoadScanLock PROVE ScheduleIInv'
<1>1. "other" \in ScanTasks /\ InitialMode \in {"active", "full"}
  BY DEF ScanTasks, InitialMode
<1>2. ASSUME NEW mode \in {"active", "full"}, scan' = [scan EXCEPT !["other"] = NewScan("config", mode, TRUE)],
             UNCHANGED scheduleFaults \/ ScheduleFault,
             activeScanCount' \in {activeScanCount, 0, scanLock.count}
      PROVE  ScheduleIInv'
  <2>1. PICK locals : locals = NewScan("config", mode, TRUE)
    OBVIOUS
  <2>2. locals \in ScanLocals /\ locals.mode = mode /\ locals.data.count = 0
    BY <2>1, NewScanTypes, ZenonT(40)
  <2>3. activeScanCount' \in 0..Target
    BY <1>2, TargetAssumption DEF ScheduleIInv, ScheduleTypeOK, LockData
  <2>4. activeScanCount' < Target \/ activeScanCount' = activeScanCount
    BY <1>2, TargetAssumption DEF ScheduleIInv, CountIsBelow
  <2>5. scanLock' \in LockData /\ scanLock'.count < Target /\ manualScans' \in 0..MaxManualScans
        /\ UNCHANGED disabled
    BY DEF LoadScanLock, ScheduleIInv, ScheduleTypeOK, CountIsBelow
  <2> QED BY <1>1, <1>2, <2>1, <2>2, <2>3, <2>4, <2>5, TargetIsAhead, TaskGoesOn
<1> QED BY <1>1, <1>2 DEF LoadScanLock

\* The daily task begins.
LEMMA StartDailyScanIInv == ASSUME ScheduleIInv, StartDailyScan PROVE ScheduleIInv'
<1>1. PICK locals : locals = NewScan("config", "active", TRUE)
  OBVIOUS
<1>2. locals \in ScanLocals /\ locals.mode = "active" /\ locals.data.count = 0
  BY <1>1, NewScanTypes
<1>3. "daily" \in ScanTasks
  BY DEF ScanTasks
<1>4. activeScanCount < Target
  BY <1>3, ScanOf DEF StartDailyScan, ScanAt, ScheduleIInv, CountIsBelow
<1> QED BY <1>1, <1>2, <1>3, <1>4, TargetIsAhead, TaskGoesOn DEF StartDailyScan, ScheduleIInv,
   ScheduleTypeOK, CountIsBelow

\* A scan is started by a command.
LEMMA StartManualScanIInv == ASSUME ScheduleIInv, StartManualScan PROVE ScheduleIInv'
<1>1. PICK mode \in {"active", "full"}, whole \in BOOLEAN :
         scan' = [scan EXCEPT !["other"] = NewScan("config", mode, whole)]
  BY DEF StartManualScan
<1>2. PICK locals : locals = NewScan("config", mode, whole)
  OBVIOUS
<1>3. locals \in ScanLocals /\ locals.mode = mode /\ locals.data.count = 0
  BY <1>2, NewScanTypes
<1>4. "other" \in ScanTasks /\ manualScans' \in 0..MaxManualScans
  BY ScheduleBoundAssumption DEF ScanTasks, StartManualScan, ScheduleIInv, ScheduleTypeOK
<1> QED BY <1>1, <1>2, <1>3, <1>4, TargetIsAhead, TaskGoesOn DEF StartManualScan, ScheduleIInv,
   ScheduleTypeOK, CountIsBelow

\* The daily task counts, and turns the count over at Target.
LEMMA CountDailyScanIInv == ASSUME ScheduleIInv, CountDailyScan PROVE ScheduleIInv'
<1>1. "daily" \in ScanTasks /\ scan["daily"] # NoScan
  BY ScanOf DEF ScanTasks, CountDailyScan, ScanAt, ScheduleIInv
<1>2. PICK config : config = NewScan("config", "full", TRUE)
  OBVIOUS
<1>3. config \in ScanLocals /\ config # NoScan /\ config.mode = "full" /\ config.data.count = 0
  BY <1>2, NewScanTypes
<1>4. PICK read : read = NewScan("read", "count", TRUE)
  OBVIOUS
<1>5. read \in ScanLocals /\ read.data.count = 0
  BY <1>4, NewScanTypes
<1>6. /\ scanLock' \in LockData /\ scanLock'.count < Target /\ manualScans' \in 0..MaxManualScans
      /\ UNCHANGED <<disabled, scheduleFaults>>
  BY DEF CountDailyScan, ScheduleIInv, ScheduleTypeOK, CountIsBelow
<1>7. CASE scan["daily"].mode # "active"
  <2>1. activeScanCount' = 0 /\ scan' = [scan EXCEPT !["daily"] = read]
    BY <1>4, <1>7 DEF CountDailyScan
  <2> QED BY <1>1, <1>5, <1>6, <2>1, TargetIsAhead, TaskGoesOn
<1>8. CASE scan["daily"].mode = "active"
  <2>1. activeScanCount \in Nat /\ activeScanCount < Target
    BY <1>8, TargetAssumption DEF ScheduleIInv, ScheduleTypeOK, CountIsBelow
  <2>2. activeScanCount' = activeScanCount + 1 /\ activeScanCount' \in 0..Target
    BY <1>8, <2>1, TargetAssumption DEF CountDailyScan
  <2>3. CASE EnoughActiveScans(activeScanCount + 1)
    <3>1. scan' = [scan EXCEPT !["daily"] = config]
      BY <1>2, <1>8, <2>3 DEF CountDailyScan
    <3> QED BY <1>1, <1>3, <1>6, <2>2, <3>1, TargetIsAhead, TaskGoesOn
  <2>4. CASE ~ EnoughActiveScans(activeScanCount + 1)
    <3>1. scan' = [scan EXCEPT !["daily"] = read]
      BY <1>4, <1>8, <2>4 DEF CountDailyScan
    <3>2. activeScanCount' < Target
      BY <2>1, <2>2, <2>4, TargetIsAhead DEF EnoughActiveScans
    <3> QED BY <1>1, <1>5, <1>6, <2>2, <3>1, <3>2, TargetIsAhead, TaskGoesOn
  <2> QED BY <2>3, <2>4
<1> QED BY <1>7, <1>8

\* A task ends, and the daily one may still have to count.
LEMMA EndScanIInv ==
    ASSUME ScheduleIInv, NEW t \in ScanTasks, scan[t] # NoScan, EndScan(t),
           UNCHANGED <<disabled, activeScanCount, manualScans>>,
           UNCHANGED scheduleFaults \/ ScheduleFault,
           scanLock' \in LockData, scanLock'.count < Target
    PROVE  ScheduleIInv'
<1>1. PICK locals : locals = Ended(t)
  OBVIOUS
<1>2. /\ locals \in ScanLocals \cup {NoScan}
      /\ locals # NoScan => t = "daily" /\ locals.mode = scan[t].mode /\ locals.data.count < Target
      /\ locals = NoScan => t = "other" \/ scan[t].mode = "count"
  BY <1>1, EndedTypes
<1>3. t \in {"other", "daily"} /\ activeScanCount' = activeScanCount
  BY DEF ScanTasks
<1>4. \/ activeScanCount' < Target
      \/ t = "daily" /\ locals # NoScan /\ locals.mode = "full"
      \/ t = "other" /\ activeScanCount' = activeScanCount
  BY <1>2, <1>3 DEF ScheduleIInv, CountIsBelow
<1>5. activeScanCount' \in 0..Target /\ manualScans' \in 0..MaxManualScans
  BY DEF ScheduleIInv, ScheduleTypeOK
<1>6. scan' = [scan EXCEPT ![t] = locals]
  BY <1>1 DEF EndScan
<1> QED BY <1>2, <1>4, <1>5, <1>6, TaskGoesOn

\* A task takes its next step.
LEMMA ContinueScanIInv ==
    ASSUME ScheduleIInv, NEW t \in ScanTasks, scan[t] # NoScan,
           NEW pc \in {"load", "config", "scan", "read", "open", "write", "counted"}, NEW data \in LockData,
           data.count < Target,
           scan' = [scan EXCEPT ![t] = [scan[t] EXCEPT !.pc = pc, !.data = data]],
           UNCHANGED <<disabled, activeScanCount, manualScans, scheduleFaults>>,
           scanLock' \in LockData, scanLock'.count < Target
    PROVE  ScheduleIInv'
<1>1. PICK locals : locals = [scan[t] EXCEPT !.pc = pc, !.data = data]
  OBVIOUS
<1>2. scan[t] \in ScanLocals
  BY ScanOf DEF ScheduleIInv
<1>3. locals \in ScanLocals /\ locals.mode = scan[t].mode /\ locals.data = data /\ locals # NoScan
  BY <1>1, <1>2 DEF ScanLocals, NoScan
<1>4. t \in {"other", "daily"} /\ activeScanCount' = activeScanCount
  BY DEF ScanTasks
<1>5. \/ activeScanCount' < Target
      \/ t = "daily" /\ locals # NoScan /\ locals.mode = "full"
      \/ t = "other" /\ activeScanCount' = activeScanCount
  BY <1>3, <1>4 DEF ScheduleIInv, CountIsBelow
<1>6. t = "other" => locals.mode # "count"
  BY <1>3 DEF ScheduleIInv, CountIsBelow
<1>7. activeScanCount' \in 0..Target /\ manualScans' \in 0..MaxManualScans
  BY DEF ScheduleIInv, ScheduleTypeOK
<1>8. scan' = [scan EXCEPT ![t] = locals]
  BY <1>1
<1> QED BY <1>3, <1>5, <1>6, <1>7, <1>8, TaskGoesOn

\* A task reads, scans or writes.
LEMMA ScanStepIInv ==
    ASSUME ScheduleIInv, NEW t \in ScanTasks, ScanStep(t)
    PROVE  ScheduleIInv'
<1>1. scan[t] # NoScan /\ scan[t] \in ScanLocals
  BY ScanOf DEF ScanStep, ReadTaskConfig, FinishScan, ReadScanLock, OpenScanLock, WriteScanLock,
     ScanAt, ScheduleIInv
<1>2. /\ scan[t].data \in LockData /\ scan[t].data.count < Target
      /\ scanLock \in LockData /\ scanLock.count < Target
      /\ scan[t].mode \in {"active", "full", "count"}
  BY <1>1 DEF ScheduleIInv, ScheduleTypeOK, CountIsBelow, ScanLocals
<1>3. NoLock \in LockData /\ NoLock.count < Target
  BY TargetAssumption DEF NoLock, LockData
<1>4. ASSUME NEW pc, ContinueScan(t, pc)
      PROVE  scan' = [scan EXCEPT ![t] = [scan[t] EXCEPT !.pc = pc, !.data = scan[t].data]]
  <2>1. [scan[t] EXCEPT !.pc = pc] = [scan[t] EXCEPT !.pc = pc, !.data = scan[t].data]
    BY <1>1 DEF ScanLocals
  <2> QED BY <1>4, <2>1 DEF ContinueScan
<1>5. CASE ReadTaskConfig(t)
  BY <1>1, <1>2, <1>4, <1>5, ContinueScanIInv, EndScanIInv DEF ReadTaskConfig
<1>6. CASE FinishScan(t)
  BY <1>1, <1>2, <1>4, <1>6, ContinueScanIInv DEF FinishScan
<1>7. CASE ReadScanLock(t)
  <2>1. PICK data : data = IF scan[t].mode = "count" THEN [scanLock EXCEPT !.count = activeScanCount]
                           ELSE [scanLock EXCEPT !.scan_mode = scan[t].mode, !.recent = TRUE]
    OBVIOUS
  <2>2. data \in LockData /\ data.count < Target
    <3>1. CASE scan[t].mode = "count"
      <4>1. activeScanCount < Target /\ activeScanCount \in 0..Target
        BY <1>1, <3>1 DEF ScheduleIInv, ScheduleTypeOK, CountIsBelow, ScanTasks
      <4> QED BY <1>2, <2>1, <3>1, <4>1 DEF LockData
    <3>2. CASE scan[t].mode # "count"
      BY <1>2, <2>1, <3>2 DEF LockData
    <3> QED BY <3>1, <3>2
  <2>3. scan' = [scan EXCEPT ![t] = [scan[t] EXCEPT !.pc = "open", !.data = data]]
    BY <1>7, <2>1 DEF ReadScanLock
  <2> QED BY <1>1, <1>2, <1>7, <2>2, <2>3, ContinueScanIInv DEF ReadScanLock
<1>8. CASE OpenScanLock(t)
  <2>1. CASE ContinueScan(t, "write") /\ scanLock' = NoLock /\ UNCHANGED scheduleFaults
    <3>1. scan' = [scan EXCEPT ![t] = [scan[t] EXCEPT !.pc = "write", !.data = scan[t].data]]
      BY <1>4, <2>1
    <3>2. UNCHANGED <<disabled, activeScanCount, manualScans, scheduleFaults>>
      BY <1>8, <2>1 DEF OpenScanLock
    <3> QED BY <1>1, <1>2, <1>3, <2>1, <3>1, <3>2, ContinueScanIInv
  <2>2. CASE EndScan(t) /\ UNCHANGED scanLock /\ ScheduleFault
    BY <1>1, <1>2, <1>8, <2>2, EndScanIInv DEF OpenScanLock
  <2> QED BY <1>8, <2>1, <2>2 DEF OpenScanLock
<1>9. CASE WriteScanLock(t)
  BY <1>1, <1>2, <1>3, <1>9, EndScanIInv DEF WriteScanLock
<1> QED BY <1>5, <1>6, <1>7, <1>8, <1>9 DEF ScanStep

\* What is older has the same count.
LEMMA AgedTypes ==
    ASSUME NEW data \in LockData
    PROVE  Aged(data) \in LockData /\ Aged(data).count = data.count
BY DEF Aged, LockData

\* A day passes.
LEMMA DayPassesIInv == ASSUME ScheduleIInv, DayPasses PROVE ScheduleIInv'
<1>1. scanLock' \in LockData /\ scanLock'.count < Target
  BY AgedTypes DEF DayPasses, ScheduleIInv, ScheduleTypeOK, CountIsBelow
<1>2. ASSUME NEW t \in ScanTasks
      PROVE  /\ scan'[t] \in ScanLocals \cup {NoScan}
             /\ scan'[t] = NoScan <=> scan[t] = NoScan
             /\ scan[t] # NoScan => scan'[t].mode = scan[t].mode /\ scan'[t].data.count < Target
  <2>1. CASE scan[t] = NoScan
    BY <2>1 DEF DayPasses
  <2>2. CASE scan[t] # NoScan
    <3>1. scan[t] \in ScanLocals /\ scan[t].data \in LockData /\ scan[t].data.count < Target
      BY <2>2, ScanOf DEF ScheduleIInv, CountIsBelow, ScanLocals
    <3>2. PICK data \in LockData : data = Aged(scan[t].data) /\ data.count = scan[t].data.count
      BY <3>1, AgedTypes
    <3>3. scan'[t] = [scan[t] EXCEPT !.data = data]
      BY <2>2, <3>2 DEF DayPasses
    <3> QED BY <2>2, <3>1, <3>2, <3>3 DEF ScanLocals, NoScan
  <2> QED BY <2>1, <2>2
<1>3. scan' \in [ScanTasks -> ScanLocals \cup {NoScan}]
  BY <1>2 DEF DayPasses
<1>4. ScheduleTypeOK'
  BY <1>1, <1>3 DEF DayPasses, ScheduleIInv, ScheduleTypeOK
<1>5. CountIsBelow'
  BY <1>1, <1>2 DEF DayPasses, ScheduleIInv, CountIsBelow, ScanTasks
<1> QED BY <1>4, <1>5 DEF ScheduleIInv

\* The process begins again.
LEMMA RestartScheduleIInv == ASSUME ScheduleIInv, RestartSchedule PROVE ScheduleIInv'
<1>1. disabled \in BOOLEAN /\ scan' = Started
  BY DEF RestartSchedule, ScheduleIInv, ScheduleTypeOK
<1>2. scheduleFaults' \in 0..MaxScheduleFaults
  BY ScheduleBoundAssumption DEF RestartSchedule, ScheduleFault, ScheduleIInv, ScheduleTypeOK
<1>3. ScheduleTypeOK'
  BY <1>1, <1>2, StartedTypes, TargetAssumption DEF RestartSchedule, ScheduleIInv, ScheduleTypeOK
<1>4. CountIsBelow'
  BY <1>1, StartedTypes, TargetAssumption DEF RestartSchedule, ScheduleIInv, CountIsBelow
<1> QED BY <1>3, <1>4 DEF ScheduleIInv

\* Every step keeps the invariant.
LEMMA NextScheduleIInv == ScheduleIInv /\ [ScheduleNext]_scheduleVars => ScheduleIInv'
<1> SUFFICES ASSUME ScheduleIInv, [ScheduleNext]_scheduleVars PROVE ScheduleIInv'
  OBVIOUS
<1>1. CASE UNCHANGED scheduleVars
  BY <1>1 DEF scheduleVars, ScheduleIInv, ScheduleTypeOK, CountIsBelow
<1> QED BY <1>1, LoadScanLockIInv, StartDailyScanIInv, StartManualScanIInv, CountDailyScanIInv,
   ScanStepIInv, DayPassesIInv, RestartScheduleIInv DEF ScheduleNext

Spared(c, m) ==
    {k \in (topChannel \cup removed) \ cleaning[c] : k > m \/ k \in cleanerConfig.excluded}

ListsFit == \A c \in Cleanings : cleaning[c] # {} =>
    /\ cleanerConfig \in TopChannelConfig
    /\ cleaning[c] \subseteq 1..sent
    /\ cleaning[c] \cap cleanerConfig.excluded = {}

OldestFirst == \A c \in Cleanings : \A x, y \in cleaning[c] :
    \A d \in topChannel \ (cleaning[c] \cup cleanerConfig.excluded) : d > x => d > y

EnoughSpared == \A c \in Cleanings : \A m \in cleaning[c] :
    Cardinality(Spared(c, m)) >= cleanerConfig.limit - 1

TopIInv == TopTypeOK /\ ListsFit /\ OldestFirst /\ EnoughSpared
-----------------------------------------------------------------------------
\* A bounded set of numbers has a greatest one.
LEMMA Greatest ==
    ASSUME NEW N \in Nat, NEW S, S \subseteq 1..N, S # {}
    PROVE  \E m \in S : \A k \in S : k <= m
<1>1. PICK T : T = {N - k : k \in S}
  OBVIOUS
<1>2. T \subseteq Nat
  BY <1>1
<1> T # {}
  BY <1>1
<1>3. PICK t \in T : \A k \in T : t <= k
  BY <1>2, Least
<1>4. PICK m \in S : t = N - m
  BY <1>1
<1>5. \A k \in S : N - m <= N - k
  BY <1>1, <1>3, <1>4
<1> QED BY <1>5

\* The messages of a channel are finitely many.
LEMMA Numbered ==
    ASSUME NEW N \in Nat, NEW S, S \subseteq 1..N
    PROVE  /\ IsFiniteSet(S) /\ Cardinality(S) \in Nat
           /\ \A T \in SUBSET S : IsFiniteSet(T) /\ Cardinality(T) \in Nat /\ Cardinality(T) <= Cardinality(S)
<1>1. IsFiniteSet(1..N)
  BY FS_Interval
<1>2. IsFiniteSet(S)
  BY <1>1, FS_Subset
<1> QED BY <1>2, FS_Subset, FS_CardinalityType

\* The oldest n are at most n.
LEMMA OldestCount ==
    ASSUME NEW N \in Nat, NEW S, S \subseteq 1..N, NEW n \in Nat
    PROVE  /\ Oldest(n, S) \subseteq S
           /\ Cardinality(Oldest(n, S)) <= n
<1>1. Oldest(n, S) \subseteq S
  BY DEF Oldest
<1>2. CASE Oldest(n, S) = {}
  BY <1>2, FS_EmptySet
<1>3. CASE Oldest(n, S) # {}
  <2>1. PICK last \in Oldest(n, S) : \A k \in Oldest(n, S) : k <= last
    BY <1>1, <1>3, Greatest
  <2>2. PICK older : older = {k \in S : k < last}
    OBVIOUS
  <2>3. Cardinality(older) < n /\ last \in S
    BY <2>1, <2>2 DEF Oldest
  <2>4. Oldest(n, S) \ {last} \subseteq older
    <3>1. \A k \in S : k \in Nat
      OBVIOUS
    <3>2. last \in Nat /\ \A k \in Oldest(n, S) : k \in Nat
      BY <1>1, <2>1, <3>1
    <3>3. \A k \in Oldest(n, S) : k # last => k < last
      BY <2>1, <3>2
    <3> QED BY <1>1, <2>2, <3>3
  <2>5. IsFiniteSet(Oldest(n, S)) /\ Cardinality(older) \in Nat
        /\ Cardinality(Oldest(n, S) \ {last}) <= Cardinality(older)
    BY <1>1, <2>2, <2>4, Numbered
  <2>6. Cardinality(Oldest(n, S) \ {last}) = Cardinality(Oldest(n, S)) - 1
    BY <2>1, <2>5, FS_RemoveElement
  <2>7. Cardinality(Oldest(n, S)) \in Nat
    BY <2>5, FS_CardinalityType
  <2>8. PICK a, b : a = Cardinality(older) /\ b = Cardinality(Oldest(n, S))
    OBVIOUS
  <2>9. a \in Nat /\ b \in Nat /\ a < n /\ b - 1 <= a
    BY <2>3, <2>5, <2>6, <2>7, <2>8
  <2>10. b <= n
    BY <2>9
  <2> QED BY <1>1, <2>8, <2>10
<1> QED BY <1>1, <1>2, <1>3

\* Who is not among the oldest is newer than all of them.
LEMMA OldestAreOld ==
    ASSUME NEW N \in Nat, NEW S, S \subseteq 1..N, NEW n \in Nat,
           NEW d \in S \ Oldest(n, S), NEW x \in Oldest(n, S)
    PROVE  d > x
<1> SUFFICES ASSUME ~ (d > x) PROVE FALSE
  OBVIOUS
<1>1. d < x \/ d = x
  BY DEF Oldest
<1>2. {k \in S : k < d} \subseteq {k \in S : k < x}
  <2>1. d \in Nat /\ x \in Nat /\ \A k \in S : k \in Nat
    BY DEF Oldest
  <2>2. \A k \in S : k < d => k < x
    BY <1>1, <2>1
  <2> QED BY <2>2
<1>3. Cardinality({k \in S : k < d}) <= Cardinality({k \in S : k < x})
      /\ Cardinality({k \in S : k < d}) \in Nat /\ Cardinality({k \in S : k < x}) \in Nat
  <2>1. {k \in S : k < x} \subseteq 1..N
    OBVIOUS
  <2> QED BY <1>2, <2>1, Numbered
<1>4. Cardinality({k \in S : k < d}) < n
  BY <1>3 DEF Oldest
<1> QED BY <1>4 DEF Oldest

\* What is newer than one of the newest is one of them.
LEMMA NewestAreNew ==
    ASSUME NEW N \in Nat, NEW S, S \subseteq 1..N, NEW n \in Nat,
           NEW d \in S, NEW x \in Newest(n, S), d > x
    PROVE  d \in Newest(n, S)
<1>1. {k \in S : k > d} \subseteq {k \in S : k > x}
  <2>1. d \in Nat /\ x \in Nat /\ \A k \in S : k \in Nat
    BY DEF Newest
  <2>2. \A k \in S : k > d => k > x
    BY <2>1
  <2> QED BY <2>2
<1>2. Cardinality({k \in S : k > d}) <= Cardinality({k \in S : k > x})
      /\ Cardinality({k \in S : k > d}) \in Nat /\ Cardinality({k \in S : k > x}) \in Nat
  <2>1. {k \in S : k > x} \subseteq 1..N
    OBVIOUS
  <2> QED BY <1>1, <2>1, Numbered
<1> QED BY <1>2 DEF Newest

\* What a cleaning lists leaves the newest of what it has read.
LEMMA DoomedLeaves ==
    ASSUME NEW N \in Nat, NEW fetched, fetched \subseteq 1..N, cleanerConfig \in TopChannelConfig
    PROVE  /\ Doomed(fetched) \subseteq fetched \ cleanerConfig.excluded
           /\ Doomed(fetched) # {} =>
                 Cardinality(fetched \ Doomed(fetched)) >= cleanerConfig.limit - 1
           /\ \A x \in Doomed(fetched), d \in fetched \ (Doomed(fetched) \cup cleanerConfig.excluded) : d > x
<1>1. PICK limit \in Nat : limit = cleanerConfig.limit
  BY LimitsAssumption DEF TopChannelConfig
<1>2. PICK rest : rest \subseteq 1..N /\ rest = fetched \ cleanerConfig.excluded
  OBVIOUS
<1>3. IsFiniteSet(fetched) /\ Cardinality(fetched) \in Nat
  BY Numbered
<1>4. CASE Cardinality(fetched) <= limit
  BY <1>1, <1>4 DEF Doomed
<1>5. CASE ~ (Cardinality(fetched) <= limit)
  <2>1. PICK n \in Nat : n = Cardinality(fetched) - limit + 1
    BY <1>3, <1>5
  <2>2. Doomed(fetched) = Oldest(n, rest)
    BY <1>1, <1>2, <1>5, <2>1 DEF Doomed, ToDelete
  <2>3. Oldest(n, rest) \subseteq rest /\ Cardinality(Oldest(n, rest)) <= n
    BY <1>2, OldestCount, Zenon
  <2>4. Cardinality(fetched \ Oldest(n, rest)) = Cardinality(fetched) - Cardinality(fetched \cap Oldest(n, rest))
    BY <1>3, FS_Difference
  <2>5. fetched \cap Oldest(n, rest) = Oldest(n, rest)
    BY <1>2, <2>3
  <2>6. Cardinality(Oldest(n, rest)) \in Nat
    BY <1>2, <2>3, Numbered, Zenon
  <2>7. Cardinality(fetched \ Doomed(fetched)) >= limit - 1
    <3>1. PICK a, b : a = Cardinality(fetched) /\ b = Cardinality(Oldest(n, rest))
      OBVIOUS
    <3>2. a \in Nat /\ b \in Nat /\ n = a - limit + 1 /\ b <= n
      BY <1>3, <2>1, <2>3, <2>6, <3>1
    <3>3. a - b >= limit - 1
      BY <3>2
    <3> QED BY <2>2, <2>4, <2>5, <3>1, <3>3
  <2>8. \A x \in Oldest(n, rest), d \in rest \ Oldest(n, rest) : d > x
    BY <1>2, OldestAreOld, Zenon
  <2> QED BY <1>1, <1>2, <2>2, <2>3, <2>7, <2>8
<1> QED BY <1>4, <1>5
-----------------------------------------------------------------------------
\* What the types say, one by one.
LEMMA TopParts ==
    ASSUME TopTypeOK
    PROVE  /\ topRow \in TopChannelConfig \cup {NoTopChannel}
           /\ topMemory \in TopChannelConfig \cup {NoTopChannel}
           /\ cleanerConfig \in TopChannelConfig \cup {NoTopChannel}
           /\ sent \in 0..MaxTopMessages
           /\ topChannel \subseteq 1..sent /\ removed \subseteq 1..sent
           /\ agedUpTo \in 0..sent
           /\ topEvents \subseteq (1..sent) \X (TopContent \cup {"to correct"})
           /\ cleaning \in [Cleanings -> SUBSET TopMessage]
           /\ registrations \in 0..MaxRegistrations
           /\ topFaults \in 0..MaxTopFaults
<1>1. /\ {topRow, topMemory, cleanerConfig} \subseteq TopChannelConfig \cup {NoTopChannel}
      /\ sent \in 0..MaxTopMessages
      /\ topChannel \cup removed \subseteq 1..sent
      /\ agedUpTo \in 0..sent
      /\ topEvents \subseteq (1..sent) \X (TopContent \cup {"to correct"})
      /\ cleaning \in [Cleanings -> SUBSET TopMessage]
      /\ registrations \in 0..MaxRegistrations
      /\ topFaults \in 0..MaxTopFaults
  BY Zenon DEF TopTypeOK
<1> QED BY <1>1, Zenon

\* Messages are numbered.
LEMMA SentTypes ==
    ASSUME TopTypeOK
    PROVE  /\ sent \in Nat /\ 1..sent \subseteq TopMessage
           /\ topChannel \subseteq 1..sent /\ removed \subseteq 1..sent
<1>1. sent \in 0..MaxTopMessages
  BY TopParts
<1>2. sent \in Nat /\ 1..sent \subseteq TopMessage
  BY <1>1, TopBoundAssumption DEF TopMessage
<1> QED BY <1>2, TopParts

\* The counters stay within their bounds.
LEMMA TopCounters ==
    ASSUME TopTypeOK, TopFault \/ NoTopFault
    PROVE  topFaults' \in 0..MaxTopFaults
<1>1. topFaults \in 0..MaxTopFaults
  BY TopParts
<1> QED BY <1>1, TopBoundAssumption DEF TopFault, NoTopFault

\* No message is forgotten.
LEMMA Growing ==
    ASSUME TopTypeOK, sent' \in 0..MaxTopMessages
    PROVE  sent >= sent /\ (sent' >= sent => 1..sent \subseteq 1..sent' /\ 0..sent \subseteq 0..sent')
<1>1. sent \in 0..MaxTopMessages
  BY TopParts
<1> QED BY <1>1, TopBoundAssumption

\* A message is sent, or none.
LEMMA SendTypes ==
    ASSUME TopTypeOK, SendTopMessage \/ UNCHANGED <<sent, topChannel>>
    PROVE  /\ sent' \in 0..MaxTopMessages /\ sent' >= sent /\ 1..sent \subseteq 1..sent'
           /\ topChannel' \subseteq 1..sent'
           /\ topChannel \subseteq topChannel' /\ \A d \in topChannel' \ topChannel : d > sent
           /\ SendTopMessage => sent' \in 1..sent'
<1>1. sent \in 0..MaxTopMessages /\ topChannel \subseteq 1..sent
  BY TopParts
<1>2. CASE UNCHANGED <<sent, topChannel>>
  BY <1>1, <1>2, TopBoundAssumption DEF SendTopMessage
<1>3. CASE SendTopMessage
  <2>1. sent' = sent + 1 /\ sent < MaxTopMessages /\ topChannel' = topChannel \cup {sent'}
    BY <1>3 DEF SendTopMessage
  <2>2. /\ sent' \in 0..MaxTopMessages /\ sent' >= sent /\ 1..sent \subseteq 1..sent'
        /\ sent' \in 1..sent' /\ sent' > sent
    BY <1>1, <2>1, TopBoundAssumption
  <2> QED BY <1>1, <2>1, <2>2
<1> QED BY <1>2, <1>3

\* Lists that wait stay good while messages are sent, and deleted by others than cleanings.
LEMMA ListsKept ==
    ASSUME TopIInv, TopTypeOK', UNCHANGED <<cleanerConfig, cleaning>>, sent' >= sent,
           SomeCleaningWaits(Cleanings) => topChannel \cup removed \subseteq topChannel' \cup removed',
           \A d \in topChannel' \ topChannel : d > sent
    PROVE  TopIInv'
<1>a. sent' \in 0..MaxTopMessages /\ topChannel' \cup removed' \subseteq 1..sent'
  BY Zenon DEF TopTypeOK
<1>b. sent \in Nat
  BY SentTypes DEF TopIInv
<1>0. /\ sent \in Nat /\ sent' \in Nat /\ 1..sent \subseteq 1..sent'
      /\ topChannel' \subseteq 1..sent' /\ removed' \subseteq 1..sent'
  BY <1>a, <1>b, TopBoundAssumption
<1>1. ListsFit'
  BY <1>0 DEF TopIInv, ListsFit
<1>2. OldestFirst'
  <2> SUFFICES ASSUME NEW c \in Cleanings, NEW x \in cleaning[c], NEW y \in cleaning[c],
                      NEW d \in topChannel' \ (cleaning[c] \cup cleanerConfig.excluded), d > x
               PROVE  d > y
    BY DEF OldestFirst
  <2>1. CASE d \in topChannel
    BY <2>1 DEF TopIInv, OldestFirst
  <2>2. CASE d \notin topChannel
    <3>0. cleaning[c] \subseteq 1..sent
      BY DEF TopIInv, ListsFit
    <3>1. d > sent /\ y \in 1..sent /\ d \in Nat
      BY <1>0, <2>2, <3>0
    <3> QED BY <1>0, <3>1
  <2> QED BY <2>1, <2>2
<1>3. ASSUME NEW c \in Cleanings, NEW m \in cleaning[c]
      PROVE  Cardinality(Spared(c, m))' >= cleanerConfig.limit - 1
  <2>1. SomeCleaningWaits(Cleanings)
    BY <1>3 DEF SomeCleaningWaits
  <2>2. PICK before, after : before = Spared(c, m) /\ after = Spared(c, m)'
    OBVIOUS
  <2>3. before \subseteq after
    BY <2>1, <2>2 DEF Spared
  <2>4. after \subseteq 1..sent'
    BY <1>0, <2>2 DEF Spared
  <2>5. Cardinality(before) <= Cardinality(after) /\ Cardinality(before) \in Nat /\ Cardinality(after) \in Nat
    BY <1>0, <2>3, <2>4, Numbered
  <2>6. Cardinality(before) >= cleanerConfig.limit - 1
    BY <2>2 DEF TopIInv, EnoughSpared
  <2>7. cleanerConfig.limit \in Nat
    BY <1>3, LimitsAssumption DEF TopIInv, ListsFit, TopChannelConfig
  <2> QED BY <2>2, <2>5, <2>6, <2>7
<1> QED BY <1>1, <1>2, <1>3 DEF TopIInv, EnoughSpared

\* The types of the next state, one by one.
LEMMA TopTypesThen ==
    ASSUME topRow' \in TopChannelConfig \cup {NoTopChannel},
           topMemory' \in TopChannelConfig \cup {NoTopChannel},
           cleanerConfig' \in TopChannelConfig \cup {NoTopChannel},
           sent' \in 0..MaxTopMessages,
           topChannel' \subseteq 1..sent', removed' \subseteq 1..sent',
           agedUpTo' \in 0..sent',
           topEvents' \subseteq (1..sent') \X (TopContent \cup {"to correct"}),
           cleaning' \in [Cleanings -> SUBSET TopMessage],
           registrations' \in 0..MaxRegistrations,
           topFaults' \in 0..MaxTopFaults
    PROVE  TopTypeOK'
<1>1. {topRow', topMemory', cleanerConfig'} \subseteq TopChannelConfig \cup {NoTopChannel}
      /\ topChannel' \cup removed' \subseteq 1..sent'
  BY Zenon
<1> QED BY <1>1, Zenon DEF TopTypeOK

\* Nothing is in the channel at first.
LEMMA InitTopIInv == TopInit => TopIInv
<1> SUFFICES ASSUME TopInit PROVE TopIInv
  OBVIOUS
<1>1. topRow \in TopChannelConfig \cup {NoTopChannel}
  <2>1. [limit : Limits, excluded : {{}}] \subseteq TopChannelConfig
    BY DEF TopChannelConfig
  <2> QED BY <2>1, Zenon DEF TopInit
<1>2. /\ topMemory = topRow /\ cleanerConfig = topRow /\ sent = 0 /\ topChannel = {} /\ agedUpTo = 0
      /\ topEvents = {} /\ cleaning = [c \in Cleanings |-> {}] /\ removed = {}
      /\ registrations = 0 /\ topFaults = 0
  BY DEF TopInit
<1>3. /\ 0 \in 0..MaxTopMessages /\ 0 \in 0..MaxRegistrations /\ 0 \in 0..MaxTopFaults /\ 0 \in 0..0
  BY TopBoundAssumption
<1>4. cleaning \in [Cleanings -> SUBSET TopMessage] /\ \A c \in Cleanings : cleaning[c] = {}
  BY <1>2
<1>5. TopTypeOK
  BY <1>1, <1>2, <1>3, <1>4, Zenon DEF TopTypeOK
<1> QED BY <1>4, <1>5 DEF TopIInv, ListsFit, OldestFirst, EnoughSpared

\* A registration.
LEMMA RegisterTopChannelIInv ==
    ASSUME TopIInv, NEW limit \in Limits, NEW excluded \in {{}} \cup {{m} : m \in topChannel},
           RegisterTopChannel(limit, excluded)
    PROVE  TopIInv'
<1>1. /\ UNCHANGED <<cleanerConfig, sent, topChannel, agedUpTo, topEvents, cleaning, removed>>
      /\ registrations < MaxRegistrations /\ registrations' = registrations + 1
      /\ topRow' = [limit |-> limit, excluded |-> excluded]
      /\ topMemory' \in {topRow', topMemory} /\ (TopFault \/ NoTopFault)
  BY DEF RegisterTopChannel
<1>2. TopTypeOK
  BY DEF TopIInv
<1>3. excluded \in SUBSET TopMessage
  BY <1>2, SentTypes
<1>4. topRow' \in TopChannelConfig
  BY <1>1, <1>3 DEF TopChannelConfig
<1>5. topMemory' \in TopChannelConfig \cup {NoTopChannel}
  BY <1>1, <1>2, <1>4, TopParts, Zenon
<1>6. registrations' \in 0..MaxRegistrations
  <2>1. registrations \in 0..MaxRegistrations
    BY <1>2, TopParts
  <2> QED BY <1>1, <2>1, TopBoundAssumption
<1>7. topFaults' \in 0..MaxTopFaults
  BY <1>1, <1>2, TopCounters
<1>8. TopTypeOK'
  BY <1>1, <1>2, <1>4, <1>5, <1>6, <1>7, TopParts, TopTypesThen
<1>9. sent' >= sent
  BY <1>1, <1>2, SentTypes
<1> QED BY <1>1, <1>8, <1>9, ListsKept

\* What leaves the row, memory and the cleaner alone.
LEMMA EventStep ==
    ASSUME TopIInv, UNCHANGED <<topRow, topMemory, cleanerConfig, agedUpTo, cleaning, registrations>>,
           SendTopMessage \/ (sent' = sent /\ topChannel' \subseteq topChannel),
           removed' \subseteq 1..sent,
           SomeCleaningWaits(Cleanings) => topChannel \cup removed \subseteq topChannel' \cup removed',
           topEvents' \subseteq (1..sent') \X (TopContent \cup {"to correct"}),
           TopFault \/ NoTopFault
    PROVE  TopIInv'
<1>1. TopTypeOK
  BY DEF TopIInv
<1>2. /\ sent' \in 0..MaxTopMessages /\ sent' >= sent /\ 1..sent \subseteq 1..sent'
      /\ topChannel' \subseteq 1..sent' /\ \A d \in topChannel' \ topChannel : d > sent
  <2>1. CASE SendTopMessage
    BY <1>1, <2>1, SendTypes
  <2>2. CASE sent' = sent /\ topChannel' \subseteq topChannel
    <3>1. sent \in 0..MaxTopMessages /\ topChannel \subseteq 1..sent
      BY <1>1, TopParts
    <3>a. sent' \in 0..MaxTopMessages
      BY <2>2, <3>1, Zenon
    <3>b. sent >= sent /\ (sent' >= sent => 1..sent \subseteq 1..sent')
      BY <1>1, <3>a, Growing, Zenon
    <3>2. sent' >= sent /\ 1..sent \subseteq 1..sent'
      BY <2>2, <3>b, Zenon
    <3> QED BY <2>2, <3>1, <3>2, Zenon
  <2> QED BY <2>1, <2>2
<1>3. agedUpTo' \in 0..sent'
  <2>1. agedUpTo \in 0..sent /\ sent \in 0..MaxTopMessages
    BY <1>1, TopParts
  <2>2. sent' \in 0..MaxTopMessages /\ sent' >= sent /\ agedUpTo' = agedUpTo
    BY <1>2
  <2>3. 0..sent \subseteq 0..sent'
    BY <1>1, <2>2, Growing, Zenon
  <2> QED BY <2>1, <2>2, <2>3
<1>4. topFaults' \in 0..MaxTopFaults
  BY <1>1, TopCounters
<1>5. removed' \subseteq 1..sent'
  BY <1>2
<1>6. TopTypeOK'
  BY <1>1, <1>2, <1>3, <1>4, <1>5, TopParts, TopTypesThen
<1> QED BY <1>2, <1>6, ListsKept

\* An event names a message that was sent.
LEMMA EventOf ==
    ASSUME TopTypeOK, NEW m, NEW text, <<m, text>> \in topEvents
    PROVE  m \in 1..sent
<1>1. topEvents \subseteq (1..sent) \X (TopContent \cup {"to correct"})
  BY TopParts
<1> QED BY <1>1

\* What others delete stays on record while a list waits.
LEMMA RemoveKeeps ==
    ASSUME TopTypeOK, NEW m, Remove(m)
    PROVE  /\ topChannel' \subseteq topChannel /\ removed' \subseteq 1..sent
           /\ SomeCleaningWaits(Cleanings) => topChannel \cup removed \subseteq topChannel' \cup removed'
BY SentTypes DEF Remove

\* The handler deletes a message, or fails to.
LEMMA ModerateKeeps ==
    ASSUME TopTypeOK, NEW m, Moderate(m)
    PROVE  /\ topChannel' \subseteq topChannel /\ removed' \subseteq 1..sent
           /\ SomeCleaningWaits(Cleanings) => topChannel \cup removed \subseteq topChannel' \cup removed'
           /\ TopFault \/ NoTopFault
BY RemoveKeeps, SentTypes DEF Moderate

\* A handler takes its step, a member or a moderator one of theirs.
LEMMA HandlerIInv ==
    ASSUME TopIInv, NEW m \in TopMessage, NEW text \in TopContent,
           \/ MemberPostsInTop(text) \/ LeaveMessage(m, text)
           \/ DeleteTalk(m) \/ DeleteOriginal(m) \/ SendCorrection(m) \/ OthersDelete(m)
    PROVE  TopIInv'
<1>1. TopTypeOK /\ topEvents \subseteq (1..sent) \X (TopContent \cup {"to correct"})
  BY TopParts DEF TopIInv
<1>2. removed \subseteq 1..sent
  BY <1>1, SentTypes
<1>3. CASE MemberPostsInTop(text)
  <2>1. SendTopMessage /\ 1..sent \subseteq 1..sent' /\ sent' \in 1..sent'
    BY <1>1, <1>3, SendTypes DEF MemberPostsInTop
  <2>2. topEvents' = topEvents \cup {<<sent', text>>}
    BY <1>3 DEF MemberPostsInTop
  <2>3. topEvents' \subseteq (1..sent') \X (TopContent \cup {"to correct"})
    <3>1. (1..sent) \X (TopContent \cup {"to correct"}) \subseteq (1..sent') \X (TopContent \cup {"to correct"})
      BY <2>1
    <3>2. <<sent', text>> \in (1..sent') \X (TopContent \cup {"to correct"})
      BY <2>1
    <3> QED BY <1>1, <2>2, <3>1, <3>2, Zenon
  <2>4. /\ UNCHANGED <<topRow, topMemory, cleanerConfig, agedUpTo, cleaning, removed, registrations>>
        /\ NoTopFault /\ topChannel \subseteq topChannel'
    BY <1>3 DEF MemberPostsInTop, NoTopFault, SendTopMessage
  <2> QED BY <1>2, <2>1, <2>3, <2>4, EventStep
<1>4. CASE LeaveMessage(m, text)
  <2>1. /\ UNCHANGED <<topRow, topMemory, cleanerConfig, sent, topChannel, agedUpTo, cleaning, removed, registrations>>
        /\ NoTopFault /\ topEvents' \subseteq topEvents
    BY <1>4 DEF LeaveMessage, NoTopFault
  <2> QED BY <1>1, <1>2, <2>1, EventStep
<1>5. CASE DeleteTalk(m)
  <2>1. /\ UNCHANGED <<topRow, topMemory, cleanerConfig, sent, agedUpTo, cleaning, registrations>>
        /\ Moderate(m) /\ topEvents' \subseteq topEvents /\ <<m, "talk">> \in topEvents
    BY <1>5 DEF DeleteTalk
  <2>2. m \in 1..sent
    BY <1>1, <2>1, EventOf
  <2> QED BY <1>1, <2>1, <2>2, ModerateKeeps, EventStep
<1>6. CASE DeleteOriginal(m)
  <2>1. /\ UNCHANGED <<topRow, topMemory, cleanerConfig, sent, agedUpTo, cleaning, registrations>>
        /\ Moderate(m) /\ <<m, "channel link">> \in topEvents
        /\ topEvents' = (topEvents \ {<<m, "channel link">>}) \cup {<<m, "to correct">>}
    BY <1>6 DEF DeleteOriginal
  <2>2. m \in 1..sent
    BY <1>1, <2>1, EventOf
  <2>3. topEvents' \subseteq (1..sent') \X (TopContent \cup {"to correct"})
    <3>1. <<m, "to correct">> \in (1..sent) \X (TopContent \cup {"to correct"})
      BY <2>2
    <3>2. topEvents' \subseteq (1..sent) \X (TopContent \cup {"to correct"})
      BY <1>1, <2>1, <3>1, Zenon
    <3>3. sent' = sent
      BY <2>1
    <3> QED BY <3>2, <3>3
  <2> QED BY <1>1, <2>1, <2>2, <2>3, ModerateKeeps, EventStep
<1>7. CASE SendCorrection(m)
  <2>1. /\ UNCHANGED <<topRow, topMemory, cleanerConfig, agedUpTo, cleaning, removed, registrations>>
        /\ topEvents' \subseteq topEvents
        /\ SendTopMessage \/ UNCHANGED <<sent, topChannel>>
        /\ TopFault \/ NoTopFault
    BY <1>7 DEF SendCorrection
  <2>2. 1..sent \subseteq 1..sent' /\ topChannel \subseteq topChannel'
    BY <1>1, <2>1, SendTypes
  <2>3. topEvents' \subseteq (1..sent') \X (TopContent \cup {"to correct"})
    <3>1. (1..sent) \X (TopContent \cup {"to correct"}) \subseteq (1..sent') \X (TopContent \cup {"to correct"})
      BY <2>2
    <3> QED BY <1>1, <2>1, <3>1, Zenon
  <2> QED BY <1>2, <2>1, <2>2, <2>3, EventStep
<1>8. CASE OthersDelete(m)
  <2>1. /\ UNCHANGED <<topRow, topMemory, cleanerConfig, sent, agedUpTo, topEvents, cleaning, registrations>>
        /\ Remove(m) /\ NoTopFault
    BY <1>8 DEF OthersDelete, NoTopFault
  <2> QED BY <1>1, <2>1, RemoveKeeps, EventStep
<1> QED BY <1>3, <1>4, <1>5, <1>6, <1>7, <1>8

\* A cleaning lists the oldest messages it has read.
LEMMA FetchTopMessagesIInv ==
    ASSUME TopIInv, NEW c \in Cleanings, FetchTopMessages(c)
    PROVE  TopIInv'
<1>1. /\ UNCHANGED <<topRow, topMemory, cleanerConfig, sent, topChannel, agedUpTo, topEvents, removed, registrations>>
      /\ cleaning[c] = {} /\ cleanerConfig # NoTopChannel /\ (TopFault \/ NoTopFault)
      /\ cleaning' \in {cleaning, [cleaning EXCEPT ![c] = Doomed(Newest(CleanerWindow, topChannel))]}
  BY DEF FetchTopMessages
<1>2. /\ TopTypeOK /\ cleanerConfig \in TopChannelConfig
      /\ sent \in Nat /\ topChannel \subseteq 1..sent /\ removed \subseteq 1..sent /\ 1..sent \subseteq TopMessage
      /\ cleaning \in [Cleanings -> SUBSET TopMessage]
  BY <1>1, TopParts, SentTypes, Zenon DEF TopIInv
<1>3. PICK limit \in Nat : limit = cleanerConfig.limit
  BY <1>2, LimitsAssumption DEF TopChannelConfig
<1>4. PICK excluded : excluded = cleanerConfig.excluded
  OBVIOUS
<1>5. PICK fetched : fetched = Newest(CleanerWindow, topChannel) /\ fetched \subseteq topChannel
  BY DEF Newest
<1>6. PICK doomed :
         /\ doomed = Doomed(fetched) /\ doomed \subseteq fetched \ excluded
         /\ doomed # {} => Cardinality(fetched \ doomed) >= limit - 1
         /\ \A x \in doomed, d \in fetched \ (doomed \cup excluded) : d > x
  <2>1. fetched \subseteq 1..sent
    BY <1>2, <1>5
  <2>2. /\ Doomed(fetched) \subseteq fetched \ cleanerConfig.excluded
        /\ Doomed(fetched) # {} => Cardinality(fetched \ Doomed(fetched)) >= cleanerConfig.limit - 1
        /\ \A x \in Doomed(fetched), d \in fetched \ (Doomed(fetched) \cup cleanerConfig.excluded) : d > x
    BY <1>2, <2>1, DoomedLeaves
  <2>3. PICK doomed : doomed = Doomed(fetched)
    OBVIOUS
  <2>4. /\ doomed \subseteq fetched \ excluded
        /\ doomed # {} => Cardinality(fetched \ doomed) >= limit - 1
        /\ \A x \in doomed, d \in fetched \ (doomed \cup excluded) : d > x
    BY <1>3, <1>4, <2>2, <2>3
  <2> QED BY <2>3, <2>4, Zenon
<1>7. doomed \subseteq 1..sent
  BY <1>2, <1>5, <1>6
<1>8. cleaning' \in [Cleanings -> SUBSET TopMessage]
  BY <1>1, <1>2, <1>5, <1>6, <1>7
<1>9. \A o \in Cleanings : cleaning'[o] = cleaning[o] \/ (o = c /\ cleaning'[o] = doomed)
  BY <1>1, <1>2, <1>5, <1>6
<1>10. topFaults' \in 0..MaxTopFaults
  BY <1>1, <1>2, TopCounters
<1>11. TopTypeOK'
  BY <1>1, <1>2, <1>8, <1>10, TopParts, TopTypesThen
<1>12. ListsFit'
  BY <1>1, <1>2, <1>4, <1>6, <1>7, <1>9 DEF TopIInv, ListsFit
<1>13. OldestFirst'
  <2> SUFFICES ASSUME NEW o \in Cleanings, NEW x \in cleaning'[o], NEW y \in cleaning'[o],
                      NEW d \in topChannel \ (cleaning'[o] \cup excluded), d > x
               PROVE  d > y
    BY <1>1, <1>4 DEF OldestFirst
  <2>1. CASE cleaning'[o] = cleaning[o]
    BY <1>4, <2>1 DEF TopIInv, OldestFirst
  <2>2. CASE cleaning'[o] = doomed
    <3>1. x \in fetched
      BY <1>6, <2>2
    <3>2. d \in fetched
      BY <1>2, <1>5, <3>1, LimitsAssumption, NewestAreNew
    <3> QED BY <1>6, <2>2, <3>2
  <2> QED BY <1>9, <2>1, <2>2
<1>14. ASSUME NEW o \in Cleanings, NEW m \in cleaning'[o]
       PROVE  Cardinality(Spared(o, m)') >= limit - 1
  <2>1. CASE cleaning'[o] = cleaning[o]
    <3>1. Spared(o, m)' = Spared(o, m)
      BY <1>1, <2>1 DEF Spared
    <3> QED BY <1>3, <1>14, <2>1, <3>1 DEF TopIInv, EnoughSpared
  <2>2. CASE cleaning'[o] = doomed
    <3>1. PICK spared : spared = Spared(o, m)'
      OBVIOUS
    <3>2. ASSUME NEW k \in fetched \ doomed PROVE k \in spared
      <4>1. k \in topChannel /\ k \notin cleaning'[o]
        BY <1>5, <2>2, <3>2
      <4>2. k \in excluded \/ k > m
        BY <1>6, <1>14, <2>2, <3>2
      <4> QED BY <1>1, <1>4, <3>1, <4>1, <4>2 DEF Spared
    <3>3. spared \subseteq 1..sent
      BY <1>1, <1>2, <3>1 DEF Spared
    <3>4. /\ Cardinality(fetched \ doomed) <= Cardinality(spared)
          /\ Cardinality(fetched \ doomed) \in Nat /\ Cardinality(spared) \in Nat
      BY <1>2, <3>2, <3>3, Numbered
    <3> QED BY <1>6, <1>14, <2>2, <3>1, <3>4
  <2> QED BY <1>9, <2>1, <2>2
<1>15. EnoughSpared'
  BY <1>1, <1>3, <1>14 DEF EnoughSpared
<1> QED BY <1>11, <1>12, <1>13, <1>15 DEF TopIInv

\* What one cleaning deletes of what another spares, it makes up for by what it spares itself.
LEMMA BulkDeleteIInv ==
    ASSUME TopIInv, NEW c \in Cleanings, BulkDelete(c)
    PROVE  TopIInv'
<1>1. /\ UNCHANGED <<topRow, topMemory, cleanerConfig, sent, agedUpTo, topEvents, registrations>>
      /\ cleaning[c] # {} /\ cleaning' = [cleaning EXCEPT ![c] = {}]
      /\ removed' = IF SomeCleaningWaits(Cleanings \ {c}) THEN removed ELSE {}
      /\ topChannel' \in {topChannel, topChannel \ cleaning[c]}
      /\ TopFault \/ NoTopFault
  BY DEF BulkDelete
<1>2. /\ TopTypeOK /\ sent \in Nat /\ topChannel \subseteq 1..sent /\ removed \subseteq 1..sent
      /\ cleaning \in [Cleanings -> SUBSET TopMessage]
  BY TopParts, SentTypes, Zenon DEF TopIInv
<1>3. topChannel' \subseteq topChannel /\ removed' \subseteq 1..sent
  BY <1>1, <1>2
<1>4. /\ cleaning' \in [Cleanings -> SUBSET TopMessage] /\ cleaning'[c] = {}
      /\ \A o \in Cleanings : o # c => cleaning'[o] = cleaning[o]
  BY <1>1, <1>2
<1>5. TopTypeOK'
  <2>1. topFaults' \in 0..MaxTopFaults
    BY <1>1, <1>2, TopCounters
  <2>2. topChannel' \subseteq 1..sent'
    BY <1>1, <1>2, <1>3
  <2> QED BY <1>1, <1>2, <1>3, <1>4, <2>1, <2>2, TopParts, TopTypesThen
<1>6. PICK excluded : excluded = cleanerConfig.excluded
  OBVIOUS
<1>7. PICK limit \in Nat : limit = cleanerConfig.limit
  BY <1>1, LimitsAssumption DEF TopIInv, ListsFit, TopChannelConfig
<1>8. \A o \in Cleanings : cleaning[o] \subseteq 1..sent /\ cleaning[o] \cap excluded = {}
  BY <1>6 DEF TopIInv, ListsFit
<1>9. ListsFit'
  BY <1>1, <1>4 DEF TopIInv, ListsFit
<1>10. OldestFirst'
  <2> SUFFICES ASSUME NEW o \in Cleanings, NEW x \in cleaning'[o], NEW y \in cleaning'[o],
                      NEW d \in topChannel' \ (cleaning'[o] \cup cleanerConfig.excluded), d > x
               PROVE  d > y
    BY <1>1 DEF OldestFirst
  <2>1. o # c /\ cleaning'[o] = cleaning[o]
    BY <1>4
  <2> QED BY <1>3, <2>1 DEF TopIInv, OldestFirst
<1>11. ASSUME NEW o \in Cleanings, NEW m \in cleaning'[o]
       PROVE  Cardinality(Spared(o, m)') >= limit - 1
  <2>1. o # c /\ cleaning'[o] = cleaning[o] /\ m \in cleaning[o]
    BY <1>4, <1>11
  <2>2. removed' = removed
    BY <1>1, <2>1 DEF SomeCleaningWaits
  <2>3. PICK spared, now : spared = Spared(o, m) /\ now = Spared(o, m)'
    OBVIOUS
  <2>4. now \subseteq 1..sent
    BY <1>2, <1>3, <2>2, <2>3 DEF Spared
  <2>5. now = {k \in (topChannel' \cup removed) \ cleaning[o] : k > m \/ k \in excluded}
    BY <1>1, <1>6, <2>1, <2>2, <2>3 DEF Spared
  <2>6. CASE spared \cap cleaning[c] \subseteq removed
    <3>1. spared \subseteq now
      BY <1>1, <1>6, <2>3, <2>5, <2>6 DEF Spared
    <3>2. /\ Cardinality(spared) <= Cardinality(now)
          /\ Cardinality(spared) \in Nat /\ Cardinality(now) \in Nat
      BY <1>2, <2>4, <3>1, Numbered
    <3>3. Cardinality(spared) >= limit - 1
      BY <1>7, <2>1, <2>3 DEF TopIInv, EnoughSpared
    <3> QED BY <2>3, <3>2, <3>3
  <2>7. CASE ~ (spared \cap cleaning[c] \subseteq removed)
    <3>1. PICK d \in spared \cap cleaning[c] : d \notin removed
      BY <2>7
    <3>2. d \in topChannel /\ d \notin cleaning[o] /\ d \notin excluded /\ d > m
      BY <1>6, <1>8, <2>3, <3>1 DEF Spared
    <3>3. PICK made : made = Spared(c, d)
      OBVIOUS
    <3>4. ASSUME NEW k \in made PROVE k \in now
      <4>1. /\ k \in (topChannel \cup removed) \ cleaning[c] /\ (k > d \/ k \in excluded)
            /\ k \in topChannel' \cup removed
        BY <1>1, <1>6, <3>3, <3>4 DEF Spared
      <4>2. k \in Nat /\ d \in Nat /\ m \in Nat
        BY <1>2, <1>8, <2>1, <3>1, <4>1
      <4>3. k > m \/ k \in excluded
        BY <3>2, <4>1, <4>2
      <4>4. k \notin cleaning[o]
        <5>1. k \in excluded => k \notin cleaning[o]
          BY <1>8
        <5>2. k \in cleaning[o] => d > k
          BY <1>6, <2>1, <3>2 DEF TopIInv, OldestFirst
        <5> QED BY <4>1, <4>2, <5>1, <5>2
      <4> QED BY <2>5, <4>1, <4>3, <4>4
    <3>5. /\ Cardinality(made) <= Cardinality(now)
          /\ Cardinality(made) \in Nat /\ Cardinality(now) \in Nat
      BY <1>2, <2>4, <3>4, Numbered
    <3>6. Cardinality(made) >= limit - 1
      BY <1>7, <3>1, <3>3 DEF TopIInv, EnoughSpared
    <3> QED BY <2>3, <3>5, <3>6
  <2> QED BY <2>6, <2>7
<1>12. EnoughSpared'
  BY <1>1, <1>7, <1>11 DEF EnoughSpared
<1> QED BY <1>5, <1>9, <1>10, <1>12 DEF TopIInv

\* Time passes, or the process begins again, without a list.
LEMMA OtherTopIInv ==
    ASSUME TopIInv, FourteenDaysPass \/ TopRestart
    PROVE  TopIInv'
<1>1. /\ UNCHANGED <<topRow, sent, topChannel, registrations>>
      /\ agedUpTo' \in {agedUpTo, sent} /\ removed' \in {removed, {}}
      /\ topMemory' \in {topMemory, topRow} /\ cleanerConfig' \in {cleanerConfig, topRow}
      /\ topEvents' \subseteq topEvents /\ (TopFault \/ NoTopFault)
  BY DEF FourteenDaysPass, TopRestart, NoTopFault
<1>2. /\ TopTypeOK /\ sent \in 0..sent /\ removed \subseteq 1..sent
      /\ cleaning \in [Cleanings -> SUBSET TopMessage]
      /\ topEvents \subseteq (1..sent) \X (TopContent \cup {"to correct"})
  <2>1. TopTypeOK /\ sent \in Nat
    BY SentTypes DEF TopIInv
  <2>2. sent \in 0..sent
    BY <2>1
  <2> QED BY <2>1, <2>2, TopParts
<1>3. cleaning' \in [Cleanings -> SUBSET TopMessage] /\ \A c \in Cleanings : cleaning'[c] = {}
  <2>1. CASE FourteenDaysPass
    BY <1>2, <2>1 DEF FourteenDaysPass
  <2>2. CASE TopRestart
    BY <2>2 DEF TopRestart
  <2> QED BY <2>1, <2>2
<1>4. /\ agedUpTo' \in 0..sent' /\ removed' \subseteq 1..sent'
      /\ topEvents' \subseteq (1..sent') \X (TopContent \cup {"to correct"})
      /\ topMemory' \in TopChannelConfig \cup {NoTopChannel}
      /\ cleanerConfig' \in TopChannelConfig \cup {NoTopChannel}
  <2>1. agedUpTo \in 0..sent /\ topMemory \in TopChannelConfig \cup {NoTopChannel}
        /\ topRow \in TopChannelConfig \cup {NoTopChannel}
        /\ cleanerConfig \in TopChannelConfig \cup {NoTopChannel}
    BY <1>2, TopParts
  <2>2. sent' = sent
    BY <1>1
  <2>3. agedUpTo' \in 0..sent
    BY <1>1, <1>2, <2>1, Zenon
  <2>4. topMemory' \in TopChannelConfig \cup {NoTopChannel} /\ cleanerConfig' \in TopChannelConfig \cup {NoTopChannel}
    BY <1>1, <2>1, Zenon
  <2> QED BY <1>1, <1>2, <2>2, <2>3, <2>4
<1>5. topFaults' \in 0..MaxTopFaults
  BY <1>1, <1>2, TopCounters
<1>6. TopTypeOK'
  BY <1>1, <1>2, <1>3, <1>4, <1>5, TopParts, TopTypesThen
<1> QED BY <1>3, <1>6 DEF TopIInv, ListsFit, OldestFirst, EnoughSpared

\* Every step keeps the invariant.
LEMMA NextTopIInv == TopIInv /\ [TopNext]_topVars => TopIInv'
<1> SUFFICES ASSUME TopIInv, [TopNext]_topVars PROVE TopIInv'
  OBVIOUS
<1>1. ASSUME NEW limit \in Limits, NEW excluded \in {{}} \cup {{m} : m \in topChannel},
             RegisterTopChannel(limit, excluded)
      PROVE  TopIInv'
  BY <1>1, RegisterTopChannelIInv
<1>2. ASSUME NEW text \in TopContent, MemberPostsInTop(text) PROVE TopIInv'
  <2>1. sent' = sent + 1 /\ sent < MaxTopMessages /\ sent \in Nat
    BY <1>2, SentTypes DEF MemberPostsInTop, SendTopMessage, TopIInv
  <2>2. 1 \in TopMessage
    BY <2>1, TopBoundAssumption DEF TopMessage
  <2> QED BY <1>2, <2>2, HandlerIInv
<1>3. ASSUME NEW m \in TopMessage, NEW text \in TopContent, LeaveMessage(m, text) PROVE TopIInv'
  BY <1>3, HandlerIInv
<1>4. ASSUME NEW m \in TopMessage, DeleteTalk(m) \/ DeleteOriginal(m) \/ SendCorrection(m) \/ OthersDelete(m)
      PROVE  TopIInv'
  <2>1. "talk" \in TopContent
    BY DEF TopContent
  <2> QED BY <1>4, <2>1, HandlerIInv
<1>5. ASSUME NEW c \in Cleanings, CleanerStep(c) PROVE TopIInv'
  BY <1>5, FetchTopMessagesIInv, BulkDeleteIInv DEF CleanerStep
<1>6. CASE FourteenDaysPass \/ TopRestart
  BY <1>6, OtherTopIInv
<1>7. CASE UNCHANGED topVars
  <2>1. UNCHANGED <<topRow, topMemory, cleanerConfig, sent, topChannel, agedUpTo, topEvents,
                    cleaning, removed, registrations, topFaults>>
    BY <1>7 DEF topVars
  <2>2. NoTopFault
    BY <2>1 DEF NoTopFault
  <2> QED BY <2>1, <2>2, SentTypes, TopParts, EventStep DEF TopIInv
<1> QED BY <1>1, <1>2, <1>3, <1>4, <1>5, <1>6, <1>7 DEF TopNext

\* Top channels: every variable has its type.
THEOREM TopTypesHold == TopSpec => []TopTypeOK
<1>1. TopIInv => TopTypeOK
  BY DEF TopIInv
<1> QED BY <1>1, InitTopIInv, NextTopIInv, PTL DEF TopSpec

\* However many cleanings work on old lists, while messages are sent and deleted by others, a
\* cleaning takes no message that is one of the newest, limit - 1, of those that members,
\* moderators and the handler have left, or deleted since a list was made (cleanSingleChannel).
\* For the latter nothing makes up: of the messages that are left after all, it may be the newest.
THEOREM NewestMessagesSpared == TopSpec => CleaningsSpareTheNewest
<1>1. TopIInv /\ [TopNext]_topVars => [CleaningLeavesEnough]_topVars
  <2> SUFFICES ASSUME TopIInv, TopNext, NEW c \in Cleanings, NEW m \in topChannel \ topChannel',
                      cleaning[c] # {}, cleaning'[c] = {}
               PROVE  Cardinality({k \in topChannel' \cup removed : k > m \/ k \in cleanerConfig.excluded})
                          >= cleanerConfig.limit - 1
    BY DEF CleaningLeavesEnough
  <2>1. /\ sent \in Nat /\ topChannel \subseteq 1..sent /\ removed \subseteq 1..sent
        /\ cleaning \in [Cleanings -> SUBSET TopMessage]
    BY TopParts, SentTypes, Zenon DEF TopIInv
  <2>2. PICK o \in Cleanings : CleanerStep(o)
    BY DEF TopNext, RegisterTopChannel, MemberPostsInTop, LeaveMessage, DeleteTalk, DeleteOriginal,
       SendCorrection, OthersDelete, FourteenDaysPass, TopRestart
  <2>3. topChannel' = topChannel \ cleaning[c]
    <3>1. CASE FetchTopMessages(o)
      BY <3>1 DEF FetchTopMessages
    <3>2. CASE BulkDelete(o)
      <4>1. o = c
        BY <2>1, <3>2 DEF BulkDelete
      <4> QED BY <3>2, <4>1 DEF BulkDelete
    <3> QED BY <2>2, <3>1, <3>2 DEF CleanerStep
  <2>4. m \in cleaning[c]
    BY <2>3
  <2>5. PICK spared, left :
           /\ spared = Spared(c, m)
           /\ left = {k \in topChannel' \cup removed : k > m \/ k \in cleanerConfig.excluded}
    OBVIOUS
  <2>6. spared \subseteq left /\ left \subseteq 1..sent
    BY <2>1, <2>3, <2>5 DEF Spared
  <2>7. Cardinality(spared) <= Cardinality(left) /\ Cardinality(spared) \in Nat /\ Cardinality(left) \in Nat
    BY <2>1, <2>6, Numbered
  <2>8. Cardinality(spared) >= cleanerConfig.limit - 1
    BY <2>4, <2>5 DEF TopIInv, EnoughSpared
  <2>9. cleanerConfig.limit \in Nat
    BY LimitsAssumption DEF TopIInv, ListsFit, TopChannelConfig
  <2> QED BY <2>5, <2>7, <2>8, <2>9
<1> QED BY <1>1, InitTopIInv, NextTopIInv, PTL DEF TopSpec, CleaningsSpareTheNewest
-----------------------------------------------------------------------------
(* The parts side by side                                                  *)

\* Each part has its invariant, at work or at rest.
FilesIInv ==
    /\ subject \in Parts
    /\ ConfigIInv /\ BoardIInv /\ PushIInv /\ HistoryIInv /\ ScheduleIInv /\ TopIInv

\* It holds at the start.
LEMMA InitFilesIInv == Init => FilesIInv
BY InitConfigIInv, InitBoardIInv, InitPushIInv, InitHistoryIInv, InitScheduleIInv, InitTopIInv DEF
   Init, FilesIInv

\* A step of one part keeps its invariant, and leaves the others alone.
LEMMA NextFilesIInv == FilesIInv /\ [Next]_vars => FilesIInv'
<1> SUFFICES ASSUME FilesIInv, [Next]_vars PROVE FilesIInv'
  OBVIOUS
<1>1. subject' \in Parts
  BY DEF FilesIInv, Next, Step, vars
<1>2. /\ [ConfigNext]_configVars
      /\ [BoardNext]_boardVars
      /\ [PushNext]_pushVars
      /\ [HistoryNext]_historyVars
      /\ [ScheduleNext]_scheduleVars
      /\ [TopNext]_topVars
  BY DEF Next, Step, vars
<1> QED BY <1>1, <1>2, NextConfigIInv, NextBoardIInv, NextPushIInv, NextHistoryIInv,
   NextScheduleIInv, NextTopIInv DEF FilesIInv

\* Every variable of every part has its type.
THEOREM FileTypesHold == Spec => []TypeOK
<1>1. FilesIInv => TypeOK
  BY DEF FilesIInv, ConfigIInv, ConfigTypes, BoardIInv, PushIInv, HistoryIInv, ScheduleIInv,
     TopIInv, TypeOK
<1> QED BY <1>1, InitFilesIInv, NextFilesIInv, PTL DEF Spec
=============================================================================
