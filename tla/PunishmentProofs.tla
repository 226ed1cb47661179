--------------------------- MODULE PunishmentProofs ---------------------------
(***************************************************************************)
(* Type correctness of Punishment, and the theorems that a role given for  *)
(* a limited time is never forgotten, that the timer is never early and    *)
(* that a revocation takes back the level that was applied.                *)
(*                                                                         *)
(* OwedRolesTracked is not inductive: a record may list a role that the    *)
(* timer or a revocation has just taken away but not yet struck off, and   *)
(* such a listing protects no later grant of the same role.  The inductive *)
(* invariant IInv therefore asks for a tracker that is not Settled, and    *)
(* relates the local copies of a record, in the timer and in a revocation, *)
(* to the row they were read from.  The last two theorems are action       *)
(* properties; TimeInv and LevelInv say of each record when its roles are  *)
(* due and which level its number has.                                     *)
(***************************************************************************)
EXTENDS Punishment, FiniteSetTheorems, TLAPS

\* The timer's list is a list of roles the punishment added.
ListsItsRoles(f) == \A id \in DOMAIN f : f[id].rolesRemoveAt \subseteq f[id].tempRoles

\* A copy p of row id: the columns that no statement updates agree.
CopyOf(p, id) ==
    /\ id < nextID
    /\ id \in DOMAIN db =>
          /\ p.guild = db[id].guild
          /\ p.user = db[id].user
          /\ p.tempRoles = db[id].tempRoles

\* Only the timer writes roles_remove_at: what it read or computed is what the
\* row holds, except between a removal and the UPDATE that saves it.
SnapshotFresh ==
    /\ \A id \in DOMAIN snap :
          /\ CopyOf(snap[id], id)
          /\ snap[id].tempRoles # {}
          /\ id \in DOMAIN db /\ (timer.pc = "scan" \/ id # timer.id) =>
                db[id].rolesRemoveAt = snap[id].rolesRemoveAt
    /\ timer.pc = "idle" => DOMAIN snap = {}
    /\ timer.pc \in {"remove", "persist", "finish"} =>
          timer.work \subseteq snap[timer.id].tempRoles
    /\ timer.pc = "remove" => timer.work # {}
    /\ timer.pc \in {"remove", "finish"} /\ timer.id \in DOMAIN db =>
          db[timer.id].rolesRemoveAt = timer.work

RevocationCopies ==
    \A v \in Revokers : revoke[v].pc # "idle" => CopyOf(revoke[v].rec, revoke[v].id)

\* Row id is no reason to hold role r any more: the timer has taken r away and is
\* about to save that, or a revocation has and is about to delete the row.
Settled(id, r) ==
    \/ timer.pc = "persist" /\ timer.id = id /\ r \notin timer.work
    \/ \E v \in Revokers : revoke[v].pc = "delete" /\ revoke[v].id = id /\ r \notin revoke[v].failed

OwedSoundly ==
    \A t \in owed \ leaked :
        \/ \E id \in DOMAIN db : Tracks(id, t) /\ ~ Settled(id, t[3])
        \/ \E h \in Handlers : InFlight(h, t)

CopiesOK ==
    /\ ListsItsRoles(db)
    /\ ListsItsRoles(snap)
    /\ SnapshotFresh
    /\ RevocationCopies

IInv == TypeOK /\ CopiesOK /\ OwedSoundly
-----------------------------------------------------------------------------
\* The level number that getPunishmentLevel and getHighestPunishmentLevel pick
\* is one that the action configures.
LEMMA LevelNumberConfigured ==
    ASSUME NEW g \in Guilds, NEW a \in Actions, NEW count,
           DOMAIN PunishConfig[g][a] # {}
    PROVE  PunishConfig[g][a][LevelNumber(PunishConfig[g][a], count)] \in PunishLevel
<1> DEFINE data == PunishConfig[g][a]
<1>1. /\ data \in [DOMAIN data -> PunishLevel]
      /\ \E n \in DOMAIN data : \A m \in DOMAIN data : m <= n
  BY ConfigAssumption
<1>2. LevelNumber(data, count) \in DOMAIN data
  BY <1>1 DEF LevelNumber
<1> QED
  BY <1>1, <1>2

\* A handler moves on with locals of the right types.
LEMMA HandlerUpdateType ==
    ASSUME HandlersTypeOK, NEW h \in Handlers, NEW j \in PunJob,
           pun' = [pun EXCEPT ![h] = j],
           DOMAIN PunishConfig[j.guild][j.action] # {}
    PROVE  HandlersTypeOK'
<1>1. pun' \in [Handlers -> PunJob \cup {IdlePun}]
  BY DEF HandlersTypeOK
<1>2. ASSUME NEW i \in Handlers, pun'[i].pc # "idle"
      PROVE  DOMAIN PunishConfig[pun'[i].guild][pun'[i].action] # {}
  <2>1. CASE i = h
    BY <2>1 DEF HandlersTypeOK
  <2>2. CASE i # h
    BY <2>2, <1>2 DEF HandlersTypeOK
  <2> QED
    BY <2>1, <2>2
<1> QED
  BY <1>1, <1>2 DEF HandlersTypeOK

\* A handler that is done goes idle.
LEMMA HandlerIdleType ==
    ASSUME HandlersTypeOK, NEW h \in Handlers, pun' = [pun EXCEPT ![h] = IdlePun]
    PROVE  HandlersTypeOK'
<1>1. pun' \in [Handlers -> PunJob \cup {IdlePun}]
  BY DEF HandlersTypeOK
<1>2. ASSUME NEW i \in Handlers, pun'[i].pc # "idle"
      PROVE  DOMAIN PunishConfig[pun'[i].guild][pun'[i].action] # {}
  BY <1>2 DEF HandlersTypeOK, IdlePun
<1> QED
  BY <1>1, <1>2 DEF HandlersTypeOK

\* A handler at work has all its locals.
LEMMA BusyHandlerType ==
    ASSUME HandlersTypeOK, NEW h \in Handlers, pun[h].pc # "idle"
    PROVE  /\ pun[h] \in PunJob
           /\ DOMAIN PunishConfig[pun[h].guild][pun[h].action] # {}
  BY DEF HandlersTypeOK, IdlePun

\* The initial state has the right types.
LEMMA InitType == Init => TypeOK
<1> SUFFICES ASSUME Init PROVE TypeOK
  OBVIOUS
<1>1. IsRows(NoRows) /\ DOMAIN NoRows = {}
  BY DEF IsRows, NoRows
<1>2. roles \in [Member -> SUBSET Roles]
  BY ConfigAssumption DEF Init
<1>3. now \in 0..MaxTime /\ crashes \in 0..MaxCrashes
  BY BoundAssumption DEF Init
<1> QED
  BY <1>1, <1>2, <1>3 DEF Init, TypeOK, HandlersTypeOK, TimerTypeOK, IdleTimer, IdlePun, IdleRev

\* BeginPunish keeps the types.
LEMMA BeginPunishType ==
    ASSUME TypeOK, NEW h \in Handlers, NEW g \in Guilds, NEW u \in Users, NEW a \in Actions,
           NEW self \in BOOLEAN, BeginPunish(h, g, u, a, self)
    PROVE  TypeOK'
<1> DEFINE job == [pc |-> "count", guild |-> g, user |-> u, action |-> a,
                   level |-> NoLevel, tempRoles |-> {}, removeTime |-> 0]
<1>1. job \in PunJob
  BY DEF PunJob, NoLevel, PunishLevel
<1>2. HandlersTypeOK'
  <2>1. CASE UNCHANGED pun
    BY <2>1 DEF TypeOK, HandlersTypeOK
  <2>2. CASE /\ DOMAIN PunishConfig[g][a] # {}
             /\ pun' = [pun EXCEPT ![h] = job]
    BY <1>1, <2>2, HandlerUpdateType DEF TypeOK
  <2> QED
    BY <2>1, <2>2 DEF BeginPunish
<1>3. punishLocks' \in SUBSET Users
  BY DEF BeginPunish, TypeOK
<1> QED
  BY <1>2, <1>3 DEF BeginPunish, TypeOK, TimerTypeOK, discord, table, ticker, IsRows

\* DeterminePunishmentLevel keeps the types.
LEMMA DeterminePunishmentLevelType ==
    ASSUME TypeOK, NEW h \in Handlers, DeterminePunishmentLevel(h)
    PROVE  TypeOK'
<1> DEFINE level == PunishConfig[pun[h].guild][pun[h].action][
                      LevelNumber(PunishConfig[pun[h].guild][pun[h].action],
                                  GetTotalPunishmentCountByUser(pun[h].guild, pun[h].user))]
<1>1. /\ pun[h] \in PunJob
      /\ DOMAIN PunishConfig[pun[h].guild][pun[h].action] # {}
  BY BusyHandlerType DEF DeterminePunishmentLevel, TypeOK
<1>2. level \in PunishLevel
  <2> DEFINE count == GetTotalPunishmentCountByUser(pun[h].guild, pun[h].user)
  <2> HIDE DEF count
  <2>1. /\ pun[h].guild \in Guilds /\ pun[h].action \in Actions
    BY <1>1 DEF PunJob
  <2>2. PunishConfig[pun[h].guild][pun[h].action][
          LevelNumber(PunishConfig[pun[h].guild][pun[h].action], count)] \in PunishLevel
    BY <1>1, <2>1, LevelNumberConfigured
  <2> QED
    BY <2>2 DEF count
<1> HIDE DEF level
<1> DEFINE job == [pun[h] EXCEPT !.pc = "apply", !.level = level]
<1>3. pun' = [pun EXCEPT ![h] = job]
  BY DEF DeterminePunishmentLevel, level
<1>4. job \in PunJob /\ job.guild = pun[h].guild /\ job.action = pun[h].action
  BY <1>1, <1>2 DEF PunJob
<1> HIDE DEF job
<1>5. HandlersTypeOK'
  BY <1>1, <1>3, <1>4, HandlerUpdateType DEF TypeOK
<1> QED
  BY <1>5 DEF DeterminePunishmentLevel, TypeOK, TimerTypeOK, discord, table, ticker, IsRows

\* ApplyPunishmentLevel keeps the types.
LEMMA ApplyPunishmentLevelType ==
    ASSUME TypeOK, NEW h \in Handlers, ApplyPunishmentLevel(h)
    PROVE  TypeOK'
<1> DEFINE g == pun[h].guild
           u == pun[h].user
           level == pun[h].level
<1>1. /\ pun[h] \in PunJob
      /\ DOMAIN PunishConfig[g][pun[h].action] # {}
  BY BusyHandlerType DEF ApplyPunishmentLevel, TypeOK
<1>2. g \in Guilds /\ u \in Users /\ <<g, u>> \in Member /\ level.addRoleDays \in Nat
  BY <1>1 DEF PunJob, PunishLevel, Member
<1>3. PICK gone \in SUBSET Removed(level), added \in SUBSET Added(level),
            ban \in BOOLEAN :
        LET m == <<g, u>>
            outside == ban \/ m \in banned
            lost == IF outside THEN Roles ELSE gone \ added
        IN  /\ roles' = [roles EXCEPT ![m] = (@ \ lost) \cup added]
            /\ banned' = IF ban THEN banned \cup {m} ELSE banned
            /\ pun' = [pun EXCEPT ![h].pc = "insert", ![h].tempRoles = added,
                                  ![h].removeTime = now + level.addRoleDays]
            /\ owed' = (owed \ Triples(m[1], m[2], lost))
                          \cup Triples(m[1], m[2], Timed(level, added))
            /\ leaked' = leaked \ Triples(m[1], m[2], lost)
  BY ZenonT(40) DEF ApplyPunishmentLevel
<1> HIDE DEF g, u, level
<1>4. added \subseteq Roles
  BY <1>1, <1>3 DEF Added, PunJob, PunishLevel, level
<1> DEFINE job == [pun[h] EXCEPT !.pc = "insert", !.tempRoles = added,
                                 !.removeTime = now + level.addRoleDays]
<1>5. pun' = [pun EXCEPT ![h] = job]
  BY <1>3
<1>6. job \in PunJob /\ job.guild = g /\ job.action = pun[h].action
  <2>1. now + level.addRoleDays \in Nat
    BY <1>2, BoundAssumption DEF TypeOK
  <2> QED
    BY <1>1, <1>4, <2>1 DEF PunJob, g
<1> HIDE DEF job
<1>7. HandlersTypeOK'
  BY <1>1, <1>5, <1>6, HandlerUpdateType DEF TypeOK
<1>8. roles' \in [Member -> SUBSET Roles] /\ banned' \in SUBSET Member
  BY <1>2, <1>3, <1>4 DEF TypeOK
<1>9. owed' \in SUBSET (Guilds \X Users \X Roles) /\ leaked' \in SUBSET owed'
  BY <1>2, <1>3, <1>4 DEF TypeOK, Triples, Timed
<1> QED
  BY <1>7, <1>8, <1>9 DEF ApplyPunishmentLevel, TypeOK, TimerTypeOK, table, ticker, IsRows

\* AddPunishmentRecord keeps the types.
LEMMA AddPunishmentRecordType ==
    ASSUME TypeOK, NEW h \in Handlers, AddPunishmentRecord(h)
    PROVE  TypeOK'
<1> DEFINE j == pun[h]
           timed == Timed(j.level, j.tempRoles)
           row == [guild |-> j.guild, user |-> j.user, action |-> j.action,
                   timestamp |-> now, tempRoles |-> j.tempRoles,
                   rolesRemoveAt |-> timed, removeTime |-> j.removeTime,
                   status |-> "active", level |-> j.level, due |-> j.removeTime]
<1>1. j \in PunJob
  BY BusyHandlerType DEF AddPunishmentRecord, TypeOK
<1>2. timed \subseteq Roles
  BY <1>1 DEF PunJob, Timed
<1>3. row \in Record
  BY <1>1, <1>2 DEF PunJob, Record, TypeOK
<1> HIDE DEF row
<1>4. HandlersTypeOK'
  BY HandlerIdleType DEF AddPunishmentRecord, TypeOK
<1>5. CASE /\ db' = [id \in DOMAIN db \cup {nextID} |-> IF id = nextID THEN row ELSE db[id]]
           /\ nextID' = nextID + 1
           /\ UNCHANGED leaked
  <2>1. /\ IsRows(db')
        /\ \A id \in DOMAIN db' : id < nextID'
        /\ nextID' \in Nat \ {0}
    BY <1>3, <1>5 DEF TypeOK, IsRows
  <2> QED
    BY <1>4, <1>5, <2>1 DEF AddPunishmentRecord, TypeOK, TimerTypeOK, discord, ticker, IsRows
<1>6. CASE /\ leaked' = leaked \cup (Triples(j.guild, j.user, timed) \cap owed)
           /\ UNCHANGED table
  BY <1>4, <1>6 DEF AddPunishmentRecord, TypeOK, TimerTypeOK, discord, table, ticker, IsRows
<1> QED
  BY <1>5, <1>6 DEF AddPunishmentRecord, row

\* An UPDATE of roles_remove_at leaves the other columns and rows alone.
LEMMA RowUpdate ==
    ASSUME IsRows(db), NEW id, NEW S \in SUBSET Roles, NEW t \in Nat,
           RemoveExpiredRoleFromPunishment(id, S, t)
    PROVE  /\ id \in DOMAIN db /\ DOMAIN db' = DOMAIN db /\ IsRows(db')
           /\ db'[id].rolesRemoveAt = S
           /\ \A i \in DOMAIN db : /\ db'[i].tempRoles = db[i].tempRoles
                                   /\ db'[i].guild = db[i].guild
                                   /\ db'[i].user = db[i].user
                                   /\ db'[i].status = db[i].status
                                   /\ i # id => db'[i] = db[i]
<1> DEFINE row == [db[id] EXCEPT !.rolesRemoveAt = S, !.removeTime = t]
<1>1. id \in DOMAIN db /\ db' = [db EXCEPT ![id] = row]
  BY DEF RemoveExpiredRoleFromPunishment
<1>2. db[id] \in Record
  BY <1>1 DEF IsRows
<1>3. /\ row \in Record
      /\ row.rolesRemoveAt = S
      /\ row.tempRoles = db[id].tempRoles /\ row.guild = db[id].guild
      /\ row.user = db[id].user /\ row.status = db[id].status
  BY <1>2 DEF Record
<1> HIDE DEF row
<1> QED
  BY <1>1, <1>3 DEF IsRows

\* Dropping a record from the pass.
LEMMA NextRecordType ==
    ASSUME TypeOK, NEW id, NextRecord(id)
    PROVE  TimerTypeOK'
  BY DEF TypeOK, TimerTypeOK, IsRows, NextRecord, IdleTimer

\* ProcessPunishmentTimers keeps the types.
LEMMA ProcessPunishmentTimersType ==
    ASSUME TypeOK, ProcessPunishmentTimers
    PROVE  TypeOK'
<1>1. GetActivePunishments \subseteq DOMAIN db
  BY DEF GetActivePunishments
<1>2. IsRows(snap')
  BY <1>1 DEF TypeOK, IsRows, ProcessPunishmentTimers
<1>3. timer' = IdleTimer \/ timer' = [IdleTimer EXCEPT !.pc = "scan", !.clock = now]
  BY DEF ProcessPunishmentTimers
<1>4. now \in Nat
  BY BoundAssumption DEF TypeOK
<1>5. timer' \in [pc : {"idle", "scan"}, clock : Nat, id : Nat, work : SUBSET Roles, time : Nat]
  <2>1. CASE timer' = IdleTimer
    BY <2>1 DEF IdleTimer
  <2>2. CASE timer' = [pc |-> "scan", clock |-> now, id |-> 0, work |-> {}, time |-> 0]
    BY <2>2, <1>4
  <2> QED
    BY <1>3, <2>1, <2>2 DEF IdleTimer
<1>6. TimerTypeOK'
  BY <1>2, <1>5 DEF TimerTypeOK, IsRows
<1> QED
  BY <1>6 DEF ProcessPunishmentTimers, TypeOK, HandlersTypeOK, discord, table, IsRows

\* The days that matchTimeoutDays finds are days of the config.
LEMMA RebuildType ==
    ASSUME NEW p \in Record PROVE RebuildRolesRemoveAt(p) \subseteq Nat
<1> DEFINE data == PunishConfig[p.guild][p.action]
<1>1. data \in [DOMAIN data -> PunishLevel]
  BY ConfigAssumption DEF Record
<1> HIDE DEF data
<1>2. ASSUME NEW D \in SUBSET DOMAIN data PROVE PositiveDays(data, D) \subseteq Nat
  BY <1>1 DEF PositiveDays, PunishLevel
<1>3. ASSUME NEW S PROVE MatchTimeoutDays(S, data) \subseteq Nat
  <2> DEFINE D == {n \in DOMAIN data : Added(data[n]) = S}
  <2>1. D \in SUBSET DOMAIN data
    OBVIOUS
  <2>2. PositiveDays(data, D) \subseteq Nat /\ PositiveDays(data, DOMAIN data) \subseteq Nat
    BY <1>2, <2>1
  <2> QED
    BY <2>2 DEF MatchTimeoutDays
<1>4. p.timestamp \in Nat
  BY DEF Record
<1> QED
  BY <1>3, <1>4 DEF RebuildRolesRemoveAt, data

\* LoadRolesRemoveAt keeps the types.
LEMMA LoadRolesRemoveAtType ==
    ASSUME TypeOK, NEW id \in DOMAIN snap, LoadRolesRemoveAt(id)
    PROVE  TypeOK'
<1> DEFINE p == snap[id]
<1>1. p \in Record /\ id \in Nat
  BY DEF TypeOK, TimerTypeOK, IsRows
<1>2. TimerTypeOK' /\ IsRows(db') /\ DOMAIN db' = DOMAIN db
  <2>1. CASE NextRecord(id) /\ UNCHANGED db
    BY <2>1, NextRecordType DEF TypeOK, IsRows
  <2>2. CASE WorkOn(id, p.rolesRemoveAt, p.removeTime) /\ UNCHANGED db
    BY <1>1, <2>2 DEF TypeOK, TimerTypeOK, IsRows, WorkOn, Record
  <2>3. CASE \E t \in RebuildRolesRemoveAt(p) :
                /\ WorkOn(id, p.tempRoles, t)
                /\ RemoveExpiredRoleFromPunishment(id, p.tempRoles, t)
    <3>1. PICK t \in Nat : /\ WorkOn(id, p.tempRoles, t)
                           /\ RemoveExpiredRoleFromPunishment(id, p.tempRoles, t)
      BY <1>1, <2>3, RebuildType
    <3>2. p.tempRoles \in SUBSET Roles
      BY <1>1 DEF Record
    <3>3. TimerTypeOK'
      BY <1>1, <3>1, <3>2 DEF TypeOK, TimerTypeOK, IsRows, WorkOn
    <3> QED
      BY <3>1, <3>2, <3>3, RowUpdate DEF TypeOK
  <2> QED
    BY <2>1, <2>2, <2>3 DEF LoadRolesRemoveAt
<1> QED
  BY <1>2 DEF LoadRolesRemoveAt, TypeOK, HandlersTypeOK, discord

\* What remains is what was not taken away.
LEMMA RemainingRoles ==
    ASSUME NEW work, NEW time, NEW gone \in SUBSET Expired(work, time)
    PROVE  gone \subseteq work /\ Remaining(work, Expired(work, time), gone) = work \ gone
  BY DEF Remaining, Expired

\* RemoveExpiredRoles keeps the types.
LEMMA RemoveExpiredRolesType ==
    ASSUME TypeOK, RemoveExpiredRoles
    PROVE  TypeOK'
<1> DEFINE p == snap[timer.id]
           m == <<p.guild, p.user>>
           expired == Expired(timer.work, timer.time)
<1>1. p \in Record /\ m \in Member
  BY DEF RemoveExpiredRoles, TypeOK, TimerTypeOK, IsRows, Record, Member
<1>2. PICK gone \in SUBSET expired :
        /\ roles' = [roles EXCEPT ![m] = @ \ gone]
        /\ owed' = owed \ Triples(p.guild, p.user, gone)
        /\ leaked' = leaked \ Triples(p.guild, p.user, gone)
        /\ timer' = [timer EXCEPT !.work = Remaining(timer.work, expired, gone),
                                  !.pc = IF gone = {} THEN "finish" ELSE "persist"]
  BY DEF RemoveExpiredRoles
<1>3. TimerTypeOK'
  <2>1. Remaining(timer.work, expired, gone) = timer.work \ gone
    BY RemainingRoles
  <2> QED
    BY <1>2, <2>1 DEF RemoveExpiredRoles, TypeOK, TimerTypeOK
<1>4. roles' \in [Member -> SUBSET Roles]
  BY <1>1, <1>2 DEF TypeOK
<1>5. owed' \in SUBSET (Guilds \X Users \X Roles) /\ leaked' \in SUBSET owed'
  BY <1>2 DEF TypeOK
<1> QED
  BY <1>3, <1>4, <1>5 DEF RemoveExpiredRoles, TypeOK, HandlersTypeOK, table, IsRows

\* PersistRemainingRoles keeps the types.
LEMMA PersistRemainingRolesType ==
    ASSUME TypeOK, PersistRemainingRoles
    PROVE  TypeOK'
<1>1. TimerTypeOK' /\ IsRows(db') /\ DOMAIN db' = DOMAIN db
  <2>1. CASE NextRecord(timer.id) /\ UNCHANGED db
    BY <2>1, NextRecordType DEF TypeOK, IsRows
  <2>2. CASE /\ RemoveExpiredRoleFromPunishment(timer.id, timer.work, timer.time)
             /\ timer' = [timer EXCEPT !.pc = "finish"]
             /\ UNCHANGED snap
    <3>1. timer.work \in SUBSET Roles /\ timer.time \in Nat
      BY DEF TypeOK, TimerTypeOK
    <3>2. TimerTypeOK'
      BY <2>2 DEF PersistRemainingRoles, TypeOK, TimerTypeOK, IsRows
    <3> QED
      BY <2>2, <3>1, <3>2, RowUpdate DEF TypeOK
  <2> QED
    BY <2>1, <2>2 DEF PersistRemainingRoles
<1> QED
  BY <1>1 DEF PersistRemainingRoles, TypeOK, HandlersTypeOK, discord

\* FinishRecord keeps the types.
LEMMA FinishRecordType ==
    ASSUME TypeOK, FinishRecord
    PROVE  TypeOK'
<1>1. TimerTypeOK'
  BY NextRecordType DEF FinishRecord
<1>2. IsRows(db') /\ DOMAIN db' = DOMAIN db
  <2>1. CASE UNCHANGED db
    BY <2>1 DEF TypeOK, IsRows
  <2>2. CASE /\ timer.id \in DOMAIN db
             /\ db' = [db EXCEPT ![timer.id].status = "completed"]
    <3>1. [db[timer.id] EXCEPT !.status = "completed"] \in Record
      BY <2>2 DEF TypeOK, IsRows, Record
    <3> QED
      BY <2>2, <3>1 DEF TypeOK, IsRows
  <2> QED
    BY <2>1, <2>2 DEF FinishRecord
<1> QED
  BY <1>1, <1>2 DEF FinishRecord, TypeOK, HandlersTypeOK, discord

\* RevokePunishment keeps the types.
LEMMA RevokePunishmentType ==
    ASSUME TypeOK, NEW v \in Revokers, NEW id \in DOMAIN db, RevokePunishment(v, id)
    PROVE  TypeOK'
<1> DEFINE job == [pc |-> "roles", id |-> id, rec |-> db[id], failed |-> {}]
<1>1. job \in RevJob
  BY DEF RevJob, TypeOK, IsRows
<1> HIDE DEF job
<1>2. revoke' \in [Revokers -> RevJob \cup {IdleRev}]
  BY <1>1 DEF RevokePunishment, TypeOK, job
<1>3. banned' \in SUBSET Member
  BY DEF RevokePunishment, TypeOK
<1> QED
  BY <1>2, <1>3 DEF RevokePunishment, TypeOK, HandlersTypeOK, TimerTypeOK, table, ticker, IsRows

\* A revocation gives back at most the recover role of the guild.
LEMMA RecoveredType ==
    ASSUME NEW g \in Guilds, NEW level PROVE Recovered(g, level) \subseteq Roles
  BY ConfigAssumption DEF Recovered

\* RevokeRoles keeps the types.
LEMMA RevokeRolesType ==
    ASSUME TypeOK, NEW v \in Revokers, RevokeRoles(v)
    PROVE  TypeOK'
<1> DEFINE p == revoke[v].rec
           m == <<p.guild, p.user>>
           level == LevelToRevoke(revoke[v].id, p)
<1>1. revoke[v] \in RevJob
  BY DEF RevokeRoles, TypeOK, IdleRev
<1>2. p \in Record /\ m \in Member
  BY <1>1 DEF RevJob, Record, Member
<1> HIDE DEF level
<1>3. PICK undone \in SUBSET Added(level), back \in SUBSET Recovered(p.guild, level),
            gone \in SUBSET p.tempRoles :
        LET lost == (undone \ back) \cup gone
        IN  /\ roles' = [roles EXCEPT ![m] = ((@ \ undone) \cup back) \ gone]
            /\ owed' = owed \ Triples(p.guild, p.user, lost)
            /\ leaked' = leaked \ Triples(p.guild, p.user, lost)
            /\ revoke' = [revoke EXCEPT ![v].pc = "delete", ![v].failed = p.tempRoles \ gone]
  BY DEF RevokeRoles, level
<1>4. back \subseteq Roles
  BY <1>2, <1>3, RecoveredType DEF Record
<1>5. roles' \in [Member -> SUBSET Roles]
  BY <1>2, <1>3, <1>4 DEF TypeOK
<1> DEFINE job == [revoke[v] EXCEPT !.pc = "delete", !.failed = p.tempRoles \ gone]
<1>6. job \in RevJob
  BY <1>1, <1>2 DEF RevJob, Record
<1>7. revoke' = [revoke EXCEPT ![v] = job]
  BY <1>3
<1> HIDE DEF job
<1>8. revoke' \in [Revokers -> RevJob \cup {IdleRev}]
  BY <1>6, <1>7 DEF TypeOK
<1>9. owed' \in SUBSET (Guilds \X Users \X Roles) /\ leaked' \in SUBSET owed'
  BY <1>3 DEF TypeOK
<1> QED
  BY <1>5, <1>8, <1>9 DEF RevokeRoles, TypeOK, HandlersTypeOK, TimerTypeOK, table, ticker, IsRows

\* RevokeDelete keeps the types.
LEMMA RevokeDeleteType ==
    ASSUME TypeOK, NEW v \in Revokers, RevokeDelete(v)
    PROVE  TypeOK'
<1>1. IsRows(db') /\ DOMAIN db' \subseteq DOMAIN db
  BY DEF RevokeDelete, Without, TypeOK, IsRows
<1>2. revoke' \in [Revokers -> RevJob \cup {IdleRev}]
  BY DEF RevokeDelete, TypeOK
<1>3. owed' = owed /\ leaked' \in SUBSET owed'
  BY DEF RevokeDelete, TypeOK
<1> QED
  BY <1>1, <1>2, <1>3 DEF RevokeDelete, TypeOK, HandlersTypeOK, TimerTypeOK, discord, ticker, IsRows

\* DeletePunishment keeps the types.
LEMMA DeletePunishmentType ==
    ASSUME TypeOK, NEW id \in DOMAIN db, DeletePunishment(id)
    PROVE  TypeOK'
<1>1. IsRows(db') /\ DOMAIN db' \subseteq DOMAIN db
  BY DEF DeletePunishment, Without, TypeOK, IsRows
<1> QED
  BY <1>1 DEF DeletePunishment, TypeOK, HandlersTypeOK, TimerTypeOK, discord, ticker, IsRows

\* Crash keeps the types.
LEMMA CrashType ==
    ASSUME TypeOK, Crash
    PROVE  TypeOK'
<1>1. HandlersTypeOK'
  BY DEF Crash, HandlersTypeOK, IdlePun
<1>2. TimerTypeOK'
  BY DEF Crash, TimerTypeOK, IdleTimer, IsRows, NoRows
<1>3. crashes' \in 0..MaxCrashes
  BY BoundAssumption DEF Crash, TypeOK
<1>4. leaked' \in SUBSET owed'
  BY DEF Crash, TypeOK
<1> QED
  BY <1>1, <1>2, <1>3, <1>4 DEF Crash, TypeOK, discord, table, IsRows

\* Every step keeps the types.
LEMMA NextType == TypeOK /\ [Next]_vars => TypeOK'
<1> SUFFICES ASSUME TypeOK, [Next]_vars PROVE TypeOK'
  OBVIOUS
<1>1. CASE UNCHANGED vars
  BY <1>1 DEF vars, TypeOK, HandlersTypeOK, TimerTypeOK, IsRows
<1>2. ASSUME NEW h \in Handlers, Punish(h) PROVE TypeOK'
  BY <1>2, BeginPunishType, DeterminePunishmentLevelType, ApplyPunishmentLevelType,
     AddPunishmentRecordType DEF Punish
<1>3. ASSUME NEW u \in Users, PunishLockExpires(u) PROVE TypeOK'
  BY <1>3 DEF PunishLockExpires, TypeOK, HandlersTypeOK, TimerTypeOK, IsRows, discord, table, ticker
<1>4. CASE ResetAllPunishLocks
  BY <1>4 DEF ResetAllPunishLocks, TypeOK, HandlersTypeOK, TimerTypeOK, IsRows, discord, table, ticker
<1>5. CASE TimerStep
  BY <1>5, ProcessPunishmentTimersType, LoadRolesRemoveAtType, RemoveExpiredRolesType,
     PersistRemainingRolesType, FinishRecordType DEF TimerStep
<1>6. ASSUME NEW v \in Revokers, Revoke(v) PROVE TypeOK'
  BY <1>6, RevokePunishmentType, RevokeRolesType, RevokeDeleteType DEF Revoke
<1>7. ASSUME NEW id \in DOMAIN db, DeletePunishment(id) PROVE TypeOK'
  BY <1>7, DeletePunishmentType
<1>8. CASE Tick
  <2>1. now' \in 0..MaxTime
    BY <1>8, BoundAssumption DEF Tick, TypeOK
  <2> QED
    BY <1>8, <2>1 DEF Tick, TypeOK, HandlersTypeOK, TimerTypeOK, IsRows, discord, table, ticker
<1>9. CASE Crash
  BY <1>9, CrashType
<1> QED
  BY <1>1, <1>2, <1>3, <1>4, <1>5, <1>6, <1>7, <1>8, <1>9 DEF Next

\* Type correctness of the whole punishment cycle, for every configuration.
THEOREM TypeCorrect == Spec => []TypeOK
  BY InitType, NextType, PTL DEF Spec
-----------------------------------------------------------------------------
(* The local copies of the rows stay true to the table.                    *)

\* A step that changes neither the table nor a copy keeps the copies true.
LEMMA CopiesUnchanged ==
    ASSUME CopiesOK, UNCHANGED <<table, ticker, revoke>>
    PROVE  CopiesOK'
  BY DEF CopiesOK, ListsItsRoles, SnapshotFresh, RevocationCopies, CopyOf, table, ticker

\* AddPunishmentRecord keeps the copies true to the table.
LEMMA AddPunishmentRecordCopies ==
    ASSUME TypeOK, CopiesOK, NEW h \in Handlers, AddPunishmentRecord(h)
    PROVE  CopiesOK'
<1>1. CASE UNCHANGED table
  BY <1>1, CopiesUnchanged DEF AddPunishmentRecord
<1>2. CASE ~ UNCHANGED table
  <2>1. /\ nextID' = nextID + 1
        /\ DOMAIN db' = DOMAIN db \cup {nextID}
        /\ \A id \in DOMAIN db : db'[id] = db[id]
        /\ db'[nextID].rolesRemoveAt \subseteq db'[nextID].tempRoles
    BY <1>2 DEF AddPunishmentRecord, Timed, TypeOK
  <2>2. ListsItsRoles(db')
    BY <2>1 DEF CopiesOK, ListsItsRoles
  <2>3. ASSUME NEW p, NEW id \in Nat, CopyOf(p, id) PROVE CopyOf(p, id)'
    BY <2>1, <2>3 DEF CopyOf, TypeOK
  <2>4. UNCHANGED <<timer, snap, revoke>>
    BY DEF AddPunishmentRecord, ticker
  <2>5. SnapshotFresh'
    <3>1. \A id \in DOMAIN snap : id \in Nat /\ id < nextID
      BY DEF CopiesOK, SnapshotFresh, CopyOf, TypeOK, TimerTypeOK, IsRows
    <3>2. timer.pc \in {"remove", "finish"} => timer.id \in DOMAIN snap
      BY DEF TypeOK, TimerTypeOK
    <3> QED
      BY <2>1, <2>3, <2>4, <3>1, <3>2 DEF CopiesOK, SnapshotFresh, TypeOK
  <2>6. RevocationCopies'
    BY <2>3, <2>4 DEF CopiesOK, RevocationCopies, TypeOK, RevJob, IdleRev
  <2> QED
    BY <2>2, <2>4, <2>5, <2>6 DEF CopiesOK, ListsItsRoles
<1> QED
  BY <1>1, <1>2

\* Updating a row of the table but for its roles_remove_at keeps the copies.
LEMMA NextRecordCopies ==
    ASSUME TypeOK, CopiesOK, NEW id \in DOMAIN snap, NextRecord(id),
           timer.pc # "scan" => id = timer.id,
           UNCHANGED <<nextID, revoke>>, DOMAIN db' = DOMAIN db,
           \A i \in DOMAIN db : /\ db'[i].rolesRemoveAt = db[i].rolesRemoveAt
                                /\ db'[i].tempRoles = db[i].tempRoles
                                /\ db'[i].guild = db[i].guild
                                /\ db'[i].user = db[i].user
    PROVE  CopiesOK'
<1>1. ListsItsRoles(db')
  BY DEF CopiesOK, ListsItsRoles
<1>2. ListsItsRoles(snap')
  BY DEF CopiesOK, ListsItsRoles, NextRecord
<1>3. \A p, i : CopyOf(p, i) => CopyOf(p, i)'
  BY DEF CopyOf
<1>4. timer'.pc \in {"idle", "scan"} /\ (timer'.pc = "idle" => DOMAIN snap' = {})
  BY DEF NextRecord, IdleTimer
<1>5. SnapshotFresh'
  BY <1>3, <1>4 DEF CopiesOK, SnapshotFresh, NextRecord
<1>6. RevocationCopies'
  BY <1>3 DEF CopiesOK, RevocationCopies
<1> QED
  BY <1>1, <1>2, <1>5, <1>6 DEF CopiesOK, ListsItsRoles

\* ProcessPunishmentTimers keeps the copies true to the table.
LEMMA ProcessPunishmentTimersCopies ==
    ASSUME TypeOK, CopiesOK, ProcessPunishmentTimers
    PROVE  CopiesOK'
<1>1. /\ snap' = [id \in GetActivePunishments |-> db[id]]
      /\ GetActivePunishments \subseteq DOMAIN db
      /\ \A id \in GetActivePunishments : db[id].tempRoles # {}
      /\ UNCHANGED <<db, nextID, revoke>>
  BY DEF ProcessPunishmentTimers, GetActivePunishments, table
<1>2. timer'.pc \in {"idle", "scan"} /\ (timer'.pc = "idle" => DOMAIN snap' = {})
  BY <1>1 DEF ProcessPunishmentTimers, IdleTimer
<1>3. SnapshotFresh'
  BY <1>1, <1>2 DEF SnapshotFresh, CopyOf, TypeOK
<1> QED
  BY <1>1, <1>3 DEF CopiesOK, ListsItsRoles, RevocationCopies, CopyOf

\* LoadRolesRemoveAt keeps the copies true to the table.
LEMMA LoadRolesRemoveAtCopies ==
    ASSUME TypeOK, CopiesOK, NEW id \in DOMAIN snap, LoadRolesRemoveAt(id)
    PROVE  CopiesOK'
<1> DEFINE p == snap[id]
<1>1. CopyOf(p, id) /\ timer.pc = "scan" /\ p \in Record
      /\ (id \in DOMAIN db => db[id].rolesRemoveAt = p.rolesRemoveAt)
      /\ p.rolesRemoveAt \subseteq p.tempRoles
  BY DEF LoadRolesRemoveAt, CopiesOK, SnapshotFresh, ListsItsRoles, TypeOK, TimerTypeOK, IsRows
<1>2. CASE NextRecord(id) /\ UNCHANGED db
  BY <1>1, <1>2, NextRecordCopies DEF LoadRolesRemoveAt
<1>3. CASE p.rolesRemoveAt # {} /\ WorkOn(id, p.rolesRemoveAt, p.removeTime) /\ UNCHANGED db
  <2>1. timer'.pc = "remove" /\ timer'.id = id /\ timer'.work = p.rolesRemoveAt
    BY <1>3 DEF WorkOn, TypeOK, TimerTypeOK
  <2>2. SnapshotFresh'
    BY <1>1, <1>3, <2>1 DEF LoadRolesRemoveAt, CopiesOK, SnapshotFresh, CopyOf, WorkOn
  <2> QED
    BY <1>3, <2>2 DEF LoadRolesRemoveAt, CopiesOK, ListsItsRoles, RevocationCopies, CopyOf, WorkOn
<1>4. CASE \E t \in RebuildRolesRemoveAt(p) :
              /\ WorkOn(id, p.tempRoles, t)
              /\ RemoveExpiredRoleFromPunishment(id, p.tempRoles, t)
  <2>1. /\ timer'.pc = "remove" /\ timer'.id = id /\ timer'.work = p.tempRoles
        /\ UNCHANGED <<snap, revoke, nextID>>
    BY <1>4 DEF WorkOn, TypeOK, TimerTypeOK, LoadRolesRemoveAt
  <2>2. /\ id \in DOMAIN db /\ DOMAIN db' = DOMAIN db
        /\ db'[id].rolesRemoveAt = p.tempRoles
        /\ \A i \in DOMAIN db : /\ db'[i].tempRoles = db[i].tempRoles
                                /\ db'[i].guild = db[i].guild
                                /\ db'[i].user = db[i].user
                                /\ i # id => db'[i].rolesRemoveAt = db[i].rolesRemoveAt
    <3>1. PICK t \in Nat : RemoveExpiredRoleFromPunishment(id, p.tempRoles, t)
      BY <1>1, <1>4, RebuildType
    <3>2. p.tempRoles \in SUBSET Roles
      BY <1>1 DEF Record
    <3> QED
      BY <3>1, <3>2, RowUpdate DEF TypeOK
  <2>3. \A q, i : CopyOf(q, i) => CopyOf(q, i)'
    BY <2>1, <2>2 DEF CopyOf
  <2>4. p.tempRoles # {}
    BY DEF CopiesOK, SnapshotFresh
  <2>5. SnapshotFresh'
    BY <1>1, <2>1, <2>2, <2>3, <2>4 DEF CopiesOK, SnapshotFresh
  <2>6. ListsItsRoles(db')
    BY <1>1, <1>4, <2>2 DEF CopiesOK, ListsItsRoles, CopyOf
  <2> QED
    BY <2>1, <2>3, <2>5, <2>6 DEF CopiesOK, ListsItsRoles, RevocationCopies
<1> QED
  BY <1>2, <1>3, <1>4 DEF LoadRolesRemoveAt

\* RemoveExpiredRoles keeps the copies true to the table.
LEMMA RemoveExpiredRolesCopies ==
    ASSUME TypeOK, CopiesOK, RemoveExpiredRoles
    PROVE  CopiesOK'
<1>1. PICK gone \in SUBSET timer.work :
         timer' = [timer EXCEPT !.work = timer.work \ gone,
                                !.pc = IF gone = {} THEN "finish" ELSE "persist"]
  <2>1. PICK gone \in SUBSET Expired(timer.work, timer.time) :
          timer' = [timer EXCEPT !.work = Remaining(timer.work, Expired(timer.work, timer.time), gone),
                                    !.pc = IF gone = {} THEN "finish" ELSE "persist"]
    BY DEF RemoveExpiredRoles
  <2>2. /\ gone \subseteq timer.work
        /\ Remaining(timer.work, Expired(timer.work, timer.time), gone) = timer.work \ gone
    BY RemainingRoles
  <2> QED
    BY <2>1, <2>2
<1>2. /\ timer.pc = "remove" /\ timer'.pc \in {"finish", "persist"}
      /\ timer'.work = timer.work \ gone /\ timer'.id = timer.id
      /\ timer'.pc = "finish" => timer'.work = timer.work
  BY <1>1, ZenonT(40) DEF RemoveExpiredRoles, TypeOK, TimerTypeOK
<1>3. UNCHANGED <<snap, db, nextID, revoke>>
  BY DEF RemoveExpiredRoles, table
<1>4. \A p, i : CopyOf(p, i) => CopyOf(p, i)'
  BY <1>3 DEF CopyOf
<1>5. SnapshotFresh'
  BY <1>2, <1>3, <1>4 DEF CopiesOK, SnapshotFresh
<1> QED
  BY <1>3, <1>4, <1>5 DEF CopiesOK, ListsItsRoles, RevocationCopies

\* PersistRemainingRoles keeps the copies true to the table.
LEMMA PersistRemainingRolesCopies ==
    ASSUME TypeOK, CopiesOK, PersistRemainingRoles
    PROVE  CopiesOK'
<1>1. timer.id \in DOMAIN snap /\ UNCHANGED <<nextID, revoke>> /\ timer.pc = "persist"
  BY DEF PersistRemainingRoles, TypeOK, TimerTypeOK
<1>2. CASE NextRecord(timer.id) /\ UNCHANGED db
  BY <1>1, <1>2, NextRecordCopies
<1>3. CASE /\ RemoveExpiredRoleFromPunishment(timer.id, timer.work, timer.time)
           /\ timer' = [timer EXCEPT !.pc = "finish"]
           /\ UNCHANGED snap
  <2>1. /\ timer'.pc = "finish" /\ timer'.id = timer.id /\ timer'.work = timer.work
    BY <1>3 DEF TypeOK, TimerTypeOK
  <2>2. /\ timer.id \in DOMAIN db /\ DOMAIN db' = DOMAIN db
        /\ db'[timer.id].rolesRemoveAt = timer.work
        /\ \A i \in DOMAIN db : /\ db'[i].tempRoles = db[i].tempRoles
                                /\ db'[i].guild = db[i].guild
                                /\ db'[i].user = db[i].user
                                /\ i # timer.id => db'[i].rolesRemoveAt = db[i].rolesRemoveAt
    BY <1>3, RowUpdate DEF TypeOK, TimerTypeOK
  <2>3. \A q, i : CopyOf(q, i) => CopyOf(q, i)'
    BY <1>1, <2>2 DEF CopyOf
  <2>4. SnapshotFresh'
    BY <1>1, <1>3, <2>1, <2>2, <2>3 DEF CopiesOK, SnapshotFresh
  <2>5. timer.work \subseteq db[timer.id].tempRoles
    BY <1>1, <2>2 DEF CopiesOK, SnapshotFresh, CopyOf
  <2>6. ListsItsRoles(db')
    BY <2>2, <2>5 DEF CopiesOK, ListsItsRoles
  <2> QED
    BY <1>1, <1>3, <2>3, <2>4, <2>6 DEF CopiesOK, ListsItsRoles, RevocationCopies
<1> QED
  BY <1>2, <1>3 DEF PersistRemainingRoles

\* FinishRecord keeps the copies true to the table.
LEMMA FinishRecordCopies ==
    ASSUME TypeOK, CopiesOK, FinishRecord
    PROVE  CopiesOK'
<1>1. timer.id \in DOMAIN snap /\ UNCHANGED <<nextID, revoke>> /\ NextRecord(timer.id)
  BY DEF FinishRecord, TypeOK, TimerTypeOK
<1>2. DOMAIN db' = DOMAIN db /\ \A i \in DOMAIN db :
         /\ db'[i].rolesRemoveAt = db[i].rolesRemoveAt
         /\ db'[i].tempRoles = db[i].tempRoles
         /\ db'[i].guild = db[i].guild
         /\ db'[i].user = db[i].user
  <2>1. CASE UNCHANGED db
    BY <2>1
  <2>2. CASE timer.id \in DOMAIN db /\ db' = [db EXCEPT ![timer.id] = [db[timer.id] EXCEPT !.status = "completed"]]
    <3>1. db[timer.id] \in Record
      BY <2>2 DEF TypeOK, IsRows
    <3> QED
      BY <2>2, <3>1 DEF TypeOK, IsRows, Record
  <2> QED
    BY <2>1, <2>2 DEF FinishRecord
<1> QED
  BY <1>1, <1>2, NextRecordCopies DEF FinishRecord

\* RevokePunishment keeps the copies true to the table.
LEMMA RevokePunishmentCopies ==
    ASSUME TypeOK, CopiesOK, NEW v \in Revokers, NEW id \in DOMAIN db, RevokePunishment(v, id)
    PROVE  CopiesOK'
<1>1. UNCHANGED <<table, ticker>>
  BY DEF RevokePunishment
<1>2. CASE UNCHANGED revoke
  BY <1>1, <1>2, CopiesUnchanged
<1>3. CASE revoke' = [revoke EXCEPT ![v] = [pc |-> "roles", id |-> id, rec |-> db[id], failed |-> {}]]
  <2>1. CopyOf(db[id], id)
    BY DEF CopyOf, TypeOK
  <2>2. RevocationCopies'
    BY <1>1, <1>3, <2>1 DEF CopiesOK, RevocationCopies, CopyOf, TypeOK, table
  <2> QED
    BY <1>1, <2>2 DEF CopiesOK, ListsItsRoles, SnapshotFresh, CopyOf, table, ticker
<1> QED
  BY <1>2, <1>3 DEF RevokePunishment

\* RevokeRoles keeps the copies true to the table.
LEMMA RevokeRolesCopies ==
    ASSUME TypeOK, CopiesOK, NEW v \in Revokers, RevokeRoles(v)
    PROVE  CopiesOK'
<1>1. UNCHANGED <<table, ticker>>
  BY DEF RevokeRoles
<1>2. revoke[v] \in RevJob
  BY DEF RevokeRoles, TypeOK, IdleRev
<1>3. \E S : revoke' = [revoke EXCEPT ![v] = [revoke[v] EXCEPT !.pc = "delete", !.failed = S]]
  BY ZenonT(40) DEF RevokeRoles
<1>4. \A i \in Revokers : /\ revoke'[i].pc # "idle" => revoke[i].pc # "idle"
                          /\ revoke'[i].pc # "idle" => revoke'[i].id = revoke[i].id /\ revoke'[i].rec = revoke[i].rec
  BY <1>2, <1>3 DEF RevokeRoles, TypeOK, RevJob
<1>5. RevocationCopies'
  BY <1>1, <1>4 DEF CopiesOK, RevocationCopies, CopyOf, table
<1> QED
  BY <1>1, <1>5 DEF CopiesOK, ListsItsRoles, SnapshotFresh, CopyOf, table, ticker

\* Deleting a row only makes the copies of that row moot.
LEMMA DeletedRowCopies ==
    ASSUME TypeOK, CopiesOK, NEW id, db' = Without(id), UNCHANGED <<nextID, ticker>>,
           \A v \in Revokers : revoke'[v].pc # "idle" => revoke'[v] = revoke[v]
    PROVE  CopiesOK'
<1>1. DOMAIN db' = DOMAIN db \ {id} /\ \A i \in DOMAIN db' : db'[i] = db[i]
  BY DEF Without
<1>2. \A p, i : CopyOf(p, i) => CopyOf(p, i)'
  BY <1>1 DEF CopyOf
<1>3. SnapshotFresh'
  BY <1>1, <1>2 DEF CopiesOK, SnapshotFresh, ticker
<1>4. RevocationCopies'
  BY <1>2 DEF CopiesOK, RevocationCopies
<1> QED
  BY <1>1, <1>3, <1>4 DEF CopiesOK, ListsItsRoles, ticker

\* RevokeDelete keeps the copies true to the table.
LEMMA RevokeDeleteCopies ==
    ASSUME TypeOK, CopiesOK, NEW v \in Revokers, RevokeDelete(v)
    PROVE  CopiesOK'
<1>1. \A i \in Revokers : revoke'[i].pc # "idle" => revoke'[i] = revoke[i]
  BY DEF RevokeDelete, TypeOK, IdleRev
<1>2. CASE db' = Without(revoke[v].id)
  BY <1>1, <1>2, DeletedRowCopies DEF RevokeDelete
<1>3. CASE UNCHANGED db
  BY <1>1, <1>3 DEF RevokeDelete, CopiesOK, ListsItsRoles, SnapshotFresh, RevocationCopies, CopyOf, ticker
<1> QED
  BY <1>2, <1>3 DEF RevokeDelete

\* DeletePunishment keeps the copies true to the table.
LEMMA DeletePunishmentCopies ==
    ASSUME TypeOK, CopiesOK, NEW id \in DOMAIN db, DeletePunishment(id)
    PROVE  CopiesOK'
  BY DeletedRowCopies DEF DeletePunishment

\* Crash keeps the copies true to the table.
LEMMA CrashCopies ==
    ASSUME TypeOK, CopiesOK, Crash
    PROVE  CopiesOK'
<1>1. UNCHANGED table /\ DOMAIN snap' = {} /\ timer'.pc = "idle"
      /\ \A v \in Revokers : revoke'[v].pc = "idle"
  BY DEF Crash, IdleTimer, NoRows, IdleRev
<1> QED
  BY <1>1 DEF CopiesOK, ListsItsRoles, SnapshotFresh, RevocationCopies, table
-----------------------------------------------------------------------------
(* Every owed role keeps a tracker that is not settled.                    *)

\* Enough to look at the owed roles that remain, one tracker at a time.
LEMMA SoundnessKept ==
    ASSUME OwedSoundly,
           owed' \ leaked' \subseteq owed \ leaked,
           \A t \in owed' \ leaked' : \A id \in DOMAIN db :
              Tracks(id, t) /\ ~ Settled(id, t[3]) =>
                 id \in DOMAIN db' /\ Tracks(id, t)' /\ ~ Settled(id, t[3])',
           \A t \in owed' \ leaked' : \A h \in Handlers : InFlight(h, t) => InFlight(h, t)'
    PROVE  OwedSoundly'
  BY DEF OwedSoundly

\* A step of the handlers alone that lets none with an INSERT to do move.
LEMMA HandlersOnlySound ==
    ASSUME OwedSoundly, UNCHANGED <<db, timer, revoke, owed, leaked>>,
           \A h \in Handlers : pun[h].pc = "insert" => pun'[h] = pun[h]
    PROVE  OwedSoundly'
<1>1. \A id, r : Settled(id, r)' <=> Settled(id, r)
  BY DEF Settled
<1>2. \A id, t : Tracks(id, t)' <=> Tracks(id, t)
  BY DEF Tracks
<1>3. \A h \in Handlers : \A t : InFlight(h, t) => InFlight(h, t)'
  BY DEF InFlight
<1> QED
  BY <1>1, <1>2, <1>3, SoundnessKept

\* ApplyPunishmentLevel keeps a tracker for each role that stays owed.
LEMMA ApplyPunishmentLevelSound ==
    ASSUME TypeOK, OwedSoundly, NEW h \in Handlers, ApplyPunishmentLevel(h)
    PROVE  OwedSoundly'
<1> DEFINE g == pun[h].guild
           u == pun[h].user
           level == pun[h].level
<1>1. pun[h] \in PunJob /\ pun[h].pc = "apply"
  BY BusyHandlerType DEF ApplyPunishmentLevel, TypeOK
<1>2. PICK added, lost, time :
        /\ pun' = [pun EXCEPT ![h].pc = "insert", ![h].tempRoles = added, ![h].removeTime = time]
        /\ owed' = (owed \ Triples(g, u, lost)) \cup Triples(g, u, Timed(level, added))
        /\ leaked' = leaked \ Triples(g, u, lost)
  BY DEF ApplyPunishmentLevel
<1>3. UNCHANGED <<db, timer, revoke>>
  BY DEF ApplyPunishmentLevel, table, ticker
<1> DEFINE job == [pun[h] EXCEPT !.pc = "insert", !.tempRoles = added, !.removeTime = time]
<1>4. pun' = [pun EXCEPT ![h] = job]
  BY <1>2
<1>5. job.pc = "insert" /\ job.guild = g /\ job.user = u /\ job.level = level /\ job.tempRoles = added
  BY <1>1 DEF PunJob
<1> HIDE DEF job
<1>6. pun'[h] = job /\ \A i \in Handlers : i # h => pun'[i] = pun[i]
  BY <1>4 DEF TypeOK, HandlersTypeOK
<1>7. SUFFICES ASSUME NEW t \in owed' \ leaked'
               PROVE  \/ \E id \in DOMAIN db' : (Tracks(id, t) /\ ~ Settled(id, t[3]))'
                      \/ \E i \in Handlers : InFlight(i, t)'
  BY DEF OwedSoundly
<1>8. CASE t \in Triples(g, u, Timed(level, added))
  <2>1. InFlight(h, t)'
    BY <1>5, <1>6, <1>8 DEF InFlight
  <2> QED
    BY <2>1
<1>9. CASE t \in owed \ leaked
  <2>1. CASE \E id \in DOMAIN db : Tracks(id, t) /\ ~ Settled(id, t[3])
    BY <1>3, <2>1 DEF Tracks, Settled
  <2>2. CASE \E i \in Handlers : InFlight(i, t)
    BY <1>1, <1>6, <2>2 DEF InFlight
  <2> QED
    BY <1>9, <2>1, <2>2 DEF OwedSoundly
<1> QED
  BY <1>2, <1>8, <1>9

\* AddPunishmentRecord keeps a tracker for each role that stays owed.
LEMMA AddPunishmentRecordSound ==
    ASSUME IInv, NEW h \in Handlers, AddPunishmentRecord(h)
    PROVE  OwedSoundly'
<1> DEFINE j == pun[h]
           timed == Timed(j.level, j.tempRoles)
<1>1. /\ j.pc = "insert" /\ UNCHANGED <<timer, snap, revoke, owed>>
      /\ \A i \in Handlers : i # h => pun'[i] = pun[i]
  BY DEF AddPunishmentRecord, ticker, IInv, TypeOK, HandlersTypeOK
<1>2. \A id, r : Settled(id, r)' <=> Settled(id, r)
  BY <1>1 DEF Settled
<1>3. SUFFICES ASSUME NEW t \in owed' \ leaked'
               PROVE  \/ \E id \in DOMAIN db' : (Tracks(id, t) /\ ~ Settled(id, t[3]))'
                      \/ \E i \in Handlers : InFlight(i, t)'
  BY DEF OwedSoundly
<1>4. t \in owed \ leaked
  BY <1>1 DEF AddPunishmentRecord
<1>5. CASE \E id \in DOMAIN db : Tracks(id, t) /\ ~ Settled(id, t[3])
  <2>1. PICK id \in DOMAIN db : Tracks(id, t) /\ ~ Settled(id, t[3])
    BY <1>5
  <2>2. id # nextID
    BY DEF IInv, TypeOK
  <2>3. id \in DOMAIN db' /\ db'[id] = db[id]
    BY <2>2 DEF AddPunishmentRecord, table
  <2> QED
    BY <1>2, <2>1, <2>3 DEF Tracks
<1>6. CASE \E i \in Handlers : i # h /\ InFlight(i, t)
  BY <1>1, <1>6 DEF InFlight
<1>7. CASE InFlight(h, t)
  <2>1. t \in Triples(j.guild, j.user, timed)
    BY <1>7 DEF InFlight
  <2>2. CASE leaked' = leaked \cup (Triples(j.guild, j.user, timed) \cap owed)
    BY <1>4, <2>1, <2>2
  <2>3. CASE ~ UNCHANGED table
    <3>1. PICK n \in Nat : n = nextID
      BY DEF IInv, TypeOK
    <3>2. n \notin DOMAIN db
      BY <3>1 DEF IInv, TypeOK
    <3>3. db' = [id \in DOMAIN db \cup {n} |->
                   IF id = n
                   THEN [guild |-> j.guild, user |-> j.user, action |-> j.action,
                         timestamp |-> now, tempRoles |-> j.tempRoles,
                         rolesRemoveAt |-> timed, removeTime |-> j.removeTime,
                         status |-> "active", level |-> j.level, due |-> j.removeTime]
                   ELSE db[id]]
      BY <2>3, <3>1 DEF AddPunishmentRecord
    <3> HIDE DEF timed
    <3>4. /\ n \in DOMAIN db'
          /\ db'[n].status = "active" /\ db'[n].guild = j.guild
          /\ db'[n].user = j.user /\ db'[n].rolesRemoveAt = timed
      BY <3>3
    <3>5. Tracks(n, t)'
      BY <2>1, <3>4 DEF Tracks
    <3>6. timer.pc = "persist" => timer.id # n
      BY <3>1 DEF IInv, TypeOK, TimerTypeOK, IsRows, CopiesOK, SnapshotFresh, CopyOf
    <3>7. \A v \in Revokers : revoke[v].pc = "delete" => revoke[v].id # n
      BY <3>1 DEF IInv, TypeOK, CopiesOK, RevocationCopies, CopyOf
    <3>8. ~ Settled(n, t[3])
      BY <3>6, <3>7 DEF Settled
    <3> QED
      BY <1>2, <3>4, <3>5, <3>8
  <2> QED
    BY <2>2, <2>3 DEF AddPunishmentRecord, IInv, TypeOK, table
<1> QED
  BY <1>4, <1>5, <1>6, <1>7 DEF IInv, OwedSoundly

\* A step that changes only the timer, and does not put it into "persist", and
\* that at most lengthens the lists of active records.
LEMMA TimerSound ==
    ASSUME OwedSoundly, UNCHANGED <<pun, revoke, owed, leaked>>,
           timer'.pc # "persist",
           \A id \in DOMAIN db, t \in owed \ leaked :
              Tracks(id, t) /\ ~ Settled(id, t[3]) => id \in DOMAIN db' /\ Tracks(id, t)'
    PROVE  OwedSoundly'
<1>1. \A id, r : Settled(id, r)' => Settled(id, r)
  BY DEF Settled
<1>2. \A h \in Handlers : \A t : InFlight(h, t) => InFlight(h, t)'
  BY DEF InFlight
<1> QED
  BY <1>1, <1>2, SoundnessKept

\* ProcessPunishmentTimers keeps a tracker for each role that stays owed.
LEMMA ProcessPunishmentTimersSound ==
    ASSUME OwedSoundly, ProcessPunishmentTimers
    PROVE  OwedSoundly'
<1>1. timer'.pc \in {"idle", "scan"} /\ UNCHANGED <<db, pun, revoke, owed, leaked>>
  BY DEF ProcessPunishmentTimers, IdleTimer, table
<1>2. \A id \in DOMAIN db, t \in owed \ leaked :
         Tracks(id, t) /\ ~ Settled(id, t[3]) => id \in DOMAIN db' /\ Tracks(id, t)'
  BY <1>1 DEF Tracks
<1>3. timer'.pc # "persist"
  BY <1>1
<1> QED
  BY <1>1, <1>2, <1>3, TimerSound

\* LoadRolesRemoveAt keeps a tracker for each role that stays owed.
LEMMA LoadRolesRemoveAtSound ==
    ASSUME IInv, NEW id \in DOMAIN snap, LoadRolesRemoveAt(id)
    PROVE  OwedSoundly'
<1> DEFINE p == snap[id]
<1>1. UNCHANGED <<pun, revoke, owed, leaked>>
  BY DEF LoadRolesRemoveAt
<1>2. timer'.pc # "persist"
  <2>1. CASE NextRecord(id)
    BY <2>1 DEF NextRecord, IdleTimer
  <2>2. CASE \E work, time : WorkOn(id, work, time)
    BY <2>2 DEF WorkOn, IInv, TypeOK, TimerTypeOK
  <2> QED
    BY <2>1, <2>2 DEF LoadRolesRemoveAt
<1>3. CASE UNCHANGED db
  BY <1>1, <1>2, <1>3, TimerSound DEF Tracks, IInv
<1>4. CASE \E t \in RebuildRolesRemoveAt(p) : RemoveExpiredRoleFromPunishment(id, p.tempRoles, t)
  <2>1. id \in DOMAIN db /\ p \in Record
        /\ p.tempRoles = db[id].tempRoles
        /\ db[id].rolesRemoveAt \subseteq db[id].tempRoles
    BY <1>4 DEF RemoveExpiredRoleFromPunishment, IInv, TypeOK, TimerTypeOK, IsRows, CopiesOK,
                SnapshotFresh, CopyOf, ListsItsRoles
  <2>2. PICK d \in Nat : RemoveExpiredRoleFromPunishment(id, p.tempRoles, d)
    BY <1>4, <2>1, RebuildType
  <2>3. p.tempRoles \in SUBSET Roles
    BY <2>1 DEF Record
  <2>4. /\ DOMAIN db' = DOMAIN db
        /\ db'[id].rolesRemoveAt = p.tempRoles
        /\ \A i \in DOMAIN db : /\ db'[i].status = db[i].status
                                /\ db'[i].guild = db[i].guild
                                /\ db'[i].user = db[i].user
                                /\ i # id => db'[i].rolesRemoveAt = db[i].rolesRemoveAt
    BY <2>2, <2>3, RowUpdate, ZenonT(40) DEF IInv, TypeOK
  <2>5. \A i \in DOMAIN db : db[i].rolesRemoveAt \subseteq db'[i].rolesRemoveAt
    BY <2>1, <2>4
  <2>6. \A i \in DOMAIN db : \A t : Tracks(i, t) => Tracks(i, t)'
    BY <2>4, <2>5 DEF Tracks, Triples
  <2> QED
    BY <1>1, <1>2, <2>4, <2>6, TimerSound DEF IInv
<1> QED
  BY <1>3, <1>4 DEF LoadRolesRemoveAt

\* RemoveExpiredRoles keeps a tracker for each role that stays owed.
LEMMA RemoveExpiredRolesSound ==
    ASSUME IInv, RemoveExpiredRoles
    PROVE  OwedSoundly'
<1> DEFINE p == snap[timer.id]
<1>1. /\ timer.pc = "remove" /\ timer.id \in DOMAIN snap
      /\ CopyOf(p, timer.id)
      /\ timer.id \in DOMAIN db => db[timer.id].rolesRemoveAt = timer.work
  BY DEF RemoveExpiredRoles, IInv, TypeOK, TimerTypeOK, CopiesOK, SnapshotFresh
<1>2. PICK gone \in SUBSET timer.work :
        /\ owed' = owed \ Triples(p.guild, p.user, gone)
        /\ leaked' = leaked \ Triples(p.guild, p.user, gone)
        /\ timer' = [timer EXCEPT !.work = timer.work \ gone,
                                  !.pc = IF gone = {} THEN "finish" ELSE "persist"]
  <2>1. PICK gone \in SUBSET Expired(timer.work, timer.time) :
          /\ owed' = owed \ Triples(p.guild, p.user, gone)
          /\ leaked' = leaked \ Triples(p.guild, p.user, gone)
          /\ timer' = [timer EXCEPT !.work = Remaining(timer.work, Expired(timer.work, timer.time), gone),
                                       !.pc = IF gone = {} THEN "finish" ELSE "persist"]
    BY DEF RemoveExpiredRoles
  <2>2. /\ gone \subseteq timer.work
        /\ Remaining(timer.work, Expired(timer.work, timer.time), gone) = timer.work \ gone
    BY RemainingRoles
  <2> QED
    BY <2>1, <2>2
<1>3. timer'.work = timer.work \ gone /\ timer'.id = timer.id
  BY <1>2 DEF IInv, TypeOK, TimerTypeOK
<1>4. UNCHANGED <<db, pun, revoke>>
  BY DEF RemoveExpiredRoles, table
<1>5. ASSUME NEW t \in owed' \ leaked', NEW id \in DOMAIN db,
             Tracks(id, t), ~ Settled(id, t[3])
      PROVE  ~ Settled(id, t[3])'
  <2>1. t \notin Triples(p.guild, p.user, gone)
    BY <1>2, <1>5
  <2>2. CASE id = timer.id
    <3>1. t \in Triples(p.guild, p.user, timer.work)
      BY <1>1, <1>5, <2>2 DEF Tracks, CopyOf
    <3>2. t[3] \in timer.work \ gone
      BY <2>1, <3>1 DEF Triples
    <3> QED
      BY <1>3, <1>4, <1>5, <3>2 DEF Settled
  <2>3. CASE id # timer.id
    BY <1>3, <1>4, <1>5, <2>3 DEF Settled
  <2> QED
    BY <2>2, <2>3
<1>6. owed' \ leaked' \subseteq owed \ leaked
  BY <1>2
<1>7. \A id, t : Tracks(id, t) => Tracks(id, t)'
  BY <1>4 DEF Tracks
<1>8. \A h \in Handlers : \A t : InFlight(h, t) => InFlight(h, t)'
  BY <1>4 DEF InFlight
<1>9. \A t \in owed' \ leaked' : \A id \in DOMAIN db :
         Tracks(id, t) /\ ~ Settled(id, t[3]) =>
            id \in DOMAIN db' /\ Tracks(id, t)' /\ ~ Settled(id, t[3])'
  BY <1>4, <1>5, <1>7
<1> QED
  BY <1>6, <1>8, <1>9, SoundnessKept DEF IInv

\* PersistRemainingRoles keeps a tracker for each role that stays owed.
LEMMA PersistRemainingRolesSound ==
    ASSUME IInv, PersistRemainingRoles
    PROVE  OwedSoundly'
<1>1. UNCHANGED <<pun, revoke, owed, leaked>> /\ timer.pc = "persist"
  BY DEF PersistRemainingRoles
<1>2. timer'.pc # "persist"
  <2>1. CASE NextRecord(timer.id)
    BY <2>1 DEF NextRecord, IdleTimer
  <2>2. CASE timer' = [timer EXCEPT !.pc = "finish"]
    BY <2>2 DEF IInv, TypeOK, TimerTypeOK
  <2> QED
    BY <2>1, <2>2 DEF PersistRemainingRoles
<1>3. CASE UNCHANGED db
  BY <1>1, <1>2, <1>3, TimerSound DEF Tracks, IInv
<1>4. CASE RemoveExpiredRoleFromPunishment(timer.id, timer.work, timer.time)
  <2>1. /\ DOMAIN db' = DOMAIN db
        /\ db'[timer.id].rolesRemoveAt = timer.work
        /\ \A i \in DOMAIN db : /\ db'[i].status = db[i].status
                                /\ db'[i].guild = db[i].guild
                                /\ db'[i].user = db[i].user
                                /\ i # timer.id => db'[i].rolesRemoveAt = db[i].rolesRemoveAt
    BY <1>4, RowUpdate DEF IInv, TypeOK, TimerTypeOK
  <2>2. ASSUME NEW i \in DOMAIN db, NEW t, Tracks(i, t), ~ Settled(i, t[3])
        PROVE  Tracks(i, t)'
    <3>1. CASE i # timer.id
      BY <2>1, <2>2, <3>1 DEF Tracks
    <3>2. CASE i = timer.id
      <4>1. t[3] \in timer.work
        BY <1>1, <2>2, <3>2 DEF Settled
      <4>2. t \in Triples(db[i].guild, db[i].user, timer.work)
        BY <2>2, <4>1 DEF Tracks, Triples
      <4> QED
        BY <2>1, <2>2, <3>2, <4>2 DEF Tracks
    <3> QED
      BY <3>1, <3>2
  <2> QED
    BY <1>1, <1>2, <2>1, <2>2, TimerSound DEF IInv
<1> QED
  BY <1>3, <1>4 DEF PersistRemainingRoles

\* FinishRecord keeps a tracker for each role that stays owed.
LEMMA FinishRecordSound ==
    ASSUME IInv, FinishRecord
    PROVE  OwedSoundly'
<1>1. UNCHANGED <<pun, revoke, owed, leaked>> /\ timer.pc = "finish"
  BY DEF FinishRecord
<1>2. timer'.pc # "persist"
  BY DEF FinishRecord, NextRecord, IdleTimer
<1>3. CASE UNCHANGED db
  BY <1>1, <1>2, <1>3, TimerSound DEF Tracks, IInv
<1>4. CASE /\ timer.work = {} /\ timer.id \in DOMAIN db
           /\ db' = [db EXCEPT ![timer.id] = [db[timer.id] EXCEPT !.status = "completed"]]
  <2>1. db[timer.id].rolesRemoveAt = {}
    BY <1>1, <1>4 DEF IInv, CopiesOK, SnapshotFresh
  <2>2. DOMAIN db' = DOMAIN db /\ \A i \in DOMAIN db : i # timer.id => db'[i] = db[i]
    BY <1>4
  <2>3. \A t : ~ Tracks(timer.id, t)
    BY <2>1 DEF Tracks, Triples
  <2>4. \A i \in DOMAIN db : \A t : Tracks(i, t) => Tracks(i, t)'
    BY <2>2, <2>3 DEF Tracks
  <2> QED
    BY <1>1, <1>2, <2>2, <2>4, TimerSound DEF IInv
<1> QED
  BY <1>3, <1>4 DEF FinishRecord

\* A step of revocation v that leaves the timer and the handlers alone.
LEMMA RevokePunishmentSound ==
    ASSUME IInv, NEW v \in Revokers, NEW id \in DOMAIN db, RevokePunishment(v, id)
    PROVE  OwedSoundly'
<1>1. UNCHANGED <<db, pun, timer, owed, leaked>>
  BY DEF RevokePunishment, table, ticker
<1>2. \A i \in Revokers : revoke'[i] = revoke[i] \/ revoke'[i].pc = "roles"
  BY DEF RevokePunishment, IInv, TypeOK
<1>3. \A i, r : Settled(i, r)' => Settled(i, r)
  BY <1>1, <1>2 DEF Settled
<1>4. \A i, t : Tracks(i, t) => Tracks(i, t)'
  BY <1>1 DEF Tracks
<1>5. \A h \in Handlers : \A t : InFlight(h, t) => InFlight(h, t)'
  BY <1>1 DEF InFlight
<1> QED
  BY <1>1, <1>3, <1>4, <1>5, SoundnessKept DEF IInv

\* RevokeRoles keeps a tracker for each role that stays owed.
LEMMA RevokeRolesSound ==
    ASSUME IInv, NEW v \in Revokers, RevokeRoles(v)
    PROVE  OwedSoundly'
<1> DEFINE p == revoke[v].rec
           n == revoke[v].id
<1>1. UNCHANGED <<db, pun, timer>>
  BY DEF RevokeRoles, table, ticker
<1>2. revoke[v] \in RevJob /\ CopyOf(p, n)
  BY DEF RevokeRoles, IInv, TypeOK, IdleRev, CopiesOK, RevocationCopies
<1>3. PICK gone, lost :
        /\ gone \subseteq lost
        /\ owed' = owed \ Triples(p.guild, p.user, lost)
        /\ leaked' = leaked \ Triples(p.guild, p.user, lost)
        /\ revoke' = [revoke EXCEPT ![v] =
                        [revoke[v] EXCEPT !.pc = "delete", !.failed = p.tempRoles \ gone]]
  <2>1. PICK undone \in SUBSET Added(LevelToRevoke(n, p)),
             back \in SUBSET Recovered(p.guild, LevelToRevoke(n, p)),
             gone \in SUBSET p.tempRoles :
          /\ owed' = owed \ Triples(p.guild, p.user, (undone \ back) \cup gone)
          /\ leaked' = leaked \ Triples(p.guild, p.user, (undone \ back) \cup gone)
          /\ revoke' = [revoke EXCEPT ![v].pc = "delete", ![v].failed = p.tempRoles \ gone]
    BY DEF RevokeRoles
  <2>2. gone \subseteq (undone \ back) \cup gone
    OBVIOUS
  <2> QED
    BY <2>1, <2>2
<1>4. /\ revoke'[v].id = n /\ revoke'[v].failed = p.tempRoles \ gone
      /\ \A i \in Revokers : i # v => revoke'[i] = revoke[i]
  BY <1>2, <1>3 DEF IInv, TypeOK, RevJob
<1>5. ASSUME NEW t \in owed' \ leaked', NEW id \in DOMAIN db,
             Tracks(id, t), ~ Settled(id, t[3])
      PROVE  ~ Settled(id, t[3])'
  <2>1. CASE id = n
    <3>1. db[id].rolesRemoveAt \subseteq p.tempRoles /\ db[id].guild = p.guild /\ db[id].user = p.user
      BY <1>2, <2>1 DEF CopyOf, IInv, CopiesOK, ListsItsRoles
    <3>2. t[3] \in p.tempRoles /\ t \in Triples(p.guild, p.user, p.tempRoles)
      BY <1>5, <3>1 DEF Tracks, Triples
    <3>3. t \notin Triples(p.guild, p.user, gone)
      BY <1>3, <1>5 DEF Triples
    <3>4. t[3] \in p.tempRoles \ gone
      BY <3>2, <3>3 DEF Triples
    <3> QED
      BY <1>1, <1>4, <1>5, <3>4 DEF Settled
  <2>2. CASE id # n
    BY <1>1, <1>4, <1>5, <2>2 DEF Settled
  <2> QED
    BY <2>1, <2>2
<1>6. owed' \ leaked' \subseteq owed \ leaked
  BY <1>3
<1>7. \A id, t : Tracks(id, t) => Tracks(id, t)'
  BY <1>1 DEF Tracks
<1>8. \A h \in Handlers : \A t : InFlight(h, t) => InFlight(h, t)'
  BY <1>1 DEF InFlight
<1>9. \A t \in owed' \ leaked' : \A id \in DOMAIN db :
         Tracks(id, t) /\ ~ Settled(id, t[3]) =>
            id \in DOMAIN db' /\ Tracks(id, t)' /\ ~ Settled(id, t[3])'
  BY <1>1, <1>5, <1>7
<1> QED
  BY <1>6, <1>8, <1>9, SoundnessKept DEF IInv

\* A deleted row: its listed roles that are still owed are leaked.
LEMMA DeletedRowSound ==
    ASSUME IInv, NEW id \in DOMAIN db, db' = Without(id), UNCHANGED <<pun, timer, owed>>,
           leaked \subseteq leaked',
           \A i, r : Settled(i, r)' => Settled(i, r),
           \A t \in owed : Tracks(id, t) /\ ~ Settled(id, t[3]) => t \in leaked'
    PROVE  OwedSoundly'
<1>1. DOMAIN db' = DOMAIN db \ {id} /\ \A i \in DOMAIN db' : db'[i] = db[i]
  BY DEF Without
<1>2. \A i \in DOMAIN db' : \A t : Tracks(i, t) => Tracks(i, t)'
  BY <1>1 DEF Tracks
<1>3. \A h \in Handlers : \A t : InFlight(h, t) => InFlight(h, t)'
  BY DEF InFlight
<1>4. \A t \in owed' \ leaked' : \A i \in DOMAIN db :
         Tracks(i, t) /\ ~ Settled(i, t[3]) =>
            i \in DOMAIN db' /\ Tracks(i, t)' /\ ~ Settled(i, t[3])'
  BY <1>1, <1>2
<1>5. owed' \ leaked' \subseteq owed \ leaked
  OBVIOUS
<1> QED
  BY <1>3, <1>4, <1>5, SoundnessKept DEF IInv

\* RevokeDelete keeps a tracker for each role that stays owed.
LEMMA RevokeDeleteSound ==
    ASSUME IInv, NEW v \in Revokers, RevokeDelete(v)
    PROVE  OwedSoundly'
<1> DEFINE p == revoke[v].rec
           n == revoke[v].id
<1>1. /\ UNCHANGED <<pun, timer, owed>> /\ revoke[v].pc = "delete"
      /\ \A i \in Revokers : revoke'[i] = revoke[i] \/ revoke'[i].pc = "idle"
  BY DEF RevokeDelete, table, ticker, IInv, TypeOK, IdleRev
<1>2. \A i, r : Settled(i, r)' => Settled(i, r)
  BY <1>1 DEF Settled
<1>3. CASE /\ n \in DOMAIN db
           /\ db' = Without(n)
           /\ leaked' = leaked \cup (Triples(p.guild, p.user, revoke[v].failed) \cap owed)
  <2>1. CopyOf(p, n)
    BY <1>1 DEF IInv, CopiesOK, RevocationCopies
  <2>2. ASSUME NEW t \in owed, Tracks(n, t), ~ Settled(n, t[3])
        PROVE  t \in leaked'
    <3>1. t[3] \in revoke[v].failed
      BY <1>1, <2>2 DEF Settled
    <3>2. t \in Triples(p.guild, p.user, revoke[v].failed)
      BY <1>3, <2>1, <2>2, <3>1 DEF Tracks, CopyOf, Triples
    <3> QED
      BY <1>3, <3>2
  <2> QED
    BY <1>1, <1>2, <1>3, <2>2, DeletedRowSound
<1>4. CASE UNCHANGED <<db, leaked>>
  <2>1. \A i, t : Tracks(i, t) => Tracks(i, t)'
    BY <1>4 DEF Tracks
  <2>2. \A h \in Handlers : \A t : InFlight(h, t) => InFlight(h, t)'
    BY <1>1 DEF InFlight
  <2> QED
    BY <1>1, <1>2, <1>4, <2>1, <2>2, SoundnessKept DEF IInv
<1> QED
  BY <1>3, <1>4 DEF RevokeDelete

\* DeletePunishment keeps a tracker for each role that stays owed.
LEMMA DeletePunishmentSound ==
    ASSUME IInv, NEW id \in DOMAIN db, DeletePunishment(id)
    PROVE  OwedSoundly'
<1>1. UNCHANGED <<pun, timer, revoke, owed>> /\ db' = Without(id)
  BY DEF DeletePunishment, ticker
<1>2. \A i, r : Settled(i, r)' => Settled(i, r)
  BY <1>1 DEF Settled
<1>3. leaked \subseteq leaked' /\ \A t \in owed : Tracks(id, t) => t \in leaked'
  BY DEF DeletePunishment, Tracks
<1> QED
  BY <1>1, <1>2, <1>3, DeletedRowSound

\* Crash keeps a tracker for each role that stays owed.
LEMMA CrashSound ==
    ASSUME IInv, Crash
    PROVE  OwedSoundly'
<1>1. UNCHANGED <<db, owed>> /\ timer'.pc = "idle" /\ \A v \in Revokers : revoke'[v].pc = "idle"
  BY DEF Crash, table, IdleTimer, IdleRev
<1>2. leaked' = leaked \cup {t \in owed : \E h \in Handlers : InFlight(h, t)}
  BY DEF Crash, InFlight
<1>3. SUFFICES ASSUME NEW t \in owed' \ leaked'
               PROVE  \E id \in DOMAIN db' : (Tracks(id, t) /\ ~ Settled(id, t[3]))'
  BY DEF OwedSoundly
<1>4. t \in owed \ leaked /\ ~ \E h \in Handlers : InFlight(h, t)
  BY <1>1, <1>2
<1>5. PICK id \in DOMAIN db : Tracks(id, t)
  BY <1>4 DEF IInv, OwedSoundly
<1>6. Tracks(id, t)' /\ ~ Settled(id, t[3])'
  BY <1>1, <1>5 DEF Tracks, Settled
<1> QED
  BY <1>1, <1>6
-----------------------------------------------------------------------------
\* The invariant holds initially.
LEMMA InitIInv == Init => IInv
<1> SUFFICES ASSUME Init PROVE IInv
  OBVIOUS
<1>1. TypeOK
  BY InitType
<1>2. /\ DOMAIN db = {} /\ DOMAIN snap = {} /\ owed = {}
      /\ timer.pc = "idle" /\ \A v \in Revokers : revoke[v].pc = "idle"
  BY DEF Init, NoRows, IdleTimer, IdleRev
<1> QED
  BY <1>1, <1>2 DEF IInv, CopiesOK, ListsItsRoles, SnapshotFresh, RevocationCopies, OwedSoundly

\* The inductive step: one case per action.
LEMMA NextIInv == IInv /\ [Next]_vars => IInv'
<1> SUFFICES ASSUME IInv, [Next]_vars PROVE IInv'
  OBVIOUS
<1> USE DEF IInv
<1>1. TypeOK'
  BY NextType
<1> SUFFICES CopiesOK' /\ OwedSoundly'
  BY <1>1
<1>2. CASE UNCHANGED vars
  BY <1>2, CopiesUnchanged, HandlersOnlySound DEF vars, table, ticker
<1>3. ASSUME NEW h \in Handlers, Punish(h) PROVE CopiesOK' /\ OwedSoundly'
  <2>1. ASSUME NEW g \in Guilds, NEW u \in Users, NEW a \in Actions, NEW self \in BOOLEAN,
               BeginPunish(h, g, u, a, self)
        PROVE  CopiesOK' /\ OwedSoundly'
    <3>1. /\ UNCHANGED <<table, ticker, revoke, owed, leaked>>
          /\ \A i \in Handlers : pun[i].pc = "insert" => pun'[i] = pun[i]
      BY <2>1 DEF BeginPunish, TypeOK, HandlersTypeOK
    <3> QED
      BY <3>1, CopiesUnchanged, HandlersOnlySound DEF table, ticker
  <2>2. CASE DeterminePunishmentLevel(h)
    <3>1. /\ UNCHANGED <<table, ticker, revoke, owed, leaked>>
          /\ \A i \in Handlers : pun[i].pc = "insert" => pun'[i] = pun[i]
      BY <2>2 DEF DeterminePunishmentLevel, TypeOK, HandlersTypeOK
    <3> QED
      BY <3>1, CopiesUnchanged, HandlersOnlySound DEF table, ticker
  <2>3. CASE ApplyPunishmentLevel(h)
    <3>1. UNCHANGED <<table, ticker, revoke>>
      BY <2>3 DEF ApplyPunishmentLevel
    <3> QED
      BY <2>3, <3>1, CopiesUnchanged, ApplyPunishmentLevelSound
  <2>4. CASE AddPunishmentRecord(h)
    BY <2>4, AddPunishmentRecordCopies, AddPunishmentRecordSound
  <2> QED
    BY <1>3, <2>1, <2>2, <2>3, <2>4 DEF Punish
<1>4. CASE ResetAllPunishLocks \/ \E u \in Users : PunishLockExpires(u)
  <2>1. UNCHANGED <<table, ticker, revoke, pun, owed, leaked>>
    BY <1>4 DEF ResetAllPunishLocks, PunishLockExpires
  <2> QED
    BY <2>1, CopiesUnchanged, HandlersOnlySound DEF table, ticker
<1>5. CASE TimerStep
  <2>1. CASE ProcessPunishmentTimers
    BY <2>1, ProcessPunishmentTimersCopies, ProcessPunishmentTimersSound
  <2>2. ASSUME NEW id \in DOMAIN snap, LoadRolesRemoveAt(id) PROVE CopiesOK' /\ OwedSoundly'
    BY <2>2, LoadRolesRemoveAtCopies, LoadRolesRemoveAtSound
  <2>3. CASE RemoveExpiredRoles
    BY <2>3, RemoveExpiredRolesCopies, RemoveExpiredRolesSound
  <2>4. CASE PersistRemainingRoles
    BY <2>4, PersistRemainingRolesCopies, PersistRemainingRolesSound
  <2>5. CASE FinishRecord
    BY <2>5, FinishRecordCopies, FinishRecordSound
  <2> QED
    BY <1>5, <2>1, <2>2, <2>3, <2>4, <2>5 DEF TimerStep
<1>6. ASSUME NEW v \in Revokers, Revoke(v) PROVE CopiesOK' /\ OwedSoundly'
  <2>1. ASSUME NEW id \in DOMAIN db, RevokePunishment(v, id) PROVE CopiesOK' /\ OwedSoundly'
    BY <2>1, RevokePunishmentCopies, RevokePunishmentSound
  <2>2. CASE RevokeRoles(v)
    BY <2>2, RevokeRolesCopies, RevokeRolesSound
  <2>3. CASE RevokeDelete(v)
    BY <2>3, RevokeDeleteCopies, RevokeDeleteSound
  <2> QED
    BY <1>6, <2>1, <2>2, <2>3 DEF Revoke
<1>7. ASSUME NEW id \in DOMAIN db, DeletePunishment(id) PROVE CopiesOK' /\ OwedSoundly'
  BY <1>7, DeletePunishmentCopies, DeletePunishmentSound
<1>8. CASE Tick
  <2>1. UNCHANGED <<table, ticker, revoke, pun, owed, leaked>>
    BY <1>8 DEF Tick
  <2> QED
    BY <2>1, CopiesUnchanged, HandlersOnlySound DEF table, ticker
<1>9. CASE Crash
  BY <1>9, CrashCopies, CrashSound
<1> QED
  BY <1>2, <1>3, <1>4, <1>5, <1>6, <1>7, <1>8, <1>9 DEF Next

\* A role given for a limited time and still held is listed by an active record,
\* or a handler is about to file the record, unless a failure lost it.
THEOREM OwedNeverForgotten == Spec => []OwedRolesTracked
<1>1. IInv => OwedRolesTracked
  BY DEF IInv, OwedSoundly, OwedRolesTracked
<1> QED
  BY <1>1, InitIInv, NextIInv, PTL DEF Spec
-----------------------------------------------------------------------------
(* The timer is never early, where it cannot take a permanent level for    *)
(* another one.                                                            *)

\* A record has no removal times when its level is permanent, or when all its roles were
\* removed and the process ended before the record was completed.  The timer cannot tell
\* and looks for a level with the same roles, or for the only day count of the action.
\* Here there is none for the roles of a permanent level.
PermanentStays ==
    \A g \in Guilds, a \in Actions :
        LET data == PunishConfig[g][a]
        IN  \A n \in DOMAIN data : data[n].addRoleDays = 0 =>
                \A given \in SUBSET Added(data[n]) :
                    given # {} => MatchTimeoutDays(given, data) = {}

Configured(g, a, level) == \E n \in DOMAIN PunishConfig[g][a] : level = PunishConfig[g][a][n]

\* What a handler applies is a level of the config, and it gives only its roles.
LevelsApplied ==
    \A h \in Handlers :
        /\ pun[h].pc \in {"apply", "insert"} => Configured(pun[h].guild, pun[h].action, pun[h].level)
        /\ pun[h].pc = "insert" => pun[h].tempRoles \subseteq Added(pun[h].level)

\* The removal time of a record is the one of its punishment, or that has passed; and a
\* list of removal times that is empty has been emptied, or the level is permanent.
InTime(p, today) ==
    /\ Configured(p.guild, p.action, p.level) /\ p.tempRoles \subseteq Added(p.level)
    /\ p.rolesRemoveAt # {} => p.level.addRoleDays > 0 /\ (p.removeTime = p.due \/ p.due < today)
    /\ p.rolesRemoveAt = {} /\ p.tempRoles # {} /\ p.level.addRoleDays > 0 => p.due < today

\* The columns that tell which punishment a record is of.
SamePunishment(p, q) == p.level = q.level /\ p.due = q.due

RowsInTime ==
    /\ \A id \in DOMAIN db : InTime(db[id], now)
    /\ \A id \in DOMAIN snap : InTime(snap[id], now)
    /\ \A id \in DOMAIN snap : id \in DOMAIN db => SamePunishment(snap[id], db[id])

\* Where the timer is about to take roles away the level gave them for a number of days;
\* where it has taken some, these have passed.
TimerInTime ==
    /\ timer.clock <= now
    /\ timer.pc = "remove" => /\ snap[timer.id].level.addRoleDays > 0
                              /\ timer.time = snap[timer.id].due \/ snap[timer.id].due < now
    /\ timer.pc = "persist" => snap[timer.id].level.addRoleDays > 0 /\ snap[timer.id].due < now

TimeInv == LevelsApplied /\ RowsInTime /\ TimerInTime

\* No record and no level is there initially.
LEMMA InitTime == Init => TimeInv
<1> SUFFICES ASSUME Init PROVE TimeInv
  OBVIOUS
<1>1. DOMAIN db = {} /\ DOMAIN snap = {} /\ timer.pc = "idle" /\ timer.clock = 0 /\ now = 0
  BY DEF Init, NoRows, IdleTimer
<1>2. \A h \in Handlers : pun[h].pc = "idle"
  BY DEF Init, IdlePun
<1> QED
  BY <1>1, <1>2 DEF TimeInv, LevelsApplied, RowsInTime, TimerInTime

\* The level that determinePunishmentLevel picks is one of the config.
LEMMA LevelIsConfigured ==
    ASSUME NEW g \in Guilds, NEW a \in Actions, NEW count, DOMAIN PunishConfig[g][a] # {}
    PROVE  Configured(g, a, PunishConfig[g][a][LevelNumber(PunishConfig[g][a], count)])
<1> DEFINE data == PunishConfig[g][a]
<1>1. \E n \in DOMAIN data : \A m \in DOMAIN data : m <= n
  BY ConfigAssumption
<1>2. LevelNumber(data, count) \in DOMAIN data
  BY <1>1 DEF LevelNumber
<1> QED
  BY <1>2 DEF Configured

\* The levels stay those of the config while at most handler h moves.
LEMMA LevelsKept ==
    ASSUME LevelsApplied, HandlersTypeOK, NEW h \in Handlers, NEW job, pun' = [pun EXCEPT ![h] = job],
           job.pc \in {"apply", "insert"} => Configured(job.guild, job.action, job.level),
           job.pc = "insert" => job.tempRoles \subseteq Added(job.level)
    PROVE  LevelsApplied'
<1>1. pun'[h] = job /\ \A i \in Handlers : i # h => pun'[i] = pun[i]
  BY DEF HandlersTypeOK
<1> QED
  BY <1>1 DEF LevelsApplied

\* Rows that come or change are in time, and what the timer keeps of its pass stays.
LEMMA RowsKept ==
    ASSUME RowsInTime, UNCHANGED now,
           DOMAIN snap' \subseteq DOMAIN snap, \A i \in DOMAIN snap' : snap'[i] = snap[i],
           \A i \in DOMAIN db' : i \in DOMAIN db \/ i \notin DOMAIN snap,
           \A i \in DOMAIN db' : \/ InTime(db'[i], now)
                                 \/ i \in DOMAIN db /\ db'[i] = db[i],
           \A i \in DOMAIN db' : i \in DOMAIN db => SamePunishment(db[i], db'[i])
    PROVE  RowsInTime'
<1>1. \A i \in DOMAIN db' : InTime(db'[i], now)
  BY DEF RowsInTime
<1>2. \A i \in DOMAIN snap' : InTime(snap'[i], now)
  BY DEF RowsInTime
<1>3. \A i \in DOMAIN snap' : i \in DOMAIN db' => SamePunishment(snap'[i], db'[i])
  BY DEF RowsInTime, SamePunishment
<1> QED
  BY <1>1, <1>2, <1>3 DEF RowsInTime

\* A step that leaves the table, the timer and the day alone.
LEMMA TimeUnchanged ==
    ASSUME TimeInv, UNCHANGED <<now, db, timer, snap>>
    PROVE  RowsInTime' /\ TimerInTime'
  BY DEF TimeInv, RowsInTime, TimerInTime, InTime, SamePunishment

\* A deleted row takes nothing from the rows and the pass that stay.
LEMMA DeletedRowTime ==
    ASSUME TimeInv, NEW id, db' = Without(id), UNCHANGED <<now, timer, snap>>
    PROVE  RowsInTime' /\ TimerInTime'
<1>1. DOMAIN db' \subseteq DOMAIN db /\ \A i \in DOMAIN db' : db'[i] = db[i]
  BY DEF Without
<1> QED
  BY <1>1 DEF TimeInv, RowsInTime, TimerInTime, InTime, SamePunishment

\* The pass drops a record.
LEMMA NextRecordTime ==
    ASSUME TypeOK, TimerInTime, NEW id, NextRecord(id), UNCHANGED now
    PROVE  /\ TimerInTime'
           /\ DOMAIN snap' \subseteq DOMAIN snap /\ \A i \in DOMAIN snap' : snap'[i] = snap[i]
<1>1. timer'.pc \in {"idle", "scan"} /\ timer'.clock \in {0, timer.clock}
  BY DEF NextRecord, IdleTimer
<1>2. now \in Nat /\ timer.clock <= now
  BY BoundAssumption DEF TypeOK, TimerInTime
<1>3. timer'.clock <= now'
  BY <1>1, <1>2
<1> QED
  BY <1>1, <1>3 DEF TimerInTime, NextRecord

\* A punishment that is filed for the first time is due at the removal time of its roles.
LEMMA AddPunishmentRecordTime ==
    ASSUME IInv, TimeInv, NEW h \in Handlers, AddPunishmentRecord(h)
    PROVE  TimeInv'
<1> DEFINE j == pun[h]
           timed == Timed(j.level, j.tempRoles)
<1>1. LevelsApplied'
  BY LevelsKept DEF AddPunishmentRecord, IdlePun, IInv, TypeOK, TimeInv
<1>2. UNCHANGED <<now, timer, snap>> /\ j.pc = "insert"
  BY DEF AddPunishmentRecord, ticker
<1>3. CASE UNCHANGED table
  BY <1>1, <1>2, <1>3, TimeUnchanged DEF table, TimeInv
<1>4. CASE ~ UNCHANGED table
  <2>1. PICK n \in Nat : n = nextID
    BY DEF IInv, TypeOK
  <2>2. n \notin DOMAIN db /\ n \notin DOMAIN snap
    BY <2>1 DEF IInv, TypeOK, TimerTypeOK, IsRows, CopiesOK, SnapshotFresh, CopyOf
  <2>3. db' = [id \in DOMAIN db \cup {n} |->
                 IF id = n
                 THEN [guild |-> j.guild, user |-> j.user, action |-> j.action,
                       timestamp |-> now, tempRoles |-> j.tempRoles,
                       rolesRemoveAt |-> timed, removeTime |-> j.removeTime,
                       status |-> "active", level |-> j.level, due |-> j.removeTime]
                 ELSE db[id]]
    BY <1>4, <2>1 DEF AddPunishmentRecord
  <2> HIDE DEF timed
  <2>4. /\ DOMAIN db' = DOMAIN db \cup {n} /\ \A i \in DOMAIN db : db'[i] = db[i]
        /\ db'[n].guild = j.guild /\ db'[n].action = j.action /\ db'[n].level = j.level
        /\ db'[n].tempRoles = j.tempRoles /\ db'[n].rolesRemoveAt = timed
        /\ db'[n].removeTime = j.removeTime /\ db'[n].due = j.removeTime
    BY <2>2, <2>3
  <2>5. Configured(j.guild, j.action, j.level) /\ j.tempRoles \subseteq Added(j.level)
    BY <1>2 DEF TimeInv, LevelsApplied
  <2>6. InTime(db'[n], now)
    <3>1. db'[n].rolesRemoveAt # {} => db'[n].level.addRoleDays > 0
      BY <2>4 DEF timed, Timed
    <3>2. db'[n].rolesRemoveAt = {} /\ db'[n].tempRoles # {} => ~ (db'[n].level.addRoleDays > 0)
      BY <2>4 DEF timed, Timed
    <3> QED
      BY <2>4, <2>5, <3>1, <3>2 DEF InTime
  <2>7. RowsInTime'
    <3>1. \A i \in DOMAIN db' : i \in DOMAIN db \/ i \notin DOMAIN snap
      BY <2>2, <2>4
    <3>2. \A i \in DOMAIN db' : InTime(db'[i], now) \/ (i \in DOMAIN db /\ db'[i] = db[i])
      BY <2>4, <2>6
    <3>3. \A i \in DOMAIN db' : i \in DOMAIN db => SamePunishment(db[i], db'[i])
      BY <2>4 DEF SamePunishment
    <3> QED
      BY <1>2, <3>1, <3>2, <3>3, RowsKept DEF TimeInv
  <2>8. TimerInTime'
    BY <1>2 DEF TimeInv, TimerInTime
  <2> QED
    BY <1>1, <2>7, <2>8 DEF TimeInv
<1> QED
  BY <1>3, <1>4

\* A new pass copies rows that are in time.
LEMMA ProcessPunishmentTimersTime ==
    ASSUME IInv, TimeInv, ProcessPunishmentTimers
    PROVE  RowsInTime' /\ TimerInTime'
<1>1. /\ GetActivePunishments \subseteq DOMAIN db
      /\ snap' = [id \in GetActivePunishments |-> db[id]]
      /\ UNCHANGED <<now, db>>
  BY DEF ProcessPunishmentTimers, GetActivePunishments, table
<1>2. RowsInTime'
  BY <1>1 DEF TimeInv, RowsInTime, SamePunishment
<1>3. timer'.pc \in {"idle", "scan"} /\ timer'.clock \in {0, now}
  BY DEF ProcessPunishmentTimers, IdleTimer
<1>4. now \in Nat
  BY BoundAssumption DEF IInv, TypeOK
<1>5. timer'.clock <= now'
  BY <1>1, <1>3, <1>4
<1> QED
  BY <1>2, <1>3, <1>5 DEF TimerInTime

\* Where matchTimeoutDays finds a day count for a record with roles, its level is not
\* permanent: the list of the record has been emptied, and its roles are due.
LEMMA RebuiltIsDue ==
    ASSUME PermanentStays, NEW p \in Record, NEW today, InTime(p, today),
           p.rolesRemoveAt = {}, p.tempRoles # {}, RebuildRolesRemoveAt(p) # {}
    PROVE  p.level.addRoleDays > 0 /\ p.due < today
<1> DEFINE data == PunishConfig[p.guild][p.action]
<1>1. p.guild \in Guilds /\ p.action \in Actions /\ p.level \in PunishLevel
  BY DEF Record
<1>2. PICK n \in DOMAIN data : p.level = data[n]
  BY DEF InTime, Configured
<1>3. p.tempRoles \in SUBSET Added(data[n])
  BY <1>2 DEF InTime
<1>4. MatchTimeoutDays(p.tempRoles, data) # {}
  BY DEF RebuildRolesRemoveAt
<1>5. data[n].addRoleDays # 0
  BY <1>1, <1>3, <1>4 DEF PermanentStays
<1>6. p.level.addRoleDays \in Nat
  BY <1>1 DEF PunishLevel
<1>7. p.level.addRoleDays > 0
  BY <1>2, <1>5, <1>6
<1> QED
  BY <1>7 DEF InTime

\* An UPDATE of roles_remove_at leaves alone what the punishment is and when it is due.
LEMMA RowUpdateTime ==
    ASSUME IsRows(db), NEW id, NEW left \in SUBSET Roles, NEW time \in Nat,
           RemoveExpiredRoleFromPunishment(id, left, time), InTime(db[id], now),
           db[id].level.addRoleDays > 0, time = db[id].due \/ db[id].due < now,
           left = {} => db[id].due < now
    PROVE  /\ id \in DOMAIN db /\ DOMAIN db' = DOMAIN db /\ InTime(db'[id], now)
           /\ \A i \in DOMAIN db : i # id => db'[i] = db[i]
           /\ \A i \in DOMAIN db : SamePunishment(db[i], db'[i])
<1> DEFINE row == [db[id] EXCEPT !.rolesRemoveAt = left, !.removeTime = time]
<1>1. id \in DOMAIN db /\ db' = [db EXCEPT ![id] = row]
  BY DEF RemoveExpiredRoleFromPunishment
<1>2. db[id] \in Record
  BY <1>1 DEF IsRows
<1>3. /\ row.rolesRemoveAt = left /\ row.removeTime = time
      /\ row.tempRoles = db[id].tempRoles /\ row.guild = db[id].guild
      /\ row.action = db[id].action /\ row.level = db[id].level /\ row.due = db[id].due
  BY <1>2 DEF Record
<1> HIDE DEF row
<1>4. InTime(row, now)
  BY <1>3 DEF InTime
<1>5. SamePunishment(db[id], row)
  BY <1>3 DEF SamePunishment
<1>6. db'[id] = row /\ \A i \in DOMAIN db : i # id => db'[i] = db[i]
  BY <1>1
<1> QED
  BY <1>1, <1>4, <1>5, <1>6 DEF SamePunishment

\* What the timer works on is what the record says, or what it has rebuilt and saved.
LEMMA LoadRolesRemoveAtTime ==
    ASSUME PermanentStays, IInv, TimeInv, NEW id \in DOMAIN snap, LoadRolesRemoveAt(id)
    PROVE  RowsInTime' /\ TimerInTime'
<1> DEFINE p == snap[id]
<1>1. UNCHANGED now /\ p \in Record /\ p.tempRoles # {} /\ InTime(p, now)
  BY DEF LoadRolesRemoveAt, IInv, TypeOK, TimerTypeOK, IsRows, CopiesOK, SnapshotFresh,
         TimeInv, RowsInTime
<1>2. CASE NextRecord(id) /\ UNCHANGED db
  <2>1. /\ TimerInTime'
        /\ DOMAIN snap' \subseteq DOMAIN snap /\ \A i \in DOMAIN snap' : snap'[i] = snap[i]
    BY <1>1, <1>2, NextRecordTime DEF IInv, TimeInv
  <2>2. RowsInTime'
    BY <1>1, <1>2, <2>1, RowsKept DEF TimeInv, SamePunishment
  <2> QED
    BY <2>1, <2>2
<1>3. ASSUME NEW work, NEW time, WorkOn(id, work, time), p.level.addRoleDays > 0,
             time = p.due \/ p.due < now
      PROVE  TimerInTime'
  <2>1. /\ timer'.pc = "remove" /\ timer'.id = id /\ timer'.time = time
        /\ timer'.clock = timer.clock /\ snap' = snap
    BY <1>3 DEF WorkOn, IInv, TypeOK, TimerTypeOK
  <2> QED
    BY <1>1, <1>3, <2>1 DEF TimeInv, TimerInTime
<1>4. CASE p.rolesRemoveAt # {} /\ WorkOn(id, p.rolesRemoveAt, p.removeTime) /\ UNCHANGED db
  <2>1. p.level.addRoleDays > 0 /\ (p.removeTime = p.due \/ p.due < now)
    BY <1>1, <1>4 DEF InTime
  <2>2. snap' = snap
    BY <1>4 DEF WorkOn
  <2>3. RowsInTime'
    BY <1>1, <1>4, <2>2 DEF TimeInv, RowsInTime
  <2> QED
    BY <1>3, <1>4, <2>1, <2>3
<1>5. CASE /\ p.rolesRemoveAt = {}
           /\ \E t \in RebuildRolesRemoveAt(p) :
                /\ WorkOn(id, p.tempRoles, t)
                /\ RemoveExpiredRoleFromPunishment(id, p.tempRoles, t)
  <2>1. PICK t \in Nat : /\ WorkOn(id, p.tempRoles, t)
                         /\ RemoveExpiredRoleFromPunishment(id, p.tempRoles, t)
    BY <1>1, <1>5, RebuildType
  <2>2. p.level.addRoleDays > 0 /\ p.due < now
    BY <1>1, <1>5, RebuiltIsDue
  <2>3. id \in DOMAIN db /\ InTime(db[id], now) /\ SamePunishment(p, db[id])
    BY <2>1 DEF RemoveExpiredRoleFromPunishment, TimeInv, RowsInTime
  <2>4. p.tempRoles \in SUBSET Roles /\ IsRows(db)
    BY <1>1 DEF Record, IInv, TypeOK
  <2>5. db[id].level.addRoleDays > 0 /\ db[id].due < now
    BY <2>2, <2>3 DEF SamePunishment
  <2>6. /\ DOMAIN db' = DOMAIN db /\ InTime(db'[id], now)
        /\ \A i \in DOMAIN db : i # id => db'[i] = db[i]
        /\ \A i \in DOMAIN db : SamePunishment(db[i], db'[i])
    BY <2>1, <2>3, <2>4, <2>5, RowUpdateTime
  <2>7. snap' = snap
    BY <2>1 DEF WorkOn
  <2>8. \A i \in DOMAIN db' : InTime(db'[i], now) \/ (i \in DOMAIN db /\ db'[i] = db[i])
    BY <2>6
  <2>9. RowsInTime'
    BY <1>1, <2>6, <2>7, <2>8, RowsKept DEF TimeInv
  <2>10. TimerInTime'
    BY <1>3, <2>1, <2>2
  <2> QED
    BY <2>9, <2>10
<1> QED
  BY <1>2, <1>4, <1>5 DEF LoadRolesRemoveAt

\* The loop over the roles takes one away only when the clock of the pass is past its
\* time, and the clock is not ahead of the day.
LEMMA TakenIsDue ==
    ASSUME IInv, TimeInv, timer.pc = "remove", Expired(timer.work, timer.time) # {}
    PROVE  snap[timer.id].level.addRoleDays > 0 /\ snap[timer.id].due < now
<1>1. timer.clock > timer.time
  BY DEF Expired
<1>2. timer.clock \in Nat /\ timer.time \in Nat /\ now \in Nat
  BY BoundAssumption DEF IInv, TypeOK, TimerTypeOK
<1>3. /\ timer.clock <= now /\ snap[timer.id].level.addRoleDays > 0
      /\ timer.time = snap[timer.id].due \/ snap[timer.id].due < now
  BY DEF TimeInv, TimerInTime
<1>4. CASE timer.time = snap[timer.id].due
  <2>1. PICK due : due = snap[timer.id].due
    OBVIOUS
  <2>2. due < now
    BY <1>1, <1>2, <1>3, <1>4, <2>1
  <2> QED
    BY <1>3, <2>1, <2>2
<1> QED
  BY <1>3, <1>4

\* RemoveExpiredRoles keeps every record in time.
LEMMA RemoveExpiredRolesTime ==
    ASSUME IInv, TimeInv, RemoveExpiredRoles
    PROVE  RowsInTime' /\ TimerInTime'
<1>1. UNCHANGED <<now, db, snap>> /\ timer.pc = "remove"
  BY DEF RemoveExpiredRoles, table
<1>2. RowsInTime'
  BY <1>1 DEF TimeInv, RowsInTime
<1>3. PICK gone \in SUBSET Expired(timer.work, timer.time) :
         timer' = [timer EXCEPT !.work = Remaining(timer.work, Expired(timer.work, timer.time), gone),
                                !.pc = IF gone = {} THEN "finish" ELSE "persist"]
  BY DEF RemoveExpiredRoles
<1>4. /\ timer'.id = timer.id /\ timer'.clock = timer.clock
      /\ timer'.pc \in {"finish", "persist"} /\ (timer'.pc = "persist" => gone # {})
  BY <1>3 DEF IInv, TypeOK, TimerTypeOK
<1>5. timer'.pc = "persist" => Expired(timer.work, timer.time) # {}
  BY <1>3, <1>4
<1>6. timer'.pc = "persist" => snap[timer.id].level.addRoleDays > 0 /\ snap[timer.id].due < now
  BY <1>1, <1>5, TakenIsDue
<1> QED
  BY <1>1, <1>2, <1>4, <1>6 DEF TimeInv, TimerInTime

\* PersistRemainingRoles keeps every record in time.
LEMMA PersistRemainingRolesTime ==
    ASSUME IInv, TimeInv, PersistRemainingRoles
    PROVE  RowsInTime' /\ TimerInTime'
<1> DEFINE p == snap[timer.id]
<1>1. /\ UNCHANGED now /\ timer.id \in DOMAIN snap
      /\ p.level.addRoleDays > 0 /\ p.due < now
  BY DEF PersistRemainingRoles, IInv, TypeOK, TimerTypeOK, TimeInv, TimerInTime
<1>2. CASE NextRecord(timer.id) /\ UNCHANGED db
  <2>1. /\ TimerInTime'
        /\ DOMAIN snap' \subseteq DOMAIN snap /\ \A i \in DOMAIN snap' : snap'[i] = snap[i]
    BY <1>1, <1>2, NextRecordTime DEF IInv, TimeInv
  <2>2. RowsInTime'
    BY <1>1, <1>2, <2>1, RowsKept DEF TimeInv, SamePunishment
  <2> QED
    BY <2>1, <2>2
<1>3. CASE /\ RemoveExpiredRoleFromPunishment(timer.id, timer.work, timer.time)
           /\ timer' = [timer EXCEPT !.pc = "finish"]
           /\ UNCHANGED snap
  <2>1. PICK id, work, time : id = timer.id /\ work = timer.work /\ time = timer.time
    OBVIOUS
  <2>2. id \in DOMAIN db /\ InTime(db[id], now) /\ SamePunishment(p, db[id])
    BY <1>1, <1>3, <2>1 DEF RemoveExpiredRoleFromPunishment, TimeInv, RowsInTime
  <2>3. work \in SUBSET Roles /\ time \in Nat /\ IsRows(db)
    BY <2>1 DEF IInv, TypeOK, TimerTypeOK
  <2>4. db[id].level.addRoleDays > 0 /\ db[id].due < now
    BY <1>1, <2>1, <2>2 DEF SamePunishment
  <2>5. RemoveExpiredRoleFromPunishment(id, work, time)
    BY <1>3, <2>1
  <2>6. /\ DOMAIN db' = DOMAIN db /\ InTime(db'[id], now)
        /\ \A i \in DOMAIN db : i # id => db'[i] = db[i]
        /\ \A i \in DOMAIN db : SamePunishment(db[i], db'[i])
    BY <2>2, <2>3, <2>4, <2>5, RowUpdateTime
  <2>7. \A i \in DOMAIN db' : InTime(db'[i], now) \/ (i \in DOMAIN db /\ db'[i] = db[i])
    BY <2>6
  <2>8. RowsInTime'
    BY <1>1, <1>3, <2>6, <2>7, RowsKept DEF TimeInv
  <2>9. timer'.pc = "finish" /\ timer'.clock = timer.clock
    BY <1>3 DEF IInv, TypeOK, TimerTypeOK
  <2>10. TimerInTime'
    BY <1>1, <2>9 DEF TimeInv, TimerInTime
  <2> QED
    BY <2>8, <2>10
<1> QED
  BY <1>2, <1>3 DEF PersistRemainingRoles

\* FinishRecord keeps every record in time.
LEMMA FinishRecordTime ==
    ASSUME IInv, TimeInv, FinishRecord
    PROVE  RowsInTime' /\ TimerInTime'
<1>1. UNCHANGED now /\ NextRecord(timer.id)
  BY DEF FinishRecord
<1>2. /\ TimerInTime'
      /\ DOMAIN snap' \subseteq DOMAIN snap /\ \A i \in DOMAIN snap' : snap'[i] = snap[i]
  BY <1>1, NextRecordTime DEF IInv, TimeInv
<1>3. CASE UNCHANGED db
  BY <1>1, <1>2, <1>3, RowsKept DEF TimeInv, SamePunishment
<1>4. CASE /\ timer.id \in DOMAIN db
           /\ db' = [db EXCEPT ![timer.id] = [db[timer.id] EXCEPT !.status = "completed"]]
  <2>1. PICK id \in DOMAIN db : id = timer.id
    BY <1>4
  <2> DEFINE row == [db[id] EXCEPT !.status = "completed"]
  <2>2. db[id] \in Record /\ InTime(db[id], now)
    BY DEF IInv, TypeOK, IsRows, TimeInv, RowsInTime
  <2>3. /\ row.rolesRemoveAt = db[id].rolesRemoveAt /\ row.removeTime = db[id].removeTime
        /\ row.tempRoles = db[id].tempRoles /\ row.guild = db[id].guild
        /\ row.action = db[id].action /\ row.level = db[id].level /\ row.due = db[id].due
    BY <2>2 DEF Record
  <2>4. db' = [db EXCEPT ![id] = row]
    BY <1>4, <2>1
  <2> HIDE DEF row
  <2>5. InTime(row, now) /\ SamePunishment(db[id], row)
    BY <2>2, <2>3 DEF InTime, SamePunishment
  <2>6. /\ DOMAIN db' = DOMAIN db
        /\ \A i \in DOMAIN db' : InTime(db'[i], now) \/ (i \in DOMAIN db /\ db'[i] = db[i])
        /\ \A i \in DOMAIN db' : i \in DOMAIN db => SamePunishment(db[i], db'[i])
    BY <2>4, <2>5 DEF SamePunishment
  <2>7. RowsInTime'
    BY <1>1, <1>2, <2>6, RowsKept DEF TimeInv
  <2> QED
    BY <1>2, <2>7
<1> QED
  BY <1>2, <1>3, <1>4 DEF FinishRecord

\* The day count may grow: what was due stays due.
LEMMA TickTime ==
    ASSUME IInv, TimeInv, Tick
    PROVE  RowsInTime' /\ TimerInTime'
<1>1. now' = now + 1 /\ now \in Nat /\ UNCHANGED <<db, timer, snap>>
  BY BoundAssumption DEF Tick, IInv, TypeOK, table, ticker
<1>2. ASSUME NEW p \in Record, InTime(p, now) PROVE InTime(p, now')
  <2>1. PICK due \in Nat : due = p.due
    BY DEF Record
  <2>2. due < now => due < now'
    BY <1>1, <2>1
  <2> QED
    BY <1>2, <2>1, <2>2 DEF InTime
<1>3. /\ \A id \in DOMAIN db : db[id] \in Record
      /\ \A id \in DOMAIN snap : snap[id] \in Record
  BY DEF IInv, TypeOK, TimerTypeOK, IsRows
<1>4. RowsInTime'
  BY <1>1, <1>2, <1>3 DEF TimeInv, RowsInTime, SamePunishment
<1>5. timer.clock \in Nat /\ timer.clock <= now
  BY DEF IInv, TypeOK, TimerTypeOK, TimeInv, TimerInTime
<1>6. timer'.clock <= now'
  BY <1>1, <1>5
<1>7. ASSUME timer.pc \in {"remove", "persist"}, snap[timer.id].due < now
      PROVE  snap[timer.id].due < now'
  <2>1. timer.id \in DOMAIN snap
    BY <1>7 DEF IInv, TypeOK, TimerTypeOK
  <2>2. PICK due \in Nat : due = snap[timer.id].due
    BY <1>3, <2>1 DEF Record
  <2> QED
    BY <1>1, <1>7, <2>2
<1>8. TimerInTime'
  BY <1>1, <1>6, <1>7 DEF TimeInv, TimerInTime
<1> QED
  BY <1>4, <1>8

\* Crash keeps every record in time.
LEMMA CrashTime ==
    ASSUME IInv, TimeInv, Crash
    PROVE  TimeInv'
<1>1. /\ UNCHANGED <<now, db>> /\ DOMAIN snap' = {} /\ timer'.pc = "idle" /\ timer'.clock = 0
      /\ \A h \in Handlers : pun'[h].pc = "idle"
  BY DEF Crash, table, IdleTimer, NoRows, IdlePun
<1>2. timer'.clock <= now'
  BY <1>1, BoundAssumption DEF IInv, TypeOK
<1> QED
  BY <1>1, <1>2 DEF TimeInv, LevelsApplied, RowsInTime, TimerInTime

\* The four steps of a handler.
LEMMA PunishTime ==
    ASSUME IInv, TimeInv, NEW h \in Handlers, Punish(h)
    PROVE  TimeInv'
<1>1. HandlersTypeOK /\ LevelsApplied
  BY DEF IInv, TypeOK, TimeInv
<1>2. ASSUME NEW g \in Guilds, NEW u \in Users, NEW a \in Actions, NEW self \in BOOLEAN,
             BeginPunish(h, g, u, a, self)
      PROVE  TimeInv'
  <2>1. RowsInTime' /\ TimerInTime'
    BY <1>2, TimeUnchanged DEF BeginPunish, table, ticker
  <2>2. LevelsApplied'
    <3>1. CASE UNCHANGED pun
      BY <1>1, <3>1 DEF LevelsApplied
    <3>2. CASE \E job : job.pc = "count" /\ pun' = [pun EXCEPT ![h] = job]
      BY <1>1, <3>2, LevelsKept
    <3> QED
      BY <1>2, <3>1, <3>2 DEF BeginPunish
  <2> QED
    BY <2>1, <2>2 DEF TimeInv
<1>3. CASE DeterminePunishmentLevel(h)
  <2>1. RowsInTime' /\ TimerInTime'
    BY <1>3, TimeUnchanged DEF DeterminePunishmentLevel, table, ticker
  <2>2. pun[h] \in PunJob /\ DOMAIN PunishConfig[pun[h].guild][pun[h].action] # {}
    BY <1>1, <1>3, BusyHandlerType DEF DeterminePunishmentLevel
  <2>3. PICK level : /\ pun' = [pun EXCEPT ![h].pc = "apply", ![h].level = level]
                     /\ Configured(pun[h].guild, pun[h].action, level)
    <3>1. pun[h].guild \in Guilds /\ pun[h].action \in Actions
      BY <2>2 DEF PunJob
    <3>2. PICK count : count = GetTotalPunishmentCountByUser(pun[h].guild, pun[h].user)
      OBVIOUS
    <3>3. Configured(pun[h].guild, pun[h].action,
                     PunishConfig[pun[h].guild][pun[h].action][
                        LevelNumber(PunishConfig[pun[h].guild][pun[h].action], count)])
      BY <2>2, <3>1, LevelIsConfigured
    <3> QED
      BY <1>3, <3>2, <3>3 DEF DeterminePunishmentLevel
  <2> DEFINE job == [pun[h] EXCEPT !.pc = "apply", !.level = level]
  <2>4. /\ job.pc = "apply" /\ job.level = level
        /\ job.guild = pun[h].guild /\ job.action = pun[h].action
    BY <2>2 DEF PunJob
  <2>5. pun' = [pun EXCEPT ![h] = job]
    BY <2>3
  <2> HIDE DEF job
  <2>6. LevelsApplied'
    BY <1>1, <2>3, <2>4, <2>5, LevelsKept
  <2> QED
    BY <2>1, <2>6 DEF TimeInv
<1>4. CASE ApplyPunishmentLevel(h)
  <2>1. RowsInTime' /\ TimerInTime'
    BY <1>4, TimeUnchanged DEF ApplyPunishmentLevel, table, ticker
  <2>2. pun[h] \in PunJob /\ pun[h].pc = "apply"
    BY <1>1, <1>4, BusyHandlerType DEF ApplyPunishmentLevel
  <2>3. PICK added, time :
          /\ added \subseteq Added(pun[h].level)
          /\ pun' = [pun EXCEPT ![h].pc = "insert", ![h].tempRoles = added, ![h].removeTime = time]
    BY <1>4 DEF ApplyPunishmentLevel
  <2> DEFINE job == [pun[h] EXCEPT !.pc = "insert", !.tempRoles = added, !.removeTime = time]
  <2>4. /\ job.level = pun[h].level /\ job.tempRoles = added
        /\ job.guild = pun[h].guild /\ job.action = pun[h].action
    BY <2>2 DEF PunJob
  <2>5. pun' = [pun EXCEPT ![h] = job]
    BY <2>3
  <2>6. Configured(pun[h].guild, pun[h].action, pun[h].level)
    BY <1>1, <2>2 DEF LevelsApplied
  <2> HIDE DEF job
  <2>7. LevelsApplied'
    BY <1>1, <2>3, <2>4, <2>5, <2>6, LevelsKept
  <2> QED
    BY <2>1, <2>7 DEF TimeInv
<1>5. CASE AddPunishmentRecord(h)
  BY <1>5, AddPunishmentRecordTime
<1> QED
  BY <1>2, <1>3, <1>4, <1>5 DEF Punish

\* The inductive step: one case per action.
LEMMA NextTime ==
    ASSUME PermanentStays, IInv, TimeInv, [Next]_vars
    PROVE  TimeInv'
<1>1. SUFFICES ASSUME ~ \E h \in Handlers : Punish(h), ~ Crash
               PROVE  LevelsApplied' /\ RowsInTime' /\ TimerInTime'
  BY PunishTime, CrashTime DEF TimeInv
<1>2. LevelsApplied'
  <2>1. UNCHANGED pun
    <3>1. CASE TimerStep
      BY <3>1 DEF TimerStep, ProcessPunishmentTimers, LoadRolesRemoveAt, RemoveExpiredRoles,
                  PersistRemainingRoles, FinishRecord
    <3>2. CASE \E v \in Revokers : Revoke(v)
      BY <3>2 DEF Revoke, RevokePunishment, RevokeRoles, RevokeDelete
    <3>3. CASE \/ ResetAllPunishLocks
               \/ Tick
               \/ \E u \in Users : PunishLockExpires(u)
               \/ \E id \in DOMAIN db : DeletePunishment(id)
      BY <3>3 DEF ResetAllPunishLocks, PunishLockExpires, DeletePunishment, Tick
    <3> QED
      BY <1>1, <3>1, <3>2, <3>3 DEF Next, vars
  <2> QED
    BY <2>1 DEF TimeInv, LevelsApplied
<1> SUFFICES RowsInTime' /\ TimerInTime'
  BY <1>2
<1>3. CASE TimerStep
  <2>1. CASE ProcessPunishmentTimers
    BY <2>1, ProcessPunishmentTimersTime
  <2>2. ASSUME NEW id \in DOMAIN snap, LoadRolesRemoveAt(id) PROVE RowsInTime' /\ TimerInTime'
    BY <2>2, LoadRolesRemoveAtTime
  <2>3. CASE RemoveExpiredRoles
    BY <2>3, RemoveExpiredRolesTime
  <2>4. CASE PersistRemainingRoles
    BY <2>4, PersistRemainingRolesTime
  <2>5. CASE FinishRecord
    BY <2>5, FinishRecordTime
  <2> QED
    BY <1>3, <2>1, <2>2, <2>3, <2>4, <2>5 DEF TimerStep
<1>4. ASSUME NEW v \in Revokers, Revoke(v) PROVE RowsInTime' /\ TimerInTime'
  <2>1. UNCHANGED <<now, timer, snap>> /\ (UNCHANGED db \/ db' = Without(revoke[v].id))
    BY <1>4 DEF Revoke, RevokePunishment, RevokeRoles, RevokeDelete, ticker, table
  <2> QED
    BY <2>1, TimeUnchanged, DeletedRowTime
<1>5. ASSUME NEW id \in DOMAIN db, DeletePunishment(id) PROVE RowsInTime' /\ TimerInTime'
  BY <1>5, DeletedRowTime DEF DeletePunishment, ticker
<1>6. CASE ResetAllPunishLocks \/ \E u \in Users : PunishLockExpires(u)
  BY <1>6, TimeUnchanged DEF ResetAllPunishLocks, PunishLockExpires, table, ticker
<1>7. CASE Tick
  BY <1>7, TickTime
<1>8. CASE UNCHANGED vars
  BY <1>8, TimeUnchanged DEF vars
<1> QED
  BY <1>1, <1>3, <1>4, <1>5, <1>6, <1>7, <1>8 DEF Next

\* The timer takes a role away on behalf of a record only when the level of that record
\* gave the role for a number of days and these have passed, whatever calls fail and
\* wherever the process crashes: in every config in which no permanent level can be taken
\* for one that is not.  In the others it does not (run Punishment_permanent).
THEOREM TimerIsNeverEarly == ASSUME PermanentStays PROVE Spec => TimerRemovesOnlyExpired
<1>1. Init => IInv /\ TimeInv
  BY InitIInv, InitTime
<1>2. IInv /\ TimeInv /\ [Next]_vars => (IInv /\ TimeInv)'
  BY NextIInv, NextTime
<1>3. ASSUME IInv, TimeInv, NEW m \in Member, RemoveExpiredRoles, roles[m] \ roles'[m] # {}
      PROVE  snap[timer.id].level.addRoleDays > 0 /\ snap[timer.id].due < now
  <2>1. timer.pc = "remove"
    BY <1>3 DEF RemoveExpiredRoles
  <2>2. PICK n, gone : gone \subseteq Expired(timer.work, timer.time) /\ roles' = [roles EXCEPT ![n] = @ \ gone]
    BY <1>3 DEF RemoveExpiredRoles
  <2>3. gone # {}
    BY <1>3, <2>2 DEF IInv, TypeOK
  <2> QED
    BY <1>3, <2>1, <2>2, <2>3, TakenIsDue
<1>4. IInv /\ TimeInv => [ \A m \in Member : RemoveExpiredRoles /\ roles[m] \ roles'[m] # {} =>
          LET p == snap[timer.id]
          IN  p.level.addRoleDays > 0 /\ p.due < now ]_vars
  BY <1>3
<1> QED
  BY <1>1, <1>2, <1>4, PTL DEF Spec, TimerRemovesOnlyExpired
-----------------------------------------------------------------------------
(* A revocation takes back the level that was applied, while handlers do   *)
(* not overlap and the levels suffice for the punishments there are.       *)

OneHandler == \A h, k \in Handlers : h = k

LevelForEveryCount ==
    \A g \in Guilds, a \in Actions : 0 .. (MaxRecords - 1) \subseteq DOMAIN PunishConfig[g][a]

Alike(p, q) == p.guild = q.guild /\ p.user = q.user /\ p.action = q.action

\* The columns of a record that its command fixes.
SameCommand(p, q) == Alike(p, q) /\ p.timestamp = q.timestamp /\ p.level = q.level

\* The n - 1 first punishments are all there and are of the kind of p.
AllBefore(rows, n, p) ==
    1 .. (n - 1) \subseteq DOMAIN rows /\ \A i \in 1 .. (n - 1) : Alike(rows[i], p)

\* The level of the n-th punishment of a member.
LevelOf(p, n) ==
    PunishConfig[p.guild][p.action][LevelNumber(PunishConfig[p.guild][p.action], n - 1)]

\* Later records have the higher IDs; and a handler at work has an ID to use.
FiledInOrder ==
    /\ \A id \in DOMAIN db : id \in 1 .. MaxRecords /\ db[id].timestamp <= now
    /\ \A i, j \in DOMAIN db : i < j => db[i].timestamp <= db[j].timestamp
    /\ nextID <= MaxRecords + 1
    /\ \A h \in Handlers : pun[h].pc # "idle" => nextID <= MaxRecords

RowLevels ==
    \A id \in DOMAIN db : AllBefore(db, id, db[id]) => db[id].level = LevelOf(db[id], id)

JobLevels ==
    \A h \in Handlers : pun[h].pc \in {"apply", "insert"} /\ AllBefore(db, nextID, pun[h]) =>
        pun[h].level = LevelOf(pun[h], nextID)

RevokedLevels ==
    \A v \in Revokers : revoke[v].pc # "idle" =>
        /\ revoke[v].id \in 1 .. MaxRecords
        /\ revoke[v].id \in DOMAIN db => revoke[v].rec.level = db[revoke[v].id].level

LevelInv == FiledInOrder /\ RowLevels /\ JobLevels /\ RevokedLevels

\* No punishment is there initially.
LEMMA InitLevel == Init => LevelInv
<1> SUFFICES ASSUME Init PROVE LevelInv
  OBVIOUS
<1>1. /\ DOMAIN db = {} /\ nextID = 1 /\ \A h \in Handlers : pun[h].pc = "idle"
      /\ \A v \in Revokers : revoke[v].pc = "idle"
  BY DEF Init, NoRows, IdlePun, IdleRev
<1> QED
  BY <1>1, BoundAssumption DEF LevelInv, FiledInOrder, RowLevels, JobLevels, RevokedLevels

\* Rows that go, or keep what their command fixed, leave no more punishments before one.
LEMMA AllBeforeKept ==
    ASSUME NEW old, NEW new, DOMAIN new \subseteq DOMAIN old,
           \A i \in DOMAIN new : SameCommand(old[i], new[i]),
           NEW n, NEW p, NEW q, Alike(p, q), AllBefore(new, n, q)
    PROVE  AllBefore(old, n, p) /\ LevelOf(p, n) = LevelOf(q, n)
  BY DEF AllBefore, Alike, SameCommand, LevelOf

\* A step that files no record and moves no handler.
LEMMA CommandsKept ==
    ASSUME TypeOK, FiledInOrder, RowLevels, JobLevels, UNCHANGED <<nextID, pun>>,
           now' \in Nat, now <= now', DOMAIN db' \subseteq DOMAIN db,
           \A i \in DOMAIN db' : SameCommand(db[i], db'[i])
    PROVE  FiledInOrder' /\ RowLevels' /\ JobLevels'
<1>1. FiledInOrder'
  <2>1. \A i \in DOMAIN db' : db'[i].timestamp = db[i].timestamp /\ db[i].timestamp \in Nat
    BY DEF SameCommand, TypeOK, IsRows, Record
  <2>2. now \in Nat
    BY BoundAssumption DEF TypeOK
  <2>3. \A i \in DOMAIN db' : i \in 1 .. MaxRecords /\ db'[i].timestamp <= now'
    <3>1. ASSUME NEW i \in DOMAIN db' PROVE db'[i].timestamp <= now'
      <4>1. PICK t \in Nat : t = db[i].timestamp /\ t = db'[i].timestamp
        BY <2>1
      <4>2. t <= now
        BY <4>1 DEF FiledInOrder
      <4> QED
        BY <2>2, <4>1, <4>2
    <3> QED
      BY <3>1 DEF FiledInOrder
  <2>4. \A i, j \in DOMAIN db' : i < j => db'[i].timestamp <= db'[j].timestamp
    BY <2>1 DEF FiledInOrder
  <2> QED
    BY <2>3, <2>4 DEF FiledInOrder
<1>2. RowLevels'
  <2>1. ASSUME NEW id \in DOMAIN db', AllBefore(db', id, db'[id])
        PROVE  db'[id].level = LevelOf(db'[id], id)
    <3>1. Alike(db[id], db'[id]) /\ db[id].level = db'[id].level
      BY DEF SameCommand
    <3>2. AllBefore(db, id, db[id]) /\ LevelOf(db[id], id) = LevelOf(db'[id], id)
      BY <2>1, <3>1, AllBeforeKept
    <3> QED
      BY <3>1, <3>2 DEF RowLevels
  <2> QED
    BY <2>1 DEF RowLevels
<1>3. JobLevels'
  <2>1. \A h \in Handlers : AllBefore(db', nextID, pun[h]) => AllBefore(db, nextID, pun[h])
    BY AllBeforeKept DEF Alike
  <2> QED
    BY <2>1 DEF JobLevels
<1> QED
  BY <1>1, <1>2, <1>3

\* What a revocation has read stays what the row says.
LEMMA RevokedKept ==
    ASSUME IInv, RevokedLevels,
           \A i \in DOMAIN db' : (i \in DOMAIN db /\ SameCommand(db[i], db'[i])) \/ i = nextID,
           \A v \in Revokers : revoke'[v].pc # "idle" =>
              /\ revoke[v].pc # "idle"
              /\ revoke'[v].id = revoke[v].id /\ revoke'[v].rec = revoke[v].rec
    PROVE  RevokedLevels'
<1> SUFFICES ASSUME NEW v \in Revokers, revoke'[v].pc # "idle"
             PROVE  /\ revoke'[v].id \in 1 .. MaxRecords
                    /\ revoke'[v].id \in DOMAIN db' => revoke'[v].rec.level = db'[revoke'[v].id].level
  BY DEF RevokedLevels
<1>1. /\ revoke[v].pc # "idle" /\ revoke'[v].id = revoke[v].id /\ revoke'[v].rec = revoke[v].rec
      /\ revoke[v].id \in 1 .. MaxRecords
  BY DEF RevokedLevels
<1>2. revoke[v].id < nextID /\ nextID \in Nat
  BY <1>1 DEF IInv, TypeOK, CopiesOK, RevocationCopies, CopyOf
<1>3. revoke[v].id # nextID
  BY <1>1, <1>2
<1>4. CASE revoke[v].id \in DOMAIN db'
  <2>1. revoke[v].id \in DOMAIN db /\ db[revoke[v].id].level = db'[revoke[v].id].level
    BY <1>3, <1>4 DEF SameCommand
  <2>2. revoke[v].rec.level = db[revoke[v].id].level
    BY <1>1, <2>1 DEF RevokedLevels
  <2> QED
    BY <1>1, <2>1, <2>2
<1> QED
  BY <1>1, <1>4

\* The steps that neither file a record nor move a handler or a revocation.
LEMMA NothingFiled ==
    ASSUME IInv, LevelInv, UNCHANGED <<nextID, pun, revoke>>, now' \in Nat, now <= now',
           DOMAIN db' \subseteq DOMAIN db, \A i \in DOMAIN db' : SameCommand(db[i], db'[i])
    PROVE  LevelInv'
<1>1. RevokedLevels'
  BY RevokedKept DEF LevelInv
<1> QED
  BY <1>1, CommandsKept DEF LevelInv, IInv
\* The UPDATEs of the timer leave alone what the command fixed.
LEMMA TimerKeepsCommands ==
    ASSUME TypeOK, TimerStep
    PROVE  DOMAIN db' = DOMAIN db /\ \A i \in DOMAIN db' : SameCommand(db[i], db'[i])
<1>1. IsRows(db)
  BY DEF TypeOK
<1>2. ASSUME NEW id, NEW left, NEW time, RemoveExpiredRoleFromPunishment(id, left, time)
      PROVE  DOMAIN db' = DOMAIN db /\ \A i \in DOMAIN db' : SameCommand(db[i], db'[i])
  <2> DEFINE row == [db[id] EXCEPT !.rolesRemoveAt = left, !.removeTime = time]
  <2>1. id \in DOMAIN db /\ db' = [db EXCEPT ![id] = row] /\ db[id] \in Record
    BY <1>1, <1>2 DEF RemoveExpiredRoleFromPunishment, IsRows
  <2>2. SameCommand(db[id], row)
    BY <2>1 DEF SameCommand, Alike, Record
  <2> HIDE DEF row
  <2> QED
    BY <2>1, <2>2 DEF SameCommand, Alike
<1>3. CASE \E id : id \in DOMAIN db /\ db' = [db EXCEPT ![id].status = "completed"]
  <2>1. PICK id : id \in DOMAIN db /\ db' = [db EXCEPT ![id] = [db[id] EXCEPT !.status = "completed"]]
    BY <1>3
  <2> DEFINE row == [db[id] EXCEPT !.status = "completed"]
  <2>2. SameCommand(db[id], row)
    BY <1>1, <2>1 DEF SameCommand, Alike, Record, IsRows
  <2> HIDE DEF row
  <2>3. db' = [db EXCEPT ![id] = row]
    BY <2>1 DEF row
  <2> QED
    BY <2>1, <2>2, <2>3 DEF SameCommand, Alike
<1>4. CASE UNCHANGED db
  BY <1>4 DEF SameCommand, Alike
<1>5. \/ UNCHANGED db
      \/ \E id, left, time : RemoveExpiredRoleFromPunishment(id, left, time)
      \/ \E id : id \in DOMAIN db /\ db' = [db EXCEPT ![id].status = "completed"]
  <2>1. CASE ProcessPunishmentTimers \/ RemoveExpiredRoles
    BY <2>1 DEF ProcessPunishmentTimers, RemoveExpiredRoles, table
  <2>2. CASE \E id \in DOMAIN snap : LoadRolesRemoveAt(id)
    BY <2>2 DEF LoadRolesRemoveAt
  <2>3. CASE PersistRemainingRoles
    BY <2>3 DEF PersistRemainingRoles
  <2>4. CASE FinishRecord
    BY <2>4 DEF FinishRecord
  <2> QED
    BY <2>1, <2>2, <2>3, <2>4 DEF TimerStep
<1> QED
  BY <1>2, <1>3, <1>4, <1>5

\* There are n - 1 numbers before the n-th.
LEMMA NumbersBefore == ASSUME NEW n \in Nat, n # 0 PROVE Cardinality(1 .. (n - 1)) = n - 1
  BY FS_Interval

\* The count that determinePunishmentLevel reads is the number of the records filed
\* so far when these are all there and all of the member.
LEMMA CountIsNumber ==
    ASSUME TypeOK, FiledInOrder, NEW g, NEW u, 1 .. (nextID - 1) \subseteq DOMAIN db,
           \A i \in 1 .. (nextID - 1) : db[i].guild = g /\ db[i].user = u
    PROVE  GetTotalPunishmentCountByUser(g, u) = nextID - 1
<1>1. PICK n \in Nat : n = nextID /\ n # 0
  BY DEF TypeOK
<1>2. \A i \in DOMAIN db : i \in Nat /\ i # 0 /\ i < n
  BY <1>1, BoundAssumption DEF TypeOK, FiledInOrder
<1>3. \A i \in DOMAIN db : i \in 1 .. (n - 1)
  BY <1>1, <1>2
<1>4. {id \in DOMAIN db : db[id].guild = g /\ db[id].user = u} = 1 .. (n - 1)
  BY <1>1, <1>3
<1>5. Cardinality(1 .. (n - 1)) = n - 1
  BY <1>1, NumbersBefore
<1> QED
  BY <1>1, <1>4, <1>5 DEF GetTotalPunishmentCountByUser

\* BeginPunish keeps the levels those of the numbers.
LEMMA BeginPunishLevel ==
    ASSUME OneHandler, IInv, LevelInv, NEW h \in Handlers, NEW g \in Guilds, NEW u \in Users,
           NEW a \in Actions, NEW self \in BOOLEAN, BeginPunish(h, g, u, a, self)
    PROVE  LevelInv'
<1>1. UNCHANGED <<now, db, nextID, revoke>> /\ pun[h].pc = "idle"
  BY DEF BeginPunish, table
<1>2. nextID <= MaxRecords
  <2>1. Busy = {}
    BY <1>1 DEF OneHandler, Busy
  <2>2. Cardinality(Busy) = 0
    BY <2>1, FS_EmptySet
  <2>3. nextID \in Nat
    BY DEF IInv, TypeOK
  <2> QED
    BY <2>2, <2>3, BoundAssumption DEF BeginPunish
<1>3. \A i \in Handlers : pun'[i].pc \in {"idle", "count"}
  BY <1>1 DEF BeginPunish, OneHandler, IInv, TypeOK, HandlersTypeOK
<1> QED
  BY <1>1, <1>2, <1>3 DEF LevelInv, FiledInOrder, RowLevels, JobLevels, RevokedLevels

\* DeterminePunishmentLevel keeps the levels those of the numbers.
LEMMA DeterminePunishmentLevelLevel ==
    ASSUME OneHandler, IInv, LevelInv, NEW h \in Handlers, DeterminePunishmentLevel(h)
    PROVE  LevelInv'
<1> DEFINE g == pun[h].guild
           u == pun[h].user
           data == PunishConfig[g][pun[h].action]
           level == data[LevelNumber(data, GetTotalPunishmentCountByUser(g, u))]
<1>1. UNCHANGED <<now, db, nextID, revoke>> /\ pun[h].pc = "count"
  BY DEF DeterminePunishmentLevel, table
<1>2. pun[h] \in PunJob
  BY <1>1, BusyHandlerType DEF IInv, TypeOK
<1> DEFINE job == [pun[h] EXCEPT !.pc = "apply", !.level = level]
<1>3. pun' = [pun EXCEPT ![h] = job]
  BY DEF DeterminePunishmentLevel
<1> HIDE DEF level
<1>4. job.level = level /\ Alike(job, pun[h])
  BY <1>2 DEF PunJob, Alike
<1> HIDE DEF job
<1>5. pun'[h] = job /\ \A i \in Handlers : i = h
  BY <1>3 DEF IInv, TypeOK, HandlersTypeOK, OneHandler
<1>6. ASSUME AllBefore(db, nextID, job) PROVE level = LevelOf(job, nextID)
  <2>1. /\ 1 .. (nextID - 1) \subseteq DOMAIN db
        /\ \A i \in 1 .. (nextID - 1) : db[i].guild = g /\ db[i].user = u
    BY <1>4, <1>6 DEF AllBefore, Alike
  <2>2. TypeOK /\ FiledInOrder
    BY DEF IInv, LevelInv
  <2>3. GetTotalPunishmentCountByUser(g, u) = nextID - 1
    BY <2>1, <2>2, CountIsNumber
  <2> QED
    BY <1>4, <2>3 DEF level, LevelOf, Alike
<1>7. JobLevels'
  BY <1>1, <1>4, <1>5, <1>6 DEF JobLevels
<1>8. FiledInOrder' /\ RowLevels' /\ RevokedLevels'
  BY <1>1, <1>5 DEF LevelInv, FiledInOrder, RowLevels, RevokedLevels
<1> QED
  BY <1>7, <1>8 DEF LevelInv

\* ApplyPunishmentLevel keeps the levels those of the numbers.
LEMMA ApplyPunishmentLevelLevel ==
    ASSUME OneHandler, IInv, LevelInv, NEW h \in Handlers, ApplyPunishmentLevel(h)
    PROVE  LevelInv'
<1>1. UNCHANGED <<now, db, nextID, revoke>> /\ pun[h].pc = "apply"
  BY DEF ApplyPunishmentLevel, table
<1>2. pun[h] \in PunJob
  BY <1>1, BusyHandlerType DEF IInv, TypeOK
<1>3. PICK added, time :
        pun' = [pun EXCEPT ![h].pc = "insert", ![h].tempRoles = added, ![h].removeTime = time]
  BY DEF ApplyPunishmentLevel
<1> DEFINE job == [pun[h] EXCEPT !.pc = "insert", !.tempRoles = added, !.removeTime = time]
<1>4. Alike(pun[h], job) /\ job.level = pun[h].level
  BY <1>2 DEF PunJob, Alike
<1>5. pun' = [pun EXCEPT ![h] = job]
  BY <1>3
<1> HIDE DEF job
<1>6. pun'[h] = job /\ \A i \in Handlers : i = h
  BY <1>5 DEF IInv, TypeOK, HandlersTypeOK, OneHandler
<1>7. AllBefore(db, nextID, job) =>
         AllBefore(db, nextID, pun[h]) /\ LevelOf(pun[h], nextID) = LevelOf(job, nextID)
  <2>1. \A i \in DOMAIN db : SameCommand(db[i], db[i])
    BY DEF SameCommand, Alike
  <2> QED
    BY <1>4, <2>1, AllBeforeKept
<1>8. JobLevels'
  BY <1>1, <1>4, <1>6, <1>7 DEF LevelInv, JobLevels
<1>9. FiledInOrder' /\ RowLevels' /\ RevokedLevels'
  BY <1>1, <1>6 DEF LevelInv, FiledInOrder, RowLevels, RevokedLevels
<1> QED
  BY <1>8, <1>9 DEF LevelInv
\* The record that is filed has the next number and the level of that number.
LEMMA AddPunishmentRecordLevel ==
    ASSUME OneHandler, IInv, LevelInv, NEW h \in Handlers, AddPunishmentRecord(h)
    PROVE  LevelInv'
<1> DEFINE j == pun[h]
           timed == Timed(j.level, j.tempRoles)
<1>1. UNCHANGED <<now, revoke>> /\ j.pc = "insert" /\ \A i \in Handlers : pun'[i].pc = "idle"
  BY DEF AddPunishmentRecord, IInv, TypeOK, HandlersTypeOK, IdlePun, OneHandler
<1>2. CASE UNCHANGED table
  BY <1>1, <1>2 DEF table, LevelInv, FiledInOrder, RowLevels, JobLevels, RevokedLevels
<1>3. CASE ~ UNCHANGED table
  <2>1. PICK n \in Nat : n = nextID /\ n # 0
    BY DEF IInv, TypeOK
  <2>2. /\ nextID' = n + 1
        /\ db' = [id \in DOMAIN db \cup {n} |->
                 IF id = n
                 THEN [guild |-> j.guild, user |-> j.user, action |-> j.action,
                       timestamp |-> now, tempRoles |-> j.tempRoles,
                       rolesRemoveAt |-> timed, removeTime |-> j.removeTime,
                       status |-> "active", level |-> j.level, due |-> j.removeTime]
                 ELSE db[id]]
    BY <1>3, <2>1 DEF AddPunishmentRecord
  <2> HIDE DEF timed
  <2>3. /\ n \notin DOMAIN db /\ \A i \in DOMAIN db : i \in Nat /\ i < n
        /\ \A i \in DOMAIN db : db[i].timestamp \in Nat /\ db[i].timestamp <= now
        /\ n <= MaxRecords /\ now \in Nat
    BY <1>1, <2>1, BoundAssumption
       DEF IInv, TypeOK, IsRows, Record, LevelInv, FiledInOrder
  <2>4. /\ DOMAIN db' = DOMAIN db \cup {n} /\ \A i \in DOMAIN db : db'[i] = db[i]
        /\ Alike(j, db'[n]) /\ db'[n].level = j.level /\ db'[n].timestamp = now
    BY <2>2, <2>3 DEF Alike
  <2>5. FiledInOrder'
    <3>1. \A i \in DOMAIN db' : i \in 1 .. MaxRecords /\ db'[i].timestamp <= now
      BY <2>1, <2>3, <2>4, BoundAssumption DEF LevelInv, FiledInOrder
    <3>2. ASSUME NEW a \in DOMAIN db', NEW b \in DOMAIN db', a < b
          PROVE  db'[a].timestamp <= db'[b].timestamp
      <4>1. a # n
        BY <2>1, <2>3, <2>4, <3>2
      <4>2. CASE b = n
        BY <2>3, <2>4, <4>1, <4>2
      <4>3. CASE b # n
        BY <2>4, <3>2, <4>1, <4>3 DEF LevelInv, FiledInOrder
      <4> QED
        BY <4>2, <4>3
    <3>3. nextID' <= MaxRecords + 1
      BY <2>1, <2>2, <2>3, BoundAssumption
    <3> QED
      BY <1>1, <3>1, <3>2, <3>3 DEF FiledInOrder
  <2>6. ASSUME NEW id \in DOMAIN db', AllBefore(db', id, db'[id])
        PROVE  db'[id].level = LevelOf(db'[id], id)
    <3>1. PICK q : q = db'[id]
      OBVIOUS
    <3>2. id \in Nat /\ id <= n
      BY <2>1, <2>3, <2>4
    <3>3. ASSUME NEW i \in 1 .. (id - 1) PROVE i \in DOMAIN db /\ Alike(db[i], q)
      <4>1. i \in DOMAIN db' /\ Alike(db'[i], q)
        BY <2>6, <3>1, <3>3 DEF AllBefore
      <4>2. i # n
        BY <2>1, <3>2, <3>3
      <4> QED
        BY <2>4, <4>1, <4>2
    <3>4. AllBefore(db, id, q)
      BY <3>3 DEF AllBefore
    <3>5. CASE id \in DOMAIN db
      BY <2>4, <3>1, <3>4, <3>5 DEF LevelInv, RowLevels
    <3>6. CASE id = n
      <4>1. Alike(j, q) /\ q.level = j.level
        BY <2>4, <3>1, <3>6
      <4>2. \A i \in DOMAIN db : SameCommand(db[i], db[i])
        BY DEF SameCommand, Alike
      <4>3. AllBefore(db, n, j) /\ LevelOf(j, n) = LevelOf(q, n)
        BY <3>4, <3>6, <4>1, <4>2, AllBeforeKept
      <4>4. j.level = LevelOf(j, n)
        BY <1>1, <2>1, <4>3 DEF LevelInv, JobLevels
      <4> QED
        BY <3>1, <3>6, <4>1, <4>3, <4>4
    <3> QED
      BY <2>4, <3>5, <3>6
  <2>7. RowLevels'
    BY <2>6 DEF RowLevels
  <2>8. JobLevels'
    BY <1>1 DEF JobLevels
  <2>9. RevokedLevels'
    <3>1. \A i \in DOMAIN db' : (i \in DOMAIN db /\ SameCommand(db[i], db'[i])) \/ i = nextID
      BY <2>1, <2>4 DEF SameCommand, Alike
    <3> QED
      BY <1>1, <3>1, RevokedKept DEF LevelInv
  <2> QED
    BY <2>5, <2>7, <2>8, <2>9 DEF LevelInv
<1> QED
  BY <1>2, <1>3

\* The four steps of a handler.
LEMMA PunishLevelKept ==
    ASSUME OneHandler, IInv, LevelInv, NEW h \in Handlers, Punish(h)
    PROVE  LevelInv'
  BY BeginPunishLevel, DeterminePunishmentLevelLevel, ApplyPunishmentLevelLevel,
     AddPunishmentRecordLevel DEF Punish

\* A revocation reads the row it is going to undo.
LEMMA RevokeLevel ==
    ASSUME IInv, LevelInv, NEW v \in Revokers, Revoke(v)
    PROVE  LevelInv'
<1>1. UNCHANGED <<now, nextID, pun>> /\ now \in Nat
  BY BoundAssumption
     DEF Revoke, RevokePunishment, RevokeRoles, RevokeDelete, table, IInv, TypeOK
<1>2. DOMAIN db' \subseteq DOMAIN db /\ \A i \in DOMAIN db' : db'[i] = db[i]
  BY DEF Revoke, RevokePunishment, RevokeRoles, RevokeDelete, table, Without
<1>3. \A i \in DOMAIN db' : SameCommand(db[i], db'[i])
  BY <1>2 DEF SameCommand, Alike
<1>4. FiledInOrder' /\ RowLevels' /\ JobLevels'
  BY <1>1, <1>2, <1>3, CommandsKept DEF IInv, LevelInv
<1>5. RevokedLevels'
  <2>1. ASSUME NEW id \in DOMAIN db, RevokePunishment(v, id) PROVE RevokedLevels'
    <3>1. CASE UNCHANGED revoke
      BY <1>2, <1>3, <3>1, RevokedKept DEF LevelInv
    <3>2. CASE revoke' = [revoke EXCEPT ![v] = [pc |-> "roles", id |-> id, rec |-> db[id], failed |-> {}]]
      <4>1. /\ revoke'[v].id = id /\ revoke'[v].rec = db[id]
            /\ \A w \in Revokers : w # v => revoke'[w] = revoke[w]
        BY <3>2 DEF IInv, TypeOK
      <4>2. id \in 1 .. MaxRecords
        BY DEF LevelInv, FiledInOrder
      <4> QED
        BY <1>2, <4>1, <4>2 DEF LevelInv, RevokedLevels
    <3> QED
      BY <2>1, <3>1, <3>2 DEF RevokePunishment
  <2>2. CASE RevokeRoles(v)
    <3>1. revoke[v] \in RevJob /\ revoke[v].pc = "roles"
      BY <2>2 DEF RevokeRoles, IInv, TypeOK, IdleRev
    <3>2. PICK left : revoke' = [revoke EXCEPT ![v] = [revoke[v] EXCEPT !.pc = "delete", !.failed = left]]
      BY <2>2, ZenonT(40) DEF RevokeRoles
    <3>3. \A w \in Revokers : revoke'[w].pc # "idle" =>
             /\ revoke[w].pc # "idle"
             /\ revoke'[w].id = revoke[w].id /\ revoke'[w].rec = revoke[w].rec
      BY <3>1, <3>2 DEF IInv, TypeOK, RevJob
    <3> QED
      BY <1>2, <1>3, <3>3, RevokedKept DEF LevelInv
  <2>3. CASE RevokeDelete(v)
    <3>1. \A w \in Revokers : revoke'[w].pc # "idle" => revoke'[w] = revoke[w]
      BY <2>3 DEF RevokeDelete, IInv, TypeOK, IdleRev
    <3> QED
      BY <1>2, <1>3, <3>1, RevokedKept DEF LevelInv
  <2> QED
    BY <2>1, <2>2, <2>3 DEF Revoke
<1> QED
  BY <1>4, <1>5 DEF LevelInv

\* Crash keeps the levels those of the numbers.
LEMMA CrashLevel ==
    ASSUME IInv, LevelInv, Crash
    PROVE  LevelInv'
<1>1. /\ UNCHANGED <<now, db, nextID>> /\ \A h \in Handlers : pun'[h].pc = "idle"
      /\ \A v \in Revokers : revoke'[v].pc = "idle"
  BY DEF Crash, table, IdlePun, IdleRev
<1> QED
  BY <1>1 DEF LevelInv, FiledInOrder, RowLevels, JobLevels, RevokedLevels

\* The inductive step: one case per action.
LEMMA NextLevel ==
    ASSUME OneHandler, IInv, LevelInv, [Next]_vars
    PROVE  LevelInv'
<1>1. now \in Nat
  BY BoundAssumption DEF IInv, TypeOK
<1>2. \A i \in DOMAIN db : SameCommand(db[i], db[i])
  BY DEF SameCommand, Alike
<1>3. CASE TimerStep
  <2>1. UNCHANGED <<now, nextID, pun, revoke>>
    BY <1>3 DEF TimerStep, ProcessPunishmentTimers, LoadRolesRemoveAt, RemoveExpiredRoles,
                PersistRemainingRoles, FinishRecord, table
  <2>2. DOMAIN db' \subseteq DOMAIN db /\ \A i \in DOMAIN db' : SameCommand(db[i], db'[i])
    BY <1>3, TimerKeepsCommands DEF IInv
  <2> QED
    BY <1>1, <2>1, <2>2, NothingFiled
<1>4. ASSUME NEW id \in DOMAIN db, DeletePunishment(id) PROVE LevelInv'
  <2>1. UNCHANGED <<now, nextID, pun, revoke>>
    BY <1>4 DEF DeletePunishment
  <2>2. DOMAIN db' \subseteq DOMAIN db /\ \A i \in DOMAIN db' : SameCommand(db[i], db'[i])
    BY <1>4 DEF DeletePunishment, Without, SameCommand, Alike
  <2> QED
    BY <1>1, <2>1, <2>2, NothingFiled
<1>5. CASE ResetAllPunishLocks \/ Tick \/ \E u \in Users : PunishLockExpires(u)
  <2>1. UNCHANGED <<db, nextID, pun, revoke>> /\ now' \in {now, now + 1}
    BY <1>5 DEF ResetAllPunishLocks, PunishLockExpires, Tick, table
  <2>2. now' \in Nat /\ now <= now'
    BY <1>1, <2>1
  <2> QED
    BY <1>2, <2>1, <2>2, NothingFiled
<1>6. CASE UNCHANGED vars
  BY <1>1, <1>2, <1>6, NothingFiled DEF vars
<1> QED
  BY <1>3, <1>4, <1>5, <1>6, PunishLevelKept, RevokeLevel, CrashLevel DEF Next

\* The place of record n in the order by time is the number of the records before it.
LEMMA IndexIsNumber ==
    ASSUME TypeOK, FiledInOrder, NEW n \in DOMAIN db, AllBefore(db, n, db[n])
    PROVE  PunishmentIndex(n) = n - 1
<1> DEFINE same == {i \in DOMAIN db : db[i].user = db[n].user /\ db[i].action = db[n].action}
           before == {i \in same : \/ db[i].timestamp < db[n].timestamp
                                   \/ db[i].timestamp = db[n].timestamp /\ i < n}
<1>1. \A i \in DOMAIN db : i \in Nat /\ i # 0 /\ db[i].timestamp \in Nat
  BY BoundAssumption DEF TypeOK, IsRows, Record, FiledInOrder
<1>2. ASSUME NEW i \in before PROVE i \in 1 .. (n - 1)
  <2>1. i \in DOMAIN db
    OBVIOUS
  <2>2. ~ (n < i)
    <3>1. PICK ti \in Nat, tn \in Nat : ti = db[i].timestamp /\ tn = db[n].timestamp
      BY <1>1, <2>1
    <3>2. n < i => tn <= ti
      BY <2>1, <3>1 DEF FiledInOrder
    <3>3. ti < tn \/ i < n
      BY <3>1
    <3> QED
      BY <1>1, <2>1, <3>1, <3>2, <3>3
  <2>3. i # n
    BY <1>1
  <2> QED
    BY <1>1, <2>1, <2>2, <2>3
<1>3. ASSUME NEW i \in 1 .. (n - 1) PROVE i \in before
  <2>1. i \in DOMAIN db /\ Alike(db[i], db[n])
    BY DEF AllBefore
  <2>2. i < n
    BY <1>1
  <2>3. PICK ti \in Nat, tn \in Nat : ti = db[i].timestamp /\ tn = db[n].timestamp
    BY <1>1, <2>1
  <2>4. ti <= tn
    BY <2>1, <2>2, <2>3 DEF FiledInOrder
  <2>5. ti < tn \/ ti = tn
    BY <2>3, <2>4
  <2> QED
    BY <2>1, <2>2, <2>3, <2>5 DEF Alike
<1>4. before = 1 .. (n - 1)
  BY <1>2, <1>3
<1> HIDE DEF before
<1>5. Cardinality(1 .. (n - 1)) = n - 1
  BY <1>1, NumbersBefore
<1>6. PunishmentIndex(n) = Cardinality(before)
  BY DEF PunishmentIndex, before
<1> QED
  BY <1>4, <1>5, <1>6

\* A revocation takes back the roles of the level that the punishment had applied, when
\* no punishment before it was deleted and all are of the same guild, user and action:
\* for one handler at a time, and a level for each number of punishments.  Two handlers
\* that count before either files its record apply the same level twice; and past the last
\* level a revocation takes back none.
THEOREM RevocationIsFaithful ==
    ASSUME OneHandler, LevelForEveryCount PROVE Spec => RevocationUndoesItsLevel
<1>1. Init => IInv /\ LevelInv
  BY InitIInv, InitLevel
<1>2. IInv /\ LevelInv /\ [Next]_vars => (IInv /\ LevelInv)'
  BY NextIInv, NextLevel
<1>3. ASSUME IInv, LevelInv, NEW v \in Revokers, RevokeRoles(v), NEW n, n = revoke[v].id,
             NEW p, p = revoke[v].rec, 1 .. n \subseteq DOMAIN db, \A i \in 1 .. n : Alike(db[i], p)
      PROVE  LevelToRevoke(n, p) = p.level
  <2>1. revoke[v].pc # "idle"
    BY <1>3 DEF RevokeRoles
  <2>2. n \in 1 .. MaxRecords /\ (n \in DOMAIN db => p.level = db[n].level)
    BY <1>3, <2>1 DEF LevelInv, RevokedLevels
  <2>3. n \in 1 .. n /\ n - 1 \in 0 .. (MaxRecords - 1) /\ 1 .. (n - 1) \subseteq 1 .. n
    BY <2>2, BoundAssumption
  <2>4. n \in DOMAIN db /\ Alike(db[n], p)
    BY <1>3, <2>3
  <2>5. AllBefore(db, n, db[n])
    BY <1>3, <2>3, <2>4 DEF AllBefore, Alike
  <2>6. PunishmentIndex(n) = n - 1
    BY <1>3, <2>4, <2>5, IndexIsNumber DEF IInv, LevelInv
  <2>7. p.guild \in Guilds /\ p.action \in Actions
    BY <1>3, <2>4 DEF IInv, TypeOK, IsRows, Record, Alike
  <2>8. n - 1 \in DOMAIN PunishConfig[p.guild][p.action]
    BY <2>3, <2>7 DEF LevelForEveryCount
  <2>9. db[n].level = PunishConfig[p.guild][p.action][n - 1]
    BY <1>3, <2>4, <2>5, <2>8 DEF LevelInv, RowLevels, LevelOf, LevelNumber, Alike
  <2> QED
    BY <2>2, <2>4, <2>6, <2>8, <2>9 DEF LevelToRevoke
<1>4. IInv /\ LevelInv => [ \A v \in Revokers :
          LET id == revoke[v].id
              p == revoke[v].rec
              Kin(q) == q.guild = p.guild /\ q.user = p.user /\ q.action = p.action
          IN  /\ RevokeRoles(v)
              /\ 1..id \subseteq DOMAIN db
              /\ \A i \in 1..id : Kin(db[i])
              => LevelToRevoke(id, p) = p.level ]_vars
  BY <1>3 DEF Alike
<1> QED
  BY <1>1, <1>2, <1>4, PTL DEF Spec, RevocationUndoesItsLevel
=============================================================================
