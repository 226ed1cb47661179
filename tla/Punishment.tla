----------------------------- MODULE Punishment -----------------------------
(***************************************************************************)
(* The life of a punishment: applyAndLogPunishment gives a member roles    *)
(* and files a record, the punishment timer takes expired roles away and   *)
(* completes the record, /punish_revoke undoes it and /punish_delete drops *)
(* the record.  The interaction handlers, the timer and the revocations    *)
(* are goroutines that share the Discord guild and the SQLite table        *)
(* "punishments"; every Discord or database call may fail, and the process *)
(* may crash between any two steps.                                        *)
(*                                                                         *)
(* Time is counted in days, the unit of AddRoleTimeoutTime.  The map       *)
(* roles_remove_at of a record gives all its roles the same time up to the *)
(* latency of one API call, so it is a set of roles (rolesRemoveAt) and    *)
(* one time (removeTime).                                                  *)
(***************************************************************************)
EXTENDS Naturals, FiniteSets

CONSTANTS
    Guilds, Users, Actions,
    Roles,          \* role IDs of the guilds
    Zero,           \* the ID "0", which a config writes for "no role"
    PunishConfig,   \* PunishConfig[g][a]: level number -> PunishLevel
    RecoverRole,    \* RecoverRole[g]: Revocation[g].RecoverRoleID, or Zero
    MemberRoles,    \* MemberRoles[<<g, u>>]: the roles before any punishment
    Handlers,       \* goroutines that may run applyAndLogPunishment
    Revokers,       \* goroutines that may run revokePunishment
    MaxRecords,     \* bound: punishments ever recorded
    MaxTime,        \* bound: days
    MaxCrashes      \* bound: crashes of the process

Member == Guilds \X Users

\* timeout "days" is a Discord timeout, which Discord ends by itself.
\* addRoleDays = 0 stands for AddRoleTimeoutTime "", "0" and "-1": permanent.
PunishLevel == [ addRole      : SUBSET (Roles \cup {Zero}),
                 removeRoleID : SUBSET (Roles \cup {Zero}),
                 timeout      : {"none", "ban", "days"},
                 addRoleDays  : Nat ]

ASSUME ConfigAssumption ==
    /\ \A g \in Guilds, a \in Actions :
          LET data == PunishConfig[g][a]
          IN  /\ DOMAIN data \subseteq Nat
              /\ data \in [DOMAIN data -> PunishLevel]
              /\ DOMAIN data = {} \/ \E n \in DOMAIN data : \A m \in DOMAIN data : m <= n
    /\ RecoverRole \in [Guilds -> Roles \cup {Zero}]
    /\ MemberRoles \in [Member -> SUBSET Roles]
    /\ Zero \notin Roles

ASSUME BoundAssumption == MaxRecords \in Nat /\ MaxTime \in Nat /\ MaxCrashes \in Nat

VARIABLES
    now,          \* the day
    roles,        \* roles[<<g, u>>]: the roles the member holds on Discord
    banned,       \* the banned <<g, u>>
    db,           \* table punishments: punishment_id -> record
    nextID,       \* the AUTOINCREMENT counter
    punishLocks,  \* users under the 5 minute punish lock
    pun,          \* pun[h]: locals of applyAndLogPunishment in handler h
    timer,        \* locals of processPunishmentTimers and processPunishmentRecord
    snap,         \* punishment_id -> record: the records a pass read and has left
    revoke,       \* revoke[v]: locals of revokePunishment in goroutine v
    crashes,
    owed,         \* history: <<g, u, r>> given for a limited time and still held
    leaked        \* history: those of owed whose record was lost by a failure or
                  \* by /punish_delete

discord == <<roles, banned>>
table == <<db, nextID>>
ticker == <<timer, snap>>
vars == <<now, roles, banned, db, nextID, punishLocks, pun, timer, snap, revoke,
          crashes, owed, leaked>>
-----------------------------------------------------------------------------
Record == [ guild : Guilds, user : Users, action : Actions, timestamp : Nat,
            tempRoles     : SUBSET Roles,
            rolesRemoveAt : SUBSET Roles,
            removeTime    : Nat,
            status        : {"active", "completed"},
            level         : PunishLevel,     \* history: the level applied
            due           : Nat ]            \* history: when its roles were to go

\* The locals of an interaction handler, in the order they are computed.
PunJob == [ pc : {"count", "apply", "insert"}, guild : Guilds, user : Users,
            action : Actions, level : PunishLevel, tempRoles : SUBSET Roles,
            removeTime : Nat ]
IdlePun == [pc |-> "idle"]

NoLevel == [addRole |-> {}, removeRoleID |-> {}, timeout |-> "none", addRoleDays |-> 0]

RevJob == [pc : {"roles", "delete"}, id : Nat, rec : Record, failed : SUBSET Roles]
IdleRev == [pc |-> "idle"]

\* A part of the table: records by punishment_id.
IsRows(f) == DOMAIN f \subseteq Nat /\ f \in [DOMAIN f -> Record]
NoRows == [id \in {} |-> id]

AddedWithZero(level) == level.addRole

\* The roles a level really adds or removes.
Added(level) == level.addRole \ {Zero}
Removed(level) == IF Zero \in level.removeRoleID THEN {} ELSE level.removeRoleID

Triples(g, u, S) == {<<g, u, r>> : r \in S}

\* The keys of rolesRemoveAt after applyPunishmentLevel added S.
Timed(level, S) == IF level.addRoleDays > 0 THEN S ELSE {}

HandlersTypeOK ==
    /\ pun \in [Handlers -> PunJob \cup {IdlePun}]
    /\ \A h \in Handlers : pun[h].pc # "idle" =>
          DOMAIN PunishConfig[pun[h].guild][pun[h].action] # {}

TimerTypeOK ==
    /\ timer \in [pc : {"idle", "scan", "remove", "persist", "finish"}, clock : Nat, id : Nat,
                  work : SUBSET Roles, time : Nat]
    /\ timer.pc \in {"remove", "persist", "finish"} => timer.id \in DOMAIN snap
    /\ IsRows(snap)

TypeOK ==
    /\ now \in 0..MaxTime
    /\ roles \in [Member -> SUBSET Roles]
    /\ banned \in SUBSET Member
    /\ nextID \in Nat \ {0}
    /\ IsRows(db)
    /\ \A id \in DOMAIN db : id < nextID
    /\ punishLocks \in SUBSET Users
    /\ HandlersTypeOK
    /\ TimerTypeOK
    /\ revoke \in [Revokers -> RevJob \cup {IdleRev}]
    /\ crashes \in 0..MaxCrashes
    /\ owed \in SUBSET (Guilds \X Users \X Roles)
    /\ leaked \in SUBSET owed

IdleTimer == [pc |-> "idle", clock |-> 0, id |-> 0, work |-> {}, time |-> 0]

Init ==
    /\ now = 0
    /\ roles = MemberRoles
    /\ banned = {}
    /\ db = NoRows
    /\ nextID = 1
    /\ punishLocks = {}
    /\ pun = [h \in Handlers |-> IdlePun]
    /\ timer = IdleTimer
    /\ snap = NoRows
    /\ revoke = [v \in Revokers |-> IdleRev]
    /\ crashes = 0
    /\ owed = {}
    /\ leaked = {}
-----------------------------------------------------------------------------
(* applyAndLogPunishment                                                   *)

\* getPunishmentLevel, else getHighestPunishmentLevel: the level numbers chosen.
LevelNumber(data, count) ==
    IF count \in DOMAIN data THEN count
    ELSE CHOOSE n \in DOMAIN data : \A m \in DOMAIN data : m <= n

GetTotalPunishmentCountByUser(g, u) ==
    Cardinality({id \in DOMAIN db : db[id].guild = g /\ db[id].user = u})

\* Handlers at work, counted against the bound on records.
Busy == {h \in Handlers : pun[h].pc # "idle"}

\* From the interaction to the evidence: the lock is taken first and stays taken
\* when a later check (config, rate limit, whitelist) or call (member, database)
\* ends the command.  A member who punishes himself takes no lock.
BeginPunish(h, g, u, a, self) ==
    /\ pun[h].pc = "idle"
    /\ nextID + Cardinality(Busy) <= MaxRecords
    /\ self \/ u \notin punishLocks
    /\ punishLocks' = IF self THEN punishLocks ELSE punishLocks \cup {u}
    /\ \/ UNCHANGED pun
       \/ /\ <<g, u>> \notin banned
          /\ DOMAIN PunishConfig[g][a] # {}
          /\ pun' = [pun EXCEPT ![h] =
                [pc |-> "count", guild |-> g, user |-> u, action |-> a,
                 level |-> NoLevel, tempRoles |-> {}, removeTime |-> 0]]
    /\ UNCHANGED <<now, discord, table, ticker, revoke, crashes, owed, leaked>>

\* The count is read once; another handler may file a record before this one does.
DeterminePunishmentLevel(h) ==
    /\ pun[h].pc = "count"
    /\ LET g == pun[h].guild
           data == PunishConfig[g][pun[h].action]
           count == GetTotalPunishmentCountByUser(g, pun[h].user)
       IN  pun' = [pun EXCEPT ![h].pc = "apply",
                              ![h].level = data[LevelNumber(data, count)]]
    /\ UNCHANGED <<now, discord, table, punishLocks, ticker, revoke, crashes, owed, leaked>>

\* The Discord calls of applyPunishmentLevel: role removals, the ban, role
\* additions.  Each may fail; only a role really added enters tempRoles.  A
\* banned member loses all roles and can be given none.
ApplyPunishmentLevel(h) ==
    /\ pun[h].pc = "apply"
    /\ now + pun[h].level.addRoleDays < MaxTime    \* bound: the roles expire in time
    /\ LET m == <<pun[h].guild, pun[h].user>>
           level == pun[h].level
       IN  \E gone \in SUBSET Removed(level), added \in SUBSET Added(level),
              ban \in BOOLEAN :
             LET outside == ban \/ m \in banned
                 lost == IF outside THEN Roles ELSE gone \ added
             IN  /\ ban => level.timeout = "ban"
                 /\ outside => added = {}
                 /\ roles' = [roles EXCEPT ![m] = (@ \ lost) \cup added]
                 /\ banned' = IF ban THEN banned \cup {m} ELSE banned
                 /\ pun' = [pun EXCEPT ![h].pc = "insert",
                                       ![h].tempRoles = added,
                                       ![h].removeTime = now + level.addRoleDays]
                 /\ owed' = (owed \ Triples(m[1], m[2], lost))
                              \cup Triples(m[1], m[2], Timed(level, added))
                 /\ leaked' = leaked \ Triples(m[1], m[2], lost)
    /\ UNCHANGED <<now, table, punishLocks, ticker, revoke, crashes>>

\* The record is filed after the roles were given.  When the INSERT fails the
\* handler reports an error and leaves the roles behind.
AddPunishmentRecord(h) ==
    /\ pun[h].pc = "insert"
    /\ LET j == pun[h]
           timed == Timed(j.level, j.tempRoles)
       IN  \/ /\ db' = [id \in DOMAIN db \cup {nextID} |->
                          IF id = nextID
                          THEN [guild |-> j.guild, user |-> j.user, action |-> j.action,
                                timestamp |-> now, tempRoles |-> j.tempRoles,
                                rolesRemoveAt |-> timed, removeTime |-> j.removeTime,
                                status |-> "active", level |-> j.level, due |-> j.removeTime]
                          ELSE db[id]]
              /\ nextID' = nextID + 1
              /\ UNCHANGED leaked
           \/ /\ leaked' = leaked \cup (Triples(j.guild, j.user, timed) \cap owed)
              /\ UNCHANGED table
    /\ pun' = [pun EXCEPT ![h] = IdlePun]
    /\ UNCHANGED <<now, discord, punishLocks, ticker, revoke, crashes, owed>>

PunishLockExpires(u) ==
    /\ u \in punishLocks
    /\ punishLocks' = punishLocks \ {u}
    /\ UNCHANGED <<now, discord, table, pun, ticker, revoke, crashes, owed, leaked>>

ResetAllPunishLocks ==
    /\ punishLocks # {}
    /\ punishLocks' = {}
    /\ UNCHANGED <<now, discord, table, pun, ticker, revoke, crashes, owed, leaked>>
-----------------------------------------------------------------------------
(* The punishment timer                                                    *)

GetActivePunishments == {id \in DOMAIN db : db[id].status = "active" /\ db[id].tempRoles # {}}

\* parsePositiveInt of AddRoleTimeoutTime, for the levels numbered D.
PositiveDays(data, D) == {data[n].addRoleDays : n \in D} \ {0}

\* The day counts matchTimeoutDays may return; it walks a Go map, so the first
\* of several exact matches is any of them.
MatchTimeoutDays(roleSet, data) ==
    LET exact == PositiveDays(data, {n \in DOMAIN data : Added(data[n]) = roleSet})
        fallback == PositiveDays(data, DOMAIN data)
    IN  IF exact # {} THEN exact
        ELSE {d \in fallback : fallback = {d}}

\* The removal times rebuildRolesRemoveAt may compute for a record.
RebuildRolesRemoveAt(p) ==
    {p.timestamp + d : d \in MatchTimeoutDays(p.tempRoles, PunishConfig[p.guild][p.action])}

NextRecordAgain(id) ==
    /\ timer' = [IdleTimer EXCEPT !.pc = "scan", !.clock = timer.clock]
    /\ UNCHANGED snap

\* The pass is done with its current record and goes on to the next one.
NextRecord(id) ==
    /\ snap' = [i \in DOMAIN snap \ {id} |-> snap[i]]
    /\ timer' = IF DOMAIN snap \ {id} = {} THEN IdleTimer
                ELSE [IdleTimer EXCEPT !.pc = "scan", !.clock = timer.clock]

\* A tick, or the pass that StartPunishmentTimer runs at once: the active
\* records and the clock are read once for the whole pass.
ProcessPunishmentTimers ==
    /\ timer.pc = "idle"
    /\ snap' = [id \in GetActivePunishments |-> db[id]]
    /\ timer' = IF GetActivePunishments = {} THEN IdleTimer
                ELSE [IdleTimer EXCEPT !.pc = "scan", !.clock = now]
    /\ UNCHANGED <<now, discord, table, punishLocks, pun, revoke, crashes, owed, leaked>>

WorkOn(id, work, time) ==
    /\ timer' = [timer EXCEPT !.pc = "remove", !.id = id, !.work = work, !.time = time]
    /\ UNCHANGED snap

\* UPDATE punishments SET roles_remove_at, which fails when the row is gone.
RemoveExpiredRoleFromPunishment(id, rolesRemoveAt, removeTime) ==
    /\ id \in DOMAIN db
    /\ db' = [db EXCEPT ![id].rolesRemoveAt = rolesRemoveAt, ![id].removeTime = removeTime]

\* The start of processPunishmentRecord: the removal times are those of the
\* snapshot, or are rebuilt from the config and saved when the snapshot has none.
LoadRolesRemoveAt(id) ==
    /\ timer.pc = "scan"
    /\ id \in DOMAIN snap
    /\ LET p == snap[id]
       IN  \/ /\ p.rolesRemoveAt # {}
              /\ WorkOn(id, p.rolesRemoveAt, p.removeTime)
              /\ UNCHANGED db
           \/ /\ p.rolesRemoveAt = {}
              /\ NextRecord(id)             \* nothing to rebuild, or the UPDATE failed
              /\ UNCHANGED db
           \/ /\ p.rolesRemoveAt = {}
              /\ \E t \in RebuildRolesRemoveAt(p) :
                    /\ WorkOn(id, p.tempRoles, t)
                    /\ RemoveExpiredRoleFromPunishment(id, p.tempRoles, t)
    /\ UNCHANGED <<now, discord, nextID, punishLocks, pun, revoke, crashes, owed, leaked>>

ExpiredWhenDue(work, time) == IF timer.clock >= time THEN work ELSE {}

Expired(work, time) == IF timer.clock > time THEN work ELSE {}

RemainingWithoutRetry(work, expired, gone) == work \ expired

\* A role that has not expired is kept, and so is one whose removal failed.
Remaining(work, expired, gone) == (work \ expired) \cup (expired \ gone)

\* The loop over the roles: an expired role is taken away; when the call fails
\* it stays in the map to be retried by a later pass.
RemoveExpiredRoles ==
    /\ timer.pc = "remove"
    /\ LET p == snap[timer.id]
           m == <<p.guild, p.user>>
           expired == Expired(timer.work, timer.time)
       IN  \E gone \in SUBSET expired :
             /\ m \in banned => gone = {}
             /\ roles' = [roles EXCEPT ![m] = @ \ gone]
             /\ owed' = owed \ Triples(p.guild, p.user, gone)
             /\ leaked' = leaked \ Triples(p.guild, p.user, gone)
             /\ timer' = [timer EXCEPT !.work = Remaining(timer.work, expired, gone),
                                       !.pc = IF gone = {} THEN "finish" ELSE "persist"]
    /\ UNCHANGED <<now, banned, table, punishLocks, pun, snap, revoke, crashes>>

\* What remains is saved.  When that fails the record is left for the next pass.
PersistRemainingRoles ==
    /\ timer.pc = "persist"
    /\ \/ /\ RemoveExpiredRoleFromPunishment(timer.id, timer.work, timer.time)
          /\ timer' = [timer EXCEPT !.pc = "finish"]
          /\ UNCHANGED snap
       \/ /\ NextRecord(timer.id)
          /\ UNCHANGED db
    /\ UNCHANGED <<now, discord, nextID, punishLocks, pun, revoke, crashes, owed, leaked>>

\* "If all roles have been processed, mark punishment as completed": decided on
\* what remains and on the roles_remove_at of the snapshot.
FinishRecord ==
    /\ timer.pc = "finish"
    /\ NextRecord(timer.id)
    /\ \/ /\ timer.work = {}
          /\ snap[timer.id].rolesRemoveAt # {}
          /\ timer.id \in DOMAIN db
          /\ db' = [db EXCEPT ![timer.id].status = "completed"]
       \/ UNCHANGED db                      \* roles remain, or the UPDATE failed
    /\ UNCHANGED <<now, discord, nextID, punishLocks, pun, revoke, crashes, owed, leaked>>
-----------------------------------------------------------------------------
(* /punish_revoke and /punish_delete                                       *)

\* The record is read and, if its user is banned, the ban is lifted.  A guild or
\* action that is not in the config ends the command here.
RevokePunishment(v, id) ==
    /\ revoke[v].pc = "idle"
    /\ id \in DOMAIN db
    /\ \E ok \in BOOLEAN :
          banned' = IF ok THEN banned \ {<<db[id].guild, db[id].user>>} ELSE banned
    /\ \/ revoke' = [revoke EXCEPT ![v] = [pc |-> "roles", id |-> id, rec |-> db[id], failed |-> {}]]
       \/ UNCHANGED revoke
    /\ UNCHANGED <<now, roles, table, punishLocks, pun, ticker, crashes, owed, leaked>>

PunishmentIndexWithItself(id) ==
    Cardinality({i \in DOMAIN db : /\ db[i].user = db[id].user
                                   /\ db[i].action = db[id].action
                                   /\ db[i].timestamp <= db[id].timestamp})

\* The place of record id among the punishments of its user and action, in all
\* guilds, ordered by time; "the punishment level" of a revocation.
PunishmentIndex(id) ==
    LET p == db[id]
        same == {i \in DOMAIN db : db[i].user = p.user /\ db[i].action = p.action}
    IN  Cardinality({i \in same : \/ db[i].timestamp < p.timestamp
                                  \/ db[i].timestamp = p.timestamp /\ i < id})

\* The level a revocation undoes: none when the record is gone or the index has
\* no level of its own.
LevelToRevoke(id, p) ==
    LET data == PunishConfig[p.guild][p.action]
    IN  IF id \in DOMAIN db /\ PunishmentIndex(id) \in DOMAIN data
        THEN data[PunishmentIndex(id)] ELSE NoLevel

\* The recover role is given back when the level removed a role.
Recovered(g, level) ==
    IF RecoverRole[g] # Zero /\ level.removeRoleID \ {Zero} # {} THEN {RecoverRole[g]} ELSE {}

\* The role calls of revokePunishment: the level's roles are removed, the recover
\* role is added, the record's temporary roles are removed; errors are ignored.
RevokeRoles(v) ==
    /\ revoke[v].pc = "roles"
    /\ LET p == revoke[v].rec
           m == <<p.guild, p.user>>
           level == LevelToRevoke(revoke[v].id, p)
       IN  \E undone \in SUBSET Added(level), back \in SUBSET Recovered(p.guild, level),
              gone \in SUBSET p.tempRoles :
             LET lost == (undone \ back) \cup gone
             IN  /\ m \in banned => undone \cup back \cup gone = {}
                 /\ roles' = [roles EXCEPT ![m] = ((@ \ undone) \cup back) \ gone]
                 /\ owed' = owed \ Triples(p.guild, p.user, lost)
                 /\ leaked' = leaked \ Triples(p.guild, p.user, lost)
                 /\ revoke' = [revoke EXCEPT ![v].pc = "delete", ![v].failed = p.tempRoles \ gone]
    /\ UNCHANGED <<now, banned, table, punishLocks, pun, ticker, crashes>>

Without(id) == [i \in DOMAIN db \ {id} |-> db[i]]

\* The record is deleted whatever became of the role calls.
RevokeDelete(v) ==
    /\ revoke[v].pc = "delete"
    /\ LET id == revoke[v].id
           p == revoke[v].rec
       IN  \/ /\ id \in DOMAIN db
              /\ db' = Without(id)
              /\ leaked' = leaked \cup (Triples(p.guild, p.user, revoke[v].failed) \cap owed)
           \/ UNCHANGED <<db, leaked>>      \* no such record, or the DELETE failed
    /\ revoke' = [revoke EXCEPT ![v] = IdleRev]
    /\ UNCHANGED <<now, discord, nextID, punishLocks, pun, ticker, crashes, owed>>

\* /punish_delete drops the record and leaves the member's roles alone.
DeletePunishment(id) ==
    /\ id \in DOMAIN db
    /\ db' = Without(id)
    /\ leaked' = leaked \cup (Triples(db[id].guild, db[id].user, db[id].rolesRemoveAt) \cap owed)
    /\ UNCHANGED <<now, discord, nextID, punishLocks, pun, ticker, revoke, crashes, owed>>
-----------------------------------------------------------------------------
\* Bound: a handler gives the roles and files the record on the same day.
Tick ==
    /\ now < MaxTime
    /\ \A h \in Handlers : pun[h].pc # "insert"
    /\ now' = now + 1
    /\ UNCHANGED <<discord, table, punishLocks, pun, ticker, revoke, crashes, owed, leaked>>

\* The process dies and starts again: Discord and the table survive, locks and
\* goroutines do not.
Crash ==
    /\ crashes < MaxCrashes
    /\ crashes' = crashes + 1
    /\ punishLocks' = {}
    /\ pun' = [h \in Handlers |-> IdlePun]
    /\ timer' = IdleTimer
    /\ snap' = NoRows
    /\ revoke' = [v \in Revokers |-> IdleRev]
    /\ leaked' = leaked \cup
          {t \in owed : \E h \in Handlers :
              /\ pun[h].pc = "insert"
              /\ t \in Triples(pun[h].guild, pun[h].user, Timed(pun[h].level, pun[h].tempRoles))}
    /\ UNCHANGED <<now, discord, table, owed>>

Punish(h) ==
    \/ \E g \in Guilds, u \in Users, a \in Actions, self \in BOOLEAN : BeginPunish(h, g, u, a, self)
    \/ DeterminePunishmentLevel(h)
    \/ ApplyPunishmentLevel(h)
    \/ AddPunishmentRecord(h)

TimerStep ==
    \/ ProcessPunishmentTimers
    \/ \E id \in DOMAIN snap : LoadRolesRemoveAt(id)
    \/ RemoveExpiredRoles
    \/ PersistRemainingRoles
    \/ FinishRecord

Revoke(v) ==
    \/ \E id \in DOMAIN db : RevokePunishment(v, id)
    \/ RevokeRoles(v)
    \/ RevokeDelete(v)

Next ==
    \/ \E h \in Handlers : Punish(h)
    \/ \E u \in Users : PunishLockExpires(u)
    \/ ResetAllPunishLocks
    \/ TimerStep
    \/ \E v \in Revokers : Revoke(v)
    \/ \E id \in DOMAIN db : DeletePunishment(id)
    \/ Tick
    \/ Crash

Spec == Init /\ [][Next]_vars

\* A handler that gave roles goes on to its INSERT; the ticker never stops (no
\* context ends it) and a pass runs to its end; the role removals of a record
\* that are retried for ever succeed at last.  Nothing else is fair.
RemoveAllExpired(id) == RemoveExpiredRoles /\ timer.id = id /\ timer'.work = {}

Fairness ==
    /\ SF_vars(Tick)
    /\ \A h \in Handlers : WF_vars(AddPunishmentRecord(h))
    /\ WF_vars(TimerStep)
    /\ \A id \in 1..MaxRecords : SF_vars(RemoveAllExpired(id))

FairSpec == Spec /\ Fairness
-----------------------------------------------------------------------------
\* A record that will end the role r of a member: its timer has r on its list.
Tracks(id, t) ==
    /\ db[id].status = "active"
    /\ t \in Triples(db[id].guild, db[id].user, db[id].rolesRemoveAt)

\* A handler that has given the role and has yet to file the record.
InFlight(h, t) ==
    /\ pun[h].pc = "insert"
    /\ t \in Triples(pun[h].guild, pun[h].user, Timed(pun[h].level, pun[h].tempRoles))

\* A role given for a limited time is never forgotten: as long as the member
\* holds it, an active record lists it in roles_remove_at or a handler is about
\* to file one, whatever the timer, revocations and failed calls do.  Only a
\* failed INSERT, a crash before it, /punish_delete, and a revocation whose role
\* removal failed leave a role behind.
OwedRolesTracked ==
    \A t \in owed \ leaked :
        (\E id \in DOMAIN db : Tracks(id, t)) \/ (\E h \in Handlers : InFlight(h, t))

\* The timer takes a role away on behalf of a record only when the level of that
\* record gave the role for a number of days and these have passed.
TimerRemovesOnlyExpired ==
    [][ \A m \in Member : RemoveExpiredRoles /\ roles[m] \ roles'[m] # {} =>
          LET p == snap[timer.id]
          IN  p.level.addRoleDays > 0 /\ p.due < now ]_vars

\* Every role given for a limited time is taken away in the end, or its record
\* was lost in one of the four ways above.
TimedRolesEnd ==
    \A t \in Guilds \X Users \X Roles : t \in owed ~> t \notin owed \/ t \in leaked

\* The level whose roles a revocation takes back is the one the punishment had
\* applied, when the punishments filed so far are all there and are of the same
\* guild, user and action, and handlers do not overlap.
RevocationUndoesItsLevel ==
    [][ \A v \in Revokers :
          LET id == revoke[v].id
              p == revoke[v].rec
              Alike(q) == q.guild = p.guild /\ q.user = p.user /\ q.action = p.action
          IN  /\ RevokeRoles(v)
              /\ 1..id \subseteq DOMAIN db
              /\ \A i \in 1..id : Alike(db[i])
              => LevelToRevoke(id, p) = p.level ]_vars
=============================================================================
