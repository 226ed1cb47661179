------------------------------ MODULE UserDB ------------------------------
(***************************************************************************)
(* The user database (utils/database/user_db.go, quick_preset_db.go).      *)
(* Every function opens a pool with one connection through InitUserDB;     *)
(* the first one in a process creates or migrates the tables inside a      *)
(* sync.Once, while the others wait.  The file outlives the process, which *)
(* may end between any two steps of a migration.                           *)
(***************************************************************************)
EXTENDS Naturals, FiniteSets

CONSTANTS
    Callers,            \* goroutines that use the database
    Navigations,        \* rows of personal_navigation
    MaxUserDBFaults     \* bound: busy or failing statements, ends of the process

ASSUME UserDBAssumption ==
    /\ Callers \cap {"nobody", "done"} = {}
    /\ MaxUserDBFaults \in Nat

VARIABLES
    schema,         \* the file
    draft,          \* the tables as the open transaction sees them, or NoDraft
    once,           \* userDBEnsureOnce: nobody yet, the caller that runs it, or done
    ensureFailed,   \* userDBEnsureErr
    caller,         \* caller[c]: locals
    userDBFaults,
    smooth          \* history: the process found a plain or a complete schema, and no fault

userDBVars == <<schema, draft, once, ensureFailed, caller, userDBFaults, smooth>>
-----------------------------------------------------------------------------
\* Columns that versions of the program have added to the first personal_navigation.
Later == {"channel_name", "message_channel_id", "update_mode"}

\* The columns of user_preferences are there or not; so is personal_navigation, of the
\* old kind, without an id, or of the new one.  stored: the values set in the one row of
\* user_preferences that is modelled.
Schema == [ preferences : BOOLEAN,
            skip        : BOOLEAN,                  \* skip_preset_confirmation exists
            stored      : SUBSET {"preferred_pools", "skip_preset_confirmation"},
            navTable    : {"none", "old", "new"},
            columns     : SUBSET Later,
            rows        : SUBSET Navigations,
            spare       : SUBSET Navigations,       \* personal_navigation_new
            spareTable  : BOOLEAN ]
NoDraft == [open |-> FALSE]

Away == [pc |-> "away"]
Caller == [ pc : {"open", "check", "preferences", "skip", "alter", "needs", "columns", "begin", "copy", "drop",
                  "rename", "commit", "createNav", "query"},
            attempt : 1..3,
            rowsOpen : BOOLEAN ]        \* the PRAGMA's rows hold the only connection

UserDBTypeOK ==
    /\ schema \in Schema
    /\ draft \in Schema \cup {NoDraft}
    /\ once \in {"nobody", "done"} \cup Callers
    /\ ensureFailed \in BOOLEAN
    /\ caller \in [Callers -> Caller \cup {Away}]
    /\ userDBFaults \in 0..MaxUserDBFaults
    /\ smooth \in BOOLEAN

Satisfied(s) == s.preferences /\ s.skip /\ s.navTable = "new"
Plain(s) == ~s.skip

\* A new file, or one of an earlier version of the program.
UserDBInit ==
    /\ schema \in {s \in [ preferences : BOOLEAN, skip : BOOLEAN, stored : {{}},
                           navTable : {"none", "old", "new"}, columns : {{}, {"channel_name"}, Later},
                           rows : SUBSET Navigations, spare : {{}}, spareTable : {FALSE} ] :
                     /\ s.skip => s.preferences
                     /\ s.navTable # "none" => s.preferences
                     /\ s.navTable = "none" => s.rows = {}
                     /\ s.navTable # "old" => s.columns = {}}
    /\ draft = NoDraft
    /\ once = "nobody"
    /\ ensureFailed = FALSE
    /\ caller = [c \in Callers |-> Away]
    /\ userDBFaults = 0
    /\ smooth = (Satisfied(schema) \/ Plain(schema))
-----------------------------------------------------------------------------
In(c, pc) == caller[c].pc = pc
NextStatement(c, pc) == caller' = [caller EXCEPT ![c].pc = pc]

UserDBFault ==
    /\ userDBFaults < MaxUserDBFaults
    /\ userDBFaults' = userDBFaults + 1
    /\ smooth' = FALSE
Works == UNCHANGED <<userDBFaults, smooth>>

\* The only connection is taken by rows that nobody closes before ensureUserTables returns.
Free(c) == ~caller[c].rowsOpen

\* InitUserDB opens a pool; at the Once it runs the function, waits, or goes on.
EnterOnce(c) ==
    /\ In(c, "open")
    /\ \/ /\ once = "nobody"
          /\ once' = c
          /\ NextStatement(c, "check")
       \/ /\ once = "done"
          /\ caller' = [caller EXCEPT ![c] = IF ensureFailed THEN Away ELSE [@ EXCEPT !.pc = "query"]]
          /\ UNCHANGED once
    /\ UNCHANGED <<schema, draft, ensureFailed, userDBFaults, smooth>>

LeaveOnceWithPool(c, failed) ==
    /\ once' = "done"
    /\ ensureFailed' = FALSE
    /\ draft' = NoDraft
    /\ caller' = [caller EXCEPT ![c].pc = "query", ![c].rowsOpen = FALSE]

\* ensureUserTables returns, and with it the Once; the error stays for the whole process.
LeaveOnce(c, failed) ==
    /\ once' = "done"
    /\ ensureFailed' = failed
    /\ draft' = NoDraft
    /\ caller' = [caller EXCEPT ![c] = IF failed THEN Away ELSE [@ EXCEPT !.pc = "query", !.rowsOpen = FALSE]]

\* A statement of createOrUpdateUserTables fails: after a busy one there are two retries.
Retry(c) ==
    /\ UserDBFault
    /\ \/ /\ caller[c].attempt < 3
          /\ caller' = [caller EXCEPT ![c] = [pc |-> "preferences", attempt |-> @.attempt + 1,
                                              rowsOpen |-> FALSE]]
          /\ draft' = NoDraft
          /\ UNCHANGED <<once, ensureFailed>>
       \/ LeaveOnce(c, TRUE)
    /\ UNCHANGED schema

\* A statement that works: the file becomes s, and the next statement is at pc.
Statement(c, s, pc) ==
    /\ schema' = s
    /\ NextStatement(c, pc)
    /\ Works
    /\ UNCHANGED <<draft, once, ensureFailed>>

StatementAtOnce(c, s, pc) ==
    /\ schema' = s
    /\ draft' = s
    /\ NextStatement(c, pc)
    /\ Works
    /\ UNCHANGED <<once, ensureFailed>>

\* A statement inside the transaction.
Tentative(c, s, pc) ==
    /\ draft' = s
    /\ NextStatement(c, pc)
    /\ Works
    /\ UNCHANGED <<schema, once, ensureFailed>>
-----------------------------------------------------------------------------
\* userSchemaSatisfied; when it cannot tell, the tables are made or migrated again.
CheckSchema(c) ==
    /\ In(c, "check")
    /\ \/ /\ Satisfied(schema)
          /\ LeaveOnce(c, FALSE)
          /\ Works
       \/ /\ ~Satisfied(schema)
          /\ NextStatement(c, "preferences")
          /\ Works
          /\ UNCHANGED <<draft, once, ensureFailed>>
       \/ /\ NextStatement(c, "preferences")
          /\ UserDBFault
          /\ UNCHANGED <<draft, once, ensureFailed>>
    /\ UNCHANGED schema

CreatePreferences(c) ==
    /\ In(c, "preferences")
    /\ Statement(c, [schema EXCEPT !.preferences = TRUE], "skip") \/ Retry(c)

FindSkipColumnAndKeepRows(c) ==
    /\ In(c, "skip")
    /\ \/ /\ caller' = [caller EXCEPT ![c].pc = IF schema.skip THEN "needs" ELSE "alter",
                                      ![c].rowsOpen = TRUE]
          /\ Works
          /\ UNCHANGED <<schema, draft, once, ensureFailed>>
       \/ Retry(c)

\* The loop over the columns stops at skip_preset_confirmation with its rows still open.
FindSkipColumn(c) ==
    /\ In(c, "skip")
    /\ \/ /\ caller' = [caller EXCEPT ![c].pc = IF schema.skip THEN "needs" ELSE "alter",
                                      ![c].rowsOpen = schema.skip]
          /\ Works
          /\ UNCHANGED <<schema, draft, once, ensureFailed>>
       \/ Retry(c)

AddSkipColumn(c) ==
    /\ In(c, "alter")
    /\ Free(c)
    /\ Statement(c, [schema EXCEPT !.skip = TRUE], "needs") \/ Retry(c)

PersonalNavigationNeedsMigration(c) ==
    /\ In(c, "needs")
    /\ Free(c)
    /\ Statement(c, schema, IF schema.navTable = "old" THEN "columns" ELSE "createNav") \/ Retry(c)

\* ensureColumnExists for each of the later columns, outside the transaction.
EnsureColumns(c) ==
    /\ In(c, "columns")
    /\ \/ \E col \in Later \ schema.columns :
             Statement(c, [schema EXCEPT !.columns = @ \cup {col}], "columns")
       \/ schema.columns = Later /\ Statement(c, schema, "begin")
       \/ Retry(c)

BeginMigration(c) ==
    /\ In(c, "begin")
    /\ ~schema.spareTable       \* CREATE TABLE personal_navigation_new has no IF NOT EXISTS
    /\ Tentative(c, [schema EXCEPT !.spareTable = TRUE, !.spare = {}], "copy") \/ Retry(c)

CopyNavigations(c) ==
    /\ In(c, "copy")
    /\ Tentative(c, [draft EXCEPT !.spare = draft.rows], "drop") \/ Retry(c)

DropOldTable(c) ==
    /\ In(c, "drop")
    /\ Tentative(c, [draft EXCEPT !.navTable = "none", !.rows = {}, !.columns = {}], "rename") \/ Retry(c)

RenameNewTable(c) ==
    /\ In(c, "rename")
    /\ \/ Tentative(c, [draft EXCEPT !.navTable = "new", !.rows = draft.spare, !.spare = {},
                                     !.spareTable = FALSE], "commit")
       \/ Retry(c)

CommitMigration(c) ==
    /\ In(c, "commit")
    /\ \/ /\ schema' = draft
          /\ LeaveOnce(c, FALSE)
          /\ Works
       \/ Retry(c)

CreateNavigations(c) ==
    /\ In(c, "createNav")
    /\ \/ /\ schema' = [schema EXCEPT !.navTable = "new"]
          /\ LeaveOnce(c, FALSE)
          /\ Works
       \/ Retry(c)
-----------------------------------------------------------------------------
(* The functions that use the pool, and close it                           *)

Call(c) ==
    /\ In(c, "away")
    /\ caller' = [caller EXCEPT ![c] = [pc |-> "open", attempt |-> 1, rowsOpen |-> FALSE]]
    /\ UNCHANGED <<schema, draft, once, ensureFailed, userDBFaults, smooth>>

Query(c, s) ==
    /\ In(c, "query")
    /\ schema' = s
    /\ caller' = [caller EXCEPT ![c] = Away]
    /\ UNCHANGED <<draft, once, ensureFailed, userDBFaults, smooth>>

\* An upsert of one column keeps the other.
SetPreference(c, column) ==
    Query(c, [schema EXCEPT !.stored = @ \cup {column}])
ClearPreference(c, column) ==
    Query(c, [schema EXCEPT !.stored = @ \ {column}])

\* The columns quick_preset_1 to quick_preset_3 are created nowhere: every statement fails.
UserQuickPresets(c) == Query(c, schema)

UpsertPersonalNavigation(c, n) == Query(c, [schema EXCEPT !.rows = @ \cup {n}])
DeletePersonalNavigation(c, n) == Query(c, [schema EXCEPT !.rows = @ \ {n}])

\* A restart finds the file; an open transaction is rolled back.
UserDBRestart ==
    /\ userDBFaults < MaxUserDBFaults
    /\ userDBFaults' = userDBFaults + 1
    /\ smooth' = (Satisfied(schema) \/ Plain(schema))
    /\ draft' = NoDraft
    /\ once' = "nobody"
    /\ ensureFailed' = FALSE
    /\ caller' = [c \in Callers |-> Away]
    /\ UNCHANGED schema

EnsureStep(c) ==
    \/ EnterOnce(c) \/ CheckSchema(c) \/ CreatePreferences(c) \/ FindSkipColumn(c)
    \/ AddSkipColumn(c) \/ PersonalNavigationNeedsMigration(c) \/ EnsureColumns(c)
    \/ BeginMigration(c) \/ CopyNavigations(c) \/ DropOldTable(c) \/ RenameNewTable(c)
    \/ CommitMigration(c) \/ CreateNavigations(c)

QueryStep(c) ==
    \/ \E column \in {"preferred_pools", "skip_preset_confirmation"} :
          SetPreference(c, column) \/ ClearPreference(c, column)
    \/ UserQuickPresets(c)
    \/ \E n \in Navigations : UpsertPersonalNavigation(c, n) \/ DeletePersonalNavigation(c, n)

UserDBNext ==
    \/ \E c \in Callers : Call(c) \/ EnsureStep(c) \/ QueryStep(c)
    \/ UserDBRestart

\* Statements return and goroutines run.
UserDBFairness == \A c \in Callers : WF_userDBVars(EnsureStep(c)) /\ WF_userDBVars(QueryStep(c))

UserDBSpec == UserDBInit /\ [][UserDBNext]_userDBVars /\ UserDBFairness
-----------------------------------------------------------------------------
(* Properties                                                              *)

\* Whatever fails and wherever the process ends in the middle of a migration, a row of
\* personal_navigation goes only when somebody deletes it (migratePersonalNavigationTable).
NavigationsSurvive == [][
    \A n \in schema.rows \ schema'.rows : \E c \in Callers : In(c, "query") /\ schema'.navTable = "new" ]_userDBVars

\* Once InitUserDB has handed out a pool, both tables have the columns that
\* userSchemaSatisfied asks for, and no half-made copy is left of a migration.  These are
\* all that the preferences and navigations name; quick_preset_1 to quick_preset_3, which
\* quick_preset_db.go names, are not among them.
PoolsHaveTables == \A c \in Callers : In(c, "query") => Satisfied(schema) /\ ~schema.spareTable

\* In a process that finds a new file, the first version of user_preferences or a complete
\* schema, and meets no fault, every call comes to an end.  In any other case the first call
\* may wait for its own connection, inside the Once, and all calls after it (the break
\* in createOrUpdateUserTables).
InitUserDBReturns == \A c \in Callers :
    (In(c, "open") /\ smooth) ~> (In(c, "away") \/ ~smooth)
=============================================================================
