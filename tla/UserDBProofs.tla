---------------------------- MODULE UserDBProofs ----------------------------
(***************************************************************************)
(* Safety of the user database for any number of callers, rows and faults: *)
(* who gets a pool finds the tables, and a migration loses no row.         *)
(***************************************************************************)
EXTENDS UserDB, TLAPS

\* Where the one caller inside the Once stands.
Migrating == {"copy", "drop", "rename", "commit"}
Deep == Migrating \cup {"needs", "columns", "begin", "createNav"}
Ensuring == Deep \cup {"check", "preferences", "skip", "alter"}

\* Only who runs the Once changes tables, and only when it is done, without an error, does
\* anybody query; how far the one has come says which columns there are.
CallersInOrder == \A c \in Callers :
    /\ caller[c].pc \in Ensuring => once = c
    /\ caller[c].pc = "query" => once = "done" /\ ensureFailed = FALSE
    /\ caller[c].pc \in {"skip", "alter"} => schema.preferences = TRUE
    /\ caller[c].pc \in Deep => schema.preferences = TRUE /\ schema.skip = TRUE

\* The rows of the file are in the draft, in one table or the other, at every statement of the
\* transaction.
DraftInOrder == \A c \in Callers : caller[c].pc \in Migrating =>
    /\ draft \in Schema
    /\ draft.preferences = TRUE
    /\ draft.skip = TRUE
    /\ caller[c].pc \in {"copy", "commit"} => draft.rows = schema.rows
    /\ caller[c].pc \in {"drop", "rename"} => draft.spare = schema.rows
    /\ caller[c].pc = "commit" => draft.navTable = "new" /\ draft.spareTable = FALSE

FileInOrder ==
    /\ schema.spareTable = FALSE
    /\ once = "done" /\ ensureFailed = FALSE =>
          schema.preferences = TRUE /\ schema.skip = TRUE /\ schema.navTable = "new"

UserDBIInv == UserDBTypeOK /\ CallersInOrder /\ DraftInOrder /\ FileInOrder
-----------------------------------------------------------------------------
(* What every step relies on                                               *)

\* A caller that is under way has an attempt and its rows (InitUserDB).
LEMMA UnderWay ==
    ASSUME UserDBTypeOK, NEW c \in Callers, caller[c].pc # "away"
    PROVE  /\ caller[c] \in Caller
           /\ caller[c].attempt \in 1..3
           /\ caller[c].rowsOpen \in BOOLEAN
BY DEF UserDBTypeOK, Caller, Away

\* sync.Once: while one caller makes the tables, nobody else does, and nobody queries.
LEMMA OneInside ==
    ASSUME UserDBIInv, NEW c \in Callers, caller[c].pc \in Ensuring
    PROVE  /\ once = c
           /\ once # "done"
           /\ once # "nobody"
           /\ \A d \in Callers \ {c} : caller[d].pc \notin Ensuring /\ caller[d].pc # "query"
BY UserDBAssumption DEF UserDBIInv, CallersInOrder

\* A step of the caller inside the Once that does not leave it.
LEMMA StaysInside ==
    ASSUME UserDBIInv, NEW c \in Callers, caller[c].pc \in Ensuring,
           NEW r \in Caller, r.pc \in Ensuring, caller' = [caller EXCEPT ![c] = r],
           UNCHANGED <<once, ensureFailed>>,
           schema' \in Schema, schema'.spareTable = FALSE,
           draft' \in Schema \cup {NoDraft},
           userDBFaults' \in 0..MaxUserDBFaults, smooth' \in BOOLEAN,
           r.pc \in {"skip", "alter"} => schema'.preferences = TRUE,
           r.pc \in Deep => schema'.preferences = TRUE /\ schema'.skip = TRUE,
           r.pc \in Migrating =>
                /\ draft' \in Schema
                /\ draft'.preferences = TRUE
                /\ draft'.skip = TRUE
                /\ r.pc \in {"copy", "commit"} => draft'.rows = schema'.rows
                /\ r.pc \in {"drop", "rename"} => draft'.spare = schema'.rows
                /\ r.pc = "commit" => draft'.navTable = "new" /\ draft'.spareTable = FALSE
    PROVE  UserDBIInv'
<1>1. once = c /\ once # "done" /\ (\A d \in Callers \ {c} : caller[d].pc \notin Ensuring /\ caller[d].pc # "query")
  BY OneInside
<1>2. caller \in [Callers -> Caller \cup {Away}] /\ once \in {"nobody", "done"} \cup Callers /\ ensureFailed \in BOOLEAN
  BY DEF UserDBIInv, UserDBTypeOK
<1>3. caller'[c] = r /\ (\A d \in Callers \ {c} : caller'[d] = caller[d])
  BY <1>2
<1>4. caller' \in [Callers -> Caller \cup {Away}]
  BY <1>2
<1>5. UserDBTypeOK'
  BY <1>2, <1>4 DEF UserDBTypeOK
<1>6. \A d \in Callers : caller'[d].pc \in Ensuring => d = c
  BY <1>1, <1>3
<1>7. \A d \in Callers : caller'[d].pc # "query"
  <2>1. "query" \notin Ensuring
    BY DEF Ensuring, Deep, Migrating
  <2> QED BY <1>1, <1>3, <2>1
<1>8. CallersInOrder'
  BY <1>1, <1>3, <1>6, <1>7 DEF CallersInOrder, Ensuring
<1>9. DraftInOrder'
  BY <1>3, <1>6 DEF DraftInOrder, Ensuring, Deep
<1>10. FileInOrder'
  BY <1>1 DEF FileInOrder
<1> QED BY <1>5, <1>8, <1>9, <1>10 DEF UserDBIInv

\* The step with which the caller leaves the Once: all columns are there unless it failed.
LEMMA LeavesOnce ==
    ASSUME UserDBIInv, NEW c \in Callers, caller[c].pc \in Ensuring,
           NEW failed \in BOOLEAN, LeaveOnce(c, failed),
           schema' \in Schema, schema'.spareTable = FALSE,
           userDBFaults' \in 0..MaxUserDBFaults, smooth' \in BOOLEAN,
           ~failed => schema'.preferences = TRUE /\ schema'.skip = TRUE /\ schema'.navTable = "new"
    PROVE  UserDBIInv'
<1>1. \A d \in Callers \ {c} : caller[d].pc \notin Ensuring /\ caller[d].pc # "query"
  BY OneInside
<1>2. caller \in [Callers -> Caller \cup {Away}]
  BY DEF UserDBIInv, UserDBTypeOK
<1>3. PICK r \in Caller \cup {Away} :
         /\ caller' = [caller EXCEPT ![c] = r]
         /\ IF failed THEN r.pc = "away" ELSE r.pc = "query"
  <2>1. caller[c].pc # "away"
    BY DEF Ensuring, Deep, Migrating
  <2>2. caller[c] \in Caller
    BY <2>1, UnderWay DEF UserDBIInv
  <2>3. [caller[c] EXCEPT !.pc = "query", !.rowsOpen = FALSE] \in Caller
    BY <2>2 DEF Caller
  <2>4. [caller[c] EXCEPT !.pc = "query", !.rowsOpen = FALSE].pc = "query"
    BY <2>2 DEF Caller
  <2>5. CASE failed
    <3>1. caller' = [caller EXCEPT ![c] = Away] /\ Away.pc = "away"
      BY <2>5 DEF LeaveOnce, Away
    <3> QED BY <2>5, <3>1
  <2>6. CASE ~failed
    <3>1. caller' = [caller EXCEPT ![c] = [caller[c] EXCEPT !.pc = "query", !.rowsOpen = FALSE]]
      BY <2>6 DEF LeaveOnce
    <3> QED BY <2>3, <2>4, <2>6, <3>1
  <2> QED BY <2>5, <2>6
<1>4. caller'[c] = r /\ (\A d \in Callers \ {c} : caller'[d] = caller[d])
  BY <1>2, <1>3
<1>5. once' = "done" /\ ensureFailed' = failed /\ draft' = NoDraft
  BY DEF LeaveOnce
<1>6. UserDBTypeOK'
  BY <1>2, <1>3, <1>5 DEF UserDBTypeOK
<1>7. \A d \in Callers : caller'[d].pc \notin Ensuring
  BY <1>1, <1>3, <1>4 DEF Ensuring, Deep, Migrating
<1>8. \A d \in Callers : caller'[d].pc = "query" => ~failed
  BY <1>1, <1>3, <1>4
<1>9. CallersInOrder' /\ DraftInOrder'
  BY <1>5, <1>7, <1>8 DEF CallersInOrder, DraftInOrder, Ensuring, Deep
<1>10. FileInOrder'
  BY <1>5 DEF FileInOrder
<1> QED BY <1>6, <1>9, <1>10 DEF UserDBIInv

\* The rules for the caller that stays, for a statement that only says where it goes next.
LEMMA GoesOn ==
    ASSUME UserDBTypeOK, NEW c \in Callers, caller[c].pc \in Ensuring,
           NEW pc \in Ensuring, NextStatement(c, pc)
    PROVE  \E r \in Caller : r.pc = pc /\ caller' = [caller EXCEPT ![c] = r]
<1>1. caller[c].pc # "away"
  BY DEF Ensuring, Deep, Migrating
<1>2. caller[c] \in Caller
  BY <1>1, UnderWay
<1>3. [caller[c] EXCEPT !.pc = pc] \in Caller /\ [caller[c] EXCEPT !.pc = pc].pc = pc
  BY <1>2 DEF Caller, Ensuring, Deep, Migrating
<1>4. caller' = [caller EXCEPT ![c] = [caller[c] EXCEPT !.pc = pc]]
  BY DEF NextStatement, UserDBTypeOK
<1> QED BY <1>3, <1>4

\* What a step does to the counters, whether the statement works or fails.
LEMMA Counters ==
    ASSUME UserDBTypeOK, UserDBFault \/ Works
    PROVE  userDBFaults' \in 0..MaxUserDBFaults /\ smooth' \in BOOLEAN
<1>1. userDBFaults \in 0..MaxUserDBFaults /\ smooth \in BOOLEAN /\ MaxUserDBFaults \in Nat
  BY UserDBAssumption DEF UserDBTypeOK
<1>2. CASE UserDBFault
  <2>1. userDBFaults' \in 0..MaxUserDBFaults
    BY <1>1, <1>2 DEF UserDBFault
  <2>2. smooth' \in BOOLEAN
    BY <1>2, Zenon DEF UserDBFault
  <2> QED BY <2>1, <2>2
<1>3. CASE Works
  BY <1>1, <1>3 DEF Works
<1> QED BY <1>2, <1>3

\* What the invariant says of the caller inside the Once.
LEMMA Inside ==
    ASSUME UserDBIInv, NEW c \in Callers, caller[c].pc \in Ensuring
    PROVE  /\ schema \in Schema
           /\ draft \in Schema \cup {NoDraft}
           /\ schema.spareTable = FALSE
           /\ caller[c].pc \in {"skip", "alter"} => schema.preferences = TRUE
           /\ caller[c].pc \in Deep => schema.preferences = TRUE /\ schema.skip = TRUE
           /\ caller[c].pc \in Migrating =>
                /\ draft \in Schema
                /\ draft.preferences = TRUE
                /\ draft.skip = TRUE
                /\ caller[c].pc \in {"copy", "commit"} => draft.rows = schema.rows
                /\ caller[c].pc \in {"drop", "rename"} => draft.spare = schema.rows
                /\ caller[c].pc = "commit" => draft.navTable = "new" /\ draft.spareTable = FALSE
BY DEF UserDBIInv, UserDBTypeOK, CallersInOrder, DraftInOrder, FileInOrder
-----------------------------------------------------------------------------
(* One lemma for each step                                                 *)

\* A failing statement goes back to the first one or ends the Once with an error.
LEMMA RetryKeeps ==
    ASSUME UserDBIInv, NEW c \in Callers, caller[c].pc \in Ensuring, Retry(c)
    PROVE  UserDBIInv'
<1>1. userDBFaults' \in 0..MaxUserDBFaults /\ smooth' \in BOOLEAN
  BY Counters DEF UserDBIInv, Retry
<1>2. schema' = schema /\ schema \in Schema /\ schema.spareTable = FALSE
  BY Inside DEF Retry
<1>3. CASE LeaveOnce(c, TRUE)
  BY <1>1, <1>2, <1>3, LeavesOnce
<1>4. CASE /\ caller[c].attempt < 3
           /\ caller' = [caller EXCEPT ![c] = [pc |-> "preferences", attempt |-> @.attempt + 1, rowsOpen |-> FALSE]]
           /\ draft' = NoDraft
           /\ UNCHANGED <<once, ensureFailed>>
  <2> DEFINE r == [pc |-> "preferences", attempt |-> caller[c].attempt + 1, rowsOpen |-> FALSE]
  <2>1. caller[c].pc # "away"
    BY DEF Ensuring, Deep, Migrating
  <2>2. caller[c].attempt \in 1..3
    BY <2>1, UnderWay DEF UserDBIInv
  <2>3. r \in Caller
    BY <1>4, <2>2 DEF Caller
  <2>4. r.pc \in Ensuring /\ r.pc \notin Deep /\ r.pc \notin Migrating /\ r.pc \notin {"skip", "alter"}
    BY DEF Ensuring, Deep, Migrating
  <2>5. caller' = [caller EXCEPT ![c] = r]
    BY <1>4
  <2> HIDE DEF r
  <2> QED BY <1>1, <1>2, <1>4, <2>3, <2>4, <2>5, StaysInside
<1> QED BY <1>3, <1>4 DEF Retry

\* A statement that works outside the transaction, and leads to a place outside it.
LEMMA StatementKeeps ==
    ASSUME UserDBIInv, NEW c \in Callers, caller[c].pc \in Ensuring,
           NEW s \in Schema, NEW pc \in Ensuring \ Migrating, Statement(c, s, pc),
           s.spareTable = FALSE,
           pc \in {"skip", "alter"} => s.preferences = TRUE,
           pc \in Deep => s.preferences = TRUE /\ s.skip = TRUE
    PROVE  UserDBIInv'
<1>1. userDBFaults' \in 0..MaxUserDBFaults /\ smooth' \in BOOLEAN
  BY Counters DEF UserDBIInv, Statement
<1>2. PICK r \in Caller : r.pc = pc /\ caller' = [caller EXCEPT ![c] = r]
  BY GoesOn DEF Statement, UserDBIInv
<1>3. schema' = s /\ draft' \in Schema \cup {NoDraft} /\ UNCHANGED <<once, ensureFailed>>
  BY Inside DEF Statement
<1> QED BY <1>1, <1>2, <1>3, StaysInside

\* A statement of the transaction keeps the file, and the draft keeps the rows.
LEMMA TentativeKeeps ==
    ASSUME UserDBIInv, NEW c \in Callers, caller[c].pc \in Migrating \cup {"begin"},
           NEW s \in Schema, NEW pc \in Migrating, Tentative(c, s, pc),
           s.preferences = TRUE, s.skip = TRUE,
           pc \in {"copy", "commit"} => s.rows = schema.rows,
           pc \in {"drop", "rename"} => s.spare = schema.rows,
           pc = "commit" => s.navTable = "new" /\ s.spareTable = FALSE
    PROVE  UserDBIInv'
<1>1. userDBFaults' \in 0..MaxUserDBFaults /\ smooth' \in BOOLEAN
  BY Counters DEF UserDBIInv, Tentative
<1>2. caller[c].pc \in Ensuring /\ caller[c].pc \in Deep /\ pc \in Ensuring
  BY DEF Ensuring, Deep, Migrating
<1>3. PICK r \in Caller : r.pc = pc /\ caller' = [caller EXCEPT ![c] = r]
  BY <1>2, GoesOn DEF Tentative, UserDBIInv
<1>4. schema' = schema /\ draft' = s /\ UNCHANGED <<once, ensureFailed>>
  BY DEF Tentative
<1>5. schema \in Schema /\ schema.spareTable = FALSE /\ schema.preferences = TRUE /\ schema.skip = TRUE
  BY <1>2, Inside
<1> QED BY <1>1, <1>2, <1>3, <1>4, <1>5, StaysInside

\* The Once is entered by the first caller; the others wait, and share its result.
LEMMA EnterOnceKeeps ==
    ASSUME UserDBIInv, NEW c \in Callers, EnterOnce(c)
    PROVE  UserDBIInv'
<1>1. UserDBTypeOK /\ caller[c].pc = "open" /\ caller \in [Callers -> Caller \cup {Away}]
  BY DEF UserDBIInv, EnterOnce, In, UserDBTypeOK
<1>2. caller[c] \in Caller
  BY <1>1, UnderWay
<1>3. UNCHANGED <<schema, draft, ensureFailed, userDBFaults, smooth>>
  BY DEF EnterOnce
<1>4. CASE once = "nobody" /\ once' = c /\ NextStatement(c, "check")
  <2> DEFINE r == [caller[c] EXCEPT !.pc = "check"]
  <2>1. r \in Caller /\ r.pc = "check"
    BY <1>2 DEF Caller
  <2>2. caller' = [caller EXCEPT ![c] = r]
    BY <1>4 DEF NextStatement
  <2> HIDE DEF r
  <2>3. caller'[c] = r /\ (\A d \in Callers \ {c} : caller'[d] = caller[d])
    BY <1>1, <2>2
  <2>4. once \notin Callers
    BY <1>4, UserDBAssumption
  <2>5. \A d \in Callers : caller[d].pc \notin Ensuring /\ caller[d].pc # "query"
    BY <1>4, <2>4 DEF UserDBIInv, CallersInOrder
  <2>6. UserDBTypeOK'
    BY <1>1, <1>3, <1>4, <2>1, <2>2 DEF UserDBTypeOK
  <2>7. CallersInOrder' /\ DraftInOrder'
    BY <1>3, <1>4, <2>1, <2>3, <2>5 DEF CallersInOrder, DraftInOrder, Ensuring, Deep, Migrating
  <2>8. FileInOrder'
    BY <1>3, <1>4, UserDBAssumption DEF UserDBIInv, FileInOrder
  <2> QED BY <2>6, <2>7, <2>8 DEF UserDBIInv
<1>5. CASE once = "done" /\ UNCHANGED once
           /\ caller' = [caller EXCEPT ![c] = IF ensureFailed THEN Away ELSE [@ EXCEPT !.pc = "query"]]
  <2>1. PICK r \in Caller \cup {Away} :
           /\ caller' = [caller EXCEPT ![c] = r]
           /\ r.pc = "away" \/ (r.pc = "query" /\ ensureFailed = FALSE)
    <3>1. CASE ensureFailed
      <4>1. caller' = [caller EXCEPT ![c] = Away] /\ Away.pc = "away"
        BY <1>5, <3>1 DEF Away
      <4> QED BY <4>1
    <3>2. CASE ensureFailed = FALSE
      <4>1. caller' = [caller EXCEPT ![c] = [caller[c] EXCEPT !.pc = "query"]]
        BY <1>5, <3>2
      <4>2. [caller[c] EXCEPT !.pc = "query"] \in Caller /\ [caller[c] EXCEPT !.pc = "query"].pc = "query"
        BY <1>2 DEF Caller
      <4> QED BY <3>2, <4>1, <4>2
    <3> QED BY <1>1, <3>1, <3>2 DEF UserDBTypeOK
  <2>2. caller'[c] = r /\ (\A d \in Callers \ {c} : caller'[d] = caller[d])
    BY <1>1, <2>1
  <2>3. UserDBTypeOK'
    BY <1>1, <1>3, <1>5, <2>1 DEF UserDBTypeOK
  <2>4. r.pc \notin Ensuring /\ r.pc \notin Deep /\ r.pc \notin Migrating /\ r.pc \notin {"skip", "alter"}
    BY <2>1 DEF Ensuring, Deep, Migrating
  <2>5. CallersInOrder' /\ DraftInOrder'
    BY <1>3, <1>5, <2>1, <2>2, <2>4, ZenonT(40) DEF UserDBIInv, CallersInOrder, DraftInOrder
  <2>6. FileInOrder'
    BY <1>3, <1>5 DEF UserDBIInv, FileInOrder
  <2> QED BY <2>3, <2>5, <2>6 DEF UserDBIInv
<1> QED BY <1>4, <1>5 DEF EnterOnce

\* userSchemaSatisfied: a complete schema ends the Once at once.
LEMMA CheckSchemaKeeps ==
    ASSUME UserDBIInv, NEW c \in Callers, CheckSchema(c)
    PROVE  UserDBIInv'
<1>1. caller[c].pc \in Ensuring /\ schema' = schema
  BY DEF CheckSchema, In, Ensuring
<1>2. schema \in Schema /\ schema.spareTable = FALSE
  BY <1>1, Inside
<1>3. userDBFaults' \in 0..MaxUserDBFaults /\ smooth' \in BOOLEAN
  BY Counters DEF UserDBIInv, CheckSchema
<1>4. CASE Satisfied(schema) /\ LeaveOnce(c, FALSE)
  <2>1. schema.preferences = TRUE /\ schema.skip = TRUE /\ schema.navTable = "new"
    BY <1>2, <1>4 DEF Satisfied, Schema
  <2> QED BY <1>1, <1>2, <1>3, <1>4, <2>1, LeavesOnce
<1>5. CASE NextStatement(c, "preferences") /\ UNCHANGED <<draft, once, ensureFailed>>
  <2>1. "preferences" \in Ensuring /\ "preferences" \notin Deep \cup Migrating \cup {"skip", "alter"}
    BY DEF Ensuring, Deep, Migrating
  <2>2. PICK r \in Caller : r.pc = "preferences" /\ caller' = [caller EXCEPT ![c] = r]
    BY <1>1, <1>5, <2>1, GoesOn DEF UserDBIInv
  <2>3. draft' \in Schema \cup {NoDraft}
    BY <1>5 DEF UserDBIInv, UserDBTypeOK
  <2> QED BY <1>1, <1>2, <1>3, <1>5, <2>1, <2>2, <2>3, StaysInside
<1> QED BY <1>4, <1>5 DEF CheckSchema

\* CREATE TABLE IF NOT EXISTS user_preferences.
LEMMA CreatePreferencesKeeps ==
    ASSUME UserDBIInv, NEW c \in Callers, CreatePreferences(c)
    PROVE  UserDBIInv'
<1>1. caller[c].pc \in Ensuring
  BY DEF CreatePreferences, In, Ensuring
<1> DEFINE s == [schema EXCEPT !.preferences = TRUE]
<1>2. s \in Schema /\ s.spareTable = FALSE /\ s.preferences = TRUE
  BY <1>1, Inside DEF Schema
<1>3. "skip" \in Ensuring \ Migrating /\ "skip" \notin Deep
  BY DEF Ensuring, Deep, Migrating
<1>4. Statement(c, s, "skip") \/ Retry(c)
  BY DEF CreatePreferences
<1> HIDE DEF s
<1> QED BY <1>1, <1>2, <1>3, <1>4, StatementKeeps, RetryKeeps

\* The loop over the columns of user_preferences.
LEMMA FindSkipColumnKeeps ==
    ASSUME UserDBIInv, NEW c \in Callers, FindSkipColumn(c)
    PROVE  UserDBIInv'
<1>1. caller[c].pc = "skip" /\ caller[c].pc \in Ensuring
  BY DEF FindSkipColumn, In, Ensuring
<1>2. schema \in Schema /\ schema.spareTable = FALSE /\ schema.preferences = TRUE
  BY <1>1, Inside
<1>3. CASE Retry(c)
  BY <1>1, <1>3, RetryKeeps
<1>4. CASE /\ caller' = [caller EXCEPT ![c].pc = IF schema.skip THEN "needs" ELSE "alter", ![c].rowsOpen = schema.skip]
           /\ Works
           /\ UNCHANGED <<schema, draft, once, ensureFailed>>
  <2> DEFINE pc == IF schema.skip THEN "needs" ELSE "alter"
             r == [[caller[c] EXCEPT !.pc = pc] EXCEPT !.rowsOpen = schema.skip]
  <2>1. caller[c] \in Caller
    BY <1>1, UnderWay DEF UserDBIInv
  <2>2. schema.skip \in BOOLEAN
    BY <1>2 DEF Schema
  <2>3. pc \in Ensuring \ Migrating /\ (pc \in Deep => schema.skip = TRUE)
    BY <2>2 DEF Ensuring, Deep, Migrating
  <2>4. pc \in {"needs", "alter"}
    OBVIOUS
  <2>5. caller' = [caller EXCEPT ![c] = r]
    BY <1>4 DEF UserDBIInv, UserDBTypeOK
  <2> HIDE DEF pc
  <2>6. r \in Caller /\ r.pc = pc
    BY <2>1, <2>2, <2>4 DEF Caller
  <2> HIDE DEF r
  <2>7. userDBFaults' \in 0..MaxUserDBFaults /\ smooth' \in BOOLEAN
    BY <1>4, Counters DEF UserDBIInv
  <2>8. draft' \in Schema \cup {NoDraft} /\ schema' = schema /\ UNCHANGED <<once, ensureFailed>>
    BY <1>4 DEF UserDBIInv, UserDBTypeOK
  <2> QED BY <1>1, <1>2, <2>3, <2>5, <2>6, <2>7, <2>8, StaysInside
<1> QED BY <1>3, <1>4 DEF FindSkipColumn

\* ALTER TABLE user_preferences ADD COLUMN skip_preset_confirmation.
LEMMA AddSkipColumnKeeps ==
    ASSUME UserDBIInv, NEW c \in Callers, AddSkipColumn(c)
    PROVE  UserDBIInv'
<1>1. caller[c].pc = "alter" /\ caller[c].pc \in Ensuring
  BY DEF AddSkipColumn, In, Ensuring
<1> DEFINE s == [schema EXCEPT !.skip = TRUE]
<1>2. s \in Schema /\ s.spareTable = FALSE /\ s.preferences = TRUE /\ s.skip = TRUE
  BY <1>1, Inside DEF Schema
<1>3. "needs" \in Ensuring \ Migrating
  BY DEF Ensuring, Deep, Migrating
<1>4. Statement(c, s, "needs") \/ Retry(c)
  BY DEF AddSkipColumn
<1> HIDE DEF s
<1> QED BY <1>1, <1>2, <1>3, <1>4, StatementKeeps, RetryKeeps

\* personalNavigationNeedsMigration only reads.
LEMMA NeedsMigrationKeeps ==
    ASSUME UserDBIInv, NEW c \in Callers, PersonalNavigationNeedsMigration(c)
    PROVE  UserDBIInv'
<1>1. caller[c].pc \in Ensuring /\ caller[c].pc \in Deep
  BY DEF PersonalNavigationNeedsMigration, In, Ensuring, Deep
<1>2. schema \in Schema /\ schema.spareTable = FALSE /\ schema.preferences = TRUE /\ schema.skip = TRUE
  BY <1>1, Inside
<1> DEFINE pc == IF schema.navTable = "old" THEN "columns" ELSE "createNav"
<1>3. pc \in Ensuring \ Migrating
  BY DEF Ensuring, Deep, Migrating
<1>4. Statement(c, schema, pc) \/ Retry(c)
  BY DEF PersonalNavigationNeedsMigration
<1> HIDE DEF pc
<1> QED BY <1>1, <1>2, <1>3, <1>4, StatementKeeps, RetryKeeps

\* ensureColumnExists, for each column of a later version.
LEMMA EnsureColumnsKeeps ==
    ASSUME UserDBIInv, NEW c \in Callers, EnsureColumns(c)
    PROVE  UserDBIInv'
<1>1. caller[c].pc \in Ensuring /\ caller[c].pc \in Deep
  BY DEF EnsureColumns, In, Ensuring, Deep
<1>2. schema \in Schema /\ schema.spareTable = FALSE /\ schema.preferences = TRUE /\ schema.skip = TRUE
  BY <1>1, Inside
<1>3. "columns" \in Ensuring \ Migrating /\ "begin" \in Ensuring \ Migrating
  BY DEF Ensuring, Deep, Migrating
<1>4. ASSUME NEW col \in Later, Statement(c, [schema EXCEPT !.columns = @ \cup {col}], "columns")
      PROVE  UserDBIInv'
  <2> DEFINE s == [schema EXCEPT !.columns = @ \cup {col}]
  <2>1. s.spareTable = FALSE /\ s.preferences = TRUE /\ s.skip = TRUE
    BY <1>2 DEF Schema
  <2>2. schema.columns \cup {col} \in SUBSET Later
    BY <1>2 DEF Schema
  <2>3. s \in Schema
    BY <1>2, <2>2 DEF Schema
  <2> HIDE DEF s
  <2> QED BY <1>1, <1>3, <1>4, <2>1, <2>3, StatementKeeps DEF s
<1>5. CASE Statement(c, schema, "begin")
  BY <1>1, <1>2, <1>3, <1>5, StatementKeeps
<1> QED BY <1>1, <1>4, <1>5, RetryKeeps DEF EnsureColumns

\* BEGIN and CREATE TABLE personal_navigation_new.
LEMMA BeginMigrationKeeps ==
    ASSUME UserDBIInv, NEW c \in Callers, BeginMigration(c)
    PROVE  UserDBIInv'
<1>1. caller[c].pc = "begin" /\ caller[c].pc \in Deep /\ caller[c].pc \in Ensuring
  BY DEF BeginMigration, In, Ensuring, Deep
<1>2. schema \in Schema /\ schema.preferences = TRUE /\ schema.skip = TRUE
  BY <1>1, Inside
<1> DEFINE s == [schema EXCEPT !.spareTable = TRUE, !.spare = {}]
<1>3. s \in Schema /\ s.preferences = TRUE /\ s.skip = TRUE /\ s.rows = schema.rows
  BY <1>2 DEF Schema
<1>4. "copy" \in Migrating
  BY DEF Migrating
<1>5. Tentative(c, s, "copy") \/ Retry(c)
  BY DEF BeginMigration
<1> HIDE DEF s
<1> QED BY <1>1, <1>3, <1>4, <1>5, TentativeKeeps, RetryKeeps

\* INSERT INTO personal_navigation_new SELECT: the spare table has the rows of the file.
LEMMA CopyNavigationsKeeps ==
    ASSUME UserDBIInv, NEW c \in Callers, CopyNavigations(c)
    PROVE  UserDBIInv'
<1>1. caller[c].pc = "copy" /\ caller[c].pc \in Migrating /\ caller[c].pc \in Ensuring
  BY DEF CopyNavigations, In, Ensuring, Deep, Migrating
<1>2. draft \in Schema /\ draft.preferences = TRUE /\ draft.skip = TRUE /\ draft.rows = schema.rows
  BY <1>1, Inside
<1> DEFINE s == [draft EXCEPT !.spare = draft.rows]
<1>3. s \in Schema /\ s.preferences = TRUE /\ s.skip = TRUE
  BY <1>2 DEF Schema
<1>4. s.spare = schema.rows
  BY <1>2 DEF Schema
<1>5. "drop" \in Migrating
  BY DEF Migrating
<1>6. Tentative(c, s, "drop") \/ Retry(c)
  BY DEF CopyNavigations
<1> HIDE DEF s
<1> QED BY <1>1, <1>3, <1>4, <1>5, <1>6, TentativeKeeps, RetryKeeps

\* DROP TABLE personal_navigation, in the draft alone.
LEMMA DropOldTableKeeps ==
    ASSUME UserDBIInv, NEW c \in Callers, DropOldTable(c)
    PROVE  UserDBIInv'
<1>1. caller[c].pc = "drop" /\ caller[c].pc \in Migrating /\ caller[c].pc \in Ensuring
  BY DEF DropOldTable, In, Ensuring, Deep, Migrating
<1>2. draft \in Schema /\ draft.preferences = TRUE /\ draft.skip = TRUE /\ draft.spare = schema.rows
  BY <1>1, Inside
<1> DEFINE s == [draft EXCEPT !.navTable = "none", !.rows = {}, !.columns = {}]
<1>3. s \in Schema /\ s.preferences = TRUE /\ s.skip = TRUE
  BY <1>2 DEF Schema
<1>4. s.spare = schema.rows
  BY <1>2 DEF Schema
<1>5. "rename" \in Migrating
  BY DEF Migrating
<1>6. Tentative(c, s, "rename") \/ Retry(c)
  BY DEF DropOldTable
<1> HIDE DEF s
<1> QED BY <1>1, <1>3, <1>4, <1>5, <1>6, TentativeKeeps, RetryKeeps

\* ALTER TABLE personal_navigation_new RENAME: the rows are back.
LEMMA RenameNewTableKeeps ==
    ASSUME UserDBIInv, NEW c \in Callers, RenameNewTable(c)
    PROVE  UserDBIInv'
<1>1. caller[c].pc = "rename" /\ caller[c].pc \in Migrating /\ caller[c].pc \in Ensuring
  BY DEF RenameNewTable, In, Ensuring, Deep, Migrating
<1>2. draft \in Schema /\ draft.preferences = TRUE /\ draft.skip = TRUE /\ draft.spare = schema.rows
  BY <1>1, Inside
<1> DEFINE s == [draft EXCEPT !.navTable = "new", !.rows = draft.spare, !.spare = {},
                          !.spareTable = FALSE]
<1>3. s \in Schema /\ s.preferences = TRUE /\ s.skip = TRUE
  BY <1>2 DEF Schema
<1>4. s.rows = schema.rows /\ s.navTable = "new" /\ s.spareTable = FALSE
  BY <1>2 DEF Schema
<1>5. "commit" \in Migrating
  BY DEF Migrating
<1>6. Tentative(c, s, "commit") \/ Retry(c)
  BY DEF RenameNewTable
<1> HIDE DEF s
<1> QED BY <1>1, <1>3, <1>4, <1>5, <1>6, TentativeKeeps, RetryKeeps

\* COMMIT: the draft, with all the rows, becomes the file.
LEMMA CommitMigrationKeeps ==
    ASSUME UserDBIInv, NEW c \in Callers, CommitMigration(c)
    PROVE  UserDBIInv'
<1>1. caller[c].pc = "commit" /\ caller[c].pc \in Migrating /\ caller[c].pc \in Ensuring
  BY DEF CommitMigration, In, Ensuring, Deep, Migrating
<1>2. /\ draft \in Schema /\ draft.spareTable = FALSE
      /\ draft.preferences = TRUE /\ draft.skip = TRUE /\ draft.navTable = "new"
  BY <1>1, Inside
<1>3. CASE schema' = draft /\ LeaveOnce(c, FALSE) /\ Works
  BY <1>1, <1>2, <1>3, Counters, LeavesOnce DEF UserDBIInv
<1> QED BY <1>1, <1>3, RetryKeeps DEF CommitMigration

\* CREATE TABLE IF NOT EXISTS personal_navigation.
LEMMA CreateNavigationsKeeps ==
    ASSUME UserDBIInv, NEW c \in Callers, CreateNavigations(c)
    PROVE  UserDBIInv'
<1>1. caller[c].pc \in Deep /\ caller[c].pc \in Ensuring
  BY DEF CreateNavigations, In, Ensuring, Deep
<1>2. schema \in Schema /\ schema.spareTable = FALSE /\ schema.preferences = TRUE /\ schema.skip = TRUE
  BY <1>1, Inside
<1> DEFINE s == [schema EXCEPT !.navTable = "new"]
<1>3. s \in Schema /\ s.spareTable = FALSE /\ s.preferences = TRUE /\ s.skip = TRUE /\ s.navTable = "new"
  BY <1>2 DEF Schema
<1>4. (schema' = s /\ LeaveOnce(c, FALSE) /\ Works) \/ Retry(c)
  BY DEF CreateNavigations
<1> HIDE DEF s
<1>5. CASE schema' = s /\ LeaveOnce(c, FALSE) /\ Works
  BY <1>1, <1>3, <1>5, Counters, LeavesOnce DEF UserDBIInv
<1> QED BY <1>1, <1>4, <1>5, RetryKeeps
-----------------------------------------------------------------------------
\* A caller that is outside goes to a place that the invariant says nothing of.
LEMMA OutsideKeeps ==
    ASSUME UserDBIInv, NEW c \in Callers, NEW r \in Caller \cup {Away}, r.pc \in {"away", "open"},
           caller' = [caller EXCEPT ![c] = r],
           UNCHANGED <<schema, draft, once, ensureFailed, userDBFaults, smooth>>
    PROVE  UserDBIInv'
<1>1. caller \in [Callers -> Caller \cup {Away}]
  BY DEF UserDBIInv, UserDBTypeOK
<1>2. caller'[c] = r /\ (\A d \in Callers \ {c} : caller'[d] = caller[d])
  BY <1>1
<1>3. UserDBTypeOK'
  BY <1>1 DEF UserDBIInv, UserDBTypeOK
<1>4. r.pc \notin Ensuring /\ r.pc \notin Deep /\ r.pc \notin Migrating /\ r.pc \notin {"query", "skip", "alter"}
  BY DEF Ensuring, Deep, Migrating
<1>5. CallersInOrder' /\ DraftInOrder' /\ FileInOrder'
  BY <1>2, <1>4 DEF UserDBIInv, CallersInOrder, DraftInOrder, FileInOrder
<1> QED BY <1>3, <1>5 DEF UserDBIInv

\* InitUserDB is called.
LEMMA CallKeeps ==
    ASSUME UserDBIInv, NEW c \in Callers, Call(c)
    PROVE  UserDBIInv'
<1> DEFINE r == [pc |-> "open", attempt |-> 1, rowsOpen |-> FALSE]
<1>1. r \in Caller /\ r.pc = "open"
  BY DEF Caller
<1>2. caller' = [caller EXCEPT ![c] = r]
  BY DEF Call
<1> HIDE DEF r
<1> QED BY <1>1, <1>2, OutsideKeeps DEF Call

\* While somebody queries, nobody migrates, and a query leaves the tables as they are.
LEMMA QueryKeeps ==
    ASSUME UserDBIInv, NEW c \in Callers, NEW s \in Schema, Query(c, s),
           s.preferences = schema.preferences, s.skip = schema.skip,
           s.navTable = schema.navTable, s.spareTable = schema.spareTable
    PROVE  UserDBIInv'
<1>1. caller[c].pc = "query" /\ caller \in [Callers -> Caller \cup {Away}]
  BY DEF Query, In, UserDBIInv, UserDBTypeOK
<1>2. once = "done" /\ ensureFailed = FALSE /\ once \notin Callers
  BY <1>1, UserDBAssumption DEF UserDBIInv, CallersInOrder
<1>3. \A d \in Callers : caller[d].pc \notin Ensuring
  BY <1>2 DEF UserDBIInv, CallersInOrder
<1>4. schema' = s /\ caller' = [caller EXCEPT ![c] = Away] /\ UNCHANGED <<draft, once, ensureFailed, userDBFaults, smooth>>
  BY DEF Query
<1>5. caller'[c] = Away /\ (\A d \in Callers \ {c} : caller'[d] = caller[d])
  BY <1>1, <1>4
<1>6. UserDBTypeOK'
  BY <1>1, <1>4 DEF UserDBIInv, UserDBTypeOK
<1>7. \A d \in Callers : caller'[d].pc \notin Ensuring
  BY <1>3, <1>5 DEF Away, Ensuring, Deep, Migrating
<1>8. CallersInOrder' /\ DraftInOrder'
  BY <1>2, <1>4, <1>7 DEF CallersInOrder, DraftInOrder, Ensuring, Deep
<1>9. FileInOrder'
  BY <1>4 DEF UserDBIInv, FileInOrder
<1> QED BY <1>6, <1>8, <1>9 DEF UserDBIInv

\* The functions behind a pool.
LEMMA QueryStepKeeps ==
    ASSUME UserDBIInv, NEW c \in Callers, QueryStep(c)
    PROVE  UserDBIInv'
<1>1. schema \in Schema
  BY DEF UserDBIInv, UserDBTypeOK
<1>2. ASSUME NEW v \in SUBSET {"preferred_pools", "skip_preset_confirmation"}, Query(c, [schema EXCEPT !.stored = v])
      PROVE  UserDBIInv'
  <2> DEFINE s == [schema EXCEPT !.stored = v]
  <2>1. /\ s \in Schema
        /\ s.preferences = schema.preferences /\ s.skip = schema.skip
        /\ s.navTable = schema.navTable /\ s.spareTable = schema.spareTable
    BY <1>1 DEF Schema
  <2>2. Query(c, s)
    BY <1>2
  <2> HIDE DEF s
  <2> QED BY <2>1, <2>2, QueryKeeps
<1>3. ASSUME NEW v \in SUBSET Navigations, Query(c, [schema EXCEPT !.rows = v])
      PROVE  UserDBIInv'
  <2> DEFINE s == [schema EXCEPT !.rows = v]
  <2>1. /\ s \in Schema
        /\ s.preferences = schema.preferences /\ s.skip = schema.skip
        /\ s.navTable = schema.navTable /\ s.spareTable = schema.spareTable
    BY <1>1 DEF Schema
  <2>2. Query(c, s)
    BY <1>3
  <2> HIDE DEF s
  <2> QED BY <2>1, <2>2, QueryKeeps
<1>4. schema.stored \in SUBSET {"preferred_pools", "skip_preset_confirmation"} /\ schema.rows \in SUBSET Navigations
  BY <1>1 DEF Schema
<1>5. CASE \E column \in {"preferred_pools", "skip_preset_confirmation"} : SetPreference(c, column) \/ ClearPreference(c, column)
  <2>1. PICK column \in {"preferred_pools", "skip_preset_confirmation"} : SetPreference(c, column) \/ ClearPreference(c, column)
    BY <1>5
  <2>2. CASE SetPreference(c, column)
    <3>1. schema.stored \cup {column} \in SUBSET {"preferred_pools", "skip_preset_confirmation"}
      BY <1>4
    <3> QED BY <1>2, <2>2, <3>1 DEF SetPreference
  <2>3. CASE ClearPreference(c, column)
    <3>1. schema.stored \ {column} \in SUBSET {"preferred_pools", "skip_preset_confirmation"}
      BY <1>4
    <3> QED BY <1>2, <2>3, <3>1 DEF ClearPreference
  <2> QED BY <2>1, <2>2, <2>3
<1>6. CASE UserQuickPresets(c)
  BY <1>1, <1>6, QueryKeeps DEF UserQuickPresets
<1>7. CASE \E n \in Navigations : UpsertPersonalNavigation(c, n) \/ DeletePersonalNavigation(c, n)
  <2>1. PICK n \in Navigations : UpsertPersonalNavigation(c, n) \/ DeletePersonalNavigation(c, n)
    BY <1>7
  <2>2. CASE UpsertPersonalNavigation(c, n)
    <3>1. schema.rows \cup {n} \in SUBSET Navigations
      BY <1>4
    <3> QED BY <1>3, <2>2, <3>1 DEF UpsertPersonalNavigation
  <2>3. CASE DeletePersonalNavigation(c, n)
    <3>1. schema.rows \ {n} \in SUBSET Navigations
      BY <1>4
    <3> QED BY <1>3, <2>3, <3>1 DEF DeletePersonalNavigation
  <2> QED BY <2>1, <2>2, <2>3
<1> QED BY <1>5, <1>6, <1>7 DEF QueryStep

\* The process ends and starts: the file is as the last commit left it.
LEMMA RestartKeeps ==
    ASSUME UserDBIInv, UserDBRestart
    PROVE  UserDBIInv'
<1>1. /\ schema' = schema /\ draft' = NoDraft /\ once' = "nobody" /\ ensureFailed' = FALSE
      /\ caller' = [c \in Callers |-> Away]
  BY DEF UserDBRestart
<1>2. \A c \in Callers : caller'[c] = Away
  BY <1>1
<1>3. userDBFaults' \in 0..MaxUserDBFaults
  BY UserDBAssumption DEF UserDBRestart, UserDBIInv, UserDBTypeOK
<1>4. smooth' \in BOOLEAN
  <2>1. schema \in Schema
    BY DEF UserDBIInv, UserDBTypeOK
  <2>2. (Satisfied(schema) \/ Plain(schema)) \in BOOLEAN
    BY <2>1 DEF Satisfied, Plain, Schema
  <2>3. smooth' = (Satisfied(schema) \/ Plain(schema))
    BY DEF UserDBRestart
  <2> QED BY <2>2, <2>3
<1>5. caller' \in [Callers -> Caller \cup {Away}]
  BY <1>1
<1>6. UserDBTypeOK'
  BY <1>1, <1>3, <1>4, <1>5 DEF UserDBIInv, UserDBTypeOK
<1>7. CallersInOrder' /\ DraftInOrder'
  BY <1>2 DEF CallersInOrder, DraftInOrder, Away, Ensuring, Deep, Migrating
<1>8. FileInOrder'
  BY <1>1 DEF UserDBIInv, FileInOrder
<1> QED BY <1>6, <1>7, <1>8 DEF UserDBIInv

\* The invariant holds of the file of an earlier version, with nobody under way.
LEMMA InitUserDBIInv == UserDBInit => UserDBIInv
<1> SUFFICES ASSUME UserDBInit PROVE UserDBIInv
  OBVIOUS
<1>1. schema \in Schema /\ schema.spareTable = FALSE
  <2>1. schema \in [ preferences : BOOLEAN, skip : BOOLEAN, stored : {{}}, navTable : {"none", "old", "new"},
                     columns : {{}, {"channel_name"}, Later}, rows : SUBSET Navigations, spare : {{}},
                     spareTable : {FALSE} ]
    BY DEF UserDBInit
  <2>2. {} \in SUBSET Later /\ {"channel_name"} \in SUBSET Later /\ Later \in SUBSET Later
    BY DEF Later
  <2>3. {} \in SUBSET Navigations /\ {} \in SUBSET {"preferred_pools", "skip_preset_confirmation"}
    OBVIOUS
  <2>4. {{}} \subseteq SUBSET {"preferred_pools", "skip_preset_confirmation"}
        /\ {{}, {"channel_name"}, Later} \subseteq SUBSET Later /\ {{}} \subseteq SUBSET Navigations
        /\ {FALSE} \subseteq BOOLEAN
    BY <2>2, <2>3
  <2> QED BY <2>1, <2>4 DEF Schema
<1>2. draft = NoDraft /\ once = "nobody" /\ ensureFailed = FALSE /\ userDBFaults = 0
  BY DEF UserDBInit
<1>3. caller = [c \in Callers |-> Away] /\ (\A c \in Callers : caller[c] = Away)
  BY DEF UserDBInit
<1>4. smooth \in BOOLEAN
  <2>1. (Satisfied(schema) \/ Plain(schema)) \in BOOLEAN
    BY <1>1 DEF Satisfied, Plain, Schema
  <2>2. smooth = (Satisfied(schema) \/ Plain(schema))
    BY DEF UserDBInit
  <2> QED BY <2>1, <2>2
<1>5. caller \in [Callers -> Caller \cup {Away}]
  BY <1>3
<1>6. UserDBTypeOK
  <2>1. userDBFaults \in 0..MaxUserDBFaults
    BY <1>2, UserDBAssumption
  <2>2. ensureFailed \in BOOLEAN
    BY <1>2
  <2> QED BY <1>1, <1>2, <1>4, <1>5, <2>1, <2>2 DEF UserDBTypeOK
<1>7. CallersInOrder /\ DraftInOrder
  BY <1>3 DEF CallersInOrder, DraftInOrder, Away, Ensuring, Deep, Migrating
<1>8. FileInOrder
  BY <1>1, <1>2 DEF FileInOrder
<1> QED BY <1>6, <1>7, <1>8 DEF UserDBIInv

\* Every step of the specification keeps the invariant.
LEMMA NextUserDBIInv == UserDBIInv /\ [UserDBNext]_userDBVars => UserDBIInv'
<1> SUFFICES ASSUME UserDBIInv, [UserDBNext]_userDBVars PROVE UserDBIInv'
  OBVIOUS
<1>1. CASE UNCHANGED userDBVars
  BY <1>1 DEF userDBVars, UserDBIInv, UserDBTypeOK, CallersInOrder, DraftInOrder, FileInOrder
<1>2. ASSUME NEW c \in Callers, Call(c) PROVE UserDBIInv'
  BY <1>2, CallKeeps
<1>3. ASSUME NEW c \in Callers, EnsureStep(c) PROVE UserDBIInv'
  BY <1>3, EnterOnceKeeps, CheckSchemaKeeps, CreatePreferencesKeeps, FindSkipColumnKeeps, AddSkipColumnKeeps,
     NeedsMigrationKeeps, EnsureColumnsKeeps, BeginMigrationKeeps, CopyNavigationsKeeps, DropOldTableKeeps,
     RenameNewTableKeeps, CommitMigrationKeeps, CreateNavigationsKeeps DEF EnsureStep
<1>4. ASSUME NEW c \in Callers, QueryStep(c) PROVE UserDBIInv'
  BY <1>4, QueryStepKeeps
<1>5. CASE UserDBRestart
  BY <1>5, RestartKeeps
<1> QED BY <1>1, <1>2, <1>3, <1>4, <1>5 DEF UserDBNext

\* The type invariant and the order of the migration hold in every state.
THEOREM UserDBInvariant == UserDBSpec => []UserDBIInv
<1> QED BY InitUserDBIInv, NextUserDBIInv, PTL DEF UserDBSpec

\* Whoever InitUserDB hands a pool finds the tables and columns that userSchemaSatisfied asks
\* for, and no copy left of a migration, however many goroutines come at once, statements fail
\* and processes end (InitUserDB, ensureUserTables).  It says nothing of the columns of
\* quick_preset_db.go, which no statement creates.
THEOREM PoolsAreComplete == UserDBSpec => []PoolsHaveTables
<1>1. UserDBIInv => PoolsHaveTables
  BY DEF UserDBIInv, CallersInOrder, FileInOrder, PoolsHaveTables, In, Satisfied
<1> QED BY <1>1, UserDBInvariant, PTL
-----------------------------------------------------------------------------
\* No step of InitUserDB takes a row away: the old table is dropped and the new one renamed in
\* the draft, and what is committed has the rows of the file (migratePersonalNavigationTable).
LEMMA EnsureStepKeepsRows ==
    ASSUME UserDBIInv, NEW c \in Callers, EnsureStep(c)
    PROVE  schema'.rows = schema.rows
<1>1. schema \in Schema
  BY DEF UserDBIInv, UserDBTypeOK
<1>2. CASE Retry(c)
  BY <1>2 DEF Retry
<1>3. CASE EnterOnce(c) \/ CheckSchema(c)
  BY <1>3 DEF EnterOnce, CheckSchema
<1>4. CASE (CreatePreferences(c) \/ FindSkipColumn(c) \/ AddSkipColumn(c)) /\ ~Retry(c)
  BY <1>1, <1>4 DEF CreatePreferences, FindSkipColumn, AddSkipColumn, Statement, Schema
<1>5. CASE (PersonalNavigationNeedsMigration(c) \/ EnsureColumns(c)) /\ ~Retry(c)
  BY <1>1, <1>5 DEF PersonalNavigationNeedsMigration, EnsureColumns, Statement, Schema
<1>6. CASE (BeginMigration(c) \/ CopyNavigations(c) \/ DropOldTable(c) \/ RenameNewTable(c)) /\ ~Retry(c)
  BY <1>6 DEF BeginMigration, CopyNavigations, DropOldTable, RenameNewTable, Tentative
<1>7. CASE CommitMigration(c) /\ ~Retry(c)
  <2>1. caller[c].pc = "commit" /\ caller[c].pc \in Migrating
    BY <1>7 DEF CommitMigration, In, Migrating
  <2>2. draft.rows = schema.rows
    BY <2>1 DEF UserDBIInv, DraftInOrder
  <2> QED BY <1>7, <2>2 DEF CommitMigration
<1>8. CASE CreateNavigations(c) /\ ~Retry(c)
  BY <1>1, <1>8 DEF CreateNavigations, Schema
<1> QED BY <1>2, <1>3, <1>4, <1>5, <1>6, <1>7, <1>8 DEF EnsureStep

\* A row of personal_navigation goes only when somebody who holds a pool deletes it: no migration
\* loses one, wherever it fails or the process ends (migratePersonalNavigationTable).
THEOREM NoNavigationLost == UserDBSpec => NavigationsSurvive
<1> DEFINE Kept == \A n \in schema.rows \ schema'.rows : \E c \in Callers : In(c, "query") /\ schema'.navTable = "new"
<1>1. UserDBIInv /\ [UserDBNext]_userDBVars => [Kept]_userDBVars
  <2> SUFFICES ASSUME UserDBIInv, UserDBNext PROVE Kept
    OBVIOUS
  <2>1. ASSUME NEW c \in Callers, Call(c) PROVE Kept
    BY <2>1 DEF Call
  <2>2. ASSUME NEW c \in Callers, EnsureStep(c) PROVE Kept
    BY <2>2, EnsureStepKeepsRows
  <2>3. ASSUME NEW c \in Callers, QueryStep(c) PROVE Kept
    <3>1. In(c, "query")
      BY <2>3 DEF QueryStep, SetPreference, ClearPreference, UserQuickPresets, UpsertPersonalNavigation,
                  DeletePersonalNavigation, Query
    <3>2. schema.navTable = "new" /\ schema \in Schema
      BY <3>1 DEF In, UserDBIInv, UserDBTypeOK, CallersInOrder, FileInOrder
    <3>3. schema'.navTable = "new"
      BY <2>3, <3>2 DEF QueryStep, SetPreference, ClearPreference, UserQuickPresets, UpsertPersonalNavigation,
                        DeletePersonalNavigation, Query, Schema
    <3> QED BY <3>1, <3>3
  <2>4. CASE UserDBRestart
    BY <2>4 DEF UserDBRestart
  <2> QED BY <2>1, <2>2, <2>3, <2>4 DEF UserDBNext
<1>2. UserDBSpec => [][Kept]_userDBVars
  <2> HIDE DEF Kept
  <2> QED BY <1>1, UserDBInvariant, PTL DEF UserDBSpec
<1> QED BY <1>2 DEF NavigationsSurvive
=============================================================================
