--------------------------- MODULE ScannerProofs ---------------------------
(* Proofs about Scanner, for any number of channels, threads, scans and    *)
(* workers: what is excluded was answered with 404, and a scan that has a  *)
(* worker for every channel saves every thread that stayed as it was.      *)
EXTENDS Scanner, FiniteSetTheorems, WellFoundedInduction, TLAPS

(* The exclusion list                                                      *)

\* A thread that is being written to the exclusion list has lost its first message for good,
\* or was too young for it.
WritersWereNotFound == \A w \in writer : w[2] \in headless \cup hasty

ConfigTypeOK == taskConfig \in [whole : BOOLEAN, excluded : SUBSET Threads]

ExclusionIInv == ConfigTypeOK /\ ExcludedWereNotFound /\ WritersWereNotFound

USE DEF ExclusionIInv, ConfigTypeOK, ExcludedWereNotFound, WritersWereNotFound

\* The exclusion list is empty at the start.
LEMMA InitExclusion == Init => ExclusionIInv
  BY DEF Init

\* Most steps leave the config, its writer and the first messages alone.
LEMMA ConfigAlone ==
    ASSUME ExclusionIInv, UNCHANGED <<config, headless>>
    PROVE  ExclusionIInv'
  BY DEF config

\* A worker begins to write a thread down when Discord has not found its first message.
LEMMA BeginExclusionKeeps ==
    ASSUME ExclusionIInv, NEW k \in Scans, NEW t \in Threads, BeginExclusion(k, t)
    PROVE  ExclusionIInv'
<1>1. UNCHANGED headless
  BY DEF BeginExclusion, forum
<1>2. ConfigTypeOK' /\ taskConfig'.excluded = taskConfig.excluded
  BY DEF BeginExclusion, config
<1>3. \/ UNCHANGED <<writer, hasty>>
      \/ writer' = {<<k, t>>} /\ hasty' = hasty \cup ({t} \cap young)
  <2>1. CASE UNCHANGED config
    BY <2>1, Zenon DEF config
  <2>2. CASE writer' = {<<k, t>>} /\ hasty' = hasty \cup ({t} \cap young)
    BY <2>2, Zenon
  <2> QED BY <2>1, <2>2 DEF BeginExclusion
<1>4. t \in headless \cup young
  BY DEF BeginExclusion, FirstMessageNotFound
<1> QED
  BY <1>1, <1>2, <1>3, <1>4

\* The list gets the thread, or stays as it is if the write fails.
LEMMA EndExclusionKeeps ==
    ASSUME ExclusionIInv, NEW k \in Scans, NEW t \in Threads, EndExclusion(k, t)
    PROVE  ExclusionIInv'
<1>1. UNCHANGED <<headless, hasty>> /\ writer' = {}
  BY DEF EndExclusion, forum
<1>2. t \in headless \cup hasty
  BY DEF EndExclusion
<1>3. ConfigTypeOK' /\ taskConfig'.excluded \subseteq taskConfig.excluded \cup {t}
  <2>1. CASE taskConfig' = [whole |-> TRUE, excluded |-> taskConfig.excluded \cup {t}]
    <3>1. taskConfig'.excluded = taskConfig.excluded \cup {t}
      BY <2>1
    <3>2. taskConfig.excluded \cup {t} \in SUBSET Threads
      OBVIOUS
    <3> QED
      BY <2>1, <3>1, <3>2
  <2>2. CASE UNCHANGED taskConfig
    BY <2>2
  <2> QED
    BY <2>1, <2>2 DEF EndExclusion
<1> QED
  BY <1>1, <1>2, <1>3

\* Every step keeps it.
LEMMA NextExclusion == ExclusionIInv /\ [Next]_vars => ExclusionIInv'
<1> SUFFICES ASSUME ExclusionIInv, [Next]_vars PROVE ExclusionIInv'
  OBVIOUS
<1>1. ASSUME NEW k \in Scans, NEW mode \in {"full", "active"}, Scan(k, mode) PROVE ExclusionIInv'
  BY <1>1, ConfigAlone DEF Scan, forum
<1>2. ASSUME NEW k \in Scans, Worker(k) PROVE ExclusionIInv'
  <2>1. PICK c \in Channels :
           TakeTask(k, c) \/ ListActive(k, c) \/ ListArchived(k, c) \/ FinishTask(k, c)
    BY <1>2 DEF Worker
  <2> QED
    BY <2>1, ConfigAlone DEF TakeTask, ListActive, ListArchived, FinishTask, forum
<1>3. ASSUME NEW k \in Scans, ProcessThread(k) PROVE ExclusionIInv'
  <2>1. PICK t \in Threads :
           \/ SkipThread(k, t) \/ SavePost(k, t) \/ LeaveThread(k, t)
           \/ BeginExclusion(k, t) \/ EndExclusion(k, t)
    BY <1>3 DEF ProcessThread
  <2>2. CASE SkipThread(k, t) \/ SavePost(k, t) \/ LeaveThread(k, t)
    BY <2>2, ConfigAlone DEF SkipThread, SavePost, LeaveThread, forum
  <2>3. CASE BeginExclusion(k, t)
    BY <2>3, BeginExclusionKeeps
  <2>4. CASE EndExclusion(k, t)
    BY <2>4, EndExclusionKeeps
  <2> QED
    BY <2>1, <2>2, <2>3, <2>4
<1>4. ASSUME NEW k \in Scans, EndScan(k) PROVE ExclusionIInv'
  BY <1>4, ConfigAlone DEF EndScan, forum
<1>5. ASSUME NEW t \in Threads, Archive(t) \/ Activate(t) \/ Lock(t) PROVE ExclusionIInv'
  BY <1>5, ConfigAlone DEF Archive, Activate, Lock, Changed
<1>6. ASSUME NEW t \in Threads, Behead(t) PROVE ExclusionIInv'
  <2>1. headless \subseteq headless' /\ UNCHANGED config
    BY <1>6 DEF Behead, Changed
  <2> QED
    BY <2>1 DEF config
<1>10. ASSUME NEW t \in Threads, Appear(t) PROVE ExclusionIInv'
  BY <1>10, ConfigAlone DEF Appear
<1>7. CASE Shutdown
  BY <1>7, ConfigAlone DEF Shutdown, forum
<1>8. CASE Crash
  BY <1>8 DEF Crash, forum
<1>9. CASE UNCHANGED vars
  BY <1>9, ConfigAlone DEF vars, config
<1> QED
  BY <1>1, <1>2, <1>3, <1>4, <1>5, <1>6, <1>7, <1>8, <1>9, <1>10 DEF Next

HIDE DEF ExclusionIInv, ConfigTypeOK, ExcludedWereNotFound, WritersWereNotFound
-----------------------------------------------------------------------------
(* Every task and its worker                                               *)

\* A worker has one task at a time, and waits, works, or is gone for good.
WorkersFit == \A k \in Scans :
    /\ IsFiniteSet(Working(k))
    /\ free[k] + Cardinality(Working(k)) <= MaxWorkers

\* The channels that a scan has begun with.
Begun(k) == {c \in Channels : job[k][c].pc # "queued"}

\* A worker is lost with a channel only, and what a task leaves out is saved or excluded.
TasksFit == \A k \in Scans :
    /\ scan[k] = Off => owed[k] = {} /\ \A c \in Channels : job[k][c].pc = "off"
    /\ scan[k] # Off =>
          /\ \A c \in Channels : /\ job[k][c].pc # "off"
                                 /\ job[k][c].known \subseteq posts \cup scan[k].excluded
                                 /\ job[k][c].pc \in {"queued", "active"} => job[k][c].before = 0
          /\ free[k] + Cardinality(Begun(k)) >= MaxWorkers

\* Who is owed has not changed since the scan began.
OwedStayed == \A k \in Scans : owed[k] # {} => owed[k] \subseteq Wanted(scan[k].mode) \ scan[k].excluded

\* A thread is saved, on the list being worked on, or on a list to come.
InSight(k, t) ==
    LET task == job[k][ChannelOf[t]]
    IN  \/ t \in posts
        \/ task.pc \in {"queued", "active"}
        \/ task.pc = "threads" /\ t \in task.todo
        \/ task.pc = "threads" /\ task.more /\ t \in Older(ChannelOf[t], task.before)

NoneMissed == \A k \in Scans : ~ Done(k) => \A t \in owed[k] : InSight(k, t)

\* No scan is owed a thread that is being excluded, and none can begin meanwhile: the config
\* does not parse.
WritersNotOwed ==
    /\ writer # {} => ~ taskConfig.whole
    /\ \A w \in writer, k \in Scans : w[2] \notin owed[k]

\* What a scan works with, in its types.
ScanTypes == TypeOK /\ WorkersFit /\ TasksFit
-----------------------------------------------------------------------------
\* A set of numbers has a least one.
LEMMA Least ==
    ASSUME NEW S, S \subseteq Nat, S # {}
    PROVE  \E m \in S : \A k \in S : m <= k
<1>1. PICK m \in S : \A k \in S : ~ (<<k, m>> \in OpToRel(<, Nat))
  BY WFMin, NatLessThanWellFounded, Zenon
<1>2. \A k \in S : ~ (k < m)
  BY <1>1 DEF OpToRel
<1> QED BY <1>2

\* Of finitely many there is a newest one.
LEMMA Newest ==
    ASSUME NEW S, IsFiniteSet(S), S # {}, NEW f, \A x \in S : f[x] \in Nat
    PROVE  \E m \in S : \A k \in S : f[k] <= f[m]
<1> DEFINE Has(T) == \E m \in T : \A k \in T : f[k] <= f[m]
           Bad == {n \in Nat : \E T \in SUBSET S : T # {} /\ Cardinality(T) = n /\ ~ Has(T)}
<1>1. ASSUME ~ Has(S) PROVE FALSE
  <2>1. Cardinality(S) \in Bad
    BY <1>1, FS_CardinalityType
  <2>2. PICK n \in Bad : \A k \in Bad : n <= k
    <3> HIDE DEF Has
    <3>1. Bad \subseteq Nat
      OBVIOUS
    <3> HIDE DEF Bad
    <3> QED BY <2>1, <3>1, Least
  <2>3. PICK T \in SUBSET S : T # {} /\ Cardinality(T) = n /\ ~ Has(T)
    OBVIOUS
  <2>4. PICK x \in T : TRUE
    BY <2>3
  <2>5. /\ IsFiniteSet(T) /\ n \in Nat
        /\ IsFiniteSet(T \ {x}) /\ Cardinality(T \ {x}) = n - 1
        /\ Cardinality(T \ {x}) \in Nat
    BY <2>3, <2>4, FS_Subset, FS_RemoveElement, FS_CardinalityType
  <2>6. T \ {x} # {}
    BY <2>3, <2>4
  <2>7. Has(T \ {x})
    <3>1. n - 1 \notin Bad
      BY <2>2, <2>5
    <3> QED BY <2>5, <2>6, <3>1
  <2>8. PICK m \in T \ {x} : \A k \in T \ {x} : f[k] <= f[m]
    BY <2>7
  <2>9. f[x] \in Nat /\ f[m] \in Nat /\ \A k \in T : f[k] \in Nat
    BY <2>4, <2>8
  <2>10. CASE f[x] <= f[m]
    BY <2>3, <2>8, <2>10
  <2>11. CASE f[m] <= f[x]
    <3>1. \A k \in T : f[k] <= f[x]
      BY <2>8, <2>9, <2>11
    <3> QED BY <2>3, <2>4, <3>1
  <2> QED BY <2>9, <2>10, <2>11
<1> QED BY <1>1

\* The last of a page is one of it.
LEMMA NextIsOldest ==
    ASSUME TypeOK, NEW c, NEW before, Page(c, before) # {}
    PROVE  /\ NextBefore(c, before) \in Nat
           /\ \E u \in Page(c, before) : NextBefore(c, before) = archivedAt[u]
           /\ \A t \in Page(c, before) : NextBefore(c, before) <= archivedAt[t]
<1> DEFINE S == {archivedAt[t] : t \in Page(c, before)}
<1>1. S \subseteq Nat /\ S # {}
  <2>1. Page(c, before) \subseteq Threads
    BY DEF Page, Older, Listed
  <2>2. \A t \in Page(c, before) : archivedAt[t] \in Nat
    BY <2>1 DEF TypeOK
  <2> QED BY <2>2
<1>2. \E m \in S : \A k \in S : m <= k
  <2> HIDE DEF S
  <2> QED BY <1>1, Least
<1>3. NextBefore(c, before) \in S /\ \A k \in S : NextBefore(c, before) <= k
  <2>1. NextBefore(c, before) = Min(S)
    BY DEF NextBefore
  <2> HIDE DEF S
  <2> QED BY <1>2, <2>1 DEF Min
<1>4. \A t \in Page(c, before) : archivedAt[t] \in S
  OBVIOUS
<1>5. \E u \in Page(c, before) : NextBefore(c, before) = archivedAt[u]
  BY <1>3
<1> HIDE DEF S
<1> QED BY <1>1, <1>3, <1>4, <1>5

\* A page of something is not empty.
LEMMA PageIsThere ==
    ASSUME TypeOK, NEW c, NEW before, Older(c, before) # {}
    PROVE  Page(c, before) # {}
<1>1. IsFiniteSet(Older(c, before)) /\ Older(c, before) \subseteq Threads
  <2>1. Older(c, before) \subseteq Threads
    BY DEF Older, Listed
  <2> QED BY <2>1, FiniteAssumption, FS_Subset
<1>2. PICK m \in Older(c, before) : \A k \in Older(c, before) : archivedAt[k] <= archivedAt[m]
  <2>1. \A x \in Older(c, before) : archivedAt[x] \in Nat
    BY <1>1 DEF TypeOK
  <2> QED BY <1>1, <2>1, Newest
<1>3. {u \in Older(c, before) : archivedAt[u] > archivedAt[m]} = {}
  <2>1. \A x \in Older(c, before) : archivedAt[x] \in Nat
    BY <1>1 DEF TypeOK
  <2> QED BY <1>2, <2>1
<1>4. 0 < PageSize
  BY PoolAssumption
<1> QED BY <1>2, <1>3, <1>4, FS_EmptySet DEF Page

\* What is not on the page is older than all that is.
LEMMA RestIsOlder ==
    ASSUME TypeOK, NEW c, NEW before, NEW t \in Older(c, before) \ Page(c, before), NEW u \in Page(c, before)
    PROVE  archivedAt[t] < archivedAt[u]
<1> DEFINE Above(x) == {y \in Older(c, before) : archivedAt[y] > archivedAt[x]}
<1>1. Older(c, before) \subseteq Threads
  BY DEF Older, Listed
<1>2. u \in Older(c, before) /\ \A x \in Older(c, before) : archivedAt[x] \in Nat
  BY <1>1 DEF TypeOK, Page
<1>3. SUFFICES ASSUME archivedAt[t] >= archivedAt[u] PROVE FALSE
  BY <1>2
<1>4. Above(t) \subseteq Above(u)
  BY <1>2, <1>3
<1>5. IsFiniteSet(Above(u))
  BY <1>1, FiniteAssumption, FS_Subset
<1>6. /\ Cardinality(Above(t)) \in Nat /\ Cardinality(Above(u)) \in Nat
      /\ Cardinality(Above(t)) <= Cardinality(Above(u))
  BY <1>4, <1>5, FS_Subset, FS_CardinalityType
<1>7. Cardinality(Above(u)) < PageSize /\ ~ (Cardinality(Above(t)) < PageSize)
  BY DEF Page
<1> HIDE DEF Above
<1> QED BY <1>6, <1>7, PoolAssumption
-----------------------------------------------------------------------------
(* A step of one task                                                      *)

TaskBecomes(k, c, task) == job' = [job EXCEPT ![k] = [job[k] EXCEPT ![c] = task]]

\* It changes this task only.
LEMMA OneTask ==
    ASSUME TypeOK, NEW k \in Scans, NEW c \in Channels, NEW task \in PartitionTask, TaskBecomes(k, c, task)
    PROVE  /\ job' \in [Scans -> [Channels -> PartitionTask]]
           /\ job'[k][c] = task
           /\ \A l \in Scans, d \in Channels : l # k \/ d # c => job'[l][d] = job[l][d]
BY DEF TypeOK, TaskBecomes

\* The states of a task.
LEMMA TaskTypes ==
    /\ NoTask \in PartitionTask /\ Queued \in PartitionTask /\ Over \in PartitionTask
    /\ NoTask.pc = "off" /\ Queued.pc = "queued" /\ Over.pc = "over"
    /\ NoTask.known = {} /\ Queued.known = {} /\ Over.known = {} /\ Queued.before = 0
BY DEF NoTask, Queued, Over, PartitionTask

\* A scan is off or has read its config.
LEMMA ScanOf ==
    ASSUME TypeOK, NEW k \in Scans, scan[k] # Off
    PROVE  scan[k].mode \in {"full", "active"} /\ scan[k].excluded \subseteq Threads
BY DEF TypeOK, ScanConfig

Busy(task) == IF task.pc \in {"active", "threads"} THEN 1 ELSE 0
Waits(task) == IF task.pc = "queued" THEN 0 ELSE 1

\* How many workers have a task, before and after.
LEMMA WorkingStep ==
    ASSUME TypeOK, NEW k \in Scans, NEW c \in Channels, NEW task \in PartitionTask, TaskBecomes(k, c, task),
           IsFiniteSet(Working(k))
    PROVE  /\ IsFiniteSet(Working(k)') /\ Cardinality(Working(k)) \in Nat /\ Cardinality(Working(k)') \in Nat
           /\ Cardinality(Working(k)') + Busy(job[k][c]) = Cardinality(Working(k)) + Busy(task)
           /\ \A l \in Scans \ {k} : Working(l)' = Working(l)
<1>1. \A l \in Scans \ {k} : Working(l)' = Working(l)
  BY OneTask DEF Working
<1>2. Working(k)' = IF task.pc \in {"active", "threads"} THEN Working(k) \cup {c} ELSE Working(k) \ {c}
  BY OneTask DEF Working
<1>3. c \in Working(k) <=> job[k][c].pc \in {"active", "threads"}
  BY DEF Working
<1>4. Cardinality(Working(k)) \in Nat
  BY FS_CardinalityType
<1>5. CASE task.pc \in {"active", "threads"}
  <2>1. /\ IsFiniteSet(Working(k)')
        /\ Cardinality(Working(k)') = IF c \in Working(k) THEN Cardinality(Working(k)) ELSE Cardinality(Working(k)) + 1
    BY <1>2, <1>5, FS_AddElement
  <2> QED BY <1>1, <1>3, <1>4, <1>5, <2>1 DEF Busy
<1>6. CASE task.pc \notin {"active", "threads"}
  <2>1. /\ IsFiniteSet(Working(k)')
        /\ Cardinality(Working(k)') = IF c \in Working(k) THEN Cardinality(Working(k)) - 1 ELSE Cardinality(Working(k))
    <3>1. Working(k)' = Working(k) \ {c}
      BY <1>2, <1>6
    <3> QED BY <3>1, FS_RemoveElement
  <2>2. Cardinality(Working(k)') \in Nat
    BY <2>1, FS_CardinalityType
  <2>3. Busy(task) = 0
    BY <1>6 DEF Busy
  <2>4. CASE c \in Working(k)
    <3>1. Busy(job[k][c]) = 1 /\ Cardinality(Working(k)') = Cardinality(Working(k)) - 1
      BY <1>3, <2>1, <2>4 DEF Busy
    <3> QED BY <1>1, <1>4, <2>1, <2>2, <2>3, <3>1
  <2>5. CASE c \notin Working(k)
    <3>1. Busy(job[k][c]) = 0 /\ Cardinality(Working(k)') = Cardinality(Working(k))
      BY <1>3, <2>1, <2>5 DEF Busy
    <3> QED BY <1>1, <1>4, <2>1, <2>2, <2>3, <3>1
  <2> QED BY <2>4, <2>5
<1> QED BY <1>5, <1>6

\* How many channels a scan has begun with, before and after.
LEMMA BegunStep ==
    ASSUME TypeOK, NEW k \in Scans, NEW c \in Channels, NEW task \in PartitionTask, TaskBecomes(k, c, task)
    PROVE  /\ Cardinality(Begun(k)) \in Nat /\ Cardinality(Begun(k)') \in Nat
           /\ Cardinality(Begun(k)') + Waits(job[k][c]) = Cardinality(Begun(k)) + Waits(task)
           /\ \A l \in Scans \ {k} : Begun(l)' = Begun(l)
<1>1. \A l \in Scans \ {k} : Begun(l)' = Begun(l)
  BY OneTask DEF Begun
<1>2. Begun(k)' = IF task.pc = "queued" THEN Begun(k) \ {c} ELSE Begun(k) \cup {c}
  BY OneTask DEF Begun
<1>3. c \in Begun(k) <=> job[k][c].pc # "queued"
  BY DEF Begun
<1>4. IsFiniteSet(Begun(k)) /\ IsFiniteSet(Begun(k)')
  <2>1. Begun(k) \subseteq Channels /\ Begun(k)' \subseteq Channels
    BY DEF Begun
  <2> QED BY <2>1, FiniteAssumption, FS_Subset
<1>5. Cardinality(Begun(k)) \in Nat /\ Cardinality(Begun(k)') \in Nat
  BY <1>4, FS_CardinalityType
<1>6. Cardinality(Begun(k)') =
        IF task.pc = "queued" THEN IF c \in Begun(k) THEN Cardinality(Begun(k)) - 1 ELSE Cardinality(Begun(k))
        ELSE IF c \in Begun(k) THEN Cardinality(Begun(k)) ELSE Cardinality(Begun(k)) + 1
  BY <1>2, <1>4, FS_AddElement, FS_RemoveElement
<1> QED BY <1>1, <1>3, <1>5, <1>6 DEF Waits

\* A step of one task that trades workers for work.
LEMMA TaskStep ==
    ASSUME ScanTypes, NEW k \in Scans, NEW c \in Channels, NEW task \in PartitionTask, TaskBecomes(k, c, task),
           UNCHANGED scan, posts \subseteq posts', \A l \in Scans : owed'[l] \subseteq owed[l],
           NEW gain \in {-1, 0, 1}, free' = [free EXCEPT ![k] = @ + gain], free[k] + gain >= 0,
           gain + Busy(task) <= Busy(job[k][c]),
           gain + Waits(task) >= Waits(job[k][c]),
           task.pc = "off" <=> job[k][c].pc = "off",
           scan[k] # Off => task.known \subseteq posts' \cup scan[k].excluded,
           task.pc \in {"queued", "active"} => task.before = 0
    PROVE  /\ job' \in [Scans -> [Channels -> PartitionTask]]
           /\ free' \in [Scans -> 0..MaxWorkers]
           /\ WorkersFit' /\ TasksFit'
<1>1. /\ IsFiniteSet(Working(k)') /\ Cardinality(Working(k)) \in Nat /\ Cardinality(Working(k)') \in Nat
      /\ Cardinality(Working(k)') + Busy(job[k][c]) = Cardinality(Working(k)) + Busy(task)
      /\ \A l \in Scans \ {k} : Working(l)' = Working(l)
  BY WorkingStep DEF ScanTypes, WorkersFit
<1>2. /\ Cardinality(Begun(k)) \in Nat /\ Cardinality(Begun(k)') \in Nat
      /\ Cardinality(Begun(k)') + Waits(job[k][c]) = Cardinality(Begun(k)) + Waits(task)
      /\ \A l \in Scans \ {k} : Begun(l)' = Begun(l)
  BY BegunStep DEF ScanTypes
<1>3. /\ job' \in [Scans -> [Channels -> PartitionTask]]
      /\ job'[k][c] = task
      /\ \A l \in Scans, d \in Channels : l # k \/ d # c => job'[l][d] = job[l][d]
  BY OneTask DEF ScanTypes
<1>4. /\ free[k] \in Nat /\ free[k] <= MaxWorkers /\ MaxWorkers \in Nat
      /\ free'[k] = free[k] + gain /\ \A l \in Scans \ {k} : free'[l] = free[l]
  BY PoolAssumption DEF ScanTypes, TypeOK
<1>5. free[k] + Cardinality(Working(k)) <= MaxWorkers
  BY DEF ScanTypes, WorkersFit
<1>6. Busy(task) \in {0, 1} /\ Busy(job[k][c]) \in {0, 1} /\ Waits(task) \in {0, 1} /\ Waits(job[k][c]) \in {0, 1}
  BY DEF Busy, Waits
<1>7. free'[k] \in 0..MaxWorkers /\ free'[k] + Cardinality(Working(k)') <= MaxWorkers
  <2> DEFINE w == Cardinality(Working(k))
             v == Cardinality(Working(k)')
             p == Busy(task)
             q == Busy(job[k][c])
             f == free[k]
             h == free'[k]
  <2>1. /\ w \in Nat /\ v \in Nat /\ p \in {0, 1} /\ q \in {0, 1} /\ f \in Nat /\ v + q = w + p
        /\ f + w <= MaxWorkers /\ gain + p <= q /\ h = f + gain /\ f + gain >= 0
    BY <1>1, <1>4, <1>5, <1>6
  <2> HIDE DEF w, v, p, q, f, h
  <2>2. h \in Nat /\ h + v <= MaxWorkers
    BY <2>1, <1>4
  <2> QED BY <2>1, <2>2, <1>4 DEF v, h
<1>8. free' \in [Scans -> 0..MaxWorkers]
  BY <1>4, <1>7 DEF ScanTypes, TypeOK
<1>9. WorkersFit'
  BY <1>1, <1>4, <1>7 DEF ScanTypes, WorkersFit
<1>10. ASSUME NEW l \in Scans, scan[l] = Off
       PROVE  owed'[l] = {} /\ \A d \in Channels : job'[l][d].pc = "off"
  <2>1. owed[l] = {} /\ \A d \in Channels : job[l][d].pc = "off"
    BY <1>10 DEF ScanTypes, TasksFit
  <2> QED BY <1>3, <2>1
<1>11. ASSUME NEW l \in Scans, scan[l] # Off, NEW d \in Channels
       PROVE  /\ job'[l][d].pc # "off"
              /\ job'[l][d].known \subseteq posts' \cup scan[l].excluded
              /\ job'[l][d].pc \in {"queued", "active"} => job'[l][d].before = 0
  <2>1. /\ job[l][d].pc # "off"
        /\ job[l][d].known \subseteq posts \cup scan[l].excluded
        /\ job[l][d].pc \in {"queued", "active"} => job[l][d].before = 0
    BY <1>11 DEF ScanTypes, TasksFit
  <2>2. CASE l = k /\ d = c
    BY <1>3, <1>11, <2>1, <2>2
  <2>3. CASE l # k \/ d # c
    BY <1>3, <2>1, <2>3
  <2> QED BY <2>2, <2>3
<1>12. ASSUME NEW l \in Scans, scan[l] # Off
       PROVE  free'[l] + Cardinality(Begun(l)') >= MaxWorkers
  <2>1. free[l] + Cardinality(Begun(l)) >= MaxWorkers
    BY <1>12 DEF ScanTypes, TasksFit
  <2>2. CASE l = k
    <3> DEFINE w == Cardinality(Begun(k))
               v == Cardinality(Begun(k)')
               p == Waits(task)
               q == Waits(job[k][c])
               f == free[k]
               h == free'[k]
    <3>1. /\ w \in Nat /\ v \in Nat /\ p \in {0, 1} /\ q \in {0, 1} /\ f \in Nat /\ v + q = w + p
          /\ f + w >= MaxWorkers /\ gain + p >= q /\ h = f + gain
      BY <1>2, <1>4, <1>6, <2>1, <2>2
    <3> HIDE DEF w, v, p, q, f, h
    <3>2. h + v >= MaxWorkers
      BY <3>1, <1>4
    <3> QED BY <3>2, <2>2 DEF h, v
  <2>3. CASE l # k
    BY <1>2, <1>4, <2>1, <2>3
  <2> QED BY <2>2, <2>3
<1>13. TasksFit'
  BY <1>10, <1>11, <1>12 DEF TasksFit
<1> QED BY <1>3, <1>8, <1>9, <1>13

\* What a scan works with.
ScanWorks == ScanTypes /\ OwedStayed /\ NoneMissed

\* The threads that are owed are those of the scan's start, as long as these do not change.
LEMMA OwedStays ==
    ASSUME OwedStayed, UNCHANGED <<forum, scan>>, \A l \in Scans : owed'[l] \subseteq owed[l]
    PROVE  OwedStayed'
<1> SUFFICES ASSUME NEW l \in Scans, owed'[l] # {}
             PROVE  owed'[l] \subseteq Wanted(scan[l].mode)' \ scan'[l].excluded
  BY DEF OwedStayed
<1>1. owed[l] \subseteq Wanted(scan[l].mode) \ scan[l].excluded
  BY DEF OwedStayed
<1>2. Wanted(scan[l].mode)' = Wanted(scan[l].mode)
  BY DEF Wanted, forum
<1> QED BY <1>1, <1>2

\* Where a thread of the list can be once its task has become another one.
Seen(t, task) ==
    \/ t \in posts'
    \/ task.pc \in {"queued", "active"}
    \/ task.pc = "threads" /\ t \in task.todo
    \/ task.pc = "threads" /\ task.more /\ t \in Older(ChannelOf[t], task.before)

\* A step of one task can lose sight of the threads of its channel only.
LEMMA SightStep ==
    ASSUME TypeOK, NoneMissed, NEW k \in Scans, NEW c \in Channels, NEW task \in PartitionTask,
           TaskBecomes(k, c, task), UNCHANGED <<thread, archivedAt, cancelled>>,
           posts \subseteq posts', owed \in [Scans -> SUBSET Threads],
           \A l \in Scans : owed'[l] \subseteq owed[l],
           ~ Done(k) => \A t \in owed'[k] : ChannelOf[t] = c => Seen(t, task)
    PROVE  NoneMissed'
<1> SUFFICES ASSUME NEW l \in Scans, ~ Done(l)', NEW t \in owed'[l]
             PROVE  InSight(l, t)'
  BY DEF NoneMissed
<1>1. ~ Done(l) /\ t \in owed[l] /\ InSight(l, t)
  BY DEF NoneMissed, Done
<1>2. t \in Threads /\ ChannelOf[t] \in Channels
  BY <1>1, ForumAssumption
<1>3. \A before : Older(ChannelOf[t], before)' = Older(ChannelOf[t], before)
  BY DEF Older, Listed
<1>4. CASE l = k /\ ChannelOf[t] = c
  <2>1. job'[l][ChannelOf[t]] = task
    BY <1>4, OneTask
  <2>2. Seen(t, task)
    BY <1>1, <1>4
  <2>3. Older(ChannelOf[t], task.before)' = Older(ChannelOf[t], task.before)
    BY <1>3
  <2> QED BY <2>1, <2>2, <2>3 DEF Seen, InSight, Older, Listed
<1>5. CASE l # k \/ ChannelOf[t] # c
  <2>1. job'[l][ChannelOf[t]] = job[l][ChannelOf[t]]
    BY <1>2, <1>5, OneTask
  <2> QED BY <1>1, <2>1 DEF InSight, Older, Listed
<1> QED BY <1>4, <1>5

\* A task becomes another one, with gain workers more that wait.
TaskChange(k, c, task, gain) ==
    /\ TaskBecomes(k, c, task)
    /\ free' = [free EXCEPT ![k] = @ + gain] /\ free[k] + gain >= 0
    /\ gain + Busy(task) <= Busy(job[k][c])
    /\ gain + Waits(task) >= Waits(job[k][c])
    /\ task.pc = "off" <=> job[k][c].pc = "off"
    /\ scan[k] # Off => task.known \subseteq posts' \cup scan[k].excluded
    /\ task.pc \in {"queued", "active"} => task.before = 0
    /\ ~ Done(k) => \A t \in owed'[k] : ChannelOf[t] = c => Seen(t, task)

\* What such a step does with the rest of the state.
RestOf ==
    /\ UNCHANGED <<forum, scan, cancelled, bounds>>
    /\ posts \subseteq posts' /\ posts' \in SUBSET Threads
    /\ taskConfig' \in [whole : BOOLEAN, excluded : SUBSET Threads]
    /\ writer' \in SUBSET (Scans \X Threads) /\ hasty' \in SUBSET Threads
    /\ owed' \in [Scans -> SUBSET Threads] /\ \A l \in Scans : owed'[l] \subseteq owed[l]

\* A step of one task keeps everything, if it keeps its own threads in sight.
LEMMA TaskWorks ==
    ASSUME ScanWorks, NEW k \in Scans, NEW c \in Channels, NEW task \in PartitionTask,
           NEW gain \in {-1, 0, 1}, TaskChange(k, c, task, gain), RestOf
    PROVE  ScanWorks'
<1> USE DEF TaskChange, RestOf
<1>1. /\ job' \in [Scans -> [Channels -> PartitionTask]] /\ free' \in [Scans -> 0..MaxWorkers]
      /\ WorkersFit' /\ TasksFit'
  BY TaskStep DEF ScanWorks
<1>2. TypeOK'
  BY <1>1 DEF ScanWorks, ScanTypes, TypeOK, forum, bounds
<1>3. OwedStayed'
  BY OwedStays DEF ScanWorks
<1>4. NoneMissed'
  <2>1. TypeOK /\ NoneMissed /\ owed \in [Scans -> SUBSET Threads] /\ UNCHANGED <<thread, archivedAt, cancelled>>
    BY DEF ScanWorks, ScanTypes, TypeOK, forum
  <2> QED BY <2>1, SightStep
<1> QED BY <1>1, <1>2, <1>3, <1>4 DEF ScanWorks, ScanTypes
-----------------------------------------------------------------------------
(* The steps of a worker                                                   *)

\* A task that is there belongs to a scan that runs.
LEMMA TaskOfScan ==
    ASSUME ScanTypes, NEW k \in Scans, NEW c \in Channels, job[k][c].pc # "off"
    PROVE  /\ scan[k] # Off /\ job[k][c] \in PartitionTask
           /\ job[k][c].known \subseteq posts \cup scan[k].excluded
           /\ job[k][c].pc \in {"queued", "active"} => job[k][c].before = 0
BY DEF ScanTypes, TypeOK, TasksFit

\* A thread that is owed is on the list of its state, and is not excluded.
LEMMA OwedIs ==
    ASSUME OwedStayed, NEW k \in Scans, NEW t \in owed[k]
    PROVE  /\ t \in Threads \ (locked \cup headless \cup young) /\ t \notin scan[k].excluded
           /\ \/ thread[t] = "active"
              \/ scan[k].mode = "full" /\ thread[t] = "archived"
<1>1. t \in Wanted(scan[k].mode) \ scan[k].excluded
  BY DEF OwedStayed
<1> QED BY <1>1 DEF Wanted

\* A failed call takes threads of its channel off the list.
LEMMA FailsExcuses ==
    ASSUME TypeOK, NEW k \in Scans, NEW c \in Channels, Fails(k, c)
    PROVE  /\ owed' \in [Scans -> SUBSET Threads] /\ \A l \in Scans : owed'[l] \subseteq owed[l]
           /\ \A t \in owed'[k] : ChannelOf[t] # c
BY DEF TypeOK, Fails

\* A worker takes a task, or is gone.
LEMMA TakeTaskWorks ==
    ASSUME ScanWorks, NEW k \in Scans, NEW c \in Channels, TakeTask(k, c)
    PROVE  ScanWorks'
<1> DEFINE now == job[k][c]
<1>1. /\ now.pc = "queued" /\ now \in PartitionTask /\ scan[k] # Off /\ now.before = 0
      /\ ScanTypes /\ TypeOK
  BY TaskOfScan DEF TakeTask, ScanWorks, ScanTypes, TypeOK
<1>2. /\ UNCHANGED <<forum, scan, cancelled, bounds>> /\ UNCHANGED <<posts, config, owed>>
      /\ free[k] \in Nat /\ free[k] > 0
  BY <1>1 DEF TakeTask, TypeOK
<1>6. free' = [free EXCEPT ![k] = @ + (-1)] /\ free[k] + (-1) >= 0
  <2>1. free[k] - 1 = free[k] + (-1) /\ free[k] - 1 >= 0
    BY <1>2
  <2>2. free' = [free EXCEPT ![k] = free[k] - 1]
    BY DEF TakeTask, Taken
  <2> QED BY <2>1, <2>2
<1>3. RestOf
  BY <1>1, <1>2 DEF RestOf, TypeOK, config
<1>4. ASSUME Done(k), job' = [job EXCEPT ![k][c] = Over]
      PROVE  ScanWorks'
  <2>1. TaskBecomes(k, c, Over)
    BY <1>4 DEF TaskBecomes
  <2>2. Busy(Over) = 0 /\ Busy(now) = 0 /\ Waits(Over) = 1 /\ Waits(now) = 0
    BY <1>1, TaskTypes DEF Busy, Waits
  <2>3. TaskChange(k, c, Over, -1)
    BY <1>1, <1>6, <1>4, <2>1, <2>2, TaskTypes DEF TaskChange
  <2> QED BY <1>3, <2>3, TaskTypes, TaskWorks
<1>5. ASSUME NEW known \in ExistingThreads(k, c),
             job' = [job EXCEPT ![k][c].pc = "active", ![k][c].known = known]
      PROVE  ScanWorks'
  <2> DEFINE task == [now EXCEPT !.pc = "active", !.known = known]
  <2>1. known \subseteq posts \cup scan[k].excluded /\ known \in SUBSET Threads
    <3>1. known \subseteq posts \/ known \subseteq scan[k].excluded
      BY DEF ExistingThreads
    <3>2. posts \subseteq Threads /\ scan[k].excluded \subseteq Threads
      BY <1>1, ScanOf DEF TypeOK
    <3> QED BY <3>1, <3>2
  <2>2. /\ task \in PartitionTask /\ task.pc = "active" /\ task.known = known /\ task.before = 0
    BY <1>1, <2>1 DEF PartitionTask
  <2>3. TaskBecomes(k, c, task)
    BY <1>1, <1>5 DEF TaskBecomes, TypeOK
  <2>4. Busy(task) = 1 /\ Busy(now) = 0 /\ Waits(task) = 1 /\ Waits(now) = 0
    BY <1>1, <2>2 DEF Busy, Waits
  <2>5. \A t \in owed'[k] : Seen(t, task)
    BY <2>2 DEF Seen
  <2> HIDE DEF task
  <2>6. TaskChange(k, c, task, -1)
    BY <1>1, <1>2, <1>6, <2>1, <2>2, <2>3, <2>4, <2>5 DEF TaskChange
  <2> QED BY <1>3, <2>2, <2>6, TaskWorks
<1> QED BY <1>4, <1>5 DEF TakeTask

\* The active threads of a channel are listed, or the channel fails.
LEMMA ListActiveWorks ==
    ASSUME ScanWorks, NEW k \in Scans, NEW c \in Channels, ListActive(k, c)
    PROVE  ScanWorks'
<1> DEFINE now == job[k][c]
<1>1. /\ now.pc = "active" /\ now \in PartitionTask /\ scan[k] # Off /\ now.before = 0
      /\ now.known \subseteq posts \cup scan[k].excluded
      /\ ScanTypes /\ TypeOK
  BY TaskOfScan DEF ListActive, ScanWorks, ScanTypes, TypeOK
<1>2. /\ UNCHANGED <<forum, scan, cancelled, bounds>> /\ UNCHANGED posts /\ UNCHANGED config
      /\ free[k] \in Nat /\ free' = [free EXCEPT ![k] = @ + 0]
  BY <1>1 DEF ListActive, TypeOK
<1>3. /\ posts' \in SUBSET Threads /\ taskConfig' \in [whole : BOOLEAN, excluded : SUBSET Threads]
      /\ writer' \in SUBSET (Scans \X Threads)
  BY <1>1, <1>2 DEF TypeOK, config
<1>6. hasty' \in SUBSET Threads
  BY <1>1, <1>2 DEF TypeOK, config
<1>4. ASSUME UNCHANGED owed,
             job' = [job EXCEPT ![k][c].pc = "threads", ![k][c].todo = Listed(c, "active") \ locked,
                                ![k][c].more = (scan[k].mode = "full")]
      PROVE  ScanWorks'
  <2> DEFINE task == [now EXCEPT !.pc = "threads", !.todo = Listed(c, "active") \ locked,
                                 !.more = (scan[k].mode = "full")]
  <2>1. Listed(c, "active") \ locked \in SUBSET Threads
    BY DEF Listed
  <2>2. /\ task \in PartitionTask /\ task.pc = "threads" /\ task.known = now.known /\ task.before = 0
        /\ task.todo = Listed(c, "active") \ locked /\ task.more = (scan[k].mode = "full")
    BY <1>1, <2>1 DEF PartitionTask
  <2>3. TaskBecomes(k, c, task)
    BY <1>1, <1>4 DEF TaskBecomes, TypeOK
  <2>4. Busy(task) = 1 /\ Busy(now) = 1 /\ Waits(task) = 1 /\ Waits(now) = 1
    BY <1>1, <2>2 DEF Busy, Waits
  <2>5. owed' \in [Scans -> SUBSET Threads]
    BY <1>1, <1>4 DEF TypeOK
  <2>6. ASSUME NEW t \in owed'[k], ChannelOf[t] = c
        PROVE  Seen(t, task)
    <3>1. /\ t \in Threads \ (locked \cup headless \cup young)
          /\ \/ thread[t] = "active"
             \/ scan[k].mode = "full" /\ thread[t] = "archived"
      BY <1>4, OwedIs DEF ScanWorks
    <3>2. CASE thread[t] = "active"
      BY <2>2, <2>6, <3>1, <3>2 DEF Seen, Listed
    <3>3. CASE scan[k].mode = "full" /\ thread[t] = "archived"
      BY <2>2, <2>6, <3>1, <3>3 DEF Seen, Older, Listed
    <3> QED BY <3>1, <3>2, <3>3
  <2> HIDE DEF task
  <2>7. TaskChange(k, c, task, 0)
    BY <1>1, <1>2, <2>2, <2>3, <2>4, <2>6 DEF TaskChange
  <2>8. RestOf
    BY <1>2, <1>3, <1>4, <1>6, <2>5 DEF RestOf
  <2> QED BY <2>2, <2>7, <2>8, TaskWorks
<1>5. ASSUME job' = [job EXCEPT ![k][c] = Over], Fails(k, c)
      PROVE  ScanWorks'
  <2>1. TaskBecomes(k, c, Over)
    BY <1>5 DEF TaskBecomes
  <2>2. Busy(Over) = 0 /\ Busy(now) = 1 /\ Waits(Over) = 1 /\ Waits(now) = 1
    BY <1>1, TaskTypes DEF Busy, Waits
  <2>3. /\ owed' \in [Scans -> SUBSET Threads] /\ \A l \in Scans : owed'[l] \subseteq owed[l]
        /\ \A t \in owed'[k] : ChannelOf[t] # c
    BY <1>1, <1>5, FailsExcuses
  <2>4. TaskChange(k, c, Over, 0)
    BY <1>1, <1>2, <2>1, <2>2, <2>3, TaskTypes DEF TaskChange
  <2>5. RestOf
    BY <1>2, <1>3, <1>6, <2>3 DEF RestOf
  <2> QED BY <2>4, <2>5, TaskTypes, TaskWorks
<1> QED BY <1>4, <1>5 DEF ListActive

\* A page is a set of threads of its channel.
LEMMA PageTypes ==
    ASSUME NEW c, NEW before
    PROVE  /\ Page(c, before) \subseteq Threads /\ HasMore(c, before) \in BOOLEAN
           /\ Page(c, before) \subseteq Older(c, before)
BY DEF Page, HasMore, Older, Listed

\* After an empty page no archived thread is left.
LEMMA LastPageWorks ==
    ASSUME ScanWorks, NEW k \in Scans, NEW c \in Channels, job[k][c].pc = "threads", job[k][c].todo = {},
           job' = [job EXCEPT ![k][c].more = FALSE], RestOf,
           free' = free, \A t \in owed'[k] : ChannelOf[t] = c => t \notin Older(c, job[k][c].before)
    PROVE  ScanWorks'
<1> DEFINE now == job[k][c]
           task == [now EXCEPT !.more = FALSE]
<1>1. /\ now.pc = "threads" /\ now \in PartitionTask /\ scan[k] # Off
      /\ now.known \subseteq posts \cup scan[k].excluded /\ ScanTypes /\ TypeOK
  BY TaskOfScan DEF ScanWorks, ScanTypes, TypeOK
<1>2. /\ task \in PartitionTask /\ task.pc = "threads" /\ task.known = now.known
  BY <1>1 DEF PartitionTask
<1>3. TaskBecomes(k, c, task)
  BY <1>1 DEF TaskBecomes, TypeOK
<1>4. Busy(task) = 1 /\ Busy(now) = 1 /\ Waits(task) = 1 /\ Waits(now) = 1
  BY <1>1, <1>2 DEF Busy, Waits
<1>5. ASSUME ~ Done(k), NEW t \in owed'[k], ChannelOf[t] = c
      PROVE  Seen(t, task)
  <2>1. t \in owed[k] /\ InSight(k, t) /\ t \notin Older(c, now.before)
    BY <1>5 DEF RestOf, ScanWorks, NoneMissed
  <2> QED BY <1>1, <1>5, <2>1 DEF Seen, InSight, RestOf
<1>6. free[k] \in Nat /\ free' = [free EXCEPT ![k] = @ + 0]
  BY <1>1 DEF TypeOK
<1> HIDE DEF task
<1>7. TaskChange(k, c, task, 0)
  <2>1. /\ scan[k] # Off => task.known \subseteq posts' \cup scan[k].excluded
        /\ ~ Done(k) => \A t \in owed'[k] : ChannelOf[t] = c => Seen(t, task)
        /\ task.pc = "threads" /\ job[k][c].pc = "threads"
    BY <1>1, <1>2, <1>5 DEF RestOf
  <2>2. 0 + Busy(task) <= Busy(job[k][c]) /\ 0 + Waits(task) >= Waits(job[k][c]) /\ free[k] + 0 >= 0
    BY <1>4, <1>6
  <2> QED BY <1>3, <1>6, <2>1, <2>2 DEF TaskChange
<1> QED BY <1>2, <1>7, TaskWorks

\* The next page of the archived threads of a channel.
LEMMA NextPageWorks ==
    ASSUME ScanWorks, NEW k \in Scans, NEW c \in Channels, job[k][c].pc = "threads", job[k][c].todo = {},
           NEW before, before = job[k][c].before, Page(c, before) # {},
           job' = [job EXCEPT ![k][c].todo = Page(c, before) \ locked,
                              ![k][c].before = NextBefore(c, before),
                              ![k][c].more = HasMore(c, before)],
           UNCHANGED <<forum, posts, config, scan, free, cancelled, bounds, owed>>
    PROVE  ScanWorks'
<1> DEFINE now == job[k][c]
           task == [now EXCEPT !.todo = Page(c, before) \ locked,
                               !.before = NextBefore(c, before), !.more = HasMore(c, before)]
<1>1. /\ now.pc = "threads" /\ now \in PartitionTask /\ scan[k] # Off
      /\ now.known \subseteq posts \cup scan[k].excluded /\ ScanTypes /\ TypeOK
  BY TaskOfScan DEF ScanWorks, ScanTypes, TypeOK
<1>2. /\ task \in PartitionTask /\ task.pc = "threads" /\ task.known = now.known
      /\ task.todo = Page(c, before) \ locked /\ task.before = NextBefore(c, before)
      /\ task.more = HasMore(c, before)
  BY <1>1, NextIsOldest, PageTypes DEF PartitionTask
<1>3. TaskBecomes(k, c, task)
  BY <1>1, ZenonT(40) DEF TaskBecomes, TypeOK
<1>4. Busy(task) = 1 /\ Busy(now) = 1 /\ Waits(task) = 1 /\ Waits(now) = 1
  BY <1>1, <1>2 DEF Busy, Waits
<1>5. ASSUME ~ Done(k), NEW t \in owed[k], ChannelOf[t] = c
      PROVE  Seen(t, task)
  <2>1. InSight(k, t) /\ t \notin locked
    BY <1>5, OwedIs DEF ScanWorks, NoneMissed
  <2>2. t \in posts \/ t \in Older(c, before)
    BY <1>1, <1>5, <2>1 DEF InSight
  <2>3. CASE t \in posts
    BY <2>3 DEF Seen
  <2>4. CASE t \in Page(c, before)
    BY <1>2, <2>1, <2>4 DEF Seen
  <2>5. CASE t \in Older(c, before) \ Page(c, before)
    <3>1. PICK u \in Page(c, before) : NextBefore(c, before) = archivedAt[u]
      BY <1>1, NextIsOldest
    <3>2. archivedAt[t] < NextBefore(c, before)
      BY <1>1, <2>5, <3>1, RestIsOlder
    <3>3. t \in Older(c, NextBefore(c, before)) /\ HasMore(c, before)
      BY <2>5, <3>2 DEF Older, HasMore
    <3> QED BY <1>2, <1>5, <3>3 DEF Seen
  <2> QED BY <2>2, <2>3, <2>4, <2>5
<1>6. free[k] \in Nat /\ free' = [free EXCEPT ![k] = @ + 0]
  BY <1>1 DEF TypeOK
<1>7. RestOf
  BY <1>1 DEF RestOf, TypeOK, config
<1> HIDE DEF task
<1>8. TaskChange(k, c, task, 0)
  <2>1. /\ scan[k] # Off => task.known \subseteq posts' \cup scan[k].excluded
        /\ ~ Done(k) => \A t \in owed'[k] : ChannelOf[t] = c => Seen(t, task)
        /\ task.pc = "threads" /\ job[k][c].pc = "threads"
    BY <1>1, <1>2, <1>5 DEF RestOf
  <2>2. 0 + Busy(task) <= Busy(job[k][c]) /\ 0 + Waits(task) >= Waits(job[k][c]) /\ free[k] + 0 >= 0
    BY <1>4, <1>6
  <2> QED BY <1>3, <1>6, <2>1, <2>2 DEF TaskChange
<1> QED BY <1>2, <1>7, <1>8, TaskWorks

\* A page, no page left, a failed call or a cancelled context.
LEMMA ListArchivedWorks ==
    ASSUME ScanWorks, NEW k \in Scans, NEW c \in Channels, ListArchived(k, c)
    PROVE  ScanWorks'
<1> DEFINE now == job[k][c]
<1>1. /\ now.pc = "threads" /\ now.todo = {} /\ TypeOK
      /\ UNCHANGED <<forum, posts, config, scan, free, cancelled, bounds>>
  BY DEF ListArchived, ScanWorks, ScanTypes
<1>2. ASSUME Done(k), job' = [job EXCEPT ![k][c] = Over], UNCHANGED owed
      PROVE  ScanWorks'
  <2>1. TaskBecomes(k, c, Over)
    BY <1>2 DEF TaskBecomes
  <2>2. Busy(Over) = 0 /\ Busy(now) = 1 /\ Waits(Over) = 1 /\ Waits(now) = 1
    BY <1>1, TaskTypes DEF Busy, Waits
  <2>3. free[k] \in Nat /\ free' = [free EXCEPT ![k] = @ + 0]
    BY <1>1 DEF TypeOK
  <2>4. TaskChange(k, c, Over, 0)
    <3>1. 0 + Busy(Over) <= Busy(job[k][c]) /\ 0 + Waits(Over) >= Waits(job[k][c]) /\ free[k] + 0 >= 0
      BY <2>2, <2>3
    <3> QED BY <1>1, <1>2, <2>1, <2>3, <3>1, TaskTypes DEF TaskChange
  <2>5. RestOf
    BY <1>1, <1>2 DEF RestOf, TypeOK, config
  <2> QED BY <2>4, <2>5, TaskTypes, TaskWorks
<1>3. ASSUME Page(c, now.before) = {}, job' = [job EXCEPT ![k][c].more = FALSE], UNCHANGED owed
      PROVE  ScanWorks'
  <2>1. Older(c, now.before) = {}
    BY <1>1, <1>3, PageIsThere
  <2>2. RestOf
    BY <1>1, <1>3 DEF RestOf, TypeOK, config
  <2> QED BY <1>1, <1>3, <2>1, <2>2, LastPageWorks
<1>4. ASSUME job' = [job EXCEPT ![k][c].more = FALSE], Fails(k, c)
      PROVE  ScanWorks'
  <2>1. /\ owed' \in [Scans -> SUBSET Threads] /\ \A l \in Scans : owed'[l] \subseteq owed[l]
        /\ \A t \in owed'[k] : ChannelOf[t] # c
    BY <1>1, <1>4, FailsExcuses
  <2>2. RestOf
    BY <1>1, <2>1 DEF RestOf, TypeOK, config
  <2>3. \A t \in owed'[k] : ChannelOf[t] = c => t \notin Older(c, now.before)
    BY <2>1
  <2>4. free' = free
    BY <1>1
  <2> QED BY <1>1, <1>4, <2>2, <2>3, <2>4, LastPageWorks
<1>5. ASSUME Page(c, now.before) # {}, UNCHANGED owed,
             job' = [job EXCEPT ![k][c].todo = Page(c, now.before) \ locked,
                                ![k][c].before = NextBefore(c, now.before),
                                ![k][c].more = HasMore(c, now.before)]
      PROVE  ScanWorks'
  BY <1>1, <1>5, NextPageWorks
<1> QED BY <1>2, <1>3, <1>4, <1>5 DEF ListArchived

\* A worker whose channel is done with waits for the next task.
LEMMA FinishTaskWorks ==
    ASSUME ScanWorks, NEW k \in Scans, NEW c \in Channels, FinishTask(k, c)
    PROVE  ScanWorks'
<1> DEFINE now == job[k][c]
<1>1. /\ now.pc = "threads" /\ now.todo = {} /\ ~ now.more /\ TypeOK
      /\ UNCHANGED <<forum, posts, config, scan, cancelled, bounds, owed>>
  BY DEF FinishTask, ScanWorks, ScanTypes
<1>2. TaskBecomes(k, c, Over)
  BY DEF FinishTask, TaskBecomes
<1>3. Busy(Over) = 0 /\ Busy(now) = 1 /\ Waits(Over) = 1 /\ Waits(now) = 1
  BY <1>1, TaskTypes DEF Busy, Waits
<1>4. free[k] \in Nat /\ free' = [free EXCEPT ![k] = @ + 1]
  BY <1>1 DEF FinishTask, TypeOK
<1>5. ASSUME ~ Done(k), NEW t \in owed'[k], ChannelOf[t] = c
      PROVE  Seen(t, Over)
  <2>1. InSight(k, t)
    BY <1>1, <1>5 DEF ScanWorks, NoneMissed
  <2> QED BY <1>1, <1>5, <2>1 DEF Seen, InSight
<1>6. TaskChange(k, c, Over, 1)
  BY <1>1, <1>2, <1>3, <1>4, <1>5, TaskTypes DEF TaskChange
<1>7. RestOf
  BY <1>1 DEF RestOf, TypeOK, config
<1> QED BY <1>6, <1>7, TaskTypes, TaskWorks
-----------------------------------------------------------------------------
(* The steps of the goroutines                                             *)

\* A thread leaves the list of its channel, saved, excused or not to be saved.
LEMMA HandledWorks ==
    ASSUME ScanWorks, NEW k \in Scans, NEW t \in Threads, NEW known, known \subseteq Threads, known \subseteq posts' \cup job[k][ChannelOf[t]].known,
           TaskBecomes(k, ChannelOf[t],
                       [job[k][ChannelOf[t]] EXCEPT !.todo = @ \ {t}, !.known = known]),
           RestOf, UNCHANGED free,
           ~ Done(k) /\ t \in owed'[k] => t \in posts'
    PROVE  ScanWorks'
<1> DEFINE c == ChannelOf[t]
           now == job[k][c]
           task == [now EXCEPT !.todo = @ \ {t}, !.known = known]
<1>1. c \in Channels /\ ScanTypes /\ TypeOK /\ now \in PartitionTask
  BY ForumAssumption DEF ScanWorks, ScanTypes, TypeOK
<1>2. /\ task \in PartitionTask /\ task.pc = now.pc /\ task.known = known /\ task.todo = now.todo \ {t}
      /\ task.before = now.before /\ task.more = now.more
  BY <1>1 DEF PartitionTask
<1>3. TaskBecomes(k, c, task)
  OBVIOUS
<1>4. /\ scan[k] # Off => known \subseteq posts' \cup scan[k].excluded
      /\ now.pc \in {"queued", "active"} => now.before = 0
  <2>1. CASE now.pc = "off"
    <3>1. scan[k] = Off
      BY <1>1, <2>1 DEF ScanTypes, TasksFit
    <3> QED BY <2>1, <3>1
  <2>2. CASE now.pc # "off"
    <3>1. now.known \subseteq posts \cup scan[k].excluded /\ (now.pc \in {"queued", "active"} => now.before = 0)
      BY <1>1, <2>2, TaskOfScan
    <3>2. posts \subseteq posts'
      BY DEF RestOf
    <3> QED BY <3>1, <3>2
  <2> QED BY <2>1, <2>2
<1>5. Busy(task) = Busy(now) /\ Waits(task) = Waits(now) /\ Busy(now) \in {0, 1} /\ Waits(now) \in {0, 1}
  BY <1>2 DEF Busy, Waits
<1>6. free[k] \in Nat /\ free' = [free EXCEPT ![k] = @ + 0]
  BY <1>1 DEF TypeOK
<1>7. ASSUME ~ Done(k), NEW u \in owed'[k], ChannelOf[u] = c
      PROVE  Seen(u, task)
  <2>1. InSight(k, u) /\ posts \subseteq posts'
    BY <1>7 DEF RestOf, ScanWorks, NoneMissed
  <2>2. CASE u = t
    BY <1>7, <2>2 DEF Seen
  <2>3. CASE u # t
    <3> HIDE DEF task
    <3> QED BY <1>2, <1>7, <2>1, <2>3 DEF Seen, InSight
  <2> QED BY <2>2, <2>3
<1> HIDE DEF task
<1>8. TaskChange(k, c, task, 0)
  <2>1. 0 + Busy(task) <= Busy(now) /\ 0 + Waits(task) >= Waits(now) /\ free[k] + 0 >= 0
    BY <1>5, <1>6
  <2>2. /\ task.pc = "off" <=> now.pc = "off"
        /\ scan[k] # Off => task.known \subseteq posts' \cup scan[k].excluded
        /\ task.pc \in {"queued", "active"} => task.before = 0
    BY <1>2, <1>4
  <2> QED BY <1>3, <1>6, <1>7, <2>1, <2>2 DEF TaskChange
<1> QED BY <1>1, <1>2, <1>8, TaskWorks

\* The list without the thread, in the form of the lemma above.
LEMMA HandledIs ==
    ASSUME ScanWorks, NEW k \in Scans, NEW t \in Threads, job' = Handled(k, t)
    PROVE  /\ job[k][ChannelOf[t]].known \subseteq Threads
           /\ TaskBecomes(k, ChannelOf[t],
                  [job[k][ChannelOf[t]] EXCEPT !.todo = @ \ {t}, !.known = job[k][ChannelOf[t]].known])
<1> DEFINE c == ChannelOf[t]
           now == job[k][c]
<1>1. c \in Channels /\ now \in PartitionTask /\ now.known \subseteq Threads
  BY ForumAssumption DEF ScanWorks, ScanTypes, TypeOK, PartitionTask
<1>2. [now EXCEPT !.todo = @ \ {t}] = [now EXCEPT !.todo = @ \ {t}, !.known = now.known]
  BY <1>1 DEF PartitionTask
<1> QED BY <1>1, <1>2 DEF Handled, TaskBecomes

\* A thread leaves the list as it is.
LEMMA HandledKeeps ==
    ASSUME ScanWorks, NEW k \in Scans, NEW t \in Threads, job' = Handled(k, t), RestOf, UNCHANGED free,
           ~ Done(k) /\ t \in owed'[k] => t \in posts'
    PROVE  ScanWorks'
<1> DEFINE known == job[k][ChannelOf[t]].known
<1>1. /\ known \subseteq Threads /\ known \subseteq posts' \cup known
      /\ TaskBecomes(k, ChannelOf[t], [job[k][ChannelOf[t]] EXCEPT !.todo = @ \ {t}, !.known = known])
  BY HandledIs
<1> QED BY <1>1, HandledWorks

\* A known thread is saved or excluded.
LEMMA SkipThreadWorks ==
    ASSUME ScanWorks, NEW k \in Scans, NEW t \in Threads, SkipThread(k, t)
    PROVE  ScanWorks'
<1>1. /\ t \in job[k][ChannelOf[t]].todo /\ t \in job[k][ChannelOf[t]].known /\ job' = Handled(k, t)
      /\ UNCHANGED <<forum, posts, config, scan, free, cancelled, bounds, owed>>
  BY DEF SkipThread, Handling
<1>2. RestOf
  BY <1>1 DEF RestOf, ScanWorks, ScanTypes, TypeOK, config
<1>3. t \in owed'[k] => t \in posts'
  <2>1. SUFFICES ASSUME t \in owed[k] PROVE t \in posts
    BY <1>1
  <2>2. t \notin scan[k].excluded /\ scan[k] # Off
    BY <2>1, OwedIs DEF ScanWorks, ScanTypes, TasksFit
  <2>3. job[k][ChannelOf[t]].known \subseteq posts \cup scan[k].excluded
    BY <2>2, ForumAssumption DEF ScanWorks, ScanTypes, TasksFit
  <2> QED BY <1>1, <2>2, <2>3
<1> QED BY <1>1, <1>2, <1>3, HandledKeeps

\* A thread is saved, or a call failed for it.
LEMMA SavePostWorks ==
    ASSUME ScanWorks, NEW k \in Scans, NEW t \in Threads, SavePost(k, t)
    PROVE  ScanWorks'
<1> DEFINE c == ChannelOf[t]
           now == job[k][c]
<1>1. /\ t \in now.todo /\ UNCHANGED <<forum, config, scan, free, cancelled, bounds>>
      /\ c \in Channels /\ TypeOK /\ now \in PartitionTask
  BY ForumAssumption DEF SavePost, Handling, ScanWorks, ScanTypes, TypeOK
<1>2. ASSUME posts' = posts \cup {t}, UNCHANGED owed,
             job' = [Handled(k, t) EXCEPT ![k][c].known = @ \cup {t}]
      PROVE  ScanWorks'
  <2>1. now.known \cup {t} \subseteq Threads
    BY <1>1 DEF PartitionTask
  <2>2. TaskBecomes(k, c, [now EXCEPT !.todo = @ \ {t}, !.known = now.known \cup {t}])
    <3> DEFINE one == [now EXCEPT !.todo = @ \ {t}]
               two == [one EXCEPT !.known = @ \cup {t}]
    <3>1. two = [now EXCEPT !.todo = @ \ {t}, !.known = now.known \cup {t}]
      BY <1>1 DEF PartitionTask
    <3>2. job' = [job EXCEPT ![k] = [job[k] EXCEPT ![c] = two]]
      <4>1. Handled(k, t) = [job EXCEPT ![k] = [job[k] EXCEPT ![c] = one]]
        BY DEF Handled
      <4>2. job' = [Handled(k, t) EXCEPT ![k] = [Handled(k, t)[k] EXCEPT ![c] =
                        [Handled(k, t)[k][c] EXCEPT !.known = @ \cup {t}]]]
        BY <1>2
      <4>3. job \in [Scans -> [Channels -> PartitionTask]]
        BY <1>1 DEF TypeOK
      <4>4. Handled(k, t)[k][c] = one
        <5> HIDE DEF one, c
        <5> QED BY <1>1, <4>1, <4>3
      <4>5. job' = [Handled(k, t) EXCEPT ![k] = [Handled(k, t)[k] EXCEPT ![c] = two]]
        BY <4>2, <4>4
      <4>6. [Handled(k, t) EXCEPT ![k] = [Handled(k, t)[k] EXCEPT ![c] = two]]
              = [job EXCEPT ![k] = [job[k] EXCEPT ![c] = two]]
        <5> HIDE DEF one, two, c
        <5> DEFINE g == Handled(k, t)
        <5>1. g = [job EXCEPT ![k] = [job[k] EXCEPT ![c] = one]] /\ job \in [Scans -> [Channels -> PartitionTask]]
          BY <4>1, <4>3
        <5> HIDE DEF g
        <5>2. /\ g \in [Scans -> [Channels -> PartitionTask \cup {one}]]
              /\ g[k] = [job[k] EXCEPT ![c] = one] /\ \A l \in Scans \ {k} : g[l] = job[l]
          BY <1>1, <5>1
        <5>3. [g[k] EXCEPT ![c] = two] = [job[k] EXCEPT ![c] = two]
          BY <1>1, <5>1, <5>2
        <5>4. [g EXCEPT ![k] = [g[k] EXCEPT ![c] = two]] = [job EXCEPT ![k] = [job[k] EXCEPT ![c] = two]]
          BY <5>1, <5>2, <5>3
        <5> QED BY <5>4 DEF g
      <4> QED BY <4>5, <4>6
    <3> QED BY <3>1, <3>2 DEF TaskBecomes
  <2>3. RestOf
    BY <1>1, <1>2 DEF RestOf, TypeOK, config
  <2> QED BY <1>1, <1>2, <2>1, <2>2, <2>3, HandledWorks
<1>3. ASSUME job' = Handled(k, t), Fails(k, c), UNCHANGED posts
      PROVE  ScanWorks'
  <2>1. /\ owed' \in [Scans -> SUBSET Threads] /\ \A l \in Scans : owed'[l] \subseteq owed[l]
        /\ \A u \in owed'[k] : ChannelOf[u] # c
    BY <1>1, <1>3, FailsExcuses
  <2>2. RestOf
    BY <1>1, <1>3, <2>1 DEF RestOf, TypeOK, config
  <2> QED BY <1>1, <1>3, <2>1, <2>2, HandledKeeps
<1> QED BY <1>2, <1>3 DEF SavePost

\* A step that leaves the scans and their posts alone.
LEMMA ScansAlone ==
    ASSUME ScanWorks, RestOf, UNCHANGED <<posts, job, free, owed>>
    PROVE  ScanWorks'
<1>1. /\ UNCHANGED <<thread, archivedAt, locked, headless, young, posts, scan, job, free, cancelled, owed>>
  BY DEF RestOf, forum
<1>2. TypeOK'
  <2>1. TypeOK
    BY DEF ScanWorks, ScanTypes
  <2>2. /\ UNCHANGED <<changes, crashes>>
        /\ taskConfig' \in [whole : BOOLEAN, excluded : SUBSET Threads] /\ writer' \in SUBSET (Scans \X Threads)
        /\ hasty' \in SUBSET Threads
    BY DEF RestOf, bounds
  <2> QED BY <1>1, <2>1, <2>2 DEF TypeOK
<1>3. WorkersFit' /\ TasksFit'
  <2>1. \A k \in Scans : Working(k)' = Working(k) /\ Begun(k)' = Begun(k)
    BY <1>1 DEF Working, Begun
  <2>2. WorkersFit'
    BY <1>1, <2>1 DEF ScanWorks, ScanTypes, WorkersFit
  <2>3. TasksFit'
    BY <1>1, <2>1 DEF ScanWorks, ScanTypes, TasksFit
  <2> QED BY <2>2, <2>3
<1>4. OwedStayed'
  BY OwedStays DEF ScanWorks, RestOf
<1>5. NoneMissed'
  BY <1>1 DEF ScanWorks, NoneMissed, Done, InSight, Older, Listed
<1> QED BY <1>2, <1>3, <1>4, <1>5 DEF ScanWorks, ScanTypes

\* A thread without a first message is owed by nobody.
LEMMA BeginExclusionWorks ==
    ASSUME ScanWorks, NEW k \in Scans, NEW t \in Threads, BeginExclusion(k, t)
    PROVE  ScanWorks'
<1>1. /\ t \in job[k][ChannelOf[t]].todo /\ t \in headless \cup young /\ TypeOK
      /\ UNCHANGED <<forum, posts, scan, free, cancelled, bounds, owed>>
  BY DEF BeginExclusion, Handling, FirstMessageNotFound, ScanWorks, ScanTypes
<1>2. RestOf
  <2>1. taskConfig' \in [whole : BOOLEAN, excluded : SUBSET Threads] /\ writer' \in SUBSET (Scans \X Threads)
    <3>1. /\ [taskConfig EXCEPT !.whole = FALSE] \in [whole : BOOLEAN, excluded : SUBSET Threads]
          /\ {<<k, t>>} \in SUBSET (Scans \X Threads)
          /\ taskConfig \in [whole : BOOLEAN, excluded : SUBSET Threads] /\ writer \in SUBSET (Scans \X Threads)
      <4>1. taskConfig \in [whole : BOOLEAN, excluded : SUBSET Threads] /\ writer \in SUBSET (Scans \X Threads)
        BY <1>1 DEF TypeOK
      <4>2. [taskConfig EXCEPT !.whole = FALSE] \in [whole : BOOLEAN, excluded : SUBSET Threads]
        BY <4>1
      <4> QED BY <4>1, <4>2
    <3> QED BY <3>1 DEF BeginExclusion, config
  <2>2. hasty' \in SUBSET Threads
    BY <1>1 DEF BeginExclusion, config, TypeOK
  <2> QED BY <1>1, <2>1, <2>2 DEF RestOf, TypeOK
<1>3. t \notin owed'[k]
  BY <1>1, OwedIs DEF ScanWorks
<1>4. CASE job' = job
  BY <1>1, <1>2, <1>4, ScansAlone
<1>5. CASE job' = Handled(k, t)
  BY <1>1, <1>2, <1>3, <1>5, HandledKeeps
<1> QED BY <1>4, <1>5 DEF BeginExclusion

\* No scan is owed a thread that is being excluded.
LEMMA EndExclusionWorks ==
    ASSUME ScanWorks, WritersNotOwed,
           NEW k \in Scans, NEW t \in Threads, EndExclusion(k, t)
    PROVE  ScanWorks'
<1>1. /\ TypeOK /\ job' = Handled(k, t) /\ writer' = {}
      /\ UNCHANGED <<forum, posts, scan, free, cancelled, bounds, owed, hasty>>
  BY DEF EndExclusion, ScanWorks, ScanTypes
<1>2. RestOf
  <2>1. taskConfig' \in [whole : BOOLEAN, excluded : SUBSET Threads]
    <3>1. taskConfig.excluded \cup {t} \in SUBSET Threads
      BY <1>1 DEF TypeOK
    <3>2. CASE taskConfig' = [whole |-> TRUE, excluded |-> taskConfig.excluded \cup {t}]
      BY <3>1, <3>2
    <3>3. CASE taskConfig' = taskConfig
      BY <1>1, <3>3 DEF TypeOK
    <3> QED BY <3>2, <3>3 DEF EndExclusion
  <2> QED BY <1>1, <2>1 DEF RestOf, TypeOK
<1>3. t \notin owed'[k]
  BY <1>1 DEF EndExclusion, WritersNotOwed
<1> QED BY <1>1, <1>2, <1>3, HandledKeeps

\* A cancelled scan saves nothing more.
LEMMA LeaveThreadWorks ==
    ASSUME ScanWorks, NEW k \in Scans, NEW t \in Threads, LeaveThread(k, t)
    PROVE  ScanWorks'
<1>1. /\ Done(k) /\ job' = Handled(k, t)
      /\ UNCHANGED <<forum, posts, config, scan, free, cancelled, bounds, owed>>
  BY DEF LeaveThread
<1>2. RestOf
  BY <1>1 DEF RestOf, ScanWorks, ScanTypes, TypeOK, config
<1> QED BY <1>1, <1>2, HandledKeeps
-----------------------------------------------------------------------------
(* Scans that begin and end, the forum and the process                     *)

\* A scan begins with every channel in the queue and a worker for every place.
LEMMA ScanBegins ==
    ASSUME ScanWorks, NEW k \in Scans, NEW mode \in {"full", "active"}, Scan(k, mode)
    PROVE  ScanWorks'
<1> DEFINE new == [pc |-> "run", mode |-> mode, excluded |-> taskConfig.excluded]
<1>1. /\ TypeOK /\ WorkersFit /\ TasksFit /\ OwedStayed /\ NoneMissed
      /\ scan' = [scan EXCEPT ![k] = new]
      /\ job' = [job EXCEPT ![k] = [c \in Channels |-> Queued]]
      /\ free' = [free EXCEPT ![k] = MaxWorkers]
      /\ owed' = [owed EXCEPT ![k] = Wanted(mode) \ taskConfig.excluded]
      /\ UNCHANGED <<forum, posts, config, cancelled, bounds>>
  BY DEF Scan, ScanWorks, ScanTypes
<1>2. new \in ScanConfig /\ new # Off /\ new.mode = mode /\ new.excluded = taskConfig.excluded
  BY <1>1 DEF ScanConfig, TypeOK, Off
<1>3. /\ scan' \in [Scans -> ScanConfig \cup {Off}]
      /\ scan'[k] = new /\ \A l \in Scans \ {k} : scan'[l] = scan[l]
  <2> HIDE DEF new
  <2> QED BY <1>1, <1>2 DEF TypeOK
<1>4. /\ job' \in [Scans -> [Channels -> PartitionTask]]
      /\ \A c \in Channels : job'[k][c] = Queued
      /\ \A l \in Scans \ {k} : job'[l] = job[l]
  BY <1>1, TaskTypes DEF TypeOK
<1>5. /\ free' \in [Scans -> 0..MaxWorkers] /\ free'[k] = MaxWorkers
      /\ \A l \in Scans \ {k} : free'[l] = free[l]
  BY <1>1, PoolAssumption DEF TypeOK
<1>6. /\ owed' \in [Scans -> SUBSET Threads] /\ owed'[k] = Wanted(mode) \ taskConfig.excluded
      /\ \A l \in Scans \ {k} : owed'[l] = owed[l]
  <2>1. Wanted(mode) \subseteq Threads
    BY DEF Wanted
  <2> QED BY <1>1, <2>1 DEF TypeOK
<1>7. TypeOK'
  BY <1>1, <1>3, <1>4, <1>5, <1>6 DEF TypeOK, forum, config, bounds
<1>8. /\ IsFiniteSet(Working(k)') /\ Cardinality(Working(k)') = 0 /\ Cardinality(Begun(k)') = 0
  <2>1. Working(k)' = {} /\ Begun(k)' = {}
    BY <1>4, TaskTypes DEF Working, Begun
  <2> QED BY <2>1, FS_EmptySet
<1>9. \A l \in Scans \ {k} : Working(l)' = Working(l) /\ Begun(l)' = Begun(l)
  BY <1>4 DEF Working, Begun
<1>10. WorkersFit'
  BY <1>1, <1>5, <1>8, <1>9, PoolAssumption DEF WorkersFit
<1>11. TasksFit'
  <2>1. ASSUME NEW l \in Scans, l # k
        PROVE  /\ scan'[l] = scan[l] /\ job'[l] = job[l] /\ owed'[l] = owed[l]
               /\ free'[l] = free[l] /\ Begun(l)' = Begun(l) /\ posts' = posts
    BY <1>1, <1>3, <1>4, <1>5, <1>6, <1>9, <2>1
  <2>2. /\ scan'[k] # Off /\ free'[k] + Cardinality(Begun(k)') >= MaxWorkers
        /\ \A c \in Channels : /\ job'[k][c].pc = "queued" /\ job'[k][c].known = {}
                               /\ job'[k][c].before = 0
    BY <1>2, <1>3, <1>4, <1>5, <1>8, PoolAssumption, TaskTypes
  <2> QED BY <1>1, <2>1, <2>2 DEF TasksFit
<1>12. OwedStayed'
  <2>2. ASSUME NEW l \in Scans, owed'[l] # {}
        PROVE  owed'[l] \subseteq Wanted(scan'[l].mode) \ scan'[l].excluded
    <3>1. CASE l = k
      BY <1>2, <1>3, <1>6, <3>1
    <3>2. CASE l # k
      BY <1>1, <1>3, <1>6, <2>2, <3>2 DEF OwedStayed
    <3> QED BY <3>1, <3>2
  <2> QED BY <1>1, <2>2 DEF OwedStayed, Wanted, forum
<1>13. NoneMissed'
  <2>1. SUFFICES ASSUME NEW l \in Scans, ~ Done(l)', NEW t \in owed'[l]
                 PROVE  InSight(l, t)'
    BY DEF NoneMissed
  <2>2. ChannelOf[t] \in Channels
    BY <1>6, ForumAssumption
  <2>3. CASE l = k
    BY <1>4, <2>2, <2>3, TaskTypes DEF InSight
  <2>4. CASE l # k
    <3>1. job'[l] = job[l] /\ InSight(l, t)
      BY <1>1, <1>4, <1>6, <2>1, <2>4 DEF NoneMissed, Done
    <3> QED BY <1>1, <3>1 DEF InSight, Older, Listed, forum
  <2> QED BY <2>3, <2>4
<1> QED BY <1>7, <1>10, <1>11, <1>12, <1>13 DEF ScanWorks, ScanTypes

\* Some scans are over, with their tasks and their debts.
LEMMA ScansOver ==
    ASSUME ScanWorks, NEW K, K \subseteq Scans,
           scan' = [k \in Scans |-> IF k \in K THEN Off ELSE scan[k]],
           job' = [k \in Scans |-> IF k \in K THEN [c \in Channels |-> NoTask] ELSE job[k]],
           free' = [k \in Scans |-> IF k \in K THEN 0 ELSE free[k]],
           owed' = [k \in Scans |-> IF k \in K THEN {} ELSE owed[k]],
           UNCHANGED <<forum, posts>>, \A k \in Scans \ K : ~ Done(k)' => ~ Done(k)
    PROVE  /\ scan' \in [Scans -> ScanConfig \cup {Off}]
           /\ job' \in [Scans -> [Channels -> PartitionTask]]
           /\ free' \in [Scans -> 0..MaxWorkers]
           /\ owed' \in [Scans -> SUBSET Threads]
           /\ WorkersFit' /\ TasksFit' /\ OwedStayed' /\ NoneMissed'
<1>1. TypeOK /\ WorkersFit /\ TasksFit /\ OwedStayed /\ NoneMissed
  BY DEF ScanWorks, ScanTypes
<1>2. /\ scan' \in [Scans -> ScanConfig \cup {Off}]
      /\ job' \in [Scans -> [Channels -> PartitionTask]]
      /\ free' \in [Scans -> 0..MaxWorkers]
      /\ owed' \in [Scans -> SUBSET Threads]
  <2>1. scan' \in [Scans -> ScanConfig \cup {Off}]
    BY <1>1 DEF TypeOK
  <2>2. job' \in [Scans -> [Channels -> PartitionTask]]
    BY <1>1, TaskTypes DEF TypeOK
  <2>3. free' \in [Scans -> 0..MaxWorkers]
    BY <1>1, PoolAssumption DEF TypeOK
  <2>4. owed' \in [Scans -> SUBSET Threads]
    BY <1>1 DEF TypeOK
  <2> QED BY <2>1, <2>2, <2>3, <2>4
<1>3. ASSUME NEW k \in K
      PROVE  /\ scan'[k] = Off /\ free'[k] = 0 /\ owed'[k] = {}
             /\ \A c \in Channels : job'[k][c].pc = "off"
             /\ Working(k)' = {}
  <2>1. scan'[k] = Off /\ free'[k] = 0 /\ owed'[k] = {} /\ \A c \in Channels : job'[k][c].pc = "off"
    BY TaskTypes
  <2> QED BY <2>1 DEF Working
<1>4. ASSUME NEW k \in Scans \ K
      PROVE  /\ scan'[k] = scan[k] /\ free'[k] = free[k] /\ owed'[k] = owed[k] /\ job'[k] = job[k]
             /\ Working(k)' = Working(k) /\ Begun(k)' = Begun(k)
  <2>1. scan'[k] = scan[k] /\ free'[k] = free[k] /\ owed'[k] = owed[k] /\ job'[k] = job[k]
    OBVIOUS
  <2> QED BY <2>1 DEF Working, Begun
<1>5. WorkersFit'
  <2>1. ASSUME NEW k \in Scans
        PROVE  IsFiniteSet(Working(k)') /\ free'[k] + Cardinality(Working(k)') <= MaxWorkers
    <3>1. CASE k \in K
      <4>1. Working(k)' = {} /\ free'[k] = 0
        BY <1>3, <3>1
      <4>2. IsFiniteSet(Working(k)') /\ Cardinality(Working(k)') = 0
        BY <4>1, FS_EmptySet
      <4> QED BY <4>1, <4>2, PoolAssumption
    <3>2. CASE k \notin K
      BY <1>1, <1>4, <3>2 DEF WorkersFit
    <3> QED BY <3>1, <3>2
  <2> QED BY <2>1 DEF WorkersFit
<1>6. TasksFit'
  <2>1. \A k \in K : scan'[k] = Off /\ owed'[k] = {} /\ \A c \in Channels : job'[k][c].pc = "off"
    BY <1>3
  <2>2. \A k \in Scans \ K :
           /\ scan'[k] = scan[k] /\ free'[k] = free[k] /\ owed'[k] = owed[k] /\ job'[k] = job[k]
           /\ Begun(k)' = Begun(k) /\ posts' = posts
    BY <1>4
  <2> HIDE DEF TasksFit
  <2>3. ASSUME NEW k \in Scans
        PROVE  /\ scan'[k] = Off => owed'[k] = {} /\ \A c \in Channels : job'[k][c].pc = "off"
               /\ scan'[k] # Off =>
                     /\ \A c \in Channels :
                           /\ job'[k][c].pc # "off"
                           /\ job'[k][c].known \subseteq posts' \cup scan'[k].excluded
                           /\ job'[k][c].pc \in {"queued", "active"} => job'[k][c].before = 0
                     /\ free'[k] + Cardinality(Begun(k)') >= MaxWorkers
    <3>1. CASE k \in K
      BY <2>1, <3>1
    <3>2. CASE k \notin K
      BY <1>1, <2>2, <3>2 DEF TasksFit
    <3> QED BY <3>1, <3>2
  <2> QED BY <2>3 DEF TasksFit
<1>7. OwedStayed'
  <2>1. SUFFICES ASSUME NEW k \in Scans, owed'[k] # {}
                 PROVE  owed'[k] \subseteq Wanted(scan[k].mode)' \ scan'[k].excluded
    BY DEF OwedStayed
  <2>2. k \notin K
    BY <1>3, <2>1
  <2>3. scan'[k] = scan[k] /\ owed'[k] = owed[k]
    BY <1>4, <2>2
  <2>4. owed[k] \subseteq Wanted(scan[k].mode) \ scan[k].excluded
    BY <1>1, <2>1, <2>3 DEF OwedStayed
  <2> QED BY <2>3, <2>4 DEF Wanted, forum
<1>8. NoneMissed'
  <2>1. SUFFICES ASSUME NEW k \in Scans, ~ Done(k)', NEW t \in owed'[k]
                 PROVE  InSight(k, t)'
    BY DEF NoneMissed
  <2>2. k \notin K
    BY <1>3, <2>1
  <2>3. job'[k] = job[k] /\ owed'[k] = owed[k]
    BY <1>4, <2>2
  <2>4. InSight(k, t)
    BY <1>1, <2>1, <2>2, <2>3 DEF NoneMissed
  <2> QED BY <2>3, <2>4 DEF InSight, Older, Listed, forum
<1> QED BY <1>2, <1>5, <1>6, <1>7, <1>8

\* A scan ends.
LEMMA EndScanWorks ==
    ASSUME ScanWorks, NEW k \in Scans, EndScan(k)
    PROVE  ScanWorks'
<1>1. TypeOK
  BY DEF ScanWorks, ScanTypes
<1>2. /\ scan' = [l \in Scans |-> IF l \in {k} THEN Off ELSE scan[l]]
      /\ job' = [l \in Scans |-> IF l \in {k} THEN [c \in Channels |-> NoTask] ELSE job[l]]
      /\ free' = [l \in Scans |-> IF l \in {k} THEN 0 ELSE free[l]]
      /\ owed' = [l \in Scans |-> IF l \in {k} THEN {} ELSE owed[l]]
  <2>1. scan' = [l \in Scans |-> IF l \in {k} THEN Off ELSE scan[l]]
    BY <1>1 DEF EndScan, TypeOK
  <2>2. job' = [l \in Scans |-> IF l \in {k} THEN [c \in Channels |-> NoTask] ELSE job[l]]
    BY <1>1 DEF EndScan, TypeOK
  <2>3. free' = [l \in Scans |-> IF l \in {k} THEN 0 ELSE free[l]]
    BY <1>1 DEF EndScan, TypeOK
  <2>4. owed' = [l \in Scans |-> IF l \in {k} THEN {} ELSE owed[l]]
    BY <1>1 DEF EndScan, TypeOK
  <2> QED BY <2>1, <2>2, <2>3, <2>4
<1>3. UNCHANGED <<forum, posts, config, cancelled, bounds>>
  BY DEF EndScan
<1>4. \A l \in Scans \ {k} : ~ Done(l)' => ~ Done(l)
  BY <1>3 DEF Done
<1>5. /\ scan' \in [Scans -> ScanConfig \cup {Off}] /\ job' \in [Scans -> [Channels -> PartitionTask]]
      /\ free' \in [Scans -> 0..MaxWorkers] /\ owed' \in [Scans -> SUBSET Threads]
      /\ WorkersFit' /\ TasksFit' /\ OwedStayed' /\ NoneMissed'
  BY <1>2, <1>3, <1>4, ScansOver
<1>6. TypeOK'
  BY <1>1, <1>3, <1>5 DEF TypeOK, forum, config, bounds
<1> QED BY <1>5, <1>6 DEF ScanWorks, ScanTypes

\* The process ends, and every scan with it.
LEMMA CrashWorks ==
    ASSUME ScanWorks, Crash
    PROVE  ScanWorks'
<1>1. TypeOK
  BY DEF ScanWorks, ScanTypes
<1>2. /\ scan' = [l \in Scans |-> IF l \in Scans THEN Off ELSE scan[l]]
      /\ job' = [l \in Scans |-> IF l \in Scans THEN [c \in Channels |-> NoTask] ELSE job[l]]
      /\ free' = [l \in Scans |-> IF l \in Scans THEN 0 ELSE free[l]]
      /\ owed' = [l \in Scans |-> IF l \in Scans THEN {} ELSE owed[l]]
  BY DEF Crash
<1>3. /\ UNCHANGED <<forum, posts, taskConfig, changes, hasty>> /\ writer' = {} /\ cancelled' = FALSE
      /\ crashes' \in 0..MaxCrashes
  BY <1>1, BoundAssumption DEF Crash, TypeOK
<1>4. /\ scan' \in [Scans -> ScanConfig \cup {Off}] /\ job' \in [Scans -> [Channels -> PartitionTask]]
      /\ free' \in [Scans -> 0..MaxWorkers] /\ owed' \in [Scans -> SUBSET Threads]
      /\ WorkersFit' /\ TasksFit' /\ OwedStayed' /\ NoneMissed'
  BY <1>2, <1>3, ScansOver
<1>5. TypeOK'
  BY <1>1, <1>3, <1>4 DEF TypeOK, forum
<1> QED BY <1>4, <1>5 DEF ScanWorks, ScanTypes

\* The context of the bot is done: the scans under it owe nothing more.
LEMMA ShutdownWorks ==
    ASSUME ScanWorks, Shutdown
    PROVE  ScanWorks'
<1>1. /\ TypeOK /\ cancelled' = TRUE
      /\ UNCHANGED <<thread, archivedAt, locked, headless, young, posts, taskConfig, writer, hasty, scan, job, free,
                     changes, crashes, owed>>
  BY DEF Shutdown, ScanWorks, ScanTypes, forum, config, bounds
<1>2. TypeOK'
  BY <1>1 DEF TypeOK
<1>3. WorkersFit' /\ TasksFit'
  BY <1>1 DEF ScanWorks, ScanTypes, WorkersFit, Working, TasksFit, Begun
<1>4. OwedStayed'
  BY <1>1 DEF ScanWorks, OwedStayed, Wanted
<1>5. NoneMissed'
  <2>1. \A k \in Scans : ~ Done(k)' => ~ Done(k)
    BY <1>1 DEF Done
  <2> QED BY <1>1, <2>1 DEF ScanWorks, NoneMissed, InSight, Older, Listed
<1> QED BY <1>2, <1>3, <1>4, <1>5 DEF ScanWorks, ScanTypes

\* A thread that changes is owed by nobody; the others stay as they are.
LEMMA ChangedWorks ==
    ASSUME ScanWorks, NEW t \in Threads, Changed(t), TypeOK',
           \A u \in Threads \ {t} : /\ thread'[u] = thread[u] /\ archivedAt'[u] = archivedAt[u]
                                    /\ u \in locked' <=> u \in locked
                                    /\ u \in headless' <=> u \in headless
                                    /\ u \in young' <=> u \in young
    PROVE  ScanWorks'
<1>1. /\ TypeOK /\ WorkersFit /\ TasksFit /\ OwedStayed /\ NoneMissed
      /\ UNCHANGED <<posts, scan, job, free, cancelled>>
      /\ \A k \in Scans : owed'[k] = owed[k] \ {t}
  BY DEF ScanWorks, ScanTypes, Changed
<1>2. WorkersFit'
  BY <1>1 DEF WorkersFit, Working
<1>3. TasksFit'
  BY <1>1 DEF TasksFit, Begun
<1>4. OwedStayed'
  <2>1. SUFFICES ASSUME NEW k \in Scans, NEW u \in owed'[k]
                 PROVE  u \in Wanted(scan[k].mode)' \ scan'[k].excluded
    BY <1>1 DEF OwedStayed
  <2>2. u # t /\ u \in owed[k]
    BY <1>1
  <2>3. u \in Wanted(scan[k].mode) \ scan[k].excluded
    BY <1>1, <2>2 DEF OwedStayed
  <2> QED BY <1>1, <2>2, <2>3 DEF Wanted
<1>5. NoneMissed'
  <2>1. SUFFICES ASSUME NEW k \in Scans, ~ Done(k)', NEW u \in owed'[k]
                 PROVE  InSight(k, u)'
    BY DEF NoneMissed
  <2>2. u # t /\ InSight(k, u) /\ u \in Threads
    BY <1>1, <2>1 DEF NoneMissed, Done, TypeOK
  <2> QED BY <1>1, <2>2 DEF InSight, Older, Listed
<1> QED BY <1>2, <1>3, <1>4, <1>5 DEF ScanWorks, ScanTypes

\* The next archive timestamp is later than all.
LEMMA ArchiveTypes ==
    ASSUME TypeOK, NEW t \in Threads, Archive(t)
    PROVE  TypeOK'
<1>1. 1 + Max({archivedAt[u] : u \in Threads}) \in Nat
  <2> DEFINE S == {archivedAt[u] : u \in Threads}
  <2>1. \A u \in Threads : archivedAt[u] \in Nat
    BY DEF TypeOK
  <2>2. PICK m \in Threads : \A u \in Threads : archivedAt[u] <= archivedAt[m]
    BY <2>1, FiniteAssumption, Newest
  <2>3. \E x \in S : \A y \in S : x >= y
    BY <2>1, <2>2
  <2>4. S \subseteq Nat
    BY <2>1
  <2>5. Max(S) \in S
    <3> HIDE DEF S
    <3> QED BY <2>3 DEF Max
  <2> HIDE DEF S
  <2>6. Max(S) \in Nat
    BY <2>4, <2>5
  <2> QED BY <2>6 DEF S
<1>2. archivedAt' \in [Threads -> Nat]
  BY <1>1 DEF Archive, TypeOK
<1>3. thread' \in [Threads -> {"none", "active", "archived", "deleted"}]
  BY DEF Archive, TypeOK
<1>4. owed' \in [Scans -> SUBSET Threads] /\ changes' \in 0..MaxChanges
  BY BoundAssumption DEF Archive, Changed, TypeOK
<1> QED BY <1>2, <1>3, <1>4 DEF Archive, Changed, TypeOK, config

\* The other changes of a thread.
LEMMA ChangeTypes ==
    ASSUME TypeOK, NEW t \in Threads, Activate(t) \/ Lock(t) \/ Behead(t)
    PROVE  TypeOK'
<1>1. /\ Changed(t) /\ UNCHANGED archivedAt
      /\ locked' \in SUBSET Threads /\ headless' \in SUBSET Threads /\ young' \in SUBSET Threads
  BY DEF Activate, Lock, Behead, TypeOK
<1>2. thread' \in [Threads -> {"none", "active", "archived", "deleted"}]
  BY DEF Activate, Lock, Behead, TypeOK
<1>3. owed' \in [Scans -> SUBSET Threads] /\ changes' \in 0..MaxChanges
  BY <1>1, BoundAssumption DEF Changed, TypeOK
<1> QED BY <1>1, <1>2, <1>3 DEF Changed, TypeOK, config

\* The forum changes one thread at a time.
LEMMA ForumWorks ==
    ASSUME ScanWorks, NEW t \in Threads, Archive(t) \/ Activate(t) \/ Lock(t) \/ Behead(t)
    PROVE  ScanWorks'
<1>1. TypeOK
  BY DEF ScanWorks, ScanTypes
<1>2. TypeOK'
  BY <1>1, ArchiveTypes, ChangeTypes
<1>3. Changed(t)
  BY DEF Archive, Activate, Lock, Behead
<1>4. ASSUME NEW u \in Threads \ {t}
      PROVE  /\ thread'[u] = thread[u] /\ archivedAt'[u] = archivedAt[u]
             /\ u \in locked' <=> u \in locked
             /\ u \in headless' <=> u \in headless
             /\ u \in young' <=> u \in young
  BY <1>1 DEF Archive, Activate, Lock, Behead, TypeOK
<1> QED BY <1>2, <1>3, <1>4, ChangedWorks

\* A thread that is young no more was owed by nobody.
LEMMA AppearWorks ==
    ASSUME ScanWorks, NEW t \in Threads, Appear(t)
    PROVE  ScanWorks'
<1>1. /\ TypeOK /\ young' \subseteq young
      /\ UNCHANGED <<thread, archivedAt, locked, headless, posts, taskConfig, writer, hasty, scan, job, free,
                     cancelled, changes, crashes, owed>>
  BY DEF Appear, ScanWorks, ScanTypes, config, bounds
<1>2. TypeOK'
  BY <1>1 DEF TypeOK
<1>3. WorkersFit' /\ TasksFit'
  BY <1>1 DEF ScanWorks, ScanTypes, WorkersFit, Working, TasksFit, Begun
<1>4. OwedStayed'
  BY <1>1 DEF ScanWorks, OwedStayed, Wanted
<1>5. NoneMissed'
  BY <1>1 DEF ScanWorks, NoneMissed, Done, InSight, Older, Listed
<1> QED BY <1>2, <1>3, <1>4, <1>5 DEF ScanWorks, ScanTypes
-----------------------------------------------------------------------------
\* No scan runs at the start.
LEMMA InitScan == Init => ScanWorks
<1> SUFFICES ASSUME Init PROVE ScanWorks
  OBVIOUS
<1>1. TypeOK
  <2>1. thread \in [Threads -> {"none", "active", "archived", "deleted"}] /\ archivedAt \in [Threads -> Nat]
    BY ForumAssumption DEF Init
  <2>2. job \in [Scans -> [Channels -> PartitionTask]]
    BY TaskTypes DEF Init
  <2>3. scan \in [Scans -> ScanConfig \cup {Off}] /\ owed \in [Scans -> SUBSET Threads]
    BY DEF Init
  <2>4. free \in [Scans -> 0..MaxWorkers] /\ changes \in 0..MaxChanges /\ crashes \in 0..MaxCrashes
    BY PoolAssumption, BoundAssumption DEF Init
  <2>5. /\ taskConfig \in [whole : BOOLEAN, excluded : SUBSET Threads] /\ cancelled \in BOOLEAN
        /\ writer = {} /\ posts = {} /\ locked = {} /\ headless = {} /\ young = {} /\ hasty = {}
    BY DEF Init
  <2> QED BY <2>1, <2>2, <2>3, <2>4, <2>5 DEF TypeOK
<1>2. \A k \in Scans : /\ scan[k] = Off /\ owed[k] = {} /\ free[k] = 0
                       /\ \A c \in Channels : job[k][c].pc = "off"
  BY TaskTypes DEF Init
<1>3. \A k \in Scans : Working(k) = {}
  BY <1>2 DEF Working
<1>4. WorkersFit
  BY <1>2, <1>3, FS_EmptySet, PoolAssumption DEF WorkersFit
<1>5. TasksFit /\ OwedStayed /\ NoneMissed
  BY <1>2 DEF TasksFit, OwedStayed, NoneMissed
<1> QED BY <1>1, <1>4, <1>5 DEF ScanWorks, ScanTypes

\* Every step keeps what the scans work with.
LEMMA NextScan ==
    ASSUME ScanWorks, WritersNotOwed, [Next]_vars
    PROVE  ScanWorks'
<1>1. ASSUME NEW k \in Scans, Worker(k) PROVE ScanWorks'
  BY <1>1, TakeTaskWorks, ListActiveWorks, ListArchivedWorks, FinishTaskWorks DEF Worker
<1>2. ASSUME NEW k \in Scans, ProcessThread(k) PROVE ScanWorks'
  BY <1>2, SkipThreadWorks, SavePostWorks, BeginExclusionWorks, EndExclusionWorks, LeaveThreadWorks
     DEF ProcessThread
<1>3. CASE UNCHANGED vars
  <2>1. UNCHANGED <<forum, posts, config, scan, job, free, cancelled, bounds, owed>>
    BY <1>3 DEF vars, forum, config, bounds
  <2>2. RestOf
    BY <2>1 DEF RestOf, ScanWorks, ScanTypes, TypeOK, config
  <2> QED BY <2>1, <2>2, ScansAlone
<1> QED BY <1>1, <1>2, <1>3, ScanBegins, EndScanWorks, ForumWorks, AppearWorks, ShutdownWorks, CrashWorks DEF Next

\* A scan with a worker for every channel ends when all are done, and misses nothing.
LEMMA EndScanMissesNothing ==
    ASSUME ScanWorks, NEW k \in Scans, EndScan(k), ~ Done(k), Cardinality(Channels) <= MaxWorkers
    PROVE  owed[k] \subseteq posts
<1>1. /\ TypeOK /\ TasksFit /\ NoneMissed /\ scan[k] # Off /\ Working(k) = {}
      /\ Waiting(k) = {} \/ free[k] = 0
  BY DEF EndScan, ScanWorks, ScanTypes
<1>2. Waiting(k) = {}
  <2>1. SUFFICES ASSUME free[k] = 0, NEW c \in Channels, job[k][c].pc = "queued" PROVE FALSE
    BY <1>1 DEF Waiting
  <2>2. Begun(k) \subseteq Channels /\ c \notin Begun(k)
    BY <2>1 DEF Begun
  <2>3. /\ Cardinality(Begun(k)) \in Nat /\ Cardinality(Channels) \in Nat
        /\ Cardinality(Begun(k)) < Cardinality(Channels)
    <3>1. IsFiniteSet(Begun(k)) /\ Cardinality(Begun(k)) <= Cardinality(Channels)
          /\ (Cardinality(Begun(k)) = Cardinality(Channels) => Begun(k) = Channels)
      BY <2>2, FiniteAssumption, FS_Subset
    <3> QED BY <2>2, <3>1, FiniteAssumption, FS_CardinalityType
  <2>4. free[k] + Cardinality(Begun(k)) >= MaxWorkers
    BY <1>1 DEF TasksFit
  <2> QED BY <2>1, <2>3, <2>4, PoolAssumption
<1>3. \A c \in Channels : job[k][c].pc \notin {"queued", "active", "threads"}
  BY <1>1, <1>2 DEF Waiting, Working
<1>4. ASSUME NEW t \in owed[k] PROVE t \in posts
  <2>1. InSight(k, t) /\ ChannelOf[t] \in Channels
    BY <1>1, ForumAssumption DEF NoneMissed, TypeOK
  <2> QED BY <1>3, <2>1 DEF InSight
<1> QED BY <1>4
-----------------------------------------------------------------------------
(* The theorems                                                            *)

IInv == ExclusionIInv /\ ScanWorks /\ WritersNotOwed

\* The three parts hold at the start.
LEMMA InitIInv == Init => IInv
BY InitExclusion, InitScan DEF IInv, Init, WritersNotOwed

\* The debts of a scan only shrink, and new ones arise only while nobody writes.
LEMMA NextWriters ==
    ASSUME ScanWorks, WritersNotOwed, [Next]_vars
    PROVE  WritersNotOwed'
<1>0. TypeOK /\ OwedStayed
  BY DEF ScanWorks, ScanTypes
<1>1. CASE UNCHANGED config /\ \A k \in Scans : owed'[k] \subseteq owed[k]
  BY <1>1 DEF WritersNotOwed, config
<1>2. CASE writer' = {}
  BY <1>2 DEF WritersNotOwed
<1>3. ASSUME NEW k \in Scans, NEW mode \in {"full", "active"}, Scan(k, mode) PROVE writer' = {}
  BY <1>3 DEF Scan, config, WritersNotOwed
<1>4. ASSUME NEW k \in Scans, Worker(k)
      PROVE  UNCHANGED config /\ \A l \in Scans : owed'[l] \subseteq owed[l]
  BY <1>0, <1>4, FailsExcuses DEF Worker, TakeTask, ListActive, ListArchived, FinishTask
<1>5. ASSUME NEW k \in Scans, NEW t \in Threads, SkipThread(k, t) \/ SavePost(k, t) \/ LeaveThread(k, t)
      PROVE  UNCHANGED config /\ \A l \in Scans : owed'[l] \subseteq owed[l]
  <2>1. ChannelOf[t] \in Channels
    BY ForumAssumption
  <2> QED BY <1>0, <1>5, <2>1, FailsExcuses DEF SkipThread, SavePost, LeaveThread
<1>6. ASSUME NEW k \in Scans, NEW t \in Threads, BeginExclusion(k, t) PROVE WritersNotOwed'
  <2>1. CASE UNCHANGED config
    BY <1>1, <1>6, <2>1 DEF BeginExclusion
  <2>2. CASE taskConfig' = [taskConfig EXCEPT !.whole = FALSE] /\ writer' = {<<k, t>>}
    <3>1. ~ taskConfig'.whole
      BY <1>0, <2>2 DEF TypeOK
    <3>2. \A l \in Scans : t \notin owed[l]
      BY <1>0, <1>6, OwedIs DEF BeginExclusion, FirstMessageNotFound
    <3> QED BY <1>6, <2>2, <3>1, <3>2 DEF BeginExclusion, WritersNotOwed
  <2> QED BY <1>6, <2>1, <2>2 DEF BeginExclusion
<1>7. ASSUME NEW k \in Scans, NEW t \in Threads, EndExclusion(k, t) PROVE writer' = {}
  BY <1>7 DEF EndExclusion
<1>8. ASSUME NEW k \in Scans, EndScan(k)
      PROVE  UNCHANGED config /\ \A l \in Scans : owed'[l] \subseteq owed[l]
  BY <1>0, <1>8 DEF EndScan, TypeOK
<1>9. ASSUME NEW t \in Threads, Archive(t) \/ Activate(t) \/ Appear(t) \/ Lock(t) \/ Behead(t)
      PROVE  UNCHANGED config /\ \A l \in Scans : owed'[l] \subseteq owed[l]
  BY <1>9 DEF Archive, Activate, Appear, Lock, Behead, Changed
<1>10. CASE Crash
  BY <1>2, <1>10 DEF Crash
<1>11. CASE Shutdown \/ UNCHANGED vars
  <2>1. UNCHANGED config /\ UNCHANGED owed
    BY <1>11 DEF Shutdown, vars, config
  <2> QED BY <1>1, <2>1
<1> QED BY <1>1, <1>2, <1>3, <1>4, <1>5, <1>6, <1>7, <1>8, <1>9, <1>10, <1>11 DEF Next, ProcessThread

\* Each step keeps all three.
LEMMA NextIInv == IInv /\ [Next]_vars => IInv'
<1> SUFFICES ASSUME IInv, [Next]_vars PROVE IInv'
  OBVIOUS
<1>1. ExclusionIInv'
  BY NextExclusion DEF IInv
<1>2. ScanWorks'
  BY NextScan DEF IInv
<1>3. WritersNotOwed'
  BY NextWriters DEF IInv
<1> QED BY <1>1, <1>2, <1>3 DEF IInv

\* Every variable keeps its type: a page always has an oldest thread to go on from, and
\* the workers of a scan that wait are never more than the pool has, nor fewer than none.
THEOREM TypeCorrect == Spec => []TypeOK
<1>1. IInv => TypeOK
  BY DEF IInv, ScanWorks, ScanTypes
<1> QED BY <1>1, InitIInv, NextIInv, PTL DEF Spec

\* Whatever scans run side by side, whatever calls fail and whenever the process
\* ends, no thread gets on the exclusion list but for a 404 of its own first message,
\* which is gone for good or was not there yet.
THEOREM ExcludedForCause == Spec => []ExcludedWereNotFound
<1>1. IInv => ExcludedWereNotFound
  BY DEF IInv, ExclusionIInv
<1> QED BY <1>1, InitIInv, NextIInv, PTL DEF Spec

\* Whatever other scans do and however threads are archived, unarchived, locked and
\* deleted between two pages, a scan with a worker for every channel does not miss a
\* thread that stayed as it was.
THEOREM NoThreadMissed == Spec => ScanSavesWhatStayed
<1>1. IInv /\ [Next]_vars =>
        [\A k \in Scans : EndScan(k) /\ ~ Done(k) /\ Cardinality(Channels) <= MaxWorkers => owed[k] \subseteq posts]_vars
  BY EndScanMissesNothing DEF IInv
<1> QED BY <1>1, InitIInv, NextIInv, PTL DEF Spec, ScanSavesWhatStayed
=============================================================================
