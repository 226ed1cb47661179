-------------------------- MODULE PersonalNavProofs --------------------------
(***************************************************************************)
(* Proofs about PersonalNav: types, no message is left behind, and a row   *)
(* goes for a reason, for any number of commands, channels and works.      *)
(***************************************************************************)
EXTENDS PersonalNav, SequenceTheorems, WellFoundedInduction, TLAPS
-----------------------------------------------------------------------------
(* What an operation knows at each of its steps.  The operators have the   *)
(* messages l, the markers m and the lost ones x as parameters, so that    *)
(* they can be read before and after a step.                               *)

\* The markers that come right after their latest works.  What is proved of the markers
\* is about these: nothing follows from one apart.
NearOf(m) == {k \in m : k[3] = "next"}
Near == NearOf(markers)

\* An update that sends all its messages again, or for the first time.
Renews(j) == j.mode = "delete" \/ j.existing = NoRow

\* The IDs are stored one after the other, and the marker follows the latest works.
UpdateInOrder(j) ==
    /\ j.pc = "read" => j.new = <<>>
    /\ j.pc = "marker" => /\ j.new = <<>> /\ j.existing # NoRow /\ j.mode = "delete"
                          /\ j.target = j.existing.chan
    /\ j.pc = "works" => Len(j.new) < j.count
    /\ j.pc \in {"excess", "top"} => Len(j.new) = j.count
    /\ j.pc = "latest" => Len(j.new) = j.count + 1
    /\ j.pc \in {"end", "save"} => Len(j.new) = j.count + 2
    /\ j.pc = "end" => Renews(j)
    /\ j.pc = "save" /\ ~ Renews(j) => j.new[j.count + 2] = j.existing.latest

\* The messages with these IDs are in their channel, unless they are lost.
InChannel(ids, c, l, m, x) == \A k \in l \cup m : k[1] \in ids => k[2] = c \/ k[1] \in x

\* Of these, this one at most has an end marker.
OneMarker(ids, id, m, x) == \A k \in m : k[1] \in ids => k[1] = id \/ k[1] \in x

\* The messages of the row that an update has edited, sent again or deleted.
Dealt(j) ==
    CASE j.pc \in {"works", "excess"} -> {j.existing.works[i] : i \in {n \in DOMAIN j.existing.works : n <= Len(j.new)}}
      [] j.pc = "top" -> Range(j.existing.works)
      [] j.pc = "latest" -> Range(j.existing.works) \cup ({j.existing.top} \ {None})
      [] j.pc \in {"end", "save"} -> RowIDs(j.existing)
      [] OTHER -> {}

UpdateFits(j, l, m, x) ==
    /\ UpdateInOrder(j)
    /\ j.pc # "read" =>
          /\ InChannel(OpIDs(j), j.target, l, m, x)
          /\ OneMarker(RowIDs(j.existing), j.existing.latest, m, x)
          /\ Renews(j) => \A k \in m : k[1] \in Range(j.new) =>
                             k[1] \in x \/ (j.pc = "save" /\ k[1] = j.new[j.count + 2])
          /\ ~ Renews(j) => OneMarker(Range(j.new), j.existing.latest, m, x)
          /\ j.mode = "delete" /\ j.pc # "marker" => \A k \in m : k[1] \in RowIDs(j.existing) => k[1] \in x
          /\ \A k \in l : k[1] \in Dealt(j) => k[1] \in Range(j.new) \cup x
          /\ j.pc = "stale" => \E id \in RowIDs(j.existing) : <<id, j.target>> \notin l

DeleteFits(j, l, m, x) ==
    /\ InChannel(RowIDs(j.existing), j.existing.chan, l, m, x)
    /\ OneMarker(RowIDs(j.existing), j.existing.latest, m, x)
    /\ j.pc = "drop" => \A k \in l \cup m : k[1] \in RowIDs(j.existing) => k[1] \in x

RowFits(r, l, m, x) ==
    r # NoRow => /\ InChannel(RowIDs(r), r.chan, l, m, x)
                 /\ OneMarker(RowIDs(r), r.latest, m, x)

JobFits(j, l, m, x) ==
    /\ j \in Update => UpdateFits(j, l, m, x)
    /\ j \in Delete => DeleteFits(j, l, m, x)

\* What an update has sent, only this update knows of before it saves the row.
Private(o) ==
    op[o] \in Update /\ op[o].pc # "read" /\ Renews(op[o]) =>
        /\ Range(op[o].new) \cap (RowIDs(row) \cup RowIDs(op[o].existing)) = {}
        /\ \A p \in Operations \ {o} : Range(op[o].new) \cap OpIDs(op[p]) = {}

\* The batch waits for the night in which no operation of it runs.
BatchRests == due => op[Scheduler] = Off

IInv ==
    /\ TypeOK
    /\ NoMessageLeftBehind
    /\ BatchRests
    /\ RowFits(row, live, Near, lost)
    /\ \A o \in Operations : JobFits(op[o], live, Near, lost)
    /\ \A o \in Operations : Private(o)
-----------------------------------------------------------------------------
(* Lemmas about sequences, rows and operations                             *)

\* The sequences of a bounded length.
LEMMA SeqOfIs ==
    ASSUME NEW S, NEW n \in Nat, NEW s
    PROVE  s \in SeqOf(S, n) <=> s \in Seq(S) /\ Len(s) <= n
<1>1. ASSUME s \in SeqOf(S, n) PROVE s \in Seq(S) /\ Len(s) <= n
  <2>1. PICK k \in 0..n : s \in [1..k -> S]
    BY <1>1 DEF SeqOf
  <2>2. s \in Seq(S)
    BY <2>1, SeqDef
  <2>3. Len(s) = k
    BY <2>1, <2>2, LenProperties
  <2> QED BY <2>1, <2>2, <2>3
<1>2. ASSUME s \in Seq(S), Len(s) <= n PROVE s \in SeqOf(S, n)
  <2>1. Len(s) \in 0..n /\ s \in [1..Len(s) -> S]
    BY <1>2, LenProperties
  <2> QED BY <2>1 DEF SeqOf
<1> QED BY <1>1, <1>2

\* An ID more.
LEMMA AppendID ==
    ASSUME NEW n \in Nat, NEW s \in SeqOf(ID, n), Len(s) < n, NEW id \in ID
    PROVE  /\ Append(s, id) \in SeqOf(ID, n) /\ Len(Append(s, id)) = Len(s) + 1
           /\ Range(Append(s, id)) = Range(s) \cup {id}
           /\ Append(s, id)[Len(s) + 1] = id
           /\ Len(s) \in Nat
<1>1. s \in Seq(ID) /\ Len(s) \in Nat
  BY SeqOfIs, LenProperties
<1>2. /\ Append(s, id) \in Seq(ID) /\ Len(Append(s, id)) = Len(s) + 1
      /\ \A i \in 1..Len(s) : Append(s, id)[i] = s[i]
      /\ Append(s, id)[Len(s) + 1] = id
  BY <1>1, AppendProperties
<1>3. Append(s, id) \in SeqOf(ID, n)
  <2>1. Len(Append(s, id)) <= n
    BY <1>1, <1>2
  <2> QED BY <1>2, <2>1, SeqOfIs
<1>4. /\ Range(s) = {s[i] : i \in 1..Len(s)}
      /\ Range(Append(s, id)) = {Append(s, id)[i] : i \in 1..Len(s) + 1}
  BY <1>1, <1>2, RangeEquality
<1>5. 1..Len(s) + 1 = (1..Len(s)) \cup {Len(s) + 1}
  BY <1>1
<1> QED BY <1>1, <1>2, <1>3, <1>4, <1>5

\* What an operation is, one can tell from its program counter.
LEMMA JobOf ==
    ASSUME NEW j \in Update \cup Delete \cup Batch \cup {Off}
    PROVE  /\ j = Off <=> j.pc = "off"
           /\ j \in Batch <=> j.pc = "queued"
           /\ j \in Delete <=> j.pc \in {"delete", "drop"}
           /\ j \in Update <=> j.pc \in {"read", "marker", "works", "excess", "top", "latest", "end", "save", "stale"}
           /\ j.pc \in {"off", "queued", "delete", "drop", "read", "marker", "works", "excess", "top", "latest",
                        "end", "save", "stale"}
BY DEF Update, Delete, Batch, Off

\* What an operation knows of.
LEMMA OpIDsOf ==
    ASSUME NEW j \in Update \cup Delete \cup Batch \cup {Off}
    PROVE  /\ j \in Update /\ j.pc # "read" => OpIDs(j) = RowIDs(j.existing) \cup Range(j.new)
           /\ j \in Update /\ j.pc = "read" => OpIDs(j) = {}
           /\ j \in Delete => OpIDs(j) = RowIDs(j.existing)
           /\ j \in Batch \cup {Off} => OpIDs(j) = {}
BY JobOf DEF OpIDs

\* A row has its IDs, and no row has none.
LEMMA RowIDsOf ==
    ASSUME NEW r \in Row \cup {NoRow}
    PROVE  /\ RowIDs(r) \subseteq ID /\ None \notin ID
           /\ Range(r.works) \subseteq RowIDs(r) /\ r.works \in SeqOf(ID, MaxWorks) /\ DOMAIN r.works = 1..Len(r.works)
           /\ Len(r.works) \in Nat
           /\ r = NoRow => RowIDs(r) = {} /\ r.top = None /\ r.latest = None /\ Len(r.works) = 0
           /\ r # NoRow => r \in Row /\ r.top \in RowIDs(r) /\ r.latest \in RowIDs(r)
           /\ r \in Row => r # NoRow /\ r.chan \in Channels /\ r.mode \in Mode
<1>1. None \notin ID /\ MaxWorks \in Nat
  BY BoundAssumption DEF None, ID
<1>2. CASE r = NoRow
  <2>1. r.works = <<>> /\ r.top = None /\ r.latest = None
    BY <1>2 DEF NoRow
  <2>2. <<>> \in Seq(ID) /\ Len(<<>>) = 0 /\ DOMAIN <<>> = 1..0 /\ Range(<<>>) = {}
    BY DEF Range
  <2>3. <<>> \in SeqOf(ID, MaxWorks)
    <3>1. Len(<<>>) <= MaxWorks
      BY <1>1, <2>2
    <3> QED BY <1>1, <2>2, <3>1, SeqOfIs
  <2>4. r \notin Row
    BY <1>1, <2>1 DEF Row
  <2> QED BY <1>1, <1>2, <2>1, <2>2, <2>3, <2>4 DEF RowIDs
<1>3. CASE r \in Row
  <2>1. /\ r.works \in SeqOf(ID, MaxWorks) /\ r.top \in ID /\ r.latest \in ID /\ r.chan \in Channels /\ r.mode \in Mode
    BY <1>3 DEF Row
  <2>2. r.works \in Seq(ID)
    BY <1>1, <2>1, SeqOfIs
  <2>3. Range(r.works) \subseteq ID /\ DOMAIN r.works = 1..Len(r.works) /\ Len(r.works) \in Nat
    BY <2>2, RangeOfSeq, LenProperties
  <2>4. r # NoRow
    BY <1>1, <2>1 DEF NoRow
  <2> QED BY <1>1, <1>3, <2>1, <2>3, <2>4 DEF RowIDs
<1> QED BY <1>2, <1>3

\* The fields of an update.
LEMMA UpdateOf ==
    ASSUME NEW j \in Update
    PROVE  /\ j.existing \in Row \cup {NoRow} /\ j.new \in SeqOf(ID, MaxWorks + 2) /\ j.new \in Seq(ID)
           /\ Len(j.new) \in Nat /\ Range(j.new) \subseteq ID
           /\ j.target \in Channels /\ j.fallback \in Channels /\ j.mode \in Mode
           /\ j.count \in 1..MaxWorks /\ MaxWorks \in Nat
<1>1. /\ j.existing \in Row \cup {NoRow} /\ j.new \in SeqOf(ID, MaxWorks + 2)
      /\ j.target \in Channels /\ j.fallback \in Channels /\ j.mode \in Mode /\ j.count \in 1..MaxWorks
  BY DEF Update
<1>2. MaxWorks \in Nat /\ MaxWorks + 2 \in Nat
  BY BoundAssumption
<1>3. j.new \in Seq(ID)
  BY <1>1, <1>2, SeqOfIs
<1> QED BY <1>1, <1>2, <1>3, LenProperties, RangeOfSeq

\* Only messages of the row have been dealt with.
LEMMA DealtKnown ==
    ASSUME NEW j \in Update
    PROVE  Dealt(j) \subseteq RowIDs(j.existing)
<1>1. Range(j.existing.works) \subseteq RowIDs(j.existing)
  BY UpdateOf, RowIDsOf
<1>2. \A i \in DOMAIN j.existing.works : j.existing.works[i] \in RowIDs(j.existing)
  BY <1>1 DEF Range
<1>3. {j.existing.top} \ {None} \subseteq RowIDs(j.existing)
  BY DEF RowIDs
<1> QED BY <1>1, <1>2, <1>3 DEF Dealt
-----------------------------------------------------------------------------
(* What others do to the messages of an operation                          *)

\* Of these messages none has come, and all that were lost still are.
Narrowed(ids, l, m, x, l2, m2, x2) ==
    /\ \A k \in l2 : k[1] \in ids => k \in l
    /\ \A k \in m2 : k[1] \in ids => k \in m
    /\ \A id \in ids : id \in x => id \in x2

\* An operation that does nothing meanwhile finds what it knows.
LEMMA JobStays ==
    ASSUME NEW j \in Update \cup Delete \cup Batch \cup {Off}, NEW l, NEW m, NEW x, NEW l2, NEW m2, NEW x2,
           JobFits(j, l, m, x), Narrowed(OpIDs(j), l, m, x, l2, m2, x2)
    PROVE  JobFits(j, l2, m2, x2)
<1>1. ASSUME j \in Update PROVE UpdateFits(j, l2, m2, x2)
  <2>1. UpdateFits(j, l, m, x)
    BY <1>1 DEF JobFits
  <2>2. CASE j.pc = "read"
    BY <2>1, <2>2 DEF UpdateFits
  <2>3. CASE j.pc # "read"
    <3>1. /\ OpIDs(j) = RowIDs(j.existing) \cup Range(j.new) /\ Dealt(j) \subseteq RowIDs(j.existing)
      BY <1>1, <2>3, OpIDsOf, DealtKnown
    <3>2. InChannel(OpIDs(j), j.target, l2, m2, x2)
      BY <2>1, <2>3 DEF UpdateFits, InChannel, Narrowed
    <3>3. OneMarker(RowIDs(j.existing), j.existing.latest, m2, x2)
      BY <2>1, <2>3, <3>1 DEF UpdateFits, OneMarker, Narrowed
    <3>4. Renews(j) => \A k \in m2 : k[1] \in Range(j.new) =>
                          k[1] \in x2 \/ (j.pc = "save" /\ k[1] = j.new[j.count + 2])
      BY <2>1, <2>3, <3>1 DEF UpdateFits, Narrowed
    <3>5. ~ Renews(j) => OneMarker(Range(j.new), j.existing.latest, m2, x2)
      BY <2>1, <2>3, <3>1 DEF UpdateFits, OneMarker, Narrowed
    <3>6. j.mode = "delete" /\ j.pc # "marker" => \A k \in m2 : k[1] \in RowIDs(j.existing) => k[1] \in x2
      BY <2>1, <2>3, <3>1 DEF UpdateFits, Narrowed
    <3>7. \A k \in l2 : k[1] \in Dealt(j) => k[1] \in Range(j.new) \cup x2
      BY <2>1, <2>3, <3>1 DEF UpdateFits, Narrowed
    <3>8. j.pc = "stale" => \E id \in RowIDs(j.existing) : <<id, j.target>> \notin l2
      BY <2>1, <2>3, <3>1 DEF UpdateFits, Narrowed
    <3>9. UpdateInOrder(j)
      BY <2>1 DEF UpdateFits
    <3> QED BY <3>2, <3>3, <3>4, <3>5, <3>6, <3>7, <3>8, <3>9 DEF UpdateFits
  <2> QED BY <2>2, <2>3
<1>2. ASSUME j \in Delete PROVE DeleteFits(j, l2, m2, x2)
  <2>1. DeleteFits(j, l, m, x) /\ OpIDs(j) = RowIDs(j.existing)
    BY <1>2, OpIDsOf DEF JobFits
  <2> QED BY <2>1 DEF DeleteFits, InChannel, OneMarker, Narrowed
<1> QED BY <1>1, <1>2 DEF JobFits

\* So does the row.
LEMMA RowStays ==
    ASSUME NEW r, NEW l, NEW m, NEW x, NEW l2, NEW m2, NEW x2,
           RowFits(r, l, m, x), Narrowed(RowIDs(r), l, m, x, l2, m2, x2)
    PROVE  RowFits(r, l2, m2, x2)
BY DEF RowFits, InChannel, OneMarker, Narrowed
-----------------------------------------------------------------------------
(* A step of one operation                                                 *)

\* The messages that there are after a step come from l and m; what was lost, or is among
\* ids, is lost if anything still knows of it.
Turned(l, m, ids) ==
    /\ live' \subseteq l /\ Near' \subseteq m /\ lost' \subseteq lost \cup ids
    /\ \A id \in lost \cup ids : id \in Known' => id \in lost'

\* That is what Become does, and it drops what nothing knows of.
LEMMA BecomeTurns ==
    ASSUME NEW l, NEW m, NEW ids, Become(l, m, ids)
    PROVE  /\ Turned(l, NearOf(m), ids)
           /\ \A k \in live' \cup Near' : k[1] \in lost \cup ids => k[1] \in Known'
           /\ \A k \in Near' : k \in m /\ k[3] = "next"
           /\ \A k \in markers' : k \in m /\ (k \in Near' \/ k[1] \in Known')
BY DEF Become, Turned, Near, NearOf

\* The markers next to their messages are markers.
LEMMA NearIs ==
    /\ Near = NearOf(markers) /\ Near' = NearOf(markers')
    /\ \A m : \A k : k \in NearOf(m) <=> k \in m /\ k[3] = "next"
BY DEF Near, NearOf

\* Operation o goes on as j.
JobStep(o, j, l, m, ids) ==
    /\ op' = [op EXCEPT ![o] = j]
    /\ Turned(l, m, ids)
    /\ l \subseteq ID \X Channels /\ markers' \subseteq ID \X Channels \X Position /\ ids \subseteq ID
    /\ \A k \in l : k \in live \/ k[1] \notin Known
    /\ \A k \in m : \/ k \in Near
                    \/ /\ k[1] \notin RowIDs(row)
                       /\ \A p \in Operations \ {o} : k[1] \notin OpIDs(op[p])
    /\ JobFits(j, live', Near', lost')
    /\ \A id \in OpIDs(j) : id \in OpIDs(op[o]) \/ id \in RowIDs(row) \/ id \notin Known
    /\ j \in Update /\ j.pc # "read" /\ Renews(j) =>
          /\ Range(j.new) \cap (RowIDs(row') \cup RowIDs(j.existing)) = {}
          /\ \A p \in Operations \ {o} : Range(j.new) \cap OpIDs(op[p]) = {}

\* What it leaves of the rest.
RestFits(o) ==
    /\ row' \in Row \cup {NoRow} /\ RowIDs(row') \subseteq RowIDs(row) \cup OpIDs(op[o])
    /\ row' = row \/ RowFits(row', live', Near', lost')
    /\ Messages' \subseteq Known'
    /\ channel' \in [Channels -> {"open", "idle", "gone"}] /\ works' \in 0..MaxWorks
    /\ due' \in BOOLEAN /\ (due' => due /\ (o # Scheduler \/ op[o] # Off))
    /\ commands' \in 0..MaxCommands /\ mishaps' \in 0..MaxMishaps

\* Who knows what after the step.
LEMMA KnownAfter ==
    ASSUME TypeOK, NEW o \in Operations, NEW j, op' = [op EXCEPT ![o] = j]
    PROVE  /\ op'[o] = j /\ \A p \in Operations \ {o} : op'[p] = op[p]
           /\ \A id : id \in Known' <=> \/ id \in RowIDs(row') \/ id \in OpIDs(j)
                                        \/ \E p \in Operations \ {o} : id \in OpIDs(op[p])
<1>1. op'[o] = j /\ \A p \in Operations \ {o} : op'[p] = op[p]
  BY DEF TypeOK
<1>2. Known' = RowIDs(row') \cup UNION {OpIDs(op'[p]) : p \in Operations}
  BY DEF Known
<1>3. \A id : id \in Known' <=> id \in RowIDs(row') \/ \E p \in Operations : id \in OpIDs(op'[p])
  BY <1>2
<1>4. \A id : (\E p \in Operations : id \in OpIDs(op'[p]))
                 <=> id \in OpIDs(j) \/ \E p \in Operations \ {o} : id \in OpIDs(op[p])
  BY <1>1
<1> QED BY <1>1, <1>3, <1>4

\* Who knows what now.
LEMMA KnownNow ==
    /\ RowIDs(row) \subseteq Known
    /\ \A p \in Operations : OpIDs(op[p]) \subseteq Known
BY DEF Known

\* Every operation is of some kind.
LEMMA JobTyped ==
    ASSUME TypeOK, NEW o \in Operations
    PROVE  op[o] \in Update \cup Delete \cup Batch \cup {Off}
BY DEF TypeOK

\* The step keeps everything.
LEMMA StepKeeps ==
    ASSUME IInv, NEW o \in Operations, NEW j \in Update \cup Delete \cup Batch \cup {Off},
           NEW l, NEW m, NEW ids, JobStep(o, j, l, m, ids), RestFits(o)
    PROVE  IInv'
<1>1. TypeOK /\ NoMessageLeftBehind /\ BatchRests /\ RowFits(row, live, Near, lost)
  BY DEF IInv
<1>2. /\ op'[o] = j /\ \A p \in Operations \ {o} : op'[p] = op[p]
      /\ \A id : id \in Known' <=> \/ id \in RowIDs(row') \/ id \in OpIDs(j)
                                   \/ \E p \in Operations \ {o} : id \in OpIDs(op[p])
  BY <1>1, KnownAfter DEF JobStep
<1>3. TypeOK'
  <2>1. op' \in [Operations -> Update \cup Delete \cup Batch \cup {Off}]
    BY <1>1 DEF JobStep, TypeOK
  <2>2. live' \subseteq ID \X Channels /\ markers' \subseteq ID \X Channels \X Position /\ lost' \subseteq ID
    BY <1>1 DEF JobStep, Turned, TypeOK
  <2> QED BY <2>1, <2>2 DEF TypeOK, RestFits
<1>4. ASSUME NEW p \in Operations \ {o}
      PROVE  Narrowed(OpIDs(op[p]), live, Near, lost, live', Near', lost')
  <2>1. OpIDs(op[p]) \subseteq Known /\ OpIDs(op[p]) \subseteq Known'
    BY <1>2, KnownNow
  <2> QED BY <2>1 DEF Narrowed, JobStep, Turned
<1>5. \A p \in Operations : JobFits(op'[p], live', Near', lost')
  <2>1. ASSUME NEW p \in Operations \ {o} PROVE JobFits(op'[p], live', Near', lost')
    <3>1. JobFits(op[p], live, Near, lost) /\ op[p] \in Update \cup Delete \cup Batch \cup {Off}
      BY <1>1, JobTyped DEF IInv
    <3> QED BY <1>2, <1>4, <3>1, JobStays
  <2> QED BY <1>2, <2>1 DEF JobStep
<1>6. RowFits(row', live', Near', lost')
  <2>1. CASE row' = row
    <3>1. RowIDs(row) \subseteq Known /\ RowIDs(row) \subseteq Known'
      BY <1>2, <2>1, KnownNow
    <3>2. Narrowed(RowIDs(row), live, Near, lost, live', Near', lost')
      BY <3>1 DEF Narrowed, JobStep, Turned
    <3> QED BY <1>1, <2>1, <3>2, RowStays
  <2> QED BY <2>1 DEF RestFits
<1>7. BatchRests'
  <2>1. ASSUME due' PROVE op'[Scheduler] = Off
    <3>1. due /\ (o # Scheduler \/ op[o] # Off)
      BY <2>1 DEF RestFits
    <3>2. op[Scheduler] = Off /\ Scheduler \in Operations
      BY <1>1, <3>1 DEF BatchRests, Operations
    <3> QED BY <1>2, <3>1, <3>2
  <2> QED BY <2>1 DEF BatchRests
<1>8. ASSUME NEW p \in Operations PROVE Private(p)'
  <2>1. CASE p = o
    <3>1. \A q \in Operations \ {o} : OpIDs(op'[q]) = OpIDs(op[q])
      BY <1>2
    <3> QED BY <1>2, <2>1, <3>1 DEF Private, JobStep
  <2>2. CASE p # o
    <3>1. SUFFICES ASSUME op[p] \in Update, op[p].pc # "read", Renews(op[p])
                   PROVE  /\ Range(op[p].new) \cap (RowIDs(row') \cup RowIDs(op[p].existing)) = {}
                          /\ \A q \in Operations \ {p} : Range(op[p].new) \cap OpIDs(op'[q]) = {}
      BY <1>2, <2>2 DEF Private
    <3>2. /\ Range(op[p].new) \cap (RowIDs(row) \cup RowIDs(op[p].existing)) = {}
          /\ \A q \in Operations \ {p} : Range(op[p].new) \cap OpIDs(op[q]) = {}
      BY <3>1 DEF IInv, Private
    <3>3. Range(op[p].new) \subseteq Known
      BY <3>1, OpIDsOf, KnownNow
    <3>4. Range(op[p].new) \cap RowIDs(row') = {}
      BY <2>2, <3>2 DEF RestFits
    <3>5. Range(op[p].new) \cap OpIDs(j) = {}
      BY <2>2, <3>2, <3>3 DEF JobStep
    <3> QED BY <1>2, <3>2, <3>4, <3>5
  <2> QED BY <2>1, <2>2
<1>9. NoMessageLeftBehind'
  BY DEF RestFits, NoMessageLeftBehind
<1> QED BY <1>3, <1>5, <1>6, <1>7, <1>8, <1>9 DEF IInv
-----------------------------------------------------------------------------
(* Steps that all actions take                                             *)

\* A step of o changes nothing else, whether a call fails or not.
Calm(o) ==
    /\ UNCHANGED <<world, bounds>>
    /\ mishaps' \in 0..MaxMishaps
    /\ op[o] # Off

\* A mishap or none.
LEMMA MishapOrFine ==
    ASSUME TypeOK, Fine \/ Mishap
    PROVE  mishaps' \in 0..MaxMishaps
<1>1. MaxMishaps \in Nat /\ mishaps \in 0..MaxMishaps
  BY BoundAssumption DEF TypeOK
<1> QED BY <1>1 DEF Fine, Mishap

\* Such a step leaves the rest as it is, if it keeps or replaces the row.
LEMMA CalmRests ==
    ASSUME TypeOK, NEW o \in Operations, Calm(o), Messages' \subseteq Known',
           row' \in Row \cup {NoRow}, RowIDs(row') \subseteq RowIDs(row) \cup OpIDs(op[o]),
           row' = row \/ RowFits(row', live', Near', lost')
    PROVE  RestFits(o)
BY DEF RestFits, Calm, TypeOK, world, bounds

\* After Become every message is known, if each is known, was lost or is left behind.
LEMMA AllKnown ==
    ASSUME NEW l, NEW m, NEW ids, Become(l, m, ids),
           \A k \in l \cup NearOf(m) : k[1] \in Known' \/ k[1] \in lost \cup ids
    PROVE  Messages' \subseteq Known'
<1>1. /\ \A k \in live' : k \in l
      /\ \A k \in Near' : k \in NearOf(m)
      /\ \A k \in live' \cup Near' : k[1] \in lost \cup ids => k[1] \in Known'
      /\ \A k \in markers' : k \in Near' \/ k[1] \in Known'
  BY BecomeTurns DEF Turned
<1>2. Messages' = {k[1] : k \in live' \cup markers'}
  BY DEF Messages
<1>3. \A k \in live' \cup markers' : k[1] \in Known'
  BY <1>1
<1> QED BY <1>2, <1>3

\* The orphans are all that is not known.
LEMMA OrphansKnown ==
    ASSUME NEW l, NEW m, Become(l, m, Orphans), l \subseteq live, m \subseteq markers
    PROVE  Messages' \subseteq Known'
<1>1. \A k \in l \cup NearOf(m) : k[1] \in Known' \/ k[1] \in Orphans
  BY DEF Orphans, Messages, NearOf
<1> QED BY <1>1, AllKnown

\* Messages and orphans have IDs.
LEMMA MessagesTyped ==
    ASSUME TypeOK
    PROVE  Messages \subseteq ID /\ Orphans \subseteq ID
BY DEF TypeOK, Messages, Orphans

\* An operation ends.
LEMMA Ends ==
    ASSUME IInv, NEW o \in Operations, Calm(o), op' = [op EXCEPT ![o] = Off],
           NEW l, NEW m, NEW ids, Become(l, m, ids), l \subseteq live, m \subseteq markers, ids \subseteq ID,
           Messages' \subseteq Known',
           row' \in Row \cup {NoRow}, RowIDs(row') \subseteq RowIDs(row) \cup OpIDs(op[o]),
           row' = row \/ RowFits(row', live', Near', lost')
    PROVE  IInv'
<1>1. TypeOK
  BY DEF IInv
<1>2. RestFits(o)
  BY <1>1, CalmRests
<1>3. Off \in Update \cup Delete \cup Batch \cup {Off} /\ Off \notin Update /\ Off \notin Delete /\ OpIDs(Off) = {}
  BY JobOf, OpIDsOf DEF Off
<1>4. JobStep(o, Off, l, NearOf(m), ids)
  <2>1. l \subseteq ID \X Channels /\ markers' \subseteq ID \X Channels \X Position
    <3>1. \A k \in markers' : k \in m
      BY BecomeTurns
    <3> QED BY <1>1, <3>1 DEF TypeOK
  <2>2. Turned(l, NearOf(m), ids) /\ \A k \in NearOf(m) : k \in Near
    BY BecomeTurns, NearIs
  <2>3. JobFits(Off, live', Near', lost')
    BY <1>3 DEF JobFits
  <2> QED BY <1>3, <2>1, <2>2, <2>3 DEF JobStep
<1> QED BY <1>2, <1>3, <1>4, StepKeeps

\* The row has its IDs, and an operation its.
LEMMA RowTyped ==
    ASSUME TypeOK
    PROVE  row \in Row \cup {NoRow}
BY DEF TypeOK

\* An operation ends for an error, and leaves the messages that only it knew of.
LEMMA EndsInError ==
    ASSUME IInv, NEW o \in Operations, Calm(o), Finish(o), row' = row,
           NEW l, NEW m, Become(l, m, Orphans), l \subseteq live, m \subseteq markers
    PROVE  IInv'
<1>1. TypeOK /\ row' \in Row \cup {NoRow}
  BY RowTyped DEF IInv
<1>2. Messages' \subseteq Known' /\ Orphans \subseteq ID
  BY <1>1, OrphansKnown, MessagesTyped
<1>3. op' = [op EXCEPT ![o] = Off]
  BY DEF Finish
<1> QED BY <1>1, <1>2, <1>3, Ends
-----------------------------------------------------------------------------
(* The operations begin                                                    *)

\* An operation begins, with what the row knows at most.
LEMMA Starts ==
    ASSUME IInv, NEW o \in Operations, op[o] = Off, NEW j \in Update \cup Delete \cup Batch,
           op' = [op EXCEPT ![o] = j], UNCHANGED <<world, discord, row, mishaps>>,
           commands' \in 0..MaxCommands, due' \in BOOLEAN, due' => due /\ o # Scheduler,
           JobFits(j, live, Near, lost), OpIDs(j) \subseteq RowIDs(row), j \in Update => j.pc = "read"
    PROVE  IInv'
<1>1. TypeOK /\ Messages \subseteq Known /\ RowIDs(row') = RowIDs(row)
  BY DEF IInv, NoMessageLeftBehind
<1>2. OpIDs(op[o]) = {}
  BY JobOf, OpIDsOf
<1>3. \A id \in Known : id \in Known'
  <2>1. ASSUME NEW id \in Known PROVE id \in RowIDs(row) \/ \E p \in Operations \ {o} : id \in OpIDs(op[p])
    <3>1. id \in RowIDs(row) \/ \E p \in Operations : id \in OpIDs(op[p])
      BY DEF Known
    <3> QED BY <1>2, <3>1
  <2> QED BY <1>1, <2>1, KnownAfter
<1>4. live' = live /\ markers' = markers /\ Near' = Near /\ lost' = lost /\ row' = row
  BY DEF discord, Near
<1>5. Messages' \subseteq Known'
  <2>1. Messages' = Messages
    BY <1>4 DEF Messages
  <2> QED BY <1>1, <1>3, <2>1
<1>6. RestFits(o)
  BY <1>1, <1>4, <1>5 DEF RestFits, TypeOK, world
<1>7. JobStep(o, j, live, Near, {})
  <2>1. Turned(live, Near, {})
    BY <1>4 DEF Turned
  <2>2. live \subseteq ID \X Channels /\ markers \subseteq ID \X Channels \X Position
    BY <1>1 DEF TypeOK
  <2>3. JobFits(j, live', Near', lost')
    BY <1>4
  <2> QED BY <1>4, <2>1, <2>2, <2>3 DEF JobStep
<1> QED BY <1>6, <1>7, StepKeeps

\* Before it reads the row, an update knows nothing.
LEMMA NewUpdate ==
    ASSUME NEW mode \in Mode, NEW c \in Channels, NEW o \in Operations, TypeOK, BeginUpdate(o, mode, c)
    PROVE  \E j \in Update : /\ op' = [op EXCEPT ![o] = j] /\ j.pc = "read" /\ OpIDs(j) = {}
                             /\ \A l, m, x : JobFits(j, l, m, x)
<1> DEFINE j == [ pc |-> "read", mode |-> mode, fallback |-> c, target |-> c,
                  existing |-> NoRow, count |-> 1, new |-> <<>> ]
<1>1. <<>> \in SeqOf(ID, MaxWorks + 2) /\ 1 \in 1..MaxWorks
  <2>1. <<>> \in Seq(ID) /\ Len(<<>>) = 0 /\ MaxWorks \in Nat \ {0}
    BY BoundAssumption
  <2>2. MaxWorks + 2 \in Nat /\ Len(<<>>) <= MaxWorks + 2 /\ 1 \in 1..MaxWorks
    BY <2>1
  <2> QED BY <2>1, <2>2, SeqOfIs
<1>2. j \in Update
  BY <1>1 DEF Update
<1>3. op' = [op EXCEPT ![o] = j] /\ j.pc = "read" /\ j.new = <<>>
  BY DEF BeginUpdate
<1> HIDE DEF j
<1>4. OpIDs(j) = {}
  BY <1>2, <1>3, OpIDsOf
<1>5. \A l, m, x : UpdateFits(j, l, m, x) /\ j \notin Delete
  BY <1>2, <1>3, JobOf DEF UpdateFits, UpdateInOrder
<1>6. \A l, m, x : JobFits(j, l, m, x)
  BY <1>5 DEF JobFits
<1> QED BY <1>2, <1>3, <1>4, <1>6

\* Commands of members are no steps of the batch.
LEMMA CommandsOnly ==
    ASSUME TypeOK, NEW o \in Commands, Command(o)
    PROVE  /\ o \in Operations /\ o # Scheduler /\ op[o] = Off
           /\ commands' \in 0..MaxCommands /\ UNCHANGED <<world, discord, row, mishaps, due>>
<1>1. MaxCommands \in Nat /\ Scheduler \notin Commands
  BY BoundAssumption
<1>2. commands \in 0..MaxCommands /\ commands < MaxCommands /\ commands' = commands + 1
  BY DEF TypeOK, Command
<1>3. commands' \in 0..MaxCommands
  BY <1>1, <1>2
<1> QED BY <1>1, <1>3 DEF Operations, Command

\* A new navigation, or a new one in place of the old.
LEMMA CreateKeeps ==
    ASSUME IInv, NEW o \in Commands, NEW mode \in Mode, NEW c \in Channels,
           CreateOrReplaceNavigation(o, mode, c)
    PROVE  IInv'
<1>1. TypeOK
  BY DEF IInv
<1>2. Command(o) /\ BeginUpdate(o, mode, c)
  BY DEF CreateOrReplaceNavigation
<1>3. /\ o \in Operations /\ o # Scheduler /\ op[o] = Off
      /\ commands' \in 0..MaxCommands /\ UNCHANGED <<world, discord, row, mishaps, due>>
  BY <1>1, <1>2, CommandsOnly
<1>4. PICK j \in Update : /\ op' = [op EXCEPT ![o] = j] /\ j.pc = "read" /\ OpIDs(j) = {}
                          /\ \A l, m, x : JobFits(j, l, m, x)
  BY <1>1, <1>2, <1>3, NewUpdate
<1>5. due' \in BOOLEAN /\ (due' => due)
  BY <1>1, <1>3 DEF TypeOK
<1> QED BY <1>3, <1>4, <1>5, Starts

\* A refresh.
LEMMA RefreshKeeps ==
    ASSUME IInv, NEW o \in Commands, RefreshNavigation(o)
    PROVE  IInv'
<1>1. TypeOK /\ row \in Row
  BY DEF IInv, TypeOK, RefreshNavigation
<1>2. Command(o) /\ BeginUpdate(o, row.mode, row.chan)
  BY DEF RefreshNavigation
<1>3. /\ o \in Operations /\ o # Scheduler /\ op[o] = Off
      /\ commands' \in 0..MaxCommands /\ UNCHANGED <<world, discord, row, mishaps, due>>
  BY <1>1, <1>2, CommandsOnly
<1>4. row.mode \in Mode /\ row.chan \in Channels
  BY <1>1, RowIDsOf
<1>5. PICK j \in Update : /\ op' = [op EXCEPT ![o] = j] /\ j.pc = "read" /\ OpIDs(j) = {}
                          /\ \A l, m, x : JobFits(j, l, m, x)
  BY <1>1, <1>2, <1>3, <1>4, NewUpdate
<1>6. due' \in BOOLEAN /\ (due' => due)
  BY <1>1, <1>3 DEF TypeOK
<1> QED BY <1>3, <1>5, <1>6, Starts

\* A deletion: it knows what the row knows.
LEMMA BeginDeleteKeeps ==
    ASSUME IInv, NEW o \in Commands, BeginDelete(o)
    PROVE  IInv'
<1> DEFINE j == [pc |-> "delete", existing |-> row]
<1>1. TypeOK /\ row \in Row /\ RowFits(row, live, Near, lost)
  BY DEF IInv, TypeOK, BeginDelete
<1>2. /\ o \in Operations /\ o # Scheduler /\ op[o] = Off
      /\ commands' \in 0..MaxCommands /\ UNCHANGED <<world, discord, row, mishaps, due>>
  BY <1>1, CommandsOnly DEF BeginDelete
<1>3. op' = [op EXCEPT ![o] = j] /\ j \in Delete /\ j.pc = "delete" /\ j.existing = row
  BY <1>1 DEF BeginDelete, Delete
<1> HIDE DEF j
<1>4. OpIDs(j) = RowIDs(row) /\ j \notin Update /\ row # NoRow
  BY <1>1, <1>3, OpIDsOf, JobOf, RowIDsOf
<1>5. JobFits(j, live, Near, lost)
  BY <1>1, <1>3, <1>4 DEF JobFits, DeleteFits, RowFits
<1>6. due' \in BOOLEAN /\ (due' => due)
  BY <1>1, <1>2 DEF TypeOK
<1> QED BY <1>2, <1>3, <1>4, <1>5, <1>6, Starts

\* The batch reads the rows; its row is read again when its turn comes.
LEMMA UpdateAllKeeps ==
    ASSUME IInv, UpdateAllNavigations
    PROVE  IInv'
<1> DEFINE j == [pc |-> "queued", nav |-> row]
<1>1. TypeOK /\ row \in Row /\ op[Scheduler] = Off /\ Scheduler \in Operations
  BY DEF IInv, TypeOK, UpdateAllNavigations, BatchRests, Operations
<1>2. op' = [op EXCEPT ![Scheduler] = j] /\ j \in Batch /\ j.pc = "queued"
  BY <1>1 DEF UpdateAllNavigations, Batch
<1> HIDE DEF j
<1>3. OpIDs(j) = {} /\ j \notin Update /\ j \notin Delete
  BY <1>2, OpIDsOf, JobOf
<1>4. JobFits(j, live, Near, lost)
  BY <1>3 DEF JobFits
<1>5. commands' \in 0..MaxCommands /\ due' = FALSE /\ UNCHANGED <<world, discord, row, mishaps>>
  BY <1>1 DEF UpdateAllNavigations, TypeOK
<1> QED BY <1>1, <1>2, <1>3, <1>4, <1>5, Starts

\* A night begins.
LEMMA DayKeeps ==
    ASSUME IInv, DayPasses
    PROVE  IInv'
<1>1. op[Scheduler] = Off /\ due' = TRUE
  BY DEF DayPasses, Operations
<1>2. UNCHANGED <<channel, works, live, markers, lost, row, op, commands, mishaps>>
  BY DEF DayPasses, world, discord
<1>3. TypeOK' /\ BatchRests'
  BY <1>1, <1>2 DEF IInv, TypeOK, BatchRests
<1>4. NoMessageLeftBehind'
  BY <1>2 DEF IInv, NoMessageLeftBehind, Messages, Known
<1>5. /\ RowFits(row', live', Near', lost')
      /\ \A o \in Operations : JobFits(op'[o], live', Near', lost')
  BY <1>2 DEF IInv, Near
<1>6. \A o \in Operations : Private(o)'
  BY <1>2 DEF IInv, Private
<1> QED BY <1>3, <1>4, <1>5, <1>6 DEF IInv

\* The update of the night starts or is passed over.
LEMMA ScheduledKeeps ==
    ASSUME IInv, UpdateNavigationScheduled
    PROVE  IInv'
<1> DEFINE nav == op[Scheduler].nav
<1>1. TypeOK /\ Scheduler \in Operations /\ op[Scheduler] \in Batch /\ op[Scheduler] # Off
  <2>1. TypeOK /\ Scheduler \in Operations /\ op[Scheduler].pc = "queued"
    BY DEF IInv, UpdateNavigationScheduled, Operations
  <2>2. op[Scheduler] \in Update \cup Delete \cup Batch \cup {Off}
    BY <2>1, JobTyped
  <2> QED BY <2>1, <2>2, JobOf
<1>2. OpIDs(op[Scheduler]) = {} /\ nav.mode \in Mode /\ nav.chan \in Channels
  <2>1. nav \in Row
    BY <1>1 DEF Batch
  <2> QED BY <1>1, <2>1, OpIDsOf, RowIDsOf
<1> HIDE DEF nav
<1>3. UNCHANGED <<channel, works, live, markers, lost, row, due, commands>> /\ (Fine \/ Mishap)
  BY DEF UpdateNavigationScheduled, world, discord, bounds
<1>4. PICK j \in Update \cup {Off} : /\ op' = [op EXCEPT ![Scheduler] = j] /\ OpIDs(j) = {}
                                     /\ \A l, m, x : JobFits(j, l, m, x)
                                     /\ j \in Update => j.pc = "read"
  <2>1. CASE BeginUpdate(Scheduler, nav.mode, nav.chan)
    BY <1>1, <1>2, <2>1, NewUpdate
  <2>2. CASE Finish(Scheduler)
    <3>1. OpIDs(Off) = {} /\ Off \notin Update /\ Off \notin Delete
      BY JobOf, OpIDsOf DEF Off
    <3> QED BY <2>2, <3>1 DEF Finish, JobFits
  <2> QED BY <2>1, <2>2 DEF UpdateNavigationScheduled, nav
<1>5. Calm(Scheduler)
  BY <1>1, <1>3, MishapOrFine DEF Calm, world, bounds
<1>6. Messages' \subseteq Known'
  <2>1. Messages' = Messages /\ Messages \subseteq Known
    BY <1>3 DEF Messages, IInv, NoMessageLeftBehind
  <2>2. ASSUME NEW id \in Known PROVE id \in RowIDs(row') \/ \E p \in Operations \ {Scheduler} : id \in OpIDs(op[p])
    <3>1. id \in RowIDs(row) \/ \E p \in Operations : id \in OpIDs(op[p])
      BY DEF Known
    <3> QED BY <1>2, <1>3, <3>1
  <2> QED BY <1>1, <1>4, <2>1, <2>2, KnownAfter
<1>7. RestFits(Scheduler)
  BY <1>1, <1>3, <1>5, <1>6, CalmRests, RowTyped
<1>8. JobStep(Scheduler, j, live, Near, {})
  <2>1. Turned(live, Near, {})
    BY <1>3 DEF Turned, Near
  <2>2. live \subseteq ID \X Channels /\ markers \subseteq ID \X Channels \X Position
    BY <1>1 DEF TypeOK
  <2> QED BY <1>3, <1>4, <2>1, <2>2 DEF JobStep
<1> QED BY <1>1, <1>4, <1>7, <1>8, StepKeeps
-----------------------------------------------------------------------------
(* The steps of an update                                                  *)

\* What is known stays known, if the operation that steps forgets nothing.
LEMMA KnownStays ==
    ASSUME TypeOK, NEW o \in Operations, NEW j, op' = [op EXCEPT ![o] = j], row' = row,
           OpIDs(op[o]) \subseteq OpIDs(j) \cup RowIDs(row)
    PROVE  Known \subseteq Known'
<1>1. ASSUME NEW id \in Known
      PROVE  id \in RowIDs(row') \/ id \in OpIDs(j) \/ \E p \in Operations \ {o} : id \in OpIDs(op[p])
  <2>1. id \in RowIDs(row) \/ \E p \in Operations : id \in OpIDs(op[p])
    BY DEF Known
  <2> QED BY <2>1
<1> QED BY <1>1, KnownAfter

\* Operation o goes on as j, which forgets nothing and learns of nothing that another
\* operation alone knows of.
Goes(o, j) ==
    /\ Calm(o)
    /\ row' = row
    /\ op' = [op EXCEPT ![o] = j]
    /\ OpIDs(op[o]) \subseteq OpIDs(j)
    /\ \A id \in OpIDs(j) : id \in OpIDs(op[o]) \/ id \in RowIDs(row) \/ id \notin Known
    /\ j \in Update /\ j.pc # "read" /\ Renews(j) =>
          /\ Range(j.new) \cap (RowIDs(row) \cup RowIDs(j.existing)) = {}
          /\ \A p \in Operations \ {o} : Range(j.new) \cap OpIDs(op[p]) = {}

\* It may send a message that nothing knew of, and mark one that only it knows of.
LEMMA GoesOn ==
    ASSUME IInv, NEW o \in Operations, NEW j \in Update \cup Delete \cup Batch \cup {Off}, Goes(o, j),
           NEW l, NEW m, NEW ids, Become(l, m, ids),
           l \subseteq ID \X Channels, m \subseteq ID \X Channels \X Position, ids \subseteq ID,
           \A k \in l : k \in live \/ (k[1] \notin Known /\ k[1] \in OpIDs(j)),
           \A k \in m : \/ k \in markers
                        \/ /\ k[1] \in OpIDs(j) /\ k[1] \notin RowIDs(row)
                           /\ \A p \in Operations \ {o} : k[1] \notin OpIDs(op[p]),
           JobFits(j, live', Near', lost')
    PROVE  IInv'
<1>1. TypeOK /\ Messages \subseteq Known /\ row \in Row \cup {NoRow}
  BY RowTyped DEF IInv, NoMessageLeftBehind
<1>2. op' = [op EXCEPT ![o] = j] /\ row' = row /\ OpIDs(op[o]) \subseteq OpIDs(j) /\ Calm(o)
  BY DEF Goes
<1>3. Known \subseteq Known' /\ OpIDs(j) \subseteq Known'
  BY <1>1, <1>2, KnownStays, KnownAfter
<1>4. \A k \in live \cup markers : k[1] \in Messages
  BY DEF Messages
<1>5. Messages' \subseteq Known'
  <2>1. \A k \in l \cup NearOf(m) : k[1] \in Known'
    BY <1>1, <1>3, <1>4, NearIs
  <2> QED BY <2>1, AllKnown
<1>6. RestFits(o)
  BY <1>1, <1>2, <1>5, CalmRests
<1>7. JobStep(o, j, l, NearOf(m), ids)
  <2>1. Turned(l, NearOf(m), ids) /\ \A k \in markers' : k \in m
    BY BecomeTurns
  <2>2. \A k \in NearOf(m) : k \in m /\ (k \in markers => k \in Near)
    BY NearIs
  <2>3. markers' \subseteq ID \X Channels \X Position
    BY <2>1
  <2> QED BY <1>2, <2>1, <2>2, <2>3 DEF JobStep, Goes
<1> QED BY <1>6, <1>7, StepKeeps

\* An update that runs, and what it knows.
LEMMA UpdateRuns ==
    ASSUME IInv, NEW o \in Operations, op[o].pc \notin {"off", "queued", "delete", "drop"}
    PROVE  /\ op[o] \in Update /\ op[o] # Off /\ TypeOK
           /\ UpdateFits(op[o], live, Near, lost)
           /\ row \in Row \cup {NoRow} /\ RowFits(row, live, Near, lost)
           /\ live \subseteq ID \X Channels /\ markers \subseteq ID \X Channels \X Position
<1>1. TypeOK /\ JobFits(op[o], live, Near, lost) /\ op[o] \in Update \cup Delete \cup Batch \cup {Off}
  BY JobTyped DEF IInv
<1> QED BY <1>1, JobOf DEF JobFits, IInv, TypeOK

\* A step that changes nothing but its operation, the messages and the row.
LEMMA CalmStep ==
    ASSUME TypeOK, NEW o \in Operations, op[o] # Off, Fine \/ Mishap, UNCHANGED <<world, bounds>>
    PROVE  Calm(o)
BY MishapOrFine DEF Calm

\* The row is read: what fits it, fits the update.
LEMMA ReadKeeps ==
    ASSUME IInv, NEW o \in Operations, ReadExisting(o)
    PROVE  IInv'
<1>1. op[o].pc = "read" /\ op[o] \in Update /\ op[o] # Off /\ TypeOK /\ Become(live, markers, {})
  BY UpdateRuns DEF ReadExisting, LeavesNone, Leaves
<1>2. /\ row \in Row \cup {NoRow} /\ RowFits(row, live, Near, lost)
      /\ live \subseteq ID \X Channels /\ markers \subseteq ID \X Channels \X Position
      /\ op[o].new = <<>> /\ OpIDs(op[o]) = {}
  BY <1>1, UpdateRuns, OpIDsOf DEF UpdateFits, UpdateInOrder
<1>3. UNCHANGED <<world, bounds>> /\ row' = row /\ (Fine \/ Mishap)
  BY DEF ReadExisting
<1>4. Calm(o)
  BY <1>1, <1>3, CalmStep
<1>5. CASE Finish(o)
  <2>1. op' = [op EXCEPT ![o] = Off]
    BY <1>5 DEF Finish
  <2>2. Messages' \subseteq Known'
    <3>1. Known \subseteq Known'
      BY <1>1, <1>2, <1>3, <2>1, KnownStays
    <3>2. \A k \in live \cup markers : k[1] \in Known
      BY DEF IInv, NoMessageLeftBehind, Messages
    <3> QED BY <1>1, <3>1, <3>2, AllKnown, NearIs
  <2> QED BY <1>1, <1>2, <1>3, <1>4, <2>1, <2>2, Ends
<1>6. ASSUME NEW n \in 1..works,
             op' = [op EXCEPT ![o].pc = IF row # NoRow /\ op[o].mode = "delete" THEN "marker" ELSE "works",
                              ![o].existing = row,
                              ![o].count = n,
                              ![o].target = IF row # NoRow THEN row.chan ELSE @]
      PROVE  IInv'
  <2> DEFINE j == [op[o] EXCEPT !.pc = IF row # NoRow /\ op[o].mode = "delete" THEN "marker" ELSE "works",
                                !.existing = row, !.count = n,
                                !.target = IF row # NoRow THEN row.chan ELSE @]
  <2>1. op' = [op EXCEPT ![o] = j]
    BY <1>1, <1>6 DEF TypeOK
  <2>2. n \in 1..MaxWorks
    BY <1>1, BoundAssumption DEF TypeOK
  <2>3. (IF row # NoRow THEN row.chan ELSE op[o].target) \in Channels
    BY <1>1, <1>2, RowIDsOf, UpdateOf
  <2>4. /\ j \in Update
        /\ j.pc = (IF row # NoRow /\ op[o].mode = "delete" THEN "marker" ELSE "works")
        /\ j.existing = row /\ j.mode = op[o].mode /\ j.new = <<>> /\ j.count = n
        /\ j.target = (IF row # NoRow THEN row.chan ELSE op[o].target)
    BY <1>1, <1>2, <2>2, <2>3 DEF Update
  <2> HIDE DEF j
  <2>5. OpIDs(j) = RowIDs(row) /\ Range(j.new) = {} /\ Len(j.new) = 0
    <3>1. Range(<<>>) = {}
      BY DEF Range
    <3> QED BY <2>4, <3>1, OpIDsOf
  <2>6. UpdateFits(j, live', Near', lost')
    <3>1. UpdateInOrder(j)
      <4>1. j.pc = "works" => Len(j.new) < j.count
        BY <2>2, <2>4, <2>5
      <4> QED BY <2>4, <4>1 DEF UpdateInOrder
    <3>2. Turned(live, Near, {})
      BY <1>1, BecomeTurns, NearIs
    <3>3. \A k \in live' \cup Near' : k \in live \cup Near
      BY <3>2 DEF Turned
    <3>4. RowIDs(row) \subseteq Known'
      BY <1>1, <1>3, <2>1, KnownAfter
    <3>5. RowFits(row, live', Near', lost')
      <4>1. Narrowed(RowIDs(row), live, Near, lost, live', Near', lost')
        BY <3>2, <3>4 DEF Narrowed, Turned
      <4> QED BY <1>2, <4>1, RowStays
    <3>6. Dealt(j) = {}
      <4>1. ASSUME NEW i \in DOMAIN row.works PROVE ~ (i <= 0)
        BY <1>2, RowIDsOf
      <4> QED BY <2>4, <2>5, <4>1 DEF Dealt
    <3>7. row = NoRow => RowIDs(row) = {}
      BY <1>2, RowIDsOf
    <3>8. InChannel(OpIDs(j), j.target, live', Near', lost')
      BY <2>4, <2>5, <3>5, <3>7 DEF InChannel, RowFits
    <3>9. OneMarker(RowIDs(j.existing), j.existing.latest, Near', lost')
      BY <2>4, <3>5, <3>7 DEF OneMarker, RowFits
    <3>10. ~ Renews(j) => OneMarker(Range(j.new), j.existing.latest, Near', lost')
      BY <2>5 DEF OneMarker
    <3>11. j.mode = "delete" /\ j.pc # "marker" => RowIDs(j.existing) = {}
      BY <2>4, <3>7
    <3>12. j.pc # "stale"
      BY <2>4
    <3> QED BY <2>5, <3>1, <3>6, <3>8, <3>9, <3>10, <3>11, <3>12 DEF UpdateFits
  <2>7. JobFits(j, live', Near', lost')
    BY <2>4, <2>6, JobOf DEF JobFits
  <2>8. Goes(o, j)
    BY <1>2, <1>3, <1>4, <2>1, <2>5 DEF Goes
  <2> QED BY <1>1, <1>2, <2>4, <2>7, <2>8, GoesOn
<1> QED BY <1>5, <1>6 DEF ReadExisting

\* An update that turns to another step.
Turn(o, j, pc) ==
    /\ op' = [op EXCEPT ![o] = j]
    /\ j \in Update /\ j.pc = pc
    /\ j.mode = op[o].mode /\ j.fallback = op[o].fallback /\ j.target = op[o].target
    /\ j.existing = op[o].existing /\ j.count = op[o].count /\ j.new = op[o].new

\* It knows what it knew, and still has its messages for itself.
LEMMA TurnGoes ==
    ASSUME IInv, NEW o \in Operations, op[o] \in Update, op[o].pc # "read", UNCHANGED <<world, bounds>>,
           Fine \/ Mishap, row' = row,
           NEW pc \in {"works", "excess", "top", "latest", "end", "save", "stale"}, Goto(o, pc)
    PROVE  \E j : Turn(o, j, pc) /\ Goes(o, j) /\ OpIDs(j) = OpIDs(op[o]) /\ OpIDs(j) \subseteq Known'
                  /\ (Renews(j) <=> Renews(op[o]))
<1> DEFINE j == [op[o] EXCEPT !.pc = pc]
<1>1. TypeOK /\ op[o] # Off
  BY JobOf DEF IInv
<1>2. op' = [op EXCEPT ![o] = j]
  BY <1>1 DEF Goto, TypeOK
<1>3. j \in Update
  BY DEF Update
<1>4. Turn(o, j, pc)
  BY <1>2, <1>3 DEF Turn, Update
<1> HIDE DEF j
<1>5. Calm(o)
  BY <1>1, CalmStep
<1>6. OpIDs(j) = OpIDs(op[o]) /\ (Renews(j) <=> Renews(op[o])) /\ j.pc # "read"
  BY <1>3, <1>4, OpIDsOf DEF Turn, Renews
<1>7. OpIDs(j) \subseteq Known'
  BY <1>1, <1>2, KnownAfter
<1>8. Renews(j) => /\ Range(j.new) \cap (RowIDs(row) \cup RowIDs(j.existing)) = {}
                   /\ \A p \in Operations \ {o} : Range(j.new) \cap OpIDs(op[p]) = {}
  <2>1. Private(o)
    BY DEF IInv
  <2> QED BY <1>4, <1>6, <2>1 DEF Private, Turn
<1>9. Goes(o, j)
  BY <1>2, <1>5, <1>6, <1>8 DEF Goes
<1> QED BY <1>4, <1>6, <1>7, <1>9

\* If messages only go, what an operation knows stays true.
LEMMA StillFits ==
    ASSUME IInv, NEW o \in Operations, NEW l, NEW m, NEW ids, Become(l, m, ids),
           l \subseteq live, m \subseteq markers, OpIDs(op[o]) \subseteq Known'
    PROVE  /\ JobFits(op[o], live', Near', lost')
           /\ \A k \in live' : k \in l
           /\ \A k \in Near' : k \in m /\ k[3] = "next"
           /\ \A id \in lost \cup ids : id \in Known' => id \in lost'
<1>1. Turned(l, NearOf(m), ids)
  BY BecomeTurns
<1>2. Narrowed(OpIDs(op[o]), live, Near, lost, live', Near', lost')
  BY <1>1, NearIs DEF Turned, Narrowed
<1>3. JobFits(op[o], live, Near, lost) /\ op[o] \in Update \cup Delete \cup Batch \cup {Off}
  BY JobTyped DEF IInv
<1> QED BY <1>1, <1>2, <1>3, JobStays, NearIs DEF Turned

\* A marker right after its latest works is found.
LEMMA EndMarkerFound ==
    ASSUME NEW ids, NEW c, NEW places \in FoundAt,
           NEW k \in (ID \X Channels \X Position) \ EndMarker(ids, c, places)
    PROVE  ~ (k[1] \in ids /\ k[2] = c /\ k[3] = "next")
<1>1. k = <<k[1], k[2], k[3]>> /\ "next" \in places
  BY DEF FoundAt, Position
<1> QED BY <1>1 DEF EndMarker

\* The marker of the row goes, is lost, or is not found.
LEMMA DeleteMarkerKeeps ==
    ASSUME IInv, NEW o \in Operations, DeleteMarker(o)
    PROVE  IInv'
<1> DEFINE old == op[o].existing
<1>1. /\ op[o].pc = "marker" /\ op[o] \in Update /\ TypeOK
      /\ live \subseteq ID \X Channels /\ markers \subseteq ID \X Channels \X Position
      /\ UpdateFits(op[o], live, Near, lost)
  BY UpdateRuns DEF DeleteMarker
<1>2. /\ op[o].new = <<>> /\ old # NoRow /\ op[o].mode = "delete" /\ op[o].target = old.chan /\ old.latest \in RowIDs(old)
      /\ old.latest \in ID
  <2>1. op[o].new = <<>> /\ old # NoRow /\ op[o].mode = "delete" /\ op[o].target = old.chan
    BY <1>1 DEF UpdateFits, UpdateInOrder
  <2>2. old \in Row \cup {NoRow}
    BY <1>1, UpdateOf
  <2> QED BY <2>1, <2>2, RowIDsOf
<1>3. PICK j : Turn(o, j, "works") /\ Goes(o, j) /\ OpIDs(j) = OpIDs(op[o]) /\ OpIDs(j) \subseteq Known'
               /\ (Renews(j) <=> Renews(op[o]))
  BY <1>1, TurnGoes DEF DeleteMarker
<1>4. RowIDs(old) \subseteq Known'
  BY <1>1, <1>3, OpIDsOf
<1>5. PICK m, ids : /\ Become(live, m, ids) /\ m \subseteq markers /\ ids \subseteq ID
                    /\ \A k \in m : k[1] = old.latest /\ k[2] = old.chan /\ k[3] = "next" => k[1] \in ids
  <2>1. ASSUME NEW places \in FoundAt, Become(live, markers \ EndMarker({old.latest}, old.chan, places), {})
        PROVE  \E m, ids : /\ Become(live, m, ids) /\ m \subseteq markers /\ ids \subseteq ID
                           /\ \A k \in m : k[1] = old.latest /\ k[2] = old.chan /\ k[3] = "next" => k[1] \in ids
    <3>1. PICK m : m = markers \ EndMarker({old.latest}, old.chan, places)
      OBVIOUS
    <3>2. \A k \in m : ~ (k[1] = old.latest /\ k[2] = old.chan /\ k[3] = "next")
      BY <1>1, <2>1, <3>1, EndMarkerFound
    <3>3. Become(live, m, {}) /\ m \subseteq markers
      BY <2>1, <3>1
    <3>4. \A k \in m : k[1] = old.latest /\ k[2] = old.chan /\ k[3] = "next" => k[1] \in {}
      BY <3>2
    <3> HIDE <3>1
    <3> QED BY ONLY <3>3, <3>4
  <2>2. CASE Become(live, markers, {old.latest})
    BY <1>2, <2>2
  <2> QED BY <2>1, <2>2 DEF DeleteMarker, Leaves
<1>6. /\ UpdateFits(op[o], live', Near', lost')
      /\ \A k \in Near' : k \in m /\ k[3] = "next"
      /\ \A id \in ids : id \in Known' => id \in lost'
  BY <1>1, <1>3, <1>5, StillFits DEF JobFits
<1>7. \A k \in Near' : k[1] \in RowIDs(old) => k[1] \in lost'
  <2>1. SUFFICES ASSUME NEW k \in Near', k[1] \in RowIDs(old), k[1] \notin lost' PROVE FALSE
    OBVIOUS
  <2>2. k[1] = old.latest
    BY <1>1, <1>6, <2>1 DEF UpdateFits, OneMarker
  <2>3. k[2] = old.chan
    <3>1. InChannel(OpIDs(op[o]), op[o].target, live', Near', lost') /\ k[1] \in OpIDs(op[o])
      BY <1>1, <1>6, <2>1, OpIDsOf DEF UpdateFits
    <3> QED BY <1>2, <2>1, <3>1 DEF InChannel
  <2>4. k[1] \in ids
    BY <1>5, <1>6, <2>1, <2>2, <2>3
  <2> QED BY <1>4, <1>6, <2>1, <2>4
<1>8. UpdateFits(j, live', Near', lost')
  <2>1. j.pc = "works" /\ j.new = <<>> /\ Len(j.new) = 0 /\ Range(j.new) = {}
    BY <1>2, <1>3 DEF Turn, Range
  <2>2. UpdateInOrder(j)
    <3>1. Len(j.new) < j.count
      BY <1>3, <2>1, UpdateOf DEF Turn
    <3> QED BY <2>1, <3>1 DEF UpdateInOrder
  <2>3. Dealt(j) = {}
    <3>1. ASSUME NEW i \in DOMAIN old.works PROVE ~ (i <= 0)
      BY <1>1, UpdateOf, RowIDsOf
    <3> QED BY <1>3, <2>1, <3>1 DEF Dealt, Turn
  <2> QED BY <1>1, <1>3, <1>6, <1>7, <2>1, <2>2, <2>3 DEF UpdateFits, Turn
<1>9. JobFits(j, live', Near', lost') /\ j \in Update
  BY <1>3, <1>8, JobOf DEF JobFits, Turn
<1> HIDE DEF old
<1> QED
  <2>1. \A k \in m : k \in markers
    BY <1>5
  <2> QED BY <1>1, <1>3, <1>5, <1>9, <2>1, GoesOn

\* What an operation knows stays true of the messages that were there before.
LEMMA OldFits ==
    ASSUME IInv, NEW o \in Operations, NEW l, NEW m, NEW ids, Become(l, m, ids), OpIDs(op[o]) \subseteq Known'
    PROVE  /\ JobFits(op[o], live' \cap live, Near' \cap Near, lost')
           /\ \A k \in live' : k \in l
           /\ \A k \in Near' : k \in m /\ k[3] = "next"
           /\ \A id \in lost \cup ids : id \in Known' => id \in lost'
<1>1. Turned(l, NearOf(m), ids)
  BY BecomeTurns
<1>2. Narrowed(OpIDs(op[o]), live, Near, lost, live' \cap live, Near' \cap Near, lost')
  BY <1>1 DEF Turned, Narrowed
<1>3. JobFits(op[o], live, Near, lost) /\ op[o] \in Update \cup Delete \cup Batch \cup {Off}
  BY JobTyped DEF IInv
<1> QED BY <1>1, <1>2, <1>3, JobStays, NearIs DEF Turned

\* An update that sends or edits: what it has at the place, and its next step.
Place(o, old, next) ==
    \/ /\ op[o].pc = "works"
       /\ old = Old(o, Len(op[o].new) + 1)
       /\ next = IF Len(op[o].new) + 1 = op[o].count THEN "excess" ELSE "works"
    \/ op[o].pc = "top" /\ old = op[o].existing.top /\ next = "latest"
    \/ /\ op[o].pc = "latest"
       /\ old = op[o].existing.latest
       /\ next = IF op[o].existing = NoRow \/ op[o].mode = "delete" THEN "end" ELSE "save"

\* It is an update, has room for an ID, and the old message is one of its row.
LEMMA PlaceOf ==
    ASSUME IInv, NEW o \in Operations, NEW old, NEW next, Place(o, old, next)
    PROVE  /\ op[o].pc \in {"works", "top", "latest"} /\ next \in {"works", "excess", "latest", "end", "save"}
           /\ op[o] \in Update /\ op[o] # Off
           /\ old \in RowIDs(op[o].existing) \cup {None}
           /\ Len(op[o].new) < MaxWorks + 2
           /\ old # None => op[o].existing # NoRow
<1>1. op[o].pc \in {"works", "top", "latest"} /\ next \in {"works", "excess", "latest", "end", "save"}
  BY DEF Place
<1>2. op[o] \in Update /\ op[o] # Off /\ UpdateInOrder(op[o])
  BY <1>1, UpdateRuns DEF UpdateFits
<1>3. op[o].existing \in Row \cup {NoRow}
  BY <1>2, UpdateOf
<1>4. old \in RowIDs(op[o].existing) \cup {None}
  <2>1. CASE op[o].pc = "works"
    <3> DEFINE works_ == op[o].existing.works
               i == Len(op[o].new) + 1
    <3>1. Range(works_) \subseteq RowIDs(op[o].existing) /\ DOMAIN works_ = 1..Len(works_) /\ Len(works_) \in Nat
      BY <1>3, RowIDsOf
    <3>2. old = (IF i <= Len(works_) THEN works_[i] ELSE None)
      BY <2>1 DEF Place, Old
    <3>3. i \in Nat \ {0}
      BY <1>2, UpdateOf
    <3> HIDE DEF works_, i
    <3>4. i <= Len(works_) => i \in DOMAIN works_
      BY <3>1, <3>3
    <3>5. i <= Len(works_) => works_[i] \in Range(works_)
      BY <3>4 DEF Range
    <3> QED BY <3>1, <3>2, <3>5
  <2>2. CASE op[o].pc \in {"top", "latest"}
    BY <2>2 DEF Place, RowIDs
  <2> QED BY <1>1, <2>1, <2>2
<1>5. Len(op[o].new) < MaxWorks + 2
  <2>1. Len(op[o].new) < op[o].count + 2
    BY <1>1, <1>2, UpdateOf DEF UpdateInOrder
  <2> QED BY <1>2, <2>1, UpdateOf
<1>6. old # None => op[o].existing # NoRow
  BY <1>3, <1>4, RowIDsOf
<1> QED BY <1>1, <1>2, <1>4, <1>5, <1>6

\* The update with the ID of the message that is now at the place, in channel c.
Placed(o, j, next, id, c) ==
    /\ op' = [op EXCEPT ![o] = j]
    /\ j \in Update /\ j.pc = next /\ j.new = Append(op[o].new, id) /\ j.target = c
    /\ j.mode = op[o].mode /\ j.existing = op[o].existing /\ j.count = op[o].count

\* Then the update is in order, and has dealt with the old message.
LEMMA PlacedInOrder ==
    ASSUME IInv, NEW o \in Operations, NEW old, NEW next, Place(o, old, next),
           NEW id \in ID, NEW c, NEW j, Placed(o, j, next, id, c), ~ Renews(op[o]) /\ old # None => id = old
    PROVE  UpdateInOrder(j) /\ Dealt(j) \subseteq Dealt(op[o]) \cup ({old} \ {None})
<1>1. /\ op[o].pc \in {"works", "top", "latest"} /\ op[o] \in Update
      /\ Len(op[o].new) < MaxWorks + 2 /\ UpdateInOrder(op[o])
  BY PlaceOf, UpdateRuns DEF UpdateFits
<1>2. op[o].existing \in Row \cup {NoRow} /\ op[o].new \in SeqOf(ID, MaxWorks + 2) /\ op[o].count \in 1..MaxWorks
      /\ MaxWorks + 2 \in Nat
  BY <1>1, UpdateOf, BoundAssumption
<1>3. /\ Len(j.new) = Len(op[o].new) + 1 /\ Len(op[o].new) \in Nat
      /\ j.new[Len(op[o].new) + 1] = id
  BY <1>1, <1>2, AppendID DEF Placed
<1>4. UpdateInOrder(j)
  <2>1. CASE op[o].pc = "works"
    <3>1. Len(op[o].new) < op[o].count
      BY <1>1, <2>1 DEF UpdateInOrder
    <3>2. CASE Len(op[o].new) + 1 = op[o].count
      <4>1. j.pc = "excess" /\ Len(j.new) = j.count
        BY <1>3, <2>1, <3>2 DEF Placed, Place
      <4> QED BY <4>1 DEF UpdateInOrder
    <3>3. CASE Len(op[o].new) + 1 # op[o].count
      <4>1. j.pc = "works" /\ j.count = op[o].count
        BY <2>1, <3>3 DEF Placed, Place
      <4>2. Len(j.new) < j.count
        BY <1>2, <1>3, <3>1, <3>3, <4>1
      <4> QED BY <4>1, <4>2 DEF UpdateInOrder
    <3> QED BY <3>2, <3>3
  <2>2. CASE op[o].pc = "top"
    <3>1. j.pc = "latest" /\ Len(j.new) = j.count + 1
      BY <1>1, <1>3, <2>2 DEF Placed, Place, UpdateInOrder
    <3> QED BY <3>1 DEF UpdateInOrder
  <2>3. CASE op[o].pc = "latest"
    <3>1. Len(op[o].new) = op[o].count + 1 /\ j.count = op[o].count /\ (Renews(j) <=> Renews(op[o]))
      BY <1>1, <2>3 DEF UpdateInOrder, Placed, Renews
    <3>2. Len(j.new) = j.count + 2 /\ Len(op[o].new) + 1 = j.count + 2
      BY <1>2, <1>3, <3>1
    <3>3. CASE Renews(op[o])
      <4>1. j.pc = "end"
        BY <2>3, <3>3 DEF Placed, Place, Renews
      <4> QED BY <3>1, <3>2, <3>3, <4>1 DEF UpdateInOrder
    <3>4. CASE ~ Renews(op[o])
      <4>1. j.pc = "save" /\ op[o].existing # NoRow /\ old = op[o].existing.latest
        BY <2>3, <3>4 DEF Placed, Place, Renews
      <4>2. old # None
        BY <1>2, <4>1, RowIDsOf
      <4>3. j.new[j.count + 2] = j.existing.latest
        BY <1>3, <3>2, <3>4, <4>1, <4>2 DEF Placed
      <4> QED BY <3>2, <4>1, <4>3 DEF UpdateInOrder
    <3> QED BY <3>3, <3>4
  <2> QED BY <1>1, <2>1, <2>2, <2>3
<1>5. Dealt(j) \subseteq Dealt(op[o]) \cup ({old} \ {None})
  <2>1. CASE op[o].pc = "works"
    <3> DEFINE works_ == op[o].existing.works
               n == Len(op[o].new)
    <3>1. /\ DOMAIN works_ = 1..Len(works_) /\ Len(works_) \in Nat
          /\ Range(works_) \subseteq RowIDs(op[o].existing) /\ None \notin RowIDs(op[o].existing)
      BY <1>2, RowIDsOf DEF RowIDs
    <3>2. old = (IF n + 1 <= Len(works_) THEN works_[n + 1] ELSE None)
      BY <2>1 DEF Place, Old
    <3>3. /\ Dealt(j) = {works_[i] : i \in {k \in DOMAIN works_ : k <= n + 1}}
          /\ Dealt(op[o]) = {works_[i] : i \in {k \in DOMAIN works_ : k <= n}}
      <4>1. j.pc \in {"works", "excess"} /\ j.existing = op[o].existing
        BY <2>1 DEF Placed, Place
      <4> QED BY <1>3, <2>1, <4>1 DEF Dealt
    <3>4. n \in Nat
      BY <1>3
    <3> HIDE DEF works_, n
    <3>5. ASSUME NEW i \in DOMAIN works_, i <= n + 1, works_[i] \notin Dealt(op[o])
          PROVE  works_[i] \in {old} \ {None}
      <4>1. i = n + 1
        BY <3>1, <3>3, <3>4, <3>5
      <4>2. n + 1 <= Len(works_)
        BY <3>1, <3>4, <3>5, <4>1
      <4>3. works_[i] \in Range(works_)
        BY DEF Range
      <4> QED BY <3>1, <3>2, <4>1, <4>2, <4>3
    <3> QED BY <3>3, <3>5
  <2>2. CASE op[o].pc = "top"
    <3>1. j.pc = "latest" /\ j.existing = op[o].existing /\ old = op[o].existing.top
      BY <2>2 DEF Placed, Place
    <3> QED BY <2>2, <3>1 DEF Dealt
  <2>3. CASE op[o].pc = "latest"
    <3>1. j.pc \in {"end", "save"} /\ j.existing = op[o].existing /\ old = op[o].existing.latest
      BY <2>3 DEF Placed, Place
    <3>2. Dealt(j) = RowIDs(op[o].existing)
      BY <3>1 DEF Dealt
    <3>3. Dealt(op[o]) = Range(op[o].existing.works) \cup ({op[o].existing.top} \ {None})
      BY <2>3 DEF Dealt
    <3> QED BY <3>1, <3>2, <3>3 DEF RowIDs
  <2> QED BY <1>1, <2>1, <2>2, <2>3
<1> QED BY <1>4, <1>5

\* The next update: it has one ID more.
LEMMA PlacedGoes ==
    ASSUME IInv, NEW o \in Operations, NEW old, NEW next, Place(o, old, next), UNCHANGED <<world, bounds>>,
           Fine \/ Mishap, row' = row, NEW id \in ID, NEW c \in Channels,
           op' = [op EXCEPT ![o].pc = next, ![o].new = Append(@, id), ![o].target = c],
           id \notin Known \/ (~ Renews(op[o]) /\ id \in RowIDs(op[o].existing))
    PROVE  \E j : /\ Placed(o, j, next, id, c) /\ Goes(o, j)
                  /\ OpIDs(j) = OpIDs(op[o]) \cup {id} /\ OpIDs(j) \subseteq Known'
                  /\ OpIDs(op[o]) = RowIDs(op[o].existing) \cup Range(op[o].new)
                  /\ Range(j.new) = Range(op[o].new) \cup {id}
                  /\ (Renews(j) <=> Renews(op[o]))
<1> DEFINE j == [op[o] EXCEPT !.pc = next, !.new = Append(@, id), !.target = c]
<1>1. /\ op[o].pc \in {"works", "top", "latest"} /\ next \in {"works", "excess", "latest", "end", "save"}
      /\ op[o] \in Update /\ op[o] # Off /\ Len(op[o].new) < MaxWorks + 2 /\ TypeOK
  BY PlaceOf DEF IInv
<1>2. /\ Append(op[o].new, id) \in SeqOf(ID, MaxWorks + 2)
      /\ Range(Append(op[o].new, id)) = Range(op[o].new) \cup {id}
  <2>1. op[o].new \in SeqOf(ID, MaxWorks + 2) /\ MaxWorks + 2 \in Nat
    BY <1>1, UpdateOf, BoundAssumption
  <2> QED BY <1>1, <2>1, AppendID
<1>3. op' = [op EXCEPT ![o] = j]
  BY <1>1 DEF TypeOK
<1>4. j \in Update
  BY <1>1, <1>2 DEF Update
<1>5. Placed(o, j, next, id, c)
  BY <1>1, <1>3, <1>4 DEF Placed, Update
<1> HIDE DEF j
<1>6. Calm(o)
  BY <1>1, CalmStep
<1>7. /\ OpIDs(op[o]) = RowIDs(op[o].existing) \cup Range(op[o].new)
      /\ OpIDs(j) = OpIDs(op[o]) \cup {id}
      /\ Range(j.new) = Range(op[o].new) \cup {id}
      /\ (Renews(j) <=> Renews(op[o]))
  <2>1. /\ j.pc # "read" /\ j \in Update /\ j.existing = op[o].existing /\ j.mode = op[o].mode
        /\ Range(j.new) = Range(op[o].new) \cup {id}
    BY <1>1, <1>2, <1>5 DEF Placed
  <2>2. OpIDs(op[o]) = RowIDs(op[o].existing) \cup Range(op[o].new)
    BY <1>1, OpIDsOf
  <2>3. OpIDs(j) = RowIDs(j.existing) \cup Range(j.new)
    BY <2>1, OpIDsOf
  <2>4. Renews(j) <=> Renews(op[o])
    BY <2>1 DEF Renews
  <2> QED BY <2>1, <2>2, <2>3, <2>4
<1>8. OpIDs(j) \subseteq Known'
  BY <1>1, <1>3, KnownAfter
<1>9. /\ RowIDs(row) \subseteq Known /\ RowIDs(op[o].existing) \subseteq Known
      /\ \A p \in Operations : OpIDs(op[p]) \subseteq Known
  BY <1>7, KnownNow
<1>10. Renews(j) => /\ Range(j.new) \cap (RowIDs(row) \cup RowIDs(j.existing)) = {}
                    /\ \A p \in Operations \ {o} : Range(j.new) \cap OpIDs(op[p]) = {}
  <2>1. Private(o)
    BY DEF IInv
  <2>2. SUFFICES ASSUME Renews(op[o])
                 PROVE  /\ Range(j.new) \cap (RowIDs(row) \cup RowIDs(op[o].existing)) = {}
                        /\ \A p \in Operations \ {o} : Range(j.new) \cap OpIDs(op[p]) = {}
    BY <1>5, <1>7 DEF Placed
  <2>3. /\ Range(op[o].new) \cap (RowIDs(row) \cup RowIDs(op[o].existing)) = {}
        /\ \A p \in Operations \ {o} : Range(op[o].new) \cap OpIDs(op[p]) = {}
    BY <1>1, <2>1, <2>2 DEF Private
  <2>4. id \notin Known
    BY <2>2
  <2> QED BY <1>7, <1>9, <2>3, <2>4
<1>11. \A i \in OpIDs(j) : i \in OpIDs(op[o]) \/ i \notin Known
  BY <1>7
<1>12. Goes(o, j)
  BY <1>3, <1>6, <1>7, <1>10, <1>11 DEF Goes
<1> QED BY <1>5, <1>7, <1>8, <1>12

\* A message is edited: the update has it, and nothing else changes.
LEMMA EditKeeps ==
    ASSUME IInv, NEW o \in Operations, NEW old, NEW next, Place(o, old, next), op[o].mode = "edit", old # None,
           UNCHANGED <<world, row, bounds>>, Fine, LeavesNone,
           op' = [op EXCEPT ![o].pc = next, ![o].new = Append(@, old)]
    PROVE  IInv'
<1>1. /\ op[o].pc \in {"works", "top", "latest"} /\ next \in {"works", "excess", "latest", "end", "save"}
      /\ op[o] \in Update /\ old \in RowIDs(op[o].existing) /\ op[o].existing # NoRow /\ TypeOK
      /\ live \subseteq ID \X Channels /\ markers \subseteq ID \X Channels \X Position
  BY PlaceOf, UpdateRuns
<1>2. /\ ~ Renews(op[o]) /\ op[o].mode # "delete"
  BY <1>1 DEF Renews
<1>3. op[o].target \in Channels /\ old \in ID
  BY <1>1, UpdateOf, RowIDsOf
<1>4. op' = [op EXCEPT ![o].pc = next, ![o].new = Append(@, old), ![o].target = op[o].target]
  <2>1. [op[o] EXCEPT !.pc = next, !.new = Append(@, old), !.target = op[o].target]
           = [op[o] EXCEPT !.pc = next, !.new = Append(@, old)]
    BY <1>1 DEF Update
  <2>2. op' = [op EXCEPT ![o] = [op[o] EXCEPT !.pc = next, !.new = Append(@, old)]]
    BY <1>1 DEF TypeOK
  <2>3. [op EXCEPT ![o].pc = next, ![o].new = Append(@, old), ![o].target = op[o].target]
           = [op EXCEPT ![o] = [op[o] EXCEPT !.pc = next, !.new = Append(@, old), !.target = op[o].target]]
    BY <1>1 DEF TypeOK
  <2> QED BY <2>1, <2>2, <2>3
<1>5. PICK j : /\ Placed(o, j, next, old, op[o].target) /\ Goes(o, j)
               /\ OpIDs(j) = OpIDs(op[o]) \cup {old} /\ OpIDs(j) \subseteq Known'
               /\ OpIDs(op[o]) = RowIDs(op[o].existing) \cup Range(op[o].new)
               /\ Range(j.new) = Range(op[o].new) \cup {old}
               /\ (Renews(j) <=> Renews(op[o]))
  BY <1>1, <1>2, <1>3, <1>4, PlacedGoes
<1>6. Become(live, markers, {})
  BY DEF LeavesNone, Leaves
<1>7. UpdateFits(op[o], live', Near', lost') /\ OpIDs(op[o]) = OpIDs(j)
  BY <1>1, <1>5, <1>6, StillFits DEF JobFits
<1>8. UpdateInOrder(j) /\ Dealt(j) \subseteq Dealt(op[o]) \cup {old}
  BY <1>3, <1>5, PlacedInOrder
<1>9. UpdateFits(j, live', Near', lost')
  <2>1. /\ j.pc # "read" /\ j.pc # "stale" /\ ~ Renews(j) /\ j.mode # "delete"
        /\ j.existing = op[o].existing /\ j.target = op[o].target
    BY <1>1, <1>2, <1>5 DEF Placed
  <2>2. InChannel(OpIDs(j), j.target, live', Near', lost')
    BY <1>1, <1>7, <2>1 DEF UpdateFits
  <2>3. OneMarker(RowIDs(j.existing), j.existing.latest, Near', lost')
    BY <1>1, <1>7, <2>1 DEF UpdateFits
  <2>4. OneMarker(Range(j.new), j.existing.latest, Near', lost')
    <3>1. OneMarker(Range(op[o].new), j.existing.latest, Near', lost')
      BY <1>1, <1>2, <1>7, <2>1 DEF UpdateFits
    <3> QED BY <1>1, <1>5, <2>1, <2>3, <3>1 DEF OneMarker
  <2>5. \A k \in live' : k[1] \in Dealt(j) => k[1] \in Range(j.new) \cup lost'
    <3>1. \A k \in live' : k[1] \in Dealt(op[o]) => k[1] \in Range(op[o].new) \cup lost'
      BY <1>1, <1>7 DEF UpdateFits
    <3> QED BY <1>5, <1>8, <3>1
  <2> QED BY <1>8, <2>1, <2>2, <2>3, <2>4, <2>5 DEF UpdateFits
<1>10. JobFits(j, live', Near', lost') /\ j \in Update
  BY <1>5, <1>9, JobOf DEF JobFits, Placed
<1> QED BY <1>1, <1>5, <1>6, <1>10, GoesOn

\* A message to edit is not there: the record is stale.
LEMMA StaleKeeps ==
    ASSUME IInv, NEW o \in Operations, NEW old, NEW next, Place(o, old, next), op[o].mode = "edit", old # None,
           UNCHANGED <<world, row, bounds>>, ~ Has(old, op[o].target), EditMissing(o)
    PROVE  IInv'
<1>1. /\ op[o].pc \in {"works", "top", "latest"}
      /\ op[o] \in Update /\ old \in RowIDs(op[o].existing)
      /\ live \subseteq ID \X Channels /\ markers \subseteq ID \X Channels \X Position
  BY PlaceOf, UpdateRuns
<1>2. Fine /\ Goto(o, "stale") /\ Become(live, markers, {}) /\ row' = row /\ UNCHANGED <<world, bounds>>
  BY DEF EditMissing, LeavesNone, Leaves
<1>3. PICK j : Turn(o, j, "stale") /\ Goes(o, j) /\ OpIDs(j) = OpIDs(op[o]) /\ OpIDs(j) \subseteq Known'
               /\ (Renews(j) <=> Renews(op[o]))
  BY <1>1, <1>2, TurnGoes
<1>4. UpdateFits(op[o], live', Near', lost') /\ \A k \in live' : k \in live
  BY <1>1, <1>2, <1>3, StillFits DEF JobFits
<1>5. UpdateFits(j, live', Near', lost')
  <2>1. UpdateInOrder(j) /\ Dealt(j) = {}
    BY <1>3 DEF Turn, UpdateInOrder, Dealt
  <2>2. /\ j.pc = "stale" /\ <<old, j.target>> \notin live'
        /\ j.existing = op[o].existing /\ j.target = op[o].target /\ j.mode = op[o].mode /\ j.new = op[o].new
    BY <1>3, <1>4 DEF Turn, Has
  <2>3. Renews(j) => \A k \in Near' : k[1] \in Range(j.new) => k[1] \in lost'
    BY <1>1, <1>3, <1>4, <2>2 DEF UpdateFits
  <2>4. op[o].pc # "read" /\ op[o].pc # "marker"
    BY <1>1
  <2> QED BY <1>1, <1>3, <1>4, <2>1, <2>2, <2>3, <2>4 DEF UpdateFits
<1>6. JobFits(j, live', Near', lost') /\ j \in Update
  BY <1>3, <1>5, JobOf DEF JobFits, Turn
<1> QED BY <1>1, <1>2, <1>3, <1>6, GoesOn

\* A new ID is one that nothing has.
LEMMA FreshIsNew ==
    ASSUME Unused # {}
    PROVE  Fresh \in ID /\ Fresh \notin Messages /\ Fresh \notin Known
<1>1. Unused \subseteq Nat
  BY BoundAssumption DEF Unused, ID
<1>2. PICK m \in Unused : \A k \in Unused : ~ (<<k, m>> \in OpToRel(<, Nat))
  BY <1>1, WFMin, NatLessThanWellFounded, Zenon
<1>3. \A k \in Unused : m <= k
  <2>1. \A k \in Unused : ~ (k < m)
    BY <1>1, <1>2 DEF OpToRel
  <2>2. \A k \in Unused : k \in Nat
    BY <1>1
  <2> QED BY <2>1, <2>2
<1>4. Fresh \in Unused
  BY <1>2, <1>3 DEF Fresh, Min
<1> QED BY <1>4 DEF Unused

\* The update takes up the ID of a new message in channel c.
Takes(o, next, id, c) == op' = [op EXCEPT ![o].pc = next, ![o].new = Append(@, id), ![o].target = c]

\* A message is sent in channel c: the old one there is gone, or left behind, and so is
\* everything in another channel that the update turns away from.
SentIn(o, old, next, c, before, ids) ==
    /\ Place(o, old, next) /\ (op[o].mode = "delete" \/ old = None)
    /\ UNCHANGED <<world, row, bounds>> /\ (Fine \/ Mishap)
    /\ c \in Channels /\ before \subseteq live /\ ids \subseteq ID /\ Unused # {}
    /\ Takes(o, next, Fresh, c) /\ Become(before \cup {<<Fresh, c>>}, markers, ids)
    /\ \A k \in before : old # None /\ k[1] = old /\ k[2] = op[o].target => k[1] \in ids
    /\ c # op[o].target => \A k \in before \cup markers : k[2] = op[o].target => k[1] \in ids

\* Such a message is among the new ones of the update, and nobody else knows it.
LEMMA SendKeeps ==
    ASSUME IInv, NEW o \in Operations, NEW old, NEW next, NEW c, NEW before, NEW ids,
           SentIn(o, old, next, c, before, ids)
    PROVE  IInv'
<1> USE DEF SentIn
<1>1. /\ op[o].pc \in {"works", "top", "latest"} /\ next \in {"works", "excess", "latest", "end", "save"}
      /\ op[o] \in Update /\ old \in RowIDs(op[o].existing) \cup {None} /\ TypeOK
      /\ live \subseteq ID \X Channels /\ markers \subseteq ID \X Channels \X Position
  BY PlaceOf, UpdateRuns
<1>2. /\ Fresh \in ID /\ Fresh \notin Known /\ \A k \in live \cup markers : k[1] # Fresh
  BY FreshIsNew DEF Messages
<1>3. PICK j : /\ Placed(o, j, next, Fresh, c) /\ Goes(o, j)
               /\ OpIDs(j) = OpIDs(op[o]) \cup {Fresh} /\ OpIDs(j) \subseteq Known'
               /\ OpIDs(op[o]) = RowIDs(op[o].existing) \cup Range(op[o].new)
               /\ Range(j.new) = Range(op[o].new) \cup {Fresh}
               /\ (Renews(j) <=> Renews(op[o]))
  BY <1>2, PlacedGoes DEF Takes
<1>4. PICK l : l \subseteq ID \X Channels /\ Become(l, markers, ids) /\ l = before \cup {<<Fresh, c>>}
  BY <1>1, <1>2
<1>5. OpIDs(op[o]) \subseteq Known /\ OpIDs(op[o]) \subseteq Known' /\ Fresh \notin OpIDs(op[o])
  BY <1>2, <1>3, KnownNow
<1>6. /\ UpdateFits(op[o], live' \cap live, Near' \cap Near, lost')
      /\ \A k \in live' : k \in l
      /\ \A k \in Near' : k \in Near
      /\ \A id \in ids : id \in Known' => id \in lost'
  <2>1. /\ JobFits(op[o], live' \cap live, Near' \cap Near, lost')
        /\ \A k \in live' : k \in l
        /\ \A k \in Near' : k \in markers /\ k[3] = "next"
        /\ \A id \in lost \cup ids : id \in Known' => id \in lost'
    <3>1. Become(l, markers, ids) /\ OpIDs(op[o]) \subseteq Known'
      BY <1>4, <1>5
    <3>2. o \in Operations /\ IInv
      OBVIOUS
    <3> QED BY ONLY <3>1, <3>2, OldFits
  <2> QED BY <1>1, <2>1, NearIs DEF JobFits
<1>7. UpdateInOrder(j) /\ Dealt(j) \subseteq Dealt(op[o]) \cup ({old} \ {None})
  <2>1. ~ (~ Renews(op[o]) /\ old # None)
    BY DEF Renews
  <2> QED BY <1>2, <1>3, <2>1, PlacedInOrder
<1>8. Dealt(op[o]) \subseteq OpIDs(op[o]) /\ Dealt(j) \subseteq OpIDs(op[o])
  BY <1>1, <1>3, <1>7, DealtKnown
<1>9. ASSUME NEW k \in live', k[1] \in OpIDs(op[o]) PROVE k \in live' \cap live /\ k \in before
  BY <1>4, <1>5, <1>6, <1>9
<1>10. /\ j.pc # "read" /\ j.pc # "stale" /\ j.pc # "marker" /\ op[o].pc # "read" /\ op[o].pc # "marker" /\ op[o].pc # "save"
       /\ j.existing = op[o].existing /\ j.target = c /\ j.mode = op[o].mode
  BY <1>1, <1>3 DEF Placed
<1>11. InChannel(OpIDs(op[o]), op[o].target, live' \cap live, Near' \cap Near, lost')
  BY <1>6, <1>10 DEF UpdateFits
<1>12. InChannel(OpIDs(j), c, live', Near', lost')
  <2>1. SUFFICES ASSUME NEW k \in live' \cup Near', k[1] \in OpIDs(j), k[2] # c PROVE k[1] \in lost'
    BY DEF InChannel
  <2>2. CASE k[1] \in OpIDs(op[o])
    <3>1. k \in (live' \cap live) \cup (Near' \cap Near) /\ k \in before \cup markers
      BY <1>6, <1>9, <2>1, <2>2, NearIs
    <3>2. k[2] = op[o].target \/ k[1] \in lost'
      BY <1>11, <2>2, <3>1 DEF InChannel
    <3>3. k[2] = op[o].target => k[1] \in ids
      BY <2>1, <3>1
    <3> QED BY <1>5, <1>6, <2>2, <3>2, <3>3
  <2>3. CASE k[1] = Fresh
    <3>1. k = <<Fresh, c>>
      BY <1>2, <1>4, <1>6, <2>1, <2>3, NearIs
    <3> QED BY <2>1, <3>1
  <2> QED BY <1>3, <2>1, <2>2, <2>3
<1>13. \A k \in Near' : k \in Near' \cap Near /\ k[1] # Fresh
  BY <1>2, <1>6, NearIs
<1>14. OneMarker(RowIDs(j.existing), j.existing.latest, Near', lost')
  <2>1. OneMarker(RowIDs(j.existing), j.existing.latest, Near' \cap Near, lost')
    BY <1>6, <1>10 DEF UpdateFits
  <2> QED BY <1>13, <2>1 DEF OneMarker
<1>15. Renews(j) => \A k \in Near' : k[1] \in Range(j.new) => k[1] \in lost'
  BY <1>3, <1>6, <1>10, <1>13 DEF UpdateFits
<1>16. ~ Renews(j) => OneMarker(Range(j.new), j.existing.latest, Near', lost')
  BY <1>3, <1>6, <1>10, <1>13 DEF UpdateFits, OneMarker
<1>17. j.mode = "delete" => \A k \in Near' : k[1] \in RowIDs(j.existing) => k[1] \in lost'
  BY <1>6, <1>10, <1>13 DEF UpdateFits
<1>18. \A k \in live' : k[1] \in Dealt(j) => k[1] \in Range(j.new) \cup lost'
  <2>1. SUFFICES ASSUME NEW k \in live', k[1] \in Dealt(j) PROVE k[1] \in Range(j.new) \cup lost'
    OBVIOUS
  <2>2. k \in live' \cap live /\ k \in before
    BY <1>8, <1>9, <2>1
  <2>3. CASE k[1] \in Dealt(op[o])
    BY <1>3, <1>6, <1>10, <2>2, <2>3 DEF UpdateFits
  <2>4. CASE k[1] = old /\ old # None
    <3>1. k[2] = op[o].target \/ k[1] \in lost'
      BY <1>8, <1>11, <2>1, <2>2 DEF InChannel
    <3>2. k[2] = op[o].target => k[1] \in ids
      BY <2>2, <2>4
    <3> QED BY <1>5, <1>6, <1>8, <2>1, <3>1, <3>2
  <2> QED BY <1>7, <2>1, <2>3, <2>4
<1>19. UpdateFits(j, live', Near', lost')
  BY <1>7, <1>10, <1>12, <1>14, <1>15, <1>16, <1>17, <1>18 DEF UpdateFits
<1>20. JobFits(j, live', Near', lost') /\ j \in Update
  BY <1>3, <1>19, JobOf DEF JobFits, Placed
<1>21. \A k \in l : k \in live \/ (k[1] \notin Known /\ k[1] \in OpIDs(j))
  BY <1>2, <1>3, <1>4
<1> QED BY <1>1, <1>3, <1>4, <1>20, <1>21, GoesOn

\* A message is edited or sent, or the update ends.
LEMMA SendOrEditKeeps ==
    ASSUME IInv, NEW o \in Operations, NEW old, NEW next, Place(o, old, next), SendOrEdit(o, old, next)
    PROVE  IInv'
<1>1. /\ op[o].pc \in {"works", "top", "latest"} /\ op[o] \in Update /\ op[o] # Off /\ TypeOK
      /\ live \subseteq ID \X Channels /\ markers \subseteq ID \X Channels \X Position
      /\ old \in RowIDs(op[o].existing) \cup {None}
      /\ op[o].target \in Channels /\ op[o].fallback \in Channels
  BY PlaceOf, UpdateRuns, UpdateOf
<1>2. ASSUME Fine \/ Mishap, UNCHANGED <<world, row, bounds>> PROVE Calm(o) /\ row' = row
  BY <1>1, <1>2, CalmStep
<1>3. CASE EditMessage(o, old, next)
  <2>1. op[o].mode = "edit" /\ old # None /\ UNCHANGED <<world, row, bounds>>
    BY <1>3 DEF EditMessage
  <2>2. CASE Fine /\ LeavesNone /\ op' = [op EXCEPT ![o].pc = next, ![o].new = Append(@, old)]
    BY <2>1, <2>2, EditKeeps
  <2>3. CASE ~ Has(old, op[o].target) /\ EditMissing(o)
    BY <2>1, <2>3, StaleKeeps
  <2>4. CASE EditFails(o)
    <3>1. Mishap /\ Finish(o) /\ Become(live, markers, Orphans)
      BY <2>4 DEF EditFails, Leaves
    <3> QED BY <1>2, <2>1, <3>1, EndsInError
  <2> QED BY <1>3, <2>2, <2>3, <2>4 DEF EditMessage
<1>4. CASE SendMessage(o, old, next)
  <2> DEFINE target == op[o].target
             fallback == op[o].fallback
             rest == Without(live, {old}, target)
             turned == {m[1] : m \in {k \in live \cup markers : k[2] = target}}
  <2>1. /\ op[o].mode = "delete" \/ old = None
        /\ UNCHANGED <<world, row, bounds>>
    BY <1>4 DEF SendMessage
  <2>2. /\ rest \subseteq live /\ \A k \in rest : ~ (k[1] = old /\ k[2] = target)
        /\ turned \subseteq ID /\ \A k \in live \cup markers : k[2] = target => k[1] \in turned
    BY <1>1 DEF Without
  <2> DEFINE Sent(c, before, ids) ==
               /\ Unused # {}
               /\ Takes(o, next, Fresh, c)
               /\ Become(before \cup {<<Fresh, c>>}, markers, ids)
  <2>3. ASSUME NEW c \in Channels, NEW before \in SUBSET live, NEW ids \in SUBSET ID, Fine \/ Mishap, Sent(c, before, ids),
               \A k \in before : old # None /\ k[1] = old /\ k[2] = target => k[1] \in ids,
               c # target => \A k \in before \cup markers : k[2] = target => k[1] \in ids
        PROVE  IInv'
    <3>1. Place(o, old, next) /\ c \in Channels
      OBVIOUS
    <3>2. before \subseteq live /\ ids \subseteq ID /\ Unused # {}
      BY <2>3
    <3>3. (Fine \/ Mishap) /\ Takes(o, next, Fresh, c) /\ Become(before \cup {<<Fresh, c>>}, markers, ids)
      BY <2>3
    <3>4. /\ \A k \in before : old # None /\ k[1] = old /\ k[2] = op[o].target => k[1] \in ids
          /\ c # op[o].target => \A k \in before \cup markers : k[2] = op[o].target => k[1] \in ids
      BY <2>3
    <3>5. SentIn(o, old, next, c, before, ids)
      BY ONLY <2>1, <3>1, <3>2, <3>3, <3>4 DEF SentIn
    <3>6. IInv /\ o \in Operations
      OBVIOUS
    <3> QED BY ONLY <3>5, <3>6, SendKeeps
  <2> HIDE DEF rest, turned, Sent
  <2>4. CASE Fine /\ Sent(target, rest, {})
    <3>1. target \in Channels /\ rest \in SUBSET live /\ {} \in SUBSET ID
      BY <1>1, <2>2
    <3> QED BY <2>2, <2>3, <2>4, <3>1
  <2>5. CASE Mishap /\ old # None /\ Sent(target, live, {old})
    <3>1. old \in ID /\ target \in Channels
      BY <1>1, <2>5, UpdateOf, RowIDsOf
    <3> QED BY <2>3, <2>5, <3>1
  <2>6. CASE (Fine \/ Mishap) /\ target # fallback /\ Sent(fallback, rest, turned)
    <3>1. \A k \in rest \cup markers : k[2] = target => k[1] \in turned
      BY <2>2
    <3>2. fallback \in Channels /\ rest \in SUBSET live /\ turned \in SUBSET ID
      BY <1>1, <2>2
    <3>3. \A k \in rest : old # None /\ k[1] = old /\ k[2] = target => k[1] \in turned
      BY <2>2
    <3> HIDE DEF fallback, target
    <3> QED BY <2>3, <2>6, <3>1, <3>2, <3>3
  <2>7. CASE (Fine \/ Mishap) /\ Finish(o) /\ Become(rest, markers, Orphans)
    <3>1. Calm(o) /\ row' = row /\ rest \subseteq live /\ markers \subseteq markers
      BY <1>2, <2>1, <2>2, <2>7
    <3> QED BY <2>7, <3>1, EndsInError
  <2>8. \/ Fine /\ Sent(target, rest, {})
        \/ Mishap /\ old # None /\ Sent(target, live, {old})
        \/ (Fine \/ Mishap) /\ target # fallback /\ Sent(fallback, rest, turned)
        \/ (Fine \/ Mishap) /\ Finish(o) /\ Become(rest, markers, Orphans)
    BY <1>4 DEF SendMessage, rest, turned, Sent, Takes
  <2> QED BY <2>4, <2>5, <2>6, <2>7, <2>8
<1> QED BY <1>3, <1>4 DEF SendOrEdit

\* The messages with works.
LEMMA SendWorksKeeps ==
    ASSUME IInv, NEW o \in Operations, SendWorks(o)
    PROVE  IInv'
<1> DEFINE i == Len(op[o].new) + 1
           old == Old(o, i)
           next == IF i = op[o].count THEN "excess" ELSE "works"
<1>1. Place(o, old, next) /\ SendOrEdit(o, old, next)
  BY DEF SendWorks, Place
<1> HIDE DEF old, next
<1> QED BY <1>1, SendOrEditKeeps

\* The message with the top works.
LEMMA SendTopKeeps ==
    ASSUME IInv, NEW o \in Operations, SendTop(o)
    PROVE  IInv'
<1>1. Place(o, op[o].existing.top, "latest") /\ SendOrEdit(o, op[o].existing.top, "latest")
  BY DEF SendTop, Place
<1> QED BY <1>1, SendOrEditKeeps

\* The message with the latest works.
LEMMA SendLatestKeeps ==
    ASSUME IInv, NEW o \in Operations, SendLatest(o)
    PROVE  IInv'
<1> DEFINE next == IF op[o].existing = NoRow \/ op[o].mode = "delete" THEN "end" ELSE "save"
<1>1. Place(o, op[o].existing.latest, next) /\ SendOrEdit(o, op[o].existing.latest, next)
  BY DEF SendLatest, Place
<1> HIDE DEF next
<1> QED BY <1>1, SendOrEditKeeps

\* The messages that there are no works for any more are deleted, or left behind.
LEMMA DeleteExcessKeeps ==
    ASSUME IInv, NEW o \in Operations, DeleteExcess(o)
    PROVE  IInv'
<1> DEFINE old == op[o].existing
           n == op[o].count
<1>1. /\ op[o].pc = "excess" /\ op[o] \in Update /\ TypeOK
      /\ live \subseteq ID \X Channels /\ markers \subseteq ID \X Channels \X Position
      /\ UpdateFits(op[o], live, Near, lost)
  BY UpdateRuns DEF DeleteExcess
<1>2. /\ Len(op[o].new) = n /\ n \in Nat /\ DOMAIN old.works = 1..Len(old.works) /\ Len(old.works) \in Nat
      /\ Range(old.works) \subseteq RowIDs(old) /\ RowIDs(old) \subseteq ID
  <2>1. Len(op[o].new) = n
    BY <1>1 DEF UpdateFits, UpdateInOrder
  <2>2. old \in Row \cup {NoRow} /\ n \in 1..MaxWorks /\ MaxWorks \in Nat
    BY <1>1, UpdateOf
  <2> QED BY <2>1, <2>2, RowIDsOf
<1>3. PICK j : Turn(o, j, "top") /\ Goes(o, j) /\ OpIDs(j) = OpIDs(op[o]) /\ OpIDs(j) \subseteq Known'
               /\ (Renews(j) <=> Renews(op[o]))
  BY <1>1, TurnGoes DEF DeleteExcess
<1>4. Range(old.works) \subseteq OpIDs(op[o]) /\ Range(old.works) \subseteq Known'
  BY <1>1, <1>2, <1>3, OpIDsOf
<1>5. Excess(o) \subseteq Range(old.works) /\ \A id \in Range(old.works) : id \in Dealt(op[o]) \cup Excess(o)
  <2>1. Dealt(op[o]) = {old.works[i] : i \in {k \in DOMAIN old.works : k <= n}}
    BY <1>1, <1>2 DEF Dealt
  <2>2. Excess(o) = {old.works[i] : i \in n + 1 .. Len(old.works)}
    BY DEF Excess
  <2>3. Range(old.works) = {old.works[i] : i \in DOMAIN old.works}
    BY DEF Range
  <2>4. \A i : i \in n + 1 .. Len(old.works) => i \in DOMAIN old.works
    BY <1>2
  <2>5. \A i \in DOMAIN old.works : i <= n \/ i \in n + 1 .. Len(old.works)
    BY <1>2
  <2> HIDE DEF old, n
  <2> QED BY <2>1, <2>2, <2>3, <2>4, <2>5
<1>6. PICK l, ids : /\ Become(l, markers, ids) /\ l \subseteq live /\ ids \subseteq ID
                    /\ \A k \in l : k[1] \in Excess(o) /\ k[2] = op[o].target => k[1] \in ids
  <2>1. Excess(o) \subseteq ID
    BY <1>2, <1>5
  <2>2. \/ Become(Without(live, Excess(o), op[o].target), markers, {})
        \/ Become(live, markers, Excess(o))
    BY DEF DeleteExcess, Leaves
  <2>3. /\ Without(live, Excess(o), op[o].target) \subseteq live
        /\ \A k \in Without(live, Excess(o), op[o].target) : ~ (k[1] \in Excess(o) /\ k[2] = op[o].target)
    BY DEF Without
  <2> QED BY <2>1, <2>2, <2>3
<1>7. /\ UpdateFits(op[o], live', Near', lost')
      /\ \A k \in live' : k \in l
      /\ \A id \in ids : id \in Known' => id \in lost'
  BY <1>1, <1>3, <1>6, StillFits DEF JobFits
<1>8. \A k \in live' : k[1] \in Range(old.works) => k[1] \in Range(op[o].new) \cup lost'
  <2>1. SUFFICES ASSUME NEW k \in live', k[1] \in Range(old.works) PROVE k[1] \in Range(op[o].new) \cup lost'
    OBVIOUS
  <2>2. CASE k[1] \in Dealt(op[o])
    BY <1>1, <1>7, <2>2 DEF UpdateFits
  <2>3. CASE k[1] \in Excess(o)
    <3>1. InChannel(OpIDs(op[o]), op[o].target, live', Near', lost')
      BY <1>1, <1>7 DEF UpdateFits
    <3>2. k[2] = op[o].target \/ k[1] \in lost'
      BY <1>4, <2>1, <3>1 DEF InChannel
    <3> QED BY <1>4, <1>6, <1>7, <2>1, <2>3, <3>2
  <2> QED BY <1>5, <2>1, <2>2, <2>3
<1>9. UpdateFits(j, live', Near', lost')
  <2>1. /\ j.pc = "top" /\ j.existing = old /\ j.new = op[o].new /\ j.count = n
        /\ j.target = op[o].target /\ j.mode = op[o].mode
    BY <1>3 DEF Turn
  <2>2. UpdateInOrder(j)
    BY <1>2, <2>1 DEF UpdateInOrder
  <2>3. Dealt(j) = Range(old.works)
    BY <2>1 DEF Dealt
  <2>4. Renews(j) => \A k \in Near' : k[1] \in Range(j.new) => k[1] \in lost'
    BY <1>1, <1>3, <1>7, <2>1 DEF UpdateFits
  <2> QED BY <1>1, <1>3, <1>7, <1>8, <2>1, <2>2, <2>3, <2>4 DEF UpdateFits
<1>10. JobFits(j, live', Near', lost') /\ j \in Update
  BY <1>3, <1>9, JobOf DEF JobFits, Turn
<1> QED
  <2>1. \A k \in l : k \in live
    BY <1>6
  <2>2. l \subseteq ID \X Channels
    BY <1>1, <1>6
  <2> QED BY <1>1, <1>3, <1>6, <1>10, <2>1, <2>2, GoesOn

\* The marker follows the latest works, which only this update knows of.
LEMMA SendMarkerKeeps ==
    ASSUME IInv, NEW o \in Operations, SendMarker(o)
    PROVE  IInv'
<1> DEFINE last == Last(op[o].new)
<1>1. /\ op[o].pc = "end" /\ op[o] \in Update /\ TypeOK
      /\ live \subseteq ID \X Channels /\ markers \subseteq ID \X Channels \X Position
      /\ UpdateFits(op[o], live, Near, lost)
  BY UpdateRuns DEF SendMarker
<1>2. /\ Len(op[o].new) = op[o].count + 2 /\ Renews(op[o])
      /\ last = op[o].new[op[o].count + 2] /\ last \in Range(op[o].new) /\ last \in ID
      /\ op[o].target \in Channels /\ op[o].count \in Nat
  <2>1. Len(op[o].new) = op[o].count + 2 /\ Renews(op[o])
    BY <1>1 DEF UpdateFits, UpdateInOrder
  <2>2. /\ op[o].new \in Seq(ID) /\ op[o].count \in Nat /\ op[o].target \in Channels /\ Range(op[o].new) \subseteq ID
    BY <1>1, UpdateOf
  <2>3. last = op[o].new[op[o].count + 2]
    BY <2>1 DEF Last
  <2>4. op[o].count + 2 \in DOMAIN op[o].new
    BY <2>1, <2>2, LenProperties
  <2>5. last \in Range(op[o].new)
    BY <2>3, <2>4 DEF Range
  <2> QED BY <2>1, <2>2, <2>3, <2>5
<1> HIDE DEF last
<1>3. PICK j : Turn(o, j, "save") /\ Goes(o, j) /\ OpIDs(j) = OpIDs(op[o]) /\ OpIDs(j) \subseteq Known'
               /\ (Renews(j) <=> Renews(op[o]))
  BY <1>1, TurnGoes DEF SendMarker
<1>4. /\ last \in OpIDs(j) /\ last \notin RowIDs(row) /\ last \notin RowIDs(op[o].existing)
      /\ \A p \in Operations \ {o} : last \notin OpIDs(op[p])
  <2>1. last \in OpIDs(j)
    BY <1>1, <1>2, <1>3, OpIDsOf
  <2>2. Private(o) /\ op[o].pc # "read"
    BY <1>1 DEF IInv
  <2> QED BY <1>1, <1>2, <2>1, <2>2 DEF Private
<1>5. PICK m : /\ Become(live, m, {})
               /\ \A k \in m : k \in markers \/ \E place \in Position : k = <<last, op[o].target, place>>
  <2>1. \/ \E place \in Position : Become(live, markers \cup {<<last, op[o].target, place>>}, {})
        \/ Become(live, markers, {})
    BY DEF SendMarker, LeavesNone, Leaves, last
  <2> QED BY <2>1
<1>6. /\ UpdateFits(op[o], live' \cap live, Near' \cap Near, lost')
      /\ \A k \in live' : k \in live
      /\ \A k \in Near' : k \in m /\ k[3] = "next"
  <2>1. /\ JobFits(op[o], live' \cap live, Near' \cap Near, lost')
        /\ \A k \in live' : k \in live
        /\ \A k \in Near' : k \in m /\ k[3] = "next"
    BY <1>3, <1>5, OldFits
  <2> QED BY <1>1, <2>1 DEF JobFits
<1>7. \A k \in live' \cup Near' : k \in (live' \cap live) \cup (Near' \cap Near) \/ k = <<last, op[o].target, "next">>
  BY <1>5, <1>6, NearIs
<1>8. \A k \in Near' : k \in Near' \cap Near \/ k[1] = last
  BY <1>5, <1>6, NearIs
<1>9. UpdateFits(j, live', Near', lost')
  <2>1. /\ j.pc = "save" /\ j.existing = op[o].existing /\ j.new = op[o].new /\ j.count = op[o].count
        /\ j.target = op[o].target /\ j.mode = op[o].mode
    BY <1>3 DEF Turn
  <2>2. UpdateInOrder(j)
    BY <1>2, <1>3, <2>1 DEF UpdateInOrder
  <2>3. Dealt(j) = RowIDs(op[o].existing) /\ Dealt(op[o]) = RowIDs(op[o].existing)
    BY <1>1, <2>1 DEF Dealt
  <2>4. InChannel(OpIDs(j), j.target, live', Near', lost')
    <3>1. InChannel(OpIDs(op[o]), op[o].target, live' \cap live, Near' \cap Near, lost')
      BY <1>1, <1>6 DEF UpdateFits
    <3> QED BY <1>3, <1>7, <2>1, <3>1 DEF InChannel
  <2>5. OneMarker(RowIDs(j.existing), j.existing.latest, Near', lost')
    <3>1. OneMarker(RowIDs(op[o].existing), op[o].existing.latest, Near' \cap Near, lost')
      BY <1>1, <1>6 DEF UpdateFits
    <3> QED BY <1>4, <1>8, <2>1, <3>1 DEF OneMarker
  <2>6. \A k \in Near' : k[1] \in Range(j.new) => k[1] \in lost' \/ k[1] = j.new[j.count + 2]
    BY <1>1, <1>2, <1>6, <1>8, <2>1 DEF UpdateFits
  <2>7. j.mode = "delete" => \A k \in Near' : k[1] \in RowIDs(j.existing) => k[1] \in lost'
    BY <1>1, <1>4, <1>6, <1>8, <2>1 DEF UpdateFits
  <2>8. \A k \in live' : k[1] \in Dealt(j) => k[1] \in Range(j.new) \cup lost'
    BY <1>1, <1>6, <2>1, <2>3 DEF UpdateFits
  <2> QED BY <1>2, <1>3, <2>1, <2>2, <2>4, <2>5, <2>6, <2>7, <2>8 DEF UpdateFits
<1>10. JobFits(j, live', Near', lost') /\ j \in Update
  BY <1>3, <1>9, JobOf DEF JobFits, Turn
<1> QED
  <2>1. m \subseteq ID \X Channels \X Position
    BY <1>1, <1>2, <1>5
  <2>2. \A k \in m : \/ k \in markers
                     \/ /\ k[1] \in OpIDs(j) /\ k[1] \notin RowIDs(row)
                        /\ \A p \in Operations \ {o} : k[1] \notin OpIDs(op[p])
    BY <1>4, <1>5
  <2> QED BY <1>1, <1>3, <1>5, <1>10, <2>1, <2>2, GoesOn

\* The row that an update saves: the IDs that the update has.
LEMMA SavedRow ==
    ASSUME NEW j \in Update, Len(j.new) = j.count + 2,
           NEW r, r = [ works |-> SubSeq(j.new, 1, j.count), top |-> j.new[j.count + 1],
                        latest |-> j.new[j.count + 2], chan |-> j.target, mode |-> j.mode ]
    PROVE  /\ r \in Row /\ RowIDs(r) = Range(j.new)
           /\ r.latest = j.new[j.count + 2] /\ r.chan = j.target
<1> DEFINE k == j.count
           s == SubSeq(j.new, 1, j.count)
<1>1. /\ j.new \in Seq(ID) /\ k \in 1..MaxWorks /\ MaxWorks \in Nat /\ Range(j.new) \subseteq ID
      /\ j.target \in Channels /\ j.mode \in Mode
  BY UpdateOf
<1>2. DOMAIN j.new = 1..k + 2 /\ \A i \in 1..k + 2 : j.new[i] \in ID
  BY <1>1, LenProperties
<1>3. k \in Int /\ 1 \in Int /\ 1 <= k /\ k - 1 + 1 = k
  BY <1>1
<1>4. \A i \in 1..k : j.new[i] \in ID
  BY <1>2, <1>3
<1>5. s \in Seq(ID) /\ Len(s) = k /\ \A i \in 1..k : s[i] = j.new[i]
  <2>1. /\ s \in Seq(ID) /\ Len(s) = (IF 1 <= k THEN k - 1 + 1 ELSE 0)
        /\ \A i \in 1..k - 1 + 1 : s[i] = j.new[1 + i - 1]
    BY <1>3, <1>4, SubSeqProperties
  <2>2. \A i \in 1..k : 1 + i - 1 = i
    BY <1>1
  <2> QED BY <1>3, <2>1, <2>2
<1>6. s \in SeqOf(ID, MaxWorks)
  <2> HIDE DEF s, k
  <2>1. Len(s) <= MaxWorks
    BY <1>1, <1>5
  <2> QED BY <1>1, <1>5, <2>1, SeqOfIs
<1>7. Range(s) = {j.new[i] : i \in 1..k}
  <2>1. DOMAIN s = 1..k
    BY <1>5, LenProperties
  <2> QED BY <1>5, <2>1 DEF Range
<1>8. 1..k + 2 = (1..k) \cup {k + 1, k + 2} /\ k + 1 \in 1..k + 2 /\ k + 2 \in 1..k + 2
  <2> HIDE DEF k
  <2>1. k \in Nat
    BY <1>1
  <2> QED BY <2>1
<1>9. Range(j.new) = Range(s) \cup {j.new[k + 1], j.new[k + 2]}
  BY <1>2, <1>7, <1>8 DEF Range
<1>10. j.new[k + 1] \in ID /\ j.new[k + 2] \in ID /\ None \notin ID
  BY <1>2, <1>8 DEF ID, None
<1>11. /\ r.works = s /\ r.top = j.new[k + 1] /\ r.latest = j.new[k + 2] /\ r.chan = j.target
       /\ r = [works |-> s, top |-> j.new[k + 1], latest |-> j.new[k + 2], chan |-> j.target, mode |-> j.mode]
  OBVIOUS
<1> HIDE DEF s, k
<1>12. r \in Row
  BY <1>1, <1>6, <1>10, <1>11 DEF Row
<1>13. RowIDs(r) = Range(j.new)
  <2>1. RowIDs(r) = (Range(s) \cup {j.new[k + 1], j.new[k + 2]}) \ {None}
    BY <1>11 DEF RowIDs
  <2>2. None \notin Range(j.new)
    BY <1>1, <1>10
  <2> QED BY <1>9, <2>1, <2>2
<1> QED BY <1>11, <1>12, <1>13 DEF k

\* The row is saved, and all that the update has dealt with is in it, gone or lost.
LEMMA SaveKeeps ==
    ASSUME IInv, NEW o \in Operations, SaveNavigation(o)
    PROVE  IInv'
<1> DEFINE j == op[o]
           old == op[o].existing
<1>1. /\ op[o].pc = "save" /\ op[o] \in Update /\ op[o] # Off /\ TypeOK
      /\ live \subseteq ID \X Channels /\ markers \subseteq ID \X Channels \X Position
      /\ UpdateFits(op[o], live, Near, lost)
  BY UpdateRuns DEF SaveNavigation
<1>2. /\ Len(j.new) = j.count + 2
      /\ ~ Renews(j) => j.new[j.count + 2] = old.latest
      /\ OpIDs(op[o]) = RowIDs(old) \cup Range(j.new)
  BY <1>1, OpIDsOf DEF UpdateFits, UpdateInOrder
<1>3. op' = [op EXCEPT ![o] = Off] /\ UNCHANGED <<world, bounds>>
  BY DEF SaveNavigation, Finish
<1>4. CASE Mishap /\ UNCHANGED row /\ Leaves(Orphans)
  <2>1. Calm(o) /\ Finish(o) /\ row' = row /\ Become(live, markers, Orphans)
    BY <1>1, <1>3, <1>4, CalmStep DEF Leaves, Finish
  <2> QED BY <2>1, EndsInError
<1>5. ASSUME Fine,
             row' = [ works |-> SubSeq(j.new, 1, j.count), top |-> j.new[j.count + 1],
                      latest |-> j.new[j.count + 2], chan |-> j.target, mode |-> j.mode ],
             Leaves(IF row = old THEN {} ELSE Orphans)
      PROVE  IInv'
  <2>1. PICK r : /\ r = row' /\ r \in Row /\ RowIDs(r) = Range(j.new)
                 /\ r.latest = j.new[j.count + 2] /\ r.chan = j.target
    BY <1>1, <1>2, <1>5, SavedRow
  <2>2. PICK ids : ids = (IF row = old THEN {} ELSE Orphans) /\ Become(live, markers, ids) /\ ids \subseteq ID
    BY <1>1, <1>5, MessagesTyped DEF Leaves
  <2>3. Turned(live, Near, ids) /\ \A id \in Range(j.new) : id \in Known'
    <3>1. \A id : id \in RowIDs(row') => id \in Known'
      BY <1>1, <1>3, KnownAfter
    <3>2. RowIDs(row') = Range(j.new)
      BY <2>1
    <3> QED BY <2>2, <3>1, <3>2, BecomeTurns, NearIs
  <2>4. /\ \A k \in live' : k \in live
        /\ \A k \in Near' : k \in Near
        /\ \A id \in lost : id \in Range(j.new) => id \in lost'
    BY <2>3 DEF Turned
  <2>5. RowFits(r, live', Near', lost')
    <3>1. InChannel(Range(j.new), j.target, live', Near', lost')
      <4>1. InChannel(OpIDs(op[o]), j.target, live, Near, lost)
        BY <1>1 DEF UpdateFits
      <4> QED BY <1>2, <2>4, <4>1 DEF InChannel
    <3>2. OneMarker(Range(j.new), j.new[j.count + 2], Near', lost')
      <4>1. CASE Renews(j)
        BY <1>1, <2>4, <4>1 DEF UpdateFits, OneMarker
      <4>2. CASE ~ Renews(j)
        <5>1. OneMarker(Range(j.new), old.latest, Near, lost)
          BY <1>1, <4>2 DEF UpdateFits
        <5> QED BY <1>2, <2>4, <4>2, <5>1 DEF OneMarker
      <4> QED BY <4>1, <4>2
    <3> QED BY <2>1, <3>1, <3>2 DEF RowFits
  <2>6. Messages' \subseteq Known'
    <3>1. CASE row # old
      <4>1. Become(live, markers, Orphans)
        BY <2>2, <3>1
      <4> QED BY <4>1, OrphansKnown
    <3>2. CASE row = old
      <4>1. ASSUME NEW k \in live \cup Near, k[1] \notin Known' PROVE k[1] \in lost
        <5>1. k[1] \in Known
          BY NearIs DEF IInv, NoMessageLeftBehind, Messages
        <5>2. k[1] \in RowIDs(row) \/ \E p \in Operations : k[1] \in OpIDs(op[p])
          BY <5>1 DEF Known
        <5>3. /\ k[1] \notin Range(j.new)
              /\ \A p \in Operations \ {o} : k[1] \notin OpIDs(op[p])
          <6>1. \A p \in Operations \ {o} : \A id \in OpIDs(op[p]) : id \in Known'
            BY <1>1, <1>3, KnownAfter
          <6> QED BY <2>3, <4>1, <6>1
        <5>4. k[1] \in RowIDs(old)
          BY <1>2, <3>2, <5>2, <5>3
        <5>5. CASE k \in live
          <6>1. Dealt(j) = RowIDs(old)
            BY <1>1 DEF Dealt
          <6> QED BY <1>1, <5>3, <5>4, <5>5, <6>1 DEF UpdateFits
        <5>6. CASE k \in Near
          <6>1. CASE op[o].mode = "delete"
            BY <1>1, <5>4, <5>6, <6>1 DEF UpdateFits
          <6>2. CASE op[o].mode # "delete" /\ old # NoRow
            <7>1. OneMarker(RowIDs(old), old.latest, Near, lost)
              BY <1>1 DEF UpdateFits
            <7>2. j.new[j.count + 2] = old.latest
              BY <1>2, <6>2 DEF Renews
            <7>3. old.latest \in Range(j.new)
              <8>1. r.latest \in RowIDs(r)
                BY <2>1, RowIDsOf
              <8> QED BY <2>1, <7>2, <8>1
            <7> QED BY <5>3, <5>4, <5>6, <7>1, <7>3 DEF OneMarker
          <6>3. CASE old = NoRow
            <7>1. RowIDs(old) = {}
              BY <1>1, <6>3, UpdateOf, RowIDsOf
            <7> QED BY <5>4, <7>1
          <6> QED BY <6>1, <6>2, <6>3
        <5> QED BY <5>5, <5>6
      <4> QED BY <2>2, <3>2, <4>1, AllKnown, NearIs
    <3> QED BY <3>1, <3>2
  <2>7. Calm(o)
    BY <1>1, <1>3, <1>5, CalmStep
  <2>8. /\ row' \in Row \cup {NoRow} /\ RowIDs(row') \subseteq RowIDs(row) \cup OpIDs(op[o])
        /\ RowFits(row', live', Near', lost')
    BY <1>2, <2>1, <2>5
  <2> QED BY <1>3, <2>2, <2>6, <2>7, <2>8, Ends
<1> QED BY <1>4, <1>5 DEF SaveNavigation

\* The record goes, and what is still there is left behind.
LEMMA DeleteStaleKeeps ==
    ASSUME IInv, NEW o \in Operations, DeleteStale(o)
    PROVE  IInv'
<1>1. /\ op[o] # Off /\ TypeOK /\ row \in Row \cup {NoRow} /\ UNCHANGED <<world, bounds>>
      /\ op' = [op EXCEPT ![o] = Off] /\ Become(live, markers, Orphans) /\ Orphans \subseteq ID
  BY UpdateRuns, MessagesTyped DEF DeleteStale, Finish, Leaves
<1>2. Calm(o)
  BY <1>1, CalmStep DEF DeleteStale
<1>3. Messages' \subseteq Known'
  BY <1>1, OrphansKnown
<1>4. /\ row' \in Row \cup {NoRow} /\ RowIDs(row') \subseteq RowIDs(row)
      /\ row' = row \/ RowFits(row', live', Near', lost')
  <2>1. CASE row' = row
    BY <1>1, <2>1
  <2>2. CASE row' = NoRow
    BY <2>2, RowIDsOf DEF RowFits
  <2> QED BY <2>1, <2>2 DEF DeleteStale
<1> QED BY <1>1, <1>2, <1>3, <1>4, Ends
-----------------------------------------------------------------------------
(* The steps of a deletion                                                 *)

\* A deletion that runs, and what it knows.
LEMMA DeleteRuns ==
    ASSUME IInv, NEW o \in Operations, op[o].pc \in {"delete", "drop"}
    PROVE  /\ op[o] \in Delete /\ op[o] # Off /\ TypeOK /\ op[o].existing \in Row
           /\ DeleteFits(op[o], live, Near, lost) /\ OpIDs(op[o]) = RowIDs(op[o].existing)
           /\ row \in Row \cup {NoRow}
           /\ live \subseteq ID \X Channels /\ markers \subseteq ID \X Channels \X Position
<1>1. TypeOK /\ JobFits(op[o], live, Near, lost) /\ op[o] \in Update \cup Delete \cup Batch \cup {Off}
  BY JobTyped DEF IInv
<1>2. op[o] \in Delete /\ op[o] # Off
  BY <1>1, JobOf
<1>3. op[o].existing \in Row
  BY <1>2 DEF Delete
<1> QED BY <1>1, <1>2, <1>3, OpIDsOf DEF JobFits, TypeOK

\* The messages and the marker go; one that cannot be deleted is lost.
LEMMA DeleteMessagesKeeps ==
    ASSUME IInv, NEW o \in Operations, DeleteMessages(o)
    PROVE  IInv'
<1> DEFINE nav == op[o].existing
           j == [op[o] EXCEPT !.pc = "drop"]
<1>1. /\ op[o] \in Delete /\ op[o] # Off /\ TypeOK /\ nav \in Row
      /\ OpIDs(op[o]) = RowIDs(nav) /\ RowIDs(nav) \subseteq ID /\ nav.latest \in RowIDs(nav)
      /\ live \subseteq ID \X Channels /\ markers \subseteq ID \X Channels \X Position
  BY DeleteRuns, RowIDsOf DEF DeleteMessages
<1>2. op' = [op EXCEPT ![o] = j]
  BY <1>1 DEF DeleteMessages, Goto, TypeOK
<1>3. j \in Delete /\ j.pc = "drop" /\ j.existing = nav
  BY <1>1 DEF Delete
<1> HIDE DEF j
<1>4. OpIDs(j) = RowIDs(nav) /\ j \notin Update
  BY <1>3, OpIDsOf, JobOf
<1>5. Calm(o) /\ row' = row
  BY <1>1, CalmStep DEF DeleteMessages
<1>6. Goes(o, j) /\ RowIDs(nav) \subseteq Known'
  <2>1. \A id : id \in OpIDs(j) => id \in Known'
    BY <1>1, <1>2, KnownAfter
  <2> QED BY <1>1, <1>2, <1>4, <1>5, <2>1 DEF Goes
<1>7. PICK l, m, ids : /\ Become(l, m, ids) /\ l \subseteq live /\ m \subseteq markers /\ ids \subseteq ID
                       /\ \A k \in l : k[1] \in RowIDs(nav) /\ k[2] = nav.chan => k[1] \in ids
                       /\ \A k \in m : k[1] = nav.latest /\ k[2] = nav.chan /\ k[3] = "next" => k[1] \in ids
  <2>1. ASSUME NEW places \in FoundAt,
               Become(Without(live, RowIDs(nav), nav.chan), markers \ EndMarker({nav.latest}, nav.chan, places), {})
        PROVE  \E l, m, ids : /\ Become(l, m, ids) /\ l \subseteq live /\ m \subseteq markers /\ ids \subseteq ID
                              /\ \A k \in l : k[1] \in RowIDs(nav) /\ k[2] = nav.chan => k[1] \in ids
                              /\ \A k \in m : k[1] = nav.latest /\ k[2] = nav.chan /\ k[3] = "next" => k[1] \in ids
    <3>1. PICK l, m : l = Without(live, RowIDs(nav), nav.chan) /\ m = markers \ EndMarker({nav.latest}, nav.chan, places)
      OBVIOUS
    <3>2. /\ l \subseteq live /\ m \subseteq markers
          /\ \A k \in l : ~ (k[1] \in RowIDs(nav) /\ k[2] = nav.chan)
      BY <3>1 DEF Without
    <3>3. \A k \in m : ~ (k[1] = nav.latest /\ k[2] = nav.chan /\ k[3] = "next")
      BY <1>1, <2>1, <3>1, EndMarkerFound
    <3>4. Become(l, m, {})
      BY <2>1, <3>1
    <3> QED BY <3>2, <3>3, <3>4
  <2>2. ASSUME NEW kept \in RowIDs(nav),
               Become(Without(live, RowIDs(nav) \ {kept}, nav.chan),
                      markers \ EndMarker({nav.latest} \ {kept}, nav.chan, {"next"}), {kept})
        PROVE  \E l, m, ids : /\ Become(l, m, ids) /\ l \subseteq live /\ m \subseteq markers /\ ids \subseteq ID
                              /\ \A k \in l : k[1] \in RowIDs(nav) /\ k[2] = nav.chan => k[1] \in ids
                              /\ \A k \in m : k[1] = nav.latest /\ k[2] = nav.chan /\ k[3] = "next" => k[1] \in ids
    <3>1. PICK l, m : /\ l = Without(live, RowIDs(nav) \ {kept}, nav.chan)
                      /\ m = markers \ EndMarker({nav.latest} \ {kept}, nav.chan, {"next"})
      OBVIOUS
    <3>2. /\ l \subseteq live /\ m \subseteq markers /\ {kept} \subseteq ID
          /\ \A k \in l : k[1] \in RowIDs(nav) /\ k[2] = nav.chan => k[1] \in {kept}
      BY <1>1, <3>1 DEF Without
    <3>3. \A k \in m : k[1] = nav.latest /\ k[2] = nav.chan /\ k[3] = "next" => k[1] \in {kept}
      <4>1. {"next"} \in FoundAt
        BY DEF FoundAt
      <4>2. \A k \in m : ~ (k[1] \in {nav.latest} \ {kept} /\ k[2] = nav.chan /\ k[3] = "next")
        BY <1>1, <3>1, <4>1, EndMarkerFound
      <4> QED BY <4>2
    <3>4. Become(l, m, {kept})
      BY <2>2, <3>1
    <3> QED BY <3>2, <3>3, <3>4
  <2> QED BY <2>1, <2>2 DEF DeleteMessages
<1>8. /\ DeleteFits(op[o], live', Near', lost')
      /\ \A k \in live' : k \in l
      /\ \A k \in Near' : k \in m /\ k[3] = "next"
      /\ \A id \in ids : id \in Known' => id \in lost'
  <2>1. OpIDs(op[o]) \subseteq Known'
    BY <1>1, <1>6
  <2> QED BY <1>1, <1>7, <2>1, StillFits DEF JobFits
<1>9. DeleteFits(j, live', Near', lost')
  <2>1. InChannel(RowIDs(nav), nav.chan, live', Near', lost') /\ OneMarker(RowIDs(nav), nav.latest, Near', lost')
    BY <1>8 DEF DeleteFits
  <2>2. \A k \in live' \cup Near' : k[1] \in RowIDs(nav) => k[1] \in lost'
    <3>1. SUFFICES ASSUME NEW k \in live' \cup Near', k[1] \in RowIDs(nav), k[1] \notin lost' PROVE FALSE
      OBVIOUS
    <3>2. k[2] = nav.chan
      BY <2>1, <3>1 DEF InChannel
    <3>3. k[1] \notin ids
      BY <1>6, <1>8, <3>1
    <3>4. CASE k \in live'
      BY <1>7, <1>8, <3>1, <3>2, <3>3, <3>4
    <3>5. CASE k \in Near'
      <4>1. k[1] = nav.latest
        BY <2>1, <3>1, <3>5 DEF OneMarker
      <4> QED BY <1>7, <1>8, <3>2, <3>3, <3>5, <4>1
    <3> QED BY <3>1, <3>4, <3>5
  <2> QED BY <1>3, <2>1, <2>2 DEF DeleteFits
<1>10. JobFits(j, live', Near', lost')
  BY <1>4, <1>9 DEF JobFits
<1> QED
  <2>1. \A k \in l : k \in live
    BY <1>7
  <2>2. \A k \in m : k \in markers
    BY <1>7
  <2>3. l \subseteq ID \X Channels /\ m \subseteq ID \X Channels \X Position
    BY <1>1, <1>7
  <2> QED BY <1>3, <1>6, <1>7, <1>10, <2>1, <2>2, <2>3, GoesOn

\* The row goes: its messages are gone or lost.
LEMMA DeleteRowKeeps ==
    ASSUME IInv, NEW o \in Operations, DeleteRow(o)
    PROVE  IInv'
<1> DEFINE nav == op[o].existing
<1>1. /\ op[o] \in Delete /\ op[o] # Off /\ TypeOK /\ nav \in Row /\ op[o].pc = "drop"
      /\ OpIDs(op[o]) = RowIDs(nav) /\ DeleteFits(op[o], live, Near, lost)
      /\ row \in Row \cup {NoRow} /\ Orphans \subseteq ID
  BY DeleteRuns, MessagesTyped DEF DeleteRow
<1>2. Calm(o) /\ op' = [op EXCEPT ![o] = Off]
  BY <1>1, CalmStep DEF DeleteRow, Finish
<1>3. /\ row' \in Row \cup {NoRow} /\ RowIDs(row') \subseteq RowIDs(row)
      /\ row' = row \/ RowFits(row', live', Near', lost')
  <2>1. CASE row' = row
    BY <1>1, <2>1
  <2>2. CASE row' = NoRow
    BY <2>2, RowIDsOf DEF RowFits
  <2> QED BY <2>1, <2>2 DEF DeleteRow
<1>4. PICK ids : /\ Become(live, markers, ids) /\ ids \subseteq ID
                 /\ ids = Orphans \/ (row' = row \/ row = nav)
  BY <1>1 DEF DeleteRow, LeavesNone, Leaves
<1>5. Messages' \subseteq Known'
  <2>1. CASE ids = Orphans
    BY <1>4, <2>1, OrphansKnown
  <2>2. CASE row' = row \/ row = nav
    <3>1. ASSUME NEW k \in live \cup Near PROVE k[1] \in Known' \/ k[1] \in lost
      <4>1. k[1] \in RowIDs(row) \/ \E p \in Operations : k[1] \in OpIDs(op[p])
        BY NearIs DEF IInv, NoMessageLeftBehind, Messages, Known
      <4>2. CASE \E p \in Operations \ {o} : k[1] \in OpIDs(op[p])
        BY <1>1, <1>2, <4>2, KnownAfter
      <4>3. CASE k[1] \in RowIDs(nav)
        BY <1>1, <4>3 DEF DeleteFits
      <4>4. CASE k[1] \in RowIDs(row)
        <5>1. CASE row' = row
          BY <1>1, <1>2, <4>4, <5>1, KnownAfter
        <5> QED BY <2>2, <4>3, <4>4, <5>1
      <4> QED BY <1>1, <4>1, <4>2, <4>3, <4>4
    <3> QED BY <1>4, <3>1, AllKnown, NearIs
  <2> QED BY <1>4, <2>1, <2>2
<1> QED BY <1>1, <1>2, <1>3, <1>4, <1>5, Ends
-----------------------------------------------------------------------------
(* Others on Discord, the scans, and the end of the process                *)

\* What others do to channels, messages and posts: messages and markers only go.
LEMMA WorldKeeps ==
    ASSUME IInv, NEW l, NEW m, Become(l, m, {}), l \subseteq live, m \subseteq markers,
           UNCHANGED <<row, op, bounds>>, mishaps' \in 0..MaxMishaps,
           channel' \in [Channels -> {"open", "idle", "gone"}], works' \in 0..MaxWorks
    PROVE  IInv'
<1>1. TypeOK /\ row' = row /\ op' = op /\ due' = due /\ commands' = commands /\ Known' = Known
  BY DEF IInv, bounds, Known
<1>2. /\ Turned(l, NearOf(m), {})
      /\ \A k \in live' : k \in live
      /\ \A k \in Near' : k \in Near
      /\ \A k \in markers' : k \in markers
      /\ \A id \in lost : id \in Known => id \in lost'
  BY <1>1, BecomeTurns, NearIs DEF Turned
<1>3. TypeOK'
  <2>1. live' \subseteq ID \X Channels /\ markers' \subseteq ID \X Channels \X Position /\ lost' \subseteq ID
    BY <1>1, <1>2 DEF TypeOK, Turned
  <2> QED BY <1>1, <2>1 DEF TypeOK
<1>4. Messages' \subseteq Known'
  <2>1. \A k \in l \cup NearOf(m) : k[1] \in Known'
    BY <1>1, NearIs DEF IInv, NoMessageLeftBehind, Messages
  <2> QED BY <2>1, AllKnown
<1>5. RowFits(row', live', Near', lost')
  <2>1. Narrowed(RowIDs(row), live, Near, lost, live', Near', lost')
    BY <1>2, KnownNow DEF Narrowed
  <2> QED BY <1>1, <2>1, RowStays DEF IInv
<1>6. ASSUME NEW o \in Operations PROVE JobFits(op'[o], live', Near', lost')
  <2>1. Narrowed(OpIDs(op[o]), live, Near, lost, live', Near', lost')
    BY <1>2, KnownNow DEF Narrowed
  <2>2. JobFits(op[o], live, Near, lost) /\ op[o] \in Update \cup Delete \cup Batch \cup {Off}
    BY <1>1, JobTyped DEF IInv
  <2> QED BY <1>1, <2>1, <2>2, JobStays
<1>7. BatchRests' /\ \A o \in Operations : Private(o)'
  BY <1>1 DEF IInv, BatchRests, Private
<1> QED BY <1>3, <1>4, <1>5, <1>6, <1>7 DEF IInv, NoMessageLeftBehind

\* A channel is archived, opened or deleted.
LEMMA ChannelKeeps ==
    ASSUME IInv, NEW c \in Channels, ChannelChanges(c)
    PROVE  IInv'
<1>1. TypeOK /\ works' = works /\ UNCHANGED <<row, op, bounds>> /\ mishaps' \in 0..MaxMishaps
  BY MishapOrFine DEF IInv, ChannelChanges
<1>2. channel' \in [Channels -> {"open", "idle", "gone"}]
  BY <1>1 DEF TypeOK, ChannelChanges
<1>3. PICK l, m : Become(l, m, {}) /\ l \subseteq live /\ m \subseteq markers
  BY DEF ChannelChanges, LeavesNone, Leaves
<1>4. works' \in 0..MaxWorks
  BY <1>1 DEF TypeOK
<1> QED BY <1>1, <1>2, <1>3, <1>4, WorldKeeps

\* Somebody deletes a message.
LEMMA MessageDeletedKeeps ==
    ASSUME IInv, NEW k \in live, MessageDeleted(k)
    PROVE  IInv'
<1>1. /\ TypeOK /\ UNCHANGED <<world, row, op, bounds>> /\ mishaps' \in 0..MaxMishaps
      /\ Become(live \ {k}, markers, {})
  BY MishapOrFine DEF IInv, MessageDeleted
<1>2. channel' \in [Channels -> {"open", "idle", "gone"}] /\ works' \in 0..MaxWorks
  BY <1>1 DEF TypeOK, world
<1>3. PICK l : l = live \ {k} /\ Become(l, markers, {})
  BY <1>1
<1>4. l \subseteq live /\ markers \subseteq markers
  BY <1>3
<1> QED BY <1>1, <1>2, <1>3, <1>4, WorldKeeps

\* Somebody, or another slot, deletes a marker.
LEMMA MarkerDeletedKeeps ==
    ASSUME IInv, NEW k \in markers, MarkerDeleted(k)
    PROVE  IInv'
<1>1. /\ TypeOK /\ UNCHANGED <<world, row, op, bounds>> /\ mishaps' \in 0..MaxMishaps
      /\ Become(live, markers \ {k}, {})
  BY MishapOrFine DEF IInv, MarkerDeleted
<1>2. channel' \in [Channels -> {"open", "idle", "gone"}] /\ works' \in 0..MaxWorks
  BY <1>1 DEF TypeOK, world
<1>3. PICK m : m = markers \ {k} /\ Become(live, m, {})
  BY <1>1
<1>4. m \subseteq markers /\ live \subseteq live
  BY <1>3
<1> QED BY <1>1, <1>2, <1>3, <1>4, WorldKeeps

\* The scans find other posts.
LEMMA WorksChangeKeeps ==
    ASSUME IInv, WorksChange
    PROVE  IInv'
<1>1. /\ TypeOK /\ UNCHANGED <<channel, live, markers, lost, row, op, bounds>> /\ mishaps' \in 0..MaxMishaps
      /\ works' \in 0..MaxWorks
  BY MishapOrFine DEF IInv, WorksChange, discord
<1>2. Known' = Known /\ \A k \in live \cup markers : k[1] \in Known
  BY <1>1 DEF Known, IInv, NoMessageLeftBehind, Messages
<1>3. TypeOK'
  BY <1>1 DEF TypeOK, bounds
<1>4. BatchRests' /\ \A o \in Operations : Private(o)'
  BY <1>1 DEF IInv, BatchRests, Private, bounds
<1>5. NoMessageLeftBehind'
  BY <1>1, <1>2 DEF IInv, NoMessageLeftBehind, Messages
<1>6. /\ RowFits(row', live', Near', lost')
      /\ \A o \in Operations : JobFits(op'[o], live', Near', lost')
  BY <1>1 DEF IInv, Near
<1> QED BY <1>3, <1>4, <1>5, <1>6 DEF IInv

\* The process ends: what only an operation knew of is left behind.
LEMMA CrashKeeps ==
    ASSUME IInv, Crash
    PROVE  IInv'
<1>1. /\ TypeOK /\ UNCHANGED <<world, row, bounds>> /\ mishaps' \in 0..MaxMishaps
      /\ op' = [o \in Operations |-> Off] /\ Become(live, markers, Orphans)
  BY MishapOrFine DEF IInv, Crash, Leaves
<1>2. Messages' \subseteq Known'
  BY <1>1, OrphansKnown
<1>3. Turned(live, Near, Orphans) /\ RowIDs(row) \subseteq Known'
  <2>1. Known' = RowIDs(row') \cup UNION {OpIDs(op'[o]) : o \in Operations}
    BY DEF Known
  <2> QED BY <1>1, <2>1, BecomeTurns, NearIs
<1>4. TypeOK'
  <2>1. live' \subseteq ID \X Channels /\ markers' \subseteq ID \X Channels \X Position /\ lost' \subseteq ID
    <3>1. \A k \in markers' : k \in markers
      BY <1>1, BecomeTurns
    <3> QED BY <1>1, <1>3, <3>1, MessagesTyped DEF TypeOK, Turned
  <2> QED BY <1>1, <2>1 DEF TypeOK, world, bounds
<1>5. RowFits(row', live', Near', lost')
  <2>1. Narrowed(RowIDs(row), live, Near, lost, live', Near', lost')
    BY <1>3 DEF Narrowed, Turned
  <2> QED BY <1>1, <2>1, RowStays DEF IInv
<1>6. Off \notin Update /\ Off \notin Delete
  BY JobOf DEF Off
<1>7. \A o \in Operations : JobFits(op'[o], live', Near', lost') /\ Private(o)'
  BY <1>1, <1>6 DEF JobFits, Private
<1>8. BatchRests'
  BY <1>1 DEF BatchRests, Operations
<1> QED BY <1>2, <1>4, <1>5, <1>7, <1>8 DEF IInv, NoMessageLeftBehind
-----------------------------------------------------------------------------
(* The invariant holds from the start and stays, whatever happens          *)

\* The row that the process finds has the messages that there are.
LEMMA FoundRow ==
    ASSUME NEW k \in 1..MaxWorks, NEW mode \in Mode, NEW c \in Channels, NEW r,
           r = [works |-> [i \in 1..k |-> i], top |-> k + 1, latest |-> k + 2, chan |-> c, mode |-> mode]
    PROVE  r \in Row /\ RowIDs(r) = 1..k + 2 /\ 1..k + 2 \subseteq ID /\ r.chan = c /\ r.latest = k + 2
<1> DEFINE s == [i \in 1..k |-> i]
<1>1. k \in Nat /\ MaxWorks \in Nat /\ MaxID \in Nat /\ k + 2 <= MaxID /\ k <= MaxWorks
  BY BoundAssumption
<1>2. 1..k + 2 \subseteq ID /\ k + 1 \in ID /\ k + 2 \in ID /\ 1..k \subseteq ID /\ None \notin ID
  BY <1>1 DEF ID, None
<1>3. s \in Seq(ID) /\ Len(s) = k /\ DOMAIN s = 1..k /\ \A i \in 1..k : s[i] = i
  <2>1. s \in [1..k -> ID]
    BY <1>2
  <2>2. s \in Seq(ID)
    BY <1>1, <2>1, SeqDef
  <2> QED BY <1>1, <2>1, <2>2, LenProperties
<1> HIDE DEF s
<1>4. s \in SeqOf(ID, MaxWorks)
  <2>1. Len(s) <= MaxWorks
    BY <1>1, <1>3
  <2> QED BY <1>1, <1>3, <2>1, SeqOfIs
<1>5. Range(s) = 1..k
  BY <1>3 DEF Range
<1>6. /\ r.works = s /\ r.top = k + 1 /\ r.latest = k + 2 /\ r.chan = c
      /\ r = [works |-> s, top |-> k + 1, latest |-> k + 2, chan |-> c, mode |-> mode]
  BY DEF s
<1>7. r \in Row
  BY <1>2, <1>4, <1>6 DEF Row
<1>8. 1..k + 2 = (1..k) \cup {k + 1, k + 2}
  BY <1>1
<1>9. RowIDs(r) = 1..k + 2
  BY <1>2, <1>5, <1>6, <1>8 DEF RowIDs
<1> QED BY <1>2, <1>6, <1>7, <1>9

\* What the process finds fits.
LEMMA InitIInv ==
    ASSUME Init
    PROVE  IInv
<1> DEFINE first == CHOOSE c \in Channels : TRUE
<1>1. first \in Channels
  BY ChannelAssumption
<1> HIDE DEF first
<1>2. /\ channel = [c \in Channels |-> "open"] /\ works \in 1..MaxWorks /\ op = [o \in Operations |-> Off]
      /\ due = TRUE /\ commands = 0 /\ mishaps = 0 /\ lost = {}
      /\ \/ row = NoRow /\ live = {} /\ markers = {}
         \/ \E k \in 1..MaxWorks, mode \in Mode :
               /\ row = [ works |-> [i \in 1..k |-> i], top |-> k + 1, latest |-> k + 2,
                          chan |-> first, mode |-> mode ]
               /\ live = (1..k + 2) \X {first}
               /\ markers = {<<k + 2, first, "next">>}
  BY DEF Init, first
<1>3. \/ row = NoRow /\ live = {} /\ markers = {}
      \/ \E ids \in SUBSET ID, c \in Channels :
            /\ row \in Row /\ RowIDs(row) = ids /\ row.latest \in ids /\ row.chan = c
            /\ live = ids \X {c} /\ markers = {<<row.latest, c, "next">>}
  <2>1. SUFFICES ASSUME NEW k \in 1..MaxWorks, NEW mode \in Mode,
                        row = [ works |-> [i \in 1..k |-> i], top |-> k + 1, latest |-> k + 2,
                                chan |-> first, mode |-> mode ],
                        live = (1..k + 2) \X {first},
                        markers = {<<k + 2, first, "next">>}
                 PROVE  \E ids \in SUBSET ID, c \in Channels :
                           /\ row \in Row /\ RowIDs(row) = ids /\ row.latest \in ids /\ row.chan = c
                           /\ live = ids \X {c} /\ markers = {<<row.latest, c, "next">>}
    BY <1>2
  <2>2. PICK r : r = row
    OBVIOUS
  <2>3. r \in Row /\ RowIDs(r) = 1..k + 2 /\ 1..k + 2 \subseteq ID /\ r.chan = first /\ r.latest = k + 2
    BY <1>1, <2>1, <2>2, FoundRow
  <2>4. row.latest \in 1..k + 2
    <3>1. k \in Nat /\ k + 2 \in 1..k + 2
      BY BoundAssumption
    <3> QED BY <2>2, <2>3, <3>1
  <2>5. PICK ids : ids = 1..k + 2
    OBVIOUS
  <2>6. ids \in SUBSET ID /\ row \in Row /\ RowIDs(row) = ids /\ row.latest \in ids /\ row.chan = first
    BY <2>2, <2>3, <2>4, <2>5
  <2>7. live = ids \X {first} /\ markers = {<<row.latest, first, "next">>}
    BY <2>1, <2>2, <2>3, <2>5
  <2> QED BY <1>1, <2>6, <2>7
<1>4. /\ row \in Row \cup {NoRow} /\ live \subseteq ID \X Channels /\ markers \subseteq ID \X Channels \X Position
      /\ Messages \subseteq RowIDs(row)
      /\ RowFits(row, live, Near, lost)
  <2>1. CASE row = NoRow /\ live = {} /\ markers = {}
    BY <2>1 DEF Messages, RowFits
  <2>2. ASSUME NEW ids \in SUBSET ID, NEW c \in Channels,
               row \in Row /\ RowIDs(row) = ids /\ row.latest \in ids /\ row.chan = c,
               live = ids \X {c} /\ markers = {<<row.latest, c, "next">>}
        PROVE  /\ row \in Row /\ live \subseteq ID \X Channels /\ markers \subseteq ID \X Channels \X Position
               /\ Messages \subseteq RowIDs(row)
               /\ RowFits(row, live, Near, lost)
    BY <2>2 DEF Messages, RowFits, InChannel, OneMarker, Near, NearOf, Position
  <2> QED BY <1>3, <2>1, <2>2
<1>5. TypeOK
  <2>1. MaxWorks \in Nat /\ MaxCommands \in Nat /\ MaxMishaps \in Nat
    BY BoundAssumption
  <2>2. works \in 0..MaxWorks /\ commands \in 0..MaxCommands /\ mishaps \in 0..MaxMishaps
    BY <1>2, <2>1
  <2> QED BY <1>2, <1>4, <2>2 DEF TypeOK
<1>6. NoMessageLeftBehind
  BY <1>4 DEF NoMessageLeftBehind, Known
<1>7. Off \notin Update /\ Off \notin Delete
  BY JobOf DEF Off
<1>8. \A o \in Operations : JobFits(op[o], live, Near, lost) /\ Private(o)
  BY <1>2, <1>7 DEF JobFits, Private
<1>9. BatchRests
  BY <1>2 DEF BatchRests, Operations
<1> QED BY <1>4, <1>5, <1>6, <1>8, <1>9 DEF IInv

\* An operation takes a step.
LEMMA StepIInv ==
    ASSUME IInv, NEW o \in Operations, Step(o)
    PROVE  IInv'
BY ReadKeeps, DeleteMarkerKeeps, SendWorksKeeps, DeleteExcessKeeps, SendTopKeeps, SendLatestKeeps,
   SendMarkerKeeps, SaveKeeps, DeleteStaleKeeps, DeleteMessagesKeeps, DeleteRowKeeps DEF Step

\* Whatever happens next, or nothing.
LEMMA NextIInv ==
    ASSUME IInv, [Next]_vars
    PROVE  IInv'
<1>1. CASE \E o \in Commands, mode \in Mode, c \in Channels : CreateOrReplaceNavigation(o, mode, c)
  BY <1>1, CreateKeeps
<1>2. CASE \E o \in Commands : RefreshNavigation(o) \/ BeginDelete(o)
  BY <1>2, RefreshKeeps, BeginDeleteKeeps
<1>3. CASE Run
  BY <1>3, DayKeeps, UpdateAllKeeps, ScheduledKeeps, StepIInv DEF Run
<1>4. CASE \E c \in Channels : ChannelChanges(c)
  BY <1>4, ChannelKeeps
<1>5. CASE \E m \in live : MessageDeleted(m)
  BY <1>5, MessageDeletedKeeps
<1>9. CASE \E m \in markers : MarkerDeleted(m)
  BY <1>9, MarkerDeletedKeeps
<1>6. CASE WorksChange
  BY <1>6, WorksChangeKeeps
<1>7. CASE Crash
  BY <1>7, CrashKeeps
<1>8. CASE UNCHANGED vars
  <2>1. UNCHANGED <<channel, works, live, markers, lost, row, op, due, commands, mishaps>>
    BY <1>8 DEF vars
  <2>2. TypeOK' /\ BatchRests' /\ NoMessageLeftBehind'
    BY <2>1 DEF IInv, TypeOK, BatchRests, NoMessageLeftBehind, Messages, Known
  <2>3. /\ RowFits(row', live', Near', lost')
        /\ \A o \in Operations : JobFits(op'[o], live', Near', lost') /\ Private(o)'
    BY <2>1 DEF IInv, Private, Near
  <2> QED BY <2>2, <2>3 DEF IInv
<1> QED BY <1>1, <1>2, <1>3, <1>4, <1>5, <1>6, <1>7, <1>8, <1>9 DEF Next

\* The invariant holds always.
LEMMA AlwaysIInv == Spec => []IInv
BY InitIInv, NextIInv, PTL DEF Spec
-----------------------------------------------------------------------------
\* The variables keep their types: an update never saves more IDs than there are messages,
\* and never one that is not there yet.
THEOREM TypeCorrect == Spec => []TypeOK
<1>1. IInv => TypeOK
  BY DEF IInv
<1> QED BY <1>1, AlwaysIInv, PTL

\* However commands and nights interleave, and whatever fails, a message or an end marker
\* of a navigation is known to the row or to an operation, as long as it is not lost by a
\* failed call, the end of the process, a stale record or two operations that overlap, and
\* no other message came between the marker and its latest works.
THEOREM NothingLeftBehind == Spec => []NoMessageLeftBehind
<1>1. IInv => NoMessageLeftBehind
  BY DEF IInv
<1> QED BY <1>1, AlwaysIInv, PTL

\* A step of one operation removes the row for a reason.
LEMMA StepReason ==
    ASSUME IInv, NEW o \in Operations, Step(o), row # NoRow, row' = NoRow
    PROVE  \/ op[o].pc = "drop"
           \/ /\ op[o].pc = "stale"
              /\ Broken(row) \/ row # op[o].existing \/ op[o].target # row.chan
<1>1. CASE DeleteStale(o)
  <2>1. op[o].pc = "stale" /\ UpdateFits(op[o], live, Near, lost)
    BY <1>1, UpdateRuns DEF DeleteStale
  <2>2. \E id \in RowIDs(op[o].existing) : <<id, op[o].target>> \notin live
    BY <2>1 DEF UpdateFits
  <2> QED BY <2>1, <2>2 DEF Broken, Has
<1>2. CASE DeleteRow(o)
  BY <1>2 DEF DeleteRow
<1>3. CASE SaveNavigation(o)
  <2>1. op[o] \in Update /\ Len(op[o].new) = op[o].count + 2
    BY <1>3, UpdateRuns DEF SaveNavigation, UpdateFits, UpdateInOrder
  <2>2. row' \in Row
    <3>1. row' = [ works |-> SubSeq(op[o].new, 1, op[o].count), top |-> op[o].new[op[o].count + 1],
                   latest |-> op[o].new[op[o].count + 2], chan |-> op[o].target, mode |-> op[o].mode ]
      BY <1>3 DEF SaveNavigation
    <3> QED BY <2>1, <3>1, SavedRow
  <2> QED BY <2>2, RowIDsOf
<1>4. CASE ~ (DeleteStale(o) \/ DeleteRow(o) \/ SaveNavigation(o))
  <2>1. row' = row
    BY <1>4 DEF Step, ReadExisting, DeleteMarker, SendWorks, SendTop, SendLatest, SendOrEdit, EditMessage, SendMessage,
                DeleteExcess, SendMarker, DeleteMessages
  <2> QED BY <2>1
<1> QED BY <1>1, <1>2, <1>3, <1>4

\* A row goes by a command to delete it, or because one of its messages is missing where
\* it should be, unless the row was replaced meanwhile or the update has turned to the
\* fallback channel: a failed call or the end of the process never removes it.
THEOREM RowsGoOnlyForAReason == Spec => RowsGoForAReason
<1> DEFINE Reason == row # NoRow /\ row' = NoRow =>
                        \E o \in Operations :
                           \/ op[o].pc = "drop"
                           \/ /\ op[o].pc = "stale"
                              /\ Broken(row) \/ row # op[o].existing \/ op[o].target # row.chan
<1>1. ASSUME IInv, [Next]_vars PROVE Reason
  <2>1. SUFFICES ASSUME row # NoRow, row' = NoRow PROVE Reason
    OBVIOUS
  <2>2. CASE \E o \in Operations : Step(o)
    BY <1>1, <2>1, <2>2, StepReason
  <2>3. CASE ~ \E o \in Operations : Step(o)
    <3>1. row' = row
      BY <1>1, <2>3 DEF Next, Run, vars, CreateOrReplaceNavigation, RefreshNavigation, BeginDelete, Command,
                        DayPasses, UpdateAllNavigations, UpdateNavigationScheduled,
                        ChannelChanges, MessageDeleted, MarkerDeleted, WorksChange, Crash
    <3> QED BY <2>1, <3>1
  <2> QED BY <2>2, <2>3
<1>2. IInv /\ [Next]_vars => [Reason]_vars
  BY <1>1
<1>3. [][Reason]_vars => RowsGoForAReason
  BY PTL DEF RowsGoForAReason, Reason
<1> HIDE DEF Reason
<1>4. Spec => [][Reason]_vars
  BY <1>2, AlwaysIInv, PTL DEF Spec
<1> QED BY <1>3, <1>4
=============================================================================
