--------------------------- MODULE FsCache_proofs ---------------------------
(***************************************************************************)
(* Proofs about FsCache for every set of paths and workers and every       *)
(* number of changes.                                                      *)
(***************************************************************************)
EXTENDS FsCache, TLAPS

(***************************************************************************)
(* Type correctness.                                                       *)
(***************************************************************************)

\* The parts of TypeOK about the readers' results and about the rows.
FillsOK ==
    /\ fills \subseteq Fill
    /\ \A b \in Worker \cup Daemon : AtMostOne({x \in fills : x.by = b})

RowsOK ==
    /\ listing \subseteq ListRow /\ AtMostOne(listing)
    /\ stat \in [Path -> SUBSET StatRow] /\ \A p \in Path : AtMostOne(stat[p])

ViewOK ==
    /\ view \subseteq Nodes /\ AtMostOne(view)
    /\ relist \in BOOLEAN

LEMMA ChildType == ASSUME NEW p \in Path PROVE Child(p) \in Name
BY ConstantsAssumption DEF Child, Path

LEMMA LaterType ==
    ASSUME NEW j \in Change, NEW k \in Change
    PROVE  Later(j, k) \in Change /\ j <= Later(j, k) /\ k <= Later(j, k)
BY ConstantsAssumption DEF Later, Change

LEMMA InitTypeOK == Init => TypeOK
<1> SUFFICES ASSUME Init PROVE TypeOK
  OBVIOUS
<1>1. 0 \in Change /\ 1 \in Change
  BY ConstantsAssumption DEF Change
<1>2. changes \in Change /\ drive \in Nodes
  BY <1>1 DEF Init, Nodes, Absent
<1>3. own \in [stat : [Path -> Change], listing : Nodes]
  BY <1>1 DEF Init, Nodes
<1> QED
  BY <1>2, <1>3 DEF Init, TypeOK, AtMostOne

\* A reader that had nothing in hand begins a call.
LEMMA FetchType ==
    ASSUME TypeOK, NEW b \in Worker \cup Daemon, NEW p \in Path \cup {Folder},
           NEW k \in {"read", "revalidate", "sweep"}, NEW old \in SUBSET Nodes,
           Fetch(b, p, k, old)
    PROVE  FillsOK'
<1> DEFINE new == [by |-> b, what |-> p, at |-> Unanswered,
                   nodes |-> [n \in Name |-> Absent], kind |-> k,
                   previous |-> old]
<1>1. new \in Fill
  <2>1. Unanswered \in Change /\ [n \in Name |-> Absent] \in Nodes
    BY ConstantsAssumption DEF Unanswered, Absent, Change, Nodes
  <2> QED
    BY <2>1 DEF Fill
<1>2. fills' = fills \cup {new}
  BY DEF Fetch
<1>3. \A x \in fills : x.by # b
  BY DEF Fetch, Reading
<1> HIDE DEF new
<1>4. new.by = b
  BY DEF new
<1> QED
  BY <1>1, <1>2, <1>3, <1>4 DEF TypeOK, FillsOK, AtMostOne

\* What is in hand is answered or given up.
LEMMA AnswerType ==
    ASSUME TypeOK, NEW x \in fills, Answer(x)
    PROVE  FillsOK'
<1> DEFINE new == [x EXCEPT !.at = changes, !.nodes = drive]
<1>1. x \in Fill /\ new \in Fill /\ new.by = x.by
  BY DEF TypeOK, Fill
<1>2. fills' = (fills \ {x}) \cup {new}
  BY DEF Answer
<1>3. x.by \in Worker \cup Daemon
  BY <1>1 DEF Fill
<1> HIDE DEF new
<1> QED
  BY <1>1, <1>2, <1>3 DEF TypeOK, FillsOK, AtMostOne

LEMMA DropType ==
    ASSUME TypeOK, NEW x, fills' = fills \ {x}
    PROVE  FillsOK'
BY DEF TypeOK, FillsOK, AtMostOne

LEMMA StatOfType ==
    ASSUME TypeOK, NEW x \in Fill, NEW p \in Path
    PROVE  StatOf(x, p) \subseteq StatRow /\ AtMostOne(StatOf(x, p))
<1>1. x.at \in Change /\ x.nodes[Child(p)] \in Change
  BY ChildType DEF Fill, Nodes
<1>2. Later(own.stat[p], x.at) \in Change
  BY <1>1, LaterType DEF TypeOK
<1> QED
  BY <1>1, <1>2 DEF StatOf, StatRow, AtMostOne

LEMMA StoreListingType ==
    ASSUME TypeOK, NEW x \in Fill, StoreListing(x)
    PROVE  RowsOK'
<1>1. x.at \in Change /\ x.nodes \in Nodes
  BY DEF Fill
<1>2. \A n \in Name : Later(own.listing[n], x.at) \in Change
  BY <1>1, LaterType DEF TypeOK, Nodes
<1> DEFINE due == [n \in Name |-> Later(own.listing[n], x.at)]
<1>3. due \in Nodes
  BY <1>2 DEF Nodes
<1>4. listing' = {[due |-> due, nodes |-> x.nodes]}
  BY DEF StoreListing
<1> HIDE DEF due
<1>5. listing' \subseteq ListRow /\ AtMostOne(listing')
  BY <1>1, <1>3, <1>4 DEF ListRow, AtMostOne
<1>6. ASSUME NEW p \in Path
      PROVE  stat'[p] \subseteq StatRow /\ AtMostOne(stat'[p])
  <2>1. stat'[p] = stat[p] \/ stat'[p] = StatOf(x, p)
    BY DEF StoreListing
  <2> QED
    BY <2>1, StatOfType DEF TypeOK
<1>7. stat' \in [Path -> SUBSET StatRow]
  <2> DEFINE rows(p) == IF p \in Inside \/ x.nodes[p] = Absent THEN stat[p]
                        ELSE StatOf(x, p)
  <2>1. stat' = [p \in Path |-> rows(p)]
    BY DEF StoreListing
  <2> HIDE DEF rows
  <2>2. \A p \in Path : rows(p) \in SUBSET StatRow
    BY <1>6, <2>1
  <2> QED
    BY <2>1, <2>2
<1> QED
  BY <1>5, <1>6, <1>7 DEF RowsOK, AtMostOne

LEMMA StoreStatType ==
    ASSUME TypeOK, NEW x \in Fill, NEW p \in Path,
           stat' = [stat EXCEPT ![p] = StatOf(x, p)], listing' = listing
    PROVE  RowsOK'
<1>1. StatOf(x, p) \subseteq StatRow /\ AtMostOne(StatOf(x, p))
  BY StatOfType
<1>2. stat' \in [Path -> SUBSET StatRow]
  BY <1>1 DEF TypeOK
<1>3. \A q \in Path : stat'[q] = IF q = p THEN StatOf(x, p) ELSE stat[q]
  BY DEF TypeOK
<1>4. \A q \in Path : AtMostOne(stat'[q])
  BY <1>1, <1>3 DEF TypeOK
<1> QED
  BY <1>2, <1>4 DEF RowsOK, TypeOK, AtMostOne

LEMMA MadeType ==
    ASSUME TypeOK, NEW x \in Write, NEW n \in Name
    PROVE  Made(x, n) \subseteq StatRow /\ AtMostOne(Made(x, n))
<1>1. x.at \in Change \ {Absent}
  BY DEF Write
<1>2. Later(own.stat[n], x.at) \in Change
  BY <1>1, LaterType DEF TypeOK, Path
<1> QED
  BY <1>1, <1>2 DEF Made, StatRow, AtMostOne

\* What a write leaves in the stat table: what was there, the new node or
\* nothing; and of what it has to drop, not what was there.
LEMMA Invalidated ==
    ASSUME NEW x \in Write, Invalidate(x), NEW p \in Path
    PROVE  /\ \/ stat'[p] = {}
              \/ stat'[p] = stat[p]
              \/ p \in Name /\ stat'[p] = Made(x, p)
           /\ x.op \in OfStat(p) /\ Child(p) \in x.names =>
                stat'[p] = {} \/ (p \in Name /\ stat'[p] = Made(x, p))
<1>1. x.names \subseteq Name
  BY DEF Write
<1>2. p \in Name => Child(p) = p
  BY DEF Child
<1>3. p \in x.names => p \in Name
  BY <1>1
<1>4. CASE x.op \in {"trash", "rename"} /\ Child(p) \in x.names
  BY <1>4 DEF Invalidate
<1>5. CASE ~(x.op \in {"trash", "rename"} /\ Child(p) \in x.names)
  BY <1>2, <1>3, <1>5 DEF Invalidate, OfStat
<1> QED
  BY <1>4, <1>5

LEMMA SettleType ==
    ASSUME TypeOK, NEW x \in Write, Settle(x)
    PROVE  own' \in [stat : [Path -> Change], listing : Nodes]
<1>1. x.at \in Change
  BY DEF Write
<1> DEFINE st == [p \in Path |-> IF x.op \in OfStat(p) /\ Child(p) \in x.names
                                 THEN Later(own.stat[p], x.at) ELSE own.stat[p]]
           li == [n \in Name |-> IF x.op \in OfListing /\ n \in x.names
                                 THEN Later(own.listing[n], x.at) ELSE own.listing[n]]
<1>2. st \in [Path -> Change]
  BY <1>1, LaterType DEF TypeOK
<1>3. li \in Nodes
  BY <1>1, LaterType DEF TypeOK, Nodes
<1>4. own' = [stat |-> st, listing |-> li]
  BY DEF Settle
<1> HIDE DEF st, li
<1> QED
  BY <1>2, <1>3, <1>4

LEMMA CompleteType ==
    ASSUME TypeOK, NEW x, Complete(x)
    PROVE  TypeOK'
<1>1. x \in Write
  BY DEF Complete, TypeOK
<1>2. ASSUME NEW p \in Path
      PROVE  stat'[p] \subseteq StatRow /\ AtMostOne(stat'[p])
  BY <1>1, <1>2, Invalidated, MadeType DEF Complete, TypeOK, AtMostOne
<1>3. stat' \in [Path -> SUBSET StatRow]
  <2>1. \E f : stat' = [p \in Path |-> f[p]]
    <3> DEFINE g == [p \in Path |->
                IF x.op \in {"trash", "rename"} /\ Child(p) \in x.names THEN {}
                ELSE IF x.op = "mkdir" /\ p \in x.names THEN Made(x, p)
                ELSE IF x.op = "copy" /\ p \in x.names THEN {}
                ELSE stat[p]]
    <3>1. stat' = g
      BY DEF Complete, Invalidate
    <3>2. g = [p \in Path |-> g[p]]
      OBVIOUS
    <3> HIDE DEF g
    <3> QED
      BY <3>1, <3>2
  <2> QED
    BY <1>2, <2>1
<1>4. own' \in [stat : [Path -> Change], listing : Nodes]
  BY <1>1, SettleType DEF Complete
<1>5. listing' \subseteq ListRow /\ AtMostOne(listing')
  BY DEF Complete, TypeOK, AtMostOne
<1>6. relist' \in BOOLEAN
  BY DEF Complete, FilesAdded, TypeOK
<1> QED
  BY <1>2, <1>3, <1>4, <1>5, <1>6
  DEF Complete, TypeOK, driveVars, daemonVars, AtMostOne

LEMMA ShowType ==
    ASSUME TypeOK, NEW nodes \in Nodes, Show(nodes)
    PROVE  ViewOK'
<1>1. view' = {nodes} \/ view' = view
  BY DEF Show
<1>2. AtMostOne({nodes})
  BY DEF AtMostOne
<1> QED
  BY <1>1, <1>2 DEF Show, ViewOK, TypeOK, AtMostOne

\* The second half of a read: the window may show the answer.
LEMMA ReadType ==
    ASSUME TypeOK, NEW x \in fills, StoreRead(x)
    PROVE  TypeOK'
<1>1. x \in Fill /\ x.what \in Path \cup {Folder} /\ x.nodes \in Nodes
  BY DEF TypeOK, Fill
<1>2. FillsOK'
  BY DropType DEF StoreRead
<1>3. RowsOK'
  BY <1>1, StoreListingType, StoreStatType DEF StoreRead
<1>4. ViewOK'
  <2>1. CASE x.what = Folder
    BY <1>1, <2>1, ShowType DEF StoreRead
  <2>2. CASE x.what # Folder
    BY <2>2 DEF StoreRead, viewVars, TypeOK, ViewOK, AtMostOne
  <2> QED
    BY <2>1, <2>2
<1> QED
  BY <1>2, <1>3, <1>4
  DEF StoreRead, TypeOK, FillsOK, RowsOK, ViewOK, driveVars, daemonVars, AtMostOne

LEMMA RevalidatedType ==
    ASSUME TypeOK, NEW x \in fills, StoreRevalidated(x)
    PROVE  TypeOK'
<1>1. x \in Fill
  BY DEF TypeOK
<1>2. FillsOK'
  BY DropType DEF StoreRevalidated
<1>3. RowsOK'
  <2>1. CASE x.nodes \in x.previous
    BY <2>1 DEF StoreRevalidated, cacheVars, TypeOK, RowsOK, AtMostOne
  <2>2. CASE x.nodes \notin x.previous
    BY <1>1, <2>2, StoreListingType DEF StoreRevalidated
  <2> QED
    BY <2>1, <2>2
<1>4. relist' \in BOOLEAN
  BY DEF StoreRevalidated, FilesAdded, TypeOK
<1> QED
  BY <1>2, <1>3, <1>4
  DEF StoreRevalidated, TypeOK, FillsOK, RowsOK, driveVars, daemonVars, AtMostOne

LEMMA SweptType ==
    ASSUME TypeOK, NEW x \in fills, StoreSwept(x)
    PROVE  TypeOK'
<1>1. x \in Fill /\ x.what \in Path \cup {Folder}
  BY DEF TypeOK, Fill
<1>2. FillsOK'
  BY DropType DEF StoreSwept
<1>3. RowsOK'
  BY <1>1, StoreListingType, StoreStatType DEF StoreSwept
<1>4. relist' \in BOOLEAN /\ sweep' \subseteq Path \cup {Folder}
  BY DEF StoreSwept, FilesChanged, TypeOK
<1> QED
  BY <1>2, <1>3, <1>4
  DEF StoreSwept, TypeOK, FillsOK, RowsOK, driveVars, AtMostOne

LEMMA ProceedType ==
    ASSUME TypeOK, NEW x \in fills, Proceed(x)
    PROVE  TypeOK'
<1>1. CASE Answer(x)
  BY <1>1, AnswerType
  DEF Answer, TypeOK, FillsOK, driveVars, cacheVars, daemonVars, viewVars, AtMostOne
<1> QED
  BY <1>1, ReadType, RevalidatedType, SweptType DEF Proceed

\* A change of Drive by a worker.
LEMMA AlterType ==
    ASSUME TypeOK, NEW w \in Worker, NEW op \in Op,
           NEW names \in SUBSET Name, NEW nodes, Alter(w, op, names, nodes),
           changes + 1 \in Change => nodes \in Nodes
    PROVE  TypeOK'
<1>1. changes + 1 \in Change \ {Absent}
  BY ConstantsAssumption DEF Alter, TypeOK, Change, Absent
<1>2. writes' \subseteq Write
  BY <1>1 DEF Alter, TypeOK, Write
<1> QED
  BY <1>1, <1>2 DEF Alter, TypeOK, cacheVars, daemonVars, viewVars, AtMostOne

LEMMA WriteType ==
    ASSUME TypeOK, NEW w \in Worker, NEW n \in Name,
           \/ MakeDir(w, n) \/ Copy(w, n) \/ Trash(w, n)
           \/ Put(w, n) \/ Restore(w, n)
    PROVE  TypeOK'
<1>1. Absent \in Change
  BY ConstantsAssumption DEF Absent, Change
<1>2. CASE MakeDir(w, n)
  BY <1>1, <1>2, AlterType DEF MakeDir, Op, TypeOK, Nodes
<1>3. CASE Trash(w, n)
  BY <1>1, <1>3, AlterType DEF Trash, Op, TypeOK, Nodes
<1>4. CASE Put(w, n)
  BY <1>1, <1>4, AlterType DEF Put, Op, TypeOK, Nodes
<1>5. CASE Copy(w, n)
  BY <1>1, <1>5, AlterType DEF Copy, Op, TypeOK, Nodes
<1>6. CASE Restore(w, n)
  BY <1>1, <1>6, AlterType DEF Restore, Op, TypeOK, Nodes
<1> QED
  BY <1>2, <1>3, <1>4, <1>5, <1>6

LEMMA RenameType ==
    ASSUME TypeOK, NEW w \in Worker, NEW o \in Name, NEW n \in Name, Rename(w, o, n)
    PROVE  TypeOK'
<1>1. Absent \in Change
  BY ConstantsAssumption DEF Absent, Change
<1> QED
  BY <1>1, AlterType DEF Rename, Op, TypeOK, Nodes

\* A reader's call begins and nothing but the daemon's own state changes.
LEMMA BeginType ==
    ASSUME TypeOK, FillsOK', UNCHANGED <<driveVars, cacheVars, own, writes, viewVars>>,
           asked' \in BOOLEAN, cooling' \in BOOLEAN, sweep' \subseteq Path \cup {Folder}
    PROVE  TypeOK'
BY DEF TypeOK, FillsOK, driveVars, cacheVars, viewVars, AtMostOne

LEMMA ClaimType ==
    ASSUME TypeOK, NEW b \in Worker \cup Daemon, Claim(b)
    PROVE  FillsOK' /\ cooling' = TRUE
<1>1. {l.nodes : l \in listing} \in SUBSET Nodes
  BY DEF TypeOK, ListRow
<1> QED
  BY <1>1, FetchType DEF Claim

LEMMA NextTypeOK == TypeOK /\ [Next]_vars => TypeOK'
<1> SUFFICES ASSUME TypeOK, [Next]_vars PROVE TypeOK'
  OBVIOUS
<1>a. "request" \in Worker \cup Daemon /\ "loop" \in Worker \cup Daemon
  BY DEF Daemon
<1>1. ASSUME NEW w \in Worker, ListHit(w) PROVE TypeOK'
  <2>1. PICK l \in listing : Show(l.nodes)
    BY <1>1 DEF ListHit
  <2>2. ViewOK'
    BY <2>1, ShowType DEF TypeOK, ListRow
  <2> QED
    BY <1>1, <2>2 DEF ListHit, TypeOK, ViewOK, driveVars, cacheVars, AtMostOne
<1>2. ASSUME NEW w \in Worker, ListMiss(w) PROVE TypeOK'
  <2>1. FillsOK'
    BY <1>2, FetchType DEF ListMiss
  <2> QED
    BY <1>2, <2>1, BeginType DEF ListMiss, daemonVars, TypeOK
<1>3. ASSUME NEW w \in Worker, NEW n \in Name, StatHit(w, n) PROVE TypeOK'
  BY <1>3 DEF StatHit, TypeOK, driveVars, cacheVars, viewVars, AtMostOne
<1>4. ASSUME NEW w \in Worker, NEW n \in Path, StatMiss(w, n) PROVE TypeOK'
  <2>1. FillsOK'
    BY <1>4, FetchType DEF StatMiss
  <2> QED
    BY <1>4, <2>1, BeginType DEF StatMiss, daemonVars, TypeOK
<1>5. CASE TakeRequest
  <2>1. CASE Claim("request")
    <3>1. FillsOK' /\ cooling' = TRUE
      BY <1>a, <2>1, ClaimType
    <3> QED
      BY <1>5, <3>1, BeginType DEF TakeRequest, TypeOK
  <2>2. CASE cooling /\ UNCHANGED <<fills, cooling>>
    BY <1>5, <2>2
    DEF TakeRequest, TypeOK, driveVars, cacheVars, viewVars, AtMostOne
  <2> QED
    BY <1>5, <2>1, <2>2 DEF TakeRequest
<1>6. CASE RevalidateOpen
  <2>1. FillsOK' /\ cooling' = TRUE
    BY <1>a, <1>6, ClaimType DEF RevalidateOpen
  <2> QED
    BY <1>6, <2>1, BeginType DEF RevalidateOpen, TypeOK
<1>7. CASE CoolDown
  BY <1>7 DEF CoolDown, TypeOK, driveVars, cacheVars, viewVars, AtMostOne
<1>8. CASE SweepStart
  BY <1>8 DEF SweepStart, TypeOK, driveVars, cacheVars, viewVars, AtMostOne
<1>9. ASSUME NEW p \in sweep, SweepFetch(p) PROVE TypeOK'
  <2>1. p \in Path \cup {Folder} /\ sweep' \subseteq Path \cup {Folder}
    BY <1>9 DEF SweepFetch, TypeOK
  <2>2. FillsOK'
    <3>1. CASE UNCHANGED fills
      BY <3>1 DEF TypeOK, FillsOK, AtMostOne
    <3>2. CASE Fetch("loop", p, "sweep", {})
      BY <1>a, <2>1, <3>2, FetchType
    <3> QED
      BY <1>9, <3>1, <3>2 DEF SweepFetch
  <2> QED
    BY <1>9, <2>1, <2>2, BeginType DEF SweepFetch, TypeOK
<1>10. ASSUME NEW x \in fills, FetchFails(x) PROVE TypeOK'
  <2>1. FillsOK'
    BY <1>10, DropType DEF FetchFails
  <2>2. relist' \in BOOLEAN /\ sweep' \subseteq Path \cup {Folder}
    BY <1>10 DEF FetchFails, TypeOK
  <2> QED
    BY <1>10, <2>1, <2>2
    DEF FetchFails, TypeOK, FillsOK, driveVars, cacheVars, AtMostOne
<1>11. ASSUME NEW n \in Name, RemoteChange(n) PROVE TypeOK'
  <2>1. changes + 1 \in Change /\ Absent \in Change
    BY <1>11, ConstantsAssumption DEF RemoteChange, TypeOK, Change, Absent
  <2>2. drive' \in Nodes
    BY <1>11, <2>1 DEF RemoteChange, TypeOK, Nodes
  <2> QED
    BY <1>11, <2>1, <2>2
    DEF RemoteChange, TypeOK, cacheVars, daemonVars, viewVars, AtMostOne
<1>12. CASE Open
  <2>1. [n \in Name |-> Absent] \in Nodes
    BY ConstantsAssumption DEF Nodes, Change, Absent
  <2>2. view' \subseteq Nodes /\ AtMostOne(view')
    BY <1>12, <2>1 DEF Open, AtMostOne
  <2> QED
    BY <1>12, <2>2 DEF Open, TypeOK, driveVars, cacheVars, daemonVars, AtMostOne
<1>13. CASE Close
  BY <1>13 DEF Close, TypeOK, driveVars, cacheVars, daemonVars, AtMostOne
<1>14. CASE UNCHANGED vars
  BY <1>14
  DEF TypeOK, vars, driveVars, cacheVars, daemonVars, viewVars, AtMostOne
<1> QED
  BY <1>1, <1>2, <1>3, <1>4, <1>5, <1>6, <1>7, <1>8, <1>9, <1>10, <1>11, <1>12,
     <1>13, <1>14, WriteType, RenameType, CompleteType, ProceedType
  DEF Next, Elsewhere, List

\* The type invariant: the tables, the readers' answers, the window and the
\* daemon's state always hold values of their kind.
THEOREM TypeCorrect == Spec => []TypeOK
<1>1. Init => TypeOK
  BY InitTypeOK
<1>2. TypeOK /\ [Next]_vars => TypeOK'
  BY NextTypeOK
<1> QED
  BY <1>1, <1>2, PTL DEF Spec

(***************************************************************************)
(* Own writes are seen.                                                    *)
(***************************************************************************)

Seen == TypeOK /\ OwnWritesAreSeen

\* Steps that leave the rows and the history alone.
LEMMA KeepSeen ==
    ASSUME OwnWritesAreSeen, UNCHANGED <<cacheVars, own>>
    PROVE  OwnWritesAreSeen'
BY DEF OwnWritesAreSeen, cacheVars

\* What is stored reflects the changes completed by then.
LEMMA StoreSeen ==
    ASSUME Seen, NEW x \in Fill, UNCHANGED own,
           \/ StoreListing(x)
           \/ \E p \in Path : /\ stat' = [stat EXCEPT ![p] = StatOf(x, p)]
                              /\ UNCHANGED listing
    PROVE  OwnWritesAreSeen'
<1>1. x.at \in Change
  BY DEF Fill
<1>2. ASSUME NEW p \in Path, NEW s \in StatOf(x, p) PROVE own.stat[p] <= s.due
  <2>1. s.due = Later(own.stat[p], x.at)
    BY <1>2 DEF StatOf
  <2>2. own.stat[p] \in Change
    BY DEF Seen, TypeOK
  <2> QED
    BY <1>1, <2>1, <2>2, LaterType
<1>3. \A p \in Path : stat'[p] = stat[p] \/ stat'[p] = StatOf(x, p)
  <2>1. CASE StoreListing(x)
    BY <2>1 DEF StoreListing
  <2>2. ASSUME NEW q \in Path, stat' = [stat EXCEPT ![q] = StatOf(x, q)]
        PROVE  \A p \in Path : stat'[p] = stat[p] \/ stat'[p] = StatOf(x, p)
    BY <2>2 DEF Seen, TypeOK
  <2> QED
    BY <2>1, <2>2
<1>4. ASSUME NEW n \in Name, NEW l \in listing' PROVE own.listing[n] <= l.due[n]
  <2>1. CASE StoreListing(x)
    <3>1. l.due[n] = Later(own.listing[n], x.at)
      BY <1>4, <2>1 DEF StoreListing
    <3>2. own.listing[n] \in Change
      BY DEF Seen, TypeOK, Nodes
    <3> QED
      BY <1>1, <3>1, <3>2, LaterType
  <2>2. CASE UNCHANGED listing
    BY <1>4, <2>2 DEF Seen, OwnWritesAreSeen
  <2> QED
    BY <2>1, <2>2
<1>5. \A p \in Path : \A s \in stat'[p] : own.stat[p] <= s.due
  BY <1>2, <1>3 DEF Seen, OwnWritesAreSeen
<1> QED
  BY <1>4, <1>5 DEF OwnWritesAreSeen

LEMMA ProceedSeen ==
    ASSUME Seen, NEW x \in fills, Proceed(x)
    PROVE  OwnWritesAreSeen'
<1>1. x \in Fill /\ x.what \in Path \cup {Folder}
  BY DEF Seen, TypeOK, Fill
<1>2. CASE Answer(x)
  BY <1>2, KeepSeen DEF Answer, Seen
<1>3. CASE StoreRead(x)
  BY <1>1, <1>3, StoreSeen DEF StoreRead
<1>4. CASE StoreRevalidated(x)
  <2>1. CASE x.nodes \in x.previous
    BY <1>4, <2>1, KeepSeen DEF StoreRevalidated, Seen
  <2>2. CASE x.nodes \notin x.previous
    BY <1>1, <1>4, <2>2, StoreSeen DEF StoreRevalidated
  <2> QED
    BY <2>1, <2>2
<1>5. CASE StoreSwept(x)
  BY <1>1, <1>5, StoreSeen DEF StoreSwept
<1> QED
  BY <1>2, <1>3, <1>4, <1>5 DEF Proceed

\* A completed write drops or replaces every row it has to be seen in.
LEMMA CompleteSeen ==
    ASSUME Seen, NEW x, Complete(x)
    PROVE  OwnWritesAreSeen'
<1>1. x \in Write /\ x.at \in Change /\ x.names \subseteq Name
  BY DEF Complete, Seen, TypeOK, Write
<1>2. \A p \in Path : own.stat[p] \in Change
  BY DEF Seen, TypeOK
<1>3. ASSUME NEW p \in Path, NEW s \in stat'[p] PROVE own'.stat[p] <= s.due
  <2>1. own'.stat[p] = IF x.op \in OfStat(p) /\ Child(p) \in x.names
                       THEN Later(own.stat[p], x.at) ELSE own.stat[p]
    BY DEF Complete, Settle
  <2>2. CASE p \in Name /\ stat'[p] = Made(x, p)
    <3>1. s.due = Later(own.stat[p], x.at)
      BY <1>3, <2>2 DEF Made
    <3>2. Later(own.stat[p], x.at) \in Nat /\ own.stat[p] <= Later(own.stat[p], x.at)
      <4>1. Change \subseteq Nat
        BY ConstantsAssumption DEF Change
      <4> QED
        BY <1>1, <1>2, <4>1, LaterType
    <3> QED
      BY <2>1, <3>1, <3>2
  <2>3. CASE ~(p \in Name /\ stat'[p] = Made(x, p))
    <3>1. stat'[p] = stat[p] /\ ~(x.op \in OfStat(p) /\ Child(p) \in x.names)
      BY <1>1, <1>3, <2>3, Invalidated DEF Complete
    <3>2. own'.stat[p] = own.stat[p] /\ s \in stat[p]
      BY <1>3, <2>1, <3>1
    <3> QED
      BY <3>2 DEF Seen, OwnWritesAreSeen
  <2> QED
    BY <2>2, <2>3
<1>4. ASSUME NEW n \in Name, NEW l \in listing' PROVE own'.listing[n] <= l.due[n]
  <2>1. x.op = "restore" /\ listing' = listing
    BY <1>4 DEF Complete
  <2>2. own'.listing[n] = own.listing[n]
    BY <2>1 DEF Complete, Settle, OfListing
  <2> QED
    BY <1>4, <2>1, <2>2 DEF Seen, OwnWritesAreSeen
<1> QED
  BY <1>3, <1>4 DEF OwnWritesAreSeen

LEMMA NextSeen == Seen /\ [Next]_vars => Seen'
<1> SUFFICES ASSUME Seen, [Next]_vars PROVE Seen'
  OBVIOUS
<1>0. TypeOK' /\ OwnWritesAreSeen
  BY NextTypeOK DEF Seen
<1>1. ASSUME NEW x \in fills, Proceed(x) PROVE Seen'
  BY <1>0, <1>1, ProceedSeen DEF Seen
<1>2. ASSUME NEW x \in writes, Complete(x) PROVE Seen'
  BY <1>0, <1>2, CompleteSeen DEF Seen
<1>3. CASE UNCHANGED <<cacheVars, own>>
  BY <1>0, <1>3, KeepSeen DEF Seen
<1>4. ASSUME Elsewhere, ~\E x \in fills : Proceed(x), ~\E x \in writes : Complete(x)
      PROVE  UNCHANGED <<cacheVars, own>>
  BY <1>4
  DEF Elsewhere, List, ListHit, ListMiss, StatHit, StatMiss, MakeDir, Copy, Trash, Put,
      Restore, Rename, Alter, CoolDown, SweepStart, SweepFetch, FetchFails, RemoteChange
<1>5. ASSUME TakeRequest \/ RevalidateOpen \/ Open \/ Close \/ UNCHANGED vars
      PROVE  UNCHANGED <<cacheVars, own>>
  BY <1>5 DEF TakeRequest, RevalidateOpen, Open, Close, vars
<1> QED
  BY <1>1, <1>2, <1>3, <1>4, <1>5 DEF Next

\* However readers, writers, uploads, restores, the sweep and the
\* revalidations overlap, what is cached reflects every change completed
\* through the workers, save those completed while the answer was in a
\* reader's hand: make_dir, copy_path, trash, rename_or_move and start_upload
\* drop or replace every row of what they touch, and below it.
THEOREM OwnWrites == Spec => []OwnWritesAreSeen
<1>1. Init => Seen
  BY InitTypeOK DEF Init, Seen, OwnWritesAreSeen
<1>2. Seen /\ [Next]_vars => Seen'
  BY NextSeen
<1>3. Seen => OwnWritesAreSeen
  BY DEF Seen
<1> QED
  BY <1>1, <1>2, <1>3, PTL DEF Spec
=============================================================================
