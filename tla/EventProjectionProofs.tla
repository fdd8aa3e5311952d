------------------------ MODULE EventProjectionProofs ------------------------
(* Proofs about EventProjection, for any length of a Run, page size and    *)
(* number of faults: the browser shows the log in order and each event     *)
(* once, and the generation record is the fold of exactly the events up to *)
(* its cursor and tells how the Run ended, unless a request has written    *)
(* back a record it read before.                                           *)
(*                                                                         *)
(* The browser's argument is that nothing under way (on the wire, pending  *)
(* or in a replayed page) is an event the log does not hold, so what       *)
(* follows its cursor without a gap is the next interval of the log.  The  *)
(* record's argument is that its writers exclude each other: a recovery    *)
(* begins only after the projector has stopped, a boot when neither is     *)
(* there, so each writes back the record it has read.                      *)
(*                                                                         *)
(* And about WebSocketFanout, for any number of sockets and publishers:    *)
(* behind a publisher's place in the list nobody has had its event, since  *)
(* sockets are added at the end and the list closes up when they leave.    *)
EXTENDS EventProjection, WebSocketFanout, SequenceTheorems, FiniteSetTheorems,
        WellFoundedInduction, TLAPS

Snapshots == [applied : Seq(Nat), status : Statuses, active : BOOLEAN]
Columns == [active : BOOLEAN, status : {"running", "idle", "failed"}]
LivePcs == {"next", "began", "emit", "ended", "done"}
RecPcs == {"idle", "first", "second", "abandoned", "reconcile", "tell"}

LiveTasks == [pc : LivePcs, ev : Nat \ {0}, seen : Snapshots \cup {<<>>}]
Recoveries ==
  [pc : RecPcs, due : BOOLEAN, seen : Snapshots \cup {<<>>}, cols : Columns \cup {<<>>},
   pos : Nat, began : Seq(Snapshots)]
FaultCounts == [crash : Nat, drop : Nat, tx : Nat, page : Nat, write : Nat]

(* The types of what the arguments read.                                   *)
StoreTypes ==
  /\ log \in 0..N /\ cursor \in Nat /\ truth \in Statuses
  /\ process \in {"up", "down", "booting"}
  /\ record \in Snapshots /\ columns \in Columns
  /\ truth = "running" => log < N
TaskTypes ==
  /\ live \in LiveTasks /\ rec \in Recoveries /\ writer \in Seq(Snapshots)
  /\ used \in FaultCounts
  /\ live.pc = "began" => live.seen \in Snapshots
  /\ rec.pc # "idle" => rec.seen \in Snapshots /\ rec.cols \in Columns
Types == StoreTypes /\ TaskTypes

(* The browser knows of no event that is not in the log.                   *)
Travelling == {Ack, Notice} \cup 1..log
Streams(n) ==
  [open : BOOLEAN, known : BOOLEAN, last : 0..n, pend : SUBSET (1..n), active : BOOLEAN]
Replays(n) == [pc : {"none", "asked", "page"}, after : Nat, page : SUBSET (1..n), top : Nat]
LogHoldsAll ==
  /\ wire \in Seq(Travelling) /\ client \in Streams(log) /\ replay \in Replays(log)
  /\ live.pc \in {"began", "emit"} => live.ev <= log
BrowserInv == Types /\ LogHoldsAll /\ ShownInOrder

(* Where the record's writers stand while no request has rewritten it.     *)
ActiveAgrees ==
  /\ columns.active <=> columns.status = "running"
  /\ record.active = columns.active
WritersExclude ==
  /\ LiveRuns => process = "up" /\ rec.pc = "idle"
  /\ rec.pc # "idle" => process = "up"
  /\ process = "booting" => truth # "running"
LiveFresh ==
  live.pc = "began" => live.seen = record /\ live.ev = cursor + 1 /\ live.ev <= log
CatchFresh ==
  Catching => /\ rec.pos <= cursor
              /\ rec.began # <<>> =>
                   rec.began = <<record>> /\ rec.pos = cursor /\ rec.pos < log
RecoveryKnows ==
  /\ rec.pc \in {"second", "abandoned", "reconcile", "tell"} => truth # "running"
  /\ rec.pc = "reconcile" => rec.seen = record
  /\ rec.pc \in {"first", "abandoned"} =>
       /\ rec.cols.active <=> rec.cols.status = "running"
       /\ rec.seen.active = rec.cols.active
  /\ rec.pc = "abandoned" => ~rec.cols.active
Unwritten ==
  /\ writer = <<>> /\ RecordIsTrue /\ cursor <= log
  /\ ActiveAgrees /\ WritersExclude /\ LiveFresh /\ CatchFresh /\ RecoveryKnows
RecordInv == Types /\ (used.write = 0 => Unwritten)

-----------------------------------------------------------------------------
(* Sets of numbers.                                                        *)

(* A set of numbers that is not empty has a least one.                     *)
LEMMA LeastNumber ==
  ASSUME NEW S \in SUBSET Nat, S # {}
  PROVE \E n \in S : \A m \in S : n <= m
<1> DEFINE R == OpToRel(<, Nat)
<1>1. \E x \in S : \A y \in S : ~ (<<y, x>> \in R)
  BY WFMin, NatLessThanWellFounded
<1>2. \A x, y \in Nat : y < x => <<y, x>> \in R
  BY DEF OpToRel
<1> HIDE DEF R
<1>3. PICK x \in S : \A y \in S : ~ (<<y, x>> \in R)
  BY <1>1
<1>4. \A y \in S : ~(y < x)
  BY <1>2, <1>3
<1>5. \A y \in S : x <= y
  BY <1>4
<1> QED BY <1>5

(* An ascending enumeration of an interval leaves out none of it.          *)
LEMMA AscendingFillsInterval ==
  ASSUME NEW a \in Nat, NEW m \in Nat, NEW s \in [1..m -> (a+1)..(a+m)],
    \A i, j \in 1..m : i < j => s[i] < s[j]
  PROVE \A i \in 1..m : s[i] = a + i
<1>1. ASSUME NEW k \in 1..m, s[k] < a + k PROVE FALSE
  <2> DEFINE S == {i \in 1..m : s[i] < a + i}
  <2>1. S \in SUBSET Nat /\ k \in S
    BY <1>1
  <2>2. PICK n \in S : \A x \in S : n <= x
    BY <2>1, LeastNumber
  <2>3. n # 1
    BY <2>2
  <2>4. n - 1 \in 1..m /\ n-1 \notin S
    BY <2>2, <2>3
  <2>5. s[n-1] \in Int /\ s[n] \in Int /\ s[n-1] >= a + n - 1
    BY <2>4, <2>2
  <2>6. s[n-1] < s[n]
    BY <2>4, <2>2
  <2> QED BY <2>5, <2>6, <2>2
<1>2. ASSUME NEW k \in 1..m, s[k] > a + k PROVE FALSE
  <2> DEFINE S == {d \in 0..(m-1) : s[m-d] > a + m - d}
  <2>1. S \in SUBSET Nat /\ m-k \in S
    <3>1. m - (m - k) = k
      OBVIOUS
    <3>2. m - k \in 0..(m-1)
      OBVIOUS
    <3>3. s[m-(m-k)] > a + m - (m-k)
      BY <3>1, <1>2
    <3> QED BY <3>2, <3>3
  <2>2. PICK d \in S : \A x \in S : d <= x
    BY <2>1, LeastNumber
  <2>3. d # 0
    BY <2>2
  <2>4. d - 1 \in 0..(m-1) /\ d-1 \notin S /\ m - (d-1) = m - d + 1
    BY <2>2, <2>3
  <2>5. s[m-d] \in Int /\ s[m-d+1] \in Int /\ s[m-d+1] <= a + m - d + 1
    BY <2>4, <2>2
  <2>6. s[m-d] < s[m-d+1]
    BY <2>4, <2>2
  <2> QED BY <2>5, <2>6, <2>2
<1>3. \A i \in 1..m : s[i] \in Int
  OBVIOUS
<1> QED BY <1>1, <1>2, <1>3

(* The events of an interval in order are the interval itself.             *)
LEMMA InOrderInterval ==
  ASSUME NEW a \in Nat, NEW m \in Nat
  PROVE InOrder((a+1)..(a+m)) = [i \in 1..m |-> a + i]
<1>1. Cardinality((a+1)..(a+m)) = m
  BY FS_Interval
<1> DEFINE e == [i \in 1..m |-> a + i]
<1>2. e \in [1..m -> (a+1)..(a+m)] /\ \A i, j \in 1..m : i < j => e[i] < e[j]
  OBVIOUS
<1> DEFINE s == InOrder((a+1)..(a+m))
<1>3. s \in [1..m -> (a+1)..(a+m)] /\ \A i, j \in 1..m : i < j => s[i] < s[j]
  BY <1>1, <1>2 DEF InOrder
<1>4. \A i \in 1..m : s[i] = a + i
  BY <1>3, AscendingFillsInterval
<1> QED BY <1>3, <1>4

LEMMA IntervalsJoin ==
  ASSUME NEW a \in Nat, NEW m \in Nat
  PROVE [i \in 1..a |-> i] \o [i \in 1..m |-> a + i] = [i \in 1..(a + m) |-> i]
<1> DEFINE s == [i \in 1..a |-> i]
           t == [i \in 1..m |-> a + i]
           u == [i \in 1..(a + m) |-> i]
<1>1. s \in Seq(Nat) /\ Len(s) = a
  OBVIOUS
<1>2. t \in Seq(Nat) /\ Len(t) = m
  OBVIOUS
<1>3. u \in Seq(Nat) /\ Len(u) = a + m
  OBVIOUS
<1>4. /\ s \o t \in Seq(Nat) /\ Len(s \o t) = a + m
      /\ \A i \in 1..(a + m) : (s \o t)[i] = IF i <= a THEN s[i] ELSE t[i - a]
  BY <1>1, <1>2, ConcatProperties
<1>5. \A i \in 1..(a + m) : (s \o t)[i] = u[i]
  BY <1>4
<1> HIDE DEF s, t, u
<1>6. s \o t = u
  BY <1>3, <1>4, <1>5, SeqEqual
<1> QED BY <1>6 DEF s, t, u

-----------------------------------------------------------------------------
(* Types.                                                                  *)

(* What Applied writes is well typed.                                      *)
LEMMA AppliedTypes ==
  ASSUME StoreTypes, NEW r \in Snapshots, NEW e \in Nat, Applied(r, e)
  PROVE cursor' \in Nat /\ record' \in Snapshots /\ columns' \in Columns
<1>1. Folded(r, e) \in Snapshots
  <2> DEFINE counted == [r EXCEPT !.applied = Append(@, e)]
  <2>1. r.applied \in Seq(Nat)
    BY DEF Snapshots
  <2>2. Append(r.applied, e) \in Seq(Nat)
    BY <2>1
  <2>3. counted \in Snapshots
    BY <2>2 DEF Snapshots
  <2>4. FinishedRecord(counted, truth) \in Snapshots
    BY <2>3 DEF Snapshots, FinishedRecord, StoreTypes
  <2> QED BY <2>3, <2>4 DEF Folded
<1>2. FinishedColumns(columns, truth) \in Columns
  BY DEF StoreTypes, Columns, FinishedColumns, Statuses
<1> QED BY <1>1, <1>2 DEF Applied, StoreTypes

LEMMA TypesInit == Init => Types
<1> SUFFICES ASSUME Init PROVE Types
  OBVIOUS
<1> USE BoundsAssumption
<1>1. StoreTypes
  BY DEF Init, StoreTypes, Snapshots, Columns, Statuses
<1>2. TaskTypes
  BY DEF Init, TaskTypes, NoRec, LivePcs, RecPcs, LiveTasks, Recoveries, FaultCounts
<1> QED BY <1>1, <1>2 DEF Types

(* A fault counts itself and no other.                                     *)
LEMMA UseCounts ==
  ASSUME used \in FaultCounts, NEW bound, NEW fault \in {"crash", "drop", "tx", "page", "write"},
         Use(fault, bound)
  PROVE /\ used' \in FaultCounts
        /\ used'.write = used.write + (IF fault = "write" THEN 1 ELSE 0)
BY DEF FaultCounts, Use

(* What the argument reads: the rest of the state.                         *)
kept == <<log, truth, process, cursor, record, columns>>

(* The projector goes on to the next event, or has seen the last.          *)
LEMMA GoesOn ==
  ASSUME live \in LiveTasks,
         live' = [live EXCEPT !.pc = IF Terminal(live.ev) THEN "ended" ELSE "next",
                              !.ev = @ + 1]
  PROVE /\ live' \in LiveTasks
        /\ live'.pc = (IF Terminal(live.ev) THEN "ended" ELSE "next")
        /\ live'.ev = live.ev + 1
<1>1. PICK p \in {"ended", "next"} : p = IF Terminal(live.ev) THEN "ended" ELSE "next"
  OBVIOUS
<1>2. PICK e \in Nat \ {0} : e = live.ev + 1
  BY DEF LiveTasks
<1>3. live' = [live EXCEPT !.pc = p, !.ev = e]
  BY <1>1, <1>2
<1>4. p \in LivePcs
  BY DEF LivePcs
<1>5. live' \in LiveTasks /\ live'.pc = p /\ live'.ev = e
  BY <1>3, <1>4 DEF LiveTasks
<1> QED BY <1>1, <1>2, <1>5

(* The projector.                                                          *)
LEMMA LiveTypes ==
  ASSUME Types, Projector \/ LiveFails
  PROVE Types'
<1> USE DEF Types
<1>1. CASE LiveBegins
  <2>1. /\ live' \in LiveTasks
        /\ live'.pc = "began" => live'.seen \in Snapshots
    <3>1. CASE AlreadyApplied(live.ev)
      BY <1>1, <3>1, GoesOn DEF LiveBegins, TaskTypes
    <3>2. CASE ~AlreadyApplied(live.ev)
      BY <1>1, <3>2 DEF LiveBegins, TaskTypes, StoreTypes, LiveTasks, LivePcs
    <3> QED BY <3>1, <3>2
  <2>2. UNCHANGED <<kept, rec, writer, used>>
    BY <1>1 DEF LiveBegins, kept, store
  <2> QED BY <2>1, <2>2 DEF StoreTypes, TaskTypes, kept
<1>2. CASE LiveCommits
  <2>1. live.seen \in Snapshots /\ live.ev \in Nat
    BY <1>2 DEF LiveCommits, LiveTasks, TaskTypes
  <2>2. live' \in LiveTasks /\ live'.pc # "began"
    BY <1>2 DEF LiveCommits, LiveTasks, LivePcs, TaskTypes
  <2>3. cursor' \in Nat /\ record' \in Snapshots /\ columns' \in Columns
    BY <1>2, <2>1, AppliedTypes DEF LiveCommits
  <2>4. UNCHANGED <<log, truth, process, rec, writer, used>>
    BY <1>2 DEF LiveCommits
  <2> QED BY <2>2, <2>3, <2>4 DEF StoreTypes, TaskTypes
<1>3. CASE LiveEmits
  <2>1. live' \in LiveTasks /\ live'.pc # "began"
    BY <1>3, GoesOn DEF LiveEmits, TaskTypes
  <2>2. UNCHANGED <<kept, rec, writer, used>>
    BY <1>3 DEF LiveEmits, kept, store
  <2> QED BY <2>1, <2>2 DEF StoreTypes, TaskTypes, kept
<1>4. CASE LiveTells
  <2>1. live' \in LiveTasks /\ live'.pc # "began"
    BY <1>4 DEF LiveTells, TaskTypes, LiveTasks, LivePcs
  <2>2. UNCHANGED <<kept, rec, writer, used>>
    BY <1>4 DEF LiveTells, kept, store
  <2> QED BY <2>1, <2>2 DEF StoreTypes, TaskTypes, kept
<1>5. CASE LiveFails
  <2>1. live.seen \in Snapshots /\ live.ev \in Nat
    BY <1>5 DEF LiveFails, LiveTasks, TaskTypes
  <2>2. live' \in LiveTasks /\ live'.pc # "began"
    BY <1>5 DEF LiveFails, LiveTasks, LivePcs, TaskTypes
  <2>3. cursor' \in Nat /\ record' \in Snapshots /\ columns' \in Columns
    BY <1>5, <2>1, AppliedTypes DEF LiveFails, store, StoreTypes
  <2>4. used' \in FaultCounts
    BY <1>5, UseCounts DEF LiveFails, TaskTypes
  <2>5. UNCHANGED <<log, truth, process, rec, writer>>
    BY <1>5 DEF LiveFails
  <2> QED BY <2>2, <2>3, <2>4, <2>5 DEF StoreTypes, TaskTypes
<1> QED BY <1>1, <1>2, <1>3, <1>4, <1>5 DEF Projector

(* A recovery that is over.                                                *)
LEMMA RecoveryOver ==
  ASSUME rec \in Recoveries
  PROVE /\ NoRec \in Recoveries /\ NoRec.pc = "idle"
        /\ [NoRec EXCEPT !.due = rec.due] \in Recoveries
        /\ [NoRec EXCEPT !.due = rec.due].pc = "idle"
<1>1. NoRec \in Recoveries /\ NoRec.pc = "idle"
  BY DEF NoRec, Recoveries, RecPcs
<1>2. rec.due \in BOOLEAN
  BY DEF Recoveries
<1> QED BY <1>1, <1>2 DEF Recoveries

(* FinishedRecord and FinishedColumns.                                     *)
LEMMA FinishedTypes ==
  ASSUME NEW r \in Snapshots, NEW c \in Columns, NEW status \in Statuses
  PROVE /\ FinishedRecord(r, status) \in Snapshots
        /\ FinishedColumns(c, status) \in Columns
BY DEF FinishedRecord, FinishedColumns, Snapshots, Columns, Statuses

LEMMA LostTypes ==
  ASSUME StoreTypes, ProcessLost
  PROVE /\ log' \in 0..N /\ log <= log' /\ truth' \in Statuses /\ truth' # "running"
        /\ truth # "running" => UNCHANGED <<log, truth>>
BY BoundsAssumption DEF StoreTypes, ProcessLost, Statuses

(* The recovery.                                                           *)
LEMMA RecoveryTypes ==
  ASSUME Types, Recovery \/ CatchFails
  PROVE Types'
<1> USE DEF Types
<1>1. CASE RecoveryBegins
  <2>1. /\ rec' \in Recoveries
        /\ rec'.pc # "idle" => rec'.seen \in Snapshots /\ rec'.cols \in Columns
    BY <1>1, RecoveryOver DEF RecoveryBegins, TaskTypes, StoreTypes, NoRec, Recoveries, RecPcs
  <2>2. UNCHANGED <<kept, live, writer, used>>
    BY <1>1 DEF RecoveryBegins, kept, store
  <2> QED BY <2>1, <2>2 DEF StoreTypes, TaskTypes, kept
<1>2. CASE CatchBegins
  <2>1. rec' \in Recoveries /\ rec'.pc = rec.pc /\ rec'.seen = rec.seen /\ rec'.cols = rec.cols
    <3>1. rec.pos + 1 \in Nat /\ <<record>> \in Seq(Snapshots)
      BY DEF TaskTypes, StoreTypes, Recoveries
    <3>2. \/ rec' = [rec EXCEPT !.pos = rec.pos + 1]
          \/ rec' = [rec EXCEPT !.began = <<record>>]
      BY <1>2 DEF CatchBegins
    <3> QED BY <3>1, <3>2 DEF TaskTypes, Recoveries
  <2>2. UNCHANGED <<kept, live, writer, used>>
    BY <1>2 DEF CatchBegins, kept, store
  <2> QED BY <2>1, <2>2 DEF StoreTypes, TaskTypes, kept
<1>3. CASE CatchCommits
  <2>1. rec' \in Recoveries /\ rec'.pc = rec.pc /\ rec'.seen = rec.seen /\ rec'.cols = rec.cols
    <3>1. rec.pos + 1 \in Nat /\ <<>> \in Seq(Snapshots)
      BY DEF TaskTypes, Recoveries
    <3>2. rec' = [rec EXCEPT !.began = <<>>, !.pos = rec.pos + 1]
      BY <1>3 DEF CatchCommits
    <3> QED BY <3>1, <3>2 DEF TaskTypes, Recoveries
  <2>2. rec.began[1] \in Snapshots /\ rec.pos + 1 \in Nat
    BY <1>3 DEF CatchCommits, TaskTypes, Recoveries
  <2>3. cursor' \in Nat /\ record' \in Snapshots /\ columns' \in Columns
    BY <1>3, <2>2, AppliedTypes DEF CatchCommits
  <2>4. UNCHANGED <<log, truth, process, live, writer, used>>
    BY <1>3 DEF CatchCommits
  <2> QED BY <2>1, <2>3, <2>4 DEF StoreTypes, TaskTypes
<1>4. CASE CatchFails
  <2>1. rec' \in Recoveries /\ rec'.pc = "idle"
    BY <1>4, RecoveryOver DEF CatchFails, TaskTypes
  <2>2. rec.began[1] \in Snapshots /\ rec.pos + 1 \in Nat
    BY <1>4 DEF CatchFails, TaskTypes, Recoveries
  <2>3. cursor' \in Nat /\ record' \in Snapshots /\ columns' \in Columns
    BY <1>4, <2>2, AppliedTypes DEF CatchFails, store, StoreTypes
  <2>4. used' \in FaultCounts
    BY <1>4, UseCounts DEF CatchFails, TaskTypes
  <2>5. UNCHANGED <<log, truth, process, live, writer>>
    BY <1>4 DEF CatchFails
  <2> QED BY <2>1, <2>3, <2>4, <2>5 DEF StoreTypes, TaskTypes
<1>5. CASE RecoveryLosesRun
  <2>1. rec' \in Recoveries /\ rec'.seen = rec.seen /\ rec'.cols = rec.cols /\ rec.pc # "idle"
    BY <1>5 DEF RecoveryLosesRun, TaskTypes, StoreTypes, Recoveries, RecPcs
  <2>2. log' \in 0..N /\ truth' \in Statuses /\ truth' # "running"
    BY <1>5, LostTypes DEF RecoveryLosesRun
  <2>3. UNCHANGED <<process, cursor, record, columns, live, writer, used>>
    BY <1>5 DEF RecoveryLosesRun, store
  <2> QED BY <2>1, <2>2, <2>3 DEF StoreTypes, TaskTypes
<1>6. CASE RecoveryRefreshes
  <2>1. rec' \in Recoveries /\ rec'.seen = record /\ rec'.cols = rec.cols /\ rec.pc # "idle"
    BY <1>6 DEF RecoveryRefreshes, TaskTypes, StoreTypes, Recoveries, RecPcs
  <2>2. UNCHANGED <<kept, live, writer, used>>
    BY <1>6 DEF RecoveryRefreshes, kept, store
  <2> QED BY <2>1, <2>2 DEF StoreTypes, TaskTypes, kept
<1>7. CASE RecoveryReconciles
  <2>1. rec' \in Recoveries /\ rec'.seen = rec.seen /\ rec'.cols = rec.cols /\ rec.pc # "idle"
    BY <1>7 DEF RecoveryReconciles, TaskTypes, Recoveries, RecPcs
  <2>2. record' \in Snapshots /\ columns' \in Columns
    BY <1>7, FinishedTypes DEF RecoveryReconciles, TaskTypes, StoreTypes
  <2>3. UNCHANGED <<log, truth, process, cursor, live, writer, used>>
    BY <1>7 DEF RecoveryReconciles
  <2> QED BY <2>1, <2>2, <2>3 DEF StoreTypes, TaskTypes
<1>8. CASE RecoveryAbandons
  <2>1. UNCHANGED <<log, truth, process, cursor, live, writer, used>> /\ rec.pc # "idle"
    BY <1>8 DEF RecoveryAbandons
  <2>2. CASE rec.seen.active \/ rec.cols.status = "running"
    <3>1. rec' \in Recoveries /\ rec'.seen = rec.seen /\ rec'.cols = rec.cols
      BY <1>8, <2>2 DEF RecoveryAbandons, TaskTypes, Recoveries, RecPcs
    <3>2. PICK status \in Statuses :
            record' = FinishedRecord(rec.seen, status) /\ columns' = FinishedColumns(columns, status)
      <4>1. rec.seen.status \in Statuses /\ "failed" \in Statuses
        BY <2>1 DEF TaskTypes, Snapshots, Statuses
      <4> QED BY <1>8, <2>2, <4>1 DEF RecoveryAbandons
    <3>3. record' \in Snapshots /\ columns' \in Columns
      BY <2>1, <3>2, FinishedTypes DEF TaskTypes, StoreTypes
    <3> QED BY <2>1, <3>1, <3>3 DEF StoreTypes, TaskTypes
  <2>3. CASE ~(rec.seen.active \/ rec.cols.status = "running")
    BY <1>8, <2>1, <2>3, RecoveryOver DEF RecoveryAbandons, StoreTypes, TaskTypes
  <2> QED BY <2>2, <2>3
<1>9. CASE RecoveryTells
  <2>1. rec' \in Recoveries /\ rec'.pc = "idle"
    BY <1>9, RecoveryOver DEF RecoveryTells, TaskTypes
  <2>2. UNCHANGED <<kept, live, writer, used>>
    BY <1>9 DEF RecoveryTells, kept, store
  <2> QED BY <2>1, <2>2 DEF StoreTypes, TaskTypes, kept
<1> QED BY <1>1, <1>2, <1>3, <1>4, <1>5, <1>6, <1>7, <1>8, <1>9 DEF Recovery

(* The Run, the process, the writer and the connection.                    *)
LEMMA OtherTypes ==
  ASSUME Types,
         RunAppends \/ Starting \/ Crash \/ WriterReads \/ WriterCommits \/ Register
  PROVE Types'
<1> USE DEF Types
<1>1. CASE RunAppends
  <2>1. log' \in 0..N /\ truth' \in Statuses /\ (truth' = "running" => log' < N)
    BY <1>1, BoundsAssumption DEF RunAppends, StoreTypes, Statuses
  <2>2. UNCHANGED <<process, cursor, record, columns, live, rec, writer, used>>
    BY <1>1 DEF RunAppends, store
  <2> QED BY <2>1, <2>2 DEF StoreTypes, TaskTypes
<1>2. CASE Boot
  <2>1. log' \in 0..N /\ truth' \in Statuses /\ truth' # "running"
    BY <1>2, LostTypes DEF Boot
  <2>2. UNCHANGED <<cursor, record, columns, live, rec, writer, used>>
    BY <1>2 DEF Boot, store
  <2>3. process' \in {"up", "booting"}
    BY <1>2 DEF Boot
  <2> QED BY <2>1, <2>2, <2>3 DEF StoreTypes, TaskTypes
<1>3. CASE BootReconciles
  <2>1. record' \in Snapshots /\ columns' \in Columns
    BY <1>3, FinishedTypes DEF BootReconciles, StoreTypes
  <2>2. UNCHANGED <<log, truth, cursor, live, rec, writer, used>> /\ process' = "up"
    BY <1>3 DEF BootReconciles
  <2> QED BY <2>1, <2>2 DEF StoreTypes, TaskTypes
<1>4. CASE Crash
  <2>1. live' \in LiveTasks /\ live'.pc = "done"
    BY <1>4 DEF Crash, TaskTypes, LiveTasks, LivePcs
  <2>2. rec' \in Recoveries /\ rec'.pc = "idle" /\ writer' \in Seq(Snapshots)
    BY <1>4, RecoveryOver DEF Crash, TaskTypes
  <2>3. used' \in FaultCounts
    BY <1>4, UseCounts DEF Crash, TaskTypes
  <2>4. UNCHANGED <<log, truth, cursor, record, columns>> /\ process' = "down"
    BY <1>4 DEF Crash, store
  <2> QED BY <2>1, <2>2, <2>3, <2>4 DEF StoreTypes, TaskTypes
<1>5. CASE WriterReads
  <2>1. used' \in FaultCounts
    BY <1>5, UseCounts DEF WriterReads, TaskTypes
  <2>2. writer' \in Seq(Snapshots)
    BY <1>5 DEF WriterReads, StoreTypes
  <2>3. UNCHANGED <<kept, live, rec>>
    BY <1>5 DEF WriterReads, kept, store
  <2> QED BY <2>1, <2>2, <2>3 DEF StoreTypes, TaskTypes, kept
<1>6. CASE WriterCommits
  <2>1. record' \in Snapshots /\ writer' \in Seq(Snapshots)
    BY <1>6 DEF WriterCommits, TaskTypes
  <2>2. UNCHANGED <<log, truth, process, cursor, columns, live, rec, used>>
    BY <1>6 DEF WriterCommits
  <2> QED BY <2>1, <2>2 DEF StoreTypes, TaskTypes
<1>7. CASE Register
  <2>1. /\ rec' \in Recoveries /\ rec'.pc = rec.pc
        /\ rec'.seen = rec.seen /\ rec'.cols = rec.cols
    BY <1>7 DEF Register, TaskTypes, Recoveries
  <2>2. UNCHANGED <<kept, live, writer, used>>
    BY <1>7 DEF Register, kept, store
  <2> QED BY <2>1, <2>2 DEF StoreTypes, TaskTypes, kept
<1> QED BY <1>1, <1>2, <1>3, <1>4, <1>5, <1>6, <1>7 DEF Starting

(* Steps that leave the store and its writers alone.                       *)
BrowserStep ==
  \/ Drop \/ ReplayFails \/ Accept \/ ClientOpens \/ Deliver \/ Replaying \/ UNCHANGED vars

LEMMA BrowserFrame ==
  ASSUME Types, BrowserStep
  PROVE /\ UNCHANGED <<kept, live, rec, writer>>
        /\ used' \in FaultCounts /\ used'.write = used.write
<1> USE DEF kept, store
<1>1. CASE Drop
  <2>1. used' \in FaultCounts /\ used'.write = used.write + 0
    BY <1>1, UseCounts DEF Drop, Types, TaskTypes
  <2> QED BY <1>1, <2>1 DEF Drop, Types, TaskTypes, FaultCounts
<1>2. CASE ReplayFails
  <2>1. used' \in FaultCounts /\ used'.write = used.write + 0
    BY <1>2, UseCounts DEF ReplayFails, Types, TaskTypes
  <2> QED BY <1>2, <2>1 DEF ReplayFails, Types, TaskTypes, FaultCounts
<1>3. CASE Accept \/ ClientOpens \/ Deliver
  BY <1>3 DEF Accept, ClientOpens, Deliver, Types, TaskTypes
<1>4. CASE Replaying
  BY <1>4 DEF Replaying, ReplayRead, ReplayApplies, Types, TaskTypes
<1>5. CASE UNCHANGED vars
  BY <1>5 DEF vars, Types, TaskTypes
<1> QED BY <1>1, <1>2, <1>3, <1>4, <1>5 DEF BrowserStep

(* A step of the system, by what it touches.                               *)
LEMMA NextCases ==
  ASSUME [Next]_vars
  PROVE \/ Projector \/ LiveFails \/ Recovery \/ CatchFails
        \/ RunAppends \/ Starting \/ Crash \/ WriterReads \/ WriterCommits \/ Register
        \/ BrowserStep
BY DEF Next, Faults, Connecting, BrowserStep

LEMMA TypesStep == Types /\ [Next]_vars => Types'
<1> SUFFICES ASSUME Types, [Next]_vars PROVE Types'
  OBVIOUS
<1>1. CASE BrowserStep
  BY <1>1, BrowserFrame DEF Types, StoreTypes, TaskTypes, kept
<1> QED BY <1>1, NextCases, LiveTypes, RecoveryTypes, OtherTypes

-----------------------------------------------------------------------------
(* The browser.                                                            *)

(* The events that follow the cursor without a gap end somewhere.          *)
LEMMA UptoReached ==
  ASSUME NEW last \in 0..N, NEW pend \in SUBSET (1..N)
  PROVE LET k == Upto(last, pend)
        IN  k \in last..N /\ (last + 1)..k \subseteq pend
<1> DEFINE Gaps == {k \in Nat : k >= last /\ (k + 1) \notin pend}
<1>1. N \in Gaps
  BY BoundsAssumption
<1>2. PICK k \in Gaps : \A j \in Gaps : k <= j
  BY <1>1, LeastNumber
<1>3. k \in last..N /\ (k + 1) \notin pend
  BY <1>1, <1>2, BoundsAssumption
<1>4. ASSUME NEW e \in (last + 1)..k, e \notin pend PROVE FALSE
  <2>1. e - 1 \in Gaps
    BY <1>4, <1>3, BoundsAssumption
  <2> QED BY <2>1, <1>2, <1>4, BoundsAssumption
<1>5. (last + 1)..k \subseteq pend
  BY <1>4
<1> QED BY <1>3, <1>5 DEF Upto

(* What is dispatched is the next interval of the log.                     *)
LEMMA DispatchShows ==
  ASSUME log \in 0..N, client \in Streams(log), ShownInOrder,
         NEW events \in SUBSET (1..log), Dispatch(events)
  PROVE /\ client' \in Streams(log)
        /\ shown' = [i \in 1..client'.last |-> i]
<1> DEFINE last == client.last
           pend == client.pend \cup {e \in events : e > last}
           k == Upto(last, pend)
           m == k - last
           fresh == {e \in pend : e > last /\ e <= k}
<1>1. log \in Nat /\ N \in Nat /\ log <= N
  BY BoundsAssumption
<1>2. last \in 0..log /\ pend \in SUBSET (1..log)
  BY DEF Streams
<1>3. k \in last..N /\ (last + 1)..k \subseteq pend
  BY <1>1, <1>2, UptoReached
<1>4. k \in last..log
  <2>1. CASE k = last
    BY <2>1, <1>2
  <2>2. CASE k # last
    BY <2>2, <1>1, <1>2, <1>3
  <2> QED BY <2>1, <2>2
<1>5. m \in Nat /\ last \in Nat /\ last + m = k /\ fresh = (last + 1)..(last + m)
  BY <1>1, <1>2, <1>3, <1>4
<1>6. InOrder(fresh) = [i \in 1..m |-> last + i]
  BY <1>5, InOrderInterval
<1>7. shown' = [i \in 1..last |-> i] \o [i \in 1..m |-> last + i]
  BY <1>6 DEF Dispatch, ShownInOrder
<1>8. [i \in 1..last |-> i] \o [i \in 1..m |-> last + i] = [i \in 1..k |-> i]
  BY <1>5, IntervalsJoin
<1>9. /\ client' = [client EXCEPT
             !.known = @ \/ events # {}, !.pend = {e \in pend : e > k}, !.last = k,
             !.active = @ /\ ~(k > last /\ Terminal(k))]
  BY DEF Dispatch
<1>10. client' \in Streams(log) /\ client'.last = k
  <2> DEFINE kn == client.known \/ events # {}
             ac == client.active /\ ~(k > last /\ Terminal(k))
             pe == {e \in pend : e > k}
  <2>1. kn \in BOOLEAN /\ ac \in BOOLEAN
    OBVIOUS
  <2>2. pe \in SUBSET (1..log)
    BY <1>2
  <2>3. client' = [client EXCEPT !.known = kn, !.pend = pe, !.last = k, !.active = ac]
    BY <1>9
  <2>4. k \in 0..log
    BY <1>1, <1>2, <1>4
  <2> HIDE DEF k, kn, ac, pe
  <2> QED BY <2>1, <2>2, <2>3, <2>4 DEF Streams
<1> QED BY <1>7, <1>8, <1>10

(* What travels stays in the log as it grows.                              *)
LEMMA LogGrows ==
  ASSUME log \in 0..N, log' \in 0..N, log <= log', live \in LiveTasks, LogHoldsAll,
         UNCHANGED <<wire, browser, live>>
  PROVE LogHoldsAll' /\ (ShownInOrder => ShownInOrder')
<1> USE BoundsAssumption
<1>1. 1..log \subseteq 1..log' /\ 0..log \subseteq 0..log'
  OBVIOUS
<1>2. wire \in Seq(Travelling')
  <2>1. Travelling \subseteq Travelling'
    BY <1>1 DEF Travelling, Ack, Notice
  <2> QED BY <2>1, SeqMonotonic DEF LogHoldsAll
<1>3. client \in Streams(log') /\ replay \in Replays(log')
  BY <1>1 DEF LogHoldsAll, Streams, Replays
<1>4. live.pc \in {"began", "emit"} => live.ev <= log'
  BY DEF LiveTasks, LogHoldsAll
<1>5. ShownInOrder => ShownInOrder'
  BY <1>1 DEF ShownInOrder, browser, LogHoldsAll, Streams
<1> QED BY <1>2, <1>3, <1>4, <1>5 DEF LogHoldsAll, browser

(* A step of the projector or of the recovery that publishes nothing.      *)
LEMMA Silent ==
  ASSUME LogHoldsAll, ShownInOrder, UNCHANGED <<log, wire, browser>>,
         live'.pc \in {"began", "emit"} => live'.ev <= log
  PROVE LogHoldsAll' /\ ShownInOrder'
BY DEF LogHoldsAll, ShownInOrder, browser, Travelling

(* A step that publishes what the log holds, or a notice.                  *)
LEMMA Published ==
  ASSUME LogHoldsAll, ShownInOrder, NEW x \in Travelling, Emit(x), UNCHANGED <<log, browser>>,
         live'.pc \in {"began", "emit"} => live'.ev <= log
  PROVE LogHoldsAll' /\ ShownInOrder'
<1>1. wire' \in Seq(Travelling)
  BY DEF Emit, LogHoldsAll
<1> QED BY <1>1 DEF LogHoldsAll, ShownInOrder, browser, Travelling

LEMMA BrowserInit == Init => BrowserInv
<1> SUFFICES ASSUME Init PROVE BrowserInv
  OBVIOUS
<1>1. wire \in Seq(Travelling)
  BY DEF Init, Travelling
<1>2. client \in Streams(log) /\ replay \in Replays(log)
  BY DEF Init, Streams, Replays, NoReplay
<1>3. shown = [i \in 1..client.last |-> i] /\ client.last <= log
  <2>1. client.last = 0 /\ shown = <<>> /\ log = 0
    BY DEF Init
  <2>2. [i \in 1..0 |-> i] = <<>>
    BY SeqEqual
  <2> QED BY <2>1, <2>2
<1> QED BY <1>1, <1>2, <1>3, TypesInit DEF BrowserInv, LogHoldsAll, ShownInOrder, Init

LEMMA BrowserStepInv ==
  ASSUME BrowserInv, BrowserStep
  PROVE LogHoldsAll' /\ ShownInOrder'
<1> USE DEF BrowserInv
<1>0. UNCHANGED <<log, live>> /\ log \in 0..N
  BY BrowserFrame DEF kept, Types, StoreTypes
<1>1. CASE Drop
  <2>1. wire' = <<>> /\ client' = [client EXCEPT !.open = FALSE] /\ UNCHANGED <<replay, shown>>
    BY <1>1 DEF Drop, Dropped
  <2>2. wire' \in Seq(Travelling)
    BY <2>1
  <2>3. client' \in Streams(log) /\ client'.last = client.last
    BY <2>1 DEF LogHoldsAll, Streams
  <2> QED BY <1>0, <2>1, <2>2, <2>3 DEF LogHoldsAll, ShownInOrder, Travelling
<1>2. CASE ReplayFails
  <2>1. replay' = NoReplay /\ UNCHANGED <<wire, client, shown>>
    BY <1>2 DEF ReplayFails
  <2>2. replay' \in Replays(log)
    BY <2>1 DEF NoReplay, Replays
  <2> QED BY <1>0, <2>1, <2>2 DEF LogHoldsAll, ShownInOrder, Travelling
<1>3. CASE Accept
  BY <1>0, <1>3, Silent DEF Accept, LogHoldsAll
<1>4. CASE ClientOpens
  <2>1. client' = [client EXCEPT !.open = TRUE] /\ UNCHANGED <<wire, shown>>
    BY <1>4 DEF ClientOpens
  <2>2. client' \in Streams(log) /\ client'.last = client.last
    BY <2>1 DEF LogHoldsAll, Streams
  <2>3. replay' \in Replays(log)
    <3>1. client.last \in Nat
      BY <1>0, BoundsAssumption DEF LogHoldsAll, Streams
    <3> QED BY <1>4, <3>1 DEF ClientOpens, LogHoldsAll, Replays
  <2> QED BY <1>0, <2>1, <2>2, <2>3 DEF LogHoldsAll, ShownInOrder, Travelling
<1>5. CASE Deliver
  <2>1. wire # <<>> /\ wire' = Tail(wire) /\ UNCHANGED replay
    BY <1>5 DEF Deliver
  <2>2. wire' \in Seq(Travelling) /\ Head(wire) \in Travelling
    BY <2>1 DEF LogHoldsAll
  <2>3. client' \in Streams(log) /\ shown' = [i \in 1..client'.last |-> i]
    <3>1. CASE Head(wire) \in {Ack, Notice}
      <4>1. /\ \E on \in BOOLEAN : client' = [client EXCEPT !.active = on]
            /\ UNCHANGED shown
        BY <1>5, <3>1, BoundsAssumption DEF Deliver, Ack, Notice
      <4>2. client' \in Streams(log) /\ client'.last = client.last
        BY <4>1 DEF LogHoldsAll, Streams
      <4> QED BY <4>1, <4>2 DEF ShownInOrder
    <3>2. CASE Head(wire) \notin {Ack, Notice}
      <4>1. Dispatch({Head(wire)})
        BY <1>5, <3>2 DEF Deliver
      <4>2. {Head(wire)} \in SUBSET (1..log)
        BY <2>2, <3>2 DEF Travelling
      <4> QED BY <1>0, <4>1, <4>2, DispatchShows DEF LogHoldsAll
    <3> QED BY <3>1, <3>2
  <2>4. client'.last <= log'
    BY <1>0, <2>3, BoundsAssumption DEF Streams
  <2> QED BY <1>0, <2>1, <2>2, <2>3, <2>4 DEF LogHoldsAll, ShownInOrder, Travelling
<1>6. CASE ReplayRead
  <2>1. UNCHANGED <<wire, client, shown>>
    BY <1>6 DEF ReplayRead
  <2>2. replay' \in Replays(log)
    <3>1. {e \in 1..log : e > replay.after /\ e <= replay.after + PageSize} \in SUBSET (1..log)
          /\ log \in Nat
      BY <1>0, BoundsAssumption
    <3> QED BY <1>6, <3>1 DEF ReplayRead, LogHoldsAll, Replays
  <2> QED BY <1>0, <2>1, <2>2 DEF LogHoldsAll, ShownInOrder, Travelling
<1>7. CASE ReplayApplies
  <2>1. replay.page \in SUBSET (1..log) /\ Dispatch(replay.page) /\ UNCHANGED wire
    BY <1>7 DEF ReplayApplies, LogHoldsAll, Replays
  <2>2. client' \in Streams(log) /\ shown' = [i \in 1..client'.last |-> i]
    BY <1>0, <2>1, DispatchShows DEF LogHoldsAll
  <2>3. client'.last \in Nat /\ client'.last <= log'
    BY <1>0, <2>2, BoundsAssumption DEF Streams
  <2>4. replay' \in Replays(log)
    BY <1>7, <2>3 DEF ReplayApplies, NoReplay, Replays
  <2> QED BY <1>0, <2>1, <2>2, <2>3, <2>4 DEF LogHoldsAll, ShownInOrder, Travelling
<1>8. CASE UNCHANGED vars
  BY <1>0, <1>8, Silent DEF vars, browser, LogHoldsAll
<1> QED
  BY <1>1, <1>2, <1>3, <1>4, <1>5, <1>6, <1>7, <1>8 DEF BrowserStep, Replaying

LEMMA BrowserInvStep == BrowserInv /\ [Next]_vars => BrowserInv'
<1> SUFFICES ASSUME BrowserInv, [Next]_vars PROVE LogHoldsAll' /\ ShownInOrder'
  BY TypesStep DEF BrowserInv
<1> USE DEF BrowserInv
<1>1. log \in 0..N /\ live \in LiveTasks /\ Notice \in Travelling
  BY DEF Types, StoreTypes, TaskTypes, Travelling
<1>2. CASE LiveBegins
  <2>1. live'.pc = "began" => live'.ev <= log
    BY <1>1, <1>2 DEF LiveBegins, LiveTasks
  <2>2. live'.pc # "emit"
    BY <1>1, <1>2 DEF LiveBegins, LiveTasks
  <2> QED BY <1>2, <2>1, <2>2, Silent DEF LiveBegins
<1>3. CASE LiveCommits
  <2>1. live'.pc = "emit" /\ live'.ev = live.ev /\ live.ev <= log
    BY <1>1, <1>3 DEF LiveCommits, LiveTasks, LogHoldsAll
  <2> QED BY <1>3, <2>1, Silent DEF LiveCommits
<1>4. CASE LiveEmits
  <2>1. live'.pc \notin {"began", "emit"}
    BY <1>1, <1>4, GoesOn DEF LiveEmits
  <2>2. live.ev \in Travelling
    BY <1>1, <1>4, BoundsAssumption DEF LiveEmits, LogHoldsAll, Travelling, LiveTasks
  <2> QED BY <1>4, <2>1, <2>2, Published DEF LiveEmits
<1>5. CASE LiveTells
  <2>1. live'.pc = "done"
    BY <1>1, <1>5 DEF LiveTells, LiveTasks
  <2> QED BY <1>1, <1>5, <2>1, Published DEF LiveTells
<1>6. CASE LiveFails
  <2>1. live'.pc = "next"
    BY <1>1, <1>6 DEF LiveFails, LiveTasks
  <2> QED BY <1>6, <2>1, Silent DEF LiveFails
<1>7. CASE RecoveryLosesRun \/ Boot
  <2>1. UNCHANGED <<wire, browser, live>> /\ ProcessLost
    BY <1>7 DEF RecoveryLosesRun, Boot
  <2> QED BY <1>1, <2>1, LostTypes, LogGrows DEF Types
<1>8. CASE RunAppends
  <2>1. UNCHANGED <<wire, browser, live>> /\ log' = log + 1 /\ log < N
    BY <1>8 DEF RunAppends
  <2> QED BY <1>1, <2>1, LogGrows, BoundsAssumption
<1>9. CASE RecoveryTells
  BY <1>1, <1>9, Published DEF RecoveryTells, LogHoldsAll
<1>10. CASE RecoveryBegins \/ CatchBegins \/ CatchCommits \/ RecoveryRefreshes
            \/ RecoveryReconciles \/ RecoveryAbandons
  <2>1. UNCHANGED <<log, wire, browser, live>>
    BY <1>10 DEF RecoveryBegins, CatchBegins, CatchCommits, RecoveryRefreshes,
       RecoveryReconciles, RecoveryAbandons
  <2> QED BY <2>1, Silent DEF LogHoldsAll
<1>11. CASE CatchFails \/ BootReconciles \/ WriterReads \/ WriterCommits \/ Register
  <2>1. UNCHANGED <<log, wire, browser, live>>
    BY <1>11 DEF CatchFails, BootReconciles, WriterReads, WriterCommits, Register
  <2> QED BY <2>1, Silent DEF LogHoldsAll
<1>12. CASE Crash
  <2>1. wire' = <<>> /\ client' = [client EXCEPT !.open = FALSE] /\ UNCHANGED <<log, replay, shown>>
    BY <1>12 DEF Crash, Dropped
  <2>2. wire' \in Seq(Travelling)
    BY <2>1
  <2>3. client' \in Streams(log) /\ client'.last = client.last
    BY <2>1 DEF LogHoldsAll, Streams
  <2>4. live'.pc = "done"
    BY <1>1, <1>12 DEF Crash, LiveTasks
  <2> QED BY <2>1, <2>2, <2>3, <2>4 DEF LogHoldsAll, ShownInOrder, Travelling
<1>13. CASE BrowserStep
  BY <1>13, BrowserStepInv
<1> QED
  BY <1>2, <1>3, <1>4, <1>5, <1>6, <1>7, <1>8, <1>9, <1>10, <1>11, <1>12, <1>13, NextCases
  DEF Projector, Recovery, Starting

(* The browser shows the log in order and each event once, over live       *)
(* messages and replays that overlap, dropped connections and crashes.     *)
THEOREM BrowserShowsLog == Spec => []ShownInOrder
<1>1. BrowserInv => ShownInOrder
  BY DEF BrowserInv
<1> QED BY <1>1, BrowserInit, BrowserInvStep, PTL DEF Spec

-----------------------------------------------------------------------------
(* The record.                                                             *)

(* What is true of the record itself.                                      *)
RecordOK == RecordIsTrue /\ cursor <= log /\ ActiveAgrees

LEMMA IntervalGrows ==
  ASSUME NEW n \in Nat
  PROVE Append([i \in 1..n |-> i], n + 1) = [i \in 1..(n + 1) |-> i]
<1>1. [i \in 1..n |-> i] \in Seq(Nat) /\ Len([i \in 1..n |-> i]) = n
  OBVIOUS
<1> QED BY <1>1

(* Applying the next event to the record as it is keeps the record true.   *)
LEMMA AppliedTrue ==
  ASSUME StoreTypes, RecordOK, Applied(record, cursor + 1), cursor < log, UNCHANGED <<log, truth>>
  PROVE RecordOK'
<1> DEFINE counted == [record EXCEPT !.applied = Append(@, cursor + 1)]
<1>1. counted \in Snapshots /\ counted.applied = [i \in 1..(cursor + 1) |-> i]
      /\ counted.status = record.status /\ counted.active = record.active
  <2>1. record.applied = [i \in 1..cursor |-> i] /\ record.applied \in Seq(Nat)
    BY DEF RecordOK, RecordIsTrue, AppliedIsCursor, StoreTypes, Snapshots
  <2>2. Append(record.applied, cursor + 1) \in Seq(Nat)
    BY <2>1 DEF StoreTypes
  <2>3. Append(record.applied, cursor + 1) = [i \in 1..(cursor + 1) |-> i]
    BY <2>1, IntervalGrows DEF StoreTypes
  <2> QED BY <2>2, <2>3 DEF StoreTypes, Snapshots
<1>2. cursor' = cursor + 1 /\ cursor' <= log'
  BY DEF Applied, StoreTypes
<1>3. CASE Terminal(cursor + 1)
  <2>1. record' = FinishedRecord(counted, truth) /\ columns' = FinishedColumns(columns, truth)
    BY <1>3 DEF Applied, Folded
  <2>2. /\ record'.applied = counted.applied /\ record'.status = truth /\ ~record'.active
        /\ ~columns'.active /\ columns'.status # "running" /\ record'.active = FALSE
    BY <1>1, <1>3, <2>1
    DEF FinishedRecord, FinishedColumns, Snapshots, StoreTypes, Columns, Terminal
  <2>3. columns'.active = FALSE
    BY <2>1 DEF FinishedColumns
  <2> QED BY <1>1, <1>2, <2>2, <2>3
          DEF RecordOK, RecordIsTrue, AppliedIsCursor, TruthShown, ActiveAgrees
<1>4. CASE ~Terminal(cursor + 1)
  <2>1. record' = counted /\ columns' = columns
    BY <1>4 DEF Applied, Folded
  <2> QED BY <1>1, <1>2, <2>1
          DEF RecordOK, RecordIsTrue, AppliedIsCursor, TruthShown, ActiveAgrees
<1> QED BY <1>3, <1>4

(* So does marking a Run that has ended as the Run ended.                  *)
LEMMA FinishedTrue ==
  ASSUME StoreTypes, RecordOK, truth # "running", UNCHANGED <<log, truth, cursor>>,
         record' = FinishedRecord(record, truth), columns' = FinishedColumns(columns, truth)
  PROVE RecordOK'
<1>1. /\ record'.applied = record.applied /\ record'.status = truth /\ record'.active = FALSE
      /\ columns'.active = FALSE /\ columns'.status # "running"
  BY DEF FinishedRecord, FinishedColumns, Snapshots, StoreTypes, Columns
<1> QED BY <1>1 DEF RecordOK, RecordIsTrue, AppliedIsCursor, TruthShown, ActiveAgrees

(* The Run may end while the record still shows it running.                *)
LEMMA LogMovesTrue ==
  ASSUME StoreTypes, RecordOK, UNCHANGED <<cursor, record, columns>>, log' \in Nat, log <= log',
         truth # "running" => truth' = truth
  PROVE RecordOK'
<1>1. record.status # "running" => truth # "running"
  BY DEF RecordOK, RecordIsTrue, TruthShown
<1>2. cursor' <= log'
  BY DEF RecordOK, StoreTypes
<1> QED BY <1>1, <1>2 DEF RecordOK, RecordIsTrue, AppliedIsCursor, TruthShown, ActiveAgrees

LEMMA RecordInit == Init => RecordInv
<1> SUFFICES ASSUME Init PROVE Unwritten
  BY TypesInit DEF RecordInv
<1>1. [i \in 1..0 |-> i] = <<>>
  BY SeqEqual
<1> QED BY <1>1 DEF Init, Unwritten, RecordIsTrue, AppliedIsCursor, TruthShown, ActiveAgrees,
           WritersExclude, LiveRuns, LiveFresh, CatchFresh, Catching, RecoveryKnows, NoRec

(* The projector's steps.                                                  *)
LEMMA LiveRecord ==
  ASSUME Types, Unwritten, Projector \/ LiveFails
  PROVE Unwritten'
<1> USE DEF Types, StoreTypes, TaskTypes
<1>1. UNCHANGED <<log, truth, process, rec, writer>>
  BY DEF Projector, LiveBegins, LiveCommits, LiveEmits, LiveTells, LiveFails
<1>2. live'.pc \in LivePcs /\ (live'.pc = "began" =>
         live.pc = "next" /\ live'.seen = record /\ live'.ev = cursor + 1 /\ live'.ev <= log)
  <2>1. CASE LiveBegins
    <3>1. CASE AlreadyApplied(live.ev)
      BY <2>1, <3>1, GoesOn DEF LiveBegins, LiveTasks
    <3>2. CASE ~AlreadyApplied(live.ev)
      BY <2>1, <3>2 DEF LiveBegins, LiveTasks, LivePcs
    <3> QED BY <3>1, <3>2
  <2>2. CASE LiveCommits \/ LiveTells \/ LiveFails
    BY <2>2 DEF LiveCommits, LiveTells, LiveFails, LiveTasks, LivePcs
  <2>3. CASE LiveEmits
    BY <2>3, GoesOn DEF LiveEmits, LiveTasks
  <2> QED BY <2>1, <2>2, <2>3 DEF Projector
<1>3. LiveRuns' => LiveRuns
  <2>1. CASE LiveTells
    BY <2>1 DEF LiveTells, LiveRuns, LiveTasks
  <2>2. CASE ~LiveTells
    BY <2>2 DEF Projector, LiveBegins, LiveCommits, LiveEmits, LiveFails, LiveRuns
  <2> QED BY <2>1, <2>2
<1>4. RecordOK' /\ (UNCHANGED <<cursor, record, columns>> \/ rec.pc = "idle")
  <2>1. CASE UNCHANGED <<cursor, record, columns>>
    BY <1>1, <2>1 DEF Unwritten, RecordOK, RecordIsTrue, AppliedIsCursor, TruthShown, ActiveAgrees
  <2>2. CASE ~UNCHANGED <<cursor, record, columns>>
    <3>1. live.pc = "began" /\ Applied(live.seen, live.ev)
      BY <2>2 DEF Projector, LiveBegins, LiveCommits, LiveEmits, LiveTells, LiveFails, store
    <3>2. Applied(record, cursor + 1) /\ cursor < log /\ rec.pc = "idle"
      BY <3>1 DEF Unwritten, LiveFresh, WritersExclude, LiveRuns
    <3> QED BY <1>1, <3>2, AppliedTrue DEF Unwritten, RecordOK
  <2> QED BY <2>1, <2>2
<1>5. LiveFresh'
  <2>1. ASSUME live'.pc = "began" PROVE LiveBegins
    BY <2>1, GoesOn DEF Projector, LiveCommits, LiveEmits, LiveTells, LiveFails, LiveTasks
  <2>2. ASSUME LiveBegins PROVE UNCHANGED <<cursor, record, log>>
    BY <2>2 DEF LiveBegins, store
  <2> QED BY <1>2, <2>1, <2>2 DEF LiveFresh
<1>6. CatchFresh' /\ RecoveryKnows'
  BY <1>1, <1>4 DEF Unwritten, CatchFresh, Catching, RecoveryKnows
<1>7. WritersExclude'
  BY <1>1, <1>3 DEF Unwritten, WritersExclude
<1> QED BY <1>1, <1>4, <1>5, <1>6, <1>7 DEF Unwritten, RecordOK

(* A recovery that has ended knows nothing, and the projector has not run. *)
LEMMA RecoveryEnds ==
  ASSUME Types, Unwritten, rec'.pc = "idle", RecordOK',
         UNCHANGED <<log, truth, process, live, writer>>,
         UNCHANGED <<cursor, record>> \/ ~LiveRuns
  PROVE Unwritten'
<1>1. LiveFresh'
  BY DEF Unwritten, LiveFresh, LiveRuns
<1> QED BY <1>1 DEF Unwritten, RecordOK, WritersExclude, LiveRuns, CatchFresh, Catching,
           RecoveryKnows

(* The recovery's steps.                                                   *)
LEMMA RecoveryRecord ==
  ASSUME Types, Unwritten, Recovery \/ CatchFails
  PROVE Unwritten'
<1> USE DEF Types, StoreTypes, TaskTypes
<1>0. RecordOK /\ UNCHANGED <<process, live, writer>>
  BY DEF Unwritten, RecordOK, Recovery, RecoveryBegins, CatchBegins, CatchCommits, CatchFails,
     RecoveryLosesRun, RecoveryRefreshes, RecoveryReconciles, RecoveryAbandons, RecoveryTells
<1>1. CASE RecoveryBegins
  <2>1. UNCHANGED kept /\ RecordOK'
    BY <1>0, <1>1 DEF RecoveryBegins, kept, store, RecordOK, RecordIsTrue, AppliedIsCursor,
       TruthShown, ActiveAgrees
  <2>2. CASE LiveRuns
    BY <1>0, <1>1, <2>1, <2>2, RecoveryEnds, RecoveryOver DEF RecoveryBegins, kept
  <2>3. CASE ~LiveRuns
    <3>1. /\ rec'.pc = "first" /\ rec'.seen = record /\ rec'.cols = columns
          /\ rec'.pos = cursor /\ rec'.began = <<>> /\ process = "up"
      BY <1>1, <2>3 DEF RecoveryBegins, NoRec
    <3> QED BY <1>0, <2>1, <2>3, <3>1
            DEF Unwritten, RecordOK, ActiveAgrees, WritersExclude, LiveRuns, LiveFresh,
                CatchFresh, Catching, RecoveryKnows, kept
  <2> QED BY <2>2, <2>3
<1>2. CASE CatchBegins
  <2>1. UNCHANGED kept /\ RecordOK' /\ rec.began = <<>> /\ rec.pos < log
        /\ rec.pos <= cursor /\ Catching
    BY <1>0, <1>2 DEF CatchBegins, kept, store, RecordOK, RecordIsTrue, AppliedIsCursor,
       TruthShown, ActiveAgrees, Unwritten, CatchFresh
  <2>2. /\ rec'.pc = rec.pc /\ rec'.seen = rec.seen /\ rec'.cols = rec.cols
        /\ \/ rec'.pos = rec.pos + 1 /\ rec'.began = <<>> /\ rec.pos + 1 <= cursor
           \/ rec'.pos = rec.pos /\ rec'.began = <<record>> /\ ~(rec.pos + 1 <= cursor)
    BY <1>2 DEF CatchBegins, Recoveries, AlreadyApplied
  <2>3. CatchFresh'
    BY <2>1, <2>2 DEF CatchFresh, Catching, kept, Recoveries
  <2> QED BY <1>0, <2>1, <2>2, <2>3
          DEF Unwritten, RecordOK, WritersExclude, LiveRuns, LiveFresh, RecoveryKnows, kept,
              Catching
<1>3. CASE CatchCommits
  <2>1. Applied(record, cursor + 1) /\ cursor < log /\ Catching /\ rec.pos = cursor
        /\ UNCHANGED <<log, truth>>
    BY <1>3 DEF CatchCommits, Unwritten, CatchFresh
  <2>2. RecordOK' /\ cursor' = cursor + 1
    BY <1>0, <2>1, AppliedTrue DEF Applied
  <2>3. /\ rec'.pc = rec.pc /\ rec'.seen = rec.seen /\ rec'.cols = rec.cols
        /\ rec'.pos = rec.pos + 1 /\ rec'.began = <<>>
    BY <1>3 DEF CatchCommits, Recoveries
  <2>4. ~LiveRuns
    BY <2>1 DEF Catching, Unwritten, WritersExclude
  <2> QED BY <1>0, <2>1, <2>2, <2>3, <2>4
          DEF Unwritten, RecordOK, WritersExclude, LiveRuns, LiveFresh, CatchFresh, Catching,
              RecoveryKnows
<1>4. CASE CatchFails
  <2>1. ~LiveRuns /\ rec'.pc = "idle" /\ UNCHANGED <<log, truth>>
    BY <1>4, RecoveryOver DEF CatchFails, Catching, Unwritten, WritersExclude
  <2>2. RecordOK'
    <3>1. CASE UNCHANGED store
      BY <1>0, <2>1, <3>1 DEF store, RecordOK, RecordIsTrue, AppliedIsCursor, TruthShown,
         ActiveAgrees
    <3>2. CASE ~UNCHANGED store
      <4>1. Applied(record, cursor + 1) /\ cursor < log
        BY <1>4, <3>2 DEF CatchFails, Unwritten, CatchFresh
      <4> QED BY <1>0, <2>1, <4>1, AppliedTrue
    <3> QED BY <3>1, <3>2
  <2> QED BY <1>0, <2>1, <2>2, RecoveryEnds
<1>5. CASE RecoveryLosesRun
  <2>1. /\ truth' # "running" /\ log' \in Nat /\ log <= log'
        /\ truth # "running" => UNCHANGED <<log, truth>>
    BY <1>5, LostTypes, BoundsAssumption DEF RecoveryLosesRun
  <2>2. RecordOK' /\ UNCHANGED <<cursor, record, columns>>
    BY <1>0, <1>5, <2>1, LogMovesTrue DEF RecoveryLosesRun, store
  <2>3. /\ rec.pc = "first" /\ rec.began = <<>> /\ ~LiveRuns /\ process = "up"
    BY <1>5 DEF RecoveryLosesRun, Unwritten, CatchFresh, Catching, WritersExclude, Recoveries
  <2>4. /\ rec'.seen = rec.seen /\ rec'.cols = rec.cols /\ rec'.began = <<>>
        /\ \/ rec'.pc = "second" /\ rec'.pos = cursor
           \/ rec'.pc = "abandoned" /\ ~rec.cols.active
    BY <1>5, <2>3 DEF RecoveryLosesRun, Recoveries
  <2> QED BY <1>0, <2>1, <2>2, <2>3, <2>4
          DEF Unwritten, RecordOK, WritersExclude, LiveRuns, LiveFresh, CatchFresh, Catching,
              RecoveryKnows
<1>6. CASE RecoveryRefreshes
  <2>1. UNCHANGED kept /\ RecordOK' /\ rec.pc = "second"
    BY <1>0, <1>6 DEF RecoveryRefreshes, kept, store, RecordOK, RecordIsTrue, AppliedIsCursor,
       TruthShown, ActiveAgrees
  <2>2. rec'.pc = "reconcile" /\ rec'.seen = record
    BY <1>6 DEF RecoveryRefreshes, Recoveries
  <2> QED BY <1>0, <2>1, <2>2
          DEF Unwritten, RecordOK, WritersExclude, LiveRuns, LiveFresh, CatchFresh, Catching,
              RecoveryKnows, kept
<1>7. CASE RecoveryReconciles
  <2>1. /\ truth # "running" /\ rec.pc = "reconcile" /\ UNCHANGED <<log, truth, cursor>>
        /\ record' = FinishedRecord(record, truth) /\ columns' = FinishedColumns(columns, truth)
    BY <1>7 DEF RecoveryReconciles, Unwritten, RecoveryKnows
  <2>2. RecordOK'
    BY <1>0, <2>1, FinishedTrue
  <2>3. rec'.pc = "tell" /\ ~LiveRuns
    BY <1>7 DEF RecoveryReconciles, Recoveries, Unwritten, WritersExclude
  <2> QED BY <1>0, <2>1, <2>2, <2>3
          DEF Unwritten, RecordOK, WritersExclude, LiveRuns, LiveFresh, CatchFresh, Catching,
              RecoveryKnows
<1>8. CASE RecoveryAbandons
  <2>1. ~(rec.seen.active \/ rec.cols.status = "running")
    BY <1>8 DEF RecoveryAbandons, Unwritten, RecoveryKnows
  <2>2. rec'.pc = "idle" /\ UNCHANGED kept
    BY <1>8, <2>1, RecoveryOver DEF RecoveryAbandons, kept
  <2>3. RecordOK'
    BY <1>0, <2>2 DEF kept, RecordOK, RecordIsTrue, AppliedIsCursor, TruthShown, ActiveAgrees
  <2> QED BY <1>0, <2>2, <2>3, RecoveryEnds DEF kept
<1>9. CASE RecoveryTells
  <2>1. rec'.pc = "idle" /\ UNCHANGED kept
    BY <1>9, RecoveryOver DEF RecoveryTells, kept, store
  <2>2. RecordOK'
    BY <1>0, <2>1 DEF kept, RecordOK, RecordIsTrue, AppliedIsCursor, TruthShown, ActiveAgrees
  <2> QED BY <1>0, <2>1, <2>2, RecoveryEnds DEF kept
<1> QED BY <1>1, <1>2, <1>3, <1>4, <1>5, <1>6, <1>7, <1>8, <1>9 DEF Recovery

(* The other steps.                                                        *)
LEMMA OtherRecord ==
  ASSUME Types, Unwritten, RunAppends \/ Starting \/ Crash \/ Register
  PROVE Unwritten'
<1> USE DEF Types, StoreTypes, TaskTypes
<1>0. RecordOK
  BY DEF Unwritten, RecordOK
<1>1. CASE RunAppends
  <2>1. /\ log' = log + 1 /\ truth = "running"
        /\ UNCHANGED <<process, cursor, record, columns, live, rec, writer>>
    BY <1>1 DEF RunAppends, store
  <2>2. RecordOK'
    BY <1>0, <2>1, LogMovesTrue
  <2> QED BY <2>1, <2>2 DEF Unwritten, RecordOK, WritersExclude, LiveRuns, LiveFresh, CatchFresh,
          Catching, RecoveryKnows, LiveTasks, Recoveries
<1>2. CASE Boot
  <2>1. /\ truth' # "running" /\ log' \in Nat /\ log <= log'
        /\ truth # "running" => UNCHANGED <<log, truth>>
    BY <1>2, LostTypes, BoundsAssumption DEF Boot
  <2>2. UNCHANGED <<cursor, record, columns, live, rec, writer>> /\ process = "down"
    BY <1>2 DEF Boot, store
  <2>3. RecordOK'
    BY <1>0, <2>1, <2>2, LogMovesTrue
  <2>4. ~LiveRuns /\ rec.pc = "idle"
    BY <2>2 DEF Unwritten, WritersExclude
  <2> QED BY <2>1, <2>2, <2>3, <2>4 DEF Unwritten, RecordOK, WritersExclude, LiveRuns, LiveFresh,
          CatchFresh, Catching, RecoveryKnows
<1>3. CASE BootReconciles
  <2>1. /\ process = "booting" /\ process' = "up" /\ truth # "running"
        /\ record' = FinishedRecord(record, truth) /\ columns' = FinishedColumns(columns, truth)
        /\ UNCHANGED <<log, truth, cursor, live, rec, writer>>
    BY <1>3 DEF BootReconciles, Unwritten, WritersExclude
  <2>2. RecordOK'
    BY <1>0, <2>1, FinishedTrue
  <2>3. ~LiveRuns /\ rec.pc = "idle"
    BY <2>1 DEF Unwritten, WritersExclude
  <2> QED BY <2>1, <2>2, <2>3 DEF Unwritten, RecordOK, WritersExclude, LiveRuns, LiveFresh,
          CatchFresh, Catching, RecoveryKnows
<1>4. CASE Crash
  <2>1. /\ UNCHANGED <<log, truth, cursor, record, columns>>
        /\ process' = "down" /\ live'.pc = "done" /\ rec'.pc = "idle" /\ writer' = <<>>
    BY <1>4, RecoveryOver DEF Crash, store, LiveTasks
  <2>2. RecordOK'
    BY <1>0, <2>1 DEF RecordOK, RecordIsTrue, AppliedIsCursor, TruthShown, ActiveAgrees
  <2> QED BY <2>1, <2>2 DEF Unwritten, RecordOK, WritersExclude, LiveRuns, LiveFresh,
          CatchFresh, Catching, RecoveryKnows
<1>5. CASE Register
  <2>1. /\ UNCHANGED <<log, truth, process, cursor, record, columns, live, writer>>
        /\ rec'.pc = rec.pc /\ rec'.seen = rec.seen /\ rec'.cols = rec.cols
        /\ rec'.pos = rec.pos /\ rec'.began = rec.began
    BY <1>5 DEF Register, store, Recoveries
  <2>2. RecordOK'
    BY <1>0, <2>1 DEF RecordOK, RecordIsTrue, AppliedIsCursor, TruthShown, ActiveAgrees
  <2> QED BY <2>1, <2>2 DEF Unwritten, RecordOK, WritersExclude, LiveRuns, LiveFresh,
          CatchFresh, Catching, RecoveryKnows
<1> QED BY <1>1, <1>2, <1>3, <1>4, <1>5 DEF Starting

LEMMA RecordInvStep == RecordInv /\ [Next]_vars => RecordInv'
<1> SUFFICES ASSUME RecordInv, [Next]_vars, used'.write = 0 PROVE Unwritten'
  BY TypesStep DEF RecordInv
<1>1. Types /\ used.write \in Nat
  BY DEF RecordInv, Types, TaskTypes, FaultCounts
<1>2. CASE BrowserStep
  <2>1. used.write = 0 /\ UNCHANGED <<kept, live, rec, writer>>
    BY <1>1, <1>2, BrowserFrame
  <2> QED BY <2>1 DEF RecordInv, Unwritten, RecordIsTrue, AppliedIsCursor, TruthShown,
          ActiveAgrees, WritersExclude, LiveRuns, LiveFresh, CatchFresh, Catching,
          RecoveryKnows, kept
<1>3. CASE Projector \/ LiveFails
  <2>1. used.write = 0
    BY <1>1, <1>3, UseCounts DEF Projector, LiveBegins, LiveCommits, LiveEmits, LiveTells,
       LiveFails, Types, TaskTypes
  <2> QED BY <1>1, <1>3, <2>1, LiveRecord DEF RecordInv
<1>4. CASE Recovery \/ CatchFails
  <2>1. used.write = 0
    BY <1>1, <1>4, UseCounts DEF Recovery, RecoveryBegins, CatchBegins, CatchCommits, CatchFails,
       RecoveryLosesRun, RecoveryRefreshes, RecoveryReconciles, RecoveryAbandons, RecoveryTells,
       Types, TaskTypes
  <2> QED BY <1>1, <1>4, <2>1, RecoveryRecord DEF RecordInv
<1>5. CASE RunAppends \/ Starting \/ Crash \/ Register
  <2>1. used.write = 0
    BY <1>1, <1>5, UseCounts DEF RunAppends, Starting, Boot, BootReconciles, Crash, Register,
       Types, TaskTypes
  <2> QED BY <1>1, <1>5, <2>1, OtherRecord DEF RecordInv
<1>6. CASE WriterReads
  BY <1>1, <1>6, UseCounts DEF WriterReads, Types, TaskTypes
<1>7. CASE WriterCommits
  BY <1>7 DEF WriterCommits, RecordInv, Unwritten
<1> QED BY <1>2, <1>3, <1>4, <1>5, <1>6, <1>7, NextCases

(* The projection is exactly-once and tells how the Run ended over         *)
(* crashes, failed transactions, recoveries and retries, as long as no     *)
(* request writes back a generation record it has read before.             *)
THEOREM RecordToldOnce == Spec => []UnwrittenRecordIsTrue
<1>1. RecordInv => UnwrittenRecordIsTrue
  BY DEF RecordInv, Unwritten, UnwrittenRecordIsTrue
<1> QED BY <1>1, RecordInit, RecordInvStep, PTL DEF Spec

-----------------------------------------------------------------------------
(* The sockets of a conversation (WebSocketFanout), for any number of      *)
(* sockets, publishers and events.                                         *)

Calls ==
  [pc : {"idle", "sending", "raised"}, n : Nat, at : Nat, to : SUBSET Sockets,
   dead : Seq(Sockets)]
Listed == {connections[i] : i \in DOMAIN connections}
Distinct == \A i, j \in DOMAIN connections : connections[i] = connections[j] => i = j
FanoutTypes ==
  /\ connections \in Seq(Sockets) /\ Distinct
  /\ endpoint \in [Sockets -> {"new", "serving", "gone", "ended"}]
  /\ emitter \in [Emitters -> Calls]
  /\ got \in [Sockets -> Seq(Emitters \X Nat)]

(* A socket is in the list once, and never again when it has left; what is *)
(* behind a publisher's place in the list, and the socket it sends to,     *)
(* have not had its event, because the list only closes up.                *)
Ahead(t) == {connections[i] : i \in {j \in DOMAIN connections : j > emitter[t].at}}
NewUntouched ==
  \A s \in Sockets : endpoint[s] = "new" =>
    s \notin Listed /\ got[s] = <<>> /\ \A t \in Emitters : s \notin emitter[t].to
UpTo(sent, t, n) == \A i \in DOMAIN sent : sent[i][1] = t => sent[i][2] <= n
Below(sent, t, n) == \A i \in DOMAIN sent : sent[i][1] = t => sent[i][2] < n
Due(t) ==
  emitter[t].pc = "sending" =>
    /\ \A s \in emitter[t].to \cup Ahead(t) : Below(got[s], t, emitter[t].n)
    /\ emitter[t].to \cap Ahead(t) = {}
Past == \A t \in Emitters : \A s \in Sockets : UpTo(got[s], t, emitter[t].n)
FanoutInv == NewUntouched /\ (\A t \in Emitters : Due(t)) /\ Past /\ OnceAndInOrder

(* The list closes up: what stays moves to the front, if at all.           *)
ClosesUp ==
  /\ connections' \in Seq(Sockets) /\ Distinct'
  /\ \A j \in DOMAIN connections' : \E i \in DOMAIN connections :
       i >= j /\ connections'[j] = connections[i]

(* The numbers of a set have places: the j-th is the least up to which     *)
(* there are j of them.                                                    *)
LEMMA Places ==
  ASSUME NEW n \in Nat, NEW stay \in SUBSET (1..n)
  PROVE  /\ Cardinality(stay) \in Nat
         /\ \A i \in stay : Cardinality({h \in stay : h <= i}) <= i
         /\ \A j \in 1..Cardinality(stay) : \E i \in stay : Cardinality({h \in stay : h <= i}) = j
<1> DEFINE upto(i) == {h \in stay : h <= i}
<1>0. \A h \in stay : h \in Nat /\ 1 <= h /\ h <= n
  OBVIOUS
<1>1. /\ IsFiniteSet(stay) /\ Cardinality(stay) \in Nat
      /\ \A i \in 0..n : IsFiniteSet(upto(i)) /\ Cardinality(upto(i)) \in Nat
  <2>1. IsFiniteSet(1..n)
    BY FS_Interval
  <2>2. IsFiniteSet(stay)
    BY <2>1, FS_Subset
  <2> QED BY <2>2, FS_Subset, FS_CardinalityType
<1>2. ASSUME NEW i \in stay PROVE Cardinality(upto(i)) <= i
  <2>1. IsFiniteSet(1..i) /\ Cardinality(1..i) = i
    BY FS_Interval
  <2>2. upto(i) \subseteq 1..i
    <3> SUFFICES ASSUME NEW h \in stay, h <= i PROVE h \in 1..i
      OBVIOUS
    <3>1. h \in Nat /\ 1 <= h /\ i \in Nat
      BY <1>0
    <3> QED BY <3>1
  <2> QED BY <2>1, <2>2, FS_Subset
<1>3. ASSUME NEW j \in 1..Cardinality(stay)
      PROVE  \E i \in stay : Cardinality(upto(i)) = j
  <2> DEFINE S == {i \in 0..n : Cardinality(upto(i)) >= j}
  <2>1. upto(n) = stay /\ upto(0) = {}
    <3>1. \A h \in stay : h <= n /\ ~(h <= 0)
      BY <1>0
    <3> QED BY <3>1
  <2>2. n \in S /\ S \in SUBSET Nat
    BY <1>1, <2>1
  <2>3. PICK i \in S : \A m \in S : i <= m
    BY <2>2, LeastNumber
  <2>4. i \in 0..n /\ Cardinality(upto(i)) >= j
    BY <2>3
  <2>5. i # 0
    <3>1. Cardinality(upto(0)) = 0
      BY <2>1, FS_EmptySet
    <3> QED BY <2>4, <3>1
  <2>6. i - 1 \in 0..n /\ i - 1 \notin S /\ i \in 1..n
    <3>1. i - 1 \in 0..n /\ i \in 1..n /\ ~(i <= i - 1)
      BY <2>4, <2>5
    <3> QED BY <2>3, <3>1
  <2>7. Cardinality(upto(i - 1)) < j
    <3>1. ~(Cardinality(upto(i - 1)) >= j)
      BY <2>6
    <3>2. Cardinality(upto(i - 1)) \in Nat
      BY <1>1, <2>6
    <3> QED BY <3>1, <3>2
  <2>8. i \in stay
    <3> SUFFICES ASSUME i \notin stay PROVE FALSE
      OBVIOUS
    <3>1. \A h \in stay : h <= i <=> h <= i - 1
      BY <1>0, <2>6
    <3>2. upto(i) = upto(i - 1)
      BY <3>1
    <3> QED BY <2>4, <2>7, <3>2, <1>1, <2>6
  <2>9. upto(i) = upto(i - 1) \cup {i} /\ i \notin upto(i - 1)
    <3>1. \A h \in stay : (h <= i <=> h <= i - 1 \/ h = i) /\ ~(i <= i - 1)
      BY <1>0, <2>6
    <3> QED BY <2>8, <3>1
  <2>10. Cardinality(upto(i)) = Cardinality(upto(i - 1)) + 1
    BY <1>1, <2>6, <2>9, FS_AddElement
  <2>11. Cardinality(upto(i)) = j
    <3>1. Cardinality(upto(i - 1)) \in Nat
      BY <1>1, <2>6
    <3> QED BY <2>4, <2>7, <2>10, <3>1
  <2> QED BY <2>8, <2>11
<1> QED BY <1>1, <1>2, <1>3

(* Removing sockets closes the list up.                                    *)
LEMMA LeftClosesUp ==
  ASSUME FanoutTypes, NEW removed, connections' = Left(removed)
  PROVE  ClosesUp
<1> DEFINE stay == {i \in DOMAIN connections : connections[i] \notin removed}
           rank(i) == Cardinality({h \in stay : h <= i})
           place(j) == CHOOSE i \in stay : rank(i) = j
<1>1. DOMAIN connections = 1..Len(connections) /\ Len(connections) \in Nat
  BY LenProperties DEF FanoutTypes
<1>2. stay \in SUBSET (1..Len(connections))
  BY <1>1
<1>3. /\ Cardinality(stay) \in Nat /\ \A i \in stay : rank(i) <= i
      /\ \A j \in 1..Cardinality(stay) : \E i \in stay : rank(i) = j
  <2> HIDE DEF stay
  <2> QED BY <1>1, <1>2, Places
<1>4. connections' = [j \in 1..Cardinality(stay) |-> connections[place(j)]]
  BY DEF Left
<1> HIDE DEF stay, rank
<1>5. \A j \in 1..Cardinality(stay) : place(j) \in stay /\ rank(place(j)) = j
  BY <1>3
<1>6. \A j \in 1..Cardinality(stay) : place(j) \in DOMAIN connections /\ place(j) >= j
  BY <1>1, <1>2, <1>3, <1>5
<1> HIDE DEF place
<1>7. DOMAIN connections' = 1..Cardinality(stay)
  BY <1>4
<1>8. \A j \in DOMAIN connections' : connections'[j] = connections[place(j)]
  BY <1>4
<1>9. connections' \in Seq(Sockets)
  <2>1. \A j \in 1..Cardinality(stay) : connections[place(j)] \in Sockets
    BY <1>1, <1>6 DEF FanoutTypes
  <2> QED BY <1>3, <1>4, <2>1, SeqDef
<1>10. Distinct'
  BY <1>5, <1>6, <1>7, <1>8 DEF Distinct, FanoutTypes
<1> QED BY <1>6, <1>7, <1>8, <1>9, <1>10 DEF ClosesUp

(* What a list that closes up keeps.                                       *)
LEMMA ClosedUp ==
  ASSUME FanoutTypes, ClosesUp
  PROVE  /\ Listed' \subseteq Listed
         /\ \A t \in Emitters : emitter'[t] = emitter[t] => Ahead(t)' \subseteq Ahead(t)
<1>1. /\ DOMAIN connections = 1..Len(connections) /\ Len(connections) \in Nat
      /\ DOMAIN connections' = 1..Len(connections') /\ Len(connections') \in Nat
  BY LenProperties DEF FanoutTypes, ClosesUp
<1>2. Listed' \subseteq Listed
  BY DEF Listed, ClosesUp
<1>3. ASSUME NEW t \in Emitters, emitter'[t] = emitter[t], NEW s \in Ahead(t)'
      PROVE  s \in Ahead(t)
  <2>1. PICK j \in DOMAIN connections' : j > emitter[t].at /\ s = connections'[j]
    BY <1>3 DEF Ahead
  <2>2. PICK i \in DOMAIN connections : i >= j /\ connections'[j] = connections[i]
    BY DEF ClosesUp
  <2>3. i > emitter[t].at
    BY <1>1, <2>1, <2>2 DEF FanoutTypes, Calls
  <2> QED BY <2>1, <2>2, <2>3 DEF Ahead
<1> QED BY <1>2, <1>3

LEMMA SameClosesUp ==
  ASSUME FanoutTypes, UNCHANGED connections
  PROVE  ClosesUp
<1>1. DOMAIN connections = 1..Len(connections) /\ Len(connections) \in Nat
  BY LenProperties DEF FanoutTypes
<1> QED BY <1>1 DEF FanoutTypes, ClosesUp, Distinct

(* A step of the list alone, or of an endpoint.                            *)
LEMMA ListStep ==
  ASSUME FanoutTypes, FanoutInv, ClosesUp, UNCHANGED <<emitter, got>>,
         \A s \in Sockets : endpoint'[s] = "new" => endpoint[s] = "new"
  PROVE  FanoutInv'
<1>1. Listed' \subseteq Listed /\ \A t \in Emitters : Ahead(t)' \subseteq Ahead(t)
  BY ClosedUp
<1>2. NewUntouched'
  BY <1>1 DEF FanoutInv, NewUntouched
<1>3. ASSUME NEW t \in Emitters PROVE Due(t)'
  BY <1>1 DEF FanoutInv, Due
<1> QED BY <1>2, <1>3 DEF FanoutInv, Past, OnceAndInOrder

(* A publisher goes on from a place behind which nobody had the event.     *)
LEMMA Continues ==
  ASSUME FanoutTypes, FanoutInv, NEW t \in Emitters, NEW n \in Nat, NEW at \in Nat \ {0},
         NEW dead \in Seq(Sockets), Continue(t, n, at, dead), endpoint' = endpoint,
         got' \in [Sockets -> Seq(Emitters \X Nat)],
         \A i \in DOMAIN connections : i >= at => Below(got'[connections[i]], t, n),
         \A u \in Emitters : u # t => \A s \in Sockets : \A m \in Nat :
           /\ UpTo(got[s], u, m) => UpTo(got'[s], u, m)
           /\ Below(got[s], u, m) => Below(got'[s], u, m),
         \A s \in Sockets : UpTo(got'[s], t, n),
         \A s \in Sockets : endpoint[s] = "new" => got'[s] = <<>>,
         OnceAndInOrder'
  PROVE  FanoutTypes' /\ FanoutInv'
<1>0. DOMAIN connections = 1..Len(connections) /\ Len(connections) \in Nat
  BY LenProperties DEF FanoutTypes
<1>1. \A u \in Emitters : emitter[u].n \in Nat /\ emitter[u].to \subseteq Sockets
  BY DEF FanoutTypes, Calls
<1>2. \A u \in Emitters : Ahead(u) \subseteq Sockets
  BY <1>0, ElementOfSeq DEF FanoutTypes, Ahead
<1>3. ASSUME NEW u \in Emitters, u # t, emitter'[u] = emitter[u], Ahead(u)' \subseteq Ahead(u)
      PROVE  Due(u)' /\ \A s \in Sockets : UpTo(got'[s], u, emitter'[u].n)
  <2>1. Due(u) /\ \A s \in Sockets : UpTo(got[s], u, emitter[u].n)
    BY DEF FanoutInv, Past
  <2>2. \A s \in Sockets : UpTo(got'[s], u, emitter'[u].n)
    BY <1>1, <1>3, <2>1
  <2>3. \A s \in Sockets : Below(got[s], u, emitter[u].n) => Below(got'[s], u, emitter'[u].n)
    BY <1>1, <1>3
  <2>4. Due(u)'
    BY <1>1, <1>2, <1>3, <2>1, <2>3 DEF Due
  <2> QED BY <2>2, <2>4
<1> DEFINE call == [pc |-> "sending", n |-> n, at |-> at, to |-> {connections[at]}, dead |-> dead]
<1>4. CASE at <= Len(connections)
  <2>1. connections' = connections /\ emitter' = [emitter EXCEPT ![t] = call]
    BY <1>4 DEF Continue
  <2>2. at \in DOMAIN connections /\ connections[at] \in Sockets /\ connections[at] \in Listed
    <3>1. at \in DOMAIN connections
      BY <1>0, <1>4
    <3> QED BY <3>1, ElementOfSeq DEF FanoutTypes, Listed
  <2>3. FanoutTypes'
    BY <2>1, <2>2 DEF FanoutTypes, Distinct, Calls
  <2>4. Listed' = Listed /\ \A u \in Emitters : u # t => emitter'[u] = emitter[u] /\ Ahead(u)' = Ahead(u)
    BY <2>1 DEF Listed, Ahead, FanoutTypes
  <2>5. emitter'[t] = call
    BY <2>1 DEF FanoutTypes
  <2>6. NewUntouched'
    <3> SUFFICES ASSUME NEW s \in Sockets, endpoint[s] = "new"
                 PROVE  s \notin Listed /\ got'[s] = <<>> /\ \A u \in Emitters : s \notin emitter'[u].to
      BY <2>4 DEF NewUntouched
    <3>1. s \notin Listed /\ \A u \in Emitters : s \notin emitter[u].to
      BY DEF FanoutInv, NewUntouched
    <3>2. emitter'[t].to = {connections[at]}
      BY <2>5
    <3> QED BY <2>2, <2>4, <3>1, <3>2
  <2>7. Due(t)'
    <3>1. Ahead(t)' = {connections[i] : i \in {j \in DOMAIN connections : j > at}}
      BY <2>1, <2>5 DEF Ahead
    <3>2. connections[at] \notin Ahead(t)'
      BY <1>0, <2>2, <3>1 DEF FanoutTypes, Distinct
    <3>3. \A s \in Ahead(t)' \cup {connections[at]} : Below(got'[s], t, n)
      <4>1. \A j \in DOMAIN connections : j > at => j >= at
        BY <1>0
      <4>2. at >= at
        OBVIOUS
      <4> QED BY <2>2, <3>1, <4>1, <4>2
    <3> QED BY <2>5, <3>2, <3>3 DEF Due
  <2>8. ASSUME NEW u \in Emitters, u # t PROVE Due(u)'
    BY <1>3, <2>4, <2>8
  <2>9. Past'
    <3>1. emitter'[t].n = n
      BY <2>5
    <3> QED BY <1>3, <2>4, <3>1 DEF Past
  <2> QED BY <2>3, <2>6, <2>7, <2>8, <2>9 DEF FanoutInv
<1>5. CASE ~(at <= Len(connections))
  <2> DEFINE k == Present(dead)
             over == [Idle(n) EXCEPT !.pc = IF k = Len(dead) THEN "idle" ELSE "raised"]
  <2>1. /\ connections' = Left(ToSet(SubSeq(dead, 1, k)))
        /\ emitter' = [emitter EXCEPT ![t] = over]
    BY <1>5 DEF Continue
  <2>2. ClosesUp
    BY <2>1, LeftClosesUp
  <2>3. over \in Calls /\ over.pc # "sending" /\ over.to = {} /\ over.n = n
    BY EmptySeq DEF Idle, Calls
  <2> HIDE DEF over
  <2>4. FanoutTypes'
    BY <2>1, <2>2, <2>3 DEF FanoutTypes, ClosesUp
  <2>5. /\ Listed' \subseteq Listed /\ emitter'[t] = over
        /\ \A u \in Emitters : u # t => emitter'[u] = emitter[u] /\ Ahead(u)' \subseteq Ahead(u)
    BY <2>1, <2>2, ClosedUp DEF FanoutTypes
  <2>6. NewUntouched'
    BY <2>3, <2>5 DEF FanoutInv, NewUntouched
  <2>7. ASSUME NEW u \in Emitters PROVE Due(u)'
    <3>1. CASE u = t
      BY <2>3, <2>5, <3>1 DEF Due
    <3>2. CASE u # t
      BY <1>3, <2>5, <3>2
    <3> QED BY <3>1, <3>2
  <2>8. Past'
    BY <1>3, <2>3, <2>5 DEF Past
  <2> QED BY <2>4, <2>6, <2>7, <2>8 DEF FanoutInv
<1> QED BY <1>4, <1>5

(* The list of sockets and what every client got are of their types, and   *)
(* no publisher sends twice, after every step.                             *)
LEMMA FanoutStep ==
  ASSUME FanoutTypes, FanoutInv, [FanoutNext]_list
  PROVE  FanoutTypes' /\ FanoutInv'
<1>0. /\ DOMAIN connections = 1..Len(connections) /\ Len(connections) \in Nat
      /\ \A i \in DOMAIN connections : connections[i] \in Sockets
      /\ \A s \in Sockets : DOMAIN got[s] = 1..Len(got[s]) /\ Len(got[s]) \in Nat
  BY LenProperties, ElementOfSeq DEF FanoutTypes
<1>1. CASE UNCHANGED list
  <2>1. FanoutTypes'
    BY <1>1 DEF list, FanoutTypes, Distinct
  <2> QED BY <1>1, <2>1, SameClosesUp, ListStep DEF list
<1>2. ASSUME NEW s \in Sockets, Registers(s)
      PROVE  FanoutTypes' /\ FanoutInv'
  <2>1. /\ connections' = Append(connections, s) /\ endpoint[s] = "new"
        /\ endpoint' = [endpoint EXCEPT ![s] = "serving"] /\ UNCHANGED <<emitter, got>>
    BY <1>2 DEF Registers, Added
  <2>2. s \notin Listed /\ got[s] = <<>> /\ \A t \in Emitters : s \notin emitter[t].to
    BY <2>1 DEF FanoutInv, NewUntouched
  <2>3. /\ connections' \in Seq(Sockets) /\ DOMAIN connections' = 1..(Len(connections) + 1)
        /\ \A i \in DOMAIN connections : connections'[i] = connections[i]
        /\ connections'[Len(connections) + 1] = s
    BY <1>0, <2>1, AppendProperties DEF FanoutTypes
  <2>4. \A i \in DOMAIN connections' : i \in DOMAIN connections \/ i = Len(connections) + 1
    BY <1>0, <2>3
  <2>5. Distinct'
    BY <2>2, <2>3, <2>4 DEF Distinct, FanoutTypes, Listed
  <2>6. FanoutTypes'
    BY <2>1, <2>3, <2>5 DEF FanoutTypes
  <2>7. Listed' \subseteq Listed \cup {s} /\ \A t \in Emitters : Ahead(t)' \subseteq Ahead(t) \cup {s}
    BY <2>1, <2>3, <2>4 DEF Listed, Ahead
  <2>8. NewUntouched'
    BY <2>1, <2>7 DEF FanoutInv, NewUntouched, FanoutTypes
  <2>9. ASSUME NEW t \in Emitters PROVE Due(t)'
    <3>1. Below(got[s], t, emitter[t].n)
      BY <2>2, EmptySeq DEF Below
    <3> QED BY <2>1, <2>2, <2>7, <3>1 DEF FanoutInv, Due
  <2> QED BY <2>1, <2>6, <2>8, <2>9 DEF FanoutInv, Past, OnceAndInOrder
<1>3. ASSUME NEW s \in Sockets, PeerGoes(s)
      PROVE  FanoutTypes' /\ FanoutInv'
  <2>1. UNCHANGED <<connections, emitter, got>> /\ endpoint' = [endpoint EXCEPT ![s] = "gone"]
    BY <1>3 DEF PeerGoes
  <2>2. FanoutTypes' /\ \A q \in Sockets : endpoint'[q] = "new" => endpoint[q] = "new"
    BY <2>1 DEF FanoutTypes, Distinct
  <2> QED BY <2>1, <2>2, SameClosesUp, ListStep
<1>4. ASSUME NEW s \in Sockets, Unregister(s)
      PROVE  FanoutTypes' /\ FanoutInv'
  <2>1. /\ connections' = Left({s}) /\ UNCHANGED <<emitter, got>>
        /\ endpoint' = [endpoint EXCEPT ![s] = "ended"]
    BY <1>4 DEF Unregister
  <2>2. ClosesUp
    BY <2>1, LeftClosesUp
  <2>3. FanoutTypes' /\ \A q \in Sockets : endpoint'[q] = "new" => endpoint[q] = "new"
    BY <2>1, <2>2 DEF FanoutTypes, ClosesUp
  <2> QED BY <2>1, <2>2, <2>3, ListStep
<1>5. ASSUME NEW t \in Emitters, Start(t)
      PROVE  FanoutTypes' /\ FanoutInv'
  <2> DEFINE n == emitter[t].n + 1
  <2>1. Continue(t, n, 1, <<>>) /\ UNCHANGED <<endpoint, got>>
    BY <1>5 DEF Start
  <2>2. emitter[t].n \in Nat /\ n \in Nat /\ <<>> \in Seq(Sockets)
    BY EmptySeq DEF FanoutTypes, Calls
  <2>3. \A s \in Sockets : UpTo(got[s], t, emitter[t].n)
    BY DEF FanoutInv, Past
  <2>4. \A s \in Sockets : UpTo(got[s], t, n) /\ Below(got[s], t, n)
    <3> SUFFICES ASSUME NEW s \in Sockets, NEW i \in DOMAIN got[s], got[s][i][1] = t
                 PROVE  got[s][i][2] <= n /\ got[s][i][2] < n
      BY DEF UpTo, Below
    <3>1. got[s][i][2] <= emitter[t].n
      BY <2>3 DEF UpTo
    <3>2. got[s][i][2] \in Nat
      BY <1>0, ElementOfSeq DEF FanoutTypes
    <3> QED BY <2>2, <3>1, <3>2
  <2>5. /\ \A s \in Sockets : endpoint[s] = "new" => got'[s] = <<>>
        /\ OnceAndInOrder' /\ got' \in [Sockets -> Seq(Emitters \X Nat)]
    BY <2>1 DEF FanoutInv, NewUntouched, OnceAndInOrder, FanoutTypes
  <2>6. /\ got' = got /\ endpoint' = endpoint /\ 1 \in Nat \ {0}
        /\ \A i \in DOMAIN connections : i >= 1 => Below(got'[connections[i]], t, n)
    BY <1>0, <2>1, <2>4
  <2> HIDE DEF n
  <2> QED BY <2>1, <2>2, <2>4, <2>5, <2>6, Continues
<1>6. ASSUME NEW t \in Emitters, Sent(t)
      PROVE  FanoutTypes' /\ FanoutInv'
  <2> DEFINE n == emitter[t].n
             at == emitter[t].at + 1
             dead == emitter[t].dead
  <2>1. PICK s \in emitter[t].to :
          \/ /\ got' = [got EXCEPT ![s] = Append(@, <<t, n>>)]
             /\ Continue(t, n, at, dead)
          \/ /\ UNCHANGED got
             /\ Continue(t, n, at, Append(dead, s))
    BY <1>6 DEF Sent
  <2>2. emitter[t].pc = "sending" /\ endpoint' = endpoint
    BY <1>6 DEF Sent
  <2>3. /\ n \in Nat /\ at \in Nat \ {0} /\ dead \in Seq(Sockets) /\ s \in Sockets
        /\ Append(dead, s) \in Seq(Sockets)
    BY AppendProperties DEF FanoutTypes, Calls
  <2>4. /\ Below(got[s], t, n) /\ s \notin Ahead(t) /\ \A q \in Ahead(t) : Below(got[q], t, n)
        /\ \A q \in Sockets : UpTo(got[q], t, n)
        /\ \A q \in Sockets : endpoint[q] = "new" => got[q] = <<>> /\ q # s
    BY <2>2 DEF FanoutInv, Due, Past, NewUntouched
  <2>5. \A i \in DOMAIN connections : i >= at => connections[i] \in Ahead(t)
    BY <1>0 DEF Ahead, FanoutTypes, Calls
  <2>6. OnceAndInOrder
    BY DEF FanoutInv
  <2> HIDE DEF n, at, dead
  <2>7. CASE UNCHANGED got /\ Continue(t, n, at, Append(dead, s))
    <3>1. OnceAndInOrder' /\ got' \in [Sockets -> Seq(Emitters \X Nat)]
      BY <2>6, <2>7 DEF OnceAndInOrder, FanoutTypes
    <3> QED BY <2>2, <2>3, <2>4, <2>5, <2>7, <3>1, Continues
  <2>8. CASE got' = [got EXCEPT ![s] = Append(@, <<t, n>>)] /\ Continue(t, n, at, dead)
    <3>1. /\ got[s] \in Seq(Emitters \X Nat) /\ <<t, n>> \in Emitters \X Nat
          /\ got'[s] = Append(got[s], <<t, n>>) /\ \A q \in Sockets : q # s => got'[q] = got[q]
      BY <2>3, <2>8 DEF FanoutTypes
    <3>2. /\ got'[s] \in Seq(Emitters \X Nat) /\ Len(got'[s]) = Len(got[s]) + 1
          /\ DOMAIN got'[s] = 1..(Len(got[s]) + 1)
          /\ \A i \in DOMAIN got[s] : got'[s][i] = got[s][i]
          /\ got'[s][Len(got[s]) + 1] = <<t, n>>
      BY <1>0, <2>3, <3>1, AppendProperties
    <3>3. \A i \in DOMAIN got'[s] : i \in DOMAIN got[s] \/ i = Len(got[s]) + 1
      BY <1>0, <2>3, <3>2
    <3>4. got' \in [Sockets -> Seq(Emitters \X Nat)]
      BY <2>8, <3>1, <3>2 DEF FanoutTypes
    <3>5. \A u \in Emitters : u # t => \A q \in Sockets : \A m \in Nat :
            /\ UpTo(got[q], u, m) => UpTo(got'[q], u, m)
            /\ Below(got[q], u, m) => Below(got'[q], u, m)
      <4> SUFFICES ASSUME NEW u \in Emitters, u # t, NEW m \in Nat
                   PROVE  /\ UpTo(got[s], u, m) => UpTo(got'[s], u, m)
                          /\ Below(got[s], u, m) => Below(got'[s], u, m)
        BY <3>1
      <4>1. \A i \in DOMAIN got'[s] : got'[s][i][1] = u =>
              i \in DOMAIN got[s] /\ got'[s][i] = got[s][i]
        BY <3>2, <3>3
      <4> QED BY <4>1 DEF UpTo, Below
    <3>6. \A q \in Sockets : UpTo(got'[q], t, n)
      <4>1. UpTo(got'[s], t, n)
        BY <2>3, <2>4, <3>2, <3>3 DEF UpTo
      <4> QED BY <2>4, <3>1, <4>1
    <3>7. \A i \in DOMAIN connections : i >= at => Below(got'[connections[i]], t, n)
      BY <1>0, <2>4, <2>5, <3>1
    <3>8. OnceAndInOrder'
      <4> SUFFICES ASSUME NEW q \in Sockets, NEW i \in 1..Len(got'[q]), NEW j \in 1..Len(got'[q]),
                          i < j, got'[q][i][1] = got'[q][j][1]
                   PROVE  got'[q][i][2] < got'[q][j][2]
        BY DEF OnceAndInOrder
      <4>1. CASE q # s
        BY <2>6, <3>1, <4>1 DEF OnceAndInOrder
      <4>2. CASE q = s /\ j # Len(got[s]) + 1
        <5>1. i \in 1..Len(got[s]) /\ j \in 1..Len(got[s])
          <6>1. Len(got'[q]) = Len(got[s]) + 1 /\ Len(got[s]) \in Nat
            BY <1>0, <2>3, <3>2, <4>2
          <6> QED BY <4>2, <6>1
        <5> QED BY <1>0, <2>3, <2>6, <3>2, <4>2, <5>1 DEF OnceAndInOrder
      <4>3. CASE q = s /\ j = Len(got[s]) + 1
        <5>1. i \in DOMAIN got[s]
          BY <1>0, <2>3, <3>2, <4>3
        <5> QED BY <2>4, <3>2, <4>3, <5>1 DEF Below
      <4> QED BY <4>1, <4>2, <4>3
    <3>9. \A q \in Sockets : endpoint[q] = "new" => got'[q] = <<>>
      BY <2>4, <3>1
    <3> QED BY <2>2, <2>3, <2>8, <3>4, <3>5, <3>6, <3>7, <3>8, <3>9, Continues
  <2> QED BY <2>1, <2>7, <2>8
<1> QED BY <1>1, <1>2, <1>3, <1>4, <1>5, <1>6 DEF FanoutNext, Endpoints

(* Any number of clients connect, leave and are forgotten while any number *)
(* of tasks publish to the list they are iterating over: a client gets an  *)
(* event at most once, and the events of one task in order                 *)
(* (events/__init__.py:186-234).                                           *)
THEOREM EventsArriveOnce == FanoutSpec => []OnceAndInOrder
<1>1. FanoutInit => FanoutTypes /\ FanoutInv
  <2> SUFFICES ASSUME FanoutInit PROVE FanoutTypes /\ FanoutInv
    OBVIOUS
  <2>1. /\ connections = <<>> /\ <<>> \in Seq(Sockets) /\ DOMAIN connections = {}
        /\ <<>> \in Seq(Emitters \X Nat) /\ \A s \in Sockets : DOMAIN got[s] = {} /\ Len(got[s]) = 0
    BY EmptySeq DEF FanoutInit
  <2>2. \A t \in Emitters : emitter[t] = Idle(0)
    BY DEF FanoutInit
  <2>3. Idle(0) \in Calls /\ Idle(0).pc = "idle" /\ Idle(0).to = {} /\ Idle(0).n = 0
    BY EmptySeq DEF Idle, Calls
  <2>4. FanoutTypes
    BY <2>1, <2>3 DEF FanoutInit, FanoutTypes, Distinct
  <2>5. NewUntouched
    BY <2>1, <2>2, <2>3 DEF NewUntouched, Listed, FanoutInit
  <2>6. \A t \in Emitters : Due(t)
    BY <2>2, <2>3 DEF Due
  <2>7. Past /\ OnceAndInOrder
    BY <2>1 DEF Past, UpTo, OnceAndInOrder
  <2> QED BY <2>4, <2>5, <2>6, <2>7 DEF FanoutInv
<1>2. FanoutTypes /\ FanoutInv /\ [FanoutNext]_list => (FanoutTypes /\ FanoutInv)'
  BY FanoutStep
<1>3. FanoutInv => OnceAndInOrder
  BY DEF FanoutInv
<1> QED BY <1>1, <1>2, <1>3, PTL DEF FanoutSpec
=============================================================================
