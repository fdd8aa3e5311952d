----------------------- MODULE ConversationRunsProofs -----------------------
(***************************************************************************)
(* Proofs about ConversationRuns, for every number of requests, messages   *)
(* and Runs.  The argument has five parts, each an invariant of its own:   *)
(*   TurnInv         who is between a check and the launch heads the lock, *)
(*                   and no Run is followed then: one Run at a time;       *)
(*   ShownInv        the records the client reads follow that Run;         *)
(*   OnePlace        a message is in one place from its request to a Run;  *)
(*   OnceInv         an input is recorded for good, and a recovery finds   *)
(*                   nothing to abandon: a message sent again is known;    *)
(*   QueueInv        while inputs are queued and no Run is followed, a     *)
(*                   finished Run starts a successor that is not known.    *)
(* A step that moves nothing of what an invariant is about is shown to be  *)
(* quiet, by a predicate of its own, and a quiet step to keep it.          *)
(***************************************************************************)
EXTENDS ConversationRuns, FiniteSetTheorems, SequenceTheorems, TLAPS

-----------------------------------------------------------------------------
(* Types.                                                                  *)

TLocks == lock \in [{1, 2} -> Seq(Procs)] /\ door \in {1, 2} /\ DOMAIN pc = Procs
TMemory ==
  /\ binding \in BOOLEAN
  /\ {running, handle, genId, active} \subseteq Runs \cup {None}
  /\ activeMsg \in Messages \cup {None}
  /\ liveMsgs \subseteq Messages /\ queue \in Seq(Messages)
TData ==
  /\ deleted \in BOOLEAN
  /\ row \in [Runs -> {"absent", "running"} \cup Terminal]
  /\ record \in [Runs -> {"none", "running"} \cup Terminal]
  /\ input \in [Runs -> Messages \cup {None}]
  /\ kernel \in [Runs -> {"none", "live"} \cup Terminal]
  /\ told \subseteq Runs /\ posted \in [Runs -> SUBSET Messages]
TRequests ==
  /\ about \in [Procs -> Runs \cup {None}]
  /\ next \in [Runs -> Messages \cup {None}]
  /\ closed \in [Callers -> SUBSET Runs]
  /\ seen \in [Senders -> [Runs -> {"none", "running"} \cup Terminal]]

Types == TLocks /\ TMemory /\ TData /\ TRequests

(* Leaving, joining and keeping a lock put processes into the queues       *)
(* only.                                                                   *)
LEMMA LocksTyped ==
  ASSUME TLocks, NEW p \in Procs, NEW label, Leave(p, label) \/ Join(p, label) \/ Keep(p, label)
  PROVE  TLocks'
<1>1. Without(p) \in [{1, 2} -> Seq(Procs)]
  <2>1. ASSUME NEW k \in {1, 2}, lock[k] # <<>> PROVE Tail(lock[k]) \in Seq(Procs)
    BY <2>1, HeadTailProperties, lock[k] \in Seq(Procs) DEF TLocks
  <2> QED BY <2>1 DEF TLocks, Without
<1>2. [Without(p) EXCEPT ![door] = Append(@, p)] \in [{1, 2} -> Seq(Procs)]
  <2>1. Append(Without(p)[door], p) \in Seq(Procs)
    BY <1>1 DEF TLocks
  <2> QED BY <1>1, <2>1 DEF TLocks
<1>3. lock' \in [{1, 2} -> Seq(Procs)] /\ door' = door
  BY <1>1, <1>2 DEF TLocks, Leave, Join, Keep, locks
<1>4. DOMAIN pc' = Procs
  BY DEF TLocks, Leave, Join, Keep, Go
<1> QED BY <1>3, <1>4 DEF TLocks

(* The message a process is about: a request has one, a Run may have one.  *)
LEMMA InputTyped ==
  ASSUME TRequests, NEW p \in Senders \cup Runs
  PROVE  /\ Message(p) \in Messages \cup {None}
         /\ p \in Senders => Message(p) \in Messages
BY DEF TRequests, Message, Messages

Rows == [Runs -> {"absent", "running"} \cup Terminal]
Records == [Runs -> {"none", "running"} \cup Terminal]

(* A recovery writes rows, records and an active Run of the right kind.    *)
LEMMA RecoveryTyped ==
  ASSUME TMemory, TData, NEW id \in Runs \cup {None}, NEW records \in Records, Recovers(id, records)
  PROVE  /\ row' \in Rows /\ record' \in Records /\ active' \in Runs \cup {None}
         /\ \/ UNCHANGED <<genId, activeMsg, liveMsgs, queue>>
            \/ genId' = None /\ activeMsg' = None /\ liveMsgs' = {} /\ queue' = <<>>
<1>1. Closed("failed") \in Rows
  BY DEF Closed, Rows, TData, Terminal
<1>2. Abandoned(records, id, "failed") \in Records
  BY DEF Abandoned, Records, Terminal
<1>3. \A ids, rows : rows \in Rows => Reconciled(ids, rows) \in Records
  BY DEF Reconciled, Records, Rows, TData
<1>4. \A ids, rows : StillActive(ids, rows) \in Runs \cup {None}
  BY DEF StillActive, TMemory
<1>5. CASE running # None
  <2>1. UNCHANGED <<row, record, active, genId, activeMsg, liveMsgs, queue>>
    BY <1>5 DEF Recovers, Remembered
  <2> QED BY <2>1 DEF TMemory, TData, Rows, Records
<1>6. CASE running = None
  <2>1. row' = Closed("failed")
    BY <1>6 DEF Recovers
  <2>2. /\ record' = Reconciled(Runs, row') \/ record' = Abandoned(records, id, "failed")
        /\ active' = StillActive(Runs, row') \/ active' = None
    BY <1>6 DEF Recovers
  <2>3. Remembered \/ Forgotten
    BY <1>6 DEF Recovers
  <2> QED BY <1>1, <1>2, <1>3, <1>4, <2>1, <2>2, <2>3 DEF Remembered, Forgotten
<1> QED BY <1>5, <1>6

(* Every step keeps the types of the locks.                                *)
LEMMA LocksPreserved ==
  ASSUME TLocks, TRequests, [Next]_vars
  PROVE  TLocks'
<1>1. CASE UNCHANGED vars
  BY <1>1 DEF vars, memory, locks, database, engines, requests, TLocks, Procs,
    Callers
<1>2. ASSUME NEW s \in Senders, ChatSend(s) PROVE TLocks'
  BY <1>2, LocksTyped DEF ChatSend, memory, database, engines, TLocks, Procs,
    Callers
<1>3. ASSUME NEW s \in Senders, EngineReady(s) PROVE TLocks'
  BY <1>3, LocksTyped DEF EngineReady, engines, TLocks, Procs, Callers, Inside
<1>4. ASSUME NEW s \in Senders, SendRequested(s) PROVE TLocks'
  BY <1>4, LocksTyped DEF SendRequested, memory, database, engines, requests,
    TLocks, Procs, Callers
<1>5. ASSUME NEW s \in Senders, SendChecks(s) PROVE TLocks'
  BY <1>5, LocksTyped DEF SendChecks, Checks, memory, database, engines,
    requests, TLocks, Procs, Callers, Inside
<1>6. ASSUME NEW s \in Senders, SendDuplicate(s) PROVE TLocks'
  BY <1>6, LocksTyped DEF SendDuplicate, memory, database, engines, requests,
    TLocks, Procs, Callers, Inside
<1>7. ASSUME NEW s \in Senders, SendStarts(s) PROVE TLocks'
  BY <1>7, LocksTyped DEF SendStarts, memory, database, engines, requests,
    TLocks, Procs, Callers, Inside
<1>8. ASSUME NEW s \in Senders, SendQueues(s) PROVE TLocks'
  BY <1>8, LocksTyped DEF SendQueues, database, engines, requests, TLocks,
    Procs, Callers, Inside
<1>9. ASSUME NEW s \in Senders, SendInjects(s) PROVE TLocks'
  BY <1>9, LocksTyped DEF SendInjects, memory, database, engines, TLocks,
    Procs, Callers, Inside
<1>10. ASSUME NEW s \in Senders, Injected(s) PROVE TLocks'
  BY <1>10, LocksTyped DEF Injected, database, requests, TLocks, Procs,
    Callers, Inside
<1>11. ASSUME NEW p \in Senders \cup Runs, StartChecks(p) PROVE TLocks'
  BY <1>11, LocksTyped DEF StartChecks, Checks, memory, database, engines,
    requests, TLocks, Procs, Callers, Inside
<1>12. ASSUME NEW p \in Senders \cup Runs, StartDecides(p) PROVE TLocks'
  BY <1>12, LocksTyped DEF StartDecides, memory, database, engines, requests,
    TLocks, Procs, Callers, Inside
<1>13. ASSUME NEW p \in Senders \cup Runs, Created(p) PROVE TLocks'
  BY <1>13, LocksTyped DEF Created, engines, TLocks, Procs, Callers, Inside
<1>14. ASSUME NEW p \in Senders \cup Runs, Launched(p) PROVE TLocks'
  BY <1>14, LocksTyped DEF Launched, database, requests, TLocks, Procs,
    Callers, Inside
<1>15. ASSUME NEW p \in Senders \cup Runs, StartFails(p) PROVE TLocks'
  BY <1>15, LocksTyped DEF StartFails, memory, database, engines, requests,
    TLocks, Procs, Callers, Inside
<1>16. ASSUME NEW g \in Runs, RowCreated(g) PROVE TLocks'
  BY <1>16, LocksTyped DEF RowCreated, memory, locks, engines, requests,
    TLocks, Procs, Callers
<1>17. ASSUME NEW g \in Runs, KernelEnds(g) PROVE TLocks'
  BY <1>17, LocksTyped DEF KernelEnds, memory, locks, requests, TLocks, Procs,
    Callers
<1>18. ASSUME NEW g \in Runs, Projected(g) PROVE TLocks'
  BY <1>18, LocksTyped DEF Projected, memory, locks, engines, requests,
    TLocks, Procs, Callers
<1>19. ASSUME NEW g \in Runs, GenerationDone(g) PROVE TLocks'
  BY <1>19, LocksTyped DEF GenerationDone, locks, database, engines, TLocks,
    Procs, Callers, Go
<1>20. ASSUME NEW g \in Runs, Continued(g) PROVE TLocks'
  BY <1>20, LocksTyped DEF Continued, memory, database, engines, requests,
    TLocks, Procs, Callers
<1>21. ASSUME NEW c \in {"cancel", "close"}, CancelRunning(c) PROVE TLocks'
  BY <1>21, LocksTyped DEF CancelRunning, database, TLocks, Procs, Callers
<1>22. ASSUME NEW c \in {"cancel", "close"}, CancelWaited(c) PROVE TLocks'
  BY <1>22, LocksTyped DEF CancelWaited, memory, database, engines, requests,
    TLocks, Procs, Callers
<1>23. ASSUME NEW c \in {"cancel", "close"}, CancelAbandons(c) PROVE TLocks'
  BY <1>23, LocksTyped DEF CancelAbandons, memory, database, engines,
    requests, TLocks, Procs, Callers
<1>24. ASSUME NEW c \in {"cancel", "close"}, CancelRows(c) PROVE TLocks'
  BY <1>24, LocksTyped DEF CancelRows, memory, engines, TLocks, Procs, Callers
<1>25. ASSUME NEW c \in {"cancel", "close"}, CancelRecords(c) PROVE TLocks'
  BY <1>25, LocksTyped DEF CancelRecords, memory, engines, requests, TLocks,
    Procs, Callers
<1>26. CASE CloseForgets
  BY <1>26, LocksTyped DEF CloseForgets, database, engines, requests, TLocks,
    Procs, Callers, Go
<1>27. CASE CloseDeletes
  BY <1>27, LocksTyped DEF CloseDeletes, memory, engines, requests, TLocks,
    Procs, Callers
<1>28. CASE ConnectAsks
  BY <1>28, LocksTyped DEF ConnectAsks, memory, database, engines, requests,
    TLocks, Procs, Callers
<1>29. CASE ConnectRecovers
  BY <1>29, LocksTyped DEF ConnectRecovers, engines, requests, TLocks, Procs,
    Callers, Inside
<1>30. CASE CrashAndRestart
  BY <1>30 DEF CrashAndRestart, TLocks, Procs
<1> QED
  BY <1>1, <1>2, <1>3, <1>4, <1>5, <1>6, <1>7, <1>8, <1>9, <1>10, <1>11,
    <1>12, <1>13, <1>14, <1>15, <1>16, <1>17, <1>18, <1>19, <1>20, <1>21,
    <1>22, <1>23, <1>24, <1>25, <1>26, <1>27, <1>28, <1>29, <1>30 DEF Next,
    SendStep, StartStep, RunStep, CancelArrives, CancelProceeds, CloseStep

(* Every step keeps the types of what is stored.                           *)
LEMMA DataTyped ==
  ASSUME Types, [Next]_vars
  PROVE  TData'
<1>1. CASE UNCHANGED vars
  BY <1>1 DEF vars, memory, locks, database, engines, requests, Types, TData,
    TLocks, TMemory, TRequests, Terminal, Procs, Callers
<1>2. ASSUME NEW s \in Senders, ChatSend(s) PROVE TData'
  BY <1>2, InputTyped DEF ChatSend, memory, database, engines, Types, TData,
    TLocks, TMemory, TRequests, Terminal, Procs, Callers
<1>3. ASSUME NEW s \in Senders, EngineReady(s) PROVE TData'
  BY <1>3, InputTyped, RecoveryTyped DEF EngineReady, Rows, Records, engines,
    Types, TData, TLocks, TMemory, TRequests, Terminal, Procs, Callers, Inside
<1>4. ASSUME NEW s \in Senders, SendRequested(s) PROVE TData'
  BY <1>4, InputTyped DEF SendRequested, memory, database, engines, requests,
    Types, TData, TLocks, TMemory, TRequests, Terminal, Procs, Callers
<1>5. ASSUME NEW s \in Senders, SendChecks(s) PROVE TData'
  BY <1>5, InputTyped DEF SendChecks, Checks, memory, database, engines,
    requests, Types, TData, TLocks, TMemory, TRequests, Terminal, Procs,
    Callers, Inside
<1>6. ASSUME NEW s \in Senders, SendDuplicate(s) PROVE TData'
  BY <1>6, InputTyped DEF SendDuplicate, memory, database, engines, requests,
    Types, TData, TLocks, TMemory, TRequests, Terminal, Procs, Callers, Inside
<1>7. ASSUME NEW s \in Senders, SendStarts(s) PROVE TData'
  BY <1>7, InputTyped DEF SendStarts, memory, database, engines, requests,
    Types, TData, TLocks, TMemory, TRequests, Terminal, Procs, Callers, Inside
<1>8. ASSUME NEW s \in Senders, SendQueues(s) PROVE TData'
  BY <1>8, InputTyped DEF SendQueues, database, engines, requests, Types,
    TData, TLocks, TMemory, TRequests, Terminal, Procs, Callers, Inside
<1>9. ASSUME NEW s \in Senders, SendInjects(s) PROVE TData'
  BY <1>9, InputTyped DEF SendInjects, memory, database, engines, Types,
    TData, TLocks, TMemory, TRequests, Terminal, Procs, Callers, Inside
<1>10. ASSUME NEW s \in Senders, Injected(s) PROVE TData'
  <2>1. about[s] \in Runs \cup {None} /\ Message(s) \in Messages
    BY InputTyped DEF Types, TRequests, Procs
  <2>2. posted' \in [Runs -> SUBSET Messages]
    BY <1>10, <2>1 DEF Injected, Types, TData
  <2> QED
    BY <1>10, <2>2 DEF Injected, Types, TData, database
<1>11. ASSUME NEW p \in Senders \cup Runs, StartChecks(p) PROVE TData'
  BY <1>11, InputTyped DEF StartChecks, Checks, memory, database, engines,
    requests, Types, TData, TLocks, TMemory, TRequests, Terminal, Procs,
    Callers, Inside
<1>12. ASSUME NEW p \in Senders \cup Runs, StartDecides(p) PROVE TData'
  BY <1>12, InputTyped DEF StartDecides, memory, database, engines, requests,
    Types, TData, TLocks, TMemory, TRequests, Terminal, Procs, Callers, Inside
<1>13. ASSUME NEW p \in Senders \cup Runs, Created(p) PROVE TData'
  BY <1>13, InputTyped DEF Created, engines, Types, TData, TLocks, TMemory,
    TRequests, Terminal, Procs, Callers, Inside
<1>14. ASSUME NEW p \in Senders \cup Runs, Launched(p) PROVE TData'
  BY <1>14, InputTyped DEF Launched, database, requests, Types, TData, TLocks,
    TMemory, TRequests, Terminal, Procs, Callers, Inside
<1>15. ASSUME NEW p \in Senders \cup Runs, StartFails(p) PROVE TData'
  BY <1>15, InputTyped DEF StartFails, memory, database, engines, requests,
    Types, TData, TLocks, TMemory, TRequests, Terminal, Procs, Callers, Inside
<1>16. ASSUME NEW g \in Runs, RowCreated(g) PROVE TData'
  BY <1>16, InputTyped DEF RowCreated, memory, locks, engines, requests,
    Types, TData, TLocks, TMemory, TRequests, Terminal, Procs, Callers
<1>17. ASSUME NEW g \in Runs, KernelEnds(g) PROVE TData'
  BY <1>17, InputTyped DEF KernelEnds, memory, locks, requests, Types, TData,
    TLocks, TMemory, TRequests, Terminal, Procs, Callers
<1>18. ASSUME NEW g \in Runs, Projected(g) PROVE TData'
  <2>1. row[g] \in Terminal
    BY <1>18 DEF Projected, Unprojected
  <2> QED
    BY <1>18, <2>1 DEF Projected, Types, TData, engines
<1>19. ASSUME NEW g \in Runs, GenerationDone(g) PROVE TData'
  BY <1>19, InputTyped DEF GenerationDone, locks, database, engines, Types,
    TData, TLocks, TMemory, TRequests, Terminal, Procs, Callers
<1>20. ASSUME NEW g \in Runs, Continued(g) PROVE TData'
  BY <1>20, InputTyped DEF Continued, memory, database, engines, requests,
    Types, TData, TLocks, TMemory, TRequests, Terminal, Procs, Callers
<1>21. ASSUME NEW c \in {"cancel", "close"}, CancelRunning(c) PROVE TData'
  BY <1>21, InputTyped DEF CancelRunning, database, Types, TData, TLocks,
    TMemory, TRequests, Terminal, Procs, Callers
<1>22. ASSUME NEW c \in {"cancel", "close"}, CancelWaited(c) PROVE TData'
  BY <1>22, InputTyped DEF CancelWaited, memory, database, engines, requests,
    Types, TData, TLocks, TMemory, TRequests, Terminal, Procs, Callers
<1>23. ASSUME NEW c \in {"cancel", "close"}, CancelAbandons(c) PROVE TData'
  BY <1>23, InputTyped DEF CancelAbandons, memory, database, engines,
    requests, Types, TData, TLocks, TMemory, TRequests, Terminal, Procs,
    Callers
<1>24. ASSUME NEW c \in {"cancel", "close"}, CancelRows(c) PROVE TData'
  BY <1>24, InputTyped DEF CancelRows, memory, engines, Types, TData, TLocks,
    TMemory, TRequests, Terminal, Procs, Callers, Closed
<1>25. ASSUME NEW c \in {"cancel", "close"}, CancelRecords(c) PROVE TData'
  BY <1>25, InputTyped, ZenonT(40) DEF CancelRecords, memory, engines, requests, Types,
    TData, TLocks, TMemory, TRequests, Terminal, Procs, Callers, Reconciled,
    Abandoned
<1>26. CASE CloseForgets
  BY <1>26, InputTyped DEF CloseForgets, database, engines, requests, Types,
    TData, TLocks, TMemory, TRequests, Terminal, Procs, Callers
<1>27. CASE CloseDeletes
  BY <1>27, InputTyped DEF CloseDeletes, memory, engines, requests, Types,
    TData, TLocks, TMemory, TRequests, Terminal, Procs, Callers
<1>28. CASE ConnectAsks
  BY <1>28, InputTyped DEF ConnectAsks, memory, database, engines, requests,
    Types, TData, TLocks, TMemory, TRequests, Terminal, Procs, Callers
<1>29. CASE ConnectRecovers
  BY <1>29, InputTyped, RecoveryTyped DEF ConnectRecovers, Rows, Records,
    engines, requests, Types, TData, TLocks, TMemory, TRequests, Terminal,
    Procs, Callers, Inside
<1>30. CASE CrashAndRestart
  BY <1>30, InputTyped DEF CrashAndRestart, requests, Types, TData, TLocks,
    TMemory, TRequests, Terminal, Procs, Callers, Closed
<1> QED
  BY <1>1, <1>2, <1>3, <1>4, <1>5, <1>6, <1>7, <1>8, <1>9, <1>10, <1>11,
    <1>12, <1>13, <1>14, <1>15, <1>16, <1>17, <1>18, <1>19, <1>20, <1>21,
    <1>22, <1>23, <1>24, <1>25, <1>26, <1>27, <1>28, <1>29, <1>30 DEF Next,
    SendStep, StartStep, RunStep, CancelArrives, CancelProceeds, CloseStep

(* Every step keeps the types of the manager's memory.                     *)
LEMMA MemoryTyped ==
  ASSUME Types, [Next]_vars
  PROVE  TMemory'
<1>1. CASE UNCHANGED vars
  BY <1>1 DEF vars, memory, locks, database, engines, requests, Types, TData,
    TLocks, TMemory, TRequests, Terminal, Procs, Callers
<1>2. ASSUME NEW s \in Senders, ChatSend(s) PROVE TMemory'
  BY <1>2, InputTyped DEF ChatSend, memory, database, engines, Types, TData,
    TLocks, TMemory, TRequests, Terminal, Procs, Callers
<1>3. ASSUME NEW s \in Senders, EngineReady(s) PROVE TMemory'
  <2>1. about[s] \in Runs \cup {None} /\ seen[s] \in Records
    BY DEF Types, TRequests, Procs, Records, Terminal
  <2>2. /\ active' \in Runs \cup {None}
        /\ \/ UNCHANGED <<genId, activeMsg, liveMsgs, queue>>
           \/ genId' = None /\ activeMsg' = None /\ liveMsgs' = {} /\ queue' = <<>>
    BY <1>3, <2>1, RecoveryTyped DEF EngineReady, Types
  <2> QED
    BY <1>3, <2>2, EmptySeq DEF EngineReady, Types, TMemory
<1>4. ASSUME NEW s \in Senders, SendRequested(s) PROVE TMemory'
  BY <1>4, InputTyped DEF SendRequested, memory, database, engines, requests,
    Types, TData, TLocks, TMemory, TRequests, Terminal, Procs, Callers
<1>5. ASSUME NEW s \in Senders, SendChecks(s) PROVE TMemory'
  BY <1>5, InputTyped DEF SendChecks, Checks, memory, database, engines,
    requests, Types, TData, TLocks, TMemory, TRequests, Terminal, Procs,
    Callers, Inside
<1>6. ASSUME NEW s \in Senders, SendDuplicate(s) PROVE TMemory'
  BY <1>6, InputTyped DEF SendDuplicate, memory, database, engines, requests,
    Types, TData, TLocks, TMemory, TRequests, Terminal, Procs, Callers, Inside
<1>7. ASSUME NEW s \in Senders, SendStarts(s) PROVE TMemory'
  BY <1>7, InputTyped DEF SendStarts, memory, database, engines, requests,
    Types, TData, TLocks, TMemory, TRequests, Terminal, Procs, Callers, Inside
<1>8. ASSUME NEW s \in Senders, SendQueues(s) PROVE TMemory'
  BY <1>8, InputTyped DEF SendQueues, database, engines, requests, Types,
    TData, TLocks, TMemory, TRequests, Terminal, Procs, Callers, Inside
<1>9. ASSUME NEW s \in Senders, SendInjects(s) PROVE TMemory'
  BY <1>9, InputTyped DEF SendInjects, memory, database, engines, Types,
    TData, TLocks, TMemory, TRequests, Terminal, Procs, Callers, Inside
<1>10. ASSUME NEW s \in Senders, Injected(s) PROVE TMemory'
  <2>1. Message(s) \in Messages
    BY InputTyped DEF Types
  <2>2. queue' \in Seq(Messages) /\ liveMsgs' \subseteq Messages
    BY <1>10, <2>1 DEF Injected, Types, TMemory
  <2> QED
    BY <1>10, <2>2 DEF Injected, Types, TMemory, database
<1>11. ASSUME NEW p \in Senders \cup Runs, StartChecks(p) PROVE TMemory'
  BY <1>11, InputTyped DEF StartChecks, Checks, memory, database, engines,
    requests, Types, TData, TLocks, TMemory, TRequests, Terminal, Procs,
    Callers, Inside
<1>12. ASSUME NEW p \in Senders \cup Runs, StartDecides(p) PROVE TMemory'
  BY <1>12, InputTyped DEF StartDecides, memory, database, engines, requests,
    Types, TData, TLocks, TMemory, TRequests, Terminal, Procs, Callers, Inside
<1>13. ASSUME NEW p \in Senders \cup Runs, Created(p) PROVE TMemory'
  BY <1>13, InputTyped DEF Created, engines, Types, TData, TLocks, TMemory,
    TRequests, Terminal, Procs, Callers, Inside
<1>14. ASSUME NEW p \in Senders \cup Runs, Launched(p) PROVE TMemory'
  BY <1>14, InputTyped DEF Launched, database, requests, Types, TData, TLocks,
    TMemory, TRequests, Terminal, Procs, Callers, Inside
<1>15. ASSUME NEW p \in Senders \cup Runs, StartFails(p) PROVE TMemory'
  BY <1>15, InputTyped DEF StartFails, memory, database, engines, requests,
    Types, TData, TLocks, TMemory, TRequests, Terminal, Procs, Callers, Inside
<1>16. ASSUME NEW g \in Runs, RowCreated(g) PROVE TMemory'
  BY <1>16, InputTyped DEF RowCreated, memory, locks, engines, requests,
    Types, TData, TLocks, TMemory, TRequests, Terminal, Procs, Callers
<1>17. ASSUME NEW g \in Runs, KernelEnds(g) PROVE TMemory'
  BY <1>17, InputTyped DEF KernelEnds, memory, locks, requests, Types, TData,
    TLocks, TMemory, TRequests, Terminal, Procs, Callers
<1>18. ASSUME NEW g \in Runs, Projected(g) PROVE TMemory'
  BY <1>18, InputTyped DEF Projected, memory, locks, engines, requests, Types,
    TData, TLocks, TMemory, TRequests, Terminal, Procs, Callers
<1>19. ASSUME NEW g \in Runs, GenerationDone(g) PROVE TMemory'
  <2>1. queue # <<>> => Tail(queue) \in Seq(Messages)
    BY HeadTailProperties DEF Types, TMemory
  <2>2. UNCHANGED <<binding, active>> /\ {running', handle', genId'} \subseteq {handle, genId, None}
    BY <1>19 DEF GenerationDone, Remembered, database
  <2>3. /\ activeMsg' \in {activeMsg, None} /\ liveMsgs' \in {liveMsgs, {}}
        /\ queue' = queue \/ (queue # <<>> /\ queue' = Tail(queue))
    BY <1>19 DEF GenerationDone, Remembered
  <2> QED
    BY <2>1, <2>2, <2>3 DEF Types, TMemory
<1>20. ASSUME NEW g \in Runs, Continued(g) PROVE TMemory'
  BY <1>20, InputTyped DEF Continued, memory, database, engines, requests,
    Types, TData, TLocks, TMemory, TRequests, Terminal, Procs, Callers
<1>21. ASSUME NEW c \in {"cancel", "close"}, CancelRunning(c) PROVE TMemory'
  BY <1>21, InputTyped DEF CancelRunning, database, Types, TData, TLocks,
    TMemory, TRequests, Terminal, Procs, Callers
<1>22. ASSUME NEW c \in {"cancel", "close"}, CancelWaited(c) PROVE TMemory'
  BY <1>22, InputTyped DEF CancelWaited, memory, database, engines, requests,
    Types, TData, TLocks, TMemory, TRequests, Terminal, Procs, Callers
<1>23. ASSUME NEW c \in {"cancel", "close"}, CancelAbandons(c) PROVE TMemory'
  BY <1>23, InputTyped DEF CancelAbandons, memory, database, engines,
    requests, Types, TData, TLocks, TMemory, TRequests, Terminal, Procs,
    Callers
<1>24. ASSUME NEW c \in {"cancel", "close"}, CancelRows(c) PROVE TMemory'
  BY <1>24, InputTyped DEF CancelRows, memory, engines, Types, TData, TLocks,
    TMemory, TRequests, Terminal, Procs, Callers
<1>25. ASSUME NEW c \in {"cancel", "close"}, CancelRecords(c) PROVE TMemory'
  BY <1>25, InputTyped DEF CancelRecords, memory, engines, requests, Types,
    TData, TLocks, TMemory, TRequests, Terminal, Procs, Callers, StillActive
<1>26. CASE CloseForgets
  <2> QED
    BY <1>26, EmptySeq DEF CloseForgets, Forgotten, Types, TMemory, database
<1>27. CASE CloseDeletes
  BY <1>27, InputTyped DEF CloseDeletes, memory, engines, requests, Types,
    TData, TLocks, TMemory, TRequests, Terminal, Procs, Callers
<1>28. CASE ConnectAsks
  BY <1>28, InputTyped DEF ConnectAsks, memory, database, engines, requests,
    Types, TData, TLocks, TMemory, TRequests, Terminal, Procs, Callers
<1>29. CASE ConnectRecovers
  <2>1. active \in Runs \cup {None} /\ record \in Records
    BY DEF Types, TMemory, TData, Records
  <2>2. /\ active' \in Runs \cup {None}
        /\ \/ UNCHANGED <<genId, activeMsg, liveMsgs, queue>>
           \/ genId' = None /\ activeMsg' = None /\ liveMsgs' = {} /\ queue' = <<>>
    BY <1>29, <2>1, RecoveryTyped DEF ConnectRecovers, Types
  <2> QED
    BY <1>29, <2>2, EmptySeq DEF ConnectRecovers, Types, TMemory
<1>30. CASE CrashAndRestart
  <2>1. active' \in {active, None}
    BY <1>30 DEF CrashAndRestart
  <2> QED
    BY <1>30, <2>1, EmptySeq DEF CrashAndRestart, Forgotten, Types, TMemory
<1> QED
  BY <1>1, <1>2, <1>3, <1>4, <1>5, <1>6, <1>7, <1>8, <1>9, <1>10, <1>11,
    <1>12, <1>13, <1>14, <1>15, <1>16, <1>17, <1>18, <1>19, <1>20, <1>21,
    <1>22, <1>23, <1>24, <1>25, <1>26, <1>27, <1>28, <1>29, <1>30 DEF Next,
    SendStep, StartStep, RunStep, CancelArrives, CancelProceeds, CloseStep

(* Every step keeps the types of what the requests carry.                  *)
LEMMA RequestsTyped ==
  ASSUME Types, [Next]_vars
  PROVE  TRequests'
<1>1. CASE UNCHANGED vars
  BY <1>1 DEF vars, memory, locks, database, engines, requests, Types, TData,
    TLocks, TMemory, TRequests, Terminal, Procs, Callers
<1>2. ASSUME NEW s \in Senders, ChatSend(s) PROVE TRequests'
  <2>1. /\ about' \in [Procs -> Runs \cup {None}]
        /\ seen' = seen \/ seen' = [seen EXCEPT ![s] = record]
    BY <1>2 DEF ChatSend, Types, TRequests, TMemory
  <2>2. seen' \in [Senders -> [Runs -> {"none", "running"} \cup Terminal]]
    BY <2>1 DEF Types, TRequests, TData
  <2> QED
    BY <1>2, <2>1, <2>2 DEF ChatSend, Types, TRequests
<1>3. ASSUME NEW s \in Senders, EngineReady(s) PROVE TRequests'
  BY <1>3, InputTyped DEF EngineReady, engines, Types, TData, TLocks, TMemory,
    TRequests, Terminal, Procs, Callers, Inside, NoRecords
<1>4. ASSUME NEW s \in Senders, SendRequested(s) PROVE TRequests'
  BY <1>4, InputTyped DEF SendRequested, memory, database, engines, requests,
    Types, TData, TLocks, TMemory, TRequests, Terminal, Procs, Callers
<1>5. ASSUME NEW s \in Senders, SendChecks(s) PROVE TRequests'
  BY <1>5, InputTyped DEF SendChecks, Checks, memory, database, engines,
    requests, Types, TData, TLocks, TMemory, TRequests, Terminal, Procs,
    Callers, Inside
<1>6. ASSUME NEW s \in Senders, SendDuplicate(s) PROVE TRequests'
  BY <1>6, InputTyped DEF SendDuplicate, memory, database, engines, requests,
    Types, TData, TLocks, TMemory, TRequests, Terminal, Procs, Callers, Inside
<1>7. ASSUME NEW s \in Senders, SendStarts(s) PROVE TRequests'
  BY <1>7, InputTyped DEF SendStarts, memory, database, engines, requests,
    Types, TData, TLocks, TMemory, TRequests, Terminal, Procs, Callers, Inside
<1>8. ASSUME NEW s \in Senders, SendQueues(s) PROVE TRequests'
  BY <1>8, InputTyped DEF SendQueues, database, engines, requests, Types,
    TData, TLocks, TMemory, TRequests, Terminal, Procs, Callers, Inside
<1>9. ASSUME NEW s \in Senders, SendInjects(s) PROVE TRequests'
  BY <1>9, InputTyped DEF SendInjects, memory, database, engines, Types,
    TData, TLocks, TMemory, TRequests, Terminal, Procs, Callers, Inside
<1>10. ASSUME NEW s \in Senders, Injected(s) PROVE TRequests'
  BY <1>10, InputTyped DEF Injected, database, requests, Types, TData, TLocks,
    TMemory, TRequests, Terminal, Procs, Callers, Inside
<1>11. ASSUME NEW p \in Senders \cup Runs, StartChecks(p) PROVE TRequests'
  BY <1>11, InputTyped DEF StartChecks, Checks, memory, database, engines,
    requests, Types, TData, TLocks, TMemory, TRequests, Terminal, Procs,
    Callers, Inside
<1>12. ASSUME NEW p \in Senders \cup Runs, StartDecides(p) PROVE TRequests'
  BY <1>12, InputTyped DEF StartDecides, memory, database, engines, requests,
    Types, TData, TLocks, TMemory, TRequests, Terminal, Procs, Callers, Inside
<1>13. ASSUME NEW p \in Senders \cup Runs, Created(p) PROVE TRequests'
  BY <1>13, InputTyped DEF Created, engines, Types, TData, TLocks, TMemory,
    TRequests, Terminal, Procs, Callers, Inside
<1>14. ASSUME NEW p \in Senders \cup Runs, Launched(p) PROVE TRequests'
  BY <1>14, InputTyped DEF Launched, database, requests, Types, TData, TLocks,
    TMemory, TRequests, Terminal, Procs, Callers, Inside
<1>15. ASSUME NEW p \in Senders \cup Runs, StartFails(p) PROVE TRequests'
  BY <1>15, InputTyped DEF StartFails, memory, database, engines, requests,
    Types, TData, TLocks, TMemory, TRequests, Terminal, Procs, Callers, Inside
<1>16. ASSUME NEW g \in Runs, RowCreated(g) PROVE TRequests'
  BY <1>16, InputTyped DEF RowCreated, memory, locks, engines, requests,
    Types, TData, TLocks, TMemory, TRequests, Terminal, Procs, Callers
<1>17. ASSUME NEW g \in Runs, KernelEnds(g) PROVE TRequests'
  BY <1>17, InputTyped DEF KernelEnds, memory, locks, requests, Types, TData,
    TLocks, TMemory, TRequests, Terminal, Procs, Callers
<1>18. ASSUME NEW g \in Runs, Projected(g) PROVE TRequests'
  BY <1>18, InputTyped DEF Projected, memory, locks, engines, requests, Types,
    TData, TLocks, TMemory, TRequests, Terminal, Procs, Callers
<1>19. ASSUME NEW g \in Runs, GenerationDone(g) PROVE TRequests'
  <2>1. queue # <<>> => Head(queue) \in Messages
    BY HeadTailProperties DEF Types, TMemory
  <2>2. next' = next \/ next' = [next EXCEPT ![g] = IF queue = <<>> THEN None ELSE Head(queue)]
    BY <1>19 DEF GenerationDone
  <2>3. next' \in [Runs -> Messages \cup {None}]
    BY <2>1, <2>2 DEF Types, TRequests
  <2> QED
    BY <1>19, <2>3 DEF GenerationDone, Types, TRequests
<1>20. ASSUME NEW g \in Runs, Continued(g) PROVE TRequests'
  BY <1>20, InputTyped DEF Continued, memory, database, engines, requests,
    Types, TData, TLocks, TMemory, TRequests, Terminal, Procs, Callers
<1>21. ASSUME NEW c \in {"cancel", "close"}, CancelRunning(c) PROVE TRequests'
  BY <1>21, InputTyped DEF CancelRunning, database, Types, TData, TLocks,
    TMemory, TRequests, Terminal, Procs, Callers
<1>22. ASSUME NEW c \in {"cancel", "close"}, CancelWaited(c) PROVE TRequests'
  BY <1>22, InputTyped DEF CancelWaited, memory, database, engines, requests,
    Types, TData, TLocks, TMemory, TRequests, Terminal, Procs, Callers
<1>23. ASSUME NEW c \in {"cancel", "close"}, CancelAbandons(c) PROVE TRequests'
  BY <1>23, InputTyped DEF CancelAbandons, memory, database, engines,
    requests, Types, TData, TLocks, TMemory, TRequests, Terminal, Procs,
    Callers
<1>24. ASSUME NEW c \in {"cancel", "close"}, CancelRows(c) PROVE TRequests'
  BY <1>24, InputTyped DEF CancelRows, memory, engines, Types, TData, TLocks,
    TMemory, TRequests, Terminal, Procs, Callers, Open
<1>25. ASSUME NEW c \in {"cancel", "close"}, CancelRecords(c) PROVE TRequests'
  BY <1>25, InputTyped DEF CancelRecords, memory, engines, requests, Types,
    TData, TLocks, TMemory, TRequests, Terminal, Procs, Callers
<1>26. CASE CloseForgets
  BY <1>26, InputTyped DEF CloseForgets, database, engines, requests, Types,
    TData, TLocks, TMemory, TRequests, Terminal, Procs, Callers, Forgotten
<1>27. CASE CloseDeletes
  BY <1>27, InputTyped DEF CloseDeletes, memory, engines, requests, Types,
    TData, TLocks, TMemory, TRequests, Terminal, Procs, Callers
<1>28. CASE ConnectAsks
  BY <1>28, InputTyped DEF ConnectAsks, memory, database, engines, requests,
    Types, TData, TLocks, TMemory, TRequests, Terminal, Procs, Callers
<1>29. CASE ConnectRecovers
  BY <1>29, InputTyped DEF ConnectRecovers, engines, requests, Types, TData,
    TLocks, TMemory, TRequests, Terminal, Procs, Callers, Inside
<1>30. CASE CrashAndRestart
  BY <1>30, InputTyped DEF CrashAndRestart, requests, Types, TData, TLocks,
    TMemory, TRequests, Terminal, Procs, Callers, Forgotten, Open
<1> QED
  BY <1>1, <1>2, <1>3, <1>4, <1>5, <1>6, <1>7, <1>8, <1>9, <1>10, <1>11,
    <1>12, <1>13, <1>14, <1>15, <1>16, <1>17, <1>18, <1>19, <1>20, <1>21,
    <1>22, <1>23, <1>24, <1>25, <1>26, <1>27, <1>28, <1>29, <1>30 DEF Next,
    SendStep, StartStep, RunStep, CancelArrives, CancelProceeds, CloseStep

(* The types hold in every state.                                          *)
LEMMA TypesInv == Spec => []Types
<1>1. Init => Types
  <2> SUFFICES ASSUME Init PROVE Types
    OBVIOUS
  <2>1. TLocks
    BY DEF Init, TLocks
  <2>2. TMemory
    BY EmptySeq DEF Init, TMemory
  <2>3. TData
    BY DEF Init, TData, NoRecords, Terminal
  <2>4. TRequests
    BY DEF Init, TRequests, NoRecords, Terminal
  <2> QED BY <2>1, <2>2, <2>3, <2>4 DEF Types
<1>2. Types /\ [Next]_vars => Types'
  BY LocksPreserved, DataTyped, MemoryTyped, RequestsTyped DEF Types
<1> QED BY <1>1, <1>2, PTL DEF Spec

(* Type correctness: every step of the requests, the Runs, the deletion,   *)
(* the recovery and the crash keeps the manager's memory, the records and  *)
(* the locks within their types.                                           *)
THEOREM TypeCorrect == Spec => []TypeOK
<1>1. Types => TypeOK
  BY DEF Types, TLocks, TMemory, TData, TRequests, TypeOK
<1> QED BY <1>1, TypesInv, PTL

-----------------------------------------------------------------------------
(* One Run at a time.                                                      *)

(* What holds of the lock while no conversation is deleted: there is one,  *)
(* and only its head is at a label between the checks and the release.     *)
Holding == {"send_read", "post", "start_read", "create", "launch"}
Creating == {"create", "launch"}
Heads(p) == lock[1] # <<>> /\ Head(lock[1]) = p
OneLock == door = 1 /\ lock[2] = <<>> /\ \A p \in Procs : pc[p] \in Holding => Heads(p)
OneAtATime == (\A p \in Procs : pc[p] \in Creating => running = None) /\ OneActiveRun
TurnInv == OneLock /\ OneAtATime

(* What another process does leaves the head of the lock in place.         *)
LEMMA HeadsKept ==
  ASSUME TLocks, OneLock, NEW p \in Procs, NEW q \in Procs, Heads(q), q # p,
         NEW label, Leave(p, label) \/ Join(p, label) \/ Keep(p, label)
  PROVE  Heads(q)'
<1>1. Without(p)[1] = lock[1]
  BY DEF Heads, Without
<1>2. lock'[1] = lock[1] \/ lock'[1] = Append(lock[1], p)
  BY <1>1 DEF Leave, Join, Keep, locks, OneLock, TLocks, Without
<1>3. lock[1] # <<>> => Append(lock[1], p) # <<>> /\ Head(Append(lock[1], p)) = Head(lock[1])
  BY HeadTailAppend DEF TLocks
<1> QED BY <1>2, <1>3 DEF Heads

(* Who acts inside the lock heads it.                                      *)
LEMMA InsideHeads ==
  ASSUME OneLock, NEW p, NEW label, Inside(p, label)
  PROVE  Heads(p) /\ pc[p] = label
BY DEF OneLock, Heads, Inside

(* A move keeps the lock when its label is held by the head only.          *)
LEMMA OneLockMoves ==
  ASSUME TLocks, OneLock, NEW p \in Procs, NEW label,
         Leave(p, label) \/ Join(p, label) \/ Keep(p, label),
         label \in Holding => Keep(p, label) /\ Heads(p)
  PROVE  OneLock'
<1>1. pc' = [pc EXCEPT ![p] = label]
  BY DEF Leave, Join, Keep, Go
<1>2. door' = 1 /\ lock'[2] = <<>>
  <2>1. Without(p)[2] = <<>> /\ DOMAIN Without(p) = {1, 2}
    BY DEF Without, OneLock
  <2> QED BY <2>1 DEF Leave, Join, Keep, locks, OneLock
<1>3. ASSUME NEW q \in Procs, pc'[q] \in Holding
      PROVE  Heads(q)'
  <2>1. CASE q = p
    <3>1. label \in Holding
      BY <1>1, <1>3, <2>1 DEF TLocks
    <3> QED BY <2>1, <3>1 DEF Keep, locks, Heads
  <2>2. CASE q # p
    <3>1. pc[q] \in Holding
      BY <1>1, <1>3, <2>2 DEF TLocks
    <3> QED BY <2>2, <3>1, HeadsKept DEF OneLock
  <2> QED BY <2>1, <2>2
<1> QED BY <1>2, <1>3 DEF OneLock

(* The three ways a step moves a process, each as a fact to cite.          *)
LEMMA LeaveInv ==
  ASSUME TLocks, OneLock
  PROVE  \A p \in Procs : \A label : Leave(p, label) /\ label \notin Holding => OneLock'
BY OneLockMoves

(* Asking for the lock.                                                    *)
LEMMA JoinInv ==
  ASSUME TLocks, OneLock
  PROVE  \A p \in Procs : \A label : Join(p, label) /\ label \notin Holding => OneLock'
BY OneLockMoves

(* Keeping where one is in the lock.                                       *)
LEMMA KeepInv ==
  ASSUME TLocks, OneLock
  PROVE  \A p \in Procs : \A label :
           Keep(p, label) /\ (label \in Holding => Heads(p)) => OneLock'
BY OneLockMoves

(* What a move does to the labels.                                         *)
LEMMA PcMoves ==
  ASSUME TLocks
  PROVE  \A p \in Procs : \A label :
           /\ Leave(p, label) => pc' = [pc EXCEPT ![p] = label]
           /\ Join(p, label) => pc' = [pc EXCEPT ![p] = label]
           /\ Keep(p, label) => pc' = [pc EXCEPT ![p] = label]
BY DEF Leave, Join, Keep, Go

(* Two processes are not both between the checks and the release.          *)
LEMMA OneHolder ==
  ASSUME OneLock, NEW p \in Procs, NEW q \in Procs, pc[p] \in Holding, pc[q] \in Holding
  PROVE  p = q
BY DEF OneLock, Heads

(* The lock is kept by every step while nobody deletes the conversation.   *)
LEMMA LockInv ==
  ASSUME Types, OneLock, ~Closes, [Next]_vars
  PROVE  OneLock'
<1>1. CASE UNCHANGED vars
  BY <1>1 DEF vars, memory, locks, database, engines, requests, Types,
    Holding, Procs, Callers, OneLock, Heads
<1>2. ASSUME NEW s \in Senders, ChatSend(s) PROVE OneLock'
  BY <1>2, LeaveInv, JoinInv, KeepInv, InsideHeads DEF ChatSend, memory,
    database, engines, Types, Holding, Procs, Callers
<1>3. ASSUME NEW s \in Senders, EngineReady(s) PROVE OneLock'
  BY <1>3, LeaveInv, JoinInv, KeepInv, InsideHeads DEF EngineReady, engines,
    Types, Holding, Procs, Callers
<1>4. ASSUME NEW s \in Senders, SendRequested(s) PROVE OneLock'
  BY <1>4, LeaveInv, JoinInv, KeepInv, InsideHeads DEF SendRequested, memory,
    database, engines, requests, Types, Holding, Procs, Callers
<1>5. ASSUME NEW s \in Senders, SendChecks(s) PROVE OneLock'
  BY <1>5, LeaveInv, JoinInv, KeepInv, InsideHeads DEF SendChecks, Checks,
    memory, database, engines, requests, Types, Holding, Procs, Callers
<1>6. ASSUME NEW s \in Senders, SendDuplicate(s) PROVE OneLock'
  BY <1>6, LeaveInv, JoinInv, KeepInv, InsideHeads DEF SendDuplicate, memory,
    database, engines, requests, Types, Holding, Procs, Callers
<1>7. ASSUME NEW s \in Senders, SendStarts(s) PROVE OneLock'
  BY <1>7, LeaveInv, JoinInv, KeepInv, InsideHeads DEF SendStarts, memory,
    database, engines, requests, Types, Holding, Procs, Callers
<1>8. ASSUME NEW s \in Senders, SendQueues(s) PROVE OneLock'
  BY <1>8, LeaveInv, JoinInv, KeepInv, InsideHeads DEF SendQueues, database,
    engines, requests, Types, Holding, Procs, Callers
<1>9. ASSUME NEW s \in Senders, SendInjects(s) PROVE OneLock'
  BY <1>9, LeaveInv, JoinInv, KeepInv, InsideHeads DEF SendInjects, memory,
    database, engines, Types, Holding, Procs, Callers
<1>10. ASSUME NEW s \in Senders, Injected(s) PROVE OneLock'
  BY <1>10, LeaveInv, JoinInv, KeepInv, InsideHeads DEF Injected, database,
    requests, Types, Holding, Procs, Callers
<1>11. ASSUME NEW p \in Senders \cup Runs, StartChecks(p) PROVE OneLock'
  BY <1>11, LeaveInv, JoinInv, KeepInv, InsideHeads DEF StartChecks, Checks,
    memory, database, engines, requests, Types, Holding, Procs, Callers
<1>12. ASSUME NEW p \in Senders \cup Runs, StartDecides(p) PROVE OneLock'
  BY <1>12, LeaveInv, JoinInv, KeepInv, InsideHeads DEF StartDecides, memory,
    database, engines, requests, Types, Holding, Procs, Callers
<1>13. ASSUME NEW p \in Senders \cup Runs, Created(p) PROVE OneLock'
  BY <1>13, LeaveInv, JoinInv, KeepInv, InsideHeads DEF Created, engines,
    Types, Holding, Procs, Callers
<1>14. ASSUME NEW p \in Senders \cup Runs, Launched(p) PROVE OneLock'
  BY <1>14, LeaveInv, JoinInv, KeepInv, InsideHeads DEF Launched, database,
    requests, Types, Holding, Procs, Callers
<1>15. ASSUME NEW p \in Senders \cup Runs, StartFails(p) PROVE OneLock'
  BY <1>15, LeaveInv, JoinInv, KeepInv, InsideHeads DEF StartFails, memory,
    database, engines, requests, Types, Holding, Procs, Callers
<1>16. ASSUME NEW g \in Runs, RowCreated(g) PROVE OneLock'
  BY <1>16 DEF RowCreated, locks, OneLock, Heads
<1>17. ASSUME NEW g \in Runs, KernelEnds(g) PROVE OneLock'
  BY <1>17 DEF KernelEnds, locks, OneLock, Heads
<1>18. ASSUME NEW g \in Runs, Projected(g) PROVE OneLock'
  BY <1>18 DEF Projected, locks, OneLock, Heads
<1>19. ASSUME NEW g \in Runs, GenerationDone(g) PROVE OneLock'
  BY <1>19 DEF GenerationDone, Go, locks, OneLock, Heads, Holding, Types, TLocks
<1>20. ASSUME NEW g \in Runs, Continued(g) PROVE OneLock'
  BY <1>20, LeaveInv, JoinInv, KeepInv, InsideHeads DEF Continued, memory,
    database, engines, requests, Types, Holding, Procs, Callers
<1>21. ASSUME NEW c \in {"cancel", "close"}, CancelRunning(c) PROVE OneLock'
  BY <1>21, LeaveInv, JoinInv, KeepInv, InsideHeads DEF CancelRunning,
    database, Types, Holding, Procs, Callers
<1>22. ASSUME NEW c \in {"cancel", "close"}, CancelWaited(c) PROVE OneLock'
  BY <1>22, LeaveInv, JoinInv, KeepInv, InsideHeads DEF CancelWaited, memory,
    database, engines, requests, Types, Holding, Procs, Callers
<1>23. ASSUME NEW c \in {"cancel", "close"}, CancelAbandons(c) PROVE OneLock'
  BY <1>23, LeaveInv, JoinInv, KeepInv, InsideHeads DEF CancelAbandons,
    memory, database, engines, requests, Types, Holding, Procs, Callers
<1>24. ASSUME NEW c \in {"cancel", "close"}, CancelRows(c) PROVE OneLock'
  BY <1>24, LeaveInv, JoinInv, KeepInv, InsideHeads DEF CancelRows, memory,
    engines, Types, Holding, Procs, Callers
<1>25. ASSUME NEW c \in {"cancel", "close"}, CancelRecords(c) PROVE OneLock'
  BY <1>25, LeaveInv, JoinInv, KeepInv, InsideHeads DEF CancelRecords, memory,
    engines, requests, Types, Holding, Procs, Callers
<1>26. CASE ConnectAsks
  BY <1>26, LeaveInv, JoinInv, KeepInv, InsideHeads DEF ConnectAsks, memory,
    database, engines, requests, Types, Holding, Procs, Callers
<1>27. CASE ConnectRecovers
  BY <1>27, LeaveInv, JoinInv, KeepInv, InsideHeads DEF ConnectRecovers,
    engines, requests, Types, Holding, Procs, Callers
<1>28. CASE CrashAndRestart
  BY <1>28 DEF CrashAndRestart, Heads, OneLock, Holding, Types, TLocks
<1> QED
  BY <1>1, <1>2, <1>3, <1>4, <1>5, <1>6, <1>7, <1>8, <1>9, <1>10, <1>11,
    <1>12, <1>13, <1>14, <1>15, <1>16, <1>17, <1>18, <1>19, <1>20, <1>21,
    <1>22, <1>23, <1>24, <1>25, <1>26, <1>27, <1>28 DEF Next, SendStep,
    StartStep, RunStep, CancelArrives, CancelProceeds, CloseStep

(* A move to another label creates no Run.                                 *)
LEMMA NoneCreates ==
  ASSUME TLocks
  PROVE  \A p \in Procs : \A label :
           (Leave(p, label) \/ Join(p, label) \/ Keep(p, label)) /\ label \notin Creating
             => \A q \in Procs : pc'[q] \in Creating => pc[q] \in Creating
BY DEF Leave, Join, Keep, Go, TLocks

(* A recovery that finds a Run followed changes nothing.                   *)
LEMMA RecoveryQuiet ==
  ASSUME NEW id, NEW records, Recovers(id, records)
  PROVE  running # None => UNCHANGED <<row, record, active, genId, activeMsg, liveMsgs, queue>>
BY DEF Recovers, Remembered

(* One Run at a time is kept by every step.                                *)
LEMMA TurnStep ==
  ASSUME Types, TurnInv, ~Closes, [Next]_vars
  PROVE  OneAtATime'
<1>1. CASE UNCHANGED vars
  BY <1>1 DEF vars, memory, locks, database, engines, requests, Types,
    Creating, TurnInv, OneAtATime, OneActiveRun, Procs, Callers, TurnInv,
    OneAtATime, OneActiveRun
<1>2. ASSUME NEW s \in Senders, ChatSend(s) PROVE OneAtATime'
  BY <1>2, NoneCreates DEF ChatSend, memory, database, engines, Types,
    Creating, TurnInv, OneAtATime, OneActiveRun, Procs, Callers
<1>3. ASSUME NEW s \in Senders, EngineReady(s) PROVE OneAtATime'
  <2>1. \A q \in Procs : pc'[q] \in Creating => pc[q] \in Creating
    BY <1>3, NoneCreates DEF EngineReady, Creating, Procs, Callers, Types
  <2> QED BY <1>3, <2>1 DEF EngineReady, engines, TurnInv, OneAtATime, OneActiveRun
<1>4. ASSUME NEW s \in Senders, SendRequested(s) PROVE OneAtATime'
  <2>1. \A q \in Procs : pc'[q] \in Creating => pc[q] \in Creating
    BY <1>4, NoneCreates DEF SendRequested, Creating, Procs, Callers, Types
  <2> QED BY <1>4, <2>1 DEF SendRequested, engines, memory, TurnInv, OneAtATime, OneActiveRun
<1>5. ASSUME NEW s \in Senders, SendChecks(s) PROVE OneAtATime'
  BY <1>5, NoneCreates DEF SendChecks, Checks, memory, database, engines,
    requests, Types, Creating, TurnInv, OneAtATime, OneActiveRun, Procs,
    Callers
<1>6. ASSUME NEW s \in Senders, SendDuplicate(s) PROVE OneAtATime'
  BY <1>6, NoneCreates DEF SendDuplicate, memory, database, engines, requests,
    Types, Creating, TurnInv, OneAtATime, OneActiveRun, Procs, Callers
<1>7. ASSUME NEW s \in Senders, SendStarts(s) PROVE OneAtATime'
  BY <1>7, NoneCreates DEF SendStarts, memory, database, engines, requests,
    Types, Creating, TurnInv, OneAtATime, OneActiveRun, Procs, Callers
<1>8. ASSUME NEW s \in Senders, SendQueues(s) PROVE OneAtATime'
  BY <1>8, NoneCreates DEF SendQueues, database, engines, requests, Types,
    Creating, TurnInv, OneAtATime, OneActiveRun, Procs, Callers
<1>9. ASSUME NEW s \in Senders, SendInjects(s) PROVE OneAtATime'
  BY <1>9, NoneCreates DEF SendInjects, memory, database, engines, Types,
    Creating, TurnInv, OneAtATime, OneActiveRun, Procs, Callers
<1>10. ASSUME NEW s \in Senders, Injected(s) PROVE OneAtATime'
  BY <1>10, NoneCreates DEF Injected, database, requests, Types, Creating,
    TurnInv, OneAtATime, OneActiveRun, Procs, Callers
<1>11. ASSUME NEW p \in Senders \cup Runs, StartChecks(p) PROVE OneAtATime'
  <2>1. \A q \in Procs : pc'[q] \in Creating => pc[q] \in Creating
    BY <1>11, NoneCreates DEF StartChecks, Checks, Creating, Procs, Callers, Types
  <2> QED BY <1>11, <2>1 DEF StartChecks, Checks, memory, engines, TurnInv, OneAtATime, OneActiveRun
<1>12. ASSUME NEW p \in Senders \cup Runs, StartDecides(p) PROVE OneAtATime'
  <2>1. \A q \in Procs : pc'[q] \in Creating => pc[q] \in Creating \/ running = None
    BY <1>12 DEF StartDecides, Leave, Keep, Go, Creating, Procs, Types, TLocks
  <2> QED BY <1>12, <2>1 DEF StartDecides, memory, engines, TurnInv, OneAtATime, OneActiveRun
<1>13. ASSUME NEW p \in Senders \cup Runs, Created(p) PROVE OneAtATime'
  <2>1. pc[p] = "create" /\ running = None /\ \A q \in Procs : pc'[q] \in Creating => q = p \/ pc[q] \in Creating
    BY <1>13 DEF Created, Inside, Keep, Go, Creating, TurnInv, OneAtATime, Procs, Types, TLocks
  <2> QED BY <1>13, <2>1 DEF Created, engines, TurnInv, OneAtATime, OneActiveRun
<1>14. ASSUME NEW p \in Senders \cup Runs, Launched(p) PROVE OneAtATime'
  <2>1. pc[p] = "launch" /\ running = None
    BY <1>14 DEF Launched, Inside, Creating, TurnInv, OneAtATime, Procs
  <2>2. \A q \in Procs : pc'[q] \notin Creating
    BY <1>14, <2>1, OneHolder DEF Launched, Leave, Go, Creating, Holding, TurnInv, Procs,
      Types, TLocks
  <2>3. \A g \in Runs : kernel'[g] = "live" => g = about[p]
    BY <1>14, <2>1, ConversationAssumption DEF Launched, Types, TData, TurnInv, OneAtATime,
      OneActiveRun
  <2> QED BY <1>14, <2>2, <2>3 DEF Launched, TurnInv, OneAtATime, OneActiveRun
<1>15. ASSUME NEW p \in Senders \cup Runs, StartFails(p) PROVE OneAtATime'
  BY <1>15, NoneCreates DEF StartFails, memory, database, engines, requests,
    Types, Creating, TurnInv, OneAtATime, OneActiveRun, Procs, Callers
<1>16. ASSUME NEW g \in Runs, RowCreated(g) PROVE OneAtATime'
  BY <1>16 DEF RowCreated, memory, engines, TurnInv, OneAtATime, OneActiveRun
<1>17. ASSUME NEW g \in Runs, KernelEnds(g) PROVE OneAtATime'
  BY <1>17 DEF KernelEnds, memory, Types, TData, Terminal, TurnInv, OneAtATime, OneActiveRun
<1>18. ASSUME NEW g \in Runs, Projected(g) PROVE OneAtATime'
  BY <1>18 DEF Projected, memory, engines, TurnInv, OneAtATime, OneActiveRun
<1>19. ASSUME NEW g \in Runs, GenerationDone(g) PROVE OneAtATime'
  BY <1>19 DEF GenerationDone, engines, Go, Creating, Types, TLocks, Terminal, TurnInv,
    OneAtATime, OneActiveRun
<1>20. ASSUME NEW g \in Runs, Continued(g) PROVE OneAtATime'
  BY <1>20, NoneCreates DEF Continued, memory, database, engines, requests,
    Types, Creating, TurnInv, OneAtATime, OneActiveRun, Procs, Callers
<1>21. ASSUME NEW c \in {"cancel", "close"}, CancelRunning(c) PROVE OneAtATime'
  <2>1. Keep(c, "cancelling") /\ running' = running /\ kernel' = kernel
    BY <1>21 DEF CancelRunning
  <2>2. \A q \in Procs : pc'[q] \in Creating => pc[q] \in Creating
    BY <2>1, NoneCreates DEF Creating, Procs, Callers, Types
  <2> QED BY <2>1, <2>2 DEF TurnInv, OneAtATime, OneActiveRun
<1>22. ASSUME NEW c \in {"cancel", "close"}, CancelWaited(c) PROVE OneAtATime'
  <2>1. \A q \in Procs : pc'[q] \in Creating => pc[q] \in Creating
    BY <1>22, NoneCreates DEF CancelWaited, Creating, Procs, Callers, Types
  <2> QED BY <1>22, <2>1 DEF CancelWaited, memory, engines, TurnInv, OneAtATime, OneActiveRun
<1>23. ASSUME NEW c \in {"cancel", "close"}, CancelAbandons(c) PROVE OneAtATime'
  BY <1>23, NoneCreates DEF CancelAbandons, memory, database, engines,
    requests, Types, Creating, TurnInv, OneAtATime, OneActiveRun, Procs,
    Callers
<1>24. ASSUME NEW c \in {"cancel", "close"}, CancelRows(c) PROVE OneAtATime'
  <2>1. \A q \in Procs : pc'[q] \in Creating => pc[q] \in Creating
    BY <1>24, NoneCreates DEF CancelRows, Creating, Procs, Callers, Types
  <2> QED BY <1>24, <2>1 DEF CancelRows, memory, engines, TurnInv, OneAtATime, OneActiveRun
<1>25. ASSUME NEW c \in {"cancel", "close"}, CancelRecords(c) PROVE OneAtATime'
  <2>1. \A q \in Procs : pc'[q] \in Creating => pc[q] \in Creating
    BY <1>25, NoneCreates DEF CancelRecords, Creating, Procs, Callers, Types
  <2> QED BY <1>25, <2>1 DEF CancelRecords, memory, engines, TurnInv, OneAtATime, OneActiveRun
<1>26. CASE ConnectAsks
  <2>1. \A q \in Procs : pc'[q] \in Creating => pc[q] \in Creating
    BY <1>26, NoneCreates DEF ConnectAsks, Creating, Procs, Callers, Types
  <2> QED BY <1>26, <2>1 DEF ConnectAsks, memory, engines, TurnInv, OneAtATime, OneActiveRun
<1>27. CASE ConnectRecovers
  <2>1. \A q \in Procs : pc'[q] \in Creating => pc[q] \in Creating
    BY <1>27, NoneCreates DEF ConnectRecovers, Creating, Procs, Callers, Types
  <2> QED BY <1>27, <2>1 DEF ConnectRecovers, engines, TurnInv, OneAtATime, OneActiveRun
<1>28. CASE CrashAndRestart
  BY <1>28 DEF CrashAndRestart, Creating, TurnInv, OneAtATime, OneActiveRun
<1> QED
  BY <1>1, <1>2, <1>3, <1>4, <1>5, <1>6, <1>7, <1>8, <1>9, <1>10, <1>11,
    <1>12, <1>13, <1>14, <1>15, <1>16, <1>17, <1>18, <1>19, <1>20, <1>21,
    <1>22, <1>23, <1>24, <1>25, <1>26, <1>27, <1>28 DEF Next, SendStep,
    StartStep, RunStep, CancelArrives, CancelProceeds, CloseStep

(* The lock and one Run at a time hold in every state.                     *)
LEMMA TurnInvariant ==
  ASSUME ~Closes
  PROVE  Spec => [](Types /\ TurnInv)
<1>1. Init => TurnInv
  BY ConversationAssumption DEF Init, TurnInv, OneLock, OneAtATime, OneActiveRun, Holding, Creating
<1>2. Types /\ TurnInv /\ [Next]_vars => TurnInv'
  BY LockInv, TurnStep DEF TurnInv
<1> QED BY <1>1, <1>2, TypesInv, PTL DEF Spec

(* At most one Run of a conversation is live, and it is the one the        *)
(* manager follows, as long as the conversation is not deleted (which      *)
(* forgets its lock, conversation_run_manager.py:686).                     *)
THEOREM OneRunAtATime ==
  ASSUME ~Closes
  PROVE  Spec => []OneActiveRun
<1>1. Types /\ TurnInv => OneActiveRun
  BY DEF TurnInv, OneAtATime
<1> QED BY <1>1, TurnInvariant, PTL

-----------------------------------------------------------------------------
(* The live Run is shown.                                                  *)

(* What the read model shows, while nobody cancels or deletes.             *)
LaunchShown ==
  \A p \in Procs : pc[p] = "launch" =>
    about[p] \in Runs /\ record[about[p]] = "running" /\ active = about[p]
LiveShown ==
  \A g \in Runs : kernel[g] = "live" /\ row[g] \notin Terminal
                    => record[g] = "running" /\ active = g
ShownInv == LaunchShown /\ LiveShown

(* A move to another label launches no Run.                                *)
LEMMA NoneLaunches ==
  ASSUME TLocks
  PROVE  \A p \in Procs : \A label :
           (Leave(p, label) \/ Join(p, label) \/ Keep(p, label)) /\ label # "launch"
             => \A q \in Procs : pc'[q] = "launch" => pc[q] = "launch" /\ q # p
BY DEF Leave, Join, Keep, Go, TLocks

(* Who acts inside the lock is the only one between checks and release.    *)
LEMMA HeadAlone ==
  ASSUME OneLock, NEW p \in Procs, NEW label, Inside(p, label)
  PROVE  \A q \in Procs : pc[q] \in Holding => q = p /\ pc[p] = label
BY DEF OneLock, Heads, Inside

(* Recovery, by who has the lock, leaves a live Run as it is shown.        *)
LEMMA RecoveryShows ==
  ASSUME Types, TurnInv, ShownInv, NEW id \in Runs \cup {None}, NEW records,
         Recovers(id, records), UNCHANGED kernel
  PROVE  LiveShown'
<1>1. CASE running # None
  BY <1>1, RecoveryQuiet DEF ShownInv, LiveShown
<1>2. CASE running = None
  <2>1. \A g \in Runs : kernel'[g] # "live"
    BY <1>2, ConversationAssumption DEF TurnInv, OneAtATime, OneActiveRun
  <2> QED BY <2>1 DEF LiveShown
<1> QED BY <1>1, <1>2

(* What is shown of the live Run is kept by every step.                    *)
LEMMA ShownStep ==
  ASSUME Types, TurnInv, ShownInv, ~Closes, ~Cancels, [Next]_vars
  PROVE  ShownInv'
<1>1. CASE UNCHANGED vars
  BY <1>1 DEF vars, memory, locks, database, engines, requests, Types,
    ShownInv, LaunchShown, LiveShown, Procs, Callers, LaunchShown, LiveShown
<1>2. ASSUME NEW s \in Senders, ChatSend(s) PROVE ShownInv'
  <2>1. \A q \in Procs : pc'[q] = "launch" => pc[q] = "launch" /\ about'[q] = about[q]
    BY <1>2, NoneLaunches DEF ChatSend, Procs, Callers, Types, TRequests
  <2> QED BY <1>2, <2>1 DEF ChatSend, database, engines, ShownInv, LaunchShown, LiveShown
<1>3. ASSUME NEW s \in Senders, EngineReady(s) PROVE ShownInv'
  <2>1. LiveShown'
    BY <1>3, RecoveryShows DEF EngineReady, engines, Types, TRequests, TMemory, TData, Procs
  <2>2. \A q \in Procs : pc[q] # "launch"
    BY <1>3, HeadAlone DEF EngineReady, TurnInv, Holding, Procs, Callers
  <2>3. \A q \in Procs : pc'[q] # "launch"
    BY <1>3, <2>2, NoneLaunches DEF EngineReady, Types, Procs, Callers
  <2> QED BY <2>1, <2>3 DEF ShownInv, LaunchShown
<1>4. ASSUME NEW s \in Senders, SendRequested(s) PROVE ShownInv'
  <2>1. \A q \in Procs : pc'[q] = "launch" => pc[q] = "launch" /\ about'[q] = about[q]
    BY <1>4, NoneLaunches DEF SendRequested, requests, Procs, Callers, Types, TRequests
  <2> QED BY <1>4, <2>1 DEF SendRequested, database, engines, ShownInv, LaunchShown, LiveShown
<1>5. ASSUME NEW s \in Senders, SendChecks(s) PROVE ShownInv'
  <2>1. \A q \in Procs : pc'[q] = "launch" => pc[q] = "launch" /\ about'[q] = about[q]
    BY <1>5, NoneLaunches DEF SendChecks, Checks, requests, Procs, Callers, Types, TRequests
  <2> QED BY <1>5, <2>1 DEF SendChecks, Checks, database, engines, ShownInv, LaunchShown, LiveShown
<1>6. ASSUME NEW s \in Senders, SendDuplicate(s) PROVE ShownInv'
  <2>1. \A q \in Procs : pc'[q] = "launch" => pc[q] = "launch" /\ about'[q] = about[q]
    BY <1>6, NoneLaunches DEF SendDuplicate, requests, Procs, Callers, Types, TRequests
  <2> QED BY <1>6, <2>1 DEF SendDuplicate, database, engines, ShownInv, LaunchShown, LiveShown
<1>7. ASSUME NEW s \in Senders, SendStarts(s) PROVE ShownInv'
  <2>1. \A q \in Procs : pc'[q] = "launch" => pc[q] = "launch" /\ about'[q] = about[q]
    BY <1>7, NoneLaunches DEF SendStarts, requests, Procs, Callers, Types, TRequests
  <2> QED BY <1>7, <2>1 DEF SendStarts, database, engines, ShownInv, LaunchShown, LiveShown
<1>8. ASSUME NEW s \in Senders, SendQueues(s) PROVE ShownInv'
  <2>1. \A q \in Procs : pc'[q] = "launch" => pc[q] = "launch" /\ about'[q] = about[q]
    BY <1>8, NoneLaunches DEF SendQueues, requests, Procs, Callers, Types, TRequests
  <2> QED BY <1>8, <2>1 DEF SendQueues, database, engines, ShownInv, LaunchShown, LiveShown
<1>9. ASSUME NEW s \in Senders, SendInjects(s) PROVE ShownInv'
  <2>1. \A q \in Procs : pc'[q] = "launch" => pc[q] = "launch" /\ about'[q] = about[q]
    BY <1>9, NoneLaunches DEF SendInjects, Procs, Callers, Types, TRequests
  <2> QED BY <1>9, <2>1 DEF SendInjects, database, engines, ShownInv, LaunchShown, LiveShown
<1>10. ASSUME NEW s \in Senders, Injected(s) PROVE ShownInv'
  <2>1. \A q \in Procs : pc'[q] = "launch" => pc[q] = "launch" /\ about'[q] = about[q]
    BY <1>10, NoneLaunches DEF Injected, requests, Procs, Callers, Types, TRequests
  <2> QED BY <1>10, <2>1 DEF Injected, database, ShownInv, LaunchShown, LiveShown
<1>11. ASSUME NEW p \in Senders \cup Runs, StartChecks(p) PROVE ShownInv'
  <2>1. \A q \in Procs : pc'[q] = "launch" => pc[q] = "launch" /\ about'[q] = about[q]
    BY <1>11, NoneLaunches DEF StartChecks, Checks, requests, Procs, Callers, Types, TRequests
  <2> QED BY <1>11, <2>1 DEF StartChecks, Checks, database, engines, ShownInv, LaunchShown,
    LiveShown
<1>12. ASSUME NEW p \in Senders \cup Runs, StartDecides(p) PROVE ShownInv'
  <2>1. \A q \in Procs : pc'[q] = "launch" => pc[q] = "launch" /\ about'[q] = about[q]
    BY <1>12, NoneLaunches DEF StartDecides, requests, Procs, Callers, Types, TRequests
  <2> QED BY <1>12, <2>1 DEF StartDecides, database, engines, ShownInv, LaunchShown, LiveShown
<1>13. ASSUME NEW p \in Senders \cup Runs, Created(p) PROVE ShownInv'
  <2>1. /\ pc[p] = "create" /\ running = None
        /\ \A q \in Procs : q # p => pc[q] # "launch"
    BY <1>13, InsideHeads, OneHolder DEF Created, Creating, Holding, TurnInv, OneAtATime, Procs
  <2>2. \A h \in Runs : kernel[h] # "live"
    BY <2>1, ConversationAssumption DEF TurnInv, OneAtATime, OneActiveRun
  <2>3. PICK g \in Runs : /\ record' = [record EXCEPT ![g] = "running"] /\ active' = g
                          /\ about' = [about EXCEPT ![p] = g]
    BY <1>13 DEF Created
  <2>4. pc' = [pc EXCEPT ![p] = "launch"] /\ kernel' = kernel
    BY <1>13 DEF Created, Keep, Go, engines
  <2>5. LaunchShown'
    BY <2>1, <2>3, <2>4 DEF LaunchShown, Types, TLocks, TData, TRequests, Procs
  <2> QED BY <2>2, <2>4, <2>5 DEF ShownInv, LiveShown
<1>14. ASSUME NEW p \in Senders \cup Runs, Launched(p) PROVE ShownInv'
  <2>1. pc[p] = "launch" /\ UNCHANGED <<row, record, active, about>>
    BY <1>14, InsideHeads DEF Launched, TurnInv, database, requests
  <2>2. \A q \in Procs : pc'[q] # "launch"
    BY <1>14, <2>1, OneHolder DEF Launched, Leave, Go, Holding, TurnInv, Procs, Types, TLocks
  <2>3. \A g \in Runs : kernel'[g] = "live" => kernel[g] = "live" \/ g = about[p]
    BY <1>14, <2>1 DEF Launched, Types, TData
  <2> QED BY <2>1, <2>2, <2>3 DEF ShownInv, LaunchShown, LiveShown, Procs
<1>15. ASSUME NEW p \in Senders \cup Runs, StartFails(p) PROVE ShownInv'
  <2>1. \A q \in Procs : pc'[q] = "launch" => pc[q] = "launch" /\ about'[q] = about[q]
    BY <1>15, NoneLaunches DEF StartFails, requests, Procs, Callers, Types, TRequests
  <2> QED BY <1>15, <2>1 DEF StartFails, database, engines, ShownInv, LaunchShown, LiveShown
<1>16. ASSUME NEW g \in Runs, RowCreated(g) PROVE ShownInv'
  BY <1>16 DEF RowCreated, engines, requests, Terminal, ShownInv, LaunchShown, LiveShown
<1>17. ASSUME NEW g \in Runs, KernelEnds(g) PROVE ShownInv'
  BY <1>17 DEF KernelEnds, requests, Terminal, Types, TData, ShownInv, LaunchShown, LiveShown
<1>18. ASSUME NEW g \in Runs, Projected(g) PROVE ShownInv'
  <2>1. row[g] \in Terminal /\ running = g /\ UNCHANGED <<row, kernel, pc, about>>
    BY <1>18 DEF Projected, Unprojected, engines, requests
  <2>2. \A q \in Procs : pc[q] # "launch"
    BY <2>1, ConversationAssumption DEF TurnInv, OneAtATime, Creating
  <2>3. \A h \in Runs : kernel[h] = "live" => h = g
    BY <2>1 DEF TurnInv, OneAtATime, OneActiveRun
  <2> QED BY <2>1, <2>2, <2>3 DEF ShownInv, LaunchShown, LiveShown
<1>19. ASSUME NEW g \in Runs, GenerationDone(g) PROVE ShownInv'
  <2>1. \A q \in Procs : pc'[q] = "launch" => pc[q] = "launch"
    BY <1>19 DEF GenerationDone, Go, Types, TLocks
  <2> QED BY <1>19, <2>1 DEF GenerationDone, database, engines, ShownInv, LaunchShown, LiveShown
<1>20. ASSUME NEW g \in Runs, Continued(g) PROVE ShownInv'
  <2>1. \A q \in Procs : pc'[q] = "launch" => pc[q] = "launch" /\ about'[q] = about[q]
    BY <1>20, NoneLaunches DEF Continued, requests, Procs, Callers, Types, TRequests
  <2> QED BY <1>20, <2>1 DEF Continued, database, engines, ShownInv, LaunchShown, LiveShown
<1>21. CASE ConnectAsks
  <2>1. \A q \in Procs : pc'[q] = "launch" => pc[q] = "launch" /\ about'[q] = about[q]
    BY <1>21, NoneLaunches DEF ConnectAsks, requests, Procs, Callers, Types, TRequests
  <2> QED BY <1>21, <2>1 DEF ConnectAsks, database, engines, ShownInv, LaunchShown, LiveShown
<1>22. CASE ConnectRecovers
  <2>1. LiveShown'
    BY <1>22, RecoveryShows DEF ConnectRecovers, engines, Types, TRequests, TMemory, TData, Procs
  <2>2. \A q \in Procs : pc[q] # "launch"
    BY <1>22, HeadAlone DEF ConnectRecovers, TurnInv, Holding, Procs, Callers
  <2>3. \A q \in Procs : pc'[q] # "launch"
    BY <1>22, <2>2, NoneLaunches DEF ConnectRecovers, Types, Procs, Callers
  <2> QED BY <2>1, <2>3 DEF ShownInv, LaunchShown
<1>23. CASE CrashAndRestart
  <2>1. \A q \in Procs : pc'[q] # "launch"
    BY <1>23 DEF CrashAndRestart
  <2>2. \A g \in Runs : kernel'[g] # "live"
    BY <1>23 DEF CrashAndRestart
  <2> QED BY <2>1, <2>2 DEF ShownInv, LaunchShown, LiveShown
<1> QED
  BY <1>1, <1>2, <1>3, <1>4, <1>5, <1>6, <1>7, <1>8, <1>9, <1>10, <1>11,
    <1>12, <1>13, <1>14, <1>15, <1>16, <1>17, <1>18, <1>19, <1>20, <1>21,
    <1>22, <1>23 DEF Next, SendStep, StartStep, RunStep, CancelArrives,
    CancelProceeds, CloseStep

(* While nobody cancels or deletes the conversation, its live Run is the   *)
(* one the manager follows, and while the row of the Run is open the       *)
(* generation record and the conversation's active Run say so              *)
(* (generation_records.py:84-132).                                         *)
THEOREM RunIsShown ==
  ASSUME ~Closes, ~Cancels
  PROVE  Spec => []OneRunShown
<1>1. Init => ShownInv
  BY DEF Init, ShownInv, LaunchShown, LiveShown
<1>2. Types /\ TurnInv /\ ShownInv /\ [Next]_vars => ShownInv'
  BY ShownStep
<1>3. Types /\ TurnInv /\ ShownInv => OneRunShown
  BY DEF TurnInv, OneAtATime, ShownInv, LiveShown, OneRunShown, LiveRunShown, Terminal
<1> QED BY <1>1, <1>2, <1>3, TurnInvariant, PTL DEF Spec

-----------------------------------------------------------------------------
(* One place for a message.                                                *)

(* Where a message is: with the request that has not handed it over, in    *)
(* the queue, with the finished Run that took it from there, the input of  *)
(* a Run, or injected into one.                                            *)
Unhanded ==
  {"idle", "engine", "starting", "sending", "send", "send_read", "post", "start",
   "start_read", "create"}
Continues == {"publish", "start", "start_read", "create"}
Unsent(s) == pc[s] \in Unhanded
Queued == {queue[i] : i \in DOMAIN queue}
Waiting(g) == next[g] # None /\ pc[g] \in Continues
Used(m) == \E g \in Runs : input[g] = m \/ m \in posted[g]
OneSender == \A s, t \in Senders : MessageOf[s] = MessageOf[t] => s = t

QueuedOnce == \A i, j \in DOMAIN queue : queue[i] = queue[j] => i = j
UsedOnce ==
  /\ \A g, h \in Runs : input[g] = input[h] /\ input[g] # None => g = h
  /\ \A g, h \in Runs : input[g] \notin posted[h]
  /\ \A m \in Messages : \A g, h \in Runs : m \in posted[g] /\ m \in posted[h] => g = h
UnsentFresh ==
  \A s \in Senders : Unsent(s) =>
    /\ MessageOf[s] \notin Queued /\ ~Used(MessageOf[s])
    /\ \A g \in Runs : Waiting(g) => next[g] # MessageOf[s]
QueuedFresh ==
  \A m \in Queued : ~Used(m) /\ \A g \in Runs : Waiting(g) => next[g] # m
WaitingFresh ==
  /\ \A g \in Runs : Waiting(g) => ~Used(next[g])
  /\ \A g, h \in Runs : Waiting(g) /\ Waiting(h) /\ next[g] = next[h] => g = h
OnePlace == QueuedOnce /\ UsedOnce /\ UnsentFresh /\ QueuedFresh /\ WaitingFresh

(* The queue after an append, an emptying and a take.                      *)
LEMMA QueueAppended ==
  ASSUME queue \in Seq(Messages), NEW m \in Messages, queue' = Append(queue, m)
  PROVE  /\ Queued' = Queued \cup {m}
         /\ QueuedOnce /\ m \notin Queued => QueuedOnce'
BY DEF Queued, QueuedOnce

(* An emptied queue.                                                       *)
LEMMA QueueEmptied ==
  ASSUME queue' = <<>>
  PROVE  Queued' = {} /\ QueuedOnce'
BY DEF Queued, QueuedOnce

(* A queue whose head was taken.                                           *)
LEMMA QueueTaken ==
  ASSUME queue \in Seq(Messages), queue # <<>>, queue' = Tail(queue), QueuedOnce
  PROVE  /\ Head(queue) \in Queued /\ Queued' \subseteq Queued
         /\ Head(queue) \notin Queued' /\ QueuedOnce'
<1>1. /\ DOMAIN queue = 1 .. Len(queue) /\ Len(queue) \in Nat \ {0}
      /\ Head(queue) = queue[1]
  BY EmptySeq
<1>2. /\ DOMAIN queue' = 1 .. Len(queue) - 1
      /\ \A i \in DOMAIN queue' : queue'[i] = queue[i + 1]
  BY HeadTailProperties
<1> QED BY <1>1, <1>2 DEF Queued, QueuedOnce

(* A step that hands nothing over.                                         *)
Quiet ==
  /\ \A s \in Senders : Unsent(s)' => Unsent(s)
  /\ \A g \in Runs : Waiting(g)' => Waiting(g) /\ next'[g] = next[g]
  /\ queue' \in {queue, <<>>}
  /\ UNCHANGED <<input, posted>>

(* A quiet step keeps each message in its place.                           *)
LEMMA QuietStep ==
  ASSUME OnePlace, Quiet
  PROVE  OnePlace'
<1>1. Queued' \subseteq Queued /\ QueuedOnce'
  BY QueueEmptied DEF Quiet, Queued, QueuedOnce, OnePlace
<1>2. UNCHANGED <<input, posted>>
  BY DEF Quiet
<1>3. UsedOnce' /\ \A m : Used(m)' = Used(m)
  BY <1>2 DEF OnePlace, UsedOnce, Used
<1>4. UnsentFresh'
  BY <1>1, <1>3 DEF Quiet, OnePlace, UnsentFresh
<1>5. QueuedFresh'
  BY <1>1, <1>3 DEF Quiet, OnePlace, QueuedFresh
<1>6. WaitingFresh'
  BY <1>3 DEF Quiet, OnePlace, WaitingFresh
<1> QED BY <1>1, <1>3, <1>4, <1>5, <1>6 DEF OnePlace

(* The first half of it: no message is back with a request or a finished   *)
(* Run.                                                                    *)
NoNewToken ==
  /\ \A s \in Senders : Unsent(s)' => Unsent(s)
  /\ \A g \in Runs : Waiting(g)' => Waiting(g) /\ next'[g] = next[g]

(* A move that goes on to no earlier label hands nothing over.             *)
LEMMA QuietMoves ==
  ASSUME TLocks, UNCHANGED next
  PROVE  \A p \in Procs : \A label :
           /\ Leave(p, label) \/ Join(p, label) \/ Keep(p, label)
           /\ p \in Senders /\ label \in Unhanded => pc[p] \in Unhanded
           /\ p \in Runs /\ label \in Continues => pc[p] \in Continues
           => NoNewToken
BY ConversationAssumption DEF Leave, Join, Keep, Go, TLocks, Unsent, Waiting, NoNewToken, Procs

(* A recovery leaves the queue or empties it.                              *)
LEMMA RecoveryQueue ==
  ASSUME NEW id, NEW records, Recovers(id, records)
  PROVE  queue' \in {queue, <<>>}
BY DEF Recovers, Remembered, Forgotten

(* The actions that hand a message over.                                   *)
HandsOver ==
  \/ \E s \in Senders : SendQueues(s) \/ Injected(s)
  \/ \E p \in Senders \cup Runs : Created(p)
  \/ \E g \in Runs : GenerationDone(g)

(* All but four actions are quiet.                                         *)
LEMMA QuietActions ==
  ASSUME Types, OnePlace, [Next]_vars
  PROVE  Quiet \/ HandsOver
<1>1. CASE UNCHANGED vars
  BY <1>1 DEF vars, memory, locks, database, engines, requests, Quiet, Unsent,
    Waiting
<1>2. ASSUME NEW s \in Senders, ChatSend(s) PROVE Quiet
  <2>1. NoNewToken
    BY <1>2, QuietMoves, ConversationAssumption DEF ChatSend, Inside, Unhanded, Continues,
      Types, Procs, Callers
  <2> QED BY <1>2, <2>1 DEF ChatSend, memory, database, engines, NoNewToken, Quiet
<1>3. ASSUME NEW s \in Senders, EngineReady(s) PROVE Quiet
  <2>1. NoNewToken
    BY <1>3, QuietMoves, ConversationAssumption DEF EngineReady, Inside, Unhanded, Continues,
      Types, Procs, Callers
  <2> QED BY <1>3, <2>1, RecoveryQueue DEF EngineReady, engines, NoNewToken, Quiet
<1>4. ASSUME NEW s \in Senders, SendRequested(s) PROVE Quiet
  <2>1. NoNewToken
    BY <1>4, QuietMoves, ConversationAssumption DEF SendRequested, requests, Inside, Unhanded,
      Continues, Types, Procs, Callers
  <2> QED BY <1>4, <2>1 DEF SendRequested, memory, database, engines, NoNewToken, Quiet
<1>5. ASSUME NEW s \in Senders, SendChecks(s) PROVE Quiet
  <2>1. NoNewToken
    BY <1>5, QuietMoves, ConversationAssumption DEF SendChecks, Checks, requests, Inside,
      Unhanded, Continues, Types, Procs, Callers
  <2> QED BY <1>5, <2>1 DEF SendChecks, Checks, memory, database, engines, NoNewToken, Quiet
<1>6. ASSUME NEW s \in Senders, SendDuplicate(s) PROVE Quiet
  <2>1. NoNewToken
    BY <1>6, QuietMoves, ConversationAssumption DEF SendDuplicate, requests, Inside, Unhanded,
      Continues, Types, Procs, Callers
  <2> QED BY <1>6, <2>1 DEF SendDuplicate, memory, database, engines, NoNewToken, Quiet
<1>7. ASSUME NEW s \in Senders, SendStarts(s) PROVE Quiet
  <2>1. NoNewToken
    BY <1>7, QuietMoves, ConversationAssumption DEF SendStarts, requests, Inside, Unhanded,
      Continues, Types, Procs, Callers
  <2> QED BY <1>7, <2>1 DEF SendStarts, memory, database, engines, NoNewToken, Quiet
<1>8. ASSUME NEW s \in Senders, SendInjects(s) PROVE Quiet
  <2>1. NoNewToken
    BY <1>8, QuietMoves, ConversationAssumption DEF SendInjects, Inside, Unhanded, Continues,
      Types, Procs, Callers
  <2> QED BY <1>8, <2>1 DEF SendInjects, memory, database, engines, NoNewToken, Quiet
<1>9. ASSUME NEW p \in Senders \cup Runs, StartChecks(p) PROVE Quiet
  <2>1. NoNewToken
    BY <1>9, QuietMoves, ConversationAssumption DEF StartChecks, Checks, requests, Inside,
      Unhanded, Continues, Types, Procs, Callers
  <2> QED BY <1>9, <2>1 DEF StartChecks, Checks, memory, database, engines, NoNewToken, Quiet
<1>10. ASSUME NEW p \in Senders \cup Runs, StartDecides(p) PROVE Quiet
  <2>1. NoNewToken
    BY <1>10, QuietMoves, ConversationAssumption DEF StartDecides, requests, Inside, Unhanded,
      Continues, Types, Procs, Callers
  <2> QED BY <1>10, <2>1 DEF StartDecides, memory, database, engines, NoNewToken, Quiet
<1>11. ASSUME NEW p \in Senders \cup Runs, Launched(p) PROVE Quiet
  <2>1. NoNewToken
    BY <1>11, QuietMoves, ConversationAssumption DEF Launched, requests, Inside, Unhanded,
      Continues, Types, Procs, Callers
  <2> QED BY <1>11, <2>1 DEF Launched, database, NoNewToken, Quiet
<1>12. ASSUME NEW p \in Senders \cup Runs, StartFails(p) PROVE Quiet
  <2>1. NoNewToken
    BY <1>12, QuietMoves, ConversationAssumption DEF StartFails, requests, Inside, Unhanded,
      Continues, Types, Procs, Callers
  <2> QED BY <1>12, <2>1 DEF StartFails, memory, database, engines, NoNewToken, Quiet
<1>13. ASSUME NEW g \in Runs, RowCreated(g) PROVE Quiet
  BY <1>13 DEF RowCreated, memory, engines, requests, Quiet, Unsent, Waiting
<1>14. ASSUME NEW g \in Runs, KernelEnds(g) PROVE Quiet
  BY <1>14 DEF KernelEnds, memory, requests, Quiet, Unsent, Waiting
<1>15. ASSUME NEW g \in Runs, Projected(g) PROVE Quiet
  BY <1>15 DEF Projected, memory, engines, requests, Quiet, Unsent, Waiting
<1>16. ASSUME NEW g \in Runs, Continued(g) PROVE Quiet
  <2>1. NoNewToken
    BY <1>16, QuietMoves, ConversationAssumption DEF Continued, requests, Inside, Unhanded,
      Continues, Types, Procs, Callers
  <2> QED BY <1>16, <2>1 DEF Continued, memory, database, engines, NoNewToken, Quiet
<1>17. ASSUME NEW c \in {"cancel", "close"}, CancelRunning(c) PROVE Quiet
  <2>1. NoNewToken
    BY <1>17, QuietMoves, ConversationAssumption DEF CancelRunning, Inside, Unhanded,
      Continues, Types, Procs, Callers
  <2> QED BY <1>17, <2>1 DEF CancelRunning, database, NoNewToken, Quiet
<1>18. ASSUME NEW c \in {"cancel", "close"}, CancelWaited(c) PROVE Quiet
  <2>1. NoNewToken
    BY <1>18, QuietMoves, ConversationAssumption DEF CancelWaited, requests, Inside, Unhanded,
      Continues, Types, Procs, Callers
  <2> QED BY <1>18, <2>1 DEF CancelWaited, memory, database, engines, NoNewToken, Quiet
<1>19. ASSUME NEW c \in {"cancel", "close"}, CancelAbandons(c) PROVE Quiet
  <2>1. NoNewToken
    BY <1>19, QuietMoves, ConversationAssumption DEF CancelAbandons, requests, Inside,
      Unhanded, Continues, Types, Procs, Callers
  <2> QED BY <1>19, <2>1 DEF CancelAbandons, memory, database, engines, NoNewToken, Quiet
<1>20. ASSUME NEW c \in {"cancel", "close"}, CancelRows(c) PROVE Quiet
  <2>1. NoNewToken
    BY <1>20, QuietMoves, ConversationAssumption DEF CancelRows, Inside, Unhanded, Continues,
      Types, Procs, Callers
  <2> QED BY <1>20, <2>1 DEF CancelRows, memory, engines, NoNewToken, Quiet
<1>21. ASSUME NEW c \in {"cancel", "close"}, CancelRecords(c) PROVE Quiet
  <2>1. NoNewToken
    BY <1>21, QuietMoves, ConversationAssumption DEF CancelRecords, requests, Inside, Unhanded,
      Continues, Types, Procs, Callers
  <2> QED BY <1>21, <2>1 DEF CancelRecords, memory, engines, NoNewToken, Quiet
<1>22. CASE CloseForgets
  <2>1. pc' = [pc EXCEPT !["close"] = "delete"]
    BY <1>22 DEF CloseForgets, Go
  <2> QED BY <1>22, <2>1, ConversationAssumption DEF CloseForgets, Forgotten, database,
    engines, requests, Quiet, Unsent,
    Waiting, Unhanded, Continues, Types, TLocks, Callers
<1>23. CASE CloseDeletes
  <2>1. NoNewToken
    BY <1>23, QuietMoves, ConversationAssumption DEF CloseDeletes, requests, Inside, Unhanded,
      Continues, Types, Procs, Callers
  <2> QED BY <1>23, <2>1 DEF CloseDeletes, memory, engines, NoNewToken, Quiet
<1>24. CASE ConnectAsks
  <2>1. NoNewToken
    BY <1>24, QuietMoves, ConversationAssumption DEF ConnectAsks, requests, Inside, Unhanded,
      Continues, Types, Procs, Callers
  <2> QED BY <1>24, <2>1 DEF ConnectAsks, memory, database, engines, NoNewToken, Quiet
<1>25. CASE ConnectRecovers
  <2>1. NoNewToken
    BY <1>25, QuietMoves, ConversationAssumption DEF ConnectRecovers, requests, Inside,
      Unhanded, Continues, Types, Procs, Callers
  <2> QED BY <1>25, <2>1, RecoveryQueue DEF ConnectRecovers, engines, NoNewToken, Quiet
<1>26. CASE CrashAndRestart
  <2>1. \A p \in Procs : pc'[p] \in Unhanded \cup Continues => pc'[p] = "idle" /\ pc[p] = "idle"
    BY <1>26 DEF CrashAndRestart, Unhanded, Continues
  <2> QED BY <1>26, <2>1 DEF CrashAndRestart, Forgotten, requests, Quiet, Unsent, Waiting,
    Unhanded, Continues, Procs
<1> QED
  BY <1>1, <1>2, <1>3, <1>4, <1>5, <1>6, <1>7, <1>8, <1>9, <1>10, <1>11,
    <1>12, <1>13, <1>14, <1>15, <1>16, <1>17, <1>18, <1>19, <1>20, <1>21,
    <1>22, <1>23, <1>24, <1>25, <1>26 DEF HandsOver, Next, SendStep, StartStep,
    RunStep, CancelArrives, CancelProceeds, CloseStep

(* A request hands its message to the queue.                               *)
LEMMA SenderQueues ==
  ASSUME Types, OnePlace, NEW s \in Senders, Unsent(s), OneSender,
         queue' = Append(queue, MessageOf[s]), pc' = [pc EXCEPT ![s] = "queued"],
         UNCHANGED <<next, input, posted>>
  PROVE  OnePlace'
<1> DEFINE m == MessageOf[s]
<1>1. m \in Messages /\ m \notin Queued /\ ~Used(m) /\ \A g \in Runs : Waiting(g) => next[g] # m
  BY DEF OnePlace, UnsentFresh, Messages
<1>2. Queued' = Queued \cup {m} /\ QueuedOnce'
  BY <1>1, QueueAppended DEF OnePlace, Types, TMemory
<1>3. UsedOnce' /\ \A n : Used(n)' = Used(n)
  BY DEF OnePlace, UsedOnce, Used
<1>4. /\ \A t \in Senders : Unsent(t)' => Unsent(t) /\ t # s
      /\ \A g \in Runs : Waiting(g)' <=> Waiting(g)
  BY ConversationAssumption DEF Unsent, Waiting, Unhanded, Types, TLocks, Procs
<1>5. \A t \in Senders : t # s => MessageOf[t] # m
  BY DEF OneSender
<1>6. UnsentFresh'
  BY <1>2, <1>3, <1>4, <1>5 DEF OnePlace, UnsentFresh
<1>7. QueuedFresh'
  BY <1>1, <1>2, <1>3, <1>4 DEF OnePlace, QueuedFresh
<1>8. WaitingFresh'
  BY <1>3, <1>4 DEF OnePlace, WaitingFresh
<1> QED BY <1>2, <1>3, <1>6, <1>7, <1>8 DEF OnePlace

(* A message that was in one place only becomes part of a Run: its input,  *)
(* or injected.                                                            *)
BecomesUsed(m) ==
  \/ \E g \in Runs : /\ input[g] = None /\ input' = [input EXCEPT ![g] = m]
                     /\ UNCHANGED posted
  \/ \E g \in Runs : /\ posted' = [posted EXCEPT ![g] = @ \cup {m}]
                     /\ UNCHANGED input

(* A message that becomes used is used by one Run.                         *)
LEMMA UsedNow ==
  ASSUME Types, UsedOnce, NEW m \in Messages, ~Used(m), BecomesUsed(m)
  PROVE  UsedOnce' /\ \A n \in Messages : Used(n)' => n = m \/ Used(n)
<1>1. CASE \E g \in Runs : /\ input[g] = None /\ input' = [input EXCEPT ![g] = m]
                           /\ UNCHANGED posted
  BY <1>1, ConversationAssumption DEF Types, TData, UsedOnce, Used
<1>2. CASE \E g \in Runs : /\ posted' = [posted EXCEPT ![g] = @ \cup {m}] /\ UNCHANGED input
  BY <1>2, ConversationAssumption DEF Types, TData, UsedOnce, Used
<1> QED BY <1>1, <1>2 DEF BecomesUsed

(* A request makes its message part of a Run.                              *)
LEMMA SenderUses ==
  ASSUME Types, OnePlace, OneSender, NEW s \in Senders, Unsent(s), BecomesUsed(MessageOf[s]),
         NEW label, label \notin Unhanded, pc' = [pc EXCEPT ![s] = label],
         UNCHANGED <<next, queue>>
  PROVE  OnePlace'
<1> DEFINE m == MessageOf[s]
<1>1. m \in Messages /\ m \notin Queued /\ ~Used(m) /\ \A g \in Runs : Waiting(g) => next[g] # m
  BY DEF OnePlace, UnsentFresh, Messages
<1>2. UsedOnce' /\ \A n \in Messages : Used(n)' => n = m \/ Used(n)
  BY <1>1, UsedNow DEF OnePlace
<1>3. /\ \A t \in Senders : Unsent(t)' => Unsent(t) /\ t # s
      /\ \A g \in Runs : Waiting(g)' <=> Waiting(g)
  BY ConversationAssumption DEF Unsent, Waiting, Types, TLocks, Procs
<1>4. /\ \A t \in Senders : t # s => MessageOf[t] # m
      /\ \A t \in Senders : MessageOf[t] \in Messages
      /\ \A g \in Runs : Waiting(g) => next[g] \in Messages
      /\ Queued \subseteq Messages /\ Queued' = Queued
  BY DEF OneSender, Messages, Waiting, Types, TRequests, Queued, TMemory
<1>5. UnsentFresh'
  BY <1>2, <1>3, <1>4 DEF OnePlace, UnsentFresh
<1>6. QueuedFresh'
  BY <1>1, <1>2, <1>3, <1>4 DEF OnePlace, QueuedFresh
<1>7. WaitingFresh'
  BY <1>1, <1>2, <1>3, <1>4 DEF OnePlace, WaitingFresh
<1>8. QueuedOnce'
  BY DEF OnePlace, QueuedOnce
<1> QED BY <1>2, <1>5, <1>6, <1>7, <1>8 DEF OnePlace

(* A finished Run makes the message it took part of its successor.         *)
LEMMA RunUses ==
  ASSUME Types, OnePlace, NEW r \in Runs, Waiting(r), BecomesUsed(next[r]),
         pc' = [pc EXCEPT ![r] = "launch"], UNCHANGED <<next, queue>>
  PROVE  OnePlace'
<1> DEFINE m == next[r]
<1>1. m \in Messages /\ m \notin Queued /\ ~Used(m)
  BY DEF OnePlace, QueuedFresh, WaitingFresh, Waiting, Types, TRequests
<1>2. UsedOnce' /\ \A n \in Messages : Used(n)' => n = m \/ Used(n)
  BY <1>1, UsedNow DEF OnePlace
<1>3. /\ \A t \in Senders : Unsent(t)' => Unsent(t)
      /\ \A g \in Runs : Waiting(g)' => Waiting(g) /\ g # r
  BY ConversationAssumption DEF Unsent, Waiting, Continues, Types, TLocks, Procs
<1>4. /\ \A t \in Senders : Unsent(t) => MessageOf[t] # m
      /\ \A t \in Senders : MessageOf[t] \in Messages
      /\ \A g \in Runs : Waiting(g) => next[g] \in Messages /\ (g # r => next[g] # m)
      /\ Queued \subseteq Messages /\ Queued' = Queued
  BY DEF OnePlace, UnsentFresh, WaitingFresh, Messages, Waiting, Types, TRequests, Queued, TMemory
<1>5. UnsentFresh'
  BY <1>2, <1>3, <1>4 DEF OnePlace, UnsentFresh
<1>6. QueuedFresh'
  BY <1>1, <1>2, <1>3, <1>4 DEF OnePlace, QueuedFresh
<1>7. WaitingFresh'
  BY <1>2, <1>3, <1>4 DEF OnePlace, WaitingFresh
<1>8. QueuedOnce'
  BY DEF OnePlace, QueuedOnce
<1> QED BY <1>2, <1>5, <1>6, <1>7, <1>8 DEF OnePlace

(* The task that follows a finished Run takes the head of the queue.       *)
LEMMA RunTakes ==
  ASSUME Types, OnePlace, NEW r \in Runs, queue # <<>>, queue' = Tail(queue),
         next' = [next EXCEPT ![r] = Head(queue)], pc' = [pc EXCEPT ![r] = "publish"],
         UNCHANGED <<input, posted>>
  PROVE  OnePlace'
<1> DEFINE m == Head(queue)
<1>1. m \in Queued /\ Queued' \subseteq Queued /\ m \notin Queued' /\ QueuedOnce'
  BY QueueTaken DEF OnePlace, Types, TMemory
<1>2. UsedOnce' /\ \A n : Used(n)' = Used(n)
  BY DEF OnePlace, UsedOnce, Used
<1>3. /\ \A t \in Senders : Unsent(t)' => Unsent(t)
      /\ \A g \in Runs : Waiting(g)' => \/ g # r /\ Waiting(g) /\ next'[g] = next[g]
                                        \/ g = r /\ next'[g] = m
  BY ConversationAssumption DEF Unsent, Waiting, Types, TLocks, TRequests, Procs
<1>4. ~Used(m) /\ \A g \in Runs : Waiting(g) => next[g] # m
  BY <1>1 DEF OnePlace, QueuedFresh
<1>5. UnsentFresh'
  BY <1>1, <1>2, <1>3 DEF OnePlace, UnsentFresh
<1>6. QueuedFresh'
  BY <1>1, <1>2, <1>3 DEF OnePlace, QueuedFresh
<1>7. WaitingFresh'
  BY <1>2, <1>3, <1>4 DEF OnePlace, WaitingFresh
<1> QED BY <1>1, <1>2, <1>5, <1>6, <1>7 DEF OnePlace

(* Every step keeps each message in one place.                             *)
LEMMA OnePlaceStep ==
  ASSUME Types, OnePlace, OneSender, [Next]_vars
  PROVE  OnePlace'
<1>1. CASE Quiet
  BY <1>1, QuietStep
<1>2. ASSUME NEW s \in Senders, SendQueues(s) PROVE OnePlace'
  <2>1. /\ Unsent(s) /\ pc' = [pc EXCEPT ![s] = "queued"]
        /\ queue' = Append(queue, MessageOf[s]) /\ UNCHANGED <<next, input, posted>>
    BY <1>2 DEF SendQueues, Inside, Leave, Go, Message, Unsent, Unhanded, database, engines,
      requests
  <2> QED BY <2>1, SenderQueues
<1>3. ASSUME NEW s \in Senders, Injected(s) PROVE OnePlace'
  <2>1. Unsent(s) /\ UNCHANGED <<next, input>> /\ Message(s) = MessageOf[s]
    BY <1>3 DEF Injected, Inside, Unsent, Unhanded, database, requests, Message
  <2>2. CASE /\ posted' = [posted EXCEPT ![about[s]] = @ \cup {MessageOf[s]}]
             /\ pc' = [pc EXCEPT ![s] = "injected"] /\ UNCHANGED queue
    <3>1. CASE about[s] \in Runs
      BY <2>1, <2>2, <3>1, SenderUses DEF BecomesUsed, Unhanded
    <3>2. CASE about[s] \notin Runs
      <4>1. posted' = posted
        BY <2>2, <3>2 DEF Types, TData
      <4>2. Quiet
        BY <2>1, <2>2, <4>1, ConversationAssumption DEF Quiet, Unsent, Waiting, Unhanded,
          Types, TLocks, Procs
      <4> QED BY <4>2, QuietStep
    <3> QED BY <3>1, <3>2
  <2>3. CASE /\ queue' = Append(queue, MessageOf[s])
             /\ pc' = [pc EXCEPT ![s] = "queued"] /\ UNCHANGED posted
    BY <2>1, <2>3, SenderQueues
  <2> QED BY <1>3, <2>1, <2>2, <2>3 DEF Injected, Leave, Go
<1>4. ASSUME NEW p \in Senders \cup Runs, Created(p) PROVE OnePlace'
  <2>1. /\ pc[p] = "create" /\ pc' = [pc EXCEPT ![p] = "launch"]
        /\ UNCHANGED <<next, queue, posted>>
    BY <1>4 DEF Created, Inside, Keep, Go, engines
  <2>2. PICK g \in Runs : input[g] = None /\ input' = [input EXCEPT ![g] = Message(p)]
    BY <1>4 DEF Created
  <2>3. CASE p \in Senders
    <3>1. Unsent(p) /\ BecomesUsed(MessageOf[p])
      BY <2>1, <2>2, <2>3 DEF BecomesUsed, Message, Unsent, Unhanded
    <3> QED BY <2>1, <2>3, <3>1, SenderUses DEF Unhanded
  <2>4. CASE p \in Runs /\ next[p] # None
    <3>1. Waiting(p) /\ BecomesUsed(next[p])
      BY <2>1, <2>2, <2>4, ConversationAssumption DEF BecomesUsed, Message, Waiting, Continues
    <3> QED BY <2>1, <2>4, <3>1, RunUses
  <2>5. CASE p \in Runs /\ next[p] = None
    <3>1. input' = input
      BY <2>2, <2>5, ConversationAssumption DEF Message, Types, TData
    <3>2. Quiet
      BY <2>1, <2>5, <3>1, ConversationAssumption DEF Quiet, Unsent, Waiting, Continues, Types,
        TLocks, Procs
    <3> QED BY <3>2, QuietStep
  <2> QED BY <2>3, <2>4, <2>5
<1>5. ASSUME NEW g \in Runs, GenerationDone(g) PROVE OnePlace'
  <2>1. UNCHANGED <<input, posted>>
    BY <1>5 DEF GenerationDone, database, engines
  <2>2. CASE UNCHANGED <<queue, next, pc>>
    <3>1. Quiet
      BY <2>1, <2>2 DEF Quiet, Unsent, Waiting
    <3> QED BY <3>1, QuietStep
  <2>3. CASE /\ queue = <<>> /\ queue' = queue /\ next' = [next EXCEPT ![g] = None]
             /\ pc' = [pc EXCEPT ![g] = "publish"]
    <3>1. Quiet
      BY <2>1, <2>3, ConversationAssumption
      DEF Quiet, Unsent, Waiting, Types, TLocks, TRequests, Procs
    <3> QED BY <3>1, QuietStep
  <2>4. CASE /\ queue # <<>> /\ queue' = Tail(queue)
             /\ next' = [next EXCEPT ![g] = Head(queue)]
             /\ pc' = [pc EXCEPT ![g] = "publish"]
    BY <2>1, <2>4, RunTakes
  <2> QED BY <1>5, <2>2, <2>3, <2>4 DEF GenerationDone, Remembered, Go
<1> QED BY <1>1, <1>2, <1>3, <1>4, <1>5, QuietActions DEF HandsOver

(* A message that one request sends is in one place in every state.        *)
LEMMA OnePlaceInvariant ==
  ASSUME OneSender
  PROVE  Spec => [](Types /\ OnePlace)
<1>1. Init => OnePlace
  <2> SUFFICES ASSUME Init PROVE OnePlace
    OBVIOUS
  <2>1. Queued = {} /\ QueuedOnce /\ \A g \in Runs : ~Waiting(g)
    BY DEF Init, Queued, QueuedOnce, Waiting
  <2>2. \A m \in Messages : ~Used(m)
    BY ConversationAssumption DEF Init, Used
  <2>3. UsedOnce
    BY DEF Init, UsedOnce
  <2> QED BY <2>1, <2>2, <2>3 DEF OnePlace, UnsentFresh, QueuedFresh, WaitingFresh, Messages
<1>2. Types /\ OnePlace /\ [Next]_vars => OnePlace'
  BY OnePlaceStep
<1> QED BY <1>1, <1>2, TypesInv, PTL DEF Spec

(* A message that is used once has at most one Run.                        *)
LEMMA AtMostOneRun ==
  ASSUME UsedOnce
  PROVE  AtMostOnce
<1> SUFFICES ASSUME NEW m \in Messages
             PROVE  Cardinality({g \in Runs : kernel[g] # "none" /\ (input[g] = m \/ m \in posted[g])}) <= 1
  BY DEF AtMostOnce
<1> DEFINE S == {g \in Runs : kernel[g] # "none" /\ (input[g] = m \/ m \in posted[g])}
<1>1. \A g, h \in S : g = h
  BY ConversationAssumption DEF UsedOnce
<1>2. CASE S = {}
  BY <1>2, FS_EmptySet
<1>3. CASE S # {}
  <2>1. PICK g \in S : TRUE
    BY <1>3
  <2>2. S = {g}
    BY <1>1, <2>1
  <2>3. Cardinality(S) = 1
    BY <2>2, FS_Singleton
  <2> QED BY <2>3
<1> QED BY <1>2, <1>3

(* Where no message is sent by two requests it is the input of one Run or  *)
(* injected into one, whatever fails, crashes, cancels or deletes          *)
(* (conversation_run_manager.py:457-508, 997-1048).                        *)
THEOREM ServedOnceIfSentOnce ==
  ASSUME OneSender
  PROVE  Spec => []AtMostOnce
<1>1. Types /\ OnePlace => AtMostOnce
  BY AtMostOneRun DEF OnePlace
<1> QED BY <1>1, OnePlaceInvariant, PTL

-----------------------------------------------------------------------------
(* Inputs served once, although sent again.                                *)

(* A finished Run that starts a successor has an input for it.             *)
StartLabels == {"start", "start_read", "create"}
StartsWithInput == \A g \in Runs : pc[g] \in StartLabels => next[g] # None

(* A move reaches a start only with an input.                              *)
LEMMA InputMoves ==
  ASSUME TLocks, StartsWithInput, UNCHANGED next
  PROVE  \A p \in Procs : \A label :
           /\ Leave(p, label) \/ Join(p, label) \/ Keep(p, label)
           /\ p \in Runs /\ label \in StartLabels => pc[p] \in StartLabels \/ next[p] # None
           => StartsWithInput'
<1> SUFFICES ASSUME NEW p \in Procs, NEW label, pc' = [pc EXCEPT ![p] = label],
                    p \in Runs /\ label \in StartLabels => pc[p] \in StartLabels \/ next[p] # None
             PROVE  StartsWithInput'
  BY DEF Leave, Join, Keep, Go
<1> QED BY DEF TLocks, StartsWithInput

(* Every step keeps it.                                                    *)
LEMMA StartsStep ==
  ASSUME Types, StartsWithInput, [Next]_vars
  PROVE  StartsWithInput'
<1>1. CASE UNCHANGED vars
  BY <1>1 DEF vars, memory, locks, database, engines, requests, Types,
    StartLabels, Procs, Callers, Inside, StartsWithInput
<1>2. ASSUME NEW s \in Senders, ChatSend(s) PROVE StartsWithInput'
  BY <1>2, InputMoves, ConversationAssumption DEF ChatSend, memory, database,
    engines, Types, StartLabels, Procs, Callers, Inside
<1>3. ASSUME NEW s \in Senders, EngineReady(s) PROVE StartsWithInput'
  BY <1>3, InputMoves, ConversationAssumption DEF EngineReady, engines, Types,
    StartLabels, Procs, Callers, Inside
<1>4. ASSUME NEW s \in Senders, SendRequested(s) PROVE StartsWithInput'
  BY <1>4, InputMoves, ConversationAssumption DEF SendRequested, memory,
    database, engines, requests, Types, StartLabels, Procs, Callers, Inside
<1>5. ASSUME NEW s \in Senders, SendChecks(s) PROVE StartsWithInput'
  BY <1>5, InputMoves, ConversationAssumption DEF SendChecks, Checks, memory,
    database, engines, requests, Types, StartLabels, Procs, Callers, Inside
<1>6. ASSUME NEW s \in Senders, SendDuplicate(s) PROVE StartsWithInput'
  BY <1>6, InputMoves, ConversationAssumption DEF SendDuplicate, memory,
    database, engines, requests, Types, StartLabels, Procs, Callers, Inside
<1>7. ASSUME NEW s \in Senders, SendStarts(s) PROVE StartsWithInput'
  BY <1>7, InputMoves, ConversationAssumption DEF SendStarts, memory,
    database, engines, requests, Types, StartLabels, Procs, Callers, Inside
<1>8. ASSUME NEW s \in Senders, SendQueues(s) PROVE StartsWithInput'
  BY <1>8, InputMoves, ConversationAssumption DEF SendQueues, database,
    engines, requests, Types, StartLabels, Procs, Callers, Inside
<1>9. ASSUME NEW s \in Senders, SendInjects(s) PROVE StartsWithInput'
  BY <1>9, InputMoves, ConversationAssumption DEF SendInjects, memory,
    database, engines, Types, StartLabels, Procs, Callers, Inside
<1>10. ASSUME NEW s \in Senders, Injected(s) PROVE StartsWithInput'
  BY <1>10, InputMoves, ConversationAssumption DEF Injected, database,
    requests, Types, StartLabels, Procs, Callers, Inside
<1>11. ASSUME NEW p \in Senders \cup Runs, StartChecks(p) PROVE StartsWithInput'
  BY <1>11, InputMoves, ConversationAssumption DEF StartChecks, Checks,
    memory, database, engines, requests, Types, StartLabels, Procs, Callers,
    Inside
<1>12. ASSUME NEW p \in Senders \cup Runs, StartDecides(p) PROVE StartsWithInput'
  BY <1>12, InputMoves, ConversationAssumption DEF StartDecides, memory,
    database, engines, requests, Types, StartLabels, Procs, Callers, Inside
<1>13. ASSUME NEW p \in Senders \cup Runs, Created(p) PROVE StartsWithInput'
  BY <1>13, InputMoves, ConversationAssumption DEF Created, engines, Types,
    StartLabels, Procs, Callers, Inside
<1>14. ASSUME NEW p \in Senders \cup Runs, Launched(p) PROVE StartsWithInput'
  BY <1>14, InputMoves, ConversationAssumption DEF Launched, database,
    requests, Types, StartLabels, Procs, Callers, Inside
<1>15. ASSUME NEW p \in Senders \cup Runs, StartFails(p) PROVE StartsWithInput'
  BY <1>15, InputMoves, ConversationAssumption DEF StartFails, memory,
    database, engines, requests, Types, StartLabels, Procs, Callers, Inside
<1>16. ASSUME NEW g \in Runs, RowCreated(g) PROVE StartsWithInput'
  BY <1>16 DEF RowCreated, requests, StartsWithInput
<1>17. ASSUME NEW g \in Runs, KernelEnds(g) PROVE StartsWithInput'
  BY <1>17 DEF KernelEnds, requests, StartsWithInput
<1>18. ASSUME NEW g \in Runs, Projected(g) PROVE StartsWithInput'
  BY <1>18 DEF Projected, requests, StartsWithInput
<1>19. ASSUME NEW g \in Runs, GenerationDone(g) PROVE StartsWithInput'
  BY <1>19 DEF GenerationDone, Go, StartsWithInput, StartLabels, Types, TLocks, TRequests, Procs
<1>20. ASSUME NEW g \in Runs, Continued(g) PROVE StartsWithInput'
  BY <1>20, InputMoves, ConversationAssumption DEF Continued, memory,
    database, engines, requests, Types, StartLabels, Procs, Callers, Inside
<1>21. ASSUME NEW c \in {"cancel", "close"}, CancelRunning(c) PROVE StartsWithInput'
  BY <1>21, InputMoves, ConversationAssumption DEF CancelRunning, database,
    Types, StartLabels, Procs, Callers, Inside
<1>22. ASSUME NEW c \in {"cancel", "close"}, CancelWaited(c) PROVE StartsWithInput'
  BY <1>22, InputMoves, ConversationAssumption DEF CancelWaited, memory,
    database, engines, requests, Types, StartLabels, Procs, Callers, Inside
<1>23. ASSUME NEW c \in {"cancel", "close"}, CancelAbandons(c) PROVE StartsWithInput'
  BY <1>23, InputMoves, ConversationAssumption DEF CancelAbandons, memory,
    database, engines, requests, Types, StartLabels, Procs, Callers, Inside
<1>24. ASSUME NEW c \in {"cancel", "close"}, CancelRows(c) PROVE StartsWithInput'
  BY <1>24, InputMoves, ConversationAssumption DEF CancelRows, memory,
    engines, Types, StartLabels, Procs, Callers, Inside
<1>25. ASSUME NEW c \in {"cancel", "close"}, CancelRecords(c) PROVE StartsWithInput'
  BY <1>25, InputMoves, ConversationAssumption DEF CancelRecords, memory,
    engines, requests, Types, StartLabels, Procs, Callers, Inside
<1>26. CASE CloseForgets
  BY <1>26, ConversationAssumption DEF CloseForgets, Go, requests, StartsWithInput, Callers,
    Types, TLocks
<1>27. CASE CloseDeletes
  BY <1>27, InputMoves, ConversationAssumption DEF CloseDeletes, memory,
    engines, requests, Types, StartLabels, Procs, Callers, Inside
<1>28. CASE ConnectAsks
  BY <1>28, InputMoves, ConversationAssumption DEF ConnectAsks, memory,
    database, engines, requests, Types, StartLabels, Procs, Callers, Inside
<1>29. CASE ConnectRecovers
  BY <1>29, InputMoves, ConversationAssumption DEF ConnectRecovers, engines,
    requests, Types, StartLabels, Procs, Callers, Inside
<1>30. CASE CrashAndRestart
  BY <1>30 DEF CrashAndRestart, requests, StartsWithInput, StartLabels, Types, TLocks, Procs
<1> QED
  BY <1>1, <1>2, <1>3, <1>4, <1>5, <1>6, <1>7, <1>8, <1>9, <1>10, <1>11,
    <1>12, <1>13, <1>14, <1>15, <1>16, <1>17, <1>18, <1>19, <1>20, <1>21,
    <1>22, <1>23, <1>24, <1>25, <1>26, <1>27, <1>28, <1>29, <1>30 DEF Next,
    SendStep, StartStep, RunStep, CancelArrives, CancelProceeds, CloseStep

(* It holds in every state.                                                *)
LEMMA StartsInvariant == Spec => [](Types /\ StartsWithInput)
<1>1. Init => StartsWithInput
  BY DEF Init, StartsWithInput, StartLabels, Procs
<1>2. Types /\ StartsWithInput /\ [Next]_vars => StartsWithInput'
  BY StartsStep
<1> QED BY <1>1, <1>2, TypesInv, PTL DEF Spec

(* Who starts a Run has a message for it.                                  *)
LEMMA CreatesInput ==
  ASSUME Types, StartsWithInput, NEW p \in Senders \cup Runs, pc[p] \in StartLabels
  PROVE  Message(p) \in Messages
BY DEF Types, TRequests, StartsWithInput, Message, Messages

(* What keeps a message that is sent again from running again: an input is *)
(* recorded for good, and when no Run is followed and none is about to be, *)
(* the rows of all recorded Runs are closed, so that a recovery finds      *)
(* nothing to abandon and writes no old reading of the records.            *)
MarkedLabels == {"engine", "post", "injected", "create", "launch"}
NoInjection ==
  /\ \A p \in Procs : pc[p] \notin {"post", "injected"}
  /\ \A g \in Runs : posted[g] = {}
RecordedRuns ==
  /\ \A g \in Runs : input[g] = None <=> record[g] = "none"
  /\ \A g, h \in Runs : input[g] = input[h] /\ input[g] # None => g = h
  /\ \A g \in Runs : kernel[g] # "none" => record[g] # "none"
  /\ \A g \in Runs : kernel[g] \in Terminal => row[g] \in Terminal
ReadRuns ==
  /\ active # None => record[active] # "none"
  /\ \A s \in Senders : about[s] # None /\ pc[s] = "engine" => record[about[s]] # "none"
CreatesNew ==
  /\ \A p \in Senders \cup Runs : pc[p] = "create" => ~Recorded(Message(p))
  /\ \A p \in Procs : pc[p] = "launch" => about[p] \in Runs /\ record[about[p]] # "none"
Launching(g) == \E p \in Procs : pc[p] = "launch" /\ about[p] = g
Settled(g) == row[g] \in Terminal \/ running = g \/ Launching(g)
AllSettled == \A g \in Runs : record[g] # "none" => Settled(g)
OnceInv == NoInjection /\ RecordedRuns /\ ReadRuns /\ CreatesNew /\ AllSettled

(* A step that records no Run and launches none.                           *)
SameRecords ==
  /\ \A g \in Runs : record'[g] = "none" <=> record[g] = "none"
  /\ \A g \in Runs : row[g] \in Terminal => row'[g] \in Terminal
  /\ UNCHANGED <<input, posted>> /\ active' \in {active, None}
SameRuns ==
  /\ \A g \in Runs : kernel'[g] # "none" => kernel[g] # "none"
  /\ \A g \in Runs : kernel'[g] \in Terminal => row'[g] \in Terminal
  /\ running' = running \/ (running' = None /\ running \in Runs /\ row[running] \in Terminal)
SameLabels ==
  /\ \A p \in Procs : pc'[p] \in MarkedLabels \ {"engine"} => pc'[p] = pc[p]
  /\ \A p \in Procs : pc[p] = "launch" => pc'[p] = "launch"
SameReading ==
  /\ \A p \in Procs : pc'[p] = "launch" => about'[p] = about[p]
  /\ \A g \in Runs : pc'[g] = "create" => next'[g] = next[g]
  /\ \A s \in Senders : pc'[s] = "engine" =>
       about'[s] = active \/ (pc[s] = "engine" /\ about'[s] = about[s])
Unremarkable == SameRecords /\ SameRuns /\ SameLabels /\ SameReading

(* An unremarkable step keeps OnceInv.                                     *)
LEMMA UnremarkableStep ==
  ASSUME Types, OnceInv, Unremarkable
  PROVE  OnceInv'
<1>1. NoInjection'
  BY DEF OnceInv, NoInjection, Unremarkable, SameRecords, SameLabels, MarkedLabels
<1>2. RecordedRuns'
  BY DEF OnceInv, RecordedRuns, Unremarkable, SameRecords, SameRuns
<1>3. ReadRuns'
  BY DEF OnceInv, ReadRuns, Unremarkable, SameRecords, SameReading, Types, TMemory, TRequests, Procs
<1>4. CreatesNew'
  <2>1. \A m : Recorded(m)' <=> Recorded(m)
    BY DEF Recorded, Unremarkable, SameRecords
  <2>2. \A p \in Senders \cup Runs : pc'[p] = "create" => pc[p] = "create" /\ Message(p)' = Message(p)
    BY DEF Unremarkable, SameLabels, SameReading, MarkedLabels, Procs, Message
  <2>3. \A p \in Senders \cup Runs : pc'[p] = "create" => ~Recorded(Message(p))'
    BY <2>1, <2>2 DEF OnceInv, CreatesNew, Recorded, Unremarkable, SameRecords
  <2>4. \A p \in Procs : pc'[p] = "launch" => about'[p] \in Runs /\ record'[about'[p]] # "none"
    BY DEF OnceInv, CreatesNew, Unremarkable, SameLabels, SameReading, SameRecords, MarkedLabels
  <2> QED BY <2>3, <2>4 DEF CreatesNew
<1>5. AllSettled'
  <2> SUFFICES ASSUME NEW g \in Runs, record'[g] # "none"
               PROVE  Settled(g)'
    BY DEF AllSettled
  <2>1. Settled(g)
    BY DEF Unremarkable, SameRecords, OnceInv, AllSettled
  <2>2. Launching(g) => Launching(g)'
    BY DEF Launching, Unremarkable, SameLabels, SameReading
  <2> QED BY <2>1, <2>2 DEF Settled, Unremarkable, SameRecords, SameRuns
<1> QED BY <1>1, <1>2, <1>3, <1>4, <1>5 DEF OnceInv

(* What a move to an unmarked label keeps.                                 *)
LEMMA UnmarkedMoves ==
  ASSUME TLocks
  PROVE  \A p \in Procs : \A label :
           /\ Leave(p, label) \/ Join(p, label) \/ Keep(p, label)
           /\ label \notin MarkedLabels /\ pc[p] # "launch"
           => SameLabels /\ \A q \in Procs : pc'[q] \in MarkedLabels => pc'[q] = pc[q] /\ q # p
BY DEF Leave, Join, Keep, Go, TLocks, SameLabels, MarkedLabels

(* While no Run is being launched a recovery records and forgets none.     *)
LEMMA RecoverySame ==
  ASSUME Types, OnceInv, NEW id \in Runs \cup {None}, id # None => record[id] # "none",
         \A p \in Procs : pc[p] # "launch", NEW records, Recovers(id, records)
  PROVE  /\ \A g \in Runs : record'[g] = "none" <=> record[g] = "none"
         /\ \A g \in Runs : row[g] \in Terminal => row'[g] \in Terminal
         /\ active' \in {active, None}
<1>1. CASE running # None
  BY <1>1, RecoveryQuiet
<1>2. CASE running = None
  <2>1. id # None => row[id] \in Terminal
    BY <1>2, ConversationAssumption DEF OnceInv, AllSettled, Settled, Launching
  <2>2. row' = Closed("failed") /\ record' = Reconciled(Runs, row') /\ active' = StillActive(Runs, row')
    BY <1>2, <2>1 DEF Recovers
  <2>3. \A g \in Runs : row[g] \in Terminal => row'[g] \in Terminal
    BY <2>2 DEF Closed, Open, Terminal
  <2>4. active' \in {active, None}
    BY <2>2 DEF StillActive
  <2>5. \A g \in Runs : record'[g] = "none" <=> record[g] = "none"
    BY <2>2 DEF Reconciled, Terminal
  <2> QED BY <2>3, <2>4, <2>5
<1> QED BY <1>1, <1>2

(* Every step keeps OnceInv.                                               *)
LEMMA OnceStep ==
  ASSUME Types, TurnInv, StartsWithInput, OnceInv, ~Closes, ~Collaborative, ~Faults, ~Crashes, [Next]_vars
  PROVE  OnceInv'
<1>1. CASE UNCHANGED vars
  BY <1>1, UnremarkableStep DEF vars, memory, locks, database, engines, requests, Types,
    Unremarkable, SameRecords, SameRuns, SameLabels, SameReading, OnceInv,
    RecordedRuns
<1>2. ASSUME NEW s \in Senders, ChatSend(s) PROVE OnceInv'
  <2>1. SameLabels /\ \A q \in Procs : pc'[q] \in MarkedLabels => pc'[q] = pc[q] \/ (q = s /\ pc'[q] = "engine")
    BY <1>2 DEF ChatSend, Join, Keep, Go, SameLabels, MarkedLabels, Types, TLocks
  <2>2. SameRecords
    BY <1>2 DEF ChatSend, database, engines, SameRecords
  <2>3. SameRuns
    BY <1>2 DEF ChatSend, memory, database, engines, SameRuns, OnceInv, RecordedRuns
  <2>4. SameReading
    BY <1>2, <2>1 DEF ChatSend, Join, Keep, Go, SameReading, MarkedLabels, Procs, Types,
      TLocks, TRequests
  <2> QED BY <2>1, <2>2, <2>3, <2>4, UnremarkableStep DEF Unremarkable
<1>3. ASSUME NEW s \in Senders, EngineReady(s) PROVE OnceInv'
  <2>1. SameLabels /\ \A q \in Procs : pc'[q] \in MarkedLabels => pc'[q] = pc[q]
    BY <1>3, UnmarkedMoves, ConversationAssumption DEF EngineReady, Inside, MarkedLabels,
      Types, Procs, Callers
  <2>5. about[s] \in Runs \cup {None} /\ (about[s] # None => record[about[s]] # "none")
    BY <1>3 DEF EngineReady, Inside, Types, TRequests, TMemory, Procs, OnceInv, ReadRuns
  <2>6. \A x \in Procs : pc[x] # "launch"
    BY <1>3, HeadAlone DEF EngineReady, TurnInv, Holding, Procs, Callers
  <2>2. SameRecords
    BY <1>3, <2>5, <2>6, RecoverySame DEF EngineReady, engines, SameRecords
  <2>3. SameRuns
    BY <1>3, <2>2 DEF EngineReady, engines, SameRecords, SameRuns, OnceInv, RecordedRuns
  <2>4. SameReading
    BY <1>3, <2>1 DEF EngineReady, SameReading, MarkedLabels, Procs, requests
  <2> QED BY <2>1, <2>2, <2>3, <2>4, UnremarkableStep DEF Unremarkable
<1>4. ASSUME NEW s \in Senders, SendRequested(s) PROVE OnceInv'
  <2>1. SameLabels /\ \A q \in Procs : pc'[q] \in MarkedLabels => pc'[q] = pc[q]
    BY <1>4, UnmarkedMoves, ConversationAssumption DEF SendRequested, Inside, MarkedLabels,
      Types, Procs, Callers
  <2>2. SameRecords
    BY <1>4 DEF SendRequested, memory, database, engines, SameRecords
  <2>3. SameRuns
    BY <1>4 DEF SendRequested, memory, database, engines, SameRuns, OnceInv, RecordedRuns
  <2>4. SameReading
    BY <1>4, <2>1 DEF SendRequested, SameReading, MarkedLabels, Procs, requests
  <2> QED BY <2>1, <2>2, <2>3, <2>4, UnremarkableStep DEF Unremarkable
<1>5. ASSUME NEW s \in Senders, SendChecks(s) PROVE OnceInv'
  <2>1. SameLabels /\ \A q \in Procs : pc'[q] \in MarkedLabels => pc'[q] = pc[q]
    BY <1>5, UnmarkedMoves, ConversationAssumption DEF SendChecks, Checks, Inside,
      MarkedLabels, Types, Procs, Callers
  <2>2. SameRecords
    BY <1>5 DEF SendChecks, Checks, memory, database, engines, SameRecords
  <2>3. SameRuns
    BY <1>5 DEF SendChecks, Checks, memory, database, engines, SameRuns, OnceInv, RecordedRuns
  <2>4. SameReading
    BY <1>5, <2>1 DEF SendChecks, Checks, SameReading, MarkedLabels, Procs, requests
  <2> QED BY <2>1, <2>2, <2>3, <2>4, UnremarkableStep DEF Unremarkable
<1>6. ASSUME NEW s \in Senders, SendDuplicate(s) PROVE OnceInv'
  <2>1. SameLabels /\ \A q \in Procs : pc'[q] \in MarkedLabels => pc'[q] = pc[q]
    BY <1>6, UnmarkedMoves, ConversationAssumption DEF SendDuplicate, Inside, MarkedLabels,
      Types, Procs, Callers
  <2>2. SameRecords
    BY <1>6 DEF SendDuplicate, memory, database, engines, SameRecords
  <2>3. SameRuns
    BY <1>6 DEF SendDuplicate, memory, database, engines, SameRuns, OnceInv, RecordedRuns
  <2>4. SameReading
    BY <1>6, <2>1 DEF SendDuplicate, SameReading, MarkedLabels, Procs, requests
  <2> QED BY <2>1, <2>2, <2>3, <2>4, UnremarkableStep DEF Unremarkable
<1>7. ASSUME NEW s \in Senders, SendStarts(s) PROVE OnceInv'
  <2>1. SameLabels /\ \A q \in Procs : pc'[q] \in MarkedLabels => pc'[q] = pc[q]
    BY <1>7, UnmarkedMoves, ConversationAssumption DEF SendStarts, Inside, MarkedLabels, Types,
      Procs, Callers
  <2>2. SameRecords
    BY <1>7 DEF SendStarts, memory, database, engines, SameRecords
  <2>3. SameRuns
    BY <1>7 DEF SendStarts, memory, database, engines, SameRuns, OnceInv, RecordedRuns
  <2>4. SameReading
    BY <1>7, <2>1 DEF SendStarts, SameReading, MarkedLabels, Procs, requests
  <2> QED BY <2>1, <2>2, <2>3, <2>4, UnremarkableStep DEF Unremarkable
<1>8. ASSUME NEW s \in Senders, SendQueues(s) PROVE OnceInv'
  <2>1. SameLabels /\ \A q \in Procs : pc'[q] \in MarkedLabels => pc'[q] = pc[q]
    BY <1>8, UnmarkedMoves, ConversationAssumption DEF SendQueues, Inside, MarkedLabels, Types,
      Procs, Callers
  <2>2. SameRecords
    BY <1>8 DEF SendQueues, database, engines, SameRecords
  <2>3. SameRuns
    BY <1>8 DEF SendQueues, database, engines, SameRuns, OnceInv, RecordedRuns
  <2>4. SameReading
    BY <1>8, <2>1 DEF SendQueues, SameReading, MarkedLabels, Procs, requests
  <2> QED BY <2>1, <2>2, <2>3, <2>4, UnremarkableStep DEF Unremarkable
<1>9. ASSUME NEW s \in Senders, SendInjects(s) PROVE OnceInv'
  BY <1>9, ~Collaborative DEF SendInjects, Injects
<1>10. ASSUME NEW s \in Senders, Injected(s) PROVE OnceInv'
  BY <1>10 DEF Injected, Inside, OnceInv, NoInjection, Procs
<1>11. ASSUME NEW p \in Senders \cup Runs, StartChecks(p) PROVE OnceInv'
  <2>1. SameLabels /\ \A q \in Procs : pc'[q] \in MarkedLabels => pc'[q] = pc[q]
    BY <1>11, UnmarkedMoves, ConversationAssumption DEF StartChecks, Checks, Inside,
      MarkedLabels, Types, Procs, Callers
  <2>2. SameRecords
    BY <1>11 DEF StartChecks, Checks, memory, database, engines, SameRecords
  <2>3. SameRuns
    BY <1>11 DEF StartChecks, Checks, memory, database, engines, SameRuns, OnceInv, RecordedRuns
  <2>4. SameReading
    BY <1>11, <2>1 DEF StartChecks, Checks, SameReading, MarkedLabels, Procs, requests
  <2> QED BY <2>1, <2>2, <2>3, <2>4, UnremarkableStep DEF Unremarkable
<1>12. ASSUME NEW p \in Senders \cup Runs, StartDecides(p) PROVE OnceInv'
  <2>1. CASE Leave(p, "duplicate") \/ Leave(p, "refused")
    <3>1. SameLabels /\ \A q \in Procs : pc'[q] \in MarkedLabels => pc'[q] = pc[q]
      BY <1>12, <2>1, UnmarkedMoves DEF StartDecides, Inside, MarkedLabels, Types, Procs
    <3>2. SameRecords /\ SameRuns
      BY <1>12 DEF StartDecides, memory, database, engines, SameRecords, SameRuns, OnceInv,
        RecordedRuns
    <3>3. SameReading
      BY <1>12, <3>1 DEF StartDecides, SameReading, MarkedLabels, Procs, requests
    <3> QED BY <3>1, <3>2, <3>3, UnremarkableStep DEF Unremarkable
  <2>2. CASE ~Recorded(Message(p)) /\ Keep(p, "create")
    <3>1. /\ pc[p] = "start_read" /\ pc' = [pc EXCEPT ![p] = "create"]
          /\ UNCHANGED <<row, record, input, active, running, kernel, posted, about, next>>
      BY <1>12, <2>2 DEF StartDecides, Inside, Keep, Go, memory, database, engines, requests
    <3>2. NoInjection' /\ RecordedRuns' /\ ReadRuns'
      BY <3>1 DEF OnceInv, NoInjection, RecordedRuns, ReadRuns, Types, TLocks, Procs
    <3>3. CreatesNew'
      BY <2>2, <3>1 DEF OnceInv, CreatesNew, Recorded, Message, Types, TLocks, Procs
    <3>4. AllSettled'
      BY <3>1 DEF OnceInv, AllSettled, Settled, Launching, Types, TLocks
    <3> QED BY <3>2, <3>3, <3>4 DEF OnceInv
  <2> QED BY <1>12, <2>1, <2>2 DEF StartDecides
<1>13. ASSUME NEW p \in Senders \cup Runs, Created(p) PROVE OnceInv'
  <2>1. PICK g \in Runs : /\ input[g] = None /\ record' = [record EXCEPT ![g] = "running"]
                          /\ input' = [input EXCEPT ![g] = Message(p)]
                          /\ active' = g /\ about' = [about EXCEPT ![p] = g]
    BY <1>13 DEF Created
  <2>2. /\ pc[p] = "create" /\ pc' = [pc EXCEPT ![p] = "launch"] /\ ~Recorded(Message(p))
        /\ UNCHANGED <<row, running, kernel, posted, next>>
    BY <1>13 DEF Created, Inside, Keep, Go, engines, OnceInv, CreatesNew
  <2>3. \A q \in Procs : q # p => pc[q] \notin {"create", "launch"}
    BY <1>13, HeadAlone DEF Created, TurnInv, Holding, Procs
  <2>4. Message(p) \in Messages
    BY <1>13, CreatesInput DEF Created, Inside, StartLabels
  <2>5. NoInjection'
    BY <2>2 DEF OnceInv, NoInjection, Types, TLocks
  <2>6. RecordedRuns'
    BY <2>1, <2>2, <2>4, ConversationAssumption DEF OnceInv, RecordedRuns, Recorded, Types, TData
  <2>7. ReadRuns'
    BY <2>1, <2>2 DEF OnceInv, ReadRuns, Types, TLocks, TData, TRequests, Procs
  <2>8. CreatesNew'
    BY <2>1, <2>2, <2>3 DEF OnceInv, CreatesNew, Types, TLocks, TData, TRequests, Procs
  <2>9. AllSettled'
    BY <2>1, <2>2, <2>3 DEF OnceInv, AllSettled, Settled, Launching, Types, TLocks, TData,
      TRequests, Procs
  <2> QED BY <2>5, <2>6, <2>7, <2>8, <2>9 DEF OnceInv
<1>14. ASSUME NEW p \in Senders \cup Runs, Launched(p) PROVE OnceInv'
  <2>1. /\ pc[p] = "launch" /\ running' = about[p] /\ kernel' = [kernel EXCEPT ![about[p]] = "live"]
        /\ pc' = [pc EXCEPT ![p] = "started"]
        /\ UNCHANGED <<row, record, input, active, posted, about, next>>
    BY <1>14 DEF Launched, Inside, Leave, Go, database, requests
  <2>2. running = None /\ about[p] \in Runs /\ record[about[p]] # "none"
    BY <2>1 DEF OnceInv, CreatesNew, TurnInv, OneAtATime, Creating, Procs
  <2>3. \A q \in Procs : pc[q] = "launch" => q = p
    BY <1>14, HeadAlone DEF Launched, TurnInv, Holding, Procs
  <2>4. NoInjection' /\ ReadRuns'
    BY <2>1 DEF OnceInv, NoInjection, ReadRuns, Types, TLocks, Procs
  <2>5. RecordedRuns'
    BY <2>1, <2>2 DEF OnceInv, RecordedRuns, Types, TData, Terminal
  <2>6. CreatesNew'
    BY <2>1 DEF OnceInv, CreatesNew, Recorded, Message, Types, TLocks, Procs
  <2>7. AllSettled'
    BY <2>1, <2>2, <2>3, ConversationAssumption DEF OnceInv, AllSettled, Settled, Launching,
      Types, TLocks
  <2> QED BY <2>4, <2>5, <2>6, <2>7 DEF OnceInv
<1>15. ASSUME NEW p \in Senders \cup Runs, StartFails(p) PROVE OnceInv'
  <2>1. SameLabels /\ \A q \in Procs : pc'[q] \in MarkedLabels => pc'[q] = pc[q]
    BY <1>15, UnmarkedMoves, ConversationAssumption DEF StartFails, Inside, MarkedLabels,
      Types, Procs, Callers
  <2>2. SameRecords
    BY <1>15 DEF StartFails, memory, database, engines, SameRecords
  <2>3. SameRuns
    BY <1>15 DEF StartFails, memory, database, engines, SameRuns, OnceInv, RecordedRuns
  <2>4. SameReading
    BY <1>15, <2>1 DEF StartFails, SameReading, MarkedLabels, Procs, requests
  <2> QED BY <2>1, <2>2, <2>3, <2>4, UnremarkableStep DEF Unremarkable
<1>16. ASSUME NEW g \in Runs, RowCreated(g) PROVE OnceInv'
  <2>1. SameLabels /\ SameReading
    BY <1>16 DEF RowCreated, requests, SameLabels, SameReading
  <2>2. SameRecords
    BY <1>16 DEF RowCreated, engines, Terminal, Types, TData, SameRecords
  <2>3. SameRuns
    BY <1>16 DEF RowCreated, memory, engines, Terminal, Types, TData, SameRuns, OnceInv,
      RecordedRuns
  <2> QED BY <2>1, <2>2, <2>3, UnremarkableStep DEF Unremarkable
<1>17. ASSUME NEW g \in Runs, KernelEnds(g) PROVE OnceInv'
  <2>1. SameLabels /\ SameReading
    BY <1>17 DEF KernelEnds, requests, SameLabels, SameReading
  <2>2. SameRecords
    BY <1>17 DEF KernelEnds, Terminal, Types, TData, SameRecords
  <2>3. SameRuns
    BY <1>17 DEF KernelEnds, memory, Terminal, Types, TData, SameRuns, OnceInv, RecordedRuns
  <2> QED BY <2>1, <2>2, <2>3, UnremarkableStep DEF Unremarkable
<1>18. ASSUME NEW g \in Runs, Projected(g) PROVE OnceInv'
  <2>1. SameLabels /\ SameReading
    BY <1>18 DEF Projected, requests, SameLabels, SameReading
  <2>2. SameRecords
    BY <1>18 DEF Projected, Unprojected, engines, Terminal, Types, TData, SameRecords
  <2>3. SameRuns
    BY <1>18 DEF Projected, memory, engines, Types, TData, SameRuns, OnceInv, RecordedRuns
  <2> QED BY <2>1, <2>2, <2>3, UnremarkableStep DEF Unremarkable
<1>19. ASSUME NEW g \in Runs, GenerationDone(g) PROVE OnceInv'
  <2>1. /\ pc[g] # "launch" /\ running = g /\ row[g] \in Terminal /\ running' = None
        /\ UNCHANGED <<row, record, input, active, kernel, posted, about>>
    BY <1>19, ConversationAssumption DEF GenerationDone, TurnInv, OneAtATime, Creating, Procs,
      OnceInv,
      RecordedRuns, database, engines
  <2>2. \/ UNCHANGED <<pc, next>>
        \/ pc' = [pc EXCEPT ![g] = "publish"] /\ \A h \in Runs : h # g => next'[h] = next[h]
    BY <1>19 DEF GenerationDone, Go, Types, TRequests
  <2>3. SameLabels /\ SameReading
    BY <2>1, <2>2 DEF SameLabels, SameReading, MarkedLabels, Types, TLocks, Procs
  <2>4. SameRecords /\ SameRuns
    BY <2>1 DEF SameRecords, SameRuns, OnceInv, RecordedRuns
  <2> QED BY <2>3, <2>4, UnremarkableStep DEF Unremarkable
<1>20. ASSUME NEW g \in Runs, Continued(g) PROVE OnceInv'
  <2>1. SameLabels /\ \A q \in Procs : pc'[q] \in MarkedLabels => pc'[q] = pc[q]
    BY <1>20, UnmarkedMoves, ConversationAssumption DEF Continued, Inside, MarkedLabels, Types,
      Procs, Callers
  <2>2. SameRecords
    BY <1>20 DEF Continued, memory, database, engines, SameRecords
  <2>3. SameRuns
    BY <1>20 DEF Continued, memory, database, engines, SameRuns, OnceInv, RecordedRuns
  <2>4. SameReading
    BY <1>20, <2>1 DEF Continued, SameReading, MarkedLabels, Procs, requests
  <2> QED BY <2>1, <2>2, <2>3, <2>4, UnremarkableStep DEF Unremarkable
<1>21. ASSUME NEW c \in {"cancel", "close"}, CancelRunning(c) PROVE OnceInv'
  <2>1. SameLabels /\ \A q \in Procs : pc'[q] \in MarkedLabels => pc'[q] = pc[q]
    BY <1>21, UnmarkedMoves, ConversationAssumption DEF CancelRunning, Inside, MarkedLabels,
      Types, Procs, Callers
  <2>2. SameRecords
    BY <1>21 DEF CancelRunning, database, SameRecords
  <2>3. SameRuns
    BY <1>21 DEF CancelRunning, database, SameRuns, OnceInv, RecordedRuns
  <2>4. SameReading
    BY <1>21, <2>1 DEF CancelRunning, SameReading, MarkedLabels, Procs, requests
  <2> QED BY <2>1, <2>2, <2>3, <2>4, UnremarkableStep DEF Unremarkable
<1>22. ASSUME NEW c \in {"cancel", "close"}, CancelWaited(c) PROVE OnceInv'
  <2>1. SameLabels /\ \A q \in Procs : pc'[q] \in MarkedLabels => pc'[q] = pc[q]
    BY <1>22, UnmarkedMoves, ConversationAssumption DEF CancelWaited, Inside, MarkedLabels,
      Types, Procs, Callers
  <2>2. SameRecords
    BY <1>22 DEF CancelWaited, memory, database, engines, SameRecords
  <2>3. SameRuns
    BY <1>22 DEF CancelWaited, memory, database, engines, SameRuns, OnceInv, RecordedRuns
  <2>4. SameReading
    BY <1>22, <2>1 DEF CancelWaited, SameReading, MarkedLabels, Procs, requests
  <2> QED BY <2>1, <2>2, <2>3, <2>4, UnremarkableStep DEF Unremarkable
<1>23. ASSUME NEW c \in {"cancel", "close"}, CancelAbandons(c) PROVE OnceInv'
  <2>1. SameLabels /\ \A q \in Procs : pc'[q] \in MarkedLabels => pc'[q] = pc[q]
    BY <1>23, UnmarkedMoves, ConversationAssumption DEF CancelAbandons, Inside, MarkedLabels,
      Types, Procs, Callers
  <2>2. SameRecords
    BY <1>23 DEF CancelAbandons, memory, database, engines, SameRecords
  <2>3. SameRuns
    BY <1>23 DEF CancelAbandons, memory, database, engines, SameRuns, OnceInv, RecordedRuns
  <2>4. SameReading
    BY <1>23, <2>1 DEF CancelAbandons, SameReading, MarkedLabels, Procs, requests
  <2> QED BY <2>1, <2>2, <2>3, <2>4, UnremarkableStep DEF Unremarkable
<1>24. ASSUME NEW c \in {"cancel", "close"}, CancelRows(c) PROVE OnceInv'
  <2>1. SameLabels /\ \A q \in Procs : pc'[q] \in MarkedLabels => pc'[q] = pc[q]
    BY <1>24, UnmarkedMoves, ConversationAssumption DEF CancelRows, Inside, MarkedLabels,
      Types, Procs, Callers
  <2>2. SameRecords
    BY <1>24 DEF CancelRows, memory, engines, Closed, Open, Terminal, SameRecords
  <2>3. SameRuns
    BY <1>24 DEF CancelRows, memory, engines, Closed, Open, Terminal, SameRuns, OnceInv,
      RecordedRuns
  <2>4. SameReading
    BY <1>24, <2>1 DEF CancelRows, SameReading, MarkedLabels, Procs, requests
  <2> QED BY <2>1, <2>2, <2>3, <2>4, UnremarkableStep DEF Unremarkable
<1>25. ASSUME NEW c \in {"cancel", "close"}, CancelRecords(c) PROVE OnceInv'
  <2>1. SameLabels /\ \A q \in Procs : pc'[q] \in MarkedLabels => pc'[q] = pc[q]
    BY <1>25, UnmarkedMoves, ConversationAssumption DEF CancelRecords, Inside, MarkedLabels,
      Types, Procs, Callers
  <2>5. /\ active' \in {active, None} /\ UNCHANGED <<row, input, posted>>
        /\ \/ record' = Reconciled(closed[c], row) \/ UNCHANGED record
           \/ record' = Abandoned(record, active, "cancelled")
    BY <1>25 DEF CancelRecords, StillActive, engines
  <2>6. \A g \in Runs : record'[g] = "none" <=> record[g] = "none"
    BY <2>5 DEF Reconciled, Abandoned, Terminal, Types, TData
  <2>2. SameRecords
    BY <2>5, <2>6 DEF SameRecords
  <2>3. SameRuns
    BY <1>25 DEF CancelRecords, memory, engines, Reconciled, StillActive, Abandoned, Terminal,
      SameRuns, OnceInv, RecordedRuns
  <2>4. SameReading
    BY <1>25, <2>1 DEF CancelRecords, SameReading, MarkedLabels, Procs, requests
  <2> QED BY <2>1, <2>2, <2>3, <2>4, UnremarkableStep DEF Unremarkable
<1>26. CASE ConnectAsks
  <2>1. SameLabels /\ \A q \in Procs : pc'[q] \in MarkedLabels => pc'[q] = pc[q]
    BY <1>26, UnmarkedMoves, ConversationAssumption DEF ConnectAsks, Inside, MarkedLabels,
      Types, Procs, Callers
  <2>2. SameRecords
    BY <1>26 DEF ConnectAsks, memory, database, engines, SameRecords
  <2>3. SameRuns
    BY <1>26 DEF ConnectAsks, memory, database, engines, SameRuns, OnceInv, RecordedRuns
  <2>4. SameReading
    BY <1>26, <2>1 DEF ConnectAsks, SameReading, MarkedLabels, Procs, requests
  <2> QED BY <2>1, <2>2, <2>3, <2>4, UnremarkableStep DEF Unremarkable
<1>27. CASE ConnectRecovers
  <2>1. SameLabels /\ \A q \in Procs : pc'[q] \in MarkedLabels => pc'[q] = pc[q]
    BY <1>27, UnmarkedMoves, ConversationAssumption DEF ConnectRecovers, Inside, MarkedLabels,
      Types, Procs, Callers
  <2>5. active \in Runs \cup {None} /\ (active # None => record[active] # "none")
    BY <1>27 DEF ConnectRecovers, Inside, Types, TRequests, TMemory, Procs, OnceInv, ReadRuns
  <2>6. \A x \in Procs : pc[x] # "launch"
    BY <1>27, HeadAlone DEF ConnectRecovers, TurnInv, Holding, Procs, Callers
  <2>2. SameRecords
    BY <1>27, <2>5, <2>6, RecoverySame DEF ConnectRecovers, engines, SameRecords
  <2>3. SameRuns
    BY <1>27, <2>2 DEF ConnectRecovers, engines, SameRecords, SameRuns, OnceInv, RecordedRuns
  <2>4. SameReading
    BY <1>27, <2>1 DEF ConnectRecovers, SameReading, MarkedLabels, Procs, requests
  <2> QED BY <2>1, <2>2, <2>3, <2>4, UnremarkableStep DEF Unremarkable
<1> QED
  BY <1>1, <1>2, <1>3, <1>4, <1>5, <1>6, <1>7, <1>8, <1>9, <1>10, <1>11,
    <1>12, <1>13, <1>14, <1>15, <1>16, <1>17, <1>18, <1>19, <1>20, <1>21,
    <1>22, <1>23, <1>24, <1>25, <1>26, <1>27 DEF Next, SendStep, StartStep,
    RunStep, CancelArrives, CancelProceeds, CloseStep

(* OnceInv holds in every state.                                           *)
LEMMA OnceInvariant ==
  ASSUME ~Closes, ~Collaborative, ~Faults, ~Crashes
  PROVE  Spec => [](Types /\ OnceInv)
<1>1. Init => OnceInv
  <2> SUFFICES ASSUME Init PROVE OnceInv
    OBVIOUS
  <2>1. NoInjection /\ CreatesNew
    BY DEF Init, NoInjection, CreatesNew, Procs
  <2>2. RecordedRuns /\ AllSettled
    BY DEF Init, NoRecords, RecordedRuns, AllSettled, Terminal
  <2>3. ReadRuns
    BY DEF Init, ReadRuns, Procs
  <2> QED BY <2>1, <2>2, <2>3 DEF OnceInv
<1>2. Types /\ TurnInv /\ StartsWithInput /\ OnceInv /\ [Next]_vars => OnceInv'
  BY OnceStep
<1> QED BY <1>1, <1>2, TurnInvariant, StartsInvariant, PTL DEF Spec

(* However often a message is sent, by however many requests, it is the    *)
(* input of one Run, unless inputs are injected, the conversation is       *)
(* deleted or the journal, the database or the process fails: the start    *)
(* looks at what is recorded (conversation_run_manager.py:245-260).        *)
THEOREM ServedOnceIfSentAgain ==
  ASSUME ~Closes, ~Collaborative, ~Faults, ~Crashes
  PROVE  Spec => []AtMostOnce
<1>1. Types /\ OnceInv => UsedOnce
  BY ConversationAssumption DEF OnceInv, NoInjection, RecordedRuns, UsedOnce
<1> QED BY <1>1, OnceInvariant, AtMostOneRun, PTL

-----------------------------------------------------------------------------
(* No input strands.                                                       *)

(* What keeps a queued input from stranding.  A message is queued only by  *)
(* who has the lock and has found it nowhere; and when no Run is followed, *)
(* a finished one is about to start a successor, which nothing can make    *)
(* redundant but another start.                                            *)
BoundLabels ==
  {"sending", "starting", "send", "send_read", "start", "start_read", "create",
   "launch", "publish"}
HandledLabels == {"send_read", "start_read", "create"}
SucceedLabels == {"publish", "start", "start_read"}
HandledFresh == \A p \in Senders \cup Runs : pc[p] \in HandledLabels => Message(p) \notin Queued
QueuedNew == \A m \in Queued : ~Recorded(m)
Current ==
  /\ running = None => activeMsg = None
  /\ liveMsgs = {} /\ \A p \in Procs : pc[p] # "post"
  /\ running # None => genId = running
  /\ \A p \in Procs : pc[p] = "launch" => about[p] \in Runs /\ genId = about[p]
Bound ==
  /\ running # None => binding
  /\ \A p \in Procs : pc[p] \in BoundLabels => binding
SomeCreates == \E p \in Procs : pc[p] \in Creating
Succeeds(g) ==
  /\ next[g] # None
  /\ \/ pc[g] \in Creating
     \/ pc[g] \in SucceedLabels /\ (SomeCreates \/ (~Recorded(next[g]) /\ next[g] \notin Queued))
Followed == queue # <<>> /\ running = None => \E g \in Runs : Succeeds(g)
QueueInv == QueuedOnce /\ HandledFresh /\ QueuedNew /\ Current /\ Bound /\ Followed

(* A step that neither queues nor takes nor decides a start.               *)
KeepsQueue ==
  /\ queue' = <<>> \/ (queue' = queue /\ \A m : Recorded(m)' => Recorded(m))
  /\ UNCHANGED <<running, next>> /\ activeMsg' \in {activeMsg, None} /\ liveMsgs' \in {liveMsgs, {}}
  /\ binding => binding'
  /\ genId' = genId \/ (running = None /\ \A p \in Procs : pc[p] # "launch")
KeepsLabels ==
  /\ \A p \in Procs : pc'[p] \in HandledLabels \cup {"post", "launch"} => pc'[p] = pc[p]
  /\ \A p \in Procs : pc[p] \in Creating => pc'[p] = pc[p]
  /\ \A g \in Runs : pc[g] \in SucceedLabels /\ next[g] # None => pc'[g] \in SucceedLabels
KeepsBound == \A p \in Procs : pc'[p] \in BoundLabels => pc[p] \in BoundLabels \/ binding'
KeepsAbout == \A p \in Procs : pc'[p] = "launch" => about'[p] = about[p]
Keeps == KeepsQueue /\ KeepsLabels /\ KeepsBound /\ KeepsAbout

(* Such a step keeps QueueInv.                                             *)
LEMMA KeepsStep ==
  ASSUME Types, QueueInv, Keeps
  PROVE  QueueInv'
<1>1. QueuedOnce' /\ Queued' \subseteq Queued
  BY QueueEmptied DEF Keeps, KeepsQueue, QueuedOnce, Queued, QueueInv
<1>2. HandledFresh'
  <2>1. \A p \in Senders \cup Runs : pc'[p] \in HandledLabels => pc[p] \in HandledLabels
    BY DEF Keeps, KeepsLabels, Procs
  <2>2. \A p : Message(p)' = Message(p)
    BY DEF Keeps, KeepsQueue, Message
  <2> QED BY <1>1, <2>1, <2>2 DEF HandledFresh, QueueInv
<1>3. QueuedNew'
  BY <1>1, QueueEmptied DEF Keeps, KeepsQueue, QueuedNew, QueueInv
<1>4. Current'
  BY DEF Keeps, KeepsQueue, KeepsLabels, KeepsAbout, Current, QueueInv
<1>5. Bound'
  BY DEF Keeps, KeepsQueue, KeepsBound, Bound, QueueInv
<1>6. Followed'
  <2> SUFFICES ASSUME queue' # <<>>, running' = None
               PROVE  \E g \in Runs : Succeeds(g)'
    BY DEF Followed
  <2>1. queue # <<>> /\ running = None /\ Queued' = Queued /\ UNCHANGED next /\ \A m : Recorded(m)' => Recorded(m)
    BY DEF Keeps, KeepsQueue, Queued
  <2>2. PICK g \in Runs : Succeeds(g)
    BY <2>1 DEF QueueInv, Followed
  <2>3. SomeCreates => SomeCreates'
    BY DEF Keeps, KeepsLabels, SomeCreates
  <2>4. CASE pc[g] \in Creating
    BY <2>1, <2>2, <2>4 DEF Succeeds, Keeps, KeepsLabels, Procs
  <2>5. CASE pc[g] \in SucceedLabels /\ (SomeCreates \/ (~Recorded(next[g]) /\ next[g] \notin Queued))
    BY <2>1, <2>2, <2>3, <2>5 DEF Succeeds, Keeps, KeepsLabels
  <2> QED BY <2>2, <2>4, <2>5 DEF Succeeds
<1> QED BY <1>1, <1>2, <1>3, <1>4, <1>5, <1>6 DEF QueueInv

(* What a move keeps of the labels.                                        *)
LEMMA KeepMoves ==
  ASSUME TLocks
  PROVE  \A p \in Procs : \A label :
           /\ Leave(p, label) \/ Join(p, label) \/ Keep(p, label)
           /\ label \notin HandledLabels \cup {"post", "launch"} /\ pc[p] \notin Creating
           /\ p \in Runs /\ pc[p] \in SucceedLabels /\ next[p] # None => label \in SucceedLabels
           => KeepsLabels /\ ((label \in BoundLabels => pc[p] \in BoundLabels \/ binding') => KeepsBound)
<1> SUFFICES ASSUME NEW p \in Procs, NEW label, pc' = [pc EXCEPT ![p] = label],
                    label \notin HandledLabels \cup {"post", "launch"}, pc[p] \notin Creating,
                    p \in Runs /\ pc[p] \in SucceedLabels /\ next[p] # None => label \in SucceedLabels
             PROVE  KeepsLabels /\ ((label \in BoundLabels => pc[p] \in BoundLabels \/ binding') => KeepsBound)
  BY DEF Leave, Join, Keep, Go
<1> QED BY DEF TLocks, KeepsLabels, KeepsBound

(* A recovery keeps the queue and its records, or empties it.              *)
LEMMA RecoveryKeeps ==
  ASSUME NEW id, NEW records, Recovers(id, records), \A p \in Procs : pc[p] # "launch",
         UNCHANGED <<input, running>>
  PROVE  /\ queue' = <<>> \/ (queue' = queue /\ \A m : Recorded(m)' => Recorded(m))
         /\ activeMsg' \in {activeMsg, None} /\ liveMsgs' \in {liveMsgs, {}}
         /\ genId' = genId \/ (running = None /\ \A p \in Procs : pc[p] # "launch")
<1>1. CASE running # None
  BY <1>1, RecoveryQuiet DEF Recorded
<1>2. CASE running = None
  <2>1. Remembered \/ Forgotten
    BY <1>2 DEF Recovers
  <2>2. CASE Forgotten
    BY <1>2, <2>2 DEF Forgotten
  <2>3. CASE Remembered /\ record' = Reconciled(Runs, row')
    <3>1. \A g \in Runs : record'[g] # "none" => record[g] # "none"
      BY <2>3 DEF Reconciled
    <3> QED BY <1>2, <2>3, <3>1 DEF Remembered, Recorded
  <2> QED BY <1>2, <2>2, <2>3 DEF Recovers
<1> QED BY <1>1, <1>2

(* A process that has the lock moves, while memory and records stay.       *)
LEMMA HolderMoves ==
  ASSUME Types, QueueInv, NEW p \in Senders \cup Runs, NEW label,
         pc' = [pc EXCEPT ![p] = label],
         UNCHANGED <<binding, running, genId, activeMsg, liveMsgs, queue, record, input, next, about>>,
         label \in HandledLabels => Message(p) \notin Queued,
         label \notin {"post", "launch"}, label \in BoundLabels => binding,
         pc[p] \in Creating => label \in Creating,
         p \in Runs /\ Succeeds(p) /\ queue # <<>> /\ running = None =>
           \/ label \in Creating
           \/ label \in SucceedLabels /\ (SomeCreates \/ (~Recorded(next[p]) /\ next[p] \notin Queued))
  PROVE  QueueInv'
<1>1. QueuedOnce' /\ Queued' = Queued /\ (\A m : Recorded(m)' <=> Recorded(m))
      /\ (\A q : Message(q)' = Message(q))
  BY DEF QueueInv, QueuedOnce, Queued, Recorded, Message
<1>2. HandledFresh'
  BY <1>1 DEF HandledFresh, QueueInv, Types, TLocks
<1>3. QueuedNew'
  BY <1>1 DEF QueuedNew, QueueInv
<1>4. Current'
  BY DEF Current, QueueInv, Types, TLocks
<1>5. Bound'
  BY DEF Bound, QueueInv, Types, TLocks
<1>6. SomeCreates => SomeCreates'
  BY DEF SomeCreates, Types, TLocks
<1>7. Followed'
  <2> SUFFICES ASSUME queue # <<>>, running = None
               PROVE  \E g \in Runs : Succeeds(g)'
    BY DEF Followed
  <2>1. PICK g \in Runs : Succeeds(g)
    BY DEF QueueInv, Followed
  <2>2. CASE g = p
    BY <1>1, <1>6, <2>1, <2>2 DEF Succeeds, Types, TLocks, Procs
  <2>3. CASE g # p
    BY <1>1, <1>6, <2>1, <2>3 DEF Succeeds, Types, TLocks, Procs
  <2> QED BY <2>2, <2>3
<1> QED BY <1>1, <1>2, <1>3, <1>4, <1>5, <1>7 DEF QueueInv

(* A message that is not in memory is not queued.                          *)
LEMMA NotInMemory ==
  ASSUME NEW p \in Senders \cup Runs, Message(p) \notin InMemory
  PROVE  Message(p) \notin Queued
BY DEF InMemory, Queued

(* The start of a successor is no duplicate while nothing else starts.     *)
LEMMA SuccessorIsNew ==
  ASSUME Types, QueueInv, NEW g \in Runs, Succeeds(g), running = None, ~SomeCreates
  PROVE  ~Recorded(Message(g)) /\ Message(g) \notin InMemory
<1>1. next[g] # None /\ ~Recorded(next[g]) /\ next[g] \notin Queued
  BY DEF Succeeds, SomeCreates, Procs
<1>2. activeMsg = None /\ liveMsgs = {} /\ Message(g) = next[g]
  BY ConversationAssumption DEF QueueInv, Current, Message
<1> QED BY <1>1, <1>2 DEF InMemory, Queued

(* Every step keeps QueueInv.                                              *)
LEMMA QueueStep ==
  ASSUME Types, TurnInv, StartsWithInput, QueueInv, ~Closes, ~Collaborative, ~Faults, [Next]_vars
  PROVE  QueueInv'
<1>1. CASE UNCHANGED vars
  BY <1>1, KeepsStep DEF vars, memory, locks, database, engines, requests, Types, Keeps,
    KeepsQueue, KeepsLabels, KeepsBound, KeepsAbout, Recorded
<1>2. ASSUME NEW s \in Senders, ChatSend(s) PROVE QueueInv'
  <2>1. KeepsLabels /\ KeepsBound
    BY <1>2, KeepMoves, ConversationAssumption DEF ChatSend, Inside, HandledLabels,
      SucceedLabels, BoundLabels, Creating, Types, Procs, Callers
  <2>2. KeepsQueue
    BY <1>2 DEF ChatSend, memory, database, requests, Recorded, KeepsQueue
  <2>3. KeepsAbout
    BY <1>2, <2>1 DEF ChatSend, requests, KeepsAbout, KeepsLabels, Procs, Types, TRequests
  <2> QED BY <2>1, <2>2, <2>3, KeepsStep DEF Keeps
<1>3. ASSUME NEW s \in Senders, EngineReady(s) PROVE QueueInv'
  <2>1. KeepsLabels /\ KeepsBound
    BY <1>3, KeepMoves, ConversationAssumption DEF EngineReady, Inside, HandledLabels,
      SucceedLabels, BoundLabels, Creating, Types, Procs, Callers
  <2>4. \A x \in Procs : pc[x] # "launch"
    BY <1>3, HeadAlone DEF EngineReady, TurnInv, Holding, Procs, Callers
  <2>2. KeepsQueue
    BY <1>3, <2>4, RecoveryKeeps DEF EngineReady, requests, KeepsQueue
  <2>3. KeepsAbout
    BY <1>3, <2>1 DEF EngineReady, requests, KeepsAbout, KeepsLabels, Procs, Types, TRequests
  <2> QED BY <2>1, <2>2, <2>3, KeepsStep DEF Keeps
<1>4. ASSUME NEW s \in Senders, SendRequested(s) PROVE QueueInv'
  <2>1. KeepsLabels /\ KeepsBound
    BY <1>4, KeepMoves, ConversationAssumption DEF SendRequested, Inside, HandledLabels,
      SucceedLabels, BoundLabels, Creating, Types, Procs, Callers
  <2>2. KeepsQueue
    BY <1>4 DEF SendRequested, memory, database, requests, Recorded, KeepsQueue
  <2>3. KeepsAbout
    BY <1>4, <2>1 DEF SendRequested, requests, KeepsAbout, KeepsLabels, Procs, Types, TRequests
  <2> QED BY <2>1, <2>2, <2>3, KeepsStep DEF Keeps
<1>5. ASSUME NEW s \in Senders, SendChecks(s) PROVE QueueInv'
  <2>1. /\ pc[s] = "send" /\ binding /\ s \notin Runs
        /\ UNCHANGED <<binding, running, genId, activeMsg, liveMsgs, queue, record, input, next, about>>
    BY <1>5, ConversationAssumption DEF SendChecks, Checks, Inside, memory, database, requests,
      QueueInv, Bound,
      BoundLabels, Procs
  <2>2. CASE pc' = [pc EXCEPT ![s] = "duplicate"]
    BY <2>1, <2>2, HolderMoves DEF HandledLabels, BoundLabels, Creating
  <2>3. CASE Message(s) \notin InMemory /\ pc' = [pc EXCEPT ![s] = "send_read"]
    BY <2>1, <2>3, HolderMoves, NotInMemory DEF HandledLabels, BoundLabels, Creating
  <2> QED BY <1>5, <2>1, <2>2, <2>3 DEF SendChecks, Checks, Leave, Keep, Go
<1>6. ASSUME NEW s \in Senders, SendDuplicate(s) PROVE QueueInv'
  <2>1. KeepsLabels /\ KeepsBound
    BY <1>6, KeepMoves, ConversationAssumption DEF SendDuplicate, Inside, HandledLabels,
      SucceedLabels, BoundLabels, Creating, Types, Procs, Callers
  <2>2. KeepsQueue
    BY <1>6 DEF SendDuplicate, memory, database, requests, Recorded, KeepsQueue
  <2>3. KeepsAbout
    BY <1>6, <2>1 DEF SendDuplicate, requests, KeepsAbout, KeepsLabels, Procs, Types, TRequests
  <2> QED BY <2>1, <2>2, <2>3, KeepsStep DEF Keeps
<1>7. ASSUME NEW s \in Senders, SendStarts(s) PROVE QueueInv'
  <2>1. KeepsLabels /\ KeepsBound
    BY <1>7, KeepMoves, ConversationAssumption DEF SendStarts, Inside, HandledLabels,
      SucceedLabels, BoundLabels, Creating, Types, Procs, Callers
  <2>2. KeepsQueue
    BY <1>7 DEF SendStarts, memory, database, requests, Recorded, KeepsQueue
  <2>3. KeepsAbout
    BY <1>7, <2>1 DEF SendStarts, requests, KeepsAbout, KeepsLabels, Procs, Types, TRequests
  <2> QED BY <2>1, <2>2, <2>3, KeepsStep DEF Keeps
<1>8. ASSUME NEW s \in Senders, SendQueues(s) PROVE QueueInv'
  <2>1. /\ pc[s] = "send_read" /\ pc' = [pc EXCEPT ![s] = "queued"] /\ queue' = Append(queue, Message(s))
        /\ ~Recorded(Message(s)) /\ running # None /\ Message(s) \notin Queued /\ Message(s) \in Messages
        /\ UNCHANGED <<binding, running, genId, activeMsg, liveMsgs, record, input, next, about>>
    BY <1>8, InputTyped DEF SendQueues, Inside, Leave, Go, database, requests, QueueInv,
      HandledFresh, HandledLabels,
      Types
  <2>2. Queued' = Queued \cup {Message(s)} /\ QueuedOnce'
    BY <2>1, QueueAppended DEF QueueInv, Types, TMemory
  <2>3. \A q \in Procs : pc[q] \in Holding => q = s
    BY <1>8, HeadAlone DEF SendQueues, TurnInv, Procs
  <2>4. HandledFresh'
    BY <2>1, <2>2, <2>3 DEF HandledFresh, QueueInv, HandledLabels, Holding, Message, Types,
      TLocks, Procs
  <2>5. QueuedNew'
    BY <2>1, <2>2 DEF QueuedNew, QueueInv, Recorded
  <2>6. Current' /\ Bound'
    BY <2>1 DEF Current, Bound, QueueInv, BoundLabels, Types, TLocks
  <2>7. Followed'
    BY <2>1 DEF Followed
  <2> QED BY <2>2, <2>4, <2>5, <2>6, <2>7 DEF QueueInv
<1>9. ASSUME NEW s \in Senders, SendInjects(s) PROVE QueueInv'
  BY <1>9 DEF SendInjects, Injects
<1>10. ASSUME NEW s \in Senders, Injected(s) PROVE QueueInv'
  BY <1>10 DEF Injected, Inside, QueueInv, Current, Procs
<1>11. ASSUME NEW p \in Senders \cup Runs, StartChecks(p) PROVE QueueInv'
  <2>1. /\ pc[p] = "start" /\ binding
        /\ UNCHANGED <<binding, running, genId, activeMsg, liveMsgs, queue, record, input, next, about>>
    BY <1>11 DEF StartChecks, Checks, Inside, memory, database, requests, QueueInv, Bound,
      BoundLabels, Procs
  <2>2. ~SomeCreates
    BY <1>11, <2>1, HeadAlone DEF StartChecks, Checks, SomeCreates, Creating, TurnInv, Holding,
      Procs
  <2>3. CASE Message(p) \in InMemory /\ pc' = [pc EXCEPT ![p] = "duplicate"]
    <3>1. p \in Runs /\ Succeeds(p) => running # None
      BY <2>2, <2>3, SuccessorIsNew
    <3> QED BY <2>1, <2>3, <3>1, HolderMoves DEF HandledLabels, BoundLabels, Creating
  <2>4. CASE Message(p) \notin InMemory /\ pc' = [pc EXCEPT ![p] = "start_read"]
    <3>1. p \in Runs /\ Succeeds(p) => ~Recorded(next[p]) /\ next[p] \notin Queued
      BY <2>1, <2>2 DEF Succeeds, Creating
    <3> QED BY <2>1, <2>4, <3>1, HolderMoves, NotInMemory DEF HandledLabels, BoundLabels,
      Creating, SucceedLabels
  <2> QED BY <1>11, <2>1, <2>3, <2>4 DEF StartChecks, Checks, Leave, Keep, Go
<1>12. ASSUME NEW p \in Senders \cup Runs, StartDecides(p) PROVE QueueInv'
  <2>1. /\ pc[p] = "start_read" /\ binding /\ Message(p) \notin Queued
        /\ UNCHANGED <<binding, running, genId, activeMsg, liveMsgs, queue, record, input, next, about>>
    BY <1>12 DEF StartDecides, Inside, memory, database, requests, QueueInv, Bound,
      BoundLabels, HandledFresh,
      HandledLabels, Procs
  <2>2. ~SomeCreates
    BY <1>12, <2>1, HeadAlone DEF StartDecides, SomeCreates, Creating, TurnInv, Holding, Procs
  <2>3. CASE Recorded(Message(p)) /\ pc' = [pc EXCEPT ![p] = "duplicate"]
    <3>1. p \in Runs /\ Succeeds(p) => running # None
      BY <2>2, <2>3, SuccessorIsNew
    <3> QED BY <2>1, <2>3, <3>1, HolderMoves DEF HandledLabels, BoundLabels, Creating
  <2>4. CASE running # None /\ pc' = [pc EXCEPT ![p] = "refused"]
    BY <2>1, <2>4, HolderMoves DEF HandledLabels, BoundLabels, Creating
  <2>5. CASE pc' = [pc EXCEPT ![p] = "create"]
    BY <2>1, <2>5, HolderMoves DEF HandledLabels, BoundLabels, Creating
  <2> QED BY <1>12, <2>3, <2>4, <2>5 DEF StartDecides, Leave, Keep, Go
<1>13. ASSUME NEW p \in Senders \cup Runs, Created(p) PROVE QueueInv'
  <2>1. PICK g \in Runs : /\ input[g] = None /\ record' = [record EXCEPT ![g] = "running"]
                          /\ input' = [input EXCEPT ![g] = Message(p)]
                          /\ genId' = g /\ about' = [about EXCEPT ![p] = g]
    BY <1>13 DEF Created
  <2>2. /\ pc[p] = "create" /\ pc' = [pc EXCEPT ![p] = "launch"] /\ Message(p) \notin Queued
        /\ running = None /\ UNCHANGED <<binding, running, activeMsg, liveMsgs, queue, next>>
    BY <1>13 DEF Created, Inside, Keep, Go, QueueInv, HandledFresh, HandledLabels, TurnInv,
      OneAtATime, Creating, Procs
  <2>3. \A q \in Procs : q # p => pc[q] \notin Holding
    BY <1>13, HeadAlone DEF Created, TurnInv, Procs
  <2>4. \A m : Recorded(m)' => Recorded(m) \/ m = Message(p)
    BY <2>1 DEF Recorded, Types, TData
  <2>5. Queued' = Queued /\ QueuedOnce'
    BY <2>2 DEF Queued, QueuedOnce, QueueInv
  <2>6. HandledFresh'
    BY <2>2, <2>5 DEF HandledFresh, QueueInv, HandledLabels, Message, Types, TLocks, Procs
  <2>7. QueuedNew'
    BY <2>2, <2>4, <2>5 DEF QueuedNew, QueueInv
  <2>8. Current'
    BY <2>1, <2>2, <2>3, ConversationAssumption
    DEF Current, QueueInv, Holding, Types, TLocks, TRequests, Procs
  <2>9. Bound'
    BY <2>2 DEF Bound, BoundLabels, QueueInv, Types, TLocks, Procs
  <2>10. Followed'
    <3> SUFFICES ASSUME queue # <<>> PROVE \E h \in Runs : Succeeds(h)'
      BY <2>2 DEF Followed
    <3>1. PICK h \in Runs : Succeeds(h)
      BY <2>2 DEF QueueInv, Followed
    <3>2. SomeCreates' /\ p \in Procs /\ pc'[p] \in Creating
      BY <2>2 DEF SomeCreates, Creating, Types, TLocks, Procs
    <3>3. pc'[h] \in Creating \/ pc'[h] \in SucceedLabels
      BY <2>2, <3>1, <3>2 DEF Succeeds, Types, TLocks, Procs
    <3> QED BY <2>2, <3>1, <3>2, <3>3 DEF Succeeds
  <2> QED BY <2>5, <2>6, <2>7, <2>8, <2>9, <2>10 DEF QueueInv
<1>14. ASSUME NEW p \in Senders \cup Runs, Launched(p) PROVE QueueInv'
  <2>1. /\ pc[p] = "launch" /\ running' = about[p] /\ pc' = [pc EXCEPT ![p] = "started"]
        /\ UNCHANGED <<binding, genId, liveMsgs, queue, record, input, next, about>>
    BY <1>14 DEF Launched, Inside, Leave, Go, database, requests
  <2>2. about[p] \in Runs /\ genId = about[p] /\ about[p] # None
    BY <2>1, ConversationAssumption DEF QueueInv, Current, Procs
  <2>3. Queued' = Queued /\ QueuedOnce' /\ QueuedNew'
    BY <2>1 DEF Queued, QueuedOnce, QueuedNew, Recorded, QueueInv
  <2>4. HandledFresh'
    BY <2>1, <2>3 DEF HandledFresh, QueueInv, HandledLabels, Message, Types, TLocks, Procs
  <2>5. Current'
    BY <2>1, <2>2 DEF Current, QueueInv, Types, TLocks
  <2>6. Bound'
    BY <2>1 DEF Bound, BoundLabels, QueueInv, Types, TLocks, Procs
  <2>7. Followed'
    BY <2>1, <2>2 DEF Followed
  <2> QED BY <2>3, <2>4, <2>5, <2>6, <2>7 DEF QueueInv
<1>15. ASSUME NEW p \in Senders \cup Runs, StartFails(p) PROVE QueueInv'
  BY <1>15 DEF StartFails
<1>16. ASSUME NEW g \in Runs, RowCreated(g) PROVE QueueInv'
  <2>1. KeepsLabels /\ KeepsBound /\ KeepsAbout
    BY <1>16 DEF RowCreated, requests, KeepsLabels, KeepsBound, KeepsAbout
  <2>2. KeepsQueue
    BY <1>16 DEF RowCreated, memory, requests, Recorded, KeepsQueue
  <2> QED BY <2>1, <2>2, KeepsStep DEF Keeps
<1>17. ASSUME NEW g \in Runs, KernelEnds(g) PROVE QueueInv'
  <2>1. KeepsLabels /\ KeepsBound /\ KeepsAbout
    BY <1>17 DEF KernelEnds, requests, KeepsLabels, KeepsBound, KeepsAbout
  <2>2. KeepsQueue
    BY <1>17 DEF KernelEnds, memory, requests, Recorded, KeepsQueue
  <2> QED BY <2>1, <2>2, KeepsStep DEF Keeps
<1>18. ASSUME NEW g \in Runs, Projected(g) PROVE QueueInv'
  <2>1. KeepsLabels /\ KeepsBound /\ KeepsAbout
    BY <1>18 DEF Projected, requests, KeepsLabels, KeepsBound, KeepsAbout
  <2>2. KeepsQueue
    BY <1>18 DEF Projected, Unprojected, memory, requests, Recorded, KeepsQueue
  <2> QED BY <2>1, <2>2, KeepsStep DEF Keeps
<1>19. ASSUME NEW g \in Runs, GenerationDone(g) PROVE QueueInv'
  <2>1. /\ running = g /\ running' = None /\ g # None /\ genId = g /\ binding
        /\ activeMsg' = None /\ liveMsgs' = {} /\ pc' = [pc EXCEPT ![g] = "publish"]
        /\ UNCHANGED <<binding, record, input, about>>
    BY <1>19, ConversationAssumption DEF GenerationDone, Go, database, QueueInv, Current, Bound
  <2>2. /\ queue' = IF queue = <<>> THEN queue ELSE Tail(queue)
        /\ next' = [next EXCEPT ![g] = IF queue = <<>> THEN None ELSE Head(queue)]
    BY <1>19, <2>1 DEF GenerationDone
  <2>3. Queued' \subseteq Queued /\ QueuedOnce' /\ \A m : Recorded(m)' <=> Recorded(m)
    BY <2>1, <2>2, QueueTaken DEF Queued, QueuedOnce, Recorded, QueueInv, Types, TMemory
  <2>4. QueuedNew'
    BY <2>3 DEF QueuedNew, QueueInv
  <2>5. HandledFresh'
    <3>1. \A p \in Senders \cup Runs : pc'[p] \in HandledLabels =>
            pc[p] \in HandledLabels /\ Message(p)' = Message(p)
      BY <2>1, <2>2 DEF HandledLabels, Message, Types, TLocks, TRequests, Procs
    <3> QED BY <2>3, <3>1 DEF HandledFresh, QueueInv
  <2>6. Current'
    <3>1. \A p \in Procs : pc[p] # "launch"
      BY <2>1 DEF TurnInv, OneAtATime, Creating
    <3> QED BY <2>1, <3>1 DEF Current, QueueInv, Types, TLocks
  <2>7. Bound'
    BY <2>1 DEF Bound, QueueInv, Types, TLocks
  <2>8. Followed'
    <3> SUFFICES ASSUME queue' # <<>> PROVE Succeeds(g)'
      BY DEF Followed
    <3>1. queue # <<>> /\ Head(queue) \in Queued /\ Head(queue) \notin Queued' /\ Head(queue) \in Messages
      BY <2>2, QueueTaken, HeadTailProperties DEF QueueInv, Types, TMemory
    <3>2. next'[g] = Head(queue) /\ next'[g] # None /\ pc'[g] = "publish"
      BY <2>1, <2>2, <3>1, ConversationAssumption DEF Types, TLocks, TRequests, Procs
    <3>3. ~Recorded(next[g])'
      BY <2>3, <3>1, <3>2 DEF QueuedNew, QueueInv
    <3> QED BY <3>1, <3>2, <3>3 DEF Succeeds, SucceedLabels
  <2> QED BY <2>3, <2>4, <2>5, <2>6, <2>7, <2>8 DEF QueueInv
<1>20. ASSUME NEW g \in Runs, Continued(g) PROVE QueueInv'
  <2>1. KeepsLabels /\ KeepsBound
    BY <1>20, KeepMoves, ConversationAssumption DEF Continued, Inside, HandledLabels,
      SucceedLabels, BoundLabels, Creating, Types, Procs, Callers
  <2>2. KeepsQueue
    BY <1>20 DEF Continued, memory, database, requests, Recorded, KeepsQueue
  <2>3. KeepsAbout
    BY <1>20, <2>1 DEF Continued, requests, KeepsAbout, KeepsLabels, Procs, Types, TRequests
  <2> QED BY <2>1, <2>2, <2>3, KeepsStep DEF Keeps
<1>21. ASSUME NEW c \in {"cancel", "close"}, CancelRunning(c) PROVE QueueInv'
  <2>1. KeepsLabels /\ KeepsBound
    BY <1>21, KeepMoves, ConversationAssumption DEF CancelRunning, Inside, HandledLabels,
      SucceedLabels, BoundLabels, Creating, Types, Procs, Callers
  <2>2. KeepsQueue
    BY <1>21 DEF CancelRunning, database, Recorded, KeepsQueue
  <2>3. KeepsAbout
    BY <1>21, <2>1 DEF CancelRunning, requests, KeepsAbout, KeepsLabels, Procs, Types, TRequests
  <2> QED BY <2>1, <2>2, <2>3, KeepsStep DEF Keeps
<1>22. ASSUME NEW c \in {"cancel", "close"}, CancelWaited(c) PROVE QueueInv'
  <2>1. KeepsLabels /\ KeepsBound
    BY <1>22, KeepMoves, ConversationAssumption DEF CancelWaited, Inside, HandledLabels,
      SucceedLabels, BoundLabels, Creating, Types, Procs, Callers
  <2>2. KeepsQueue
    BY <1>22 DEF CancelWaited, memory, database, requests, Recorded, KeepsQueue
  <2>3. KeepsAbout
    BY <1>22, <2>1 DEF CancelWaited, requests, KeepsAbout, KeepsLabels, Procs, Types, TRequests
  <2> QED BY <2>1, <2>2, <2>3, KeepsStep DEF Keeps
<1>23. ASSUME NEW c \in {"cancel", "close"}, CancelAbandons(c) PROVE QueueInv'
  <2>1. KeepsLabels /\ KeepsBound
    BY <1>23, KeepMoves, ConversationAssumption DEF CancelAbandons, Inside, HandledLabels,
      SucceedLabels, BoundLabels, Creating, Types, Procs, Callers
  <2>2. KeepsQueue
    BY <1>23 DEF CancelAbandons, memory, database, requests, Recorded, KeepsQueue
  <2>3. KeepsAbout
    BY <1>23, <2>1 DEF CancelAbandons, requests, KeepsAbout, KeepsLabels, Procs, Types, TRequests
  <2> QED BY <2>1, <2>2, <2>3, KeepsStep DEF Keeps
<1>24. ASSUME NEW c \in {"cancel", "close"}, CancelRows(c) PROVE QueueInv'
  <2>1. KeepsLabels /\ KeepsBound
    BY <1>24, KeepMoves, ConversationAssumption DEF CancelRows, Inside, HandledLabels,
      SucceedLabels, BoundLabels, Creating, Types, Procs, Callers
  <2>2. KeepsQueue
    BY <1>24 DEF CancelRows, memory, Recorded, KeepsQueue
  <2>3. KeepsAbout
    BY <1>24, <2>1 DEF CancelRows, requests, KeepsAbout, KeepsLabels, Procs, Types, TRequests
  <2> QED BY <2>1, <2>2, <2>3, KeepsStep DEF Keeps
<1>25. ASSUME NEW c \in {"cancel", "close"}, CancelRecords(c) PROVE QueueInv'
  <2>1. KeepsLabels /\ KeepsBound
    BY <1>25, KeepMoves, ConversationAssumption DEF CancelRecords, Inside, HandledLabels,
      SucceedLabels, BoundLabels, Creating, Types, Procs, Callers
  <2>4. \A g \in Runs : record'[g] # "none" => record[g] # "none"
    BY <1>25 DEF CancelRecords, Reconciled, Abandoned, Types, TData
  <2>2. KeepsQueue
    BY <1>25, <2>4 DEF CancelRecords, memory, requests, Recorded, KeepsQueue
  <2>3. KeepsAbout
    BY <1>25, <2>1 DEF CancelRecords, requests, KeepsAbout, KeepsLabels, Procs, Types, TRequests
  <2> QED BY <2>1, <2>2, <2>3, KeepsStep DEF Keeps
<1>26. CASE ConnectAsks
  <2>1. KeepsLabels /\ KeepsBound
    BY <1>26, KeepMoves, ConversationAssumption DEF ConnectAsks, Inside, HandledLabels,
      SucceedLabels, BoundLabels, Creating, Types, Procs, Callers
  <2>2. KeepsQueue
    BY <1>26 DEF ConnectAsks, memory, database, requests, Recorded, KeepsQueue
  <2>3. KeepsAbout
    BY <1>26, <2>1 DEF ConnectAsks, requests, KeepsAbout, KeepsLabels, Procs, Types, TRequests
  <2> QED BY <2>1, <2>2, <2>3, KeepsStep DEF Keeps
<1>27. CASE ConnectRecovers
  <2>1. KeepsLabels /\ KeepsBound
    BY <1>27, KeepMoves, ConversationAssumption DEF ConnectRecovers, Inside, HandledLabels,
      SucceedLabels, BoundLabels, Creating, Types, Procs, Callers
  <2>4. \A x \in Procs : pc[x] # "launch"
    BY <1>27, HeadAlone DEF ConnectRecovers, TurnInv, Holding, Procs, Callers
  <2>2. KeepsQueue
    BY <1>27, <2>4, RecoveryKeeps DEF ConnectRecovers, requests, KeepsQueue
  <2>3. KeepsAbout
    BY <1>27, <2>1 DEF ConnectRecovers, requests, KeepsAbout, KeepsLabels, Procs, Types, TRequests
  <2> QED BY <2>1, <2>2, <2>3, KeepsStep DEF Keeps
<1>28. CASE CrashAndRestart
  <2>1. /\ queue' = <<>> /\ running' = None /\ activeMsg' = None /\ liveMsgs' = {}
        /\ \A p \in Procs : pc'[p] \notin BoundLabels \cup HandledLabels \cup {"post", "launch"}
    BY <1>28 DEF CrashAndRestart, Forgotten, BoundLabels, HandledLabels
  <2>2. QueuedOnce' /\ QueuedNew' /\ HandledFresh' /\ Followed'
    BY <2>1, QueueEmptied DEF QueuedNew, HandledFresh, Followed, Procs
  <2>3. Current' /\ Bound'
    BY <2>1 DEF Current, Bound
  <2> QED BY <2>2, <2>3 DEF QueueInv
<1> QED
  BY <1>1, <1>2, <1>3, <1>4, <1>5, <1>6, <1>7, <1>8, <1>9, <1>10, <1>11,
    <1>12, <1>13, <1>14, <1>15, <1>16, <1>17, <1>18, <1>19, <1>20, <1>21,
    <1>22, <1>23, <1>24, <1>25, <1>26, <1>27, <1>28 DEF Next, SendStep,
    StartStep, RunStep, CancelArrives, CancelProceeds, CloseStep

(* QueueInv holds in every state.                                          *)
LEMMA QueueInvariant ==
  ASSUME ~Closes, ~Collaborative, ~Faults
  PROVE  Spec => [](Types /\ QueueInv)
<1>1. Init => QueueInv
  <2> SUFFICES ASSUME Init PROVE QueueInv
    OBVIOUS
  <2>1. Queued = {} /\ QueuedOnce
    BY DEF Init, Queued, QueuedOnce
  <2>2. HandledFresh /\ QueuedNew /\ Followed
    BY <2>1 DEF Init, HandledFresh, QueuedNew, Followed
  <2>3. Current /\ Bound
    BY DEF Init, Current, Bound, BoundLabels
  <2> QED BY <2>1, <2>2, <2>3 DEF QueueInv
<1>2. Types /\ TurnInv /\ StartsWithInput /\ QueueInv /\ [Next]_vars => QueueInv'
  BY QueueStep
<1> QED BY <1>1, <1>2, TurnInvariant, StartsInvariant, PTL DEF Spec

(* Queued inputs do not strand: while some are queued, a Run is active or  *)
(* a finished one is about to start the next, unless inputs are injected,  *)
(* the conversation is deleted or a journal or a database call fails: the  *)
(* next is taken when a Run ends (conversation_run_manager.py:645-668).    *)
THEOREM NoInputStrands ==
  ASSUME ~Closes, ~Collaborative, ~Faults
  PROVE  Spec => []QueueServed
<1>1. Types /\ QueueInv => QueueServed
  BY DEF QueueInv, Followed, Succeeds, QueueServed, Continuing, Creating, SucceedLabels
<1> QED BY <1>1, QueueInvariant, PTL

(* On a day without injection, deletion, faults or crash both halves hold: *)
(* no input is run twice and none is left in the queue, whoever sends it   *)
(* again, cancels or reconnects (conversation_run_manager.py:734-761,      *)
(* 997-1048).                                                              *)
THEOREM InputsAreServedOnce ==
  ASSUME ~Closes, ~Collaborative, ~Faults, ~Crashes
  PROVE  Spec => []InputsServedOnce
<1>1. AtMostOnce /\ QueueServed => InputsServedOnce
  BY DEF InputsServedOnce
<1> QED BY <1>1, ServedOnceIfSentAgain, NoInputStrands, PTL
=============================================================================
