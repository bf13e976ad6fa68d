---------------------- MODULE AsyncSessionLoggerProofs ----------------------
(***************************************************************************)
(* Proofs about AsyncSessionLogger, for every queue capacity and every     *)
(* bound on sessions and offers.                                           *)
(***************************************************************************)
EXTENDS AsyncSessionLogger, SequenceTheorems, TLAPS

(* A worker belongs to a session, and start() goes on to its Spawn only    *)
(* while the bound on sessions allows one more.                            *)
SessionInv ==
  /\ worker # "none" => session # 0
  /\ caller = "restarting" => session < MaxSessions

-----------------------------------------------------------------------------
(* Type correctness, one part of TypeOK at a time *)

(* Program counters, flags and the session number keep their types. *)
LEMMA ControlTypeStep ==
  ASSUME ControlTypeOK, SessionInv, [Next]_vars
  PROVE  ControlTypeOK' /\ SessionInv'
<1> USE MaxSessionsAssumption
        DEF ControlTypeOK, SessionInv, Sessions, CallerPC, StartupPC, LoopPC, FinishPC,
            WorkerPC, controlVars, flagVars, healthVars, localVars, historyVars, reportVars
<1>1. CASE Start
  BY <1>1 DEF Start, RequestStop, WakeWorker
<1>2. CASE Spawn
  <2>1. session' \in 0 .. MaxSessions /\ session' # 0
    BY <1>2 DEF Spawn
  <2>2. QED
    BY <1>2, <2>1 DEF Spawn, Joinable
<1>3. CASE AwaitStartup
  BY <1>3 DEF AwaitStartup
<1>4. CASE Close
  BY <1>4 DEF Close, RequestStop, WakeWorker
<1>5. CASE Join
  BY <1>5 DEF Join, Joinable
<1>6. ASSUME NEW kind \in Kinds, Enqueue(kind) PROVE ControlTypeOK' /\ SessionInv'
  BY <1>6 DEF Enqueue, Offered, WakeWorker
<1>7. ASSUME NEW kind \in Kinds, DropWhenFull(kind) PROVE ControlTypeOK' /\ SessionInv'
  BY <1>7 DEF DropWhenFull, Offered
<1>8. CASE TakeDroppedRecordCount
  BY <1>8 DEF TakeDroppedRecordCount
<1>9. CASE TakeWorkerError
  BY <1>9 DEF TakeWorkerError
<1>10. CASE CreateMarker
  BY <1>10 DEF CreateMarker
<1>11. CASE OpenRaw
  BY <1>11 DEF OpenRaw
<1>12. CASE OpenMdf
  BY <1>12 DEF OpenMdf
<1>13. CASE Publish
  BY <1>13 DEF Publish
<1>14. CASE TakeRecord
  BY <1>14 DEF TakeRecord
<1>15. CASE WaitForWork
  BY <1>15 DEF WaitForWork
<1>16. CASE WaitTimeout
  BY <1>16 DEF WaitTimeout
<1>17. CASE WriteRecord
  BY <1>17 DEF WriteRecord
<1>18. CASE PeriodicFlush
  BY <1>18, ZenonT(30) DEF PeriodicFlush, FlushRaw
<1>19. CASE StopDraining
  BY <1>19 DEF StopDraining
<1>20. CASE FinalFlush
  <2>1. PICK ok \in BOOLEAN : FlushRaw(ok) /\ finalized' = ok
    BY <1>20 DEF FinalFlush
  <2>2. finalized' \in BOOLEAN /\ workerError' \in BOOLEAN
    BY <2>1 DEF FlushRaw
  <2>3. QED
    BY <1>20, <2>2 DEF FinalFlush
<1>21. CASE FinalizeMdf
  <2>1. PICK ok \in BOOLEAN :
          finalized' = (finalized /\ ok) /\ workerError' = (workerError \/ ~ok)
    BY <1>21 DEF FinalizeMdf
  <2>2. finalized' \in BOOLEAN /\ workerError' \in BOOLEAN
    BY <2>1
  <2>3. QED
    BY <1>21, <2>2 DEF FinalizeMdf
<1>22. CASE RemoveMarker
  BY <1>22, ZenonT(30) DEF RemoveMarker
<1>23. CASE Leave
  BY <1>23 DEF Leave
<1>24. CASE Crash
  <2>1. session \in Sessions
    BY <1>24 DEF Crash
  <2>2. crashed' \in SUBSET Sessions
    BY <1>24, <2>1 DEF Crash
  <2>3. QED
    BY <1>24, <2>2 DEF Crash
<1>25. CASE UNCHANGED vars
  BY <1>25 DEF vars
<1>26. QED
  BY <1>1, <1>2, <1>3, <1>4, <1>5, <1>6, <1>7, <1>8, <1>9, <1>10, <1>11, <1>12,
     <1>13, <1>14, <1>15, <1>16, <1>17, <1>18, <1>19, <1>20, <1>21, <1>22, <1>23,
     <1>24, <1>25
     DEF Next, CallerStep, WorkerStep

(* The queue stays within its capacity and holds records. *)
LEMMA QueueTypeStep ==
  ASSUME QueueTypeOK, ControlTypeOK, [Next]_vars
  PROVE  QueueTypeOK'
<1> USE CapacityAssumption, MaxOffersAssumption
        DEF QueueTypeOK, controlVars, flagVars, healthVars, localVars, historyVars, reportVars
<1>1. CASE Start
  BY <1>1 DEF Start, RequestStop, WakeWorker
<1>2. CASE Spawn
  BY <1>2 DEF Spawn, Joinable
<1>3. CASE AwaitStartup
  BY <1>3 DEF AwaitStartup
<1>4. CASE Close
  BY <1>4 DEF Close, RequestStop, WakeWorker
<1>5. CASE Join
  BY <1>5 DEF Join, Joinable
<1>6. ASSUME NEW kind \in Kinds, Enqueue(kind) PROVE QueueTypeOK'
  <2> DEFINE record == [kind |-> kind, n |-> offers + 1]
  <2>1. record \in Record /\ offers' \in 0 .. MaxOffers
    BY <1>6 DEF Enqueue, Offered, Record
  <2>2. queue' \in Seq(Record) /\ Len(queue') = Len(queue) + 1 /\ Len(queue) \in Nat
    <3>1. queue' = Append(queue, record)
      BY <1>6 DEF Enqueue
    <3> HIDE DEF record
    <3>2. QED
      BY <2>1, <3>1
  <2>3. Len(queue') <= Capacity
    <3>1. Len(queue) < Capacity
      BY <1>6 DEF Enqueue, QueueFull
    <3>2. QED
      BY <2>2, <3>1
  <2>4. hand' = hand /\ (worker' = "write" <=> worker = "write")
    BY <1>6 DEF Enqueue, WakeWorker
  <2>5. UNCHANGED <<dropped, drops, reportedDrops>>
    BY <1>6 DEF Enqueue
  <2> HIDE DEF record
  <2>6. QED
    BY <2>1, <2>2, <2>3, <2>4, <2>5
<1>7. ASSUME NEW kind \in Kinds, DropWhenFull(kind) PROVE QueueTypeOK'
  BY <1>7 DEF DropWhenFull, Offered
<1>8. CASE TakeDroppedRecordCount
  BY <1>8 DEF TakeDroppedRecordCount
<1>9. CASE TakeWorkerError
  BY <1>9 DEF TakeWorkerError
<1>10. CASE CreateMarker
  BY <1>10 DEF CreateMarker
<1>11. CASE OpenRaw
  BY <1>11 DEF OpenRaw
<1>12. CASE OpenMdf
  BY <1>12 DEF OpenMdf, CloseRaw
<1>13. CASE Publish
  BY <1>13 DEF Publish
<1>14. CASE TakeRecord
  <2>1. queue' \in Seq(Record) /\ Len(queue') = Len(queue) - 1 /\ Head(queue) \in Record
    BY <1>14, HeadTailProperties DEF TakeRecord
  <2>2. hand' \in {<<r>> : r \in Record} /\ hand' # <<>>
    BY <1>14, <2>1 DEF TakeRecord
  <2>3. QED
    BY <1>14, <2>1, <2>2 DEF TakeRecord
<1>15. CASE WaitForWork
  BY <1>15 DEF WaitForWork
<1>16. CASE WaitTimeout
  BY <1>16 DEF WaitTimeout
<1>17. CASE WriteRecord
  BY <1>17 DEF WriteRecord
<1>18. CASE PeriodicFlush
  BY <1>18 DEF PeriodicFlush, FlushRaw
<1>19. CASE StopDraining
  BY <1>19 DEF StopDraining
<1>20. CASE FinalFlush
  BY <1>20 DEF FinalFlush, FlushRaw
<1>21. CASE FinalizeMdf
  BY <1>21 DEF FinalizeMdf, CloseRaw
<1>22. CASE RemoveMarker
  BY <1>22 DEF RemoveMarker
<1>23. CASE Leave
  BY <1>23 DEF Leave
<1>24. CASE Crash
  <2>1. queue' \in Seq(Record) /\ Len(queue') = 0
    BY <1>24, EmptySeq DEF Crash
  <2>2. QED
    BY <1>24, <2>1 DEF Crash
<1>25. CASE UNCHANGED vars
  BY <1>25 DEF vars
<1>26. QED
  BY <1>1, <1>2, <1>3, <1>4, <1>5, <1>6, <1>7, <1>8, <1>9, <1>10, <1>11, <1>12,
     <1>13, <1>14, <1>15, <1>16, <1>17, <1>18, <1>19, <1>20, <1>21, <1>22, <1>23,
     <1>24, <1>25
     DEF Next, CallerStep, WorkerStep

(* The files of each session stay in their states. *)
LEMMA DiskTypeStep ==
  ASSUME DiskTypeOK, [Next]_vars
  PROVE  DiskTypeOK'
<1> USE DEF DiskTypeOK, diskVars
<1>1. CASE Start
  BY <1>1 DEF Start
<1>2. CASE Spawn
  BY <1>2 DEF Spawn
<1>3. CASE AwaitStartup
  BY <1>3 DEF AwaitStartup
<1>4. CASE Close
  BY <1>4 DEF Close
<1>5. CASE Join
  BY <1>5 DEF Join
<1>6. ASSUME NEW kind \in Kinds, Enqueue(kind) PROVE DiskTypeOK'
  BY <1>6 DEF Enqueue
<1>7. ASSUME NEW kind \in Kinds, DropWhenFull(kind) PROVE DiskTypeOK'
  BY <1>7 DEF DropWhenFull
<1>8. CASE TakeDroppedRecordCount
  BY <1>8 DEF TakeDroppedRecordCount
<1>9. CASE TakeWorkerError
  BY <1>9 DEF TakeWorkerError
<1>10. CASE CreateMarker
  <2>1. PICK created \in BOOLEAN : marker' = [marker EXCEPT ![session] = created]
    BY <1>10 DEF CreateMarker
  <2>2. marker' \in [Sessions -> BOOLEAN]
    BY <2>1
  <2>3. QED
    BY <1>10, <2>2 DEF CreateMarker
<1>11. CASE OpenRaw
  BY <1>11 DEF OpenRaw
<1>12. CASE OpenMdf
  BY <1>12 DEF OpenMdf, CloseRaw
<1>13. CASE Publish
  BY <1>13 DEF Publish
<1>14. CASE TakeRecord
  BY <1>14 DEF TakeRecord
<1>15. CASE WaitForWork
  BY <1>15 DEF WaitForWork
<1>16. CASE WaitTimeout
  BY <1>16 DEF WaitTimeout
<1>17. CASE WriteRecord
  BY <1>17 DEF WriteRecord
<1>18. CASE PeriodicFlush
  BY <1>18 DEF PeriodicFlush, FlushRaw
<1>19. CASE StopDraining
  BY <1>19 DEF StopDraining
<1>20. CASE FinalFlush
  BY <1>20 DEF FinalFlush, FlushRaw
<1>21. CASE FinalizeMdf
  BY <1>21 DEF FinalizeMdf, CloseRaw
<1>22. CASE RemoveMarker
  BY <1>22 DEF RemoveMarker
<1>23. CASE Leave
  BY <1>23 DEF Leave
<1>24. CASE Crash
  BY <1>24 DEF Crash
<1>25. CASE UNCHANGED vars
  BY <1>25 DEF vars
<1>26. QED
  BY <1>1, <1>2, <1>3, <1>4, <1>5, <1>6, <1>7, <1>8, <1>9, <1>10, <1>11, <1>12,
     <1>13, <1>14, <1>15, <1>16, <1>17, <1>18, <1>19, <1>20, <1>21, <1>22, <1>23,
     <1>24, <1>25
     DEF Next, CallerStep, WorkerStep

(* The history stays a pair of sequences for each session. *)
LEMMA HistoryTypeStep ==
  ASSUME HistoryTypeOK, QueueTypeOK, ControlTypeOK, [Next]_vars
  PROVE  HistoryTypeOK'
<1>1. CASE Start
  BY <1>1 DEF Start, HistoryTypeOK, historyVars
<1>2. CASE Spawn
  BY <1>2 DEF Spawn, HistoryTypeOK, historyVars
<1>3. CASE AwaitStartup
  BY <1>3 DEF AwaitStartup, HistoryTypeOK, historyVars
<1>4. CASE Close
  BY <1>4 DEF Close, HistoryTypeOK, historyVars
<1>5. CASE Join
  BY <1>5 DEF Join, HistoryTypeOK, historyVars
<1>6. ASSUME NEW kind \in Kinds, Enqueue(kind) PROVE HistoryTypeOK'
  <2> DEFINE record == [kind |-> kind, n |-> offers + 1]
  <2>1. record \in Record
    BY <1>6, MaxOffersAssumption DEF Enqueue, Offered, Record, QueueTypeOK
  <2>2. accepted' = [accepted EXCEPT ![session] = Append(@, record)] /\ settled' = settled
    BY <1>6 DEF Enqueue
  <2> HIDE DEF record
  <2>3. ASSUME NEW s \in Sessions PROVE Append(accepted[s], record) \in Seq(Record)
    BY <2>1 DEF HistoryTypeOK
  <2>4. QED
    BY <2>2, <2>3 DEF HistoryTypeOK
<1>7. ASSUME NEW kind \in Kinds, DropWhenFull(kind) PROVE HistoryTypeOK'
  BY <1>7 DEF DropWhenFull, HistoryTypeOK, historyVars
<1>8. CASE TakeDroppedRecordCount
  BY <1>8 DEF TakeDroppedRecordCount, HistoryTypeOK, historyVars
<1>9. CASE TakeWorkerError
  BY <1>9 DEF TakeWorkerError, HistoryTypeOK, historyVars
<1>10. CASE CreateMarker
  BY <1>10 DEF CreateMarker, HistoryTypeOK, historyVars
<1>11. CASE OpenRaw
  BY <1>11 DEF OpenRaw, HistoryTypeOK, historyVars
<1>12. CASE OpenMdf
  BY <1>12 DEF OpenMdf, HistoryTypeOK, historyVars
<1>13. CASE Publish
  BY <1>13 DEF Publish, HistoryTypeOK, historyVars
<1>14. CASE TakeRecord
  BY <1>14 DEF TakeRecord, HistoryTypeOK, historyVars
<1>15. CASE WaitForWork
  BY <1>15 DEF WaitForWork, HistoryTypeOK, historyVars
<1>16. CASE WaitTimeout
  BY <1>16 DEF WaitTimeout, HistoryTypeOK, historyVars
<1>17. CASE WriteRecord
  <2>1. Head(hand) \in Record
    BY <1>17 DEF WriteRecord, QueueTypeOK
  <2>2. PICK ok \in BOOLEAN : settled' = [settled EXCEPT ![session] =
                                  Append(@, [record |-> Head(hand), ok |-> ok])]
    BY <1>17 DEF WriteRecord
  <2> DEFINE outcome == [record |-> Head(hand), ok |-> ok]
  <2>3. outcome \in Outcome
    BY <2>1 DEF Outcome
  <2>4. settled' = [settled EXCEPT ![session] = Append(@, outcome)] /\ accepted' = accepted
    BY <1>17, <2>2 DEF WriteRecord
  <2> HIDE DEF outcome
  <2>5. ASSUME NEW s \in Sessions PROVE Append(settled[s], outcome) \in Seq(Outcome)
    BY <2>3 DEF HistoryTypeOK
  <2>6. QED
    BY <2>4, <2>5 DEF HistoryTypeOK
<1>18. CASE PeriodicFlush
  BY <1>18 DEF PeriodicFlush, HistoryTypeOK, historyVars
<1>19. CASE StopDraining
  BY <1>19 DEF StopDraining, HistoryTypeOK, historyVars
<1>20. CASE FinalFlush
  BY <1>20 DEF FinalFlush, HistoryTypeOK, historyVars
<1>21. CASE FinalizeMdf
  BY <1>21 DEF FinalizeMdf, HistoryTypeOK, historyVars
<1>22. CASE RemoveMarker
  BY <1>22 DEF RemoveMarker, HistoryTypeOK, historyVars
<1>23. CASE Leave
  BY <1>23 DEF Leave, HistoryTypeOK, historyVars
<1>24. CASE Crash
  BY <1>24 DEF Crash, HistoryTypeOK, historyVars
<1>25. CASE UNCHANGED vars
  BY <1>25 DEF vars, HistoryTypeOK, historyVars
<1>26. QED
  BY <1>1, <1>2, <1>3, <1>4, <1>5, <1>6, <1>7, <1>8, <1>9, <1>10, <1>11, <1>12,
     <1>13, <1>14, <1>15, <1>16, <1>17, <1>18, <1>19, <1>20, <1>21, <1>22, <1>23,
     <1>24, <1>25
     DEF Next, CallerStep, WorkerStep

(* The initial state is typed. *)
LEMMA InitType == Init => TypeOK /\ SessionInv
<1> SUFFICES ASSUME Init PROVE TypeOK /\ SessionInv
  OBVIOUS
<1>1. ControlTypeOK /\ SessionInv
  <2>1. session \in 0 .. MaxSessions /\ crashed \in SUBSET Sessions
    BY MaxSessionsAssumption DEF Init
  <2>2. SessionInv
    BY DEF Init, SessionInv
  <2>3. caller \in CallerPC /\ worker \in WorkerPC
    BY DEF Init, CallerPC, WorkerPC
  <2>4. QED
    BY <2>1, <2>2, <2>3 DEF Init, ControlTypeOK
<1>2. QueueTypeOK
  BY CapacityAssumption, MaxOffersAssumption, EmptySeq DEF Init, QueueTypeOK
<1>3. DiskTypeOK
  BY DEF Init, DiskTypeOK
<1>4. HistoryTypeOK
  BY EmptySeq DEF Init, HistoryTypeOK
<1>5. QED
  BY <1>1, <1>2, <1>3, <1>4 DEF TypeOK

(* Each step keeps all four parts of TypeOK. *)
LEMMA TypeStep ==
  ASSUME TypeOK, SessionInv, [Next]_vars
  PROVE  TypeOK' /\ SessionInv'
BY ControlTypeStep, QueueTypeStep, DiskTypeStep, HistoryTypeStep DEF TypeOK

(* Every variable keeps its type; the queue never exceeds its capacity and *)
(* the worker holds a record exactly while it is writing one.              *)
THEOREM TypeCorrect == Spec => []TypeOK
<1>1. Spec => [](TypeOK /\ SessionInv)
  BY InitType, TypeStep, PTL DEF Spec
<1>2. QED
  BY <1>1, PTL

-----------------------------------------------------------------------------
(* The inductive invariant behind the safety properties *)

(* How the program counters of the two threads, the shared flags and the   *)
(* queue hang together: records are accepted only while the worker is in   *)
(* its loop and nobody has asked it to stop, and the queue is empty        *)
(* whenever the worker is not in its loop.                                 *)
PhaseInv ==
  /\ worker \in StartupPC => caller \in {"starting", "sleeping"} /\ ~startupComplete
  /\ caller \in {"starting", "sleeping"} => ~stopRequested
  /\ accepting => worker \in LoopPC /\ ~stopRequested /\ workerStarted
  /\ worker \in {"none", "done"} => ~workerStarted
  /\ worker \notin LoopPC => queue = <<>>
  /\ caller = "idle" /\ stopRequested => worker = "none"
  /\ worker # "none" => session \notin crashed
  /\ \A s \in crashed : s <= session

(* What is on disk in each phase of the worker. *)
FileInv ==
  /\ \A s \in Sessions : s > session =>
       /\ accepted[s] = <<>> /\ settled[s] = <<>>
       /\ raw[s] = "absent" /\ mdf[s] = "absent"
  /\ worker = "mark" => raw[session] = "absent" /\ mdf[session] = "absent"
  /\ worker \in {"openRaw", "openMdf", "publish"} \cup LoopPC \cup FinishPC =>
       marker[session]
  /\ worker = "startFailed" =>
       marker[session] \/ (raw[session] = "absent" /\ mdf[session] = "absent")
  /\ worker = "finalizeMdf" /\ finalized => raw[session] # "dirty"
  /\ worker = "unmark" /\ finalized => raw[session] # "dirty" /\ mdf[session] = "final"

IInv ==
  /\ TypeOK /\ SessionInv
  /\ PhaseInv
  /\ FileInv
  /\ NothingLostInQueue
  /\ CompleteMeansFinal

(* Each step keeps the worker, the caller and the flags in step. *)
LEMMA PhaseStep ==
  ASSUME TypeOK, SessionInv, PhaseInv, [Next]_vars
  PROVE  PhaseInv'
<1> USE DEF PhaseInv, SessionInv, TypeOK, ControlTypeOK, StartupPC, LoopPC, FinishPC,
            controlVars, flagVars, healthVars, localVars, historyVars, reportVars
<1>1. CASE Start
  BY <1>1 DEF Start, RequestStop, WakeWorker
<1>2. CASE Spawn
  <2>1. session' = session + 1 /\ session \in Nat
    BY <1>2, MaxSessionsAssumption DEF Spawn
  <2>2. \A s \in crashed : s \in Nat /\ s <= session
    BY MaxSessionsAssumption DEF Sessions
  <2>3. session' \notin crashed' /\ \A s \in crashed' : s <= session'
    BY <1>2, <2>1, <2>2 DEF Spawn
  <2>4. QED
    BY <1>2, <2>3 DEF Spawn, Joinable
<1>3. CASE AwaitStartup
  BY <1>3 DEF AwaitStartup
<1>4. CASE Close
  BY <1>4 DEF Close, RequestStop, WakeWorker
<1>5. CASE Join
  BY <1>5 DEF Join, Joinable
<1>6. ASSUME NEW kind \in Kinds, Enqueue(kind) PROVE PhaseInv'
  BY <1>6 DEF Enqueue, Offered, WakeWorker
<1>7. ASSUME NEW kind \in Kinds, DropWhenFull(kind) PROVE PhaseInv'
  BY <1>7 DEF DropWhenFull, Offered
<1>8. CASE TakeDroppedRecordCount
  BY <1>8 DEF TakeDroppedRecordCount
<1>9. CASE TakeWorkerError
  BY <1>9 DEF TakeWorkerError
<1>10. CASE CreateMarker
  BY <1>10 DEF CreateMarker
<1>11. CASE OpenRaw
  BY <1>11 DEF OpenRaw
<1>12. CASE OpenMdf
  BY <1>12 DEF OpenMdf
<1>13. CASE Publish
  BY <1>13 DEF Publish
<1>14. CASE TakeRecord
  BY <1>14 DEF TakeRecord
<1>15. CASE WaitForWork
  BY <1>15 DEF WaitForWork
<1>16. CASE WaitTimeout
  BY <1>16 DEF WaitTimeout
<1>17. CASE WriteRecord
  BY <1>17 DEF WriteRecord
<1>18. CASE PeriodicFlush
  BY <1>18 DEF PeriodicFlush
<1>19. CASE StopDraining
  BY <1>19 DEF StopDraining
<1>20. CASE FinalFlush
  BY <1>20 DEF FinalFlush
<1>21. CASE FinalizeMdf
  BY <1>21 DEF FinalizeMdf
<1>22. CASE RemoveMarker
  BY <1>22 DEF RemoveMarker
<1>23. CASE Leave
  BY <1>23 DEF Leave
<1>24. CASE Crash
  BY <1>24 DEF Crash
<1>25. CASE UNCHANGED vars
  BY <1>25 DEF vars
<1>26. QED
  BY <1>1, <1>2, <1>3, <1>4, <1>5, <1>6, <1>7, <1>8, <1>9, <1>10, <1>11, <1>12,
     <1>13, <1>14, <1>15, <1>16, <1>17, <1>18, <1>19, <1>20, <1>21, <1>22, <1>23,
     <1>24, <1>25
     DEF Next, CallerStep, WorkerStep

(* Each step keeps the files in step with the phase of the worker. *)
LEMMA FileStep ==
  ASSUME TypeOK, SessionInv, PhaseInv, FileInv, [Next]_vars
  PROVE  FileInv'
<1> USE DEF FileInv, PhaseInv, SessionInv, TypeOK, ControlTypeOK, DiskTypeOK, HistoryTypeOK,
            Sessions, StartupPC, LoopPC, FinishPC, diskVars,
            controlVars, flagVars, healthVars, localVars, historyVars, reportVars
<1>1. CASE Start
  BY <1>1 DEF Start, RequestStop, WakeWorker
<1>2. CASE Spawn
  <2>1. session' = session + 1 /\ session \in Nat /\ session' \in Sessions
    BY <1>2, MaxSessionsAssumption DEF Spawn
  <2>2. worker' = "mark" /\ UNCHANGED <<diskVars, accepted, settled>>
    BY <1>2 DEF Spawn
  <2>3. \A s \in Sessions : s > session' => s > session
    BY <2>1, MaxSessionsAssumption
  <2>4. session' > session
    BY <2>1
  <2>5. QED
    BY <2>1, <2>2, <2>3, <2>4
<1>3. CASE AwaitStartup
  BY <1>3 DEF AwaitStartup
<1>4. CASE Close
  BY <1>4 DEF Close, RequestStop, WakeWorker
<1>5. CASE Join
  BY <1>5 DEF Join, Joinable
<1>6. ASSUME NEW kind \in Kinds, Enqueue(kind) PROVE FileInv'
  BY <1>6 DEF Enqueue, Offered, WakeWorker
<1>7. ASSUME NEW kind \in Kinds, DropWhenFull(kind) PROVE FileInv'
  BY <1>7 DEF DropWhenFull, Offered
<1>8. CASE TakeDroppedRecordCount
  BY <1>8 DEF TakeDroppedRecordCount
<1>9. CASE TakeWorkerError
  BY <1>9 DEF TakeWorkerError
<1>10. CASE CreateMarker
  BY <1>10 DEF CreateMarker
<1>11. CASE OpenRaw
  <2>1. session \in Sessions /\ ~(session > session) /\ marker[session]
    BY <1>11, MaxSessionsAssumption DEF OpenRaw
  <2>2. worker' \in {"openMdf", "startFailed"} /\ session' = session
        /\ UNCHANGED <<marker, mdf, accepted, settled>>
    BY <1>11 DEF OpenRaw
  <2>3. \A s \in Sessions : s # session => raw'[s] = raw[s]
    BY <1>11 DEF OpenRaw
  <2>4. QED
    BY <2>1, <2>2, <2>3
<1>12. CASE OpenMdf
  <2>1. session \in Sessions /\ ~(session > session) /\ marker[session]
    BY <1>12, MaxSessionsAssumption DEF OpenMdf
  <2>2. worker' \in {"publish", "startFailed"} /\ session' = session
        /\ UNCHANGED <<marker, accepted, settled>>
    BY <1>12 DEF OpenMdf
  <2>3. \A s \in Sessions : s # session => raw'[s] = raw[s] /\ mdf'[s] = mdf[s]
    BY <1>12 DEF OpenMdf, CloseRaw
  <2>4. QED
    BY <2>1, <2>2, <2>3
<1>13. CASE Publish
  BY <1>13 DEF Publish
<1>14. CASE TakeRecord
  BY <1>14 DEF TakeRecord
<1>15. CASE WaitForWork
  BY <1>15 DEF WaitForWork
<1>16. CASE WaitTimeout
  BY <1>16 DEF WaitTimeout
<1>17. CASE WriteRecord
  BY <1>17 DEF WriteRecord
<1>18. CASE PeriodicFlush
  BY <1>18 DEF PeriodicFlush, FlushRaw
<1>19. CASE StopDraining
  BY <1>19 DEF StopDraining
<1>20. CASE FinalFlush
  BY <1>20 DEF FinalFlush, FlushRaw
<1>21. CASE FinalizeMdf
  <2>1. session \in Sessions /\ ~(session > session) /\ marker[session]
    BY <1>21, MaxSessionsAssumption DEF FinalizeMdf
  <2>2. worker' = "unmark" /\ session' = session /\ UNCHANGED <<marker, accepted, settled>>
    BY <1>21 DEF FinalizeMdf
  <2>3. \A s \in Sessions : s # session => raw'[s] = raw[s] /\ mdf'[s] = mdf[s]
    BY <1>21 DEF FinalizeMdf, CloseRaw
  <2>4. finalized' => finalized /\ mdf'[session] = "final"
    BY <1>21, <2>1 DEF FinalizeMdf
  <2>5. finalized => raw'[session] # "dirty"
    BY <1>21, <2>1 DEF FinalizeMdf, CloseRaw
  <2>6. QED
    BY <2>1, <2>2, <2>3, <2>4, <2>5
<1>22. CASE RemoveMarker
  BY <1>22 DEF RemoveMarker
<1>23. CASE Leave
  BY <1>23 DEF Leave
<1>24. CASE Crash
  BY <1>24 DEF Crash
<1>25. CASE UNCHANGED vars
  BY <1>25 DEF vars
<1>26. QED
  BY <1>1, <1>2, <1>3, <1>4, <1>5, <1>6, <1>7, <1>8, <1>9, <1>10, <1>11, <1>12,
     <1>13, <1>14, <1>15, <1>16, <1>17, <1>18, <1>19, <1>20, <1>21, <1>22, <1>23,
     <1>24, <1>25
     DEF Next, CallerStep, WorkerStep

-----------------------------------------------------------------------------
(* Conservation of records *)

(* The records of a sequence of outcomes are a sequence of records.        *)
LEMMA RecordsType ==
  ASSUME NEW outcomes \in Seq(Outcome)
  PROVE  Records(outcomes) \in Seq(Record) /\ Len(Records(outcomes)) = Len(outcomes)
<1>1. \A o \in Outcome : o.record \in Record
  BY DEF Outcome
<1>2. \A i \in 1 .. Len(outcomes) : outcomes[i].record \in Record
  BY <1>1
<1>3. Len(outcomes) \in Nat
  OBVIOUS
<1>4. QED
  BY <1>2, <1>3, LenProperties DEF Records

(* Settling one more outcome extends the settled records by its record.    *)
LEMMA RecordsAppend ==
  ASSUME NEW outcomes \in Seq(Outcome), NEW outcome \in Outcome
  PROVE  Records(Append(outcomes, outcome)) = Append(Records(outcomes), outcome.record)
<1> DEFINE longer == Append(outcomes, outcome)
           left == Records(longer)
           right == Append(Records(outcomes), outcome.record)
<1>1. \A o \in Outcome : o.record \in Record
  BY DEF Outcome
<1>2. Records(outcomes) \in Seq(Record) /\ Len(Records(outcomes)) = Len(outcomes)
  BY RecordsType
<1>3. /\ longer \in Seq(Outcome)
      /\ Len(longer) = Len(outcomes) + 1
      /\ longer[Len(outcomes) + 1] = outcome
      /\ \A i \in 1 .. Len(outcomes) : longer[i] = outcomes[i]
  BY AppendProperties
<1>4. left \in Seq(Record) /\ Len(left) = Len(longer)
  BY <1>3, RecordsType
<1>5. /\ right \in Seq(Record)
      /\ Len(right) = Len(outcomes) + 1
      /\ right[Len(outcomes) + 1] = outcome.record
      /\ \A i \in 1 .. Len(outcomes) : right[i] = outcomes[i].record
  <2>1. outcome.record \in Record
    BY <1>1
  <2>2. \A i \in 1 .. Len(outcomes) : Records(outcomes)[i] = outcomes[i].record
    BY DEF Records
  <2> HIDE DEF Records
  <2>3. QED
    BY <2>1, <2>2, <1>2, AppendProperties
<1>6. ASSUME NEW i \in 1 .. Len(outcomes) + 1 PROVE left[i] = right[i]
  <2>1. left[i] = longer[i].record
    BY <1>3 DEF Records
  <2>2. CASE i = Len(outcomes) + 1
    BY <2>1, <2>2, <1>3, <1>5
  <2>3. CASE i # Len(outcomes) + 1
    <3>1. i \in 1 .. Len(outcomes)
      BY <2>3
    <3>2. QED
      BY <2>1, <3>1, <1>3, <1>5
  <2>4. QED
    BY <2>2, <2>3
<1> HIDE DEF left, right, longer
<1>7. left = right
  BY <1>3, <1>4, <1>5, <1>6, SeqEqual
<1>8. QED
  BY <1>7 DEF left, right, longer

(* The three ways a record moves keep written \o hand \o queue: in at the  *)
(* back of the queue, from its front to the hand, from the hand to what is *)
(* written.                                                                *)
LEMMA ConcatMoves ==
  ASSUME NEW w \in Seq(Record), NEW h \in Seq(Record), NEW q \in Seq(Record), NEW r \in Record
  PROVE  /\ w \o h \o Append(q, r) = Append(w \o h \o q, r)
         /\ q # <<>> => w \o <<>> \o q = w \o <<Head(q)>> \o Tail(q)
         /\ w \o <<r>> \o q = Append(w, r) \o <<>> \o q
<1>1. w \o h \o Append(q, r) = Append(w \o h \o q, r)
  BY ConcatProperties, AppendProperties, AppendIsConcat, ConcatAssociative
<1>2. ASSUME q # <<>> PROVE w \o <<>> \o q = w \o <<Head(q)>> \o Tail(q)
  <2>1. q = <<Head(q)>> \o Tail(q) /\ Head(q) \in Record /\ Tail(q) \in Seq(Record)
    BY <1>2, HeadTailProperties, HeadTailAppend
  <2>2. <<Head(q)>> \in Seq(Record)
    BY <2>1
  <2>3. QED
    BY <2>1, <2>2, ConcatAssociative, ConcatEmptySeq, SMTT(30)
<1>3. w \o <<r>> \o q = Append(w, r) \o <<>> \o q
  BY AppendIsConcat, AppendProperties, ConcatEmptySeq
<1>4. QED
  BY <1>1, <1>2, <1>3

(* Each step moves a record along the queue, or leaves them all alone. *)
LEMMA NothingLostStep ==
  ASSUME TypeOK, SessionInv, PhaseInv, FileInv, NothingLostInQueue, [Next]_vars
  PROVE  NothingLostInQueue'
<1> USE DEF SessionInv, PhaseInv
<1>a. \A s \in Sessions : /\ Records(settled[s]) \in Seq(Record)
                          /\ \A o \in Outcome : Records(Append(settled[s], o))
                                                = Append(Records(settled[s]), o.record)
  BY RecordsType, RecordsAppend DEF TypeOK, HistoryTypeOK
<1>b. hand \in Seq(Record) /\ queue \in Seq(Record)
  <2>1. \A r \in Record : <<r>> \in Seq(Record)
    OBVIOUS
  <2>2. QED
    BY <2>1, EmptySeq DEF TypeOK, QueueTypeOK
<1>c. session # 0 => session \in Sessions
  BY MaxSessionsAssumption DEF TypeOK, ControlTypeOK, Sessions
<1>d. UNCHANGED <<session, crashed, accepted, settled, hand, queue>> => NothingLostInQueue'
  BY DEF NothingLostInQueue, Records
<1>1. CASE Start
  BY <1>1, <1>d DEF Start,
         controlVars, flagVars, healthVars, localVars, historyVars, reportVars, diskVars
<1>2. CASE Spawn
  <2>1. /\ session' = session + 1 /\ session' \in Sessions /\ session' > session
        /\ UNCHANGED <<accepted, settled, hand, queue>>
    BY <1>2, MaxSessionsAssumption DEF Spawn, TypeOK, ControlTypeOK, Sessions,
       localVars, historyVars
  <2>2. worker \in {"none", "done"} /\ worker \notin LoopPC /\ worker # "write"
    BY <1>2 DEF Spawn, Joinable, LoopPC
  <2>3. queue = <<>> /\ hand = <<>>
    BY <2>2 DEF TypeOK, QueueTypeOK
  <2>4. accepted[session'] = <<>> /\ settled[session'] = <<>>
    BY <2>1 DEF FileInv
  <2>5. Records(<<>>) = <<>>
    BY DEF Records
  <2>6. accepted'[session'] = Records(settled'[session']) \o hand' \o queue'
    BY <2>1, <2>3, <2>4, <2>5, ConcatEmptySeq, EmptySeq
  <2>7. QED
    BY <2>6 DEF NothingLostInQueue
<1>3. CASE AwaitStartup
  BY <1>3, <1>d DEF AwaitStartup,
         controlVars, flagVars, healthVars, localVars, historyVars, reportVars, diskVars
<1>4. CASE Close
  BY <1>4, <1>d DEF Close,
         controlVars, flagVars, healthVars, localVars, historyVars, reportVars, diskVars
<1>5. CASE Join
  BY <1>5, <1>d DEF Join,
         controlVars, flagVars, healthVars, localVars, historyVars, reportVars, diskVars
<1>6. ASSUME NEW kind \in Kinds, Enqueue(kind) PROVE NothingLostInQueue'
  <2> DEFINE record == [kind |-> kind, n |-> offers + 1]
  <2>1. record \in Record
    BY <1>6, MaxOffersAssumption DEF Enqueue, Offered, Record, TypeOK, QueueTypeOK
  <2>2. /\ accepted' = [accepted EXCEPT ![session] = Append(@, record)]
        /\ queue' = Append(queue, record)
        /\ UNCHANGED <<session, crashed, settled, hand>>
    BY <1>6 DEF Enqueue, localVars
  <2>3. accepting
    BY <1>6 DEF Enqueue, Offered
  <2>4. worker # "none" /\ session # 0 /\ session \in Sessions /\ session \notin crashed
    BY <2>3, <1>c DEF LoopPC
  <2>5. accepted[session] = Records(settled[session]) \o hand \o queue
    BY <2>4 DEF NothingLostInQueue
  <2> HIDE DEF record
  <2>6. accepted'[session] = Append(accepted[session], record)
    BY <2>2, <2>4 DEF TypeOK, HistoryTypeOK
  <2>7. Records(settled[session]) \o hand \o Append(queue, record)
        = Append(Records(settled[session]) \o hand \o queue, record)
    BY <1>a, <1>b, <2>1, <2>4, ConcatMoves
  <2>8. accepted'[session'] = Records(settled'[session']) \o hand' \o queue'
    BY <2>2, <2>5, <2>6, <2>7
  <2>9. QED
    BY <2>8 DEF NothingLostInQueue
<1>7. ASSUME NEW kind \in Kinds, DropWhenFull(kind) PROVE NothingLostInQueue'
  BY <1>7, <1>d DEF DropWhenFull,
         controlVars, flagVars, healthVars, localVars, historyVars, reportVars, diskVars
<1>8. CASE TakeDroppedRecordCount
  BY <1>8, <1>d DEF TakeDroppedRecordCount,
         controlVars, flagVars, healthVars, localVars, historyVars, reportVars, diskVars
<1>9. CASE TakeWorkerError
  BY <1>9, <1>d DEF TakeWorkerError,
         controlVars, flagVars, healthVars, localVars, historyVars, reportVars, diskVars
<1>10. CASE CreateMarker
  BY <1>10, <1>d DEF CreateMarker,
         controlVars, flagVars, healthVars, localVars, historyVars, reportVars, diskVars
<1>11. CASE OpenRaw
  BY <1>11, <1>d DEF OpenRaw,
         controlVars, flagVars, healthVars, localVars, historyVars, reportVars, diskVars
<1>12. CASE OpenMdf
  BY <1>12, <1>d DEF OpenMdf,
         controlVars, flagVars, healthVars, localVars, historyVars, reportVars, diskVars
<1>13. CASE Publish
  BY <1>13, <1>d DEF Publish,
         controlVars, flagVars, healthVars, localVars, historyVars, reportVars, diskVars
<1>14. CASE TakeRecord
  <2>1. /\ queue # <<>> /\ hand' = <<Head(queue)>> /\ queue' = Tail(queue)
        /\ worker = "run" /\ UNCHANGED <<session, crashed, accepted, settled>>
    BY <1>14 DEF TakeRecord, historyVars
  <2>2. hand = <<>> /\ session # 0 /\ session \in Sessions /\ session \notin crashed
    BY <2>1, <1>c DEF TypeOK, QueueTypeOK
  <2>3. accepted[session] = Records(settled[session]) \o <<>> \o queue
    BY <2>2 DEF NothingLostInQueue
  <2>4. accepted[session] = Records(settled[session]) \o hand' \o queue'
    <3>1. Head(queue) \in Record
      BY <1>b, <2>1, HeadTailProperties
    <3>2. QED
      BY <1>a, <1>b, <2>1, <2>2, <2>3, <3>1, ConcatMoves
  <2>5. QED
    BY <2>1, <2>4 DEF NothingLostInQueue
<1>15. CASE WaitForWork
  BY <1>15, <1>d DEF WaitForWork,
         controlVars, flagVars, healthVars, localVars, historyVars, reportVars, diskVars
<1>16. CASE WaitTimeout
  BY <1>16, <1>d DEF WaitTimeout,
         controlVars, flagVars, healthVars, localVars, historyVars, reportVars, diskVars
<1>17. CASE WriteRecord
  <2>1. PICK ok \in BOOLEAN : settled' = [settled EXCEPT ![session] =
                                  Append(@, [record |-> Head(hand), ok |-> ok])]
    BY <1>17 DEF WriteRecord
  <2> DEFINE outcome == [record |-> Head(hand), ok |-> ok]
  <2>2. /\ worker = "write" /\ hand' = <<>>
        /\ UNCHANGED <<session, crashed, accepted, queue>>
    BY <1>17 DEF WriteRecord
  <2>3. PICK r \in Record : hand = <<r>>
    BY <2>2 DEF TypeOK, QueueTypeOK
  <2>4. outcome \in Outcome /\ outcome.record = r
    BY <2>3 DEF Outcome
  <2>5. session # 0 /\ session \in Sessions /\ session \notin crashed
    BY <2>2, <1>c
  <2>6. settled' = [settled EXCEPT ![session] = Append(@, outcome)]
    BY <2>1
  <2> HIDE DEF outcome
  <2>7. Records(settled'[session]) = Append(Records(settled[session]), r)
    <3>1. settled'[session] = Append(settled[session], outcome)
      BY <2>5, <2>6 DEF TypeOK, HistoryTypeOK
    <3>2. QED
      BY <1>a, <2>4, <2>5, <3>1
  <2>8. accepted[session] = Records(settled[session]) \o <<r>> \o queue
    BY <2>3, <2>5 DEF NothingLostInQueue
  <2>9. accepted[session] = Append(Records(settled[session]), r) \o <<>> \o queue
    BY <1>a, <1>b, <2>3, <2>5, <2>8, ConcatMoves
  <2>10. accepted'[session'] = Records(settled'[session']) \o hand' \o queue'
    BY <2>2, <2>7, <2>9
  <2>11. QED
    BY <2>10 DEF NothingLostInQueue
<1>18. CASE PeriodicFlush
  BY <1>18, <1>d DEF PeriodicFlush,
         controlVars, flagVars, healthVars, localVars, historyVars, reportVars, diskVars
<1>19. CASE StopDraining
  BY <1>19, <1>d DEF StopDraining,
         controlVars, flagVars, healthVars, localVars, historyVars, reportVars, diskVars
<1>20. CASE FinalFlush
  BY <1>20, <1>d DEF FinalFlush,
         controlVars, flagVars, healthVars, localVars, historyVars, reportVars, diskVars
<1>21. CASE FinalizeMdf
  BY <1>21, <1>d DEF FinalizeMdf,
         controlVars, flagVars, healthVars, localVars, historyVars, reportVars, diskVars
<1>22. CASE RemoveMarker
  BY <1>22, <1>d DEF RemoveMarker,
         controlVars, flagVars, healthVars, localVars, historyVars, reportVars, diskVars
<1>23. CASE Leave
  BY <1>23, <1>d DEF Leave,
         controlVars, flagVars, healthVars, localVars, historyVars, reportVars, diskVars
<1>24. CASE Crash
  <2>1. session' = session /\ session \in crashed'
    BY <1>24 DEF Crash
  <2>2. QED
    BY <2>1 DEF NothingLostInQueue
<1>25. CASE UNCHANGED vars
  BY <1>25, <1>d DEF vars,
         controlVars, flagVars, healthVars, localVars, historyVars, reportVars, diskVars
<1>26. QED
  BY <1>1, <1>2, <1>3, <1>4, <1>5, <1>6, <1>7, <1>8, <1>9, <1>10, <1>11, <1>12,
     <1>13, <1>14, <1>15, <1>16, <1>17, <1>18, <1>19, <1>20, <1>21, <1>22, <1>23,
     <1>24, <1>25
     DEF Next, CallerStep, WorkerStep

-----------------------------------------------------------------------------
(* Completed sessions *)

(* Each step keeps what is shown as complete final. *)
LEMMA CompleteStep ==
  ASSUME IInv, [Next]_vars
  PROVE  CompleteMeansFinal'
<1> USE DEF IInv
<1> DEFINE Good(s) == ShownAsComplete(s) =>
             /\ mdf[s] = "final"
             /\ raw[s] \in {"absent", "clean"}
             /\ accepted[s] = Records(settled[s])
<1>a. \A s \in Sessions : Good(s)
  BY DEF CompleteMeansFinal
<1>b. worker # "none" => session \in Sessions /\ session \notin crashed
  BY MaxSessionsAssumption DEF TypeOK, ControlTypeOK, SessionInv, PhaseInv, Sessions
(* A session whose marker exists, or which nothing touches, stays good.    *)
<1>c. ASSUME \A s \in Sessions :
               \/ marker'[s]
               \/ raw'[s] = "absent" /\ mdf'[s] = "absent"
               \/ UNCHANGED <<marker[s], raw[s], mdf[s], accepted[s], settled[s]>>
      PROVE  CompleteMeansFinal'
  <2> SUFFICES ASSUME NEW s \in Sessions PROVE Good(s)'
    BY DEF CompleteMeansFinal
  <2>1. CASE marker'[s]
    BY <2>1 DEF ShownAsComplete
  <2>2. CASE raw'[s] = "absent" /\ mdf'[s] = "absent"
    BY <2>2 DEF ShownAsComplete
  <2>3. CASE UNCHANGED <<marker[s], raw[s], mdf[s], accepted[s], settled[s]>>
    BY <2>3, <1>a DEF ShownAsComplete, Records
  <2>4. QED
    BY <1>c, <2>1, <2>2, <2>3
<1>d. UNCHANGED <<diskVars, accepted, settled>> => CompleteMeansFinal'
  BY <1>c DEF diskVars
<1>1. CASE Start
  BY <1>1, <1>d DEF Start, historyVars
<1>2. CASE Spawn
  BY <1>2, <1>d DEF Spawn, historyVars
<1>3. CASE AwaitStartup
  BY <1>3, <1>d DEF AwaitStartup, historyVars
<1>4. CASE Close
  BY <1>4, <1>d DEF Close, historyVars
<1>5. CASE Join
  BY <1>5, <1>d DEF Join, historyVars
<1>6. ASSUME NEW kind \in Kinds, Enqueue(kind) PROVE CompleteMeansFinal'
  <2>1. accepting
    BY <1>6 DEF Enqueue, Offered
  <2>2. marker[session]
    BY <2>1 DEF PhaseInv, FileInv
  <2>3. UNCHANGED <<diskVars, settled>>
    BY <1>6 DEF Enqueue
  <2>4. \A s \in Sessions : s # session => UNCHANGED accepted[s]
    BY <1>6 DEF Enqueue, TypeOK, HistoryTypeOK
  <2>5. QED
    BY <1>c, <2>2, <2>3, <2>4 DEF diskVars
<1>7. ASSUME NEW kind \in Kinds, DropWhenFull(kind) PROVE CompleteMeansFinal'
  BY <1>7, <1>d DEF DropWhenFull, historyVars
<1>8. CASE TakeDroppedRecordCount
  BY <1>8, <1>d DEF TakeDroppedRecordCount, historyVars
<1>9. CASE TakeWorkerError
  BY <1>9, <1>d DEF TakeWorkerError, historyVars
<1>10. CASE CreateMarker
  <2>1. raw[session] = "absent" /\ mdf[session] = "absent"
    BY <1>10 DEF CreateMarker, FileInv
  <2>2. UNCHANGED <<raw, mdf, accepted, settled>>
    BY <1>10 DEF CreateMarker, historyVars
  <2>3. \A s \in Sessions : s # session => UNCHANGED marker[s]
    BY <1>10 DEF CreateMarker, TypeOK, DiskTypeOK
  <2>4. QED
    BY <1>c, <2>1, <2>2, <2>3
<1>11. CASE OpenRaw
  <2>1. marker[session] /\ session \in Sessions
    BY <1>11, <1>b DEF OpenRaw, FileInv, LoopPC, FinishPC
  <2>2. \A s \in Sessions : s # session =>
          UNCHANGED <<marker[s], raw[s], mdf[s], accepted[s], settled[s]>>
    BY <1>11 DEF OpenRaw, historyVars, TypeOK, DiskTypeOK, HistoryTypeOK
  <2>3. marker'[session]
    BY <1>11, <2>1 DEF OpenRaw
  <2>4. QED
    BY <1>c, <2>2, <2>3
<1>12. CASE OpenMdf
  <2>1. marker[session] /\ session \in Sessions
    BY <1>12, <1>b DEF OpenMdf, FileInv, LoopPC, FinishPC
  <2>2. \A s \in Sessions : s # session =>
          UNCHANGED <<marker[s], raw[s], mdf[s], accepted[s], settled[s]>>
    BY <1>12 DEF OpenMdf, CloseRaw, historyVars, TypeOK, DiskTypeOK, HistoryTypeOK
  <2>3. marker'[session]
    BY <1>12, <2>1 DEF OpenMdf
  <2>4. QED
    BY <1>c, <2>2, <2>3
<1>13. CASE Publish
  BY <1>13, <1>d DEF Publish, historyVars
<1>14. CASE TakeRecord
  BY <1>14, <1>d DEF TakeRecord, historyVars
<1>15. CASE WaitForWork
  BY <1>15, <1>d DEF WaitForWork, historyVars
<1>16. CASE WaitTimeout
  BY <1>16, <1>d DEF WaitTimeout, historyVars
<1>17. CASE WriteRecord
  <2>1. marker[session] /\ session \in Sessions
    BY <1>17, <1>b DEF WriteRecord, FileInv, LoopPC, FinishPC
  <2>2. \A s \in Sessions : s # session =>
          UNCHANGED <<marker[s], raw[s], mdf[s], accepted[s], settled[s]>>
    BY <1>17 DEF WriteRecord, historyVars, TypeOK, DiskTypeOK, HistoryTypeOK
  <2>3. marker'[session]
    BY <1>17, <2>1 DEF WriteRecord
  <2>4. QED
    BY <1>c, <2>2, <2>3
<1>18. CASE PeriodicFlush
  <2>1. marker[session] /\ session \in Sessions
    BY <1>18, <1>b DEF PeriodicFlush, FileInv, LoopPC, FinishPC
  <2>2. \A s \in Sessions : s # session =>
          UNCHANGED <<marker[s], raw[s], mdf[s], accepted[s], settled[s]>>
    BY <1>18 DEF PeriodicFlush, FlushRaw, historyVars, TypeOK, DiskTypeOK, HistoryTypeOK
  <2>3. marker'[session]
    BY <1>18, <2>1 DEF PeriodicFlush
  <2>4. QED
    BY <1>c, <2>2, <2>3
<1>19. CASE StopDraining
  BY <1>19, <1>d DEF StopDraining, historyVars
<1>20. CASE FinalFlush
  <2>1. marker[session] /\ session \in Sessions
    BY <1>20, <1>b DEF FinalFlush, FileInv, LoopPC, FinishPC
  <2>2. \A s \in Sessions : s # session =>
          UNCHANGED <<marker[s], raw[s], mdf[s], accepted[s], settled[s]>>
    BY <1>20 DEF FinalFlush, FlushRaw, historyVars, TypeOK, DiskTypeOK, HistoryTypeOK
  <2>3. marker'[session]
    BY <1>20, <2>1 DEF FinalFlush
  <2>4. QED
    BY <1>c, <2>2, <2>3
<1>21. CASE FinalizeMdf
  <2>1. marker[session] /\ session \in Sessions
    BY <1>21, <1>b DEF FinalizeMdf, FileInv, LoopPC, FinishPC
  <2>2. \A s \in Sessions : s # session =>
          UNCHANGED <<marker[s], raw[s], mdf[s], accepted[s], settled[s]>>
    BY <1>21 DEF FinalizeMdf, CloseRaw, historyVars, TypeOK, DiskTypeOK, HistoryTypeOK
  <2>3. marker'[session]
    BY <1>21, <2>1 DEF FinalizeMdf
  <2>4. QED
    BY <1>c, <2>2, <2>3
<1>22. CASE RemoveMarker
  <2>1. /\ worker = "unmark" /\ session \in Sessions /\ session # 0 /\ session \notin crashed
        /\ UNCHANGED <<raw, mdf, accepted, settled>>
    BY <1>22, <1>b DEF RemoveMarker, historyVars, SessionInv
  <2>2. CASE marker' = marker
    BY <1>d, <2>1, <2>2 DEF diskVars
  <2>3. CASE finalized /\ marker' = [marker EXCEPT ![session] = FALSE]
    <3>1. mdf[session] = "final" /\ raw[session] \in {"absent", "clean"}
      BY <2>1, <2>3 DEF FileInv, TypeOK, DiskTypeOK
    <3>2. queue = <<>> /\ hand = <<>>
      BY <2>1 DEF PhaseInv, LoopPC, TypeOK, QueueTypeOK
    <3>3. accepted[session] = Records(settled[session])
      <4>1. accepted[session] = Records(settled[session]) \o <<>> \o <<>>
        BY <2>1, <3>2 DEF NothingLostInQueue
      <4>2. Records(settled[session]) \in Seq(Record)
        BY <2>1, RecordsType DEF TypeOK, HistoryTypeOK
      <4>3. QED
        BY <4>1, <4>2, ConcatEmptySeq
    <3>4. \A s \in Sessions : s # session => UNCHANGED marker[s]
      BY <2>3 DEF TypeOK, DiskTypeOK
    <3>5. ASSUME NEW s \in Sessions PROVE Good(s)'
      <4>1. CASE s = session
        BY <2>1, <3>1, <3>3, <4>1 DEF Records
      <4>2. CASE s # session
        BY <1>a, <2>1, <3>4, <4>2 DEF ShownAsComplete, Records
      <4>3. QED
        BY <4>1, <4>2
    <3>6. QED
      BY <3>5 DEF CompleteMeansFinal
  <2>4. QED
    BY <1>22, <2>2, <2>3 DEF RemoveMarker
<1>23. CASE Leave
  BY <1>23, <1>d DEF Leave, historyVars
<1>24. CASE Crash
  BY <1>24, <1>d DEF Crash, historyVars
<1>25. CASE UNCHANGED vars
  BY <1>25, <1>d DEF vars, historyVars
<1>26. QED
  BY <1>1, <1>2, <1>3, <1>4, <1>5, <1>6, <1>7, <1>8, <1>9, <1>10, <1>11, <1>12,
     <1>13, <1>14, <1>15, <1>16, <1>17, <1>18, <1>19, <1>20, <1>21, <1>22, <1>23,
     <1>24, <1>25
     DEF Next, CallerStep, WorkerStep

-----------------------------------------------------------------------------
(* The theorems *)

(* The inductive invariant holds initially ... *)
LEMMA InitIInv == Init => IInv
<1> SUFFICES ASSUME Init PROVE IInv
  OBVIOUS
<1>1. TypeOK /\ SessionInv
  BY InitType
<1>2. PhaseInv
  BY DEF Init, PhaseInv, StartupPC
<1>3. FileInv
  BY DEF Init, FileInv, LoopPC, FinishPC
<1>4. NothingLostInQueue
  BY DEF Init, NothingLostInQueue
<1>5. CompleteMeansFinal
  BY DEF Init, CompleteMeansFinal, ShownAsComplete
<1>6. QED
  BY <1>1, <1>2, <1>3, <1>4, <1>5 DEF IInv

(* ... and in every reachable state. *)
LEMMA Inductive == Spec => []IInv
<1>1. IInv /\ [Next]_vars => IInv'
  BY TypeStep, PhaseStep, FileStep, NothingLostStep, CompleteStep DEF IInv
<1>2. QED
  BY InitIInv, <1>1, PTL DEF Spec

(* No record is lost, duplicated, reordered or carried into another        *)
(* session between enqueue() and the sinks, for every queue capacity.      *)
THEOREM QueueConserves == Spec => []NothingLostInQueue
<1>1. IInv => NothingLostInQueue
  BY DEF IInv
<1>2. QED
  BY <1>1, Inductive, PTL

(* Files without an .active marker are a finalized measurement, a flushed  *)
(* raw log and an outcome for every accepted record.                       *)
THEOREM CompleteIsFinal == Spec => []CompleteMeansFinal
<1>1. IInv => CompleteMeansFinal
  BY DEF IInv
<1>2. QED
  BY <1>1, Inductive, PTL

(* When close() has returned the logger is quiet.                          *)
THEOREM ClosedIsQuiet == Spec => []ClosedMeansQuiet
<1>1. IInv => ClosedMeansQuiet
  BY DEF IInv, PhaseInv, ClosedMeansQuiet, LoopPC
<1>2. QED
  BY <1>1, Inductive, PTL

-----------------------------------------------------------------------------
(* Losses are reported *)

DropInv == drops = dropped + reportedDrops

ErrorInv ==
  session # 0 /\ session \notin crashed =>
    ((\E i \in 1 .. Len(settled[session]) : ~settled[session][i].ok)
       => workerError \/ errorSeen)

(* Each step keeps the count of refused records complete. *)
LEMMA DropStep ==
  ASSUME TypeOK, DropInv, [Next]_vars
  PROVE  DropInv'
<1> USE DEF DropInv, TypeOK, QueueTypeOK
<1>1. CASE Spawn
  BY <1>1 DEF Spawn
<1>2. ASSUME NEW kind \in Kinds, DropWhenFull(kind) PROVE DropInv'
  BY <1>2 DEF DropWhenFull
<1>3. CASE TakeDroppedRecordCount
  BY <1>3 DEF TakeDroppedRecordCount
<1>4. CASE Crash
  BY <1>4 DEF Crash
<1>5. CASE UNCHANGED <<dropped, drops, reportedDrops>>
  BY <1>5
<1>6. QED
  <2>1. \/ Spawn \/ TakeDroppedRecordCount \/ Crash
        \/ \E kind \in Kinds : DropWhenFull(kind)
        \/ UNCHANGED <<dropped, drops, reportedDrops>>
    BY DEF Next, CallerStep, WorkerStep, vars, healthVars, reportVars, Start, AwaitStartup,
           Close, Join, Enqueue, TakeWorkerError, CreateMarker, OpenRaw, OpenMdf, Publish,
           TakeRecord, WaitForWork, WaitTimeout, WriteRecord, PeriodicFlush, StopDraining,
           FinalFlush, FinalizeMdf, RemoveMarker, Leave
  <2>2. QED
    BY <2>1, <1>1, <1>2, <1>3, <1>4, <1>5

(* Each step keeps an error for every failed write of the session. *)
LEMMA ErrorStep ==
  ASSUME TypeOK, SessionInv, PhaseInv, FileInv, ErrorInv, [Next]_vars
  PROVE  ErrorInv'
<1> USE DEF ErrorInv
<1>1. CASE Spawn
  <2>1. session' \in Sessions /\ session' > session
    BY <1>1, MaxSessionsAssumption
       DEF Spawn, TypeOK, ControlTypeOK, SessionInv, Sessions
  <2>2. settled'[session'] = <<>>
    BY <1>1, <2>1 DEF Spawn, FileInv, historyVars
  <2>3. QED
    BY <2>2
<1>2. CASE TakeWorkerError
  BY <1>2 DEF TakeWorkerError, historyVars
<1>3. CASE WriteRecord
  <2>1. PICK ok \in BOOLEAN :
          /\ settled' = [settled EXCEPT ![session] =
                           Append(@, [record |-> Head(hand), ok |-> ok])]
          /\ workerError' = (workerError \/ ~ok)
    BY <1>3 DEF WriteRecord
  <2> DEFINE outcome == [record |-> Head(hand), ok |-> ok]
             old == settled[session]
  <2>2. session \in Sessions
    BY <1>3, MaxSessionsAssumption
       DEF WriteRecord, TypeOK, ControlTypeOK, SessionInv, Sessions
  <2>3. old \in Seq(Outcome) /\ settled'[session] = Append(old, outcome)
    BY <2>1, <2>2 DEF TypeOK, HistoryTypeOK
  <2>4. UNCHANGED <<session, crashed, errorSeen>>
    BY <1>3 DEF WriteRecord, reportVars
  <2>5. outcome.ok = ok
    OBVIOUS
  <2> HIDE DEF outcome, old
  <2>6. ASSUME NEW i \in 1 .. Len(settled'[session]), ~settled'[session][i].ok
        PROVE  ~ok \/ \E j \in 1 .. Len(old) : ~old[j].ok
    <3>1. CASE i = Len(old) + 1
      BY <2>3, <2>5, <2>6, <3>1
    <3>2. CASE i # Len(old) + 1
      <4>1. i \in 1 .. Len(old) /\ settled'[session][i] = old[i]
        BY <2>3, <3>2
      <4>2. QED
        BY <2>6, <4>1
    <3>3. QED
      BY <3>1, <3>2
  <2>7. QED
    BY <2>1, <2>4, <2>6 DEF old
<1>4. CASE Crash
  BY <1>4 DEF Crash
<1>5. CASE /\ UNCHANGED <<session, crashed, settled, errorSeen>>
           /\ workerError => workerError'
  BY <1>5
<1>6. QED
  <2>1. CASE CallerStep
    BY <2>1, <1>1, <1>2, <1>5
       DEF CallerStep, healthVars, historyVars, reportVars, Start, AwaitStartup, Close,
           Join, Enqueue, DropWhenFull, TakeDroppedRecordCount
  <2>2. CASE WorkerStep
    <3>1. CASE WriteRecord
      BY <3>1, <1>3
    <3>2. CASE Publish \/ PeriodicFlush \/ FinalFlush \/ FinalizeMdf \/ RemoveMarker
      <4>1. UNCHANGED <<session, crashed, settled, errorSeen>>
        BY <3>2 DEF historyVars, reportVars, Publish, PeriodicFlush, FinalFlush,
                    FinalizeMdf, RemoveMarker
      <4>2. workerError => workerError'
        BY <3>2, Zenon DEF Publish, PeriodicFlush, FlushRaw, FinalFlush, FinalizeMdf,
                           RemoveMarker
      <4>3. QED
        BY <4>1, <4>2, <1>5
    <3>3. QED
      BY <2>2, <3>1, <3>2, <1>5
         DEF WorkerStep, healthVars, historyVars, reportVars, CreateMarker, OpenRaw,
             OpenMdf, TakeRecord, WaitForWork, WaitTimeout, StopDraining, Leave
  <2>3. CASE UNCHANGED vars
    BY <2>3, <1>5 DEF vars, healthVars, historyVars, reportVars
  <2>4. QED
    BY <2>1, <2>2, <2>3, <1>4 DEF Next

(* Every refused record is in a count that is pending or was reported, and *)
(* every failed write has left an error that is pending or was reported.   *)
THEOREM LossesAreReported == Spec => []NoSilentLoss
<1>1. Init => DropInv /\ ErrorInv
  BY DEF Init, DropInv, ErrorInv
<1>2. IInv /\ DropInv /\ ErrorInv /\ [Next]_vars => DropInv' /\ ErrorInv'
  BY DropStep, ErrorStep DEF IInv
<1>3. DropInv /\ ErrorInv => NoSilentLoss
  BY DEF DropInv, ErrorInv, NoSilentLoss
<1>4. QED
  BY <1>1, <1>2, <1>3, Inductive, PTL DEF Spec
-----------------------------------------------------------------------------
(* The logger implements SessionJournal *)

Sealed(s) == ~marker[s] /\ mdf[s] = "final"

(* The phases of the worker as the journal sees them. *)
Phase ==
  IF worker \in StartupPC THEN "unused"
  ELSE IF worker \in LoopPC \cup FinishPC THEN "open" ELSE "abandoned"

(* The status of the current session, and that of an earlier one. *)
LEMMA StatusIs ==
  ASSUME TypeOK, NEW s \in Sessions
  PROVE  /\ s > session => Status(s) = "unused"
         /\ ~(s > session) /\ Sealed(s) => Status(s) = "sealed"
         /\ ~(s > session) /\ ~Sealed(s) /\ s # session => Status(s) = "abandoned"
         /\ ~(s > session) /\ ~Sealed(s) /\ s \in crashed => Status(s) = "abandoned"
         /\ s = session /\ ~Sealed(s) /\ s \notin crashed => Status(s) = Phase
<1>1. s = session => ~(s > session)
  BY MaxSessionsAssumption DEF Sessions
<1> QED BY <1>1 DEF Status, Sealed, Phase

(* What the invariant says of the current session while a worker is there. *)
LEMMA CurrentSession ==
  ASSUME IInv, worker # "none"
  PROVE  /\ session \in Sessions /\ session \notin crashed /\ session # 0
         /\ worker \in StartupPC \cup LoopPC \cup FinishPC => ~Sealed(session)
         /\ Len(accepted[session]) = Len(settled[session]) + Len(hand) + Len(queue)
         /\ Len(settled[session]) \in Nat /\ Len(hand) \in Nat /\ Len(queue) \in Nat
<1>1. session \in Sessions /\ session \notin crashed /\ session # 0
  BY MaxSessionsAssumption DEF IInv, TypeOK, ControlTypeOK, SessionInv, PhaseInv, Sessions
<1>2. worker \in StartupPC \cup LoopPC \cup FinishPC => ~Sealed(session)
  BY DEF IInv, FileInv, Sealed, StartupPC, LoopPC, FinishPC
<1>3. /\ settled[session] \in Seq(Outcome) /\ Records(settled[session]) \in Seq(Record)
      /\ Len(Records(settled[session])) = Len(settled[session])
  BY <1>1, RecordsType DEF IInv, TypeOK, HistoryTypeOK
<1>4. hand \in Seq(Record) /\ queue \in Seq(Record)
  <2>1. \A r \in Record : <<r>> \in Seq(Record)
    OBVIOUS
  <2> QED BY <2>1, EmptySeq DEF IInv, TypeOK, QueueTypeOK
<1>5. accepted[session] = Records(settled[session]) \o hand \o queue
  BY <1>1 DEF IInv, NothingLostInQueue
<1> DEFINE w == Records(settled[session])
<1>6. w \in Seq(Record) /\ Len(w) = Len(settled[session]) /\ Len(settled[session]) \in Nat
  BY <1>3
<1> HIDE DEF w
<1>7. w \o hand \in Seq(Record) /\ Len(w \o hand) = Len(w) + Len(hand)
  BY <1>4, <1>6, ConcatProperties
<1>8. Len((w \o hand) \o queue) = Len(w) + Len(hand) + Len(queue)
  BY <1>4, <1>7, ConcatProperties
<1>9. Len(hand) \in Nat /\ Len(queue) \in Nat
  BY <1>4
<1> QED BY <1>1, <1>2, <1>5, <1>6, <1>8, <1>9 DEF w

(* A step that the journal does not see. *)
LEMMA Unseen ==
  ASSUME UNCHANGED <<session, crashed, accepted, settled, Phase>>,
         \A s \in Sessions : Sealed(s)' <=> Sealed(s)
  PROVE  UNCHANGED Journal!jvars
<1>1. \A s \in Sessions : Status(s)' = Status(s)
  BY DEF Status, Sealed, Phase
<1> QED BY <1>1 DEF Journal!jvars

(* One session moves on, the others stay as they are. *)
LEMMA OneMoves ==
  ASSUME NEW t \in Sessions, \A s \in Sessions \ {t} : Status(s)' = Status(s),
         UNCHANGED <<accepted, settled>>,
         \/ /\ Status(t) = "unused" /\ Status(t)' = "open"
            /\ \A s \in Sessions : Status(s) # "open"
         \/ /\ Status(t) = "open" /\ Status(t)' = "sealed"
            /\ Len(settled[t]) = Len(accepted[t])
         \/ Status(t) \in {"unused", "open"} /\ Status(t)' = "abandoned"
  PROVE  Journal!JNext
<1> DEFINE before == [s \in Sessions |-> Status(s)]
           after == [s \in Sessions |-> Status(s)']
<1>1. \A s \in Sessions : before[s] = Status(s) OBVIOUS
<1>2. after = [before EXCEPT ![t] = Status(t)'] OBVIOUS
<1> HIDE DEF before
<1>3. CASE /\ Status(t) = "unused" /\ Status(t)' = "open"
           /\ \A s \in Sessions : Status(s) # "open"
  <2>1. Journal!Open(t) BY <1>1, <1>2, <1>3 DEF Journal!Open, before
  <2> QED BY <2>1 DEF Journal!JNext
<1>4. CASE /\ Status(t) = "open" /\ Status(t)' = "sealed"
           /\ Len(settled[t]) = Len(accepted[t])
  <2>1. Journal!Seal(t) BY <1>1, <1>2, <1>4 DEF Journal!Seal, before
  <2> QED BY <2>1 DEF Journal!JNext
<1>5. CASE Status(t) \in {"unused", "open"} /\ Status(t)' = "abandoned"
  <2>1. Journal!Abandon(t) BY <1>1, <1>2, <1>5 DEF Journal!Abandon, before
  <2> QED BY <2>1 DEF Journal!JNext
<1> QED BY <1>3, <1>4, <1>5

(* Each step is one of the journal's or is not seen by it. *)
LEMMA JournalStep ==
  ASSUME IInv, IInv', [Next]_vars
  PROVE  Journal!JNext \/ UNCHANGED Journal!jvars
<1> USE DEF StartupPC, LoopPC, FinishPC,
            controlVars, flagVars, healthVars, localVars, historyVars, reportVars, diskVars
<1>0. TypeOK /\ TypeOK' BY DEF IInv
<1>a. ASSUME UNCHANGED <<session, crashed, accepted, settled, marker, mdf, Phase>>
      PROVE  UNCHANGED Journal!jvars
  BY <1>a, Unseen DEF Sealed
<1>1. CASE Start
  BY <1>1, <1>a DEF Start, RequestStop, WakeWorker, Phase
<1>2. CASE Spawn
  <2>1. session' = session + 1 /\ session \in Nat /\ session' \in Sessions
    BY <1>0, <1>2, MaxSessionsAssumption DEF Spawn, TypeOK, ControlTypeOK, Sessions
  <2>2. worker \in {"none", "done"} /\ worker' = "mark"
        /\ UNCHANGED <<accepted, settled, marker, mdf, crashed>>
    BY <1>2 DEF Spawn, Joinable
  <2>3. PICK t \in Sessions : t = session + 1 /\ t = session'
    BY <2>1
  <2>4. mdf[t] = "absent"
    BY <2>1, <2>3 DEF IInv, FileInv
  <2>5. t \notin crashed /\ t > session
    BY <2>1, <2>2, <2>3 DEF IInv, PhaseInv, TypeOK, ControlTypeOK
  <2>6. Status(t) = "unused"
    BY <1>0, <2>5, StatusIs
  <2>7. Status(t)' = "unused"
    <3>1. ~(t > session')
      BY <2>1, <2>3
    <3> QED BY <2>2, <2>3, <2>4, <2>5, <3>1 DEF Status
  <2>8. ASSUME NEW s \in Sessions, s # t PROVE Status(s)' = Status(s)
    <3>1. s \in Nat /\ (s > session' <=> s > session) /\ s # session'
      BY <2>1, <2>3, <2>8 DEF Sessions
    <3>2. Phase = "abandoned"
      BY <2>2 DEF Phase
    <3> QED BY <2>2, <3>1, <3>2 DEF Status, Phase
  <2>9. \A s \in Sessions : Status(s)' = Status(s)
    BY <2>6, <2>7, <2>8
  <2> QED BY <2>2, <2>9 DEF Journal!jvars
<1>3. CASE AwaitStartup
  BY <1>3, <1>a DEF AwaitStartup, Phase
<1>4. CASE Close
  BY <1>4, <1>a DEF Close, RequestStop, WakeWorker, Phase
<1>5. CASE Join
  BY <1>5, <1>a DEF Join, Joinable, Phase
<1>6. ASSUME NEW kind \in Kinds, Enqueue(kind) PROVE Journal!JNext
  <2> DEFINE record == [kind |-> kind, n |-> offers + 1]
  <2>1. record \in Record
    BY <1>6, MaxOffersAssumption DEF Enqueue, Offered, Record, IInv, TypeOK, QueueTypeOK
  <2>2. /\ accepted' = [accepted EXCEPT ![session] = Append(@, record)]
        /\ UNCHANGED <<session, crashed, settled, marker, mdf>> /\ ~QueueFull /\ accepting
    BY <1>6 DEF Enqueue, Offered
  <2>3. worker \in LoopPC /\ worker' \in LoopPC
    BY <1>6, <2>2 DEF Enqueue, WakeWorker, IInv, PhaseInv
  <2>4. Phase = "open" /\ Phase' = "open"
    BY <2>3 DEF Phase
  <2>5. worker # "none" /\ worker \in StartupPC \cup LoopPC \cup FinishPC
    BY <2>3
  <2> HIDE DEF record
  <2>6. Status(session) = "open"
    BY <1>0, <2>4, <2>5, CurrentSession, StatusIs
  <2>7. \A s \in Sessions : Status(s)' = Status(s)
    BY <2>2, <2>4 DEF Status, Phase
  <2>8. Len(accepted[session]) - Len(settled[session]) < Capacity + 1
    <3>1. Len(hand) <= 1
      <4>1. hand = <<>> \/ \E r \in Record : hand = <<r>>
        BY <1>0 DEF TypeOK, QueueTypeOK
      <4>2. Len(<<>>) = 0 /\ \A r : Len(<<r>>) = 1
        OBVIOUS
      <4>3. CASE hand = <<>> BY <4>2, <4>3
      <4>4. CASE \E r \in Record : hand = <<r>> BY <4>2, <4>4
      <4> QED BY <4>1, <4>3, <4>4
    <3>2. /\ Len(accepted[session]) = Len(settled[session]) + Len(hand) + Len(queue)
          /\ Len(settled[session]) \in Nat /\ Len(hand) \in Nat /\ Len(queue) \in Nat
      BY <2>5, CurrentSession
    <3>3. Len(queue) < Capacity /\ Capacity \in Nat
      BY <2>2, <3>2, CapacityAssumption DEF QueueFull
    <3> QED BY <3>1, <3>2, <3>3
  <2>9. session \in Sessions
    BY <2>5, CurrentSession
  <2>10. Journal!Accept(session, record)
    BY <2>2, <2>6, <2>7, <2>8, <2>9 DEF Journal!Accept
  <2> QED BY <2>1, <2>9, <2>10 DEF Journal!JNext
<1>7. ASSUME NEW kind \in Kinds, DropWhenFull(kind) PROVE UNCHANGED Journal!jvars
  BY <1>7, <1>a DEF DropWhenFull, Phase
<1>8. CASE TakeDroppedRecordCount
  BY <1>8, <1>a DEF TakeDroppedRecordCount, Phase
<1>9. CASE TakeWorkerError
  BY <1>9, <1>a DEF TakeWorkerError, Phase
<1>10. ASSUME UNCHANGED <<session, crashed, accepted, settled, Phase>>,
              \A s \in Sessions : s # session => UNCHANGED <<marker[s], mdf[s]>>,
              worker # "none" => ~Sealed(session) /\ ~Sealed(session)'
       PROVE  worker # "none" => UNCHANGED Journal!jvars
  <2>1. worker # "none" => \A s \in Sessions : Sealed(s)' <=> Sealed(s)
    <3> SUFFICES ASSUME worker # "none", NEW s \in Sessions PROVE Sealed(s)' <=> Sealed(s)
      OBVIOUS
    <3>1. CASE s = session BY <1>10, <3>1 DEF Sealed
    <3>2. CASE s # session BY <1>10, <3>2 DEF Sealed
    <3> QED BY <3>1, <3>2
  <2> QED BY <1>10, <2>1, Unseen
<1>11. ASSUME CreateMarker \/ OpenRaw \/ OpenMdf \/ FinalizeMdf
       PROVE  UNCHANGED Journal!jvars
  <2>1. UNCHANGED <<session, crashed, accepted, settled>>
    BY <1>11 DEF CreateMarker, OpenRaw, OpenMdf, FinalizeMdf
  <2>2. \/ worker \in {"mark", "openRaw", "openMdf"} /\ worker' \in StartupPC
        \/ worker = "finalizeMdf" /\ worker' = "unmark"
    BY <1>11 DEF CreateMarker, OpenRaw, OpenMdf, FinalizeMdf
  <2>3. Phase' = Phase /\ worker # "none" /\ worker' # "none"
        /\ worker \in StartupPC \cup LoopPC \cup FinishPC
        /\ worker' \in StartupPC \cup LoopPC \cup FinishPC
    BY <2>2 DEF Phase
  <2>4. ~Sealed(session)
    BY <2>3, CurrentSession
  <2>5. ~Sealed(session)'
    BY <2>3 DEF IInv, FileInv, Sealed
  <2>6. \A s \in Sessions : s # session => UNCHANGED <<marker[s], mdf[s]>>
    BY <1>0, <1>11 DEF CreateMarker, OpenRaw, OpenMdf, FinalizeMdf, TypeOK, DiskTypeOK
  <2> QED BY <1>10, <2>1, <2>3, <2>4, <2>5, <2>6
<1>12. CASE Publish
  <2>1. UNCHANGED <<session, crashed, accepted, settled, marker, mdf>>
        /\ worker \in StartupPC /\ worker # "none"
    BY <1>12 DEF Publish
  <2>2. Phase = "unused" /\ Phase' \in {"open", "abandoned"}
    BY <1>12 DEF Publish, Phase
  <2>3. session \in Sessions /\ session \notin crashed /\ ~Sealed(session)
    BY <2>1, CurrentSession
  <2>4. PICK t \in Sessions : t = session
    BY <2>3
  <2>5. Status(t) = "unused"
    BY <1>0, <2>2, <2>3, <2>4, StatusIs
  <2>6. Status(t)' \in {"open", "abandoned"}
    <3>1. ~(t > session') /\ t \in Nat
      BY <2>1, <2>4 DEF Sessions
    <3> QED BY <2>1, <2>2, <2>3, <2>4, <3>1 DEF Status, Phase, Sealed
  <2>7. \A s \in Sessions : s # t => Status(s)' = Status(s) /\ Status(s) # "open"
    BY <2>1, <2>4 DEF Status
  <2> QED BY <2>1, <2>5, <2>6, <2>7, OneMoves
<1>13. CASE TakeRecord
  BY <1>13, <1>a DEF TakeRecord, Phase
<1>14. CASE WaitForWork
  BY <1>14, <1>a DEF WaitForWork, Phase
<1>15. CASE WaitTimeout
  BY <1>15, <1>a DEF WaitTimeout, Phase
<1>16. CASE WriteRecord
  <2>1. PICK ok \in BOOLEAN : settled' = [settled EXCEPT ![session] =
                                  Append(@, [record |-> Head(hand), ok |-> ok])]
    BY <1>16 DEF WriteRecord
  <2>2. worker = "write" /\ worker' = "flush" /\ UNCHANGED <<session, crashed, accepted, marker, mdf>>
    BY <1>16 DEF WriteRecord
  <2>3. PICK r \in Record : hand = <<r>>
    BY <1>0, <2>2 DEF TypeOK, QueueTypeOK
  <2>4. /\ session \in Sessions /\ session \notin crashed /\ ~Sealed(session)
        /\ Len(accepted[session]) = Len(settled[session]) + 1 + Len(queue)
        /\ Len(settled[session]) \in Nat /\ Len(queue) \in Nat
    BY <2>2, <2>3, CurrentSession
  <2>5. Phase = "open" /\ Phase' = "open"
    BY <2>2 DEF Phase
  <2>6. Status(session) = "open"
    BY <1>0, <2>4, <2>5, StatusIs
  <2>7. \A s \in Sessions : Status(s)' = Status(s)
    BY <2>2, <2>5 DEF Status, Phase
  <2>8. accepted[session][Len(settled[session]) + 1] = r
    <3> DEFINE w == Records(settled[session])
    <3>1. w \in Seq(Record) /\ Len(w) = Len(settled[session])
      BY <1>0, <2>4, RecordsType DEF TypeOK, HistoryTypeOK
    <3>2. accepted[session] = w \o <<r>> \o queue
      BY <2>2, <2>3, CurrentSession DEF IInv, NothingLostInQueue
    <3>3. queue \in Seq(Record)
      BY <1>0 DEF TypeOK, QueueTypeOK
    <3> HIDE DEF w
    <3>4. w \o <<r>> \in Seq(Record) /\ Len(w \o <<r>>) = Len(w) + 1
          /\ (w \o <<r>>)[Len(w) + 1] = r
      BY <3>1
    <3>5. ((w \o <<r>>) \o queue)[Len(w) + 1] = (w \o <<r>>)[Len(w) + 1]
      BY <3>1, <3>3, <3>4, <2>4, ConcatProperties
    <3> QED BY <3>1, <3>2, <3>4, <3>5
  <2>9. settled' = [settled EXCEPT ![session] =
          Append(@, [record |-> accepted[session][Len(@) + 1], ok |-> ok])]
    <3>1. Head(hand) = r BY <2>3
    <3> QED BY <2>1, <2>8, <3>1
  <2>10. Journal!Settle(session, ok)
    BY <2>2, <2>4, <2>6, <2>7, <2>9 DEF Journal!Settle
  <2> QED BY <2>4, <2>10 DEF Journal!JNext
<1>17. CASE PeriodicFlush
  BY <1>17, <1>a DEF PeriodicFlush, Phase
<1>18. CASE StopDraining
  BY <1>18, <1>a DEF StopDraining, Phase
<1>19. CASE FinalFlush
  BY <1>19, <1>a DEF FinalFlush, Phase
<1>20. CASE RemoveMarker
  <2>1. worker = "unmark" /\ worker' = "leave" /\ UNCHANGED <<session, crashed, accepted, settled, mdf>>
        /\ worker # "none" /\ worker \in FinishPC
    BY <1>20 DEF RemoveMarker
  <2>2. Phase = "open" /\ Phase' = "abandoned"
    BY <2>1 DEF Phase
  <2>3. session \in Sessions /\ session \notin crashed /\ ~Sealed(session)
    BY <2>1, CurrentSession
  <2>4. PICK t \in Sessions : t = session
    BY <2>3
  <2>5. Status(t) = "open"
    BY <1>0, <2>2, <2>3, <2>4, StatusIs
  <2>6. Status(t)' \in {"sealed", "abandoned"}
    <3>1. ~(t > session') /\ t \in Nat
      BY <2>1, <2>4 DEF Sessions
    <3> QED BY <2>1, <2>2, <2>3, <2>4, <3>1 DEF Status, Phase
  <2>7. \A s \in Sessions : s # t => Status(s)' = Status(s)
    <3>1. \A s \in Sessions : s # t => UNCHANGED <<marker[s], mdf[s]>>
      BY <1>0, <1>20, <2>4 DEF RemoveMarker, TypeOK, DiskTypeOK
    <3> QED BY <2>1, <2>4, <3>1 DEF Status
  <2>8. Len(settled[t]) = Len(accepted[t])
    <3>1. hand = <<>> /\ queue = <<>>
      BY <1>0, <2>1 DEF IInv, PhaseInv, TypeOK, QueueTypeOK
    <3>2. Len(hand) = 0 /\ Len(queue) = 0
      BY <3>1
    <3> QED BY <2>1, <2>4, <3>2, CurrentSession
  <2> QED BY <2>1, <2>5, <2>6, <2>7, <2>8, OneMoves
<1>21. CASE Leave
  BY <1>21, <1>a DEF Leave, Phase
<1>22. CASE Crash
  <2>1. worker # "none" /\ UNCHANGED <<session, accepted, settled, marker, mdf>>
        /\ crashed' = crashed \cup {session}
    BY <1>22 DEF Crash
  <2>2. session \in Sessions /\ session \notin crashed
    BY <2>1, CurrentSession
  <2>3. PICK t \in Sessions : t = session
    BY <2>2
  <2>4. \A s \in Sessions : s # t => Status(s)' = Status(s)
    BY <2>1, <2>3 DEF Status
  <2>5. ~(t > session) /\ t \in Nat
    BY <2>3 DEF Sessions
  <2>6. CASE Sealed(t)
    <3>1. Status(t) = "sealed" /\ Status(t)' = "sealed"
      BY <2>1, <2>5, <2>6 DEF Status, Sealed
    <3>2. \A s \in Sessions : Status(s)' = Status(s)
      BY <2>4, <3>1
    <3> QED BY <2>1, <3>2 DEF Journal!jvars
  <2>7. CASE ~Sealed(t)
    <3>1. Status(t)' = "abandoned"
      BY <2>1, <2>3, <2>5, <2>7 DEF Status, Sealed
    <3>2. Status(t) = Phase
      BY <1>0, <2>2, <2>3, <2>7, StatusIs
    <3>3. Phase \in {"unused", "open", "abandoned"}
      BY DEF Phase
    <3>4. CASE Phase = "abandoned"
      <4>1. \A s \in Sessions : Status(s)' = Status(s)
        BY <2>4, <3>1, <3>2, <3>4
      <4> QED BY <2>1, <4>1 DEF Journal!jvars
    <3>5. CASE Phase \in {"unused", "open"}
      BY <2>1, <2>4, <3>1, <3>2, <3>5, OneMoves
    <3> QED BY <3>3, <3>4, <3>5
  <2> QED BY <2>6, <2>7
<1>23. CASE UNCHANGED vars
  BY <1>23, <1>a DEF vars, Phase
<1>24. QED
  BY <1>1, <1>2, <1>3, <1>4, <1>5, <1>6, <1>7, <1>8, <1>9, <1>11, <1>12,
     <1>13, <1>14, <1>15, <1>16, <1>17, <1>18, <1>19, <1>20, <1>21, <1>22, <1>23
     DEF Next, CallerStep, WorkerStep

(* The two threads, the queue and the files implement the abstract journal *)
(* (ImplementsJournal): records are settled once each and in order, no     *)
(* more than the queue and the worker's hand hold wait, and a session is   *)
(* sealed only when none waits, for every capacity of the queue.           *)
THEOREM LoggerIsJournal == Spec => ImplementsJournal
<1>1. Init => Journal!JInit
  <2> SUFFICES ASSUME Init PROVE Journal!JInit OBVIOUS
  <2>1. \A s \in Sessions : Status(s) = "unused"
    BY MaxSessionsAssumption DEF Init, Status, Sessions
  <2> QED BY <2>1 DEF Init, Journal!JInit
<1>2. IInv /\ IInv' /\ [Next]_vars => [Journal!JNext]_(Journal!jvars)
  BY JournalStep
<1> QED BY <1>1, <1>2, Inductive, PTL DEF Spec, ImplementsJournal, Journal!JSpec
=============================================================================
