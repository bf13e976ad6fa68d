------------------------ MODULE AsyncSessionLogger ------------------------
(***************************************************************************)
(* The asynchronous session logger of vehicle_loggerd                      *)
(* (src/logging/async_session_logger.cpp): a bounded queue between the Qt  *)
(* thread, which calls start, close, writeRawFrame, writeSignalSample and  *)
(* the take... health calls, and one worker thread per session, which owns *)
(* the session's files: the .active marker, the optional raw CAN log and   *)
(* the MDF4 measurement.                                                   *)
(*                                                                         *)
(* One critical section of mutex_, or one file operation of the worker, is *)
(* one action.  Every disk operation may fail.  The process may die at any *)
(* point and be started again; the directory outlives it.  A session is    *)
(* identified by its number, which stands for the UTC stem of its files.   *)
(* maximumQueueDepth_, which only the benchmark reads, is left out.        *)
(***************************************************************************)
EXTENDS Naturals, Sequences

CONSTANTS
  Capacity,     (* queueCapacity: records the queue may hold               *)
  MaxSessions,  (* bound: sessions started over the life of the directory  *)
  MaxOffers     (* bound: records offered over all the sessions            *)

ASSUME CapacityAssumption == Capacity \in Nat \ {0}
ASSUME MaxSessionsAssumption == MaxSessions \in Nat
ASSUME MaxOffersAssumption == MaxOffers \in Nat

Sessions == 1 .. MaxSessions
Kinds == {"raw", "signal"}    (* the two alternatives of QueuedRecord *)
Record == [kind : Kinds, n : 1 .. MaxOffers]
Outcome == [record : Record, ok : BOOLEAN]

(* Where the Qt thread and the worker are. "joining" is worker_.join();    *)
(* "sleeping" is the wait on startupCompleteCondition_, "waiting" the one  *)
(* on workAvailable_.                                                      *)
CallerPC == {"idle", "restarting", "starting", "sleeping", "joining"}
StartupPC == {"mark", "openRaw", "openMdf", "publish", "startFailed"}
LoopPC == {"run", "waiting", "write", "flush"}
FinishPC == {"finalFlush", "finalizeMdf", "unmark"}
WorkerPC == {"none"} \cup StartupPC \cup LoopPC \cup FinishPC \cup {"leave", "done"}

VARIABLES
  caller,           (* program counter of the Qt thread                   *)
  worker,           (* program counter of the worker; "none": not joinable *)
  queue,            (* queue_                                             *)
  accepting,        (* acceptingRecords_                                  *)
  stopRequested,    (* stopRequested_                                     *)
  startupComplete,  (* startupComplete_                                   *)
  workerStarted,    (* workerStarted_, what isOpen() returns              *)
  rawEnabled,       (* rawCanEnabled_                                     *)
  dropped,          (* droppedRecordCount_                                *)
  workerError,      (* is workerError_ non-empty?                         *)
  hand,             (* the record the worker moved out of the queue       *)
  finalized,        (* the worker's local variable finalized              *)
  session,          (* the current session, 0 before the first            *)
  marker,           (* marker[s]: does the .active file of s exist?       *)
  raw,              (* raw[s]: "absent", "dirty" (bytes still buffered in *)
                    (* the process) or "clean"                            *)
  mdf,              (* mdf[s]: "absent", "partial" or "final"             *)
  (* History variables: what has happened, read by no action's guard.     *)
  offers,           (* records offered while records were accepted        *)
  accepted,         (* accepted[s]: records put in the queue, in order    *)
  settled,          (* settled[s]: their outcomes, in the worker's order  *)
  crashed,          (* sessions whose process died before it let go       *)
  drops,            (* records of this session refused, and ...           *)
  reportedDrops,    (* ... how many of those a health call has returned   *)
  errorSeen         (* has a health call returned an error this session?  *)

controlVars == <<caller, worker>>
flagVars == <<accepting, stopRequested, startupComplete, workerStarted, rawEnabled>>
healthVars == <<dropped, workerError>>
localVars == <<hand, finalized>>
diskVars == <<marker, raw, mdf>>
historyVars == <<offers, accepted, settled, crashed>>
reportVars == <<drops, reportedDrops, errorSeen>>
vars == <<controlVars, queue, flagVars, healthVars, localVars, session,
          diskVars, historyVars, reportVars>>

ControlTypeOK ==
  /\ caller \in CallerPC /\ worker \in WorkerPC
  /\ accepting \in BOOLEAN /\ stopRequested \in BOOLEAN
  /\ startupComplete \in BOOLEAN /\ workerStarted \in BOOLEAN
  /\ rawEnabled \in BOOLEAN /\ workerError \in BOOLEAN
  /\ finalized \in BOOLEAN /\ errorSeen \in BOOLEAN
  /\ session \in 0 .. MaxSessions
  /\ crashed \in SUBSET Sessions

QueueTypeOK ==
  /\ queue \in Seq(Record) /\ Len(queue) <= Capacity
  /\ hand \in {<<>>} \cup {<<r>> : r \in Record}
  /\ hand = <<>> <=> worker # "write"
  /\ offers \in 0 .. MaxOffers
  /\ dropped \in Nat /\ drops \in Nat /\ reportedDrops \in Nat

DiskTypeOK ==
  /\ marker \in [Sessions -> BOOLEAN]
  /\ raw \in [Sessions -> {"absent", "dirty", "clean"}]
  /\ mdf \in [Sessions -> {"absent", "partial", "final"}]

HistoryTypeOK ==
  /\ accepted \in [Sessions -> Seq(Record)]
  /\ settled \in [Sessions -> Seq(Outcome)]

TypeOK == ControlTypeOK /\ QueueTypeOK /\ DiskTypeOK /\ HistoryTypeOK

Init ==
  /\ caller = "idle" /\ worker = "none"
  /\ queue = <<>>
  /\ accepting = FALSE /\ stopRequested = FALSE /\ startupComplete = FALSE
  /\ workerStarted = FALSE /\ rawEnabled = FALSE
  /\ dropped = 0 /\ workerError = FALSE
  /\ hand = <<>> /\ finalized = FALSE
  /\ session = 0
  /\ marker = [s \in Sessions |-> FALSE]
  /\ raw = [s \in Sessions |-> "absent"]
  /\ mdf = [s \in Sessions |-> "absent"]
  /\ offers = 0
  /\ accepted = [s \in Sessions |-> <<>>]
  /\ settled = [s \in Sessions |-> <<>>]
  /\ crashed = {}
  /\ drops = 0 /\ reportedDrops = 0 /\ errorSeen = FALSE

-----------------------------------------------------------------------------
(* The Qt thread *)

(* workAvailable_.wakeOne(): a worker asleep on it goes on to take mutex_. *)
(* Faulty: no wake-up. *)
LeaveWorkerAsleep == worker' = worker
WakeWorker == worker' = IF worker = "waiting" THEN "run" ELSE worker

(* Faulty: records are still accepted. *)
RequestStopOnly ==
  /\ stopRequested' = TRUE
  /\ WakeWorker
  /\ UNCHANGED <<accepting, startupComplete, workerStarted, rawEnabled>>

(* The critical section of close(). *)
RequestStop ==
  /\ accepting' = FALSE
  /\ stopRequested' = TRUE
  /\ WakeWorker
  /\ UNCHANGED <<startupComplete, workerStarted, rawEnabled>>

Close ==
  /\ caller = "idle"
  /\ caller' = "joining"
  /\ RequestStop
  /\ UNCHANGED <<queue, healthVars, localVars, session, diskVars, historyVars, reportVars>>

(* join() returns: the thread has ended, or there was none to join. *)
Joinable == worker \in {"none", "done"}

Join ==
  /\ caller = "joining"
  /\ Joinable
  /\ caller' = "idle" /\ worker' = "none"
  /\ UNCHANGED <<queue, flagVars, healthVars, localVars, session, diskVars,
                 historyVars, reportVars>>

(* start() closes the previous session first ... *)
Start ==
  /\ caller = "idle"
  /\ session < MaxSessions
  /\ caller' = "restarting"
  /\ RequestStop
  /\ UNCHANGED <<queue, healthVars, localVars, session, diskVars, historyVars, reportVars>>

(* ... then resets the shared state and creates the worker.  queue_ is not *)
(* cleared.                                                                *)
Spawn ==
  /\ caller = "restarting"
  /\ Joinable
  /\ caller' = "starting" /\ worker' = "mark"
  /\ rawEnabled' \in BOOLEAN
  /\ dropped' = 0 /\ workerError' = FALSE
  /\ stopRequested' = FALSE /\ startupComplete' = FALSE /\ workerStarted' = FALSE
  /\ session' = session + 1
  /\ drops' = 0 /\ reportedDrops' = 0 /\ errorSeen' = FALSE
  /\ UNCHANGED <<queue, accepting, localVars, diskVars, historyVars>>

(* The startup loop of start(), one test of its condition. *)
AwaitStartup ==
  /\ caller = "starting"
  /\ caller' = IF ~startupComplete THEN "sleeping"
               ELSE IF workerStarted THEN "idle" ELSE "joining"
  /\ UNCHANGED <<worker, queue, flagVars, healthVars, localVars, session,
                 diskVars, historyVars, reportVars>>

(* writeRawFrame and writeSignalSample return at once, with nothing done,  *)
(* when records are not accepted or raw logging is off.                    *)
Offered(kind) ==
  /\ caller = "idle"
  /\ offers < MaxOffers
  /\ offers' = offers + 1
  /\ kind = "raw" => rawEnabled
  /\ accepting

(* Faulty: off by one. *)
QueueOverfull == Len(queue) > Capacity
QueueFull == Len(queue) >= Capacity

Enqueue(kind) ==
  /\ Offered(kind)
  /\ ~QueueFull
  /\ LET record == [kind |-> kind, n |-> offers + 1] IN
       /\ queue' = Append(queue, record)
       /\ accepted' = [accepted EXCEPT ![session] = Append(@, record)]
  /\ WakeWorker
  /\ UNCHANGED <<caller, flagVars, dropped, workerError, localVars, session,
                 diskVars, settled, crashed, reportVars>>

DropWhenFull(kind) ==
  /\ Offered(kind)
  /\ QueueFull
  /\ dropped' = dropped + 1
  /\ drops' = drops + 1
  /\ UNCHANGED <<controlVars, queue, flagVars, workerError, localVars,
                 session, diskVars, accepted, settled, crashed, reportedDrops, errorSeen>>

TakeDroppedRecordCount ==
  /\ caller = "idle"
  /\ dropped > 0
  /\ dropped' = 0
  /\ reportedDrops' = reportedDrops + dropped
  /\ UNCHANGED <<controlVars, queue, flagVars, workerError, localVars,
                 session, diskVars, historyVars, drops, errorSeen>>

TakeWorkerError ==
  /\ caller = "idle"
  /\ workerError
  /\ workerError' = FALSE
  /\ errorSeen' = TRUE
  /\ UNCHANGED <<controlVars, queue, flagVars, dropped, localVars,
                 session, diskVars, historyVars, drops, reportedDrops>>

-----------------------------------------------------------------------------
(* The worker: opening the session *)

(* mkpath and the NewOnly marker.  The marker may be created and still not *)
(* be written in full; then it stays behind.                               *)
CreateMarker ==
  /\ worker = "mark"
  /\ \E created, ok \in BOOLEAN :
       /\ ok => created
       /\ marker' = [marker EXCEPT ![session] = created]
       /\ worker' = IF ok THEN "openRaw" ELSE "startFailed"
  /\ UNCHANGED <<caller, queue, flagVars, healthVars, localVars, session, raw, mdf,
                 historyVars, reportVars>>

OpenRaw ==
  /\ worker = "openRaw"
  /\ \/ /\ ~rawEnabled
        /\ worker' = "openMdf"
        /\ UNCHANGED raw
     \/ /\ rawEnabled
        /\ worker' = "openMdf"
        /\ raw' = [raw EXCEPT ![session] = "dirty"]    \* the header lines
     \/ /\ rawEnabled
        /\ worker' = "startFailed"
        /\ UNCHANGED raw
  /\ UNCHANGED <<caller, queue, flagVars, healthVars, localVars, session, marker, mdf,
                 historyVars, reportVars>>

(* rawSink.close(): the buffer goes out, unless the write fails unseen. *)
CloseRaw ==
  raw' \in {raw} \cup
    (IF raw[session] = "dirty" THEN {[raw EXCEPT ![session] = "clean"]} ELSE {})

OpenMdf ==
  /\ worker = "openMdf"
  /\ \/ /\ worker' = "publish"
        /\ mdf' = [mdf EXCEPT ![session] = "partial"]
        /\ UNCHANGED raw
     \/ /\ worker' = "startFailed"
        /\ mdf' \in {mdf, [mdf EXCEPT ![session] = "partial"]}
        /\ CloseRaw
  /\ UNCHANGED <<caller, queue, flagVars, healthVars, localVars, session, marker,
                 historyVars, reportVars>>

(* The startup result, with the wake-up of a caller asleep in start(). *)
Publish ==
  /\ worker \in {"publish", "startFailed"}
  /\ LET opened == worker = "publish" IN
       /\ workerStarted' = opened
       /\ accepting' = opened
       /\ workerError' = (workerError \/ ~opened)
       /\ worker' = IF opened THEN "run" ELSE "done"
  /\ startupComplete' = TRUE
  /\ caller' = IF caller = "sleeping" THEN "starting" ELSE caller
  /\ UNCHANGED <<queue, stopRequested, rawEnabled, dropped, localVars,
                 session, diskVars, historyVars, reportVars>>

-----------------------------------------------------------------------------
(* The worker: draining the queue *)

(* Faulty: the newest record is taken first. *)
TakeNewestRecord ==
  /\ worker = "run"
  /\ queue # <<>>
  /\ hand' = <<queue[Len(queue)]>>
  /\ queue' = SubSeq(queue, 1, Len(queue) - 1)
  /\ worker' = "write"
  /\ UNCHANGED <<caller, flagVars, healthVars, finalized, session, diskVars,
                 historyVars, reportVars>>

TakeRecord ==
  /\ worker = "run"
  /\ queue # <<>>
  /\ hand' = <<Head(queue)>>
  /\ queue' = Tail(queue)
  /\ worker' = "write"
  /\ UNCHANGED <<caller, flagVars, healthVars, finalized, session, diskVars,
                 historyVars, reportVars>>

(* An empty queue: sleep until the next flush is due, or go and flush. *)
WaitForWork ==
  /\ worker = "run"
  /\ queue = <<>>
  /\ ~stopRequested
  /\ worker' \in {"waiting", "flush"}
  /\ UNCHANGED <<caller, queue, flagVars, healthVars, localVars, session, diskVars,
                 historyVars, reportVars>>

WaitTimeout ==
  /\ worker = "waiting"
  /\ worker' = "run"
  /\ UNCHANGED <<caller, queue, flagVars, healthVars, localVars, session, diskVars,
                 historyVars, reportVars>>

(* Faulty: a success clears the error of an earlier record. *)
WriteRecordClearingError ==
  /\ worker = "write"
  /\ worker' = "flush"
  /\ hand' = <<>>
  /\ \E ok \in BOOLEAN :
       /\ settled' = [settled EXCEPT ![session] =
                        Append(@, [record |-> Head(hand), ok |-> ok])]
       /\ workerError' = ~ok
  /\ raw' = IF Head(hand).kind = "raw" THEN [raw EXCEPT ![session] = "dirty"] ELSE raw
  /\ UNCHANGED <<caller, queue, flagVars, dropped, finalized, session,
                 marker, mdf, offers, accepted, crashed, reportVars>>

WriteRecord ==
  /\ worker = "write"
  /\ worker' = "flush"
  /\ hand' = <<>>
  /\ \E ok \in BOOLEAN :
       /\ settled' = [settled EXCEPT ![session] =
                        Append(@, [record |-> Head(hand), ok |-> ok])]
       /\ workerError' = (workerError \/ ~ok)
  /\ raw' = IF Head(hand).kind = "raw" THEN [raw EXCEPT ![session] = "dirty"] ELSE raw
  /\ UNCHANGED <<caller, queue, flagVars, dropped, finalized, session,
                 marker, mdf, offers, accepted, crashed, reportVars>>

(* SessionLogSink::flush: nothing can fail when there is no raw file. *)
FlushRaw(ok) ==
  /\ raw[session] = "absent" => ok
  /\ raw' = IF ok /\ raw[session] # "absent"
            THEN [raw EXCEPT ![session] = "clean"] ELSE raw
  /\ workerError' = (workerError \/ ~ok)

PeriodicFlush ==
  /\ worker = "flush"
  /\ worker' = "run"
  /\ \/ UNCHANGED <<raw, workerError>>      \* the second is not over yet
     \/ \E ok \in BOOLEAN : FlushRaw(ok)
  /\ UNCHANGED <<caller, queue, flagVars, dropped, localVars, session,
                 marker, mdf, historyVars, reportVars>>

-----------------------------------------------------------------------------
(* The worker: closing the session *)

(* Faulty: the worker stops with records in the queue. *)
StopAtOnce ==
  /\ worker = "run"
  /\ stopRequested
  /\ worker' = "finalFlush"
  /\ UNCHANGED <<caller, queue, flagVars, healthVars, localVars, session, diskVars,
                 historyVars, reportVars>>

StopDraining ==
  /\ worker = "run"
  /\ queue = <<>>
  /\ stopRequested
  /\ worker' = "finalFlush"
  /\ UNCHANGED <<caller, queue, flagVars, healthVars, localVars, session, diskVars,
                 historyVars, reportVars>>

(* Faulty: a failed flush does not keep the marker. *)
FinalFlushIgnored ==
  /\ worker = "finalFlush"
  /\ worker' = "finalizeMdf"
  /\ finalized' = TRUE
  /\ \E ok \in BOOLEAN : FlushRaw(ok)
  /\ UNCHANGED <<caller, queue, flagVars, dropped, hand, session, marker,
                 mdf, historyVars, reportVars>>

FinalFlush ==
  /\ worker = "finalFlush"
  /\ worker' = "finalizeMdf"
  /\ \E ok \in BOOLEAN : FlushRaw(ok) /\ finalized' = ok
  /\ UNCHANGED <<caller, queue, flagVars, dropped, hand, session, marker,
                 mdf, historyVars, reportVars>>

FinalizeMdf ==
  /\ worker = "finalizeMdf"
  /\ worker' = "unmark"
  /\ \E ok \in BOOLEAN :
       /\ mdf' = IF ok THEN [mdf EXCEPT ![session] = "final"] ELSE mdf
       /\ finalized' = (finalized /\ ok)
       /\ workerError' = (workerError \/ ~ok)
  /\ CloseRaw
  /\ UNCHANGED <<caller, queue, flagVars, dropped, hand, session, marker,
                 historyVars, reportVars>>

RemoveMarker ==
  /\ worker = "unmark"
  /\ worker' = "leave"
  /\ \/ /\ finalized
        /\ marker' = [marker EXCEPT ![session] = FALSE]
        /\ UNCHANGED workerError
     \/ /\ finalized
        /\ workerError' = TRUE
        /\ UNCHANGED marker
     \/ /\ ~finalized
        /\ UNCHANGED <<marker, workerError>>
  /\ UNCHANGED <<caller, queue, flagVars, dropped, localVars, session, raw,
                 mdf, historyVars, reportVars>>

Leave ==
  /\ worker = "leave"
  /\ worker' = "done"
  /\ workerStarted' = FALSE
  /\ UNCHANGED <<caller, queue, accepting, stopRequested, startupComplete, rawEnabled,
                 healthVars, localVars, session, diskVars, historyVars, reportVars>>

-----------------------------------------------------------------------------
(* Power loss or a kill: only the directory is left. *)
Crash ==
  /\ worker # "none"
  /\ caller' = "idle" /\ worker' = "none"
  /\ queue' = <<>>
  /\ accepting' = FALSE /\ stopRequested' = FALSE /\ startupComplete' = FALSE
  /\ workerStarted' = FALSE /\ rawEnabled' = FALSE
  /\ dropped' = 0 /\ workerError' = FALSE
  /\ hand' = <<>> /\ finalized' = FALSE
  /\ crashed' = crashed \cup {session}
  /\ drops' = 0 /\ reportedDrops' = 0
  /\ UNCHANGED <<session, diskVars, offers, accepted, settled, errorSeen>>

CallerStep ==
  \/ Start \/ Spawn \/ AwaitStartup \/ Close \/ Join
  \/ \E kind \in Kinds : Enqueue(kind) \/ DropWhenFull(kind)
  \/ TakeDroppedRecordCount \/ TakeWorkerError

WorkerStep ==
  \/ CreateMarker \/ OpenRaw \/ OpenMdf \/ Publish
  \/ TakeRecord \/ WaitForWork \/ WaitTimeout \/ WriteRecord \/ PeriodicFlush
  \/ StopDraining \/ FinalFlush \/ FinalizeMdf \/ RemoveMarker \/ Leave

Next == CallerStep \/ WorkerStep \/ Crash

Spec == Init /\ [][Next]_vars

(* The system schedules both threads, and every disk call returns.  The    *)
(* worker's own timeout is not relied on: with WaitTimeout excluded only a *)
(* wake-up ends its sleep.  Nobody has to call Start, Close or Enqueue.    *)
Fairness ==
  /\ WF_vars(Spawn) /\ WF_vars(AwaitStartup) /\ WF_vars(Join)
  /\ WF_vars(WorkerStep /\ worker # "waiting")

FairSpec == Spec /\ Fairness

-----------------------------------------------------------------------------
(* Properties *)

(* The scans of the log directory (LogStorageManager, ServiceLogCatalog)   *)
(* take a session for completed when it has files and no .active marker.   *)
ShownAsComplete(s) == (mdf[s] # "absent" \/ raw[s] # "absent") /\ ~marker[s]

Records(outcomes) == [i \in 1 .. Len(outcomes) |-> outcomes[i].record]

(* No record is lost, duplicated, reordered or carried over to the next    *)
(* session between enqueue and the sinks: while its process lives, what    *)
(* the current session accepted is what the worker wrote, then what it has *)
(* in hand, then the queue.                                                *)
NothingLostInQueue ==
  session # 0 /\ session \notin crashed =>
    accepted[session] = Records(settled[session]) \o hand \o queue

(* A session that the retention and the service web take for completed has *)
(* a finalized measurement, a flushed raw log, and an outcome for every    *)
(* record it accepted: the drain in workerMain comes before the marker is  *)
(* removed, however start, close and crashes interleave.                   *)
CompleteMeansFinal ==
  \A s \in Sessions : ShownAsComplete(s) =>
    /\ mdf[s] = "final"
    /\ raw[s] \in {"absent", "clean"}
    /\ accepted[s] = Records(settled[s])

(* Nothing is lost silently while the process lives: each refused record   *)
(* is in the count still to be taken or in one already reported, and a     *)
(* failed write has left an error that is pending or was reported.         *)
NoSilentLoss ==
  session # 0 /\ session \notin crashed =>
    /\ drops = dropped + reportedDrops
    /\ (\E i \in 1 .. Len(settled[session]) : ~settled[session][i].ok)
         => workerError \/ errorSeen

(* Once close() has returned nothing is open: no worker runs, isOpen() is  *)
(* false, nothing is queued for a session that does not exist and further  *)
(* records are refused.                                                    *)
ClosedMeansQuiet ==
  caller = "idle" /\ stopRequested =>
    /\ worker = "none"
    /\ ~workerStarted /\ ~accepting
    /\ queue = <<>>

(* close() and start() come back to the Qt thread whatever the disk does,  *)
(* even if the worker is only ever woken and never times out.              *)
CallerReturns == caller # "idle" ~> caller = "idle"

(* The logger implements SessionJournal: the worker's phase decides the    *)
(* status of the current session, and the queue and the record in hand are *)
(* the backlog.                                                            *)
Status(s) ==
  IF s > session THEN "unused"
  ELSE IF ~marker[s] /\ mdf[s] = "final" THEN "sealed"
  ELSE IF s # session \/ s \in crashed THEN "abandoned"
  ELSE IF worker \in StartupPC THEN "unused"
  ELSE IF worker \in LoopPC \cup FinishPC THEN "open"
  ELSE "abandoned"

Journal == INSTANCE SessionJournal WITH
  Backlog <- Capacity + 1,
  status <- [s \in Sessions |-> Status(s)]

ImplementsJournal == Journal!JSpec
=============================================================================
