---------------------------- MODULE LogRetention ----------------------------
(***************************************************************************)
(* The log directory and everyone who changes it: vehicle_loggerd, which   *)
(* enforces the storage policy at startup and on a timer                   *)
(* (src/logging/log_storage_manager.cpp, driven by                         *)
(* src/apps/vehicle_loggerd_main.cpp) and whose logging thread adds files  *)
(* and bytes; service_web, which deletes a session on request              *)
(* (service_web/src/service_log_catalog.cpp); the rest of the file system. *)
(*                                                                         *)
(* LogStorageManager::enforce looks at the directory once, decides from    *)
(* that picture while the directory changes under it, and looks again to   *)
(* reach its verdict.  Each look and each unlink is one action here.       *)
(*                                                                         *)
(* Sessions are numbered in the order of their UTC stems, which is the     *)
(* order of their last modification as long as the clock is not set back.  *)
(* Sizes are small numbers; the seven bytes of a marker count as none.     *)
(***************************************************************************)
EXTENDS Integers, Sequences, Functions

CONSTANTS
  MaxTotal,     (* maximumTotalBytes_, 0 for no limit                      *)
  MinFree,      (* minimumFreeBytes_                                       *)
  AgeLimited,   (* is maximumAgeSeconds_ > 0?                              *)
  DiskBytes,    (* the size of the file system                             *)
  MaxFile,      (* bound: bytes of one file                                *)
  MaxOther,     (* bound: bytes of everything that is not a log            *)
  MaxSessions   (* bound: sessions over the life of the directory          *)

ASSUME LimitsAssumption ==
  /\ MaxTotal \in Nat /\ MinFree \in Nat /\ AgeLimited \in BOOLEAN
ASSUME BoundsAssumption ==
  /\ DiskBytes \in Nat /\ MaxFile \in Nat /\ MaxOther \in Nat /\ MaxSessions \in Nat

Sessions == 1 .. MaxSessions
Kinds == {"active", "raw", "mf4"}   (* .active, .can.log, .mf4 *)
Files == Sessions \X Kinds

(* What scanSessions records of a session. *)
SessionRecord == [stem : Sessions, paths : SUBSET Kinds, bytes : Nat, old : BOOLEAN]

(* loggerd: SweepPC is inside enforce, "closeLog" is                       *)
(* AsyncSessionLogger::close, "loop" the Qt event loop.                    *)
SweepPC == {"scan", "examine", "remove", "measure", "verdict"}
LoggerPC == {"down", "startLog", "loop", "closeLog"} \cup SweepPC
WebPC == {"idle", "stat", "recheck", "unlink"}

VARIABLES
  pc,           (* where vehicle_loggerd is                                *)
  booting,      (* is the sweep the one before the session starts?         *)
  quitting,     (* is close() called from aboutToQuit?                     *)
  open,         (* logSink.isOpen()                                        *)
  session,      (* the newest session, 0 before the first                  *)
  dir,          (* the directory: the size of each existing file           *)
  other,        (* bytes in use on the file system that are not logs       *)
  aged,         (* sessions up to this one are older than the age limit    *)
  todo,         (* the scanned sessions that are still to be examined      *)
  victim,       (* the session being deleted, and ...                      *)
  left,         (* ... its files that still are to be removed              *)
  managed,      (* managed; after the second scan managedBytes_            *)
  available,    (* available or availableBytes_, -1: unknown               *)
  deleteError,  (* is lastError_ set by a failed removal?                  *)
  web,          (* where service_web is in deleteCompletedSession          *)
  webSession,   (* its sessionId                                           *)
  webNames,     (* the file kinds it has still to look at, in order        *)
  failed,       (* history: sessions this sweep could not remove           *)
  disturbed     (* history: did somebody else change the directory or the  *)
                (* free space during this sweep, or did it fail to remove  *)
                (* or to measure?                                          *)

sweepVars == <<todo, victim, left, managed, available, deleteError, failed>>
webVars == <<web, webSession, webNames>>
worldVars == <<other, aged, disturbed>>
vars == <<pc, booting, quitting, open, session, dir, sweepVars, webVars, worldVars>>

NoVictim == [stem |-> 1, paths |-> {}, bytes |-> 0, old |-> FALSE]

TypeOK ==
  /\ pc \in LoggerPC
  /\ booting \in BOOLEAN /\ quitting \in BOOLEAN /\ open \in BOOLEAN
  /\ deleteError \in BOOLEAN
  /\ session \in 0 .. MaxSessions
  /\ DOMAIN dir \subseteq Files
  /\ \A f \in DOMAIN dir : dir[f] \in 0 .. MaxFile
  /\ other \in 0 .. MaxOther /\ aged \in 0 .. session
  /\ todo \subseteq SessionRecord
  /\ victim \in SessionRecord \cup {NoVictim} /\ left \subseteq Kinds
  /\ managed \in Nat
  /\ available \in -1 .. DiskBytes
  /\ web \in WebPC /\ webSession \in 0 .. MaxSessions
  /\ webNames \in {<<"mf4", "raw">>, <<"raw">>, <<>>}
  /\ failed \subseteq Sessions /\ disturbed \in BOOLEAN

-----------------------------------------------------------------------------
(* The directory *)

Has(s, kind) == <<s, kind>> \in DOMAIN dir
FilesOf(s) == {f \in DOMAIN dir : f[1] = s}
Listed == {s \in Sessions : FilesOf(s) # {}}
BytesOf(s) == SumFunctionOnSet(dir, FilesOf(s))
TotalBytes == SumFunction(dir)
Free == DiskBytes - other - TotalBytes

(* One QFile::remove that succeeds. *)
Unlink(s, kind) == dir' = Restrict(dir, DOMAIN dir \ {<<s, kind>>})

Sweeping == pc \in SweepPC
Disturb == disturbed' = Sweeping

(* QStorageInfo::refresh and bytesAvailable, which may know nothing. *)
Measure == /\ available' \in {Free, -1}
           /\ disturbed' = (disturbed \/ available' = -1)

Init ==
  /\ pc = "down" /\ booting = FALSE /\ quitting = FALSE
  /\ open = FALSE /\ session = 0
  /\ dir = <<>>
  /\ other = 0 /\ aged = 0
  /\ todo = {} /\ victim = NoVictim /\ left = {}
  /\ managed = 0 /\ available = -1 /\ deleteError = FALSE /\ failed = {} /\ disturbed = FALSE
  /\ web = "idle" /\ webSession = 0 /\ webNames = <<>>

-----------------------------------------------------------------------------
(* vehicle_loggerd: LogStorageManager::enforce *)

Boot ==
  /\ pc = "down"
  /\ pc' = "scan" /\ booting' = TRUE
  /\ UNCHANGED <<quitting, open, session, dir, sweepVars, webVars, worldVars>>

CleanupTimer ==
  /\ pc = "loop"
  /\ pc' = "scan" /\ booting' = FALSE
  /\ UNCHANGED <<quitting, open, session, dir, sweepVars, webVars, worldVars>>

Scanned(s) ==
  [stem |-> s, paths |-> {k \in Kinds : Has(s, k)}, bytes |-> BytesOf(s),
   old |-> s <= aged]

Scan ==
  /\ pc = "scan"
  /\ pc' = "examine"
  /\ todo' = {Scanned(s) : s \in Listed}
  /\ managed' = TotalBytes
  /\ available' \in {Free, -1} /\ disturbed' = (available' = -1)
  /\ deleteError' = FALSE /\ failed' = {}
  /\ UNCHANGED <<booting, quitting, open, session, dir, victim, left, webVars, other, aged>>

(* enforce returns, and its local variables go.  What follows a bad result *)
(* is up to main: at startup the process exits, later it closes the log.   *)
ForgetSweep ==
  /\ todo' = {} /\ victim' = NoVictim /\ left' = {}
  /\ managed' = 0 /\ available' = -1 /\ deleteError' = FALSE /\ failed' = {}
  /\ disturbed' = FALSE

(* Faulty: the result is looked at only at startup. *)
EndSweepUnheeded(healthy) ==
  /\ pc' = IF healthy /\ booting THEN "startLog" ELSE IF booting THEN "down" ELSE "loop"
  /\ booting' = FALSE
  /\ ForgetSweep
  /\ UNCHANGED <<quitting, open, session, dir, webVars, other, aged>>

EndSweep(healthy) ==
  /\ pc' = IF healthy THEN IF booting THEN "startLog" ELSE "loop"
           ELSE IF booting THEN "down" ELSE "closeLog"
  /\ booting' = FALSE
  /\ ForgetSweep
  /\ UNCHANGED <<quitting, open, session, dir, webVars, other, aged>>

(* The directory is missing and cannot be created. *)
NoDirectory ==
  /\ pc = "scan"
  /\ dir = <<>>
  /\ EndSweep(FALSE)

(* Faulty: sorted the other way. *)
Newest(r) == r \in todo /\ \A q \in todo : r.stem >= q.stem
Oldest(r) == r \in todo /\ \A q \in todo : r.stem <= q.stem
(* Faulty: the limit itself counts as too much. *)
ReachedOrExceeded(r) ==
  \/ r.old
  \/ MaxTotal > 0 /\ managed >= MaxTotal
  \/ available >= 0 /\ available < MinFree
Exceeded(r) ==
  \/ r.old
  \/ MaxTotal > 0 /\ managed > MaxTotal
  \/ available >= 0 /\ available < MinFree
(* Faulty: the marker is not looked at. *)
DeletableAnyway(r) == Exceeded(r)
Deletable(r) == "active" \notin r.paths /\ Exceeded(r)

Skip ==
  /\ pc = "examine"
  /\ \E r \in todo :
       /\ Oldest(r)
       /\ ~Deletable(r)
       /\ todo' = todo \ {r}
  /\ UNCHANGED <<pc, booting, quitting, open, session, dir, victim, left, managed,
                 available, deleteError, failed, webVars, worldVars>>

Choose ==
  /\ pc = "examine"
  /\ pc' = "remove"
  /\ \E r \in todo :
       /\ Oldest(r)
       /\ Deletable(r)
       /\ todo' = todo \ {r}
       /\ victim' = r /\ left' = r.paths
  /\ UNCHANGED <<booting, quitting, open, session, dir, managed, available,
                 deleteError, failed, webVars, worldVars>>

(* The paths are in the order of the directory listing. *)
NextPath ==
  IF "active" \in left THEN "active" ELSE IF "raw" \in left THEN "raw" ELSE "mf4"

RemoveFile ==
  /\ pc = "remove"
  /\ left # {}
  /\ Has(victim.stem, NextPath)
  /\ Unlink(victim.stem, NextPath)
  /\ left' = left \ {NextPath}
  /\ UNCHANGED <<pc, booting, quitting, open, session, todo, victim, managed,
                 available, deleteError, failed, webVars, worldVars>>

(* The file is gone already or the file system refuses: the session is     *)
(* left as it is, without any accounting.                                  *)
RemoveFails ==
  /\ pc = "remove"
  /\ left # {}
  /\ pc' = "examine"
  /\ disturbed' = TRUE
  /\ deleteError' = TRUE
  /\ failed' = failed \cup {victim.stem}
  /\ victim' = NoVictim /\ left' = {}
  /\ UNCHANGED <<booting, quitting, open, session, dir, todo, managed, available,
                 webVars, other, aged>>

Account ==
  /\ pc = "remove"
  /\ left = {}
  /\ pc' = "examine"
  /\ managed' = managed - victim.bytes
  /\ Measure
  /\ victim' = NoVictim
  /\ UNCHANGED <<booting, quitting, open, session, dir, todo, left, deleteError,
                 failed, webVars, other, aged>>

Rescan ==
  /\ pc = "examine"
  /\ todo = {}
  /\ pc' = "measure"
  /\ managed' = TotalBytes
  /\ UNCHANGED <<booting, quitting, open, session, dir, todo, victim, left,
                 available, deleteError, failed, webVars, worldVars>>

Remeasure ==
  /\ pc = "measure"
  /\ pc' = "verdict"
  /\ Measure
  /\ UNCHANGED <<booting, quitting, open, session, dir, todo, victim, left, managed,
                 deleteError, failed, webVars, other, aged>>

Verdict ==
  /\ pc = "verdict"
  /\ EndSweep(/\ available >= 0 /\ available >= MinFree
              /\ MaxTotal = 0 \/ managed <= MaxTotal
              /\ ~deleteError)

-----------------------------------------------------------------------------
(* vehicle_loggerd: the session (AsyncSessionLogger gives the detail) *)

WithFiles(kinds) ==
  LET new == {session + 1} \X kinds
  IN  [f \in DOMAIN dir \cup new |-> IF f \in new THEN 0 ELSE dir[f]]

StartLog ==
  /\ pc = "startLog"
  /\ session < MaxSessions
  /\ session' = session + 1
  /\ \E kinds \in {Kinds, Kinds \ {"raw"}} : dir' = WithFiles(kinds)
  /\ open' = TRUE
  /\ pc' = "loop"
  /\ UNCHANGED <<booting, quitting, sweepVars, webVars, worldVars>>

(* start() fails before or after it has made its files; the process exits. *)
StartLogFails ==
  /\ pc = "startLog"
  /\ pc' = "down"
  /\ \/ UNCHANGED <<session, dir>>
     \/ /\ session < MaxSessions
        /\ session' = session + 1
        /\ \E kinds \in SUBSET Kinds : "active" \in kinds /\ dir' = WithFiles(kinds)
  /\ UNCHANGED <<booting, quitting, open, sweepVars, webVars, worldVars>>

(* The logging thread writes, also while the Qt thread is in enforce. *)
WriteLog ==
  /\ open
  /\ Free > 0
  /\ Disturb
  /\ \E kind \in Kinds \ {"active"} :
       /\ Has(session, kind)
       /\ dir[<<session, kind>>] < MaxFile
       /\ dir' = [dir EXCEPT ![<<session, kind>>] = @ + 1]
  /\ UNCHANGED <<pc, booting, quitting, open, session, sweepVars, webVars, other, aged>>

Quit ==
  /\ pc = "loop"
  /\ pc' = "closeLog" /\ quitting' = TRUE
  /\ UNCHANGED <<booting, open, session, dir, sweepVars, webVars, worldVars>>

(* close(): the marker goes when the session was finalized. *)
CloseLog ==
  /\ pc = "closeLog"
  /\ pc' = IF quitting THEN "down" ELSE "loop"
  /\ quitting' = FALSE
  /\ open' = FALSE
  /\ \/ UNCHANGED dir
     \/ open /\ Unlink(session, "active")
  /\ UNCHANGED <<booting, session, sweepVars, webVars, worldVars>>

Crash ==
  /\ pc # "down"
  /\ pc' = "down" /\ booting' = FALSE /\ quitting' = FALSE /\ open' = FALSE
  /\ ForgetSweep
  /\ UNCHANGED <<session, dir, webVars, other, aged>>

-----------------------------------------------------------------------------
(* service_web: ServiceLogCatalog::deleteCompletedSession.  A request for  *)
(* a session with a marker is refused at once and changes nothing.  The    *)
(* name of a session is known once the catalog has shown it.               *)

WebDelete(s) ==
  /\ web = "idle" /\ s <= session
  /\ ~Has(s, "active")
  /\ web' = "stat" /\ webSession' = s /\ webNames' = <<"mf4", "raw">>
  /\ UNCHANGED <<pc, booting, quitting, open, session, dir, sweepVars, worldVars>>

WebReturns == web' = "idle" /\ webSession' = 0 /\ webNames' = <<>>

WebStat ==
  /\ web = "stat"
  /\ IF webNames = <<>>
     THEN WebReturns
     ELSE /\ UNCHANGED webSession
          /\ IF Has(webSession, webNames[1])
             THEN web' = "recheck" /\ UNCHANGED webNames
             ELSE web' = "stat" /\ webNames' = Tail(webNames)
  /\ UNCHANGED <<pc, booting, quitting, open, session, dir, sweepVars, worldVars>>

WebRecheck ==
  /\ web = "recheck"
  /\ IF Has(webSession, "active")
     THEN WebReturns
     ELSE web' = "unlink" /\ UNCHANGED <<webSession, webNames>>
  /\ UNCHANGED <<pc, booting, quitting, open, session, dir, sweepVars, worldVars>>

(* QFile::remove fails when the file is gone already or cannot be removed. *)
WebUnlink ==
  /\ web = "unlink"
  /\ \/ /\ Has(webSession, webNames[1])
        /\ Unlink(webSession, webNames[1])
        /\ Disturb
        /\ web' = "stat" /\ webNames' = Tail(webNames)
        /\ UNCHANGED webSession
     \/ /\ WebReturns
        /\ UNCHANGED <<dir, disturbed>>
  /\ UNCHANGED <<pc, booting, quitting, open, session, sweepVars, other, aged>>

-----------------------------------------------------------------------------
(* The world *)

OthersWrite ==
  /\ Disturb
  /\ \/ other < MaxOther /\ Free > 0 /\ other' = other + 1
     \/ other > 0 /\ other' = other - 1
  /\ UNCHANGED <<pc, booting, quitting, open, session, dir, sweepVars, webVars, aged>>

(* Time passes.  The session being written is always recent. *)
Age ==
  /\ AgeLimited
  /\ aged < (IF open THEN session - 1 ELSE session)
  /\ aged' = aged + 1
  /\ UNCHANGED <<pc, booting, quitting, open, session, dir, sweepVars, webVars, other, disturbed>>

SweepStep ==
  \/ Scan \/ NoDirectory \/ Skip \/ Choose \/ RemoveFile \/ RemoveFails
  \/ Account \/ Rescan \/ Remeasure \/ Verdict
LoggerStep == SweepStep \/ StartLog \/ StartLogFails \/ CloseLog
WebStep == (\E s \in Sessions : WebDelete(s)) \/ WebStat \/ WebRecheck \/ WebUnlink

Next ==
  \/ LoggerStep \/ Boot \/ CleanupTimer \/ Quit \/ WriteLog \/ Crash
  \/ WebStep \/ OthersWrite \/ Age

Spec == Init /\ [][Next]_vars

(* The Qt thread runs its handlers to the end and its cleanup timer fires. *)
Fairness == WF_vars(LoggerStep) /\ WF_vars(CleanupTimer)
FairSpec == Spec /\ Fairness

-----------------------------------------------------------------------------
(* Properties *)

OverLimit == (MaxTotal > 0 /\ TotalBytes > MaxTotal) \/ Free < MinFree

(* While a session is being written its marker and its measurement exist,  *)
(* whatever sweep or web request is under way with whatever stale picture  *)
(* of the directory.                                                       *)
CurrentSessionIntact ==
  open => Has(session, "active") /\ Has(session, "mf4")

(* Nobody deletes a file of a session whose .active marker exists, except  *)
(* the marker itself when its own session is closed: a session that was    *)
(* left incomplete by a crash keeps all its files.                         *)
MarkedIsProtected ==
  [][\A f \in DOMAIN dir :
       f \notin DOMAIN dir' /\ Has(f[1], "active") =>
         pc = "closeLog" /\ open /\ f = <<session, "active">>]_vars

(* Retention takes the oldest completed session first: when it deletes a   *)
(* file of session s, every older session is gone, incomplete or one this  *)
(* sweep could not delete.                                                 *)
OldestFirst ==
  [][pc = "remove" /\ left # left' /\ dir # dir' =>
       \A s \in Listed : s < victim.stem => Has(s, "active") \/ s \in failed]_vars

Unmeetable == OverLimit /\ \A s \in Listed : Has(s, "active")

(* A sweep that nobody disturbs deletes a session that is not too old only *)
(* when the directory is over a limit at that moment, and ends logging     *)
(* only when the completed sessions could not satisfy the limits: the      *)
(* directory is over, and no completed session is left.                    *)
SweepWithinPolicy ==
  [][/\ Choose /\ ~victim'.old /\ ~disturbed => OverLimit
     /\ pc = "verdict" /\ pc' = "closeLog" /\ ~disturbed => Unmeetable]_vars

(* A directory over its limits is brought back, or logging ends: whatever  *)
(* the writer, the web and the rest of the system do meanwhile.            *)
LimitsEnforced == open /\ OverLimit ~> ~open \/ ~OverLimit

(* The sessions seen from outside live as SessionJournal says: in          *)
(* particular an abandoned session never turns into a completed one.       *)
Status(s) ==
  IF s > session THEN "unused"
  ELSE IF ~Has(s, "active") THEN "sealed"
  ELSE IF s = session /\ open THEN "open" ELSE "abandoned"

Journal == INSTANCE SessionJournal WITH
  Record <- {}, Backlog <- 1,
  status <- [s \in Sessions |-> Status(s)],
  accepted <- [s \in Sessions |-> <<>>],
  settled <- [s \in Sessions |-> <<>>]

ImplementsJournal == Journal!JSpec
=============================================================================
