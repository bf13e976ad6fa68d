# MX5 display and logging module in TLA+

TLA+ specifications of the C++ programs under `src/display_logging_module/SW`
(`SW` below): the logger `vehicle_loggerd`, the dash, and the service web. TLC
checks the specifications on small instances; TLAPS proves all their safety
properties and refinements for every instance. Each definition is translated from the source;
`PROJECT.json` maps it to its lines.

## The system

`vehicle_loggerd` reads CAN and VN300 data (live, simulated or replayed),
decodes it to samples, publishes the samples on a local socket and writes them
to a session log. Any number of dashes read the socket; they show values, raise
warnings and turn wheel buttons into actions. The service web lists, downloads
and deletes session logs, edits the configuration and restarts services. The
three are processes of their own that share the socket, the log directory and
the configuration files.

| Component | State | Operations | Talks to | What is hard | What makes it correct |
|---|---|---|---|---|---|
| `AsyncSessionLogger` | queue, flags, worker thread, error and drop counters, the session's files and `.active` marker | start, close, write, take health | Qt thread and worker by mutex and two conditions; log directory | two threads, failing disk, crash, queue limit | nothing accepted is lost, a session looks complete only when it is, nothing fails silently, close returns |
| `LogStorageManager` | limits, last scan, verdict | enforce, samples | log directory, with the writer and the web | decides from a stale scan, removals fail | marked sessions are kept, oldest first, only over a limit |
| `ServiceLogCatalog` | none | list, download, delete | log directory | check, then delete | marked sessions are kept |
| `SignalIpcServer`, `IpcSignalSource` | latest values, pending values and events, clients; connection and buffer | publish, flush, accept; connect, read, reconnect | each other by a local socket | clients come, go and are slow; restarts; snapshot against pending data | events complete and in order, values converge |
| `DashInputController`, `WcmSimulator` | pressed buttons, last event; button states | samples to actions; edges to frames | through the logger and its socket | events and coalesced status arrive out of step | one action for each press |
| Acquisition (`main`, `CanBusEndpoint`, `DecodedLogPolicy`, `SourceHealthMonitor`) | device, schedules per signal, source states and times of reception | a sample in, timers | logger, socket | a full queue, connection states that lie, two callbacks for one state | rates are kept, health is true |
| `Vn300SerialSource`, `Vn300LocalSource`, `Vn300BinaryParser` | socket, reconnect timer, buffer | connect, read, consume | main, sensor or simulator | pieces, lost bytes, false syncs, a line that breaks | an intact packet is decoded once and in order, the source comes back |
| Replay (`CanReplaySource`, `Vn300ReplaySource`, `ReplayControl*`) | position, speed, timer | play, pause, seek, speed | main, dash, web | commands against a pending timer, end of recording | every record once and in order between seeks |
| Warnings (`WarningEvaluator`, `WarningManager`, `DashConfigStore`) | limits, levels with candidates and delays, the list of warnings | samples, timers, actions | input controller, data source | hysteresis, timers, limits that follow other signals, a change while shown | warned in time, taken back only after the delay, silenced only as shown |
| `NavigationController`, `SignalValueProvider`, `SignalHistoryStore` | page and menu, values, history | actions, samples | input controller, data source | each call stands alone | stale values are shown as such |
| `ServiceConfigManager` | candidate, backup, active files | stage, activate | configuration files, with editors | failing writes, crash during activation, a set that changes after staging | the active set is always one valid set, and the one asked for |
| `SimpleHttpServer`, `ServiceActionRunner`, `ServiceDataStore` | sockets, buffers, downloads, the running action | requests | browser, log directory | partial requests, timers, stalled downloads, growing files | one answer each, whole files, no connection for ever |
| `ProcessTerminationMonitor`, `SystemdNotifier` | a flag set by a signal handler | poll | main | the flag is read and cleared without a lock | a signal ends the process |
| CAN endpoint, decoders, codecs, simulators, QML, tools | | | | stateless conversions, presentation | covered by the repository's tests |

All rows but the pages of the dash and the last one are modelled, with the
parts left out that "Not modelled" lists.

## Modules

    SessionJournal            what a session log promises
      ^ implemented by
    AsyncSessionLogger        <- AsyncSessionLoggerProofs, MCAsyncSessionLogger
    LogRetention              <- LogRetentionProofs, MCLogRetention
    SignalIpc                 <- SignalIpcProofs, MCSignalIpc
      ^ extended by
    DashInput                 <- DashInputProofs, MCDashInput
    ReplayPlayer              what a replay promises
      ^ implemented by
    Replay                    <- MCReplay
      ^ extended by
    ReplayControl             <- ReplayProofs, MCReplayControl
    WarningManager
      ^ extended by
    Warnings                  <- WarningsProofs, MCWarnings
    HttpServer, ServiceConfig
      ^ extended by
    ServiceWeb                <- ServiceWebProofs, MCServiceWeb
    Vn300Stream
      ^ extended by
    Acquisition               <- AcquisitionProofs, MCAcquisition

`AsyncSessionLogger` shows a session from the inside, `LogRetention` the same
sessions from the directory; both implement `SessionJournal`. The MC modules
only give values to constants. Operators introduced by "Faulty" are variants of
the code with a plausible mistake; no specification uses them. Each of them, put
in the place of the operator that follows it, must break the property that
`PROJECT.json` names under "mutants".

### SessionJournal

Sessions are opened one at a time, accept records, settle them in order with a
result, and end sealed (complete) or abandoned. At most `Backlog` records wait.

### AsyncSessionLogger

One variable for each field of the class and of the worker's frame; `caller` and
`worker` are the program counters of the two threads. A critical section of
`mutex_` is one action: `RequestStop` in `close`, `Spawn` and `AwaitStartup` in
`start`, `Enqueue` and `DropWhenFull` in `enqueue`, `TakeRecord` or
`WaitForWork` in the loop of `workerMain`. So is each file operation:
`CreateMarker`, `OpenRaw`, `OpenMdf`, `WriteRecord`, `PeriodicFlush`,
`FinalFlush`, `FinalizeMdf`, `RemoveMarker`, all of which may fail. `Crash`
leaves the directory only. `workAvailable_` and `startupCompleteCondition_` are
the states "waiting" and "sleeping". A flush that reports success is taken to
have written everything: error states that Qt's text stream keeps to itself are
left out. History variables record what was accepted, settled, refused and
reported.

### LogRetention

`dir` maps each existing file to its size. `enforce` is the sequence `Scan`,
then `Skip` or `Choose` for each session with `RemoveFile`, `RemoveFails` and
`Account` for a chosen one, then `Rescan` and `Verdict`. The result is used as
in `main`: at startup a bad one ends the process, later it closes the log.
`StartLog`, `WriteLog` and `CloseLog` are the logger as far as the directory
shows it. `WebDelete`, `WebStat`, `WebRecheck` and `WebUnlink` are
`deleteCompletedSession`, one file system call each. Anyone may act during a
sweep and every operation may fail; the history variable `disturbed` remembers
whether it happened, for the properties that only an undisturbed sweep can have.
Sessions are numbered in the order of
their stems: the clock is not set back. The seven bytes of a marker count as
none.

### SignalIpc

`latestState`, `pendingLatest` and `pendingEvents` are the containers of the
server. `link[c]` is a connection seen from both ends, so that either end may
know of a close first; `channel[c]` holds the frames on their way. A sample
carries its time, as in the code, and its run of the logger, which only the
properties read. The definitions frame, names, units and the byte stream are
abstracted. The history variable `leftover` remembers that the last dash has
left while samples were pending: only then may a view go back.

### DashInput

Extends `SignalIpc` with the wheel (`Edge`, `Status`) and with a controller for
each dash, which `ReadSamples` updates as `processSamples` does: the events of a
frame in order, then its status. `Glued` says whether the status that the
simulator sends right after an edge reaches the logger in the same display frame
as its event. With it, a restarted logger has shown the connected dashes a
status before the next edge. A dash connects with nothing pending: what was
pending before the 500 ms of its reconnect timer has been flushed, and what is
published between connecting and being accepted is pending anyway. The
properties hold until `leftover`.
`statusInitialized_` is left out, as it makes no difference once every button is
known. Actions are counted, not named; the keyboard has no state.

### ReplayPlayer and Replay

`ReplayPlayer` has a cursor that moves through the records while playing, and
may be moved. `Replay` has the fields of `CanReplaySource`, which
`Vn300ReplaySource` repeats: `start`, `pause`, `resume`, `seekToNs`,
`setSpeedFactor` and `emitNextBatch` with `scheduleNext` as `Schedule`, below
the command handler and the `replayFinished` handler of `main` (`Play`,
`PauseReplay`, `Seek`, `SetSpeed`, `ReplayFinished`). Calls that return early
are decided in the handlers. Time is in small units, `Ms` to the millisecond of
the timer; `Tick` is the clock, and `EmitNextBatch` may come any time after the
timer is due. `elapsed` is kept only as long as the position depends on it. The
speeds are whole numbers. `media` and `played` are history: how far the
recording has come if one counts ticks, and what has been played.

### ReplayControl

Extends `Replay` with the control connection. `link[c]` is again seen from both
ends; a result and the status that follows it are one message. `Slow` is the
limit on what a client has not read, checked before each message. A command read
from a client that has left or is hung up on is still performed. `LoggerEnds`
covers a quit and a crash, and `NoticeClosed` may leave half a line in the
buffer of the client, which spoils the first line of the next connection:
nothing depends on that line, because the server sends a status first.

### WarningManager and Warnings

`WarningManager` has the calls of the class as functions on its list and index,
because one evaluation makes several of them. `Warnings` is one signal, with the
thresholds and the freshness of `WarningEvaluator` and the limits and the
enabling that `DashConfigStore` resolves from other signals; signals meet in the
list only, where a demo warning stands for the others. `presentation`, which never
changes, is what else is configured of the signal: a freshness rule or none, and a
condition for its enabling, with its fallback, or none. An evaluation is one
action: `SamplesAvailable` for a batch, which the store sees first, and
`EvaluationTimer`. `FreshnessTimer` resolves limits without evaluating. Time
stamps are represented by ages in ticks of the evaluation timer, which is late
by less than a tick. What the code keeps and never reads again is dropped: with a
freshness rule the values from before the enabling; a candidate without a time
stamp; a source that is stale or that nothing follows.
`breach` and `calm` are history: since when the evaluations have found the value
beyond a limit, or back from it. `NavigationController`, which gets what
`HandleAction` leaves, is not modelled.

### HttpServer, ServiceConfig and ServiceWeb

`HttpServer` has the two maps of `SimpleHttpServer` (`buffers`, `downloads`),
the timers of `acceptConnections` and a socket for each browser with what waits
in its output. `disconnectFromHost` is the state "closing": what waits is
written first. A download is `AnswerWithFile`, then `WriteFileChunk` whenever
something has been written; the file may grow and be deleted meanwhile, and a
read may fail. Requests are read when they are complete; one that is not yet
complete only fills its buffer. `ServiceConfig` is `stage` and `activate`, the
latter in the steps `Validate`, `SavePrevious` and `Replace`, between which
others may edit and the process may end. The contents of a file are whether it
can be parsed and the names that it defines or refers to, which is what
`validateSet` compares. `ServiceWeb` is the handler of `main`: one action for
each kind of request. An activation takes several steps, and while it goes on
the thread does nothing else (`Free`). `ActionRequest` and `ActionEnds` are the
maintenance command with `QProcess`; what came of it is only shown, and is left out. Replay commands are written to the logger
and answered at once: they are `OtherRequest` here, and `ReplayControl` there.

### Vn300Stream and Acquisition

A stream consists of symbols instead of bytes, five to a packet: what the parser
tells apart is a sync byte, a header with a length, "incomplete", and whether
the CRC fits. One kind of payload looks like the sync byte and the header of a
longer packet. `Parse` is the loop of `consume`. Corrupt packets come from the
simulator, mutilated ones from the serial line; that a wrong CRC fits by chance
is excluded. `owed` is history: the intact packets read in full and not decoded.
Every packet is taken to yield samples, as those of the simulator do.

`Acquisition` is the process with live sources: `CanFrame` is `processRecord`
with the policy and the queue behind it, `Vn300Read` and `Vn300Step` are the
VN300, `HealthTick` is the health timer that asks the sources and publishes
their health, the other actions are the start of `main`, its failure, the
termination flag with its poll, and systemd. Time is in periods of the health
timer (100 ms), time stamps are ages up to `Never`. The error handlers' own
`setVn300State` is overwritten by the next tick before anybody looks. In a
replay the health tick does nothing: that is left to `Replay`. One signal is
followed to the log; schedules of different signals are apart. A socket
whose connection is refused is taken to be unconnected when it reports the
error, so that the reconnect timer of `Vn300LocalSource` runs on; this is up to
Qt.

## Runs

| Run | Instance | Shows |
|---|---|---|
| `AsyncSessionLogger` | queue of 2, 2 sessions, 3 records | types; nothing is lost in the queue; complete means final; no silent loss; closed means quiet; implements `SessionJournal`; start and close return |
| `LogRetention` | 2 sessions, limits on total, free space and age | marked sessions and the current one are kept; oldest first; implements `SessionJournal`; over the limit, then back or not logging; an undisturbed sweep deletes only over a limit and ends logging only when no completed session is left |
| `SignalIpc` | 2 dashes, 2 logger runs, a signal and an event, 3 samples | events complete and in order; views catch up and never go back until `leftover`; values arrive, dashes reconnect |
| `SignalIpcLeftover` | 2 dashes | violation: a new value, then the old one |
| `DashInput` | 2 dashes, 1 button, 3 edges, `Glued` | no phantom action, every press acts |
| `DashInputStatus` | not `Glued` | violation: two actions for one press |
| `DashInputRestart` | 2 logger runs, `Glued` | violation: presses ignored after a restart |
| `Replay` | 5 recordings of up to 4 records, 3 speeds, any number of commands | implements `ReplayPlayer`; a timer is set for a record while playing; the position is true; never early; finished is at rest; the replay ends, and uncontrolled the process |
| `ReplayControl` | 1 client, 2 commands, 2 logger runs | one answer for each command; status converges, answers arrive |
| `Warnings` | three limits, one behind a signal with fallback, 3 configurations of freshness rule and condition, 5 values, a demo warning | list and levels agree; warned in time; taken back only when calm; silenced only as shown |
| `ServiceWeb` | 2 browsers, one place, a log file of up to 2 chunks, 1 unit of output, 2 candidates and tokens, 1 edit, 1 command | one answer each; whole files; the set stays valid; activated as staged; connections end |
| `Acquisition` | serial or local VN300, time-out and interval of one period, 4 configurations | intact packets delivered; health honest; logged at rate; the VN300 comes back; termination ends |

The bounds. Two sessions are enough for a start to meet what the previous
session left behind; a queue of two with three records fills, refuses and
reorders, if it can. Two sessions of retention are one that is written and one
that is older, complete, marked or being deleted by the web. Two dashes are enough for one to be served
while the other is accepted, aborted or gone; a backlog of one frame and three
samples reach the abort. Three edges are press, release, press. A second run of
the logger is enough for everything that a dash carries over. The recordings
have equal times, gaps shorter and longer than a millisecond, and each reason to
be refused; the clock may run past the end of each. One client is enough for
the connection, as clients meet only in the replay, where `Replay` has
any command at any time. The five values of `Warnings` are beyond each limit,
within each hysteresis and normal; its delays are of one or two ticks, so that a
change can come before, at and after each; the limit behind a signal may fall
below the other one and be lost. Of the configurations, one has both a freshness
rule and a condition, which is false without its signal; one has only a condition,
which is then true; one has only a freshness rule.
One place among two browsers makes one of them refused. A download is announced
with 0, 1 or 2 chunks; one that is announced with 1 grows to 2 while it is
written, also by a read after the announced end; that, an output of one unit and
a read that gives nothing reach every branch of `WriteFileChunk`, and a file may
be deleted with its second chunk unread. Of the two candidates, one is a companion
of the other and takes the name away that it refers to, as does the edit; two
tokens are one that is overtaken. In `Acquisition` the next
packet may be sent while one symbol of the last is unread, so that reads end
anywhere and a false sync meets the packet behind it; a time-out of one period
is reached, kept and exceeded.
`MaxTokens`, `MaxEdits`, `MaxAge`, `MaxElapsed`, `MaxCommands`, `MaxStarts`, `MaxTime`, `MaxRuns`, `MaxEdges`, `MaxOffers`, `MaxSessions`, `MaxFile` (of `LogRetention` and `HttpServer`) and
`MaxOther` are bounds of the models, not of the code; the others are parameters
of the code. `SYMMETRY` over the dashes is used in runs without liveness.

Fairness. `AsyncSessionLogger`: both threads are scheduled and disk calls
return; the worker's sleep is ended by a wake-up only, so the run does not lean
on its timeout. `LogRetention`: the Qt thread finishes its handlers and the
cleanup timer fires. `SignalIpc`: the event loops of both processes run, the
flush and reconnect timers fire. `Replay`, `ReplayControl`: time passes, the
batch, status and reconnect timers fire, the event loops run. Nobody has to
start, stop, publish, connect a dash, delete, write or send a command.
`ServiceWeb`: the steps of an activation and the
event loop come for each connection, strongly, because activations keep the
thread busy in between; browsers read what they are sent. Nobody has to send a
request. `Acquisition`: `main` comes to its end, the health timer, the poll and
the reconnect timer fire, what has arrived is read, and the VN300 sends intact
packets again and again as long as it is connected (strongly: corrupt ones may
come between). Nobody has to plug it in, start the simulator, send CAN frames,
or end the process.
`Warnings` needs none: its properties are about what has happened by the end of
an evaluation.

## What the code does differently from what it says

Three runs expect a violation; `PROJECT.json` "findings" quotes the sentences.

- Samples pending when the last dash leaves reach the next one after a newer
  snapshot (`SignalIpcLeftover`).
- A status older than an event of the same frame is applied after it
  (`DashInputStatus`). A status every 50 ms and a flush every 33 ms make this an
  ordinary case when edge and status are not sent together.
- A dash that outlives the logger compares event times of two clocks
  (`DashInputRestart`).

More were met while translating and have no run of their own. Retention deletes
a session it need not when the web deletes one during the sweep, and ends
logging although completed sessions remain when the writer crosses the limit
between the two scans: that is why `SweepWithinPolicy` is
about undisturbed sweeps. An unsatisfiable policy
at startup ends the process (`Verdict` while `booting`), where
SW/README.md:338-340 lets acquisition and the dash continue. A paused replay
that is moved to its end and played comes to rest with the status "stopped",
not "finished": the handler resets the flag after `resume` has set it.
A value that stays above the caution limit and keeps crossing the warning limit
is neither warned of nor cautioned: each crossing changes the candidate and
starts its delay anew (`Candidate`), where dash_ui/README.md:94-95 has the delay
apply to the value crossing the limit; `WarnedInTime` is therefore about a value
that stays beyond the warning limit. Low and high warning limits are not
compared with each other when they are loaded or resolved: where they overlap, a
low limit that moves may change the kind of a pending warning and start its delay
anew. A value beyond both counts as beyond the low one, in the code and in
`WarnedInTime`. Samples that are no numbers suspend the
evaluation but not the delay of a candidate. When a warning before the shown one
is taken back, the one shown changes, as the index is not moved.


In the service web: downloads do not count as clients, where
service_web/README.md:19 limits "active clients to 16"; the answer "too many
connections" is written to a socket that is deleted before it is sent (`Accept`);
a browser that has sent a malformed request and does not read is answered a
second time when its five seconds are over; a log that grows is sent beyond the
announced length; a failed read leaves a download without a timer or an end
(`stalled`), and so does a browser that stops reading. A failed activation has
replaced `.previous` already; an edit between its validation and its last write
is lost; a process that ends leaves its staging file behind. A command that is
killed is reported without its name, as `errorOccurred` clears it before
`finished`, which the model leaves out with all results of commands.

In the acquisition: a source is healthy "only when connected and receiving valid
data" (SW/README.md:466-468), but CAN frames count as received before they are
decoded, so that undecodable ones keep the bus healthy (`CanFrame`); a serial
port stays open without its plug, so that only the time-out tells; a CAN device
that has disconnected is not connected again until the process restarts
(`CanLost`). An intact packet behind a false sync is decoded only when more
bytes have come, and then stamped with that time. `shouldLog` moves the schedule
although the queue refuses the record: the hole may be as long as two intervals.
A termination signal between the two accesses of the poll to its flag is lost;
systemd sends SIGKILL in the end.

## Proofs

Every invariant, action property and refinement of the passing runs is a theorem
of the specification that the run checks. The theorems hold for every value of
the constants that satisfies the named assumptions: capacities, intervals and
time-outs are positive, which the code checks or has as literals; bounds are
natural numbers; sets of names are what their uses need. Each proof has an
inductive invariant with one step for each action. None of the properties is
inductive by itself; what is added is listed here.

**Induction over data.** Sequences, counts and sums are handled without an
induction principle over operators: the set of natural numbers up to which a
statement holds is all of them (`SetInduction`, from the least element of its
complement). Recursive functions (`Parse`, `CompletedBy`, and those below
`FlattenSeq`) and sums over finite sets are reached in this way.

**`AsyncSessionLoggerProofs`** (capacity positive). `TypeCorrect`,
`QueueConserves`, `CompleteIsFinal`, `ClosedIsQuiet`, `LossesAreReported`. The
invariant adds what the program counters say: which flags hold while a worker
lives and what is on disk at each of its steps (no measurement before `OpenMdf`,
a drained queue from `FinalFlush` on, a finalized measurement and a clean raw log
at `RemoveMarker` when `finalized`), and that sessions not started yet have
neither files nor records. `LoggerIsJournal` is the refinement of
`SessionJournal`: the status of a session follows from the worker's step and the
files, and the records that wait in the journal are what is in hand and queued.

**`LogRetentionProofs`** (all limits and sizes). `CurrentSessionStays`,
`MarkerProtects`: a session chosen for deletion, by the sweep or the web, is
older than the open one or had no marker when it was chosen, and a marker never
comes back, so that stale pictures of a session without marker stay true.
`OldestGoFirst`: every session is still to be examined, is the victim, has a
marker, could not be deleted, or was passed over within the limits, in which case
nothing that follows is too old (`AllSettled`). `SweepFollowsPolicy`: in an undisturbed
sweep the byte count of the sweep is the sum over the files there are, but for
the part of the victim that is gone, and once everything has been examined the
limits are met or only marked sessions are left (`Books`). `SessionsLiveOnce` is
the refinement of `SessionJournal`.

**`ServiceWebProofs`** (the files are a valid set at first). `FilesStayValid`,
`ActivationsAsStaged`: what is staged is what its token was given for, and an
activation in progress is about what is staged, and validated beside the files in
use unless an edit that came between is remembered. `OneAnswer`,
`DownloadsAreWhole`: an open connection is either being read and unanswered or a
download with one answer, never both; what a download has written and has in its
output is what it has read and its header; a closing one has more than the
announced length written or waiting (`Connection`).

**`AcquisitionProofs`** (any time-out, interval and configurations whose groups
have one of the three modes). `HealthIsHonest`: without a connection nothing is
there to be read, so the last reception is at least as old as the absence, also
beside a serial port that stays open. `LogKeepsRate`: the schedule of a signal is
as old as its last record unless the queue refused since, and only a
configuration that was loaded is in use. `NoPacketIsLost`: an intact CRC in the
buffer or on its way has the rest of its packet before it, whatever was lost or
corrupt earlier (`WellFormed`); by induction over the buffer, what `Parse` takes
out and what is completed in the rest it leaves are what was completed in the
whole (`ParseKeeps`). A read may end anywhere in between.

**`SignalIpcProofs`** (any dashes, signals, values, events and runs).
`EventsReachTheDash`: what was read, is on its way and is pending, put together,
is what was published for the connection (`Accounted`, with lemmas about
`FlattenSeq`). `DashCatchesUp`: for each signal the last frame on its way, or the
pending value, or else the view itself is the latest value (`Informed`).
`NoStepBack`: no frame is older than what is read before it, and nothing is newer
than the latest values or from a later run (`Chronological`). The latter two hold
until `leftover`, as the run `SignalIpcLeftover` shows that they must.

**`DashInputProofs`**, which extends the former. Both theorems are about what a
dash will have done once it has read everything: a fold of the controller over
the frames on their way and then the pending events. `NoDashActsTooOften`: that
outcome never exceeds the presses, counting the action that a button may
still cause which is held and known, but not as pressed (`Potential`), for a dash that is yet to
be accepted with any snapshot that it may get; and pending events are followed by
a status, pending or due (`Wheel`). `Glued` is a hypothesis, because
`DashInputStatus` shows the property to be false without it. `NoPressIsLost`: the
outcome has at least one action for each press due, agrees with the wheel on all
buttons it knows, and its last event is not in the future (`UpToDate`). `MaxRuns = 1`
is a hypothesis, because `DashInputRestart` shows that a restart breaks it.

**`ReplayProofs`** (any recordings, speeds and positions). `AlwaysScheduled`: the
fields of the source form phases (`Phase`). `PositionStaysTrue`: the position is
the recording's progress and its base never beyond the end, where going on would
lose it (`Positioned`). `RecordsInTime`: whichever call sets the timer, it is for
the next record and too early by less than a unit (`Timed`). `ReplayIsPlayer` is
the refinement of `ReplayPlayer`. `CommandsAnsweredOnce`, about `ReplayControl`:
commands asked are those unread, those answered on the way and those answered;
half a line of an earlier connection can only spoil the greeting (`Tallied`).

**`WarningsProofs`** (any limits, delays and demo warnings, with and without a
freshness rule and a condition, ages counted at least as far as each delay). `ListIsEvaluation`, `WarningsComeInTime`,
`ClearedAfterCalm`, `ShownIsSilenced`. Calls of the manager are followed through
one evaluation by lemmas about its list; the invariant adds that a candidate is
at least as old as the breach, or the silence, or not older than the calm, that
it stands for (`Pressing`, `Falling`, `Calming`).

Trying to prove them has changed the model where it could not be reasoned about
or said less than it should: `Parse` and `CompletedBy` are recursive functions on
sequences; the last frame that carries a signal is a maximum of positions, and the
list of warnings is filtered by positions; and `WarnedInTime` had to say what happens where
the warning limits overlap.

Model-checked only: the liveness properties `CallerReturns`, `LimitsEnforced`,
`ValuesArrive`, `ReplayEnds`, `ClientInformed`, `ConnectionEnds`, `Vn300Returns`
and `TerminationEnds`, which need fairness and ENABLED, beyond this prover. The
three violations are counterexamples that TLC finds. That the map, the fields and
the steps of a model are those of the code is a matter of reading.


## Not modelled

- The pages of the dash, its value and history stores, and `ServiceDataStore`:
  values kept for display, each call stands alone. `SignalRegistry` is written
  and never read.
- The DBC decoder, the candump and VN300 log codecs, formats of MDF4 and of the
  raw log, and the encoding of IPC frames: conversions without state, tested in
  the repository.
- The engine simulator, the panels and the curves of the VN300 simulator: test
  equipment that reacts to nothing.
- The order of time stamps within a measurement, the buffering inside Qt's text
  stream, and clocks that are set back.
- `SystemdNotifier`: it writes datagrams and gets no answer.
- QML, unit files, scripts, tests. `power_distribution_module` has documents
  only.

## Plan

Every safety property that a run checks is proved. What is left:

- Theorems that no run needs but that would tell more: that a glued edge is acted
  on at most once per dash across a restart as well as at least once as soon as
  the new clock has passed the last event of the old one; that the two refinements
  of `SessionJournal` fit together, a session as the worker leaves it being one
  that retention may find.
- One composition of acquisition, logger and socket, to follow a sample from a
  device to a dash and a log. Its parts meet in calls of one thread, so that it is
  expected to show little that the parts do not.
