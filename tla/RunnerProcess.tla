---------------------------- MODULE RunnerProcess ----------------------------
(***************************************************************************)
(* One station, start after start of the Windows runner: main.cpp from the *)
(* launch to the end of the process, with utils.cpp, crash_handler.cpp,    *)
(* stderr_interposer.cpp, runner_log.cpp, shutdown_policy.cpp and          *)
(* win32_window.cpp.                                                       *)
(*                                                                         *)
(* The start chooses where output goes, moves the older logs aside, opens  *)
(* its own and installs the crash handlers, and may be killed between any  *)
(* two steps.  While it runs, threads write lines to stderr, which is a    *)
(* pipe to a thread of the runner that forwards every chunk and looks for  *)
(* the engine's error storm; where stderr leads to may in turn be a pipe   *)
(* to a second thread.  A full pipe blocks its writers, a console in which *)
(* the operator selects text blocks whoever writes to it.                  *)
(*                                                                         *)
(* External: Windows.  It runs the application again after a crash nobody  *)
(* handled if the runner asked for that, and not after TerminateProcess;   *)
(* it may refuse the request, and refuse to let it be withdrawn.           *)
(***************************************************************************)
EXTENDS LogRotation, EglStorm, DragDrop, FiniteSets

CONSTANTS
  Archives,      \* what CENTROID_LOG_ARCHIVES may come to
  Threads,       \* threads that write to stderr
  Loggers,       \* those that also write through RunnerLogLine
  MaxBoots,      \* bound: starts of the process
  MaxLines,      \* bound: lines written in a start
  ChattyBoots,   \* bound: the starts in which threads write and fault, and
                 \* the request to be restarted is granted
  PipeRoom,      \* symbols the interposer's pipe holds
  ReadMax,       \* symbols a read takes
  PumpRoom       \* chunks the console's pipe holds

ASSUME ProcessConstants ==
  /\ Archives \subseteq 0 .. MaxArchives /\ Loggers \subseteq Threads
  /\ {MaxBoots, MaxLines} \subseteq Nat
  /\ {PipeRoom, ReadMax, PumpRoom} \subseteq Nat \ {0}

VARIABLES
  disk,          \* generation -> the run whose log it is, 0 for no file
  boot,          \* the number of this start
  proc,          \* how far main.cpp is, and what it decided
  station,       \* what does not change or outlives the process
  threads,       \* what each thread is doing
  pipe,          \* symbols in the interposer's pipe
  chunk,         \* symbols its reader has read and not yet forwarded
  pump,          \* chunks in the console's pipe
  storm,         \* the storm detector, and what a reader of lines would know
  drop,          \* the drop targets
  paused         \* the operator is selecting text in the console

vars == <<disk, boot, proc, station, threads, pipe, chunk, pump, storm, drop,
          paused>>

streams == <<threads, pipe, chunk, pump, storm>>

Line == {<<"a", "b", "n">>, <<"o", "n">>, <<"o", "o", "o", "n">>}

Record == <<"o", "n">>        \* a line of a crash record

\* What Windows has of the request to be started again: nothing, the one it
\* granted, or that one although its withdrawal was tried and failed.
RestartRequest == {"none", "granted", "kept"}

\* Where a thread is: writing a line, or going through ReportAndDie.
CrashStage == <<"stderr", "file", "event", "trace", "dump", "terminate">>
Pc == {"idle", "lock", "logging", "writing"} \cup {CrashStage[i] : i \in 1 .. 6}

Process ==
  [phase : {"off", "rotating", "installing", "creating", "running", "closing"},
   ops : Seq(FileOp), held : Held,
   out : {"inherited", "tee", "file"},   \* where fd 1 and 2 lead; a file or
                                         \* nowhere, neither of which blocks
   console : BOOLEAN,
   wants_file : BOOLEAN, logs : BOOLEAN,   \* and there is a path for it
   handlers : {"none", "stderr", "file"},
   interposed : BOOLEAN, restart : RestartRequest, closed : BOOLEAN,
   latch : BOOLEAN, reported : SUBSET (Threads \X {"file", "event", "dump"}),
   lines : Nat]

Off ==
  [phase |-> "off", ops |-> <<>>, held |-> NothingHeld, out |-> "file",
   console |-> FALSE, wants_file |-> FALSE, logs |-> FALSE,
   handlers |-> "none", interposed |-> FALSE, restart |-> "none",
   closed |-> FALSE, latch |-> FALSE, reported |-> {}, lines |-> 0]

\* archives: CENTROID_LOG_ARCHIVES; ended, closed and restart: how the last
\* process ended, whether the operator had closed it and what Windows had of
\* its request; started: who started this one; held: the last start that
\* found a log held open; logged: the starts that opened a log.
Station ==
  [archives : Archives, ended : {"never", "done", "crash"},
   closed : BOOLEAN, restart : RestartRequest,
   started : {"operator", "windows"}, held : Nat,
   logged : SUBSET Nat]

Idle == [t \in Threads |-> [pc |-> "idle", line |-> <<>>, holds |-> FALSE]]

NewStorm == [detector |-> NewDetector, lines |-> NewDetector, line |-> <<>>]
-----------------------------------------------------------------------------
(***************************************************************************)
(* Starting.                                                               *)
(***************************************************************************)
\* What a launch finds: somebody reads stdout, CENTROID_STDOUT asks for a
\* console, a log file is named, %LOCALAPPDATA% can be had, the parent has a
\* console, a debugger is attached.
Launch ==
  [stdout : BOOLEAN, debug : BOOLEAN, named : BOOLEAN, appdata : BOOLEAN,
   parent : BOOLEAN, debugger : BOOLEAN]

ChooseOutputTarget(l) ==
  IF l.stdout \/ l.debug THEN "inherited" ELSE "file"

\* A named file, or DefaultLogPath's, or none.
HasLogPath(l) == l.named \/ l.appdata

\* Attached to the parent's, or allocated when asked for or under a debugger.
GetsConsole(l) == l.parent \/ l.debug \/ l.debugger

StartProcess(l, held) ==
  LET rotates == ChooseOutputTarget(l) = "file" /\ HasLogPath(l)
  IN [Off EXCEPT
       !.phase = IF rotates THEN "rotating" ELSE "installing",
       !.ops = IF rotates THEN PlanRotation(station.archives) ELSE <<>>,
       !.held = held,
       !.out = IF ChooseOutputTarget(l) = "file" /\ ~GetsConsole(l)
               THEN "file" ELSE "inherited",
       !.console = GetsConsole(l),
       !.wants_file = ChooseOutputTarget(l) = "file",
       !.logs = rotates]

\* The streams of a process that is gone.
NoStreams ==
  /\ threads' = Idle /\ pipe' = <<>> /\ chunk' = <<>> /\ pump' = 0
  /\ storm' = NewStorm

Starts(who) ==
  /\ proc.phase = "off" /\ boot < MaxBoots
  /\ boot' = boot + 1
  /\ \E held \in Held : \E p \in {StartProcess(l, held) : l \in Launch} :
       /\ held # NothingHeld => p.logs /\ disk[held] # 0
       /\ proc' = p
       /\ station' = [station EXCEPT !.started = who,
                        !.held = IF held = NothingHeld THEN @ ELSE boot + 1]
  /\ UNCHANGED <<disk, drop, paused, streams>>

OperatorStarts == Starts("operator")

\* RegisterApplicationRestart is for a crash that no handler ended.
WindowsRestarts ==
  /\ station.ended = "crash" /\ station.restart # "none"
  /\ Starts("windows")

RotateLogs ==
  /\ proc.phase = "rotating" /\ proc.ops # <<>>
  /\ disk' = RotateFile(disk, Head(proc.ops), proc.held)
  /\ proc' = [proc EXCEPT !.ops = Tail(@)]
  /\ UNCHANGED <<boot, station, drop, paused, streams>>

\* Where the streams may lead afterwards.  A tee needs a known stdout handle,
\* which an attached console may or may not have left; if its pipe cannot be
\* made the file is used alone.
RedirectOutcomes(p) == {p.out, "file"} \cup (IF p.console THEN {"tee"} ELSE {})

\* Opening the log truncates it; what cannot be opened is left as it is.
RedirectIOToFile ==
  /\ proc.phase = "rotating" /\ proc.ops = <<>>
  /\ \E out \in RedirectOutcomes(proc), opened \in BOOLEAN :
       /\ opened \/ out = proc.out
       /\ disk' = IF opened THEN [disk EXCEPT ![0] = boot] ELSE disk
       /\ station' = IF opened THEN [station EXCEPT !.logged = @ \cup {boot}]
                     ELSE station
       /\ proc' = [proc EXCEPT !.out = out, !.held = NothingHeld,
                              !.console = FALSE, !.phase = "installing"]
  /\ UNCHANGED <<boot, drop, paused, streams>>

\* A launch that wanted a file and has no path installs none.
InstallCrashHandlers(p) ==
  [p EXCEPT !.handlers = CASE p.logs -> "file"
                           [] ~p.wants_file -> "stderr"
                           [] OTHER -> "none"]

\* The request to be restarted, which Windows may refuse.
ConfigureUnattendedOperation(p, request) == [p EXCEPT !.restart = request]

SetUp ==
  /\ proc.phase = "installing"
  /\ \E request \in {"none", "granted"} :
     /\ request = "none" => boot \notin ChattyBoots
     /\ proc' = [ConfigureUnattendedOperation(InstallCrashHandlers(proc), request)
                EXCEPT !.phase = "creating", !.logs = FALSE,
                       !.wants_file = FALSE, !.console = FALSE]
  /\ UNCHANGED <<disk, boot, station, drop, paused, streams>>

\* The process is gone, with whatever it held.
Ends(how) ==
  /\ proc' = Off /\ paused' = FALSE
  /\ station' = [station EXCEPT !.ended = how, !.closed = proc.closed,
                                !.restart = proc.restart]
  /\ drop' = NoDropTargets
  /\ NoStreams
  /\ UNCHANGED <<disk, boot>>

\* The pipe is put before stderr, or stderr is left as it was.
InstallInterposer(p, done) == [p EXCEPT !.interposed = done]

\* Win32Window::Create makes the engine, or fails and main returns.
CreateWindow ==
  /\ proc.phase = "creating"
  /\ \E done \in BOOLEAN :
       proc' = [InstallInterposer(proc, done) EXCEPT !.phase = "running"]
  /\ drop' = CreateTarget(drop)
  /\ UNCHANGED <<disk, boot, station, paused, streams>>

CreateFails == proc.phase = "creating" /\ Ends("done")
-----------------------------------------------------------------------------
(***************************************************************************)
(* Running: lines on their way to the sinks.                               *)
(***************************************************************************)
Running == proc.phase \in {"running", "closing"}

\* Whether what stderr led to before the runner interposed takes a write now.
SinkAccepts ==
  CASE proc.out = "inherited" -> ~paused
    [] proc.out = "tee" -> pump < PumpRoom
    [] OTHER -> TRUE

\* Room for the line's first symbol taken for room for the line.
StderrAcceptsPart(line) ==
  IF proc.interposed THEN Len(pipe) < PipeRoom ELSE SinkAccepts

StderrAccepts(line) ==
  IF proc.interposed THEN Len(pipe) + Len(line) <= PipeRoom ELSE SinkAccepts

\* A line has gone to fd 2.
PutOnStderr(line) ==
  IF proc.interposed THEN pipe' = pipe \o line /\ UNCHANGED pump
  ELSE /\ pump' = IF proc.out = "tee" THEN pump + 1 ELSE pump
       /\ UNCHANGED pipe

\* LogMutex is held while a line of the runner's log goes to stderr, and for
\* good by a thread that faults there.
LockFree == \A t \in Loggers : ~threads[t].holds

\* A thread has something to say, to stderr or through RunnerLogLine.
WritesLine(t) ==
  /\ proc.phase = "running" /\ threads[t].pc = "idle"
  /\ boot \in ChattyBoots /\ proc.lines < MaxLines
  /\ \E line \in Line, pc \in {"lock", "writing"} :
       /\ pc = "lock" => t \in Loggers
       /\ threads' = [threads EXCEPT ![t].pc = pc, ![t].line = line]
  /\ proc' = [proc EXCEPT !.lines = @ + 1]
  /\ UNCHANGED <<disk, boot, station, drop, paused, pipe, chunk, pump, storm>>

TakesLock(t) ==
  /\ threads[t].pc = "lock" /\ LockFree
  /\ threads' = [threads EXCEPT ![t].pc = "logging", ![t].holds = TRUE]
  /\ UNCHANGED <<disk, boot, proc, station, drop, paused, pipe, chunk, pump,
                 storm>>

LineWritten(t) ==
  /\ threads[t].pc \in {"logging", "writing"}
  /\ StderrAccepts(threads[t].line)
  /\ PutOnStderr(threads[t].line)
  /\ threads' = [threads EXCEPT ![t] = Idle[t]]
  /\ UNCHANGED <<disk, boot, proc, station, drop, paused, chunk, storm>>

ReaderReads ==
  /\ pipe # <<>> /\ chunk = <<>>
  /\ \E k \in 1 .. ReadMax :
       /\ k <= Len(pipe)
       /\ chunk' = SubSeq(pipe, 1, k)
       /\ pipe' = SubSeq(pipe, k + 1, Len(pipe))
  /\ UNCHANGED <<disk, boot, proc, station, drop, paused, threads, pump,
                 storm>>

\* What a reader of whole lines would have made of the same symbols.
ReadsLines(s, c) ==
  IF c = "n"
    THEN [s EXCEPT !.lines = OnLine(@, s.line).detector, !.line = <<>>]
    ELSE [s EXCEPT !.line = Append(@, c)]

Reading(s, data) ==
  LET read[i \in 0 .. Len(data)] ==
        IF i = 0 THEN s ELSE ReadsLines(read[i - 1], data[i])
  IN read

\* The loop forwards before it looks: while the sink blocks, nothing is seen.
ReaderForwards ==
  /\ chunk # <<>> /\ SinkAccepts
  /\ pump' = IF proc.out = "tee" THEN pump + 1 ELSE pump
  /\ chunk' = <<>>
  /\ storm' = [Reading(storm, chunk)[Len(chunk)] EXCEPT
                 !.detector = OnBytes(storm.detector, chunk).detector]
  /\ UNCHANGED <<disk, boot, proc, station, drop, paused, threads, pipe>>

\* The thread of RedirectIOToFile writes to the console first, then the log.
PumpForwards ==
  /\ pump > 0 /\ ~paused
  /\ pump' = pump - 1
  /\ UNCHANGED <<disk, boot, proc, station, drop, paused, threads, pipe, chunk,
                 storm>>

TimePasses ==
  /\ Running /\ boot \in ChattyBoots
  /\ storm' = [storm EXCEPT !.detector = AgeDetector(@),
                            !.lines = AgeDetector(@)]
  /\ UNCHANGED <<disk, boot, proc, station, drop, paused, threads, pipe, chunk,
                 pump>>

OperatorSelects ==
  /\ Running /\ boot \in ChattyBoots /\ proc.out \in {"inherited", "tee"}
  /\ paused' = ~paused
  /\ UNCHANGED <<disk, boot, proc, station, drop, streams>>

\* PerformEngineRebuild, as far as the drop targets go.
EngineRebuilt ==
  /\ proc.phase = "running"
  /\ drop' = CreateTarget(DestroyTarget(drop))
  /\ UNCHANGED <<disk, boot, proc, station, paused, streams>>
-----------------------------------------------------------------------------
(***************************************************************************)
(* Ending.                                                                 *)
(***************************************************************************)
NextStage(pc) ==
  CrashStage[(CHOOSE i \in 1 .. 5 : CrashStage[i] = pc) + 1]

\* Every thread that faults reports.
EnterUnlatched(p) == "stderr"

\* A record that goes through RunnerLogLine, which is not reentrant.
EnterThroughLog(p) == IF p.latch THEN "terminate" ELSE "lock"

\* CrashLatch: the first thread reports, the others go straight to the end.
Enter(p) == IF p.latch THEN "terminate" ELSE "stderr"

\* A fault a handler sees: SehFilter, TerminateHandler, SignalHandler and the
\* CRT's two.  A thread inside a handler may fault again.
Faults(t) ==
  /\ proc.phase \notin {"off", "rotating", "installing"}
  /\ proc.handlers # "none" /\ boot \in ChattyBoots
  /\ threads[t].pc # "terminate"
  /\ threads' = [threads EXCEPT ![t].pc = Enter(proc), ![t].line = Record]
  /\ proc' = [proc EXCEPT !.latch = TRUE]
  /\ UNCHANGED <<disk, boot, station, drop, paused, pipe, chunk, pump, storm>>

\* A line of the report; WriteRecord puts it on stderr before the file.
PutRecord(t) ==
  /\ StderrAccepts(Record) /\ PutOnStderr(Record)
  /\ threads' = [threads EXCEPT ![t].pc = NextStage(@)]
  /\ UNCHANGED <<disk, boot, proc, station, drop, paused, chunk, storm>>

\* A place a record goes to, if it can be had.
Report(t, had) ==
  /\ proc' = IF had THEN [proc EXCEPT !.reported = @ \cup {<<t, threads[t].pc>>}]
             ELSE proc
  /\ threads' = [threads EXCEPT ![t].pc = NextStage(@)]
  /\ UNCHANGED <<disk, boot, station, drop, paused, pipe, chunk, pump, storm>>

WriteRecord(t) == threads[t].pc = "stderr" /\ PutRecord(t)

AppendToLogFile(t) ==
  threads[t].pc = "file" /\ Report(t, proc.handlers = "file")

ReportToEventLog(t) == threads[t].pc = "event" /\ Report(t, TRUE)

WriteStackTrace(t) == threads[t].pc = "trace" /\ PutRecord(t)

WriteMinidump(t) ==
  /\ threads[t].pc = "dump"
  /\ \E written \in BOOLEAN : Report(t, written)

\* TerminateProcess: for Windows this is no crash.
Terminates(t) == threads[t].pc = "terminate" /\ Ends("done")

\* A fail-fast bypasses the handlers; without handlers every fault is one.
FailsFast == proc.phase # "off" /\ Ends("crash")

\* Power loss, or somebody ends the task.
Killed == proc.phase # "off" /\ Ends("done")

\* The close that left the request with Windows for the teardown to withdraw.
WindowDestroyedLate(p, left) ==
  [p EXCEPT !.closed = TRUE, !.phase = "closing"]

\* ShutdownPolicy::WindowDestroyed: the request is withdrawn before anything
\* is torn down.
WindowDestroyed(p, left) ==
  [p EXCEPT !.closed = TRUE, !.phase = "closing", !.restart = left]

\* WM_DESTROY reaches FlutterWindow first.  A withdrawal that fails is logged,
\* and the teardown goes on with the request still at Windows.
CloseWindow ==
  /\ proc.phase = "running"
  /\ \E left \in {"none", "kept"} :
       /\ left = "kept" => proc.restart # "none"
       /\ proc' = WindowDestroyed(proc, left)
  /\ UNCHANGED <<disk, boot, station, drop, paused, streams>>

\* Win32Window::Destroy and OnDestroy take the engine and its plugins down;
\* then LoopEnded and EndProcessWithoutTeardown.
LoopEnds == proc.phase = "closing" /\ Ends("done")

Init ==
  /\ disk = [g \in Generation |-> 0] /\ boot = 0 /\ proc = Off
  /\ station \in [archives : Archives, ended : {"never"}, closed : {FALSE},
                  restart : {"none"}, started : {"operator"}, held : {0},
                  logged : {{}}]
  /\ threads = Idle /\ pipe = <<>> /\ chunk = <<>> /\ pump = 0
  /\ storm = NewStorm /\ drop = NoDropTargets /\ paused = FALSE

Starting ==
  \/ OperatorStarts \/ WindowsRestarts \/ RotateLogs \/ RedirectIOToFile
  \/ SetUp \/ CreateWindow \/ CreateFails

Streaming ==
  \/ \E t \in Threads : WritesLine(t) \/ TakesLock(t) \/ LineWritten(t)
  \/ ReaderReads \/ ReaderForwards \/ PumpForwards
  \/ TimePasses \/ OperatorSelects \/ EngineRebuilt

Ending ==
  \/ \E t \in Threads :
       \/ Faults(t) \/ WriteRecord(t) \/ AppendToLogFile(t)
       \/ ReportToEventLog(t) \/ WriteStackTrace(t) \/ WriteMinidump(t)
       \/ Terminates(t)
  \/ FailsFast \/ Killed \/ CloseWindow \/ LoopEnds

Next == Starting \/ Streaming \/ Ending

\* A thread that can go on does, as far as its own state goes.
ThreadTurn(t) ==
  /\ CASE threads[t].pc = "idle" -> FALSE
       [] threads[t].pc = "lock" -> LockFree
       [] threads[t].pc \in {"logging", "writing", "stderr", "trace"} ->
            StderrAccepts(threads[t].line)
       [] OTHER -> TRUE
  /\ \E pc \in {threads[t].pc} :
       threads' = CASE pc = "lock" -> [threads EXCEPT ![t].pc = "logging",
                                                  ![t].holds = TRUE]
                    [] pc \in {"logging", "writing"} ->
                          [threads EXCEPT ![t] = Idle[t]]
                    [] pc = "terminate" -> Idle
                    [] OTHER -> [threads EXCEPT ![t].pc = NextStage(pc)]

\* The two threads that only forward, as far as their own state goes.
ReaderTurn ==
  \/ /\ chunk = <<>> /\ pipe # <<>>
     /\ \E k \in 1 .. ReadMax :
          k <= Len(pipe) /\ chunk' = SubSeq(pipe, 1, k)
  \/ chunk # <<>> /\ SinkAccepts /\ chunk' = <<>>

PumpTurn == pump > 0 /\ ~paused /\ pump' = pump - 1

\* Windows schedules every thread; nobody has to end the selection.
Fairness ==
  /\ \A t \in Threads : WF_threads(ThreadTurn(t))
  /\ WF_chunk(ReaderTurn) /\ WF_pump(PumpTurn)

Spec == Init /\ [][Next]_vars /\ Fairness
-----------------------------------------------------------------------------
(***************************************************************************)
(* Properties.                                                             *)
(***************************************************************************)
\* The types, and of the drop targets that the reference counts add up.
TypeOK ==
  /\ disk \in [Generation -> 0 .. MaxBoots] /\ boot \in 0 .. MaxBoots
  /\ proc \in Process /\ station \in Station
  /\ \A t \in Threads : threads[t].pc \in Pc
  /\ Len(pipe) <= PipeRoom /\ Len(chunk) <= ReadMax /\ pump \in 0 .. PumpRoom
  /\ storm.detector \in Detector /\ drop \in DropState /\ paused \in BOOLEAN

\* The log of a run is on the disk until as many starts as archives are kept
\* have come after it, also when starts are killed in the middle of moving
\* the files; unless a file was held open by somebody when it was to move.
KeptForItsStarts ==
  \A b \in station.logged :
    b >= station.held /\ boot - b <= station.archives =>
      \E g \in Generation : disk[g] = b

\* However the text was cut into chunks and whatever was carried, the storm
\* detector is where it would be had it been given the lines.
DetectorSeesLines ==
  \A f \in {"matches", "age", "quiet"} :
    storm.detector[f] = storm.lines[f]

\* Threads that fault at the same time, and a fault in the report itself,
\* leave one record: no two threads write to the places records go to.
OneCrashRecord ==
  \A x, y \in proc.reported : x[1] = y[1]

\* Across rebuilds of the engine no drop target is released after it was
\* freed, and no registration outlives the engine it was made for.
DropTargetsBalanced == ~drop.use_after_free /\ ~drop.leaked

\* An application its operator closed is not started again by Windows,
\* whatever fails while it is torn down: only a withdrawal that itself failed
\* lets that happen, and then only if a crash no handler ended came before the
\* end of the teardown.
ClosedStaysClosed ==
  [][boot' # boot /\ station'.started = "windows" /\ station.closed =>
       station.restart = "kept" /\ station.ended = "crash"]_vars

\* Nobody waits for ever: whoever writes to stderr, directly or behind the
\* runner log's mutex, is let go, and a fault that reached a handler ends the
\* process; the reader and the pump drain what is in front of them, unless the
\* operator stops the console.
NobodyWaits ==
  \A t \in Threads : threads[t].pc # "idle" ~> threads[t].pc = "idle" \/ paused
=============================================================================
