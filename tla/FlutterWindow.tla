---------------------------- MODULE FlutterWindow ----------------------------
(***************************************************************************)
(* flutter_window.cpp of the Windows runner: the window that hosts the     *)
(* Flutter engine, notices that its renderer is lost and rebuilds the      *)
(* engine or ends the process.                                             *)
(*                                                                         *)
(* Two threads.  The platform thread handles one message at a time: sent   *)
(* ticks, posted messages, calls from the engine, window messages.  The    *)
(* timer thread sends a tick every period and waits for its answer, but    *)
(* not for ever: after kUnansweredSendsBeforeWedged ticks without an       *)
(* answer it ends the process itself.  StopWatchdogTimer makes the         *)
(* platform thread wait for the timer thread, so it may be called while    *)
(* the timer thread waits for the platform thread.                         *)
(*                                                                         *)
(* A handler is an operator that maps the window to the window it leaves;  *)
(* an action applies one handler.  What the code cannot foresee, whether   *)
(* an engine can be created or an action fails, is an argument.            *)
(***************************************************************************)
EXTENDS RebuildGate, SessionPolicy, DartLiveness, GpuWatchdog, Sequences

CONSTANTS
  Policies,      \* what CENTROID_GPU_ON_LOSS may say
  WedgeAfter,    \* kUnansweredSendsBeforeWedged
  MaxEvents,     \* bound: what happens to the station from outside
  MaxPosted      \* bound: posted messages waiting at a time

ASSUME WindowConstants ==
  /\ Policies \subseteq LossPolicy
  /\ WedgeAfter \in Nat \ {0} /\ MaxEvents \in Nat /\ MaxPosted \in Nat \ {0}

VARIABLES
  window,        \* what the platform thread owns
  posted,        \* the messages posted to it
  thread,        \* the timer thread: idle, or sending a tick
  ticks,         \* ticks sent and not yet handled, the awaited one is the last
  unanswered,    \* unanswered_sends_
  hung,          \* the platform thread does not pump messages
  events         \* how many of the MaxEvents are left

vars == <<window, posted, thread, ticks, unanswered, hung, events>>

\* The platform thread inside DeleteTimerQueueTimer, by what called it:
\* ExitAfterDeviceLoss, OnDestroy or DisableWatchdog.
Stopping == {"stop_exit", "stop_close", "stop_disarm"}

Phase == Stopping \cup
  {"starting", "running", "quit", "ended", "failed_start", "wedged"}

Message == {"rebuild_due", "raster_loss", "egl_storm"}

Window ==
  [phase : Phase,
   enabled : BOOLEAN,                          \* watchdog_enabled_
   engine : {"none", "live"},                  \* flutter_controller_
   probe_armed : BOOLEAN,                      \* probe_armed_
   callback : {"none", "armed", "posted", "overwritten"},
                                               \* the engine's next-frame slot
   main_seen : BOOLEAN,                        \* dart_main_seen_
   sentinel : {"unavailable", "watched", "removed"},    \* device_probe_
   period : Nat, due : Nat,                    \* the timer; period 0: none
   withdrawn : BOOLEAN,                        \* restart_withdrawn_
   gate : Gate, session : SessionState, live : Watch, dog : Watchdog]

\* What creating an engine comes to: it fails, or it succeeds and the
\* sentinel device made after it can be had or not.
Outcome == {"failed", "watched", "unavailable"}

\* What goes wrong in an action of the watchdog: it throws, or the timer queue
\* refuses its period.
Fault == {"none", "throws", "refused"}
-----------------------------------------------------------------------------
(***************************************************************************)
(* Arguments of a channel call: a missing or wrongly typed field reads as  *)
(* its fallback.  An epoch is this engine's, another's, or not given.      *)
(***************************************************************************)
IntArg(args, name, fallback) ==
  IF name \in DOMAIN args THEN args[name] ELSE fallback

BoolArg(args, name) == name \in DOMAIN args /\ args[name]

EpochArgs == {<<>>, [epoch |-> "this"], [epoch |-> "other"]}

\* A stamp of a Dart build that probes the raster and of one that does not.
StampArgs ==
  [epoch : {"this", "other"}, rasterProbed : {TRUE}, rasterOk : BOOLEAN]
    \cup {<<>>}
-----------------------------------------------------------------------------
(***************************************************************************)
(* The methods handlers are made of.                                       *)
(***************************************************************************)
UpdateWatchdogJudgeable(w) ==
  [w EXCEPT !.dog = SetJudgeable(@, w.main_seen /\ ~w.gate.queued)]

\* The slot of the engine takes one callback: a second one before the first
\* has run leaves an empty std::function to be called.
SetNextFrameCallback(slot) == IF slot = "none" THEN "armed" ELSE "overwritten"

\* A probe that arms the callback again on every tick.
StartProbeAlways(w) ==
  IF w.engine = "none" THEN w
  ELSE [w EXCEPT !.probe_armed = TRUE, !.callback = SetNextFrameCallback(@)]

StartProbe(w) ==
  IF w.engine = "none" \/ w.probe_armed THEN w
  ELSE [w EXCEPT !.probe_armed = TRUE, !.callback = SetNextFrameCallback(@)]

\* Everything of the old engine but the window's own state is gone with it.
DestroyController(w) ==
  [w EXCEPT !.engine = "none", !.probe_armed = FALSE, !.callback = "none"]

CreateController(w, created) ==
  LET begun == UpdateWatchdogJudgeable(
                 [w EXCEPT !.gate = GateEngineCreated(@),
                           !.main_seen = FALSE])
      watched == [begun EXCEPT !.live = EpochStarted]
  IN IF created = "failed" THEN [watched EXCEPT !.engine = "none"]
     ELSE [watched EXCEPT !.engine = "live", !.probe_armed = TRUE,
                          !.callback = SetNextFrameCallback("none"),
                          !.session = SessionEngineCreated(@)]

\* A rebuild that does not ask whether there is an engine to replace.
PerformEngineRebuildAlways(w, created) ==
  LET built == CreateController(DestroyController(w), created)
  IN UpdateWatchdogJudgeable([built EXCEPT !.sentinel =
       IF created = "failed" THEN @ ELSE created])

\* The sentinel is made again only beside an engine that was.
PerformEngineRebuild(w, created) ==
  IF w.engine = "none" THEN w
  ELSE LET built == CreateController(DestroyController(w), created)
       IN UpdateWatchdogJudgeable(
            IF built.engine = "none" THEN built
            ELSE [built EXCEPT !.sentinel = created])

RequestEngineRebuild(w, created) ==
  IF ~w.enabled \/ w.engine = "none" THEN w
  ELSE LET d == GateRequest(w.gate)
           asked == [w EXCEPT !.gate = d.gate]
       IN IF d.verdict = "rebuild" THEN PerformEngineRebuild(asked, created)
          ELSE UpdateWatchdogJudgeable(asked)

\* Changing the period restarts the countdown, asking for the same does not.
SetWatchdogPeriod(w, period) ==
  IF w.period = 0 \/ period \in {0, w.period} THEN w
  ELSE [w EXCEPT !.period = period, !.due = period]

StartWatchdogTimer(w, period) ==
  IF w.period # 0 THEN SetWatchdogPeriod(w, period)
  ELSE [w EXCEPT !.period = period, !.due = period]

\* The two that end in StopWatchdogTimer leave the rest to TimerStopped.
ExitAfterDeviceLoss(w) == [w EXCEPT !.phase = "stop_exit"]

\* Stops the timer and leaves the watchdog believing it watches.
StopOnly(w) == [w EXCEPT !.phase = "stop_disarm"]

DisableWatchdog(w) ==
  [w EXCEPT !.dog = Disable(@), !.phase = "stop_disarm"]

ApplyAction(w, a, created) ==
  IF a.exit THEN ExitAfterDeviceLoss(w)
  ELSE LET rebuilt == IF a.restart THEN RequestEngineRebuild(w, created)
                      ELSE w
           probed == IF a.probe THEN StartProbe(rebuilt) ELSE rebuilt
       IN IF a.period = 0 THEN probed ELSE SetWatchdogPeriod(probed, a.period)

\* A period that ChangeTimerQueueTimer refuses is logged and stays as it was.
Done(a, fault) == IF fault = "refused" THEN [a EXCEPT !.period = 0] ELSE a

\* r is what the watchdog answered the event with.  An action that throws is
\* taken to throw at its first step, the report.
Dispatch(w, r, created, fault) ==
  CASE ~w.enabled \/ w.dog.disabled -> w
    [] w.enabled /\ ~w.dog.disabled /\ fault = "throws" ->
         DisableWatchdog([w EXCEPT !.dog = r.dog])
    [] OTHER ->
         ApplyAction([w EXCEPT !.dog = r.dog], Done(r.action, fault), created)

CheckRenderAdapter(reported, current) ==
  ClassifyAdapterCheck("none", reported, current)

HandleSessionDecision(w, rebuild, created) ==
  IF rebuild THEN RequestEngineRebuild(w, created) ELSE w

RenderDeviceIsLost(w) == w.sentinel = "removed"
-----------------------------------------------------------------------------
(***************************************************************************)
(* The handlers.                                                           *)
(***************************************************************************)
Poll(w, created) ==
  LET d == GatePoll(w.gate)
  IN IF d.verdict = "rebuild"
     THEN PerformEngineRebuild([w EXCEPT !.gate = d.gate], created)
     ELSE w

\* A released rebuild or an overdue probation is the whole of a tick.
Tick(v, created, fault) ==
  LET w == [v EXCEPT !.dog = ConsumeJudgementHoldExpired(@)]
  IN CASE PollReleases(w.gate) -> Poll(w, created)
       [] ~PollReleases(w.gate) /\ ProbationOver(w.session) ->
            HandleSessionDecision([w EXCEPT !.session = SessionTick(@)],
                                  TRUE, created)
       [] OTHER ->
            Dispatch(w,
                     IF RenderDeviceIsLost(w) THEN OnRendererLost(w.dog)
                     ELSE OnTick(w.dog),
                     created, fault)

LossMessage(w, created, fault) ==
  IF ~w.enabled \/ w.engine = "none" THEN w
  ELSE Dispatch(w, OnRendererLost(w.dog), created, fault)

OnFramePresented(w, fault) ==
  LET free == [w EXCEPT !.probe_armed = FALSE, !.callback = "none"]
      judged == Dispatch(free, WatchdogFrame(free.dog), "failed", fault)
  IN [judged EXCEPT !.session = SessionFrame(@)]

Hint(w, fault) == Dispatch(w, OnDeviceLossHint(w.dog), "failed", fault)

\* A main() of a generation that is gone would be believed as well.
OnMainStarting(w) == UpdateWatchdogJudgeable([w EXCEPT !.main_seen = TRUE])

OurEpoch(args) == IntArg(args, "epoch", "none") = "this"

OnStartupComplete(w, args) ==
  IF OurEpoch(args) THEN [w EXCEPT !.gate = GateStartupComplete(@)] ELSE w

OnLivenessStamp(w, args) ==
  [w EXCEPT !.live =
     OnStamp(@, IntArg(args, "epoch", "none") # "other",
             BoolArg(args, "rasterProbed"), BoolArg(args, "rasterOk"))]

\* Everything behind the window has one unit of time less.
Age(w) ==
  [w EXCEPT !.gate = AgeGate(@), !.session = AgeSession(@),
            !.live = AgeWatch(@), !.dog = AgeWatchdog(@),
            !.due = IF @ > 0 THEN @ - 1 ELSE 0]
-----------------------------------------------------------------------------
NewWindow(enabled, policy) ==
  [phase |-> "starting", enabled |-> enabled, engine |-> "none",
   probe_armed |-> FALSE, callback |-> "none", main_seen |-> FALSE,
   sentinel |-> "unavailable", period |-> 0, due |-> 0, withdrawn |-> FALSE,
   gate |-> NewGate, session |-> NewSession,
   live |-> EpochStarted, dog |-> NewWatchdog(policy)]

Init ==
  /\ \E enabled \in BOOLEAN, policy \in Policies :
       window = NewWindow(enabled, policy)
  /\ posted = <<>>
  /\ thread = "idle" /\ ticks = 0 /\ unanswered = 0
  /\ hung = FALSE /\ events = MaxEvents

\* The platform thread takes a message.
Pumping == window.phase \in {"running", "quit"} /\ ~hung

InEngineCall == Pumping /\ window.phase = "running" /\ window.engine = "live"

\* Something from outside, at most MaxEvents times.
Happens == events > 0 /\ events' = events - 1

Room == Len(posted) < MaxPosted

PostIf(condition, message) ==
  posted' = IF condition THEN Append(posted, message) ELSE posted

\* What goes wrong is an event too: an engine or a sentinel that cannot be had,
\* an action of the watchdog that fails.
Inputs(created, fault) ==
  LET faults == (IF created # "watched" THEN 1 ELSE 0)
                  + (IF fault # "none" THEN 1 ELSE 0)
  IN /\ events >= faults /\ events' = events - faults

TimerUnchanged == UNCHANGED <<thread, ticks, unanswered, hung>>

PlatformOnly == TimerUnchanged /\ UNCHANGED posted
-----------------------------------------------------------------------------
\* The window comes up: engine, sentinel, storm detector, first tick.
OnCreate ==
  /\ window.phase = "starting"
  /\ \E created \in Outcome, storm, timer \in BOOLEAN :
       LET built == CreateController(window, created)
           armed == [built EXCEPT !.phase = "running", !.sentinel = created,
                                  !.session.storm_detector = storm,
                                  !.dog = OnStarted(@).dog]
       IN window' =
            CASE created = "failed" -> [built EXCEPT !.phase = "failed_start"]
              [] created # "failed" /\ ~window.enabled ->
                   [built EXCEPT !.phase = "running"]
              [] created # "failed" /\ window.enabled /\ timer ->
                   StartWatchdogTimer(StartProbe(armed), ProbeInterval)
              [] OTHER -> DisableWatchdog(StartProbe(armed))
  /\ UNCHANGED events /\ PlatformOnly

\* The renderer presents the frame the armed callback waits for.
EngineDraws ==
  /\ window.phase = "running" /\ window.callback = "armed"
  /\ window' = [window EXCEPT !.callback = "posted"]
  /\ UNCHANGED events /\ PlatformOnly

FramePresented ==
  /\ InEngineCall /\ window.callback = "posted"
  /\ \E fault \in Fault :
       /\ Inputs("watched", fault)
       /\ window' = OnFramePresented(window, fault)
  /\ PlatformOnly

MainStarting ==
  /\ InEngineCall /\ ~window.main_seen
  /\ window' = OnMainStarting(window)
  /\ UNCHANGED events /\ PlatformOnly

StartupComplete ==
  /\ InEngineCall /\ window.main_seen /\ window.gate.startup_in_flight /\ Room
  /\ \E args \in EpochArgs :
       /\ window' = OnStartupComplete(window, args)
       /\ PostIf(OurEpoch(args) /\ window.gate.queued, "rebuild_due")
  /\ UNCHANGED events /\ TimerUnchanged

LivenessStamp ==
  /\ InEngineCall /\ window.main_seen /\ ~window.live.stamped /\ Room
  /\ \E args \in StampArgs : window' = OnLivenessStamp(window, args)
  /\ PostIf(RasterLost(window.live, window'.live), "raster_loss")
  /\ UNCHANGED events /\ TimerUnchanged

\* The message at the head of the queue; sent ticks come before posted ones.
HandlePosted ==
  /\ Pumping /\ ticks = 0 /\ posted # <<>>
  /\ posted' = Tail(posted)
  /\ \E created \in Outcome, fault \in Fault :
       /\ Inputs(created, fault)
       /\ window' = IF Head(posted) = "rebuild_due" THEN Poll(window, created)
                    ELSE LossMessage(window, created, fault)
  /\ TimerUnchanged

\* The stderr reader counted enough lost contexts.
Storm ==
  /\ window.phase = "running" /\ window.session.storm_detector
  /\ Room /\ Happens
  /\ PostIf(TRUE, "egl_storm")
  /\ UNCHANGED window /\ TimerUnchanged

PowerResume ==
  /\ InEngineCall /\ window.enabled /\ Happens
  /\ window' = RequestEngineRebuild(Hint(window, "none"), "watched")
  /\ PlatformOnly

DisplayChange ==
  /\ InEngineCall /\ window.enabled /\ Happens
  /\ window' = Hint(window, "none")
  /\ PlatformOnly

\* A console change or an unlock is only a hint, as a display change is.
SessionChange ==
  /\ InEngineCall /\ window.enabled /\ Happens
  /\ \E reported \in {"none", "a"}, current \in {"a", "b"} :
       LET w == Hint(window, "none")
           c == OnRemoteConnect(w.session, CheckRenderAdapter(reported, current))
       IN \/ window' = HandleSessionDecision([w EXCEPT !.session = c.policy],
                                             c.rebuild, "watched")
          \/ window' = [w EXCEPT !.session = OnRemoteDisconnect(@)]
  /\ PlatformOnly

DeviceRemoved ==
  /\ window.phase = "running" /\ window.sentinel = "watched" /\ Happens
  /\ window' = [window EXCEPT !.sentinel = "removed"]
  /\ PlatformOnly

Hang ==
  /\ window.phase = "running" /\ ~hung /\ Happens
  /\ hung' = TRUE /\ UNCHANGED <<window, posted, thread, ticks, unanswered>>

Recover ==
  /\ window.phase = "running" /\ hung /\ hung' = FALSE
  /\ UNCHANGED <<window, posted, thread, ticks, unanswered, events>>

\* WM_DESTROY: the restart is withdrawn before anything is torn down.
Close ==
  /\ Pumping /\ window.phase = "running" /\ Happens
  /\ window' = [window EXCEPT !.withdrawn = TRUE, !.phase = "stop_close"]
  /\ PlatformOnly
-----------------------------------------------------------------------------
\* The callback of the timer: stop flag and window are read, then it sends.
TimerFires ==
  /\ window.phase = "running" /\ window.period > 0 /\ window.due = 0
  /\ thread = "idle" /\ thread' = "sending"
  /\ ticks' = ticks + 1
  /\ window' = [window EXCEPT !.due = window.period]
  /\ UNCHANGED <<posted, unanswered, hung, events>>

\* The oldest tick first.  The timer
\* thread gets its answer when the handler of its own tick returns, and none
\* from a handler that waits for the timer thread.
HandleTick ==
  /\ Pumping /\ ticks > 0
  /\ \E created \in Outcome, fault \in Fault :
       /\ Inputs(created, fault)
       /\ window' = Tick(window, created, fault)
  /\ ticks' = ticks - 1
  /\ IF ticks = 1 /\ thread = "sending" /\ window'.phase \notin Stopping
     THEN thread' = "idle" /\ unanswered' = 0
     ELSE UNCHANGED <<thread, unanswered>>
  /\ UNCHANGED <<posted, hung>>

\* Waits for an answer as long as the platform thread waits for it.
OnlyHungKeepsSilent == hung

NoAnswerComes == hung \/ window.phase \in Stopping

\* One unanswered tick too late.
IsWedgedLate(count) == count > WedgeAfter

IsWedged(count) == count >= WedgeAfter

\* The tick stays in the queue of the platform thread when nobody waits for it
\* any more.  The last straw ends the process from this thread.
SendTimesOut ==
  /\ thread = "sending" /\ NoAnswerComes
  /\ thread' = "idle"
  /\ IF IsWedged(unanswered + 1)
     THEN /\ unanswered' = 0
          /\ window' = [window EXCEPT !.phase = "wedged"]
     ELSE unanswered' = unanswered + 1 /\ UNCHANGED window
  /\ UNCHANGED <<posted, ticks, hung, events>>

\* DeleteTimerQueueTimer returns once no callback runs; the caller goes on.
TimerStopped ==
  /\ window.phase \in Stopping /\ thread = "idle"
  /\ LET w == [window EXCEPT !.period = 0, !.due = 0]
     IN window' = IF w.phase = "stop_disarm" THEN [w EXCEPT !.phase = "running"]
                  ELSE [DestroyController(w) EXCEPT !.phase = "quit"]
  /\ ticks' = IF window.phase = "stop_close" THEN 0 ELSE ticks
  /\ UNCHANGED <<posted, thread, unanswered, hung, events>>

\* WM_QUIT comes after everything posted and sent.
LoopEnds ==
  /\ Pumping /\ window.phase = "quit" /\ posted = <<>> /\ ticks = 0
  /\ window' = [window EXCEPT !.phase = "ended"]
  /\ UNCHANGED events /\ PlatformOnly

\* Time waits for the timer thread: a tick that is due is sent, and a send
\* is answered or times out (4 s) before the next unit (5 s) is over.
Elapse ==
  /\ window.phase = "running" /\ thread = "idle"
  /\ window.period > 0 => window.due > 0
  /\ window' = Age(window)
  /\ UNCHANGED events /\ PlatformOnly

PlatformStep ==
  \/ OnCreate \/ FramePresented \/ MainStarting \/ StartupComplete
  \/ LivenessStamp \/ HandlePosted \/ PowerResume \/ DisplayChange
  \/ SessionChange \/ Close \/ HandleTick \/ TimerStopped \/ LoopEnds

Next ==
  \/ PlatformStep \/ EngineDraws \/ Storm \/ DeviceRemoved \/ Hang \/ Recover
  \/ TimerFires \/ SendTimesOut \/ Elapse

\* A platform thread that pumps takes the ticks, and the posted messages when
\* there is no tick: the only steps that take one off the queue are those of
\* HandleTick and HandlePosted, which are enabled exactly then.
TickTaken == Pumping /\ ticks > 0 /\ ticks' = ticks - 1

PostedTaken ==
  Pumping /\ ticks = 0 /\ posted # <<>> /\ posted' = Tail(posted)

\* Time passes, the timer thread runs, and the platform thread takes its
\* messages.  Nothing obliges the engine to draw, Dart to report, a hung
\* thread to recover or the user to close the window.
Fairness ==
  /\ WF_vars(Elapse)
  /\ WF_vars(TimerFires \/ SendTimesOut)
  /\ WF_vars(OnCreate \/ TimerStopped \/ LoopEnds)
  /\ WF_ticks(TickTaken) /\ WF_posted(PostedTaken)

Spec == Init /\ [][Next]_vars /\ Fairness
-----------------------------------------------------------------------------
\* The types of the variables; no more ticks wait than were left unanswered,
\* and the one being sent.
TypeOK ==
  /\ window \in Window
  /\ posted \in Seq(Message) /\ Len(posted) <= MaxPosted
  /\ thread \in {"idle", "sending"}
  /\ ticks \in 0 .. WedgeAfter /\ unanswered \in 0 .. WedgeAfter - 1
  /\ hung \in BOOLEAN /\ events \in 0 .. MaxEvents

\* The probe flag says exactly whether the slot of the live engine is taken,
\* through rebuilds, failed rebuilds and exits: the callback is never set
\* twice (std::bad_function_call), and a free slot is never taken for one
\* that is still armed, which would end the probing (StartProbe).
FrameCallbackArmedOnce ==
  /\ window.probe_armed <=> window.callback # "none"
  /\ window.callback # "overwritten"
  /\ window.engine = "none" => window.callback = "none"

\* A watchdog that has not given up has a timer that ticks, whatever failed,
\* threw or was stopped: nothing leaves the window unwatched without saying
\* so (DisableWatchdog).
WatchingTicks ==
  (window.phase = "running" /\ window.enabled /\ ~window.dog.disabled)
    => window.period > 0

\* Once the quit is posted no engine exists, whatever messages are still
\* handled before the loop ends; and a window that was closed had its
\* crash restart withdrawn before the engine was torn down.
NoEngineAfterQuit ==
  /\ window.phase \in {"quit", "ended"} => window.engine = "none"
  /\ window.phase = "stop_close" => window.withdrawn

\* No rebuild interrupts a startup that is in flight and not timed out,
\* whoever asked for it: the watchdog, a session change, a power resume, a
\* posted message or the tick.
StartupNotInterrupted ==
  [][StartupBlocking(window.gate) /\ window'.engine = "live"
       => /\ window'.gate.startup_left <= window.gate.startup_left
          /\ window.main_seen => window'.main_seen]_vars

Watching ==
  /\ window.phase = "running" /\ window.enabled
  /\ ~window.dog.disabled /\ window.dog.on_loss # "log"

\* A watchdog that acts is answered by a frame or stops watching, which it
\* does by ending the process, or because it was disarmed: holds, queued
\* rebuilds and failed rebuilds do not silence it for ever.
RendererWatched == Watching ~> (~Watching \/ ~window.dog.probe_outstanding)

Ticking == window.phase = "running" /\ window.period > 0

\* While the timer ticks a queued rebuild is released, whether or not Dart
\* ever reports that its startup is complete.
QueuedRebuildRuns ==
  (Ticking /\ window.gate.queued) ~> (~Ticking \/ ~window.gate.queued)

\* The platform thread waits for the timer thread while the timer thread
\* waits for its answer: neither waits for ever.
StopReturns == (window.phase \in Stopping) ~> (window.phase \notin Stopping)

\* UpdateWatchdogJudgeable in RequestEngineRebuild is there so that a queue
\* that drains does not push the watchdog to its limit: the process is not
\* given up because of recoveries that were asked for and not yet made.
NotExhaustedInQueue ==
  [][window.gate.queued /\ StartupBlocking(window.gate)
       => ~(window.dog.attempts = MaxAttempts /\ window'.phase = "stop_exit")
    ]_vars
=============================================================================
